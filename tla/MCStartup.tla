----------------------------- MODULE MCStartup -----------------------------
(***************************************************************************)
(* Command lines for Startup: up to three uses of options in any order, in *)
(* their short and long forms, and some longer lines.                      *)
(***************************************************************************)
EXTENDS Startup, SequencesExt

Short(word, opt, attached) == word :> [opt |-> opt, long |-> FALSE, attached |-> attached]
Long(word, opt, attached)  == word :> [opt |-> opt, long |-> TRUE, attached |-> attached]

Words ==
    Short("-p", "p", <<>>) @@ Short("-p40000", "p", <<"40000">>) @@ Long("--port", "p", <<>>)
    @@ Long("--po", "p", <<>>) @@ Long("--port=70000", "p", <<"70000">>)
    @@ Short("-u", "u", <<>>) @@ Long("--uid", "u", <<>>) @@ Long("--gid", "g", <<>>)
    @@ Long("--gid=2", "g", <<"2">>) @@ Short("-r", "r", <<>>) @@ Long("--change-root", "r", <<>>)
    @@ Long("--default-page=", "z", <<"">>) @@ Long("--default-page", "z", <<>>)
    @@ Long("--document-root", "y", <<>>) @@ Long("--document-root=x", "y", <<"x">>)
    @@ Short("-l", "l", <<>>) @@ Short("-H", "H", <<>>) @@ Short("-s", "s", <<>>)
    @@ Long("--server-string", "s", <<>>) @@ Short("-D", "D", <<>>) @@ Long("--no-detach", "D", <<>>)
    @@ Long("--no-detach=x", "D", <<"x">>) @@ Short("-d", "d", <<>>) @@ Long("--debug=x", "d", <<"x">>)
    @@ Long("--help", "h", <<>>) @@ Long("--version", "v", <<>>)
    @@ Short("-v", "v", <<>>)           \* not in optstring
    @@ Long("--de", "?", <<>>)          \* --debug or one of two others

Numbers == "2" :> 2 @@ "8080" :> 8080 @@ "40000" :> 40000 @@ "70000" :> 70000

Options == {<<"-p", "8080">>, <<"-p40000">>, <<"--port=70000">>, <<"--po", "x">>, <<"-u", "2">>,
            <<"--uid", "8080">>, <<"--gid=2">>, <<"-r", "">>, <<"--change-root", "x">>,
            <<"--default-page=">>, <<"--default-page", "x">>, <<"--document-root", "">>,
            <<"--document-root=x">>, <<"-l", "">>, <<"-l", "x">>, <<"-H", "x">>, <<"-s", "">>,
            <<"-D">>, <<"--no-detach=x">>, <<"-d">>, <<"--help">>, <<"--de">>, <<"x">>, <<"--">>}

\* Command lines on which --no-detach is followed by something.
NoDetach == {<<"--no-detach", "x", "-d">>, <<"--no-detach", "--port", "8080">>,
             <<"--no-detach", "--", "-D">>, <<"-s", "--no-detach", "-u", "2">>}

Commands == {FlattenSeq(c) : c \in BoundedSeq(Options, 3)} \cup NoDetach \cup
    {<<"--uid">>, <<"-D", "--port">>, <<"--no-detach">>, <<"--version">>, <<"-v">>, <<"--debug=x">>,
     <<"--server-string", "--port", "--port", "8080">>, <<"-p", "8080", "-s", "--", "--gid", "2">>,
     <<"-s", "-s", "--", "-p", "8080">>, <<"-H", "--no-detach", "x", "-u", "-u", "2", "--gid", "8080">>}

=============================================================================
