-------------------------- MODULE MCRequestHandler --------------------------
(***************************************************************************)
(* Small instances of RequestHandler: sets of lines for the cfg files.     *)
(***************************************************************************)
EXTENDS RequestHandler

Req(len, method, version, url_host, path) ==
    [kind |-> "request", len |-> len, method |-> method, major |-> version[1],
     minor |-> version[2], url_host |-> url_host, path |-> path]
Hdr(name, data, time) ==
    [kind |-> "header", len |-> 3, name |-> name, data |-> data, time |-> time,
     fold |-> 0, part |-> ""]
Blank == [kind |-> "blank", len |-> 2]
Junk  == [kind |-> "junk", len |-> 2]

\* Which requests are answered how: every method, version, path and header,
\* with lines too short to be worth splitting.
ContentLines ==
    {Req(2, "GET", <<1, 0>>, FALSE, "/name"), Req(2, "GET", <<1, 1>>, FALSE, "/dir/"),
     Req(2, "GET", <<0, 9>>, TRUE, "/name%41"), Req(2, "GET", <<1, 1>>, TRUE, ""),
     Req(2, "HEAD", <<1, 0>>, FALSE, "/dir/"), Req(2, "HEAD", <<1, 1>>, TRUE, "/name"),
     Req(2, "GET", <<2, 0>>, TRUE, "/name"),
     Req(2, "POST", <<1, 1>>, FALSE, "/name")}
    \cup {Hdr("Host", "other", 0), Hdr("Host", "malformed", 0),
          Hdr("Connection", "close", 0), Hdr("Connection", "keep-alive", 0),
          Hdr("Keep-Alive", "other", 0), Hdr("If-Modified-Since", "other", 1),
          Hdr("If-Modified-Since", "malformed", 1), Hdr("other", "other", 0), Blank, Junk}

\* How input is cut into reads: lines shorter than, a little longer and much
\* longer than the read size, a request that keeps the connection unless its
\* header, which is folded before its data, ends it.
SplitLines ==
    {Req(3, "GET", <<1, 1>>, TRUE, "/name"),
     [Hdr("Connection", "close", 0) EXCEPT !.len = 6, !.fold = 3],
     Blank, [Junk EXCEPT !.len = 9]}

\* Two requests that keep the connection and one that ends it.
PipelineLines ==
    {Req(2, "GET", <<1, 1>>, TRUE, "/name"), Req(2, "HEAD", <<1, 0>>, TRUE, "/name"),
     Hdr("If-Modified-Since", "other", 1), Blank}

=============================================================================
