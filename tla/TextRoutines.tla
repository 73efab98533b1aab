---------------------------- MODULE TextRoutines ----------------------------
(***************************************************************************)
(* The routines that work on a string, each on every short string over a   *)
(* small alphabet: urldecode (module UrlDecode), escape_html_specials,     *)
(* search_and_replace as escape_quotes uses it, get_content_type, and the  *)
(* parsers of module Grammar.  One routine runs in a behaviour.            *)
(*                                                                         *)
(* The loops take one iteration per step.  They share the variables of     *)
(* UrlDecode: units is the input, url the string that is changed or built, *)
(* i the position, which the loops that change the string must move.       *)
(***************************************************************************)
EXTENDS UrlDecode, Grammar

CONSTANT
    Inputs          \* for each routine, the inputs it is tried on

VARIABLES
    routine,        \* the routine that runs
    last_dot,       \* get_content_type: position of the last dot, 0 for none
    result          \* what the routine found

textVars == <<vars, routine, last_dot, result>>

Routines == {"urldecode", "escape_html_specials", "escape_quotes", "get_content_type",
             "parse_host_header", "parse_request_line", "parse_header"}

\* A request URI ends at the first blank, and so has none.
ASSUME InputsAssumption ==
    /\ \A r \in Routines : Inputs[r] \subseteq Seq(Seq(STRING))
    /\ Inputs["urldecode"] \subseteq Seq(Units)
    /\ \A uri \in Inputs["parse_request_line"] : "SP" \notin ToSet(FlattenSeq(uri))

input   == FlattenSeq(units)
builds  == {"escape_quotes"}       \* routines that build a new string

TextInit ==
    /\ routine \in Routines
    /\ units \in Inputs[routine]
    /\ url = IF routine \in builds THEN <<>> ELSE input
    /\ i = 1 /\ status = "running"
    /\ last_dot = 0 /\ result = <<>>

-----------------------------------------------------------------------------
Runs(r) == routine = r /\ status = "running" /\ UNCHANGED <<units, routine>>

Returns(value) == status' = "done" /\ result' = value /\ UNCHANGED <<url, i, last_dot>>

urldecode == routine = "urldecode" /\ Next /\ UNCHANGED <<routine, last_dot, result>>

-----------------------------------------------------------------------------
(* escape_html_specials: pos runs up to and including the terminating NUL. *)

Entities == [c \in {"<", ">", "&"} |->
                CASE c = "<" -> <<"&", "l", "t", ";">>
                  [] c = ">" -> <<"&", "g", "t", ";">>
                  [] c = "&" -> <<"&", "a", "m", "p", ";">>]

special == i <= Len(url) /\ url[i] \in DOMAIN Entities

\* Mutant: pos moves on by the longest entity's length whatever was put in.
MutantHtmlStep ==
    \/ /\ special
       /\ url' = SubSeq(url, 1, i - 1) \o Entities[url[i]] \o SubSeq(url, i + 1, Len(url))
       /\ i' = i + Len(Entities["&"])
    \/ ~special /\ i' = i + 1 /\ UNCHANGED url

html_step ==
    \/ /\ special
       /\ url' = SubSeq(url, 1, i - 1) \o Entities[url[i]] \o SubSeq(url, i + 1, Len(url))
       /\ i' = i + Len(Entities[url[i]])
    \/ ~special /\ i' = i + 1 /\ UNCHANGED url

escape_html_specials ==
    /\ Runs("escape_html_specials")
    /\ \/ i <= Len(url) + 1 /\ html_step /\ UNCHANGED <<status, last_dot, result>>
       \/ i > Len(url) + 1 /\ Returns(url)

-----------------------------------------------------------------------------
(* search_and_replace(input, search, replace, true) and escape_quotes. *)

\* Mutant: the search string is kept and the replacement put behind it.
MutantReplaceStep(search, replace) ==
    /\ url' = IF input[i] = search[1] THEN url \o search \o replace ELSE Append(url, input[i])
    /\ i' = i + 1

replace_step(search, replace) ==
    LET found == IsPrefix(search, SubSeq(input, i, Len(input)))
    IN  \/ found /\ url' = url \o replace /\ i' = i + Len(search)
        \/ ~found /\ url' = Append(url, input[i]) /\ i' = i + 1

search_and_replace(search, replace) ==
    \/ i <= Len(input) /\ replace_step(search, replace) /\ UNCHANGED <<status, last_dot, result>>
    \/ i > Len(input) /\ Returns(url)

Quote == "quote"
Backslash == "backslash"

escape_quotes == Runs("escape_quotes") /\ search_and_replace(<<Quote>>, <<Backslash, Quote>>)

-----------------------------------------------------------------------------
(* get_content_type *)

DefaultContentType == "application/octet-stream"

\* The table, as far as the letters a, r and t go.
content_types ==
    [e \in {<<"r", "a">>, <<"t">>, <<"t", "a", "r">>, <<"t", "r">>} |->
        CASE e = <<"r", "a">>               -> "audio/x-realaudio"
          [] e = <<"t", "a", "r">>          -> "application/x-tar"
          [] e \in {<<"t">>, <<"t", "r">>} -> "application/x-troff"]

\* strcasecmp orders the table: the case of an extension does not matter.
find_type(extension) ==
    LET key == [k \in DOMAIN extension |-> IF extension[k] = "T" THEN "t" ELSE extension[k]]
    IN  IF key \in DOMAIN content_types THEN content_types[key] ELSE DefaultContentType

\* Mutant: the dot stays a part of the extension.
MutantExtension == SubSeq(url, last_dot, Len(url))

extension_found == SubSeq(url, last_dot + 1, Len(url))

get_content_type ==
    /\ Runs("get_content_type")
    /\ \/ /\ i <= Len(url)
          /\ last_dot' = IF url[i] = "." THEN i ELSE last_dot
          /\ i' = i + 1
          /\ UNCHANGED <<url, status, result>>
       \/ i > Len(url) /\ last_dot = 0 /\ Returns(DefaultContentType)
       \/ i > Len(url) /\ last_dot # 0 /\ Returns(find_type(extension_found))

-----------------------------------------------------------------------------
(* The parsers.  The result is NoMatch where they return 0. *)

parse_host_header ==
    /\ Runs("parse_host_header")
    /\ LET end == Host(input, 1) IN
       Returns(IF end = NoMatch THEN <<>> ELSE SubSeq(input, 1, end - 1))

request_line(uri) == <<"GET", "SP">> \o uri \o <<"SP", "HTTP/1.1", "CR", "LF">>

\* Mutant: the blank behind the URI is not required.
MutantRequestLine ==
    /\ Runs("parse_request_line")
    /\ LET s == request_line(input) uri == Request_URI(s, 3) IN
       Returns(IF uri.end # NoMatch THEN uri ELSE <<>>)

parse_request_line ==
    /\ Runs("parse_request_line")
    /\ LET s   == request_line(input)
           uri == Request_URI(s, 3)
           end == CRLF(s, one(s, one(s, uri.end, {"SP"}), {"HTTP/1.1"}))
       IN  Returns(IF end = NoMatch THEN <<>> ELSE uri)

parse_header ==
    /\ Runs("parse_header")
    /\ Returns([complete |-> have_complete_header_line(input), end |-> Header(input, 1)])

-----------------------------------------------------------------------------
TextNext ==
    \/ urldecode \/ escape_html_specials \/ escape_quotes \/ get_content_type
    \/ parse_host_header \/ parse_request_line \/ parse_header

TextSpec == TextInit /\ [][TextNext]_textVars

-----------------------------------------------------------------------------
(* Properties. *)

Returned(r) == routine = r /\ status = "done"

\* urldecode: what SpacedDecoded and EscapesComplete of UrlDecode say.
UrlDecoded == routine = "urldecode" => SpacedDecoded /\ EscapesComplete

\* Every special character becomes its entity and nothing else changes, however
\* the string grows under pos: no entity is escaped again, none is missed.
HtmlEscaped ==
    Returned("escape_html_specials") =>
        result = FlattenSeq([k \in DOMAIN input |->
                     IF input[k] \in DOMAIN Entities THEN Entities[input[k]] ELSE <<input[k]>>])

\* What a reader of the access log makes of a field: a backslash takes the next
\* character as it is, and the first other quote ends the field.
ReadField(s) ==
    LET read[j \in 1..(Len(s) + 1)] ==
            IF j > Len(s) \/ s[j] = Quote THEN <<>>
            ELSE IF s[j] = Backslash /\ j < Len(s) THEN <<s[j + 1]>> \o read[j + 2]
            ELSE <<s[j]>> \o read[j + 1]
    IN  read[1]

\* A quoted field of a log line (path, referer, user agent) is read back as it
\* was sent, unless it contains a backslash, which escape_quotes leaves alone.
QuotedFieldReadsBack ==
    Returned("escape_quotes") /\ ~ Contains(input, Backslash) =>
        ReadField(Append(result, Quote)) = input

\* The type is that of the extension of the file's own name, in either case, and
\* the default for a name without one: the loop looks at the whole path, but no
\* directory with a dot in its name, like the host's, lends the file a type.
ContentTypeOfFile ==
    LET After(c) == {k \in 0..Len(input) : k = 0 \/ input[k] = c}
        base == SubSeq(input, Max(After("/")) + 1, Len(input))
        dots == {k \in DOMAIN base : base[k] = "."}
    IN  Returned("get_content_type") =>
            result = IF dots = {} THEN DefaultContentType
                     ELSE find_type(SubSeq(base, Max(dots) + 1, Len(base)))

\* The grammar of RFC 2396, over splittings of the string at its dots.
IsLabel(l, first) == /\ l # <<>> /\ l[1] \in first /\ Last(l) \in AlNum
                     /\ ToSet(l) \subseteq AlNum \cup {"-"}
IsPiece(s, a, b)  == /\ a = 1 \/ s[a - 1] = "."
                     /\ b = Len(s) \/ s[b + 1] = "."
                     /\ "." \notin ToSet(SubSeq(s, a, b))
Pieces(s)     == {p \in (1..(Len(s) + 1)) \X (0..Len(s)) : p[2] >= p[1] - 1 /\ IsPiece(s, p[1], p[2])}
IsHostname(s) == /\ s # <<>>
                 /\ \A p \in Pieces(s) :
                        IsLabel(SubSeq(s, p[1], p[2]), IF p[2] = Len(s) THEN Alpha ELSE AlNum)
IsAddress(s)  == \E a, b, c \in DOMAIN s :       \* the places of its dots
                     /\ 1 < a /\ a + 1 < b /\ b + 1 < c /\ c < Len(s)
                     /\ \A k \in DOMAIN s : s[k] \in IF k \in {a, b, c} THEN {"."} ELSE Digit
IsHost(s)     == IsHostname(s) \/ IsAddress(s)
Hyphens(s)    == \E k \in 1..(Len(s) - 1) : s[k] = "-" /\ s[k + 1] = "-"

\* A Host header names its host: what is taken is a host, and it is all of the
\* header up to the port, except for a name with two hyphens in a row, which the
\* rules cut there.  A name that ends with a dot is refused, since *( domainlabel
\* >> '.' ) takes the last label, too, and gives nothing back; but one that begins
\* with an address, as 1.1.1.1.a. does, is taken for that address.
HostsRecognised ==
    LET ends == {k \in 1..(Len(input) + 1) : k = Len(input) + 1 \/ input[k] = ":"}
        name == SubSeq(input, 1, Min(ends) - 1)
    IN  Returned("parse_host_header") =>
            /\ result # <<>> => IsHost(result)
            /\ IsHost(name) /\ ~Hyphens(name) => result = name
            /\ name # <<>> /\ Last(name) = "." /\ IsHostname(Front(name)) /\ ~Hyphens(name)
                   => result = <<>> \/ IsAddress(result)

\* The readings of a request URI as [http://host[:port]][path[?query]].
Readings(s) ==
    LET Cut(a, b) == SubSeq(s, a + 1, b)
        Good(h, p, q, e) ==
            /\ \/ h = 0 /\ p = 0
               \/ /\ s # <<>> /\ s[1] = "http://" /\ IsHost(Cut(1, h)) /\ ~Hyphens(Cut(1, h))
                  /\ \/ p = h
                     \/ p > h + 1 /\ s[h + 1] = ":" /\ ToSet(Cut(h + 1, p)) \subseteq Digit
            /\ \/ q > p /\ s[p + 1] = "/" /\ ToSet(Cut(p, q)) \subseteq PathChars
               \/ q = p /\ h > 0 /\ e = q
            /\ e = q \/ (s[q + 1] = "?" /\ ToSet(Cut(q + 1, e)) \subseteq QueryChars)
    IN  {[host |-> Cut(1, t[1]), port |-> Cut(t[1] + 1, t[2]), path |-> Cut(t[2], t[3])] :
            t \in {u \in (0..Len(s)) \X (0..Len(s)) \X (0..Len(s)) :
                       u[1] <= u[2] /\ u[2] <= u[3] /\ Good(u[1], u[2], u[3], Len(s))}}

\* A request line is accepted if and only if its URI can be read so, and the host,
\* port and path it assigns are that reading's: the alternatives and options of
\* the rule, taken greedily, lose no URI and leave no path empty without a host.
URIsRecognised ==
    Returned("parse_request_line") =>
        IF result = <<>> THEN Readings(input) = {}
        ELSE Readings(input) = {[host |-> result.host, port |-> result.port, path |-> result.path]}

\* A header line: a name, a colon and a value, all on one line but for CRLFs that
\* a blank follows.
IsFold(s, k) == at(s, k, {"CR"}) /\ at(s, k + 1, {"LF"}) /\ at(s, k + 2, {"SP"})
IsHeader(s)  ==
    LET folded(k) == IsFold(s, k) \/ (k > 1 /\ IsFold(s, k - 1))
    IN  \E n, c \in DOMAIN s :
            /\ n < c /\ s[c] = ":"
            /\ \A k \in 1..n : s[k] \in Token
            /\ \A k \in (n + 1)..(c - 1) : s[k] = "SP" \/ folded(k)
            /\ \A k \in (c + 1)..(Len(s) - 2) : s[k] \in TEXT \/ folded(k)

\* What RequestHandler counts on: a buffer of two bytes passes for a complete
\* header line; a header is parsed exactly if it is there up to a CRLF that no
\* blank is known to follow, and that much of the buffer is consumed.
HeadersCut ==
    LET ends == {k \in DOMAIN input : CRLF(input, k - 1) # NoMatch /\ ~ at(input, k + 1, {"SP"})}
        line == IF ends = {} THEN <<>> ELSE SubSeq(input, 1, Min(ends))
    IN  Returned("parse_header") =>
            /\ result.complete <=> Len(input) >= 2
            /\ result.end = IF IsHeader(line) THEN Len(line) + 1 ELSE NoMatch

=============================================================================
