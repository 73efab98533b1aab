------------------------------ MODULE Grammar ------------------------------
(***************************************************************************)
(* The rules of HTTPParser.cc that recognise hosts, request URIs and       *)
(* headers, as the Spirit parsers they are: a rule matches at a position   *)
(* of a string or it does not, a repetition takes all it can get, the      *)
(* first alternative that matches is final, and nothing is taken back.     *)
(*                                                                         *)
(* A rule is an operator of a string s and a position i; it gives the      *)
(* position behind the match, or NoMatch.  Strings are sequences of        *)
(* characters; "http://", "HTTP/1.1" and an escape are one character each. *)
(***************************************************************************)
EXTENDS Integers, Sequences, FiniteSetsExt

CONSTANTS
    Alpha,      \* letters, among others
    Digit       \* digits

\* alpha_p and digit_p exclude each other and all that the rules name besides.
ASSUME CharactersAssumption ==
    /\ Alpha \cap Digit = {}
    /\ (Alpha \cup Digit) \cap {"-", ".", ":", "/", ";", "?", "%", "SP", "escape", "CR", "LF",
                              "http://", "HTTP/1.1"} = {}

NoMatch == 0

AlNum     == Alpha \cup Digit
PathChars == AlNum \cup {"-", ".", ":", "/", ";", "escape"}    \* pchar, ";" and "/"
QueryChars == PathChars \cup {"?"}                              \* uric
Token     == AlNum \cup {"-", ".", "%"}
TEXT      == PathChars \cup {"?", "SP"}

at(s, i, C) == i \in DOMAIN s /\ s[i] \in C

\* The combinators of Spirit.  optional is !p, with the match m of p at i.
one(s, i, C)   == IF at(s, i, C) THEN i + 1 ELSE NoMatch
many(s, i, C)  == IF i = NoMatch THEN NoMatch
                  ELSE Min({j \in i..(Len(s) + 1) : ~ at(s, j, C)})
many1(s, i, C) == many(s, one(s, i, C), C)
optional(i, m) == IF m = NoMatch THEN i ELSE m

-----------------------------------------------------------------------------
(* Hosts. *)

\* *( !ch_p('-') >> alnum_p )
label_rest(s, i) ==
    LET rest[j \in 1..(Len(s) + 2)] ==
            LET e == one(s, optional(j, one(s, j, {"-"})), AlNum)
            IN  IF e = NoMatch THEN j ELSE rest[e]
    IN  IF i = NoMatch THEN NoMatch ELSE rest[i]

domainlabel(s, i) == label_rest(s, one(s, i, AlNum))
toplabel(s, i)    == label_rest(s, one(s, i, Alpha))

\* *( domainlabel >> '.' )
subdomains(s, i) ==
    LET rest[j \in 1..(Len(s) + 2)] ==
            LET e == one(s, domainlabel(s, j), {"."})
            IN  IF e = NoMatch THEN j ELSE rest[e]
    IN  IF i = NoMatch THEN NoMatch ELSE rest[i]

\* Mutant: the trailing dot is looked for before the last label.
MutantHostname(s, i) == toplabel(s, optional(subdomains(s, i), one(s, subdomains(s, i), {"."})))

hostname(s, i) ==
    LET top == toplabel(s, subdomains(s, i)) IN optional(top, one(s, top, {"."}))

IPv4address(s, i) ==
    LET part(j) == many1(s, j, Digit)
        dot(j)  == one(s, j, {"."})
    IN  part(dot(part(dot(part(dot(part(i)))))))

Host(s, i) == IF hostname(s, i) # NoMatch THEN hostname(s, i) ELSE IPv4address(s, i)

\* !( ':' >> uint_p ), for numbers that fit
port(s, i) == optional(i, many1(s, one(s, i, {":"}), Digit))

-----------------------------------------------------------------------------
(* Request URIs. *)

abs_path(s, i) == many(s, one(s, i, {"/"}), PathChars)
query(s, i)    == optional(i, many(s, one(s, i, {"?"}), QueryChars))

\* What a request line whose URI begins at i gets assigned, where the path
\* begins and ends, and where the URI ends.
Request_URI(s, i) ==
    LET host == Host(s, one(s, i, {"http://"}))
        abs  == IF host # NoMatch THEN port(s, host) ELSE i
        path == abs_path(s, abs)
    IN  [host |-> IF host = NoMatch THEN <<>> ELSE SubSeq(s, i + 1, host - 1),
         port |-> IF host = NoMatch THEN <<>> ELSE SubSeq(s, host + 1, abs - 1),
         path |-> IF path = NoMatch THEN <<>> ELSE SubSeq(s, abs, path - 1),
         end  |-> IF path # NoMatch THEN query(s, path)
                  ELSE IF host # NoMatch THEN abs ELSE NoMatch]

-----------------------------------------------------------------------------
(* Header lines. *)

CRLF(s, i) == one(s, one(s, i, {"CR"}), {"LF"})
LWS(s, i)  == many1(s, optional(i, CRLF(s, i)), {"SP"})

field_value(s, i) ==
    LET rest[j \in 1..(Len(s) + 2)] ==
            IF at(s, j, TEXT) THEN rest[many(s, j, TEXT)]
            ELSE IF LWS(s, j) # NoMatch THEN rest[LWS(s, j)] ELSE j
    IN  IF i = NoMatch THEN NoMatch ELSE rest[i]

many_LWS(s, i) ==
    LET rest[j \in 1..(Len(s) + 2)] ==
            IF LWS(s, j) # NoMatch THEN rest[LWS(s, j)] ELSE j
    IN  IF i = NoMatch THEN NoMatch ELSE rest[i]

\* Mutant: a field value does not go on in the next line.
MutantHeader(s, i) ==
    LET colon == one(s, many_LWS(s, many1(s, i, Token)), {":"})
    IN  CRLF(s, many(s, colon, TEXT))

Header(s, i) ==
    LET colon == one(s, many_LWS(s, many1(s, i, Token)), {":"})
    IN  CRLF(s, field_value(s, many_LWS(s, colon)))

\* The loop of have_complete_header_line stops here.
complete_to(s) ==
    Min({k \in 1..(Len(s) + 1) :
            Len(s) - k < 2 \/ (CRLF(s, k) # NoMatch /\ ~ at(s, k + 2, {"SP"}))})

have_complete_header_line(s) == Len(s) - complete_to(s) > 0

=============================================================================
