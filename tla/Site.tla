-------------------------------- MODULE Site --------------------------------
(***************************************************************************)
(* Virtual hosts: for which host and port a request is, what the document  *)
(* root then holds for it, where a redirect sends the client, and in which *)
(* log file the reply is entered.  A client asks, and follows a redirect   *)
(* if it leads to this server; other processes may change the document     *)
(* root between any two system calls, so stat() answers anything.          *)
(*                                                                         *)
(* How requests and replies travel is RequestHandler's subject; here one   *)
(* request follows another.                                                *)
(***************************************************************************)
EXTENDS Integers, Sequences

CONSTANTS
    Names,              \* host names as clients spell them
    lower,              \* lower[n] is n in lower case
    Ports,
    ServerPort,         \* the port the server listens on
    default_hostname,   \* config->default_hostname, or NoName
    Paths,              \* the paths clients ask for, see PathParts
    MaxHeaders,         \* bound: Host headers of a request
    MaxPages            \* default pages that PATH_MAX leaves room for

NoName == ""
Unset  == -1            \* an empty resetable_variable

ASSUME NamesAssumption ==
    /\ NoName \notin Names /\ lower \in [Names -> Names]
    /\ \A n \in Names : lower[lower[n]] = lower[n]
    /\ default_hostname \in Names \cup {NoName}
ASSUME PortsAssumption == Ports \subseteq Nat /\ 80 \in Ports /\ ServerPort \in Ports
ASSUME PathsAssumption == Paths \subseteq Seq({"/", "name"}) /\ <<"/">> \in Paths
ASSUME BoundsAssumption == MaxHeaders \in Nat \ {0} /\ MaxPages \in Nat

\* host[:port] as a request line or a Host header has it
Targets   == [host : Names, port : Ports \cup {Unset}]
NoTarget  == [host |-> NoName, port |-> Unset]
Malformed == [host |-> NoName, port |-> 80]
PathParts == {"/", "name"}                      \* a path is a sequence of these
Headers   == UNION {[1..n -> Targets \cup {Malformed}] : n \in 0..MaxHeaders}
Locations == [host : Names, port : Ports \cup {Unset}, path : Seq(PathParts)]
Requests(paths) == [supported : BOOLEAN, http_1_0 : BOOLEAN, url : Targets \cup {NoTarget},
                    headers : Headers, path : paths]

VARIABLES
    stage,      \* "idle", "headers", "setup", "stat", "replied", "logged"
    asked,      \* the request as it was sent
    headers,    \* its Host headers still to be parsed
    host, port, \* request.host and request.port
    pages,      \* default pages appended to filename
    status,     \* request.status_code
    location,   \* the URL in the Location header
    logfile,    \* the host name in the name of the log file, if any
    followed    \* history: is the request the client's answer to a redirect?

vars == <<stage, asked, headers, host, port, pages, status, location, logfile, followed>>

NoRequest == [supported |-> TRUE, http_1_0 |-> FALSE, url |-> NoTarget,
              headers |-> <<>>, path |-> <<"/">>]

Init ==
    /\ stage = "idle" /\ asked = NoRequest /\ headers = <<>>
    /\ host = NoName /\ port = Unset /\ pages = 0 /\ status = Unset
    /\ location = NoTarget /\ logfile = NoName /\ followed = FALSE

-----------------------------------------------------------------------------
\* A new request, of which the server keeps nothing from the one before.
request(req, is_followed) ==
    /\ asked' = req /\ headers' = req.headers
    /\ host' = NoName /\ port' = Unset /\ pages' = 0 /\ status' = Unset
    /\ location' = NoTarget /\ logfile' = NoName /\ followed' = is_followed

send(req, is_followed) == stage' = "headers" /\ request(req, is_followed)

Ask == stage = "idle" /\ \E req \in Requests(Paths) : send(req, FALSE)

reply(code) ==
    /\ stage' = "replied" /\ status' = code
    /\ UNCHANGED <<asked, headers, pages, logfile, followed>>

parse_host_header ==
    /\ stage = "headers" /\ headers # <<>>
    /\ \/ Head(headers) = Malformed /\ reply(400) /\ UNCHANGED <<host, port, location>>
       \/ /\ Head(headers) # Malformed
          /\ host' = Head(headers).host
          /\ port' = IF Head(headers).port = Unset THEN port ELSE Head(headers).port
          /\ headers' = Tail(headers)
          /\ UNCHANGED <<stage, asked, pages, status, location, logfile, followed>>

end_of_headers ==
    /\ stage = "headers" /\ headers = <<>>
    /\ stage' = "setup"
    /\ UNCHANGED <<asked, headers, host, port, pages, status, location, logfile, followed>>

\* The host a request is for: of its Host header, its URL, or the default one.
resolved ==
    IF host # NoName THEN host
    ELSE IF asked.url.host # NoName THEN asked.url.host
    ELSE IF asked.http_1_0 THEN default_hostname ELSE NoName

\* Mutant: the host is not brought into lower case.
MutantInLowerCase(name) == name

in_lower_case(name) == lower[name]

\* Up to the hierarchy check, which fails for what does not exist.
setup_reply ==
    /\ stage = "setup"
    /\ \/ ~ (asked.supported /\ resolved # NoName) /\ reply(400) /\ UNCHANGED <<host, port, location>>
       \/ /\ asked.supported /\ resolved # NoName
          /\ host' = in_lower_case(resolved)
          /\ port' = IF port = Unset THEN asked.url.port ELSE port
          /\ \/ stage' = "stat" /\ UNCHANGED <<asked, headers, pages, status, logfile, followed>>
             \/ reply(404)
          /\ UNCHANGED location

\* Mutants: the port is left out; the redirect is to the path that was asked for.
MutantNoPort  == [host |-> host, port |-> Unset, path |-> Append(asked.path, "/")]
MutantNoSlash == [host |-> host, port |-> IF port = 80 THEN Unset ELSE port, path |-> asked.path]

Location ==
    [host |-> host, port |-> IF port = 80 THEN Unset ELSE port, path |-> Append(asked.path, "/")]

final_slash(path) == path # <<>> /\ path[Len(path)] = "/"

\* *rbegin() of an empty path reads the byte before the string.
ends_with_slash   == asked.path = <<>> \/ final_slash(asked.path)

\* Mutant: the path's last character is not tested.
MutantLacksSlash == TRUE

lacks_final_slash == asked.path = <<>> \/ ~ final_slash(asked.path)

\* A round of stat_again: the call fails (as it must when the name gets too
\* long), or finds a file (which open() may then refuse, and whose name does not
\* end with a slash) or a directory.
stat ==
    /\ stage = "stat" /\ UNCHANGED <<host, port>>
    /\ \/ reply(404) /\ UNCHANGED location
       \/ (~ final_slash(asked.path) \/ pages > 0) /\ reply(200) /\ UNCHANGED location
       \/ /\ ends_with_slash /\ pages < MaxPages
          /\ pages' = pages + 1
          /\ UNCHANGED <<stage, asked, headers, status, location, logfile, followed>>
       \/ lacks_final_slash /\ reply(301) /\ location' = Location

log_access ==
    /\ stage = "replied"
    /\ stage' = "logged" /\ logfile' = host
    /\ UNCHANGED <<asked, headers, host, port, pages, status, location, followed>>

-----------------------------------------------------------------------------
(* The client.  Every name it is told leads to this server; a port may not. *)
(* It asks for the very URL it was told, be it the one it asked for before. *)

effective(p) == IF p = Unset THEN 80 ELSE p

Follow ==
    /\ stage = "logged" /\ status = 301 /\ effective(location.port) = ServerPort
    /\ send([NoRequest EXCEPT !.headers = <<[host |-> location.host, port |-> location.port]>>,
                              !.path = location.path], TRUE)

Rest == stage = "logged" /\ stage' = "idle" /\ request(NoRequest, FALSE)

server == parse_host_header \/ end_of_headers \/ setup_reply \/ stat \/ log_access

client == Follow \/ Rest

Next == server \/ Ask \/ client

Spec == Init /\ [][Next]_vars

\* The handler goes on (see RequestHandler), and so does a client that has been
\* answered, which may follow every redirect it gets.
FairSpec == Spec /\ WF_vars(server) /\ WF_vars(client)

-----------------------------------------------------------------------------
(* Properties. *)

TypeOK ==
    /\ stage \in {"idle", "headers", "setup", "stat", "replied", "logged"}
    /\ asked \in Requests(Seq(PathParts))
    /\ headers \in Seq(Targets \cup {Malformed})
    /\ host \in Names \cup {NoName} /\ port \in Ports \cup {Unset}
    /\ pages \in 0..MaxPages
    /\ status \in {Unset, 200, 301, 400, 404}
    /\ location \in Locations \cup {NoTarget}
    /\ logfile \in Names \cup {NoName} /\ followed \in BOOLEAN

\* The targets a request names, and those among them that are malformed left out.
Named(req) == {t \in {req.headers[k] : k \in DOMAIN req.headers} \cup {req.url} : t.host # NoName}

\* All that a request says of its target is the host h and this server's port.
Means(req, h) == \A t \in Named(req) : lower[t.host] = h /\ effective(t.port) = ServerPort

\* A client is not redirected again when it has asked for the URL of a redirect,
\* whatever other processes do to the document root in the meantime: the path that
\* moved_permanently sends it to is one that setup_reply does not redirect.
RedirectOnce == followed => status # 301

\* A redirect leads back to the virtual host and the port that the client asked,
\* however its URL and Host headers share the naming of them between them.  The
\* exception is a request that names no host: the default one is taken to be on
\* port 80.  A request that names several targets is sent to a host and a port
\* it has named, if not necessarily together: a Host header without a port
\* leaves the port of an earlier one, or of the URL, in force.
RedirectStaysOnSite ==
    status = 301 =>
        /\ \A h \in Names : Named(asked) # {} /\ Means(asked, h) =>
               location.host = h /\ effective(location.port) = ServerPort
        /\ Named(asked) = {} => location.host = lower[default_hostname] /\ location.port = Unset
        /\ Named(asked) # {} =>
               /\ location.host \in {lower[t.host] : t \in Named(asked)}
               /\ effective(location.port) \in {effective(t.port) : t \in Named(asked)}

\* "One file per virtual host" (httpd.txt): what is entered for a host goes to one
\* file however the clients spell its name.  The exception is a request that is
\* refused before its host is known and brought into lower case.
OneLogPerHost ==
    stage = "logged" =>
        IF status = 400 THEN logfile \in {t.host : t \in Named(asked)} \cup {NoName}
        ELSE /\ \A h \in Names : Named(asked) # {} /\ Means(asked, h) => logfile = h
             /\ lower[logfile] = logfile

\* Every request comes to an end: the server does not go on looking for a default
\* page, and no client is sent from place to place, for ever.
ChaseEnds == stage # "idle" ~> stage = "idle"

=============================================================================
