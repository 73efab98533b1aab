----------------------------- MODULE SiteProofs -----------------------------
(***************************************************************************)
(* Theorems about Site, for any host names, ports, number of Host headers  *)
(* and number of default pages.                                            *)
(***************************************************************************)
EXTENDS Site, TLAPS

USE NamesAssumption, PortsAssumption, BoundsAssumption

-----------------------------------------------------------------------------
(* What host and port are, stage by stage.                                 *)

\* The well-formed targets among a request's Host headers.
HeaderTargets(req) == {req.headers[k] : k \in DOMAIN req.headers} \cap Targets

\* While headers are parsed: host and port are those of some of them, and none
\* is forgotten.
HeadersRead ==
    stage \in {"headers", "setup"} =>
        /\ \A k \in DOMAIN headers : \E j \in DOMAIN asked.headers : headers[k] = asked.headers[j]
        /\ \/ host = NoName /\ port = Unset /\ headers = asked.headers
           \/ /\ host \in {t.host : t \in HeaderTargets(asked)}
              /\ port \in {t.port : t \in HeaderTargets(asked)}
        /\ stage = "setup" => headers = <<>>
        /\ status = Unset

\* Then they are of targets that the request names, or the default ones.
Resolved ==
    IF Named(asked) = {} THEN host = lower[default_hostname] /\ default_hostname \in Names /\ port = Unset
    ELSE /\ host \in {lower[t.host] : t \in Named(asked)}
         /\ port \in {t.port : t \in Named(asked)}

HostResolved ==
    /\ stage = "stat" => Resolved /\ status = Unset
    /\ stage \in {"replied", "logged"} =>
           IF status = 400 THEN host \in {t.host : t \in Named(asked)} \cup {NoName} ELSE Resolved
    /\ stage = "logged" => logfile = host
    /\ stage = "idle" => status = Unset

\* A redirect is sent for a path without a final slash, and asks for one with it.
SlashAdded ==
    /\ followed = TRUE => final_slash(asked.path)
    /\ status = 301 => lacks_final_slash /\ location = Location

SInv == TypeOK /\ HeadersRead /\ HostResolved /\ SlashAdded

-----------------------------------------------------------------------------
LEMMA HeadersAreSequences == \A hs \in Headers : hs \in Seq(Targets \cup {Malformed})
  BY DEF Headers

LEMMA NamedTargets ==
    ASSUME NEW req \in Requests(Seq(PathParts))
    PROVE  /\ Named(req) \subseteq Targets
           /\ Named(req) = HeaderTargets(req) \cup ({req.url} \cap Targets)
<1>1. \A k \in DOMAIN req.headers : req.headers[k] \in Targets \cup {Malformed}
  BY DEF Requests, Headers
<1>2. req.url \in Targets \cup {NoTarget}
  BY DEF Requests
<1>3. Malformed.host = NoName /\ NoTarget.host = NoName
  BY DEF Malformed, NoTarget
<1>4. \A t \in Targets : t.host # NoName
  BY DEF Targets
<1>5. QED
  BY <1>1, <1>2, <1>3, <1>4 DEF Named, HeaderTargets

\* What the client asks for when it follows a redirect.
Followed(l) ==
    [NoRequest EXCEPT !.headers = <<[host |-> l.host, port |-> l.port]>>, !.path = l.path]

LEMMA NoRequestIsRequest ==
    /\ NoRequest \in Requests(Seq(PathParts))
    /\ \A l \in Locations : Followed(l) \in Requests(Seq(PathParts))
<1>1. <<>> \in Headers
  BY DEF Headers
<1>2. ASSUME NEW t \in Targets PROVE <<t>> \in Headers
  <2>1. <<t>> \in [1..1 -> Targets \cup {Malformed}] /\ 1 \in 0..MaxHeaders
    OBVIOUS
  <2>2. QED
    BY <2>1 DEF Headers
<1>3. NoRequest \in Requests(Seq(PathParts))
  BY <1>1 DEF NoRequest, Requests, PathParts
<1>4. ASSUME NEW l \in Locations PROVE Followed(l) \in Requests(Seq(PathParts))
  <2>1. <<[host |-> l.host, port |-> l.port]>> \in Headers /\ l.path \in Seq(PathParts)
    BY <1>2 DEF Locations, Targets
  <2>2. QED
    BY <1>3, <2>1 DEF Followed, Requests
<1>5. QED
  BY <1>3, <1>4

LEMMA InitSite == Init => SInv
<1> SUFFICES ASSUME Init PROVE SInv
  OBVIOUS
<1>1. TypeOK
  <2>1. followed \in BOOLEAN /\ asked \in Requests(Seq(PathParts))
    BY NoRequestIsRequest DEF Init
  <2>2. headers \in Seq(Targets \cup {Malformed})
    BY DEF Init
  <2>3. QED
    BY <2>1, <2>2 DEF Init, TypeOK
<1>2. HeadersRead /\ HostResolved /\ SlashAdded
  BY DEF Init, HeadersRead, HostResolved, SlashAdded, Unset
<1>3. QED
  BY <1>1, <1>2 DEF SInv

\* A request that begins.
LEMMA RequestBegins ==
    ASSUME NEW req \in Requests(Seq(PathParts)), NEW f \in BOOLEAN, send(req, f), f = TRUE => final_slash(req.path)
    PROVE  SInv'
<1>1. req.headers \in Seq(Targets \cup {Malformed})
  BY HeadersAreSequences DEF Requests
<1>2. TypeOK'
  BY <1>1 DEF send, request, TypeOK
<1>3. HeadersRead'
  BY DEF send, request, HeadersRead
<1>4. HostResolved' /\ SlashAdded'
  BY DEF send, request, HostResolved, SlashAdded, Unset
<1>5. QED
  BY <1>2, <1>3, <1>4 DEF SInv

LEMMA HeaderParsed == SInv /\ parse_host_header => SInv'
<1> SUFFICES ASSUME SInv, parse_host_header PROVE SInv'
  OBVIOUS
<1> DEFINE first == headers[1]
<1>1. /\ headers \in Seq(Targets \cup {Malformed}) /\ headers # <<>> /\ stage = "headers"
      /\ first = Head(headers) /\ first \in Targets \cup {Malformed} /\ 1 \in DOMAIN headers
  BY DEF SInv, TypeOK, parse_host_header
<1>2. Named(asked) = HeaderTargets(asked) \cup ({asked.url} \cap Targets)
  BY NamedTargets DEF SInv, TypeOK
<1>3. CASE first = Malformed
  <2>1. /\ reply(400) /\ UNCHANGED <<host, port, location>>
    BY <1>1, <1>3 DEF parse_host_header
  <2>2. TypeOK'
    BY <2>1 DEF SInv, TypeOK, reply
  <2>3. HeadersRead' /\ SlashAdded'
    BY <2>1 DEF SInv, HeadersRead, SlashAdded, reply
  <2>4. host \in {t.host : t \in Named(asked)} \cup {NoName}
    BY <1>1, <1>2 DEF SInv, HeadersRead
  <2>5. HostResolved'
    BY <2>1, <2>4 DEF HostResolved, reply, Named
  <2>6. QED
    BY <2>2, <2>3, <2>5 DEF SInv
<1>4. CASE first # Malformed
  <2>1. /\ host' = first.host /\ port' = (IF first.port = Unset THEN port ELSE first.port)
        /\ headers' = Tail(headers)
        /\ UNCHANGED <<stage, asked, pages, status, location, logfile, followed>>
    BY <1>1, <1>4 DEF parse_host_header
  <2>2. first \in Targets
    BY <1>1, <1>4
  <2>3. TypeOK'
    BY <1>1, <2>1, <2>2 DEF SInv, TypeOK, Targets
  <2>4. first \in HeaderTargets(asked)
    BY <1>1, <2>2 DEF SInv, HeadersRead, HeaderTargets
  <2>5. \A k \in DOMAIN headers' : k + 1 \in DOMAIN headers /\ headers'[k] = headers[k + 1]
    BY <1>1, <2>1
  <2>6. HeadersRead'
    <3>1. \A k \in DOMAIN headers' : \E j \in DOMAIN asked'.headers : headers'[k] = asked'.headers[j]
      BY <1>1, <2>1, <2>5 DEF SInv, HeadersRead
    <3>2. host' \in {t.host : t \in HeaderTargets(asked)}
      BY <2>1, <2>4
    <3>3. port' \in {t.port : t \in HeaderTargets(asked)}
      BY <1>1, <2>1, <2>4 DEF SInv, HeadersRead
    <3>4. HeaderTargets(asked') = HeaderTargets(asked)
      BY <2>1
    <3>5. stage' = "headers" /\ status' = Unset
      BY <1>1, <2>1 DEF SInv, HeadersRead
    <3>6. QED
      BY <3>1, <3>2, <3>3, <3>4, <3>5 DEF HeadersRead
  <2>7. HostResolved' /\ SlashAdded'
    BY <1>1, <2>1 DEF SInv, HeadersRead, HostResolved, SlashAdded, Unset
  <2>8. QED
    BY <2>3, <2>6, <2>7 DEF SInv
<1>5. QED
  BY <1>3, <1>4

LEMMA HeadersEnd == SInv /\ end_of_headers => SInv'
  BY DEF end_of_headers, SInv, TypeOK, HeadersRead, HostResolved, SlashAdded, HeaderTargets, Unset

\* The host that a request gets is one that it names, or the default one.
LEMMA HostIsNamed ==
    ASSUME SInv, stage = "setup", resolved # NoName,
           host' = in_lower_case(resolved), port' = IF port = Unset THEN asked.url.port ELSE port,
           asked' = asked
    PROVE  /\ host' \in Names /\ port' \in Ports \cup {Unset}
           /\ Resolved'
<1> DEFINE Hs == HeaderTargets(asked)
<1>1. /\ Named(asked) \subseteq Targets
      /\ Named(asked) = Hs \cup ({asked.url} \cap Targets)
  BY NamedTargets DEF SInv, TypeOK
<1>2. asked.url \in Targets \cup {NoTarget} /\ Hs \subseteq Targets
  BY DEF SInv, TypeOK, Requests, HeaderTargets
<1>3. NoTarget.host = NoName /\ NoTarget.port = Unset /\ NoTarget \notin Targets
  BY DEF NoTarget, Targets
<1>4. \A t \in Targets : t.host \in Names /\ t.host # NoName /\ t.port \in Ports \cup {Unset}
  BY DEF Targets
<1>5. Named(asked') = Named(asked)
  OBVIOUS
<1>6. CASE host # NoName
  <2>1. PICK t \in Hs, u \in Hs : host = t.host /\ port = u.port
    BY <1>6 DEF SInv, HeadersRead
  <2>2. host' = lower[t.host] /\ t \in Named(asked)
    BY <1>1, <1>6, <2>1 DEF resolved, in_lower_case
  <2>3. PICK v \in Named(asked) : port' = v.port
    <3>1. CASE port # Unset
      BY <1>1, <2>1, <3>1
    <3>2. CASE port = Unset /\ asked.url \in Targets
      BY <1>1, <3>2
    <3>3. CASE port = Unset /\ asked.url = NoTarget
      BY <1>1, <1>3, <2>1, <3>3
    <3>4. QED
      BY <1>2, <3>1, <3>2, <3>3
  <2>4. QED
    BY <1>1, <1>2, <1>4, <1>5, <2>2, <2>3 DEF Resolved
<1>7. CASE host = NoName
  <2>1. port = Unset /\ asked.headers = <<>>
    BY <1>2, <1>4, <1>7 DEF SInv, HeadersRead
  <2>2. Hs = {} /\ port' = asked.url.port
    BY <2>1 DEF HeaderTargets
  <2>3. CASE asked.url \in Targets
    <3>1. host' = lower[asked.url.host] /\ Named(asked) = {asked.url}
      BY <1>1, <1>4, <1>7, <2>2, <2>3 DEF resolved, in_lower_case
    <3>2. QED
      BY <1>4, <1>5, <2>2, <2>3, <3>1 DEF Resolved
  <2>4. CASE asked.url = NoTarget
    <3>1. Named(asked) = {}
      BY <1>1, <1>3, <2>2, <2>4
    <3>2. default_hostname \in Names /\ host' = lower[default_hostname]
      BY <1>3, <1>7, <2>4 DEF resolved, in_lower_case
    <3>3. QED
      BY <1>3, <1>5, <2>2, <2>4, <3>1, <3>2 DEF Resolved
  <2>5. QED
    BY <1>2, <2>3, <2>4
<1>8. QED
  BY <1>6, <1>7

LEMMA ReplySetUp == SInv /\ setup_reply => SInv'
<1> SUFFICES ASSUME SInv, setup_reply PROVE SInv'
  OBVIOUS
<1>1. stage = "setup"
  BY DEF setup_reply
<1>2. CASE reply(400) /\ UNCHANGED <<host, port, location>>
  <2>1. TypeOK'
    BY <1>2 DEF SInv, TypeOK, reply
  <2>2. HeadersRead' /\ SlashAdded'
    BY <1>2 DEF SInv, HeadersRead, SlashAdded, reply
  <2>3. host \in {t.host : t \in Named(asked)} \cup {NoName}
    BY <1>1, NamedTargets DEF SInv, TypeOK, HeadersRead
  <2>4. HostResolved'
    BY <1>2, <2>3 DEF HostResolved, reply, Named
  <2>5. QED
    BY <2>1, <2>2, <2>4 DEF SInv
<1>3. CASE /\ resolved # NoName /\ host' = in_lower_case(resolved)
           /\ port' = (IF port = Unset THEN asked.url.port ELSE port)
           /\ UNCHANGED <<asked, headers, pages, logfile, followed, location>>
           /\ \/ stage' = "stat" /\ UNCHANGED status
              \/ stage' = "replied" /\ status' = 404
  <2>1. /\ host' \in Names /\ port' \in Ports \cup {Unset}
        /\ Resolved'
    BY <1>1, <1>3, HostIsNamed
  <2>2. TypeOK'
    BY <1>3, <2>1 DEF SInv, TypeOK
  <2>3. HeadersRead' /\ HostResolved' /\ SlashAdded'
    BY <1>1, <1>3, <2>1 DEF SInv, HeadersRead, HostResolved, SlashAdded, Unset
  <2>4. QED
    BY <2>2, <2>3 DEF SInv
<1>4. QED
  BY <1>2, <1>3 DEF setup_reply, reply

LEMMA FileLookedUp == SInv /\ stat => SInv'
<1> SUFFICES ASSUME SInv, stat PROVE SInv'
  OBVIOUS
<1>1. /\ stage = "stat" /\ Resolved /\ status = Unset
      /\ UNCHANGED <<asked, host, port, headers, logfile, followed>>
  BY DEF SInv, HostResolved, stat, reply
<1>2. Resolved'
  BY <1>1 DEF Resolved
<1>3. host \in Names /\ port \in Ports \cup {Unset}
  <2>1. \A t \in Named(asked) : t.host \in Names
    BY NamedTargets DEF SInv, TypeOK, Targets
  <2>2. QED
    BY <1>1, <2>1 DEF SInv, TypeOK, Resolved
<1>4. Location \in Locations
  BY <1>3 DEF Location, Locations, SInv, TypeOK, Requests, PathParts
<1>5. \/ stage' = "replied" /\ status' \in {404, 200} /\ UNCHANGED <<pages, location>>
      \/ stage' = "stat" /\ pages' = pages + 1 /\ pages < MaxPages /\ UNCHANGED <<status, location>>
      \/ /\ stage' = "replied" /\ status' = 301 /\ location' = Location /\ lacks_final_slash
         /\ UNCHANGED pages
  BY <1>1 DEF stat, reply
<1>6. TypeOK'
  BY <1>1, <1>4, <1>5 DEF SInv, TypeOK
<1>7. HeadersRead' /\ HostResolved'
  BY <1>1, <1>2, <1>5 DEF HeadersRead, HostResolved, Unset
<1>8. SlashAdded'
  BY <1>1, <1>5 DEF SInv, SlashAdded, Location, lacks_final_slash, Unset
<1>9. QED
  BY <1>6, <1>7, <1>8 DEF SInv

LEMMA Logged == SInv /\ log_access => SInv'
<1> SUFFICES ASSUME SInv, log_access PROVE SInv'
  OBVIOUS
<1>1. TypeOK'
  BY DEF log_access, SInv, TypeOK
<1>2. HeadersRead' /\ SlashAdded'
  BY DEF log_access, SInv, HeadersRead, SlashAdded, Location, lacks_final_slash
<1>3. HostResolved'
  BY DEF log_access, SInv, HostResolved, Resolved, Named
<1>4. QED
  BY <1>1, <1>2, <1>3 DEF SInv

LEMMA ClientActs == SInv /\ (Ask \/ client) => SInv'
<1> SUFFICES ASSUME SInv, Ask \/ client PROVE SInv'
  OBVIOUS
<1>1. CASE Ask
  <2>1. Requests(Paths) \subseteq Requests(Seq(PathParts))
    BY PathsAssumption DEF Requests, PathParts
  <2>2. PICK req \in Requests(Paths) : send(req, FALSE)
    BY <1>1 DEF Ask
  <2>3. QED
    BY <2>1, <2>2, RequestBegins
<1>2. CASE Follow
  <2>1. location = Location /\ send(Followed(location), TRUE)
    BY <1>2 DEF Follow, Followed, SInv, SlashAdded
  <2>2. asked.path \in Seq(PathParts) /\ location \in Locations
    <3>1. asked.path \in Seq(PathParts) /\ location \in Locations \cup {NoTarget}
      BY DEF SInv, TypeOK, Requests
    <3>2. location # NoTarget
      BY <2>1 DEF Location, NoTarget
    <3>3. QED
      BY <3>1, <3>2
  <2>3. Followed(location) \in Requests(Seq(PathParts))
    BY <2>2, NoRequestIsRequest
  \* What moved_permanently appends is what setup_reply looks for.
  <2>4. final_slash(Followed(location).path)
    <3>1. Followed(location).path = Append(asked.path, "/")
      BY <2>1 DEF Followed, Location, NoRequest
    <3>2. Append(asked.path, "/")[Len(Append(asked.path, "/"))] = "/" /\ Append(asked.path, "/") # <<>>
      BY <2>2 DEF PathParts
    <3>3. QED
      BY <3>1, <3>2 DEF final_slash
  <2>5. QED
    BY <2>1, <2>3, <2>4, RequestBegins
<1>3. CASE Rest
  <2>1. stage' = "idle" /\ request(NoRequest, FALSE)
    BY <1>3 DEF Rest
  <2>2. TypeOK'
    <3>1. followed' \in BOOLEAN /\ asked' \in Requests(Seq(PathParts))
      BY <2>1, NoRequestIsRequest DEF request
    <3>2. headers' \in Seq(Targets \cup {Malformed})
      BY <2>1, NoRequestIsRequest, HeadersAreSequences DEF request, Requests
    <3>3. QED
      BY <2>1, <3>1, <3>2 DEF request, TypeOK
  <2>3. HeadersRead' /\ HostResolved' /\ SlashAdded'
    BY <2>1 DEF request, HeadersRead, HostResolved, SlashAdded, Unset
  <2>4. QED
    BY <2>2, <2>3 DEF SInv
<1>4. QED
  BY <1>1, <1>2, <1>3 DEF client

-----------------------------------------------------------------------------
LEMMA SInvHolds == Spec => []SInv
<1>1. SInv /\ [Next]_vars => SInv'
  <2>1. SInv /\ UNCHANGED vars => SInv'
    BY DEF vars, SInv, TypeOK, HeadersRead, HostResolved, Resolved, SlashAdded, Location,
           lacks_final_slash, Named, HeaderTargets
  <2>2. QED
    BY <2>1, HeaderParsed, HeadersEnd, ReplySetUp, FileLookedUp, Logged, ClientActs DEF Next, server
<1>2. QED
  BY InitSite, <1>1, PTL DEF Spec

\* Every reachable state is typed: a reply's host is a name, a redirect's target a
\* well-formed one.
THEOREM TypeCorrect == Spec => []TypeOK
  BY SInvHolds, PTL DEF SInv

\* No client is redirected again when it has followed a redirect: moved_permanently
\* sends it to a path that ends with a slash, and only one without is redirected.
THEOREM RedirectsOnce == Spec => []RedirectOnce
<1>1. SInv => RedirectOnce
  <2>1. asked.path = <<>> => ~ final_slash(asked.path)
    BY DEF final_slash
  <2>2. QED
    BY <2>1 DEF SInv, TypeOK, SlashAdded, RedirectOnce, lacks_final_slash
<1>2. QED
  BY SInvHolds, <1>1, PTL

\* A redirect leads to the host and port the client asked for, or, if it asked for
\* several, to a host and a port among them.
THEOREM RedirectsOnSite == Spec => []RedirectStaysOnSite
<1>1. SInv => RedirectStaysOnSite
  <2> SUFFICES ASSUME SInv, status = 301 PROVE RedirectStaysOnSite
    BY DEF RedirectStaysOnSite
  <2>1. location = Location /\ Resolved
    BY DEF SInv, TypeOK, HeadersRead, HostResolved, SlashAdded, Unset
  <2>2. location.host = host /\ effective(location.port) = effective(port)
    BY <2>1 DEF Location, effective, Unset
  <2>3. CASE Named(asked) = {}
    BY <2>1, <2>3 DEF Resolved, Location, RedirectStaysOnSite, Unset
  <2>4. CASE Named(asked) # {}
    <3>1. PICK t \in Named(asked), u \in Named(asked) : host = lower[t.host] /\ port = u.port
      BY <2>1, <2>4 DEF Resolved
    <3>2. \A h \in Names : Means(asked, h) =>
              location.host = h /\ effective(location.port) = ServerPort
      BY <2>2, <3>1 DEF Means
    <3>3. QED
      BY <2>2, <2>4, <3>1, <3>2 DEF RedirectStaysOnSite
  <2>5. QED
    BY <2>3, <2>4
<1>2. QED
  BY SInvHolds, <1>1, PTL

\* Every host has one log file, except for requests that are refused.
THEOREM OneLogCorrect == Spec => []OneLogPerHost
<1>1. SInv => OneLogPerHost
  <2> SUFFICES ASSUME SInv, stage = "logged" PROVE OneLogPerHost
    BY DEF OneLogPerHost
  <2>1. logfile = host
    BY DEF SInv, HostResolved
  <2>2. CASE status = 400
    BY <2>1, <2>2 DEF SInv, HostResolved, OneLogPerHost
  <2>3. CASE status # 400
    <3>1. Resolved /\ \A t \in Named(asked) : t.host \in Names
      BY <2>3, NamedTargets DEF SInv, HostResolved, TypeOK, Targets
    <3>2. lower[host] = host
      BY <3>1 DEF Resolved
    <3>3. \A h \in Names : Named(asked) # {} /\ Means(asked, h) => host = h
      BY <3>1 DEF Resolved, Means
    <3>4. QED
      BY <2>1, <2>3, <3>2, <3>3 DEF OneLogPerHost
  <2>4. QED
    BY <2>2, <2>3
<1>2. QED
  BY SInvHolds, <1>1, PTL

=============================================================================
