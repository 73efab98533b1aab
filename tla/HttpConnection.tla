--------------------------- MODULE HttpConnection ---------------------------
(***************************************************************************)
(* What a connection promises, whatever is sent over it: the abstract      *)
(* specification that RequestHandler implements.  Replies are sent one at  *)
(* a time; a reply that is finished is logged before anything else         *)
(* happens; the reply decides when it is started whether another request   *)
(* will be read; when it will not, the connection drains and closes.  The  *)
(* connection may break off at any time, and only then is a reply that was *)
(* started left without its entry in the access log.                       *)
(***************************************************************************)
EXTENDS Naturals

VARIABLES
    phase,   \* "receiving", "replying", "draining" or "closed"
    keep,    \* while replying: will the connection receive again?
    owed     \* access-log entries owed for replies that were started

vars == <<phase, keep, owed>>

Init == phase = "receiving" /\ keep = FALSE /\ owed = 0

StartReply ==
    /\ phase = "receiving"
    /\ phase' = "replying"
    /\ keep' \in BOOLEAN
    /\ owed' = owed + 1

\* Sent and logged.
FinishReply ==
    /\ phase = "replying"
    /\ owed' = owed - 1
    /\ phase' = IF keep THEN "receiving" ELSE "draining"
    /\ keep' = FALSE

\* The peer stopped sending, or stopped accepting the reply.
PeerStops ==
    /\ phase \in {"receiving", "replying"}
    /\ phase' = "draining" /\ keep' = FALSE
    /\ UNCHANGED owed

Close ==
    /\ phase # "closed"
    /\ phase' = "closed" /\ keep' = FALSE /\ owed' = 0

Next == StartReply \/ FinishReply \/ PeerStops \/ Close

Spec == Init /\ [][Next]_vars

=============================================================================
