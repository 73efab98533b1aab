------------------------------ MODULE HttpServer ------------------------------
(***************************************************************************)
(* What the server promises, whatever its clients do and whatever it runs  *)
(* out of: the abstract specification that Server implements.  Every       *)
(* connection is an HttpConnection; a step of one leaves the others as     *)
(* they are; connections are accepted only as long as the server listens,  *)
(* and it never starts to listen again.                                    *)
(***************************************************************************)
EXTENDS Naturals

CONSTANT Slots     \* places for connections

VARIABLES
    accepting,           \* does the server listen?
    phase, keep, owed    \* HttpConnection's variables, for each slot

vars == <<accepting, phase, keep, owed>>

C(s) == INSTANCE HttpConnection WITH phase <- phase[s], keep <- keep[s], owed <- owed[s]

AllClosed ==
    /\ phase = [s \in Slots |-> "closed"]
    /\ keep = [s \in Slots |-> FALSE] /\ owed = [s \in Slots |-> 0]

Init == accepting = TRUE /\ AllClosed

\* Nothing but slot s changes.
Only(s) == \A t \in Slots \ {s} : UNCHANGED <<phase[t], keep[t], owed[t]>>

Open(s) ==
    /\ accepting /\ phase[s] = "closed"
    /\ phase' = [phase EXCEPT ![s] = "receiving"]
    /\ UNCHANGED <<accepting, keep, owed>>

\* A connection goes on by itself.
Proceed(s) == C(s)!Next /\ Only(s) /\ UNCHANGED accepting

StopListening == accepting' = FALSE /\ UNCHANGED <<phase, keep, owed>>

Shutdown == accepting' = FALSE /\ AllClosed'

Next == (\E s \in Slots : Open(s) \/ Proceed(s)) \/ StopListening \/ Shutdown

Spec == Init /\ [][Next]_vars

=============================================================================
