---------------------------- MODULE ServerProofs ----------------------------
(***************************************************************************)
(* Theorems about Server, for any number of descriptors, any threshold and *)
(* any backlog.                                                            *)
(***************************************************************************)
EXTENDS Server, FiniteSetTheorems, TLAPS

USE FdsAssumption, BoundsAssumption

-----------------------------------------------------------------------------
(* The descriptors, the scheduler's table and the count depend on each     *)
(* other: the count stays a natural number only because it is exact.       *)

Tables == DescriptorsOwned /\ RegisteredExist /\ InstancesExact

TableTypes ==
    /\ listener \in Fds \cup {NoFd} /\ open \subseteq Fds /\ registered \subseteq Fds
    /\ phase \in [Fds -> {"none", "receiving", "replying", "sending", "draining"}]
    /\ file \in [Fds -> Fds \cup {NoFd}] /\ keep \in [Fds -> BOOLEAN]
    /\ instances \in Nat

TInv == TableTypes /\ Tables

LEMMA SocketsFinite == IsFiniteSet(Sockets) /\ Cardinality(Sockets) \in Nat
  BY FS_Subset, FS_CardinalityType DEF Sockets

LEMMA InitTables == Init => TInv
<1> SUFFICES ASSUME Init PROVE TInv
  OBVIOUS
<1> listener \in Fds
  BY DEF Init, Lowest
<1>1. TableTypes
  BY DEF Init, TableTypes
<1>2. Sockets = {} /\ Files = {} /\ Listening = {listener}
  BY DEF Init, Sockets, Files, Listening
<1>3. DescriptorsOwned /\ RegisteredExist
  BY <1>2 DEF Init, DescriptorsOwned, RegisteredExist
<1>4. InstancesExact
  BY <1>2, FS_EmptySet DEF Init, InstancesExact
<1>5. QED
  BY <1>1, <1>3, <1>4 DEF TInv, Tables

LEMMA UnchangedTables ==
    ASSUME TInv, UNCHANGED <<listener, tableVars>> PROVE TInv'
  BY DEF TInv, TableTypes, Tables, tableVars, DescriptorsOwned, RegisteredExist, InstancesExact,
     Sockets, Files, Listening

\* A new connection takes a free descriptor.
LEMMA ConstructTables ==
    ASSUME TInv, NEW s \in Available, construct(s), UNCHANGED listener
    PROVE  TInv'
<1> s \in Fds \ open
  BY DEF Available, Lowest
<1>1. /\ Sockets' = Sockets \cup {s} /\ s \notin Sockets
      /\ Files' = Files /\ Listening' = Listening
  <2>1. s \notin Sockets
    BY DEF TInv, Tables, DescriptorsOwned
  <2>2. Sockets' = Sockets \cup {s}
    BY DEF TInv, TableTypes, construct, Sockets
  <2>3. QED
    BY <2>1, <2>2 DEF construct, Files, Listening
<1>2. TableTypes'
  BY DEF TInv, TableTypes, construct
<1>3. DescriptorsOwned'
  <2>1. s \notin Listening /\ s \notin Files /\ file[s] = NoFd
    BY <1>1 DEF TInv, Tables, DescriptorsOwned, Sockets
  <2>2. open' = Listening' \cup Sockets' \cup Files'
    BY <1>1 DEF TInv, Tables, DescriptorsOwned, construct
  <2>3. listener' \notin Sockets' /\ (Listening' \cup Sockets') \cap Files' = {}
    BY <1>1, <2>1 DEF TInv, TableTypes, Tables, DescriptorsOwned, Listening
  <2>4. \A t, u \in Fds : file'[t] = file'[u] /\ file'[t] # NoFd => t = u
    BY DEF TInv, Tables, DescriptorsOwned, construct
  <2>5. \A t \in Fds : file'[t] # NoFd => phase'[t] = "sending"
    BY <2>1 DEF TInv, TableTypes, Tables, DescriptorsOwned, construct
  <2>6. QED
    BY <2>2, <2>3, <2>4, <2>5 DEF DescriptorsOwned
<1>4. RegisteredExist'
  BY <1>1 DEF TInv, Tables, RegisteredExist, construct
<1>5. InstancesExact'
  BY <1>1, SocketsFinite, FS_AddElement DEF TInv, Tables, InstancesExact, construct
<1>6. QED
  BY <1>2, <1>3, <1>4, <1>5 DEF TInv, Tables

\* A connection that ends gives up its socket and its file, and nothing else.
LEMMA DeleteTables ==
    ASSUME TInv, NEW s \in Sockets, delete(s), UNCHANGED listener
    PROVE  TInv'
<1>1. /\ s \in Fds /\ phase' = [phase EXCEPT ![s] = "none"]
      /\ file' = [file EXCEPT ![s] = NoFd] /\ open' = open \ {s, file[s]}
      /\ keep' = [keep EXCEPT ![s] = FALSE]
      /\ registered' = registered \ {s} /\ instances' = instances - 1
  BY DEF delete, Sockets
<1>2. Sockets' = Sockets \ {s} /\ Listening' = Listening
  BY <1>1 DEF TInv, TableTypes, Sockets, Listening
<1>3. Files' = Files \ {file[s]}
  BY <1>1 DEF TInv, TableTypes, Tables, DescriptorsOwned, Files
<1>4. /\ s \notin Files /\ s \notin Listening
      /\ file[s] \notin Listening /\ file[s] \notin Sockets
  BY <1>1 DEF TInv, TableTypes, Tables, DescriptorsOwned, Files, Listening, Sockets
<1>5. DescriptorsOwned'
  <2>1. open' = Listening' \cup Sockets' \cup Files'
    BY <1>1, <1>2, <1>3, <1>4 DEF TInv, Tables, DescriptorsOwned
  <2>2. listener' \notin Sockets' /\ (Listening' \cup Sockets') \cap Files' = {}
    BY <1>2, <1>3 DEF TInv, Tables, DescriptorsOwned
  <2>3. \A t, u \in Fds : file'[t] = file'[u] /\ file'[t] # NoFd => t = u
    BY <1>1 DEF TInv, TableTypes, Tables, DescriptorsOwned
  <2>4. \A t \in Fds : file'[t] # NoFd => phase'[t] = "sending"
    BY <1>1 DEF TInv, TableTypes, Tables, DescriptorsOwned
  <2>5. QED
    BY <2>1, <2>2, <2>3, <2>4 DEF DescriptorsOwned
<1>6. RegisteredExist'
  BY <1>1, <1>2, <1>4 DEF TInv, Tables, RegisteredExist
<1>7. instances' = Cardinality(Sockets') /\ instances' \in Nat
  <2>1. /\ IsFiniteSet(Sockets \ {s})
        /\ Cardinality(Sockets \ {s}) = Cardinality(Sockets) - 1
    BY SocketsFinite, FS_RemoveElement
  <2>2. Cardinality(Sockets \ {s}) \in Nat
    BY <2>1, FS_CardinalityType
  <2>3. QED
    BY <1>1, <1>2, <2>1, <2>2 DEF TInv, Tables, InstancesExact
<1>8. TableTypes'
  BY <1>1, <1>7 DEF TInv, TableTypes
<1>9. QED
  BY <1>5, <1>6, <1>7, <1>8 DEF TInv, Tables, InstancesExact

\* Whatever a connection does to its phase and file, the sockets are the same.
LEMMA PhaseTables ==
    ASSUME TInv, DescriptorsOwned', TableTypes', Sockets' = Sockets,
           UNCHANGED <<listener, registered, instances>>
    PROVE  TInv'
  BY DEF TInv, Tables, RegisteredExist, InstancesExact, Listening

LEMMA ReplyStartsTables ==
    ASSUME TInv, NEW s \in Fds, reply_starts(s) PROVE TInv'
<1>1. phase[s] = "receiving" /\ file[s] = NoFd /\ keep' \in [Fds -> BOOLEAN]
  <2>1. phase[s] = "receiving" /\ file[s] = NoFd
    BY DEF reply_starts, TInv, Tables, DescriptorsOwned
  <2>2. keep' \in [Fds -> BOOLEAN]
    BY DEF reply_starts, TInv, TableTypes
  <2>3. QED
    BY <2>1, <2>2
<1>2. CASE phase' = [phase EXCEPT ![s] = "replying"] /\ UNCHANGED <<open, file>>
  <2>1. Sockets' = Sockets /\ Files' = Files /\ Listening' = Listening
    BY <1>1, <1>2 DEF reply_starts, TInv, TableTypes, Sockets, Files, Listening
  <2>2. TableTypes'
    BY <1>1, <1>2 DEF reply_starts, TInv, TableTypes
  <2>3. DescriptorsOwned'
    BY <1>1, <1>2, <2>1 DEF reply_starts, TInv, TableTypes, Tables, DescriptorsOwned
  <2>4. QED
    BY <2>1, <2>2, <2>3, PhaseTables DEF reply_starts
<1>3. ASSUME NEW f \in Available, phase' = [phase EXCEPT ![s] = "sending"],
             open' = open \cup {f}, file' = [file EXCEPT ![s] = f]
      PROVE  TInv'
  <2> f \in Fds \ open
    BY DEF Available, Lowest
  <2>1. Sockets' = Sockets /\ Files' = Files \cup {f} /\ Listening' = Listening
    <3>1. Sockets' = Sockets /\ Listening' = Listening
      BY <1>1, <1>3 DEF reply_starts, TInv, TableTypes, Sockets, Listening
    <3>2. Files' = Files \cup {f}
      BY <1>1, <1>3 DEF TInv, TableTypes, Files
    <3>3. QED
      BY <3>1, <3>2
  <2>2. TableTypes'
    BY <1>1, <1>3 DEF reply_starts, TInv, TableTypes
  <2>3. f \notin Listening /\ f \notin Sockets /\ \A t \in Fds : file[t] # f
    BY <1>3 DEF TInv, TableTypes, Tables, DescriptorsOwned, Files
  <2>4. DescriptorsOwned'
    <3>1. open' = Listening' \cup Sockets' \cup Files'
      BY <1>3, <2>1 DEF TInv, Tables, DescriptorsOwned
    <3>2. listener' \notin Sockets' /\ (Listening' \cup Sockets') \cap Files' = {}
      BY <2>1, <2>3 DEF reply_starts, TInv, Tables, DescriptorsOwned
    <3>3. \A t, u \in Fds : file'[t] = file'[u] /\ file'[t] # NoFd => t = u
      BY <1>3, <2>3 DEF TInv, TableTypes, Tables, DescriptorsOwned
    <3>4. \A t \in Fds : file'[t] # NoFd => phase'[t] = "sending"
      BY <1>3 DEF TInv, TableTypes, Tables, DescriptorsOwned
    <3>5. QED
      BY <3>1, <3>2, <3>3, <3>4 DEF DescriptorsOwned
  <2>5. QED
    BY <2>1, <2>2, <2>4, PhaseTables DEF reply_starts
<1>4. QED
  BY <1>2, <1>3 DEF reply_starts

LEMMA FileEndsTables ==
    ASSUME TInv, NEW s \in Fds, file_ends(s) PROVE TInv'
<1>1. /\ file[s] # NoFd /\ open' = open \ {file[s]} /\ file' = [file EXCEPT ![s] = NoFd]
      /\ UNCHANGED <<registered, phase, keep, instances, listener>>
  BY DEF file_ends
<1>2. Sockets' = Sockets /\ Listening' = Listening
  BY <1>1 DEF Sockets, Listening
<1>3. Files' = Files \ {file[s]} /\ file[s] \notin Listening \cup Sockets
  BY <1>1 DEF TInv, TableTypes, Tables, DescriptorsOwned, Files
<1>4. TableTypes'
  BY <1>1 DEF TInv, TableTypes
<1>5. DescriptorsOwned'
  <2>1. open' = Listening' \cup Sockets' \cup Files'
    BY <1>1, <1>2, <1>3 DEF TInv, Tables, DescriptorsOwned
  <2>2. listener' \notin Sockets' /\ (Listening' \cup Sockets') \cap Files' = {}
    BY <1>1, <1>2, <1>3 DEF TInv, Tables, DescriptorsOwned
  <2>3. /\ \A t, u \in Fds : file'[t] = file'[u] /\ file'[t] # NoFd => t = u
        /\ \A t \in Fds : file'[t] # NoFd => phase'[t] = "sending"
    BY <1>1 DEF TInv, TableTypes, Tables, DescriptorsOwned
  <2>4. QED
    BY <2>1, <2>2, <2>3 DEF DescriptorsOwned
<1>6. QED
  BY <1>1, <1>2, <1>4, <1>5, PhaseTables

LEMMA ReplyEndsTables ==
    ASSUME TInv, NEW s \in Fds, reply_ends(s) PROVE TInv'
<1>1. s \in Sockets /\ file[s] = NoFd
  BY DEF reply_ends, Sockets
<1>2. CASE delete(s)
  BY <1>1, <1>2, DeleteTables DEF reply_ends
<1>3. CASE reply_sent(s)
  <2>1. PICK next \in {"receiving", "draining"} :
           /\ phase' = [phase EXCEPT ![s] = next] /\ keep' = [keep EXCEPT ![s] = FALSE]
           /\ UNCHANGED <<open, registered, file, instances, listener>>
    BY <1>3 DEF reply_sent, reply_ends
  <2>2. Sockets' = Sockets /\ Files' = Files /\ Listening' = Listening
    BY <1>1, <2>1 DEF TInv, TableTypes, Sockets, Files, Listening
  <2>3. TableTypes'
    BY <2>1 DEF TInv, TableTypes
  <2>4. DescriptorsOwned'
    BY <1>1, <2>1, <2>2 DEF TInv, TableTypes, Tables, DescriptorsOwned
  <2>5. QED
    BY <2>1, <2>2, <2>3, <2>4, PhaseTables
<1>4. QED
  BY <1>2, <1>3 DEF reply_ends

LEMMA ListenerErrorTables ==
    ASSUME TInv, listener_error_condition PROVE TInv'
<1>1. /\ listener # NoFd /\ listener' = NoFd /\ open' = open \ {listener}
      /\ registered' = registered \ {listener} /\ UNCHANGED <<phase, file, keep, instances>>
  BY DEF listener_error_condition
<1>2. Sockets' = Sockets /\ Files' = Files /\ Listening' = {} /\ Listening = {listener}
  BY <1>1 DEF Sockets, Files, Listening
<1>3. TableTypes'
  BY <1>1 DEF TInv, TableTypes
<1>4. NoFd \notin Sockets
  BY DEF Sockets
<1>5. DescriptorsOwned' /\ RegisteredExist'
  BY <1>1, <1>2, <1>4 DEF TInv, Tables, DescriptorsOwned, RegisteredExist
<1>6. InstancesExact'
  BY <1>1, <1>2 DEF TInv, Tables, InstancesExact
<1>7. QED
  BY <1>3, <1>5, <1>6 DEF TInv, Tables

LEMMA ExitTables == ASSUME TInv, exit PROVE TInv'
<1>1. TableTypes'
  BY DEF exit, TableTypes
<1>2. Sockets' = {} /\ Files' = {} /\ Listening' = {}
  BY DEF exit, Sockets, Files, Listening
<1>3. DescriptorsOwned' /\ RegisteredExist'
  BY <1>2 DEF exit, DescriptorsOwned, RegisteredExist
<1>4. InstancesExact'
  BY <1>2, FS_EmptySet DEF exit, InstancesExact
<1>5. QED
  BY <1>1, <1>3, <1>4 DEF TInv, Tables

LEMMA NextTables == TInv /\ [Next]_vars => TInv'
<1> SUFFICES ASSUME TInv, [Next]_vars PROVE TInv'
  OBVIOUS
<1>1. CASE Connect \/ set_sig_term \/ UNCHANGED vars
  BY <1>1, UnchangedTables DEF Connect, set_sig_term, vars
<1>2. CASE accept
  <2>1. PICK s \in Available : construct(s) \/ construction_fails(s)
    BY <1>2 DEF accept
  <2>2. QED
    BY <1>2, <2>1, ConstructTables, UnchangedTables DEF accept, construction_fails
<1>3. CASE listener_error_condition
  BY <1>3, ListenerErrorTables
<1>4. CASE connection_callback
  <2>1. ASSUME NEW s \in Fds, connection_ends(s) PROVE TInv'
    BY <2>1, DeleteTables DEF connection_ends
  <2>2. QED
    BY <1>4, <2>1, ReplyStartsTables, FileEndsTables, ReplyEndsTables DEF connection_callback
<1>5. CASE main_step
  BY <1>5, UnchangedTables, ExitTables DEF main_step, schedule, enter_poll, schedule_returns,
     adjust_poll_interval
<1>6. QED
  BY <1>1, <1>2, <1>3, <1>4, <1>5 DEF Next

LEMMA TablesCorrect == Spec => []TInv
  BY InitTables, NextTables, PTL DEF Spec

-----------------------------------------------------------------------------
\* Every open descriptor has exactly one owner.
THEOREM OwnersCorrect == Spec => []DescriptorsOwned
  BY TablesCorrect, PTL DEF TInv, Tables

\* The scheduler's table holds the objects that exist and no others.
THEOREM RegistrationCorrect == Spec => []RegisteredExist
  BY TablesCorrect, PTL DEF TInv, Tables

\* The instances are counted exactly.
THEOREM InstancesCorrect == Spec => []InstancesExact
  BY TablesCorrect, PTL DEF TInv, Tables

-----------------------------------------------------------------------------
(* The poll interval.                                                      *)

PInv ==
    /\ using_accurate_poll_interval \in BOOLEAN /\ poll_interval \in {"accurate", "hard"}
    /\ PollIntervalFollowsLoad

LEMMA NextPoll == ASSUME TableTypes, PInv, [Next]_vars PROVE PInv'
<1>1. CASE adjust_poll_interval
  <2>1. instances' = instances /\ instances \in Nat /\ Threshold \in Nat
    BY <1>1 DEF adjust_poll_interval, tableVars, TableTypes
  <2>2. (instances <= Threshold) <=> ~ (instances > Threshold)
    BY <2>1
  <2>3. CASE instances > Threshold
    <3>1. poll_interval' = "hard" /\ using_accurate_poll_interval' = FALSE
      BY <1>1, <2>2, <2>3 DEF adjust_poll_interval, set_poll_interval, pollVars, PInv,
         PollIntervalFollowsLoad
    <3>2. QED
      BY <2>1, <2>3, <3>1 DEF PInv, PollIntervalFollowsLoad
  <2>4. CASE ~ (instances > Threshold)
    <3>1. poll_interval' = "accurate" /\ using_accurate_poll_interval' = TRUE
      BY <1>1, <2>2, <2>4 DEF adjust_poll_interval, set_poll_interval, pollVars, PInv,
         PollIntervalFollowsLoad
    <3>2. QED
      BY <2>1, <2>4, <3>1 DEF PInv, PollIntervalFollowsLoad
  <2>5. QED
    BY <2>3, <2>4
<1>2. CASE main' # "loop" /\ UNCHANGED pollVars
  BY <1>2 DEF pollVars, PInv, PollIntervalFollowsLoad
<1>3. CASE UNCHANGED <<main, pollVars, instances>>
  BY <1>3 DEF pollVars, PInv, PollIntervalFollowsLoad
<1>4. Connect \/ set_sig_term \/ UNCHANGED vars => UNCHANGED <<main, pollVars, instances>>
  BY DEF Connect, set_sig_term, vars, tableVars
<1>5. accept \/ listener_error_condition \/ connection_callback
        => main' # "loop" /\ UNCHANGED pollVars
  BY DEF accept, InCallback, listener_error_condition, connection_callback, connection_ends,
     reply_starts, file_ends, reply_ends
<1>6. schedule \/ enter_poll \/ schedule_returns \/ exit => main' # "loop" /\ UNCHANGED pollVars
  BY DEF schedule, enter_poll, schedule_returns, exit
<1>7. QED
  BY <1>1, <1>2, <1>3, <1>4, <1>5, <1>6 DEF Next, main_step

LEMMA PollInvariant == Spec => []PInv
<1>1. Init => PInv
  <2> SUFFICES ASSUME Init PROVE PInv
    OBVIOUS
  <2>1. using_accurate_poll_interval = TRUE /\ poll_interval = "accurate" /\ instances = 0
    BY DEF Init
  <2>2. ~ (instances > Threshold)
    BY <2>1
  <2>3. QED
    BY <2>1, <2>2 DEF PInv, PollIntervalFollowsLoad
<1>2. TInv => TableTypes
  BY DEF TInv
<1>3. QED
  BY <1>1, <1>2, NextPoll, TablesCorrect, PTL DEF Spec

\* main's flag, the scheduler and the number of connections agree.
THEOREM PollIntervalCorrect == Spec => []PollIntervalFollowsLoad
  BY PollInvariant, PTL DEF PInv

-----------------------------------------------------------------------------
(* Types.  The provers want the flags apart from the numbers.              *)

Flags == got_terminate_sig \in BOOLEAN /\ woken \in BOOLEAN /\ missing \in BOOLEAN

Others ==
    /\ main \in {"loop", "entering", "schedule", "poll_interval", "exited", "crashed"}
    /\ backlog \in Nat

LEMMA NextFlags == ASSUME Flags, [Next]_vars PROVE Flags'
<1>1. CASE Connect \/ set_sig_term \/ UNCHANGED vars
  BY <1>1, Zenon DEF Flags, Connect, set_sig_term, vars
<1>2. CASE accept \/ listener_error_condition
  BY <1>2, Zenon DEF Flags, accept, listener_error_condition, InCallback
<1>3. CASE connection_callback
  <2> SUFFICES ASSUME NEW s \in Fds,
                      connection_ends(s) \/ reply_starts(s) \/ file_ends(s) \/ reply_ends(s)
               PROVE  Flags'
    BY <1>3 DEF connection_callback
  <2>1. got_terminate_sig' = got_terminate_sig /\ woken' = TRUE
    BY Zenon DEF connection_ends, reply_starts, file_ends, reply_ends, InCallback
  <2>2. missing' \in BOOLEAN
    BY Zenon DEF Flags, connection_ends, reply_starts, file_ends, reply_ends
  <2>3. QED
    BY <2>1, <2>2, Zenon DEF Flags
<1>4. CASE main_step
  BY <1>4, Zenon DEF Flags, main_step, schedule, enter_poll, schedule_returns,
     adjust_poll_interval, exit
<1>5. QED
  BY <1>1, <1>2, <1>3, <1>4, Zenon DEF Next

LEMMA NextOthers == ASSUME Others, [Next]_vars PROVE Others'
<1>1. CASE Connect \/ set_sig_term \/ UNCHANGED vars
  BY <1>1 DEF Others, Connect, set_sig_term, vars
<1>2. CASE accept \/ listener_error_condition
  BY <1>2 DEF Others, accept, listener_error_condition, InCallback
<1>3. CASE connection_callback
  BY <1>3 DEF Others, connection_callback, connection_ends, reply_starts, file_ends, reply_ends,
     InCallback
<1>4. CASE main_step
  BY <1>4 DEF Others, main_step, schedule, enter_poll, schedule_returns, adjust_poll_interval,
     exit
<1>5. QED
  BY <1>1, <1>2, <1>3, <1>4 DEF Next

\* Every variable has a value of its type: the count of connections is a natural
\* number, which needs TInv, and so are the connections waiting in the kernel.
THEOREM TypeCorrect == Spec => []TypeOK
<1>1. Init => Flags
  BY Zenon DEF Init, Flags
<1>2. Init => Others
  BY DEF Init, Others
<1>3. TInv /\ PInv /\ Flags /\ Others => TypeOK
  BY Zenon DEF TInv, TableTypes, PInv, Flags, Others, TypeOK
<1>4. QED
  BY <1>1, <1>2, <1>3, NextFlags, NextOthers, TablesCorrect, PollInvariant, PTL DEF Spec

-----------------------------------------------------------------------------
(* Refinement: Server implements HttpServer. *)

\* HttpServer's variables keep and owed, for one slot.
Keep(s) == Replying(s) /\ keep[s]
Owed(s) == IF Replying(s) THEN 1 ELSE 0

LEMMA InitAbstract == Init => Abstract!Init
<1> SUFFICES ASSUME Init PROVE Abstract!Init
  OBVIOUS
<1>1. listener # NoFd
  BY FdsAssumption DEF Init, Lowest
<1>2. \A s \in Fds : Phase(s) = "closed" /\ ~Replying(s)
  BY DEF Init, Phase, Replying
<1>3. QED
  BY <1>1, <1>2 DEF Abstract!Init, Abstract!AllClosed

\* A slot whose connection does not move is as it was.
LEMMA SlotStutters ==
    ASSUME NEW s \in Fds, UNCHANGED <<main, phase[s], keep[s]>>
    PROVE  Phase(s)' = Phase(s) /\ Keep(s)' = Keep(s) /\ Owed(s)' = Owed(s)
  BY DEF Phase, Keep, Owed, Replying

\* The step of one connection is a step of one HttpConnection.
LEMMA OneProceeds ==
    ASSUME NEW s \in Fds, UNCHANGED <<main, listener>>,
           \A t \in Fds \ {s} : UNCHANGED <<phase[t], keep[t]>>,
           Abstract!C(s)!Next
    PROVE  Abstract!Next
<1>1. Abstract!Only(s)
  BY SlotStutters DEF Abstract!Only, Keep, Owed
<1>2. QED
  BY <1>1 DEF Abstract!Next, Abstract!Proceed

LEMMA DeleteImplements ==
    ASSUME TableTypes, main = "schedule", NEW s \in Sockets, delete(s),
           UNCHANGED <<main, listener>>
    PROVE  Abstract!Next
<1>1. s \in Fds /\ Phase(s) # "closed" /\ Phase(s)' = "closed" /\ ~Replying(s)'
  BY DEF delete, Sockets, Phase, Replying, TableTypes
<1>2. \A t \in Fds \ {s} : UNCHANGED <<phase[t], keep[t]>>
  BY DEF delete, TableTypes
<1>3. Abstract!C(s)!Close
  BY <1>1 DEF Abstract!C!Close
<1>4. QED
  BY <1>1, <1>2, <1>3, OneProceeds DEF Abstract!C!Next

LEMMA ReplyStartsImplements ==
    ASSUME TableTypes, NEW s \in Fds, reply_starts(s) PROVE Abstract!Next
<1>1. /\ main = "schedule" /\ UNCHANGED <<main, listener>> /\ phase[s] = "receiving"
      /\ phase'[s] \in {"replying", "sending"} /\ keep'[s] \in BOOLEAN
  BY DEF reply_starts, InCallback, TableTypes
<1>2. \A t \in Fds \ {s} : UNCHANGED <<phase[t], keep[t]>>
  BY DEF reply_starts, TableTypes
<1>3. Phase(s) = "receiving" /\ Phase(s)' = "replying" /\ ~Replying(s) /\ Replying(s)'
  BY <1>1 DEF Phase, Replying
<1>4. Keep(s)' \in BOOLEAN /\ Owed(s)' = Owed(s) + 1
  BY <1>3 DEF Keep, Owed
<1>5. Abstract!C(s)!StartReply
  BY <1>3, <1>4 DEF Abstract!C!StartReply, Keep, Owed
<1>6. QED
  BY <1>1, <1>2, <1>5, OneProceeds DEF Abstract!C!Next

LEMMA ReplySentImplements ==
    ASSUME TableTypes, NEW s \in Fds, reply_ends(s), reply_sent(s) PROVE Abstract!Next
<1>1. /\ main = "schedule" /\ UNCHANGED <<main, listener>>
      /\ phase[s] \in {"replying", "sending"}
      /\ phase'[s] = (IF keep[s] THEN "receiving" ELSE "draining")
  BY DEF reply_ends, reply_sent, InCallback, TableTypes
<1>2. \A t \in Fds \ {s} : UNCHANGED <<phase[t], keep[t]>>
  BY DEF reply_sent, TableTypes
<1>3. /\ Phase(s) = "replying" /\ Replying(s) /\ ~Replying(s)'
      /\ Phase(s)' = (IF keep[s] THEN "receiving" ELSE "draining")
  BY <1>1 DEF Phase, Replying
<1>4. Abstract!C(s)!FinishReply
  <2> DEFINE kept == [t \in Fds |-> Replying(t) /\ keep[t]]
             owes == [t \in Fds |-> IF Replying(t) THEN 1 ELSE 0]
             what == [t \in Fds |-> Phase(t)]
  <2>1. kept[s] = (Replying(s) /\ keep[s])
    OBVIOUS
  <2>2. what[s] = "replying" /\ what[s]' = (IF kept[s] THEN "receiving" ELSE "draining")
    BY <1>3, <2>1, Zenon
  <2>3. kept[s]' = FALSE
    BY <1>3, Zenon
  <2>4. owes[s]' = owes[s] - 1
    BY <1>3
  <2>5. QED
    BY <2>2, <2>3, <2>4, Zenon DEF Abstract!C!FinishReply
<1>5. QED
  BY <1>1, <1>2, <1>4, OneProceeds DEF Abstract!C!Next

LEMMA Stutters ==
    ASSUME UNCHANGED <<main, listener, phase, keep>> PROVE UNCHANGED Abstract!vars
  BY DEF Abstract!vars, Phase, Replying

LEMMA AcceptImplements == ASSUME TInv, accept PROVE [Abstract!Next]_(Abstract!vars)
<1>1. PICK s \in Available : construct(s) \/ construction_fails(s)
  BY DEF accept
<1>2. s \in Fds /\ s \notin open
  BY DEF Available, Lowest
<1>3. main = "schedule" /\ UNCHANGED <<main, listener>> /\ listener # NoFd
  BY DEF accept, InCallback
<1>4. CASE construct(s)
  <2>1. phase[s] = "none" /\ phase' = [phase EXCEPT ![s] = "receiving"] /\ keep' = keep
    BY <1>2, <1>4 DEF construct, TInv, Tables, DescriptorsOwned, Sockets
  <2>2. Phase(s) = "closed" /\ Phase(s)' = "receiving" /\ ~Replying(s) /\ ~Replying(s)'
    BY <1>2, <1>3, <2>1 DEF Phase, Replying, TInv, TableTypes
  <2>3. \A t \in Fds \ {s} : UNCHANGED <<phase[t], keep[t]>>
    BY <2>1 DEF TInv, TableTypes
  <2>4. /\ \A t \in Fds : Keep(t)' = Keep(t) /\ Owed(t)' = Owed(t)
        /\ \A t \in Fds \ {s} : Phase(t)' = Phase(t)
    BY <1>3, <2>2, <2>3, SlotStutters DEF Keep, Owed
  <2>5. Abstract!Open(s)
    BY <1>2, <1>3, <2>2, <2>4 DEF Abstract!Open, Keep, Owed
  <2>6. QED
    BY <1>2, <2>5 DEF Abstract!Next
<1>5. CASE construction_fails(s)
  BY <1>3, <1>5, Stutters DEF construction_fails, tableVars
<1>6. QED
  BY <1>1, <1>4, <1>5

LEMMA ListenerErrorImplements ==
    ASSUME listener_error_condition PROVE Abstract!Next
<1>1. /\ main = "schedule" /\ main' \in {"schedule", "crashed"}
      /\ listener' = NoFd /\ UNCHANGED <<phase, keep>>
  BY DEF listener_error_condition
<1>2. CASE main' = "schedule"
  <2>1. Abstract!StopListening
    BY <1>1, <1>2, SlotStutters DEF Abstract!StopListening, Keep, Owed
  <2>2. QED
    BY <2>1 DEF Abstract!Next
<1>3. CASE main' = "crashed"
  <2>1. \A s \in Fds : Phase(s)' = "closed" /\ ~Replying(s)'
    BY <1>3 DEF Phase, Replying
  <2>2. Abstract!Shutdown
    BY <1>1, <2>1 DEF Abstract!Shutdown, Abstract!AllClosed
  <2>3. QED
    BY <2>2 DEF Abstract!Next
<1>4. QED
  BY <1>1, <1>2, <1>3

LEMMA ExitImplements == ASSUME exit PROVE Abstract!Next
<1>1. /\ listener' = NoFd
      /\ \A s \in Fds : Phase(s)' = "closed" /\ ~Replying(s)'
  BY DEF exit, Phase, Replying
<1>2. Abstract!Shutdown
  BY <1>1 DEF Abstract!Shutdown, Abstract!AllClosed
<1>3. QED
  BY <1>2 DEF Abstract!Next

LEMMA NextImplements ==
    ASSUME TInv, [Next]_vars PROVE [Abstract!Next]_(Abstract!vars)
<1>1. CASE Connect \/ set_sig_term \/ UNCHANGED vars
  BY <1>1, Stutters DEF Connect, set_sig_term, vars, tableVars
<1>2. CASE connection_callback
  <2>1. PICK s \in Fds :
           connection_ends(s) \/ reply_starts(s) \/ file_ends(s) \/ reply_ends(s)
    BY <1>2 DEF connection_callback
  <2>2. TableTypes /\ main = "schedule" /\ UNCHANGED main
    BY <2>1 DEF TInv, connection_ends, reply_starts, file_ends, reply_ends, InCallback
  <2>3. CASE connection_ends(s)
    BY <2>2, <2>3, DeleteImplements DEF connection_ends
  <2>4. CASE reply_starts(s)
    BY <2>2, <2>4, ReplyStartsImplements
  <2>5. CASE file_ends(s)
    BY <2>2, <2>5, Stutters DEF file_ends
  <2>6. CASE reply_ends(s)
    <3>1. s \in Sockets /\ UNCHANGED listener
      BY <2>6 DEF reply_ends, Sockets
    <3>2. CASE delete(s)
      BY <2>2, <3>1, <3>2, DeleteImplements
    <3>3. CASE reply_sent(s)
      BY <2>2, <2>6, <3>3, ReplySentImplements
    <3>4. QED
      BY <2>6, <3>2, <3>3 DEF reply_ends
  <2>7. QED
    BY <2>1, <2>3, <2>4, <2>5, <2>6
<1>3. CASE schedule \/ enter_poll \/ schedule_returns \/ adjust_poll_interval
  <2>1. /\ main # "crashed" /\ main' # "crashed"
        /\ UNCHANGED <<listener, phase, keep>>
    BY <1>3 DEF schedule, enter_poll, schedule_returns, adjust_poll_interval, tableVars
  <2>2. \A s \in Fds : Phase(s)' = Phase(s) /\ (Replying(s)' <=> Replying(s))
    BY <2>1 DEF Phase, Replying
  <2>3. UNCHANGED Abstract!vars
    BY <2>1, <2>2 DEF Abstract!vars
  <2>4. QED
    BY <2>3
<1>4. QED
  BY <1>1, <1>2, <1>3, AcceptImplements, ListenerErrorImplements, ExitImplements
  DEF Next, main_step

\* The server implements HttpServer: whatever its connections do to each other
\* by the descriptors they take, each of them sends one reply at a time, logs it
\* before it goes on as the reply said, or closes; and after the listening socket
\* has failed or the server has stopped there is no new one.
THEOREM Refinement == Spec => ImplementsServer
  BY InitAbstract, NextImplements, TablesCorrect, PTL DEF Spec, ImplementsServer, Abstract!Spec

=============================================================================
