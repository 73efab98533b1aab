------------------------------- MODULE Server -------------------------------
(***************************************************************************)
(* The process: main's loop, the listener, the scheduler's table and every *)
(* connection, with the descriptors they share.                            *)
(*                                                                         *)
(* The server is single-threaded: while main is in "schedule" the          *)
(* scheduler (libscheduler, not part of the sources) calls one callback    *)
(* after the other, and each is one step here.  What a connection does in  *)
(* a callback is what RequestHandler does, reduced to the phase of         *)
(* HttpConnection it is in and the descriptors it opens and closes.        *)
(***************************************************************************)
EXTENDS Naturals, FiniteSets

CONSTANTS
    Fds,             \* the descriptors the process may open (RLIMIT_NOFILE)
    NoFd,            \* -1
    Threshold,       \* config->hard_poll_interval_threshold
    QueueBacklog     \* connections the kernel queues for accept()

ASSUME FdsAssumption == Fds \subseteq Nat /\ IsFiniteSet(Fds) /\ NoFd \notin Fds
ASSUME BoundsAssumption == Threshold \in Nat /\ QueueBacklog \in Nat

VARIABLES
    main,               \* where main is: "loop", "entering" (schedule(), but not yet
                        \* poll()), "schedule", "poll_interval", "exited", "crashed"
    got_terminate_sig,
    woken,              \* has poll() something to return for?
    using_accurate_poll_interval,
    poll_interval,      \* the scheduler's: "accurate" or "hard"
    backlog,            \* connections waiting in the kernel
    listener,           \* TCPListener::sockfd, NoFd once it is destroyed
    open,               \* the open descriptors
    registered,         \* the scheduler's table
    phase,              \* of the connection with socket s; "none" if there is none
    file,               \* its filefd
    keep,               \* its use_persistent_connection, FALSE unless it replies
    instances,          \* RequestHandler::instances
    missing             \* history: was a file sent completely and not logged?

tableVars == <<open, registered, phase, file, keep, instances>>
pollVars  == <<using_accurate_poll_interval, poll_interval>>
vars == <<main, got_terminate_sig, woken, pollVars, backlog, listener, tableVars, missing>>

Sockets   == {s \in Fds : phase[s] # "none"}
Files     == {file[s] : s \in Fds} \ {NoFd}
Listening == {listener} \ {NoFd}

\* socket(), accept() and open() answer the lowest descriptor that is free.
Lowest(free) == {f \in free : \A g \in free : f <= g}
Available    == Lowest(Fds \ open)

Init ==
    /\ main = "loop" /\ got_terminate_sig = FALSE /\ woken = FALSE
    /\ using_accurate_poll_interval = TRUE /\ poll_interval = "accurate"
    /\ backlog = 0
    /\ listener \in Lowest(Fds) /\ open = {listener} /\ registered = {listener}
    /\ phase = [s \in Fds |-> "none"] /\ file = [s \in Fds |-> NoFd]
    /\ keep = [s \in Fds |-> FALSE]
    /\ instances = 0 /\ missing = FALSE

-----------------------------------------------------------------------------
(* Clients and signals. *)

Connect ==
    /\ listener # NoFd /\ backlog < QueueBacklog
    /\ backlog' = backlog + 1
    /\ UNCHANGED <<main, got_terminate_sig, woken, pollVars, listener, tableVars, missing>>

\* A poll() in progress is interrupted, one that is about to begin is not.
set_sig_term ==
    /\ main \in {"loop", "entering", "schedule", "poll_interval"} /\ ~got_terminate_sig
    /\ got_terminate_sig' = TRUE
    /\ woken' = (woken \/ main = "schedule")
    /\ UNCHANGED <<main, pollVars, backlog, listener, tableVars, missing>>

-----------------------------------------------------------------------------
(* TCPListener. *)

\* A callback runs, and schedule() will return after it.
InCallback == main = "schedule" /\ woken' = TRUE /\ UNCHANGED <<main, got_terminate_sig, pollVars>>

\* new RequestHandler
construct(s) ==
    /\ phase' = [phase EXCEPT ![s] = "receiving"]
    /\ open' = open \cup {s} /\ registered' = registered \cup {s}
    /\ instances' = instances + 1
    /\ UNCHANGED <<file, keep>>

\* Mutant: the constructor counts the instance first.
MutantConstructionFails(s) ==
    instances' = instances + 1 /\ UNCHANGED <<open, registered, phase, file, keep>>

\* Mutant: the listener does not close the descriptor.
MutantConstructionLeaks(s) ==
    open' = open \cup {s} /\ UNCHANGED <<registered, phase, file, keep, instances>>

\* Mutant: the destructor's decrement happens, too; the counter is unsigned.
MutantConstructionUncounts(s) ==
    instances' = instances - 1 /\ UNCHANGED <<open, registered, phase, file, keep>>

\* The constructor throws: nothing is registered or counted yet, no destructor
\* runs, and the listener closes the socket.
construction_fails(s) == UNCHANGED tableVars

\* With no descriptor left accept() fails, and the connection stays queued.
accept ==
    /\ InCallback /\ listener # NoFd /\ backlog > 0
    /\ backlog' = backlog - 1
    /\ \E s \in Available : construct(s) \/ construction_fails(s)
    /\ UNCHANGED <<listener, missing>>

\* The listening socket fails: delete this.  The destructor deregisters and
\* closes it, but the object is an automatic variable of main, and whether the
\* process survives operator delete is undefined.
listener_error_condition ==
    /\ main = "schedule" /\ listener # NoFd
    /\ main' \in {"schedule", "crashed"} /\ woken' = TRUE
    /\ listener' = NoFd /\ backlog' = 0
    /\ open' = open \ {listener} /\ registered' = registered \ {listener}
    /\ UNCHANGED <<got_terminate_sig, pollVars, phase, file, keep, instances, missing>>

-----------------------------------------------------------------------------
(* The callbacks of the connection with socket s. *)

\* Mutant: the destructor does not deregister.
MutantDelete(s) ==
    /\ phase' = [phase EXCEPT ![s] = "none"] /\ file' = [file EXCEPT ![s] = NoFd]
    /\ keep' = [keep EXCEPT ![s] = FALSE]
    /\ open' = open \ {s, file[s]}
    /\ instances' = instances - 1
    /\ UNCHANGED registered

\* ~RequestHandler
delete(s) ==
    /\ phase' = [phase EXCEPT ![s] = "none"] /\ file' = [file EXCEPT ![s] = NoFd]
    /\ keep' = [keep EXCEPT ![s] = FALSE]
    /\ open' = open \ {s, file[s]} /\ registered' = registered \ {s}
    /\ instances' = instances - 1

\* A timeout, an error, a hangup, the end of the input or of the draining.
connection_ends(s) ==
    /\ InCallback /\ s \in Sockets
    /\ delete(s)
    /\ UNCHANGED <<backlog, listener, missing>>

\* setup_reply, for a request that is answered with a file ("sending") or
\* without; open() fails when no descriptor is left, among other reasons.
\* Whether the connection is kept is decided here.
reply_starts(s) ==
    /\ InCallback /\ phase[s] = "receiving"
    /\ \E persistent \in BOOLEAN : keep' = [keep EXCEPT ![s] = persistent]
    /\ \/ phase' = [phase EXCEPT ![s] = "replying"] /\ UNCHANGED <<open, file>>
       \/ \E f \in Available :
             /\ phase' = [phase EXCEPT ![s] = "sending"]
             /\ open' = open \cup {f} /\ file' = [file EXCEPT ![s] = f]
    /\ UNCHANGED <<registered, instances, backlog, listener, missing>>

\* copy_file reads 0 bytes.
file_ends(s) ==
    /\ InCallback /\ file[s] # NoFd
    /\ open' = open \ {file[s]} /\ file' = [file EXCEPT ![s] = NoFd]
    /\ UNCHANGED <<registered, phase, keep, instances, backlog, listener, missing>>

\* Mutant: every connection is kept.
MutantReplySent(s) ==
    /\ phase' = [phase EXCEPT ![s] = "receiving"] /\ keep' = [keep EXCEPT ![s] = FALSE]
    /\ UNCHANGED <<open, registered, file, instances>>

\* The connection is restarted or shut down for writing.
reply_sent(s) ==
    /\ phase' = [phase EXCEPT ![s] = IF keep[s] THEN "receiving" ELSE "draining"]
    /\ keep' = [keep EXCEPT ![s] = FALSE]
    /\ UNCHANGED <<open, registered, file, instances>>

\* flush_buffer with an empty write_buffer: log_access opens the log file for a
\* moment, and the exception it throws if it cannot ends the connection.
reply_ends(s) ==
    /\ InCallback /\ phase[s] \in {"replying", "sending"} /\ file[s] = NoFd
    /\ \/ open # Fds /\ reply_sent(s) /\ UNCHANGED missing
       \/ open = Fds /\ delete(s) /\ missing' = (missing \/ phase[s] = "sending")
    /\ UNCHANGED <<backlog, listener>>

connection_callback == \E s \in Fds :
    connection_ends(s) \/ reply_starts(s) \/ file_ends(s) \/ reply_ends(s)

-----------------------------------------------------------------------------
(* main *)

\* Mutant: the loop goes on as long as there is anything to schedule.
MutantGoesOn == registered # {}

goes_on == ~got_terminate_sig /\ registered # {}

schedule ==
    /\ main = "loop" /\ goes_on
    /\ main' = "entering"
    /\ UNCHANGED <<got_terminate_sig, woken, pollVars, backlog, listener, tableVars, missing>>

\* poll() begins, whatever signal has come since the test of the loop.
enter_poll ==
    /\ main = "entering"
    /\ main' = "schedule" /\ woken' = FALSE
    /\ UNCHANGED <<got_terminate_sig, pollVars, backlog, listener, tableVars, missing>>

\* poll() returns for an event, an interrupt or the timeout of a connection; the
\* listener alone has none.
schedule_returns ==
    /\ main = "schedule" /\ (woken \/ Sockets # {})
    /\ main' = "poll_interval"
    /\ UNCHANGED <<got_terminate_sig, woken, pollVars, backlog, listener, tableVars, missing>>

\* Mutant: the flag is not kept in step with the scheduler.
MutantSetPollInterval ==
    /\ poll_interval' = IF instances > Threshold THEN "hard"
                        ELSE IF using_accurate_poll_interval THEN poll_interval ELSE "accurate"
    /\ UNCHANGED using_accurate_poll_interval

set_poll_interval ==
    \/ /\ instances > Threshold /\ using_accurate_poll_interval
       /\ poll_interval' = "hard" /\ using_accurate_poll_interval' = FALSE
    \/ /\ instances <= Threshold /\ ~using_accurate_poll_interval
       /\ poll_interval' = "accurate" /\ using_accurate_poll_interval' = TRUE
    \/ instances > Threshold /\ ~using_accurate_poll_interval /\ UNCHANGED pollVars
    \/ instances <= Threshold /\ using_accurate_poll_interval /\ UNCHANGED pollVars

adjust_poll_interval ==
    /\ main = "poll_interval" /\ main' = "loop"
    /\ set_poll_interval
    /\ UNCHANGED <<got_terminate_sig, woken, backlog, listener, tableVars, missing>>

\* main returns: the listener is destroyed, for a second time if it failed, and
\* the process ends with whatever connections it has.
exit ==
    /\ main = "loop" /\ ~goes_on
    /\ main' = "exited" \/ (listener = NoFd /\ main' = "crashed")
    /\ backlog' = 0 /\ listener' = NoFd /\ open' = {} /\ registered' = {}
    /\ phase' = [s \in Fds |-> "none"] /\ file' = [s \in Fds |-> NoFd]
    /\ keep' = [s \in Fds |-> FALSE] /\ instances' = 0
    /\ UNCHANGED <<got_terminate_sig, woken, pollVars, missing>>

-----------------------------------------------------------------------------
main_step == schedule \/ enter_poll \/ schedule_returns \/ adjust_poll_interval \/ exit

Next ==
    \/ Connect \/ set_sig_term
    \/ accept \/ listener_error_condition \/ connection_callback
    \/ main_step

Spec == Init /\ [][Next]_vars

\* main runs, and poll() reports a connection that waits to be accepted.
FairSpec == Spec /\ WF_vars(main_step) /\ WF_vars(accept)

-----------------------------------------------------------------------------
(* Properties. *)

TypeOK ==
    /\ main \in {"loop", "entering", "schedule", "poll_interval", "exited", "crashed"}
    /\ got_terminate_sig \in BOOLEAN /\ woken \in BOOLEAN
    /\ using_accurate_poll_interval \in BOOLEAN /\ poll_interval \in {"accurate", "hard"}
    /\ backlog \in Nat
    /\ listener \in Fds \cup {NoFd} /\ open \subseteq Fds /\ registered \subseteq Fds
    /\ phase \in [Fds -> {"none", "receiving", "replying", "sending", "draining"}]
    /\ file \in [Fds -> Fds \cup {NoFd}] /\ keep \in [Fds -> BOOLEAN]
    /\ instances \in Nat /\ missing \in BOOLEAN

\* Every open descriptor has exactly one owner, and owners hold only open
\* descriptors: nothing leaks when construction fails or a connection ends, and
\* nobody closes what the kernel has given to someone else in the meantime.
DescriptorsOwned ==
    /\ open = Listening \cup Sockets \cup Files
    /\ listener \notin Sockets /\ (Listening \cup Sockets) \cap Files = {}
    /\ \A s, t \in Fds : file[s] = file[t] /\ file[s] # NoFd => s = t
    /\ \A s \in Fds : file[s] # NoFd => phase[s] = "sending"

\* The scheduler calls back exactly the objects that exist.
RegisteredExist == registered = Listening \cup Sockets

\* RequestHandler::instances counts the connections, also when one's constructor
\* throws, and does not wrap around.
InstancesExact == instances = Cardinality(Sockets)

\* Whenever the loop comes round, the scheduler's poll interval is the one for
\* the number of connections, and main knows which it is.
PollIntervalFollowsLoad ==
    /\ using_accurate_poll_interval = (poll_interval = "accurate")
    /\ main = "loop" => (poll_interval = "hard" <=> instances > Threshold)

\* A terminating signal ends the server, whenever it arrives, but for one case:
\* between the test of got_terminate_sig (main.cc:115) and poll() nobody notices
\* it, and the poll() that follows waits without a timeout if there is nothing
\* but the listener to wait for.
SignalMissed == main = "schedule" /\ ~woken /\ Sockets = {} /\ backlog = 0

SignalEnds == got_terminate_sig ~> main \in {"exited", "crashed"} \/ SignalMissed

-----------------------------------------------------------------------------
(* The abstract server of HttpServer.tla that this one implements: the     *)
(* phases of its connections, none of which survives the process, and the  *)
(* access-log entries they owe.                                            *)

Replying(s) == phase[s] \in {"replying", "sending"} /\ main # "crashed"

Phase(s) == IF main = "crashed" \/ phase[s] = "none" THEN "closed"
            ELSE IF Replying(s) THEN "replying" ELSE phase[s]

Abstract == INSTANCE HttpServer WITH
    Slots     <- Fds,
    accepting <- listener # NoFd,
    phase     <- [s \in Fds |-> Phase(s)],
    keep      <- [s \in Fds |-> Replying(s) /\ keep[s]],
    owed      <- [s \in Fds |-> IF Replying(s) THEN 1 ELSE 0]

\* The server implements HttpServer: whatever its connections do to each other
\* by the descriptors they take, each of them sends one reply at a time, logs it
\* before it goes on as the reply said, or closes; and after the listening socket
\* has failed or the server has stopped there is no new one.
ImplementsServer == Abstract!Spec

-----------------------------------------------------------------------------
\* "Recording all successful requests" (httpd.txt:24), also those that finish
\* while other connections hold every descriptor.
AllRecorded == ~missing

=============================================================================
