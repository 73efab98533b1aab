------------------------------ MODULE MCServer ------------------------------
(***************************************************************************)
(* Small instances of Server: a process with a low limit of descriptors,   *)
(* besides the three that every process is started with.                   *)
(***************************************************************************)
EXTENDS Server, Integers

FiveFds  == 3..7
ThreeFds == 3..5
Closed   == -1

=============================================================================
