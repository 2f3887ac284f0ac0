------------------------------- MODULE FifoLock -------------------------------
(* What an asynchronous lock promises (src/src/schd/async-lock.hpp): requests *)
(* stand in one line, the first of them is served, and it leaves the line when *)
(* it is done.                                                                *)
EXTENDS Sequences

CONSTANTS Requests
VARIABLES line,     \* the requests in the order of their Lock calls
          served    \* the callback of the first one has started

vars == <<line, served>>

Init == line = <<>> /\ served = FALSE

Arrive(r) == line' = Append(line, r) /\ UNCHANGED served
Serve == line # <<>> /\ ~served /\ served' = TRUE /\ UNCHANGED line
Leave == served /\ served' = FALSE /\ line' = Tail(line)

Next == (\E r \in Requests : Arrive(r)) \/ Serve \/ Leave

Spec == Init /\ [][Next]_vars
=============================================================================
