------------------------------ MODULE MutexSpec ------------------------------
(* What a caller of Mutex::Lock and Mutex::Unlock (src/src/lock.h) relies on: *)
(* the lock passes from nobody to one thread and back, never from one thread  *)
(* to another.                                                                *)
CONSTANTS Threads, NoThread
VARIABLE holder

Init == holder = NoThread

Acquire(t) == holder = NoThread /\ holder' = t
Release(t) == holder = t /\ holder' = NoThread

Next == \E t \in Threads : Acquire(t) \/ Release(t)

Spec == Init /\ [][Next]_holder
=============================================================================
