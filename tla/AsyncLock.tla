------------------------------ MODULE AsyncLock ------------------------------
(* AsyncLock of src/src/schd/async-lock.hpp.  Lock(fn) and Unlock() change    *)
(* isLocked_ and waiters_ under a SpinMutex, one step each, and wake the      *)
(* callback that got the lock after the SpinMutex is released, a step of its  *)
(* own.  A woken callback is run later by some thread of the pool; the code   *)
(* it starts calls Unlock, perhaps many callbacks later.                      *)
EXTENDS Naturals, Sequences

CONSTANTS Requests   \* the calls of Lock(fn) in a behaviour

VARIABLES isLocked,  \* isLocked_
          waiters,   \* waiters_: callbacks in the order of their Lock calls
          stage      \* how far every request is

asyncVars == <<isLocked, waiters, stage>>

\* The stages of a request that has been given the lock.
Owning == {"waking", "scheduled", "inside"}

AsyncInit == /\ isLocked = FALSE
             /\ waiters = <<>>
             /\ stage = [r \in Requests |-> "new"]

-----------------------------------------------------------------------------
\* Lock(fn): wait in line if the lock is taken, take it otherwise.
Queue(r) == /\ waiters' = Append(waiters, r)
            /\ stage' = [stage EXCEPT ![r] = "waiting"]
            /\ UNCHANGED isLocked

TakeLock(r) == /\ isLocked' = TRUE
               /\ stage' = [stage EXCEPT ![r] = "waking"]
               /\ UNCHANGED waiters

Lock(r) == /\ stage[r] = "new"
           /\ IF isLocked THEN Queue(r) ELSE TakeLock(r)

\* fn.Wakeup(0), outside the SpinMutex, by Lock or by another request's Unlock.
WakeCallback(r) == /\ stage[r] = "waking"
                   /\ stage' = [stage EXCEPT ![r] = "scheduled"]
                   /\ UNCHANGED <<isLocked, waiters>>

\* A thread of the pool runs the callback.
RunCallback(r) == /\ stage[r] = "scheduled"
                  /\ stage' = [stage EXCEPT ![r] = "inside"]
                  /\ UNCHANGED <<isLocked, waiters>>

\* Unlock(): hand the lock, still closed, to the first waiter, or open it.
HandOver(r, s) == stage' = [stage EXCEPT ![r] = "done", ![s] = "waking"]

Unlock_BackMutant(r) ==
    /\ stage[r] = "inside"
    /\ waiters # <<>>
    /\ waiters' = SubSeq(waiters, 1, Len(waiters) - 1)
    /\ HandOver(r, waiters[Len(waiters)])
    /\ UNCHANGED isLocked

Unlock_OpenMutant(r) ==
    /\ stage[r] = "inside"
    /\ isLocked' = FALSE
    /\ IF waiters # <<>>
         THEN waiters' = Tail(waiters) /\ HandOver(r, Head(waiters))
         ELSE stage' = [stage EXCEPT ![r] = "done"] /\ UNCHANGED waiters

Unlock_ForgetMutant(r) ==
    /\ stage[r] = "inside"
    /\ isLocked' = FALSE
    /\ stage' = [stage EXCEPT ![r] = "done"]
    /\ UNCHANGED waiters

Unlock(r) ==
    /\ stage[r] = "inside"
    /\ IF waiters # <<>>
         THEN /\ waiters' = Tail(waiters)
              /\ HandOver(r, Head(waiters))
              /\ UNCHANGED isLocked
         ELSE /\ isLocked' = FALSE
              /\ stage' = [stage EXCEPT ![r] = "done"]
              /\ UNCHANGED waiters

-----------------------------------------------------------------------------
AsyncNext == \E r \in Requests : Lock(r) \/ WakeCallback(r) \/ RunCallback(r) \/ Unlock(r)

AsyncSpec == AsyncInit /\ [][AsyncNext]_asyncVars

\* A call that picked a callback finishes its Wakeup, the pool runs what is
\* scheduled, and whoever has the lock unlocks it.
AsyncFairSpec ==
    /\ AsyncSpec
    /\ \A r \in Requests : WF_asyncVars(WakeCallback(r) \/ RunCallback(r) \/ Unlock(r))

-----------------------------------------------------------------------------
AsyncTypeOK == /\ isLocked \in BOOLEAN
               /\ waiters \in Seq(Requests)
               /\ stage \in [Requests -> Owning \cup {"new", "waiting", "done"}]

\* Between the moment a request is given the lock and its Unlock no other has
\* it, and isLocked_ is set for exactly that long: it stays set while Unlock has
\* popped a waiter and not woken it, so that no Lock call slips in between.
\* Nobody waits for a lock that no one will hand over, and waiters_ holds each
\* waiting request once.
Owner(r) == stage[r] \in Owning
SingleOwner == /\ \A r, s \in Requests : Owner(r) /\ Owner(s) => r = s
               /\ isLocked <=> \E r \in Requests : Owner(r)

Waiting == {r \in Requests : stage[r] = "waiting"}
WaitersQueued == /\ ~isLocked => Waiting = {}
                 /\ {waiters[i] : i \in 1..Len(waiters)} = Waiting
                 /\ \A i, j \in 1..Len(waiters) : waiters[i] = waiters[j] => i = j

OneOwner == SingleOwner /\ WaitersQueued

\* The lock serves its requests one at a time in the order of the Lock calls.
line == IF \E r \in Requests : Owner(r)
          THEN <<CHOOSE r \in Requests : Owner(r)>> \o waiters
          ELSE waiters
served == \E r \in Requests : stage[r] = "inside"
Fifo == INSTANCE FifoLock
FifoImplemented == Fifo!Spec

\* Everyone in the line gets the lock.
EveryRequestServed == \A r \in Requests : stage[r] = "waiting" ~> stage[r] = "inside"
=============================================================================
