----------------------------- MODULE PoolBarrier -----------------------------
(* ScheduleBarrier of the thread pool and its BarrierRoutine                 *)
(* (src/src/schd/thread-pool.h): one call queued on every thread counts       *)
(* pendingCalls_ down, and the callback is scheduled when all have run.       *)
EXTENDS Naturals, Sequences, FiniteSets, SequencesExt

CONSTANTS Threads,
          MaxWork   \* bound: other routines scheduled in a behaviour

VARIABLES queue,     \* per thread: "old" routines, scheduled before the
                     \* barrier, "new" ones, "call"s of BarrierRoutine::Run and
                     \* the "callback"
          running,   \* the routine every thread runs
          todo,      \* threads ScheduleBarrier has not pushed to yet
          stage,     \* "before", "pushing" or "pushed": ScheduleBarrier
          pending,   \* pendingCalls_
          work,      \* other routines scheduled so far
          aborted    \* an INVARIANT failed

vars == <<queue, running, todo, stage, pending, work, aborted>>

Init == /\ queue = [t \in Threads |-> <<>>]
        /\ running = [t \in Threads |-> "nothing"]
        /\ todo = Threads
        /\ stage = "before"
        /\ pending = 0
        /\ work = 0
        /\ aborted = FALSE

Push(t, r) == queue' = [queue EXCEPT ![t] = Append(@, r)]

-----------------------------------------------------------------------------
\* The rest of the program schedules routines, before the barrier and after.
Schedule == /\ work < MaxWork
            /\ work' = work + 1
            /\ \E t \in Threads : Push(t, IF stage = "before" THEN "old" ELSE "new")
            /\ UNCHANGED <<running, todo, stage, pending, aborted>>

\* ScheduleBarrier: new BarrierRoutine(r, threads_.size()), then a push on
\* every thread, one after the other.
CallBarrier == /\ stage = "before"
               /\ stage' = "pushing"
               /\ pending' = Cardinality(Threads)
               /\ UNCHANGED <<queue, running, todo, work, aborted>>

PushCall(t) == /\ stage = "pushing"
               /\ t \in todo
               /\ Push(t, "call")
               /\ todo' = todo \ {t}
               /\ stage' = IF todo = {t} THEN "pushed" ELSE "pushing"
               /\ UNCHANGED <<running, pending, work, aborted>>

\* The threads run what is queued.
Pop(t) == /\ running[t] = "nothing"
          /\ queue[t] # <<>>
          /\ running' = [running EXCEPT ![t] = Head(queue[t])]
          /\ queue' = [queue EXCEPT ![t] = Tail(@)]
          /\ UNCHANGED <<todo, stage, pending, work, aborted>>

Return(t) == /\ running[t] \in {"old", "new", "callback"}
             /\ running' = [running EXCEPT ![t] = "nothing"]
             /\ UNCHANGED <<queue, todo, stage, pending, work, aborted>>

\* BarrierRoutine::Run: count = --pendingCalls_; the call that reads 1 goes on.
Count(t) == /\ running[t] = "call"
            /\ pending' = pending - 1
            /\ running' = [running EXCEPT ![t] = IF pending' = 1 THEN "last" ELSE "nothing"]
            /\ UNCHANGED <<queue, todo, stage, work, aborted>>

\* INVARIANT(!pendingCalls_), then the callback is scheduled.
Finish(t) == /\ running[t] = "last"
             /\ IF pending # 0
                  THEN aborted' = TRUE /\ UNCHANGED queue
                  ELSE UNCHANGED aborted /\ \E u \in Threads : Push(u, "callback")
             /\ running' = [running EXCEPT ![t] = "nothing"]
             /\ UNCHANGED <<todo, stage, pending, work>>

-----------------------------------------------------------------------------
Next == /\ ~aborted
        /\ \/ Schedule \/ CallBarrier
           \/ \E t \in Threads : PushCall(t) \/ Pop(t) \/ Return(t) \/ Count(t) \/ Finish(t)

Spec == Init /\ [][Next]_vars

-----------------------------------------------------------------------------
\* INVARIANT(!pendingCalls_): the call that schedules the callback is the last.
LastCallIsLast == ~aborted
=============================================================================
