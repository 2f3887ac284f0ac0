------------------------------ MODULE ThreadPool ------------------------------
(* NonBlockingThreadPool and its NonBlockingThreads (src/src/schd) with the   *)
(* programs around them that the unit tests have: the main thread schedules   *)
(* some routines, Waits and Shuts down; the routines schedule others and      *)
(* count down, and the one that reaches zero calls Wakeup.  One program       *)
(* counts down in one step and as the last thing of a routine                 *)
(* (BufferPoolTest); the other, parallel_test, drops the count, tests it in   *)
(* another step, and may take it up again and schedule.                       *)
(*                                                                            *)
(* A thread's queue is an InQueue, here a sequence.  Schedule picks a thread  *)
(* by a rotation (nextTh_) that every caller advances without a lock: here    *)
(* any thread.                                                                *)
EXTENDS Naturals, Sequences, FiniteSets

CONSTANTS Threads,          \* threads_
          Nobody,
          MaxRoutines,      \* bound: routines created in a behaviour
          Calls             \* the calls after which parallel_test ends: 1000

ASSUME ThreadsAssumption == IsFiniteSet(Threads) /\ Nobody \notin Threads
ASSUME BoundAssumption == MaxRoutines \in Nat \ {0} /\ Calls \in Nat

Exit == 0   \* ThreadExitRoutine; the others are numbered as they are created

VARIABLES queue,     \* q_ of every thread
          running,   \* the routine every thread runs
          pc,        \* where every thread is in ThreadMain and in its routine
          exitMain,  \* exitMain_ of every thread
          lock,      \* owner of the pool's lock_
          main,      \* where the main thread is
          stopping,  \* the thread whose Stop() main is in
          created,   \* routines created so far
          oneStep,   \* which of the two programs it is
          out,       \* its countdown: count_, seen from MAX_CALLS, or out_
          calls,     \* i_ of parallel_test
          slaves,    \* the routines that are ThSlave::Run
          finished,  \* routines that have returned
          missed,    \* history: a Wakeup came before main waited,
          spurious,  \* Wait returned without one,
          early,     \* a routine saw zero while a share was still to be taken
          aborted    \* an INVARIANT failed

vars == <<queue, running, pc, exitMain, lock, main, stopping, created, out,
          oneStep, calls, slaves, finished, missed, spurious, early, aborted>>
threadVars == <<queue, running, pc, exitMain, finished>>
mainVars == <<lock, main, stopping, missed, spurious>>
workVars == <<created, oneStep, out, calls, slaves, early>>

Init == /\ queue = [t \in Threads |-> <<>>]
        /\ running = [t \in Threads |-> Exit]
        /\ pc = [t \in Threads |-> "pop"]
        /\ exitMain = [t \in Threads |-> FALSE]
        /\ lock = Nobody
        /\ main = "scheduling"
        /\ stopping = Nobody
        /\ created = 0
        /\ oneStep \in BOOLEAN
        /\ out = IF oneStep THEN 1 ELSE 0   \* 1: MAX_CALLS counts what main has
                                            \* yet to schedule, out_ does not
        /\ calls = 0
        /\ slaves = {}
        /\ finished = {}
        /\ missed = FALSE /\ spurious = FALSE /\ early = FALSE
        /\ aborted = FALSE

-----------------------------------------------------------------------------
(* Scheduling.                                                                *)
Push(t, r) == queue' = [queue EXCEPT ![t] = Append(@, r)]

Create(t) == /\ created < MaxRoutines
             /\ created' = created + 1
             /\ out' = out + 1
             /\ Push(t, created + 1)
             /\ UNCHANGED <<running, pc, exitMain, oneStep, calls, slaves, finished,
                            mainVars, early, aborted>>

\* Schedule, from the main thread or from a routine: on any thread.  (The second
\* conjunct leaves parallel_test room for what its routines will schedule.)
MainSchedule == /\ main = "scheduling"
                /\ oneStep \/ created + 2 * Calls < MaxRoutines
                /\ \E t \in Threads : Create(t)
Schedule(t) == oneStep /\ pc[t] = "run" /\ \E u \in Threads : Create(u)

\* Yield: on the calling thread.
Yield(t) == oneStep /\ pc[t] = "run" /\ Create(t)

-----------------------------------------------------------------------------
(* ThreadMain: pop a routine and run it; the exit routine ends the loop, and  *)
(* the INVARIANT behind the loop looks at the queue once more.                *)
Pop_Mutant(t) == /\ pc[t] = "pop"
                 /\ queue[t] # <<>>
                 /\ queue' = [queue EXCEPT ![t] = <<>>]
                 /\ running' = [running EXCEPT ![t] = Head(queue[t])]
                 /\ pc' = [pc EXCEPT ![t] = IF Head(queue[t]) = Exit THEN "exited" ELSE "run"]
                 /\ UNCHANGED <<exitMain, finished, mainVars, workVars, aborted>>

Pop(t) == /\ pc[t] = "pop"
          /\ queue[t] # <<>>
          /\ queue' = [queue EXCEPT ![t] = Tail(@)]
          /\ running' = [running EXCEPT ![t] = Head(queue[t])]
          /\ pc' = [pc EXCEPT ![t] = IF Head(queue[t]) = Exit THEN "exited" ELSE "run"]
          /\ aborted' = (Head(queue[t]) = Exit /\ Tail(queue[t]) # <<>>)
          /\ UNCHANGED <<exitMain, finished, mainVars, workVars>>

Goto(t, from, to) == /\ pc[t] = from
                     /\ pc' = [pc EXCEPT ![t] = to]
                     /\ UNCHANGED <<queue, running, exitMain, created, oneStep, slaves,
                                    aborted>>

\* BufferPoolTest: a routine counts itself done and learns in the same step
\* whether it is the last one.
CountDown_Mutant(t) == /\ oneStep
                       /\ out' = out - 1
                       /\ Goto(t, "run", IF out = 2 THEN "wakeup" ELSE "return")
                       /\ UNCHANGED <<calls, finished, mainVars, early>>

CountDown(t) == /\ oneStep
                /\ out' = out - 1
                /\ Goto(t, "run", IF out = 1 THEN "wakeup" ELSE "return")
                /\ UNCHANGED <<calls, finished, mainVars, early>>

\* parallel_test: ThMaster::Run counts the call, ...
CountCall(t) == /\ ~oneStep /\ running[t] \notin slaves
                /\ calls' = calls + 1
                /\ Goto(t, "run", "drop")
                /\ UNCHANGED <<out, finished, mainVars, early>>

\* ... drops its share of out_, ...
DropShare(t) == /\ out' = out - 1
                /\ Goto(t, "drop", "quota")
                /\ UNCHANGED <<calls, finished, mainVars, early>>

\* ... tests whether there were calls enough, ...
TestCalls(t) == /\ Goto(t, "quota", IF calls > Calls THEN "test" ELSE "retake")
                /\ UNCHANGED <<out, calls, finished, mainVars, early>>

\* ... and if so, whether it is the last one, which the count does not tell while
\* another routine is about to take its share again, or main to schedule;
Unsettled == main = "scheduling" \/ \E u \in Threads : pc[u] = "retake"
TestCount(t) == /\ Goto(t, "test", IF out = 0 THEN "wakeup" ELSE "return")
                /\ early' = (early \/ (out = 0 /\ Unsettled))
                /\ UNCHANGED <<out, calls, finished, mainVars>>

\* if not, it takes a share again ...
RetakeShare(t) == /\ out' = out + 1
                  /\ Goto(t, "retake", "schedule")
                  /\ UNCHANGED <<calls, finished, mainVars, early>>

\* ... for ThSlave::Run, which it schedules and which does nothing but
\* schedule ThMaster::Run: the share goes from one to the other.
HandOn(t) == /\ created < MaxRoutines
             /\ created' = created + 1
             /\ \E u \in Threads : Push(u, created + 1)
             /\ pc' = [pc EXCEPT ![t] = "return"]
             /\ UNCHANGED <<running, exitMain, oneStep, out, calls, finished, mainVars,
                            early, aborted>>

Reschedule(t) == /\ pc[t] = "schedule"
                 /\ HandOn(t)
                 /\ slaves' = slaves \cup {created + 1}

SlaveRun(t) == /\ pc[t] = "run" /\ running[t] \in slaves
               /\ HandOn(t)
               /\ UNCHANGED slaves

\* The last one calls Wakeup, which broadcasts condExit_ under lock_, ...
Wakeup(t) == /\ lock = Nobody
             /\ Goto(t, "wakeup", "return")
             /\ main' = IF main = "waiting" THEN "woken" ELSE main
             /\ missed' = (missed \/ main \in {"scheduling", "scheduled"})
             /\ UNCHANGED <<out, calls, finished, lock, stopping, spurious, early>>

\* ... and a routine returns.
Return(t) == /\ Goto(t, "return", "pop")
             /\ finished' = finished \cup {running[t]}
             /\ UNCHANGED <<out, calls, mainVars, early>>

-----------------------------------------------------------------------------
(* The main thread.                                                           *)
\* All is scheduled.
Scheduled == /\ main = "scheduling"
             /\ created > 0
             /\ IF oneStep THEN out > 1 /\ out' = out - 1   \* a routine is left
                           ELSE UNCHANGED out              \* that will see zero
             /\ main' = "scheduled"
             /\ UNCHANGED <<threadVars, lock, stopping, missed, spurious,
                            created, oneStep, calls, slaves, early, aborted>>

\* Wait() gives the lock back while it waits, and nothing tells it that the
\* Wakeup has been; nor does it test anything when pthread_cond_wait returns,
\* as it may without a Wakeup.
Wait == /\ main = "scheduled"
        /\ lock = Nobody
        /\ main' = "waiting"
        /\ UNCHANGED <<threadVars, lock, stopping, missed, spurious, workVars, aborted>>

SpuriousWakeup == /\ main = "waiting"
                  /\ lock = Nobody
                  /\ main' = "woken"
                  /\ spurious' = TRUE
                  /\ UNCHANGED <<threadVars, lock, stopping, missed, workVars, aborted>>

\* Wait() returns and Shutdown() takes lock_ for as long as it lasts.
Shutdown == /\ main = "woken"
            /\ lock = Nobody
            /\ lock' = "main"
            /\ main' = "destroying"
            /\ UNCHANGED <<threadVars, stopping, missed, spurious, workVars, aborted>>

\* DestroyThreads: Stop() every thread in turn, with its two INVARIANTs, ...
Stop_Mutant(t) == /\ main = "destroying"
                  /\ pc[t] # "exited"
                  /\ exitMain' = [exitMain EXCEPT ![t] = TRUE]
                  /\ main' = "joining"
                  /\ stopping' = t
                  /\ UNCHANGED <<queue, running, pc, finished, lock, missed, spurious,
                                 workVars, aborted>>

Stop(t) == /\ main = "destroying"
           /\ pc[t] # "exited"
           /\ exitMain' = [exitMain EXCEPT ![t] = TRUE]
           /\ aborted' = (exitMain[t] \/ queue[t] # <<>>)
           /\ Push(t, Exit)
           /\ main' = "joining"
           /\ stopping' = t
           /\ UNCHANGED <<running, pc, finished, lock, missed, spurious, workVars>>

\* ... and join it.
Join(t) == /\ main = "joining"
           /\ stopping = t
           /\ pc[t] = "exited"
           /\ main' = "destroying"
           /\ stopping' = Nobody
           /\ UNCHANGED <<threadVars, lock, missed, spurious, workVars, aborted>>

Destroyed == /\ main = "destroying"
             /\ \A t \in Threads : pc[t] = "exited"
             /\ main' = "done"
             /\ lock' = Nobody
             /\ UNCHANGED <<threadVars, stopping, missed, spurious, workVars, aborted>>

-----------------------------------------------------------------------------
ThreadStep(t) == /\ ~aborted
                 /\ \/ Schedule(t) \/ Yield(t) \/ Pop(t) \/ CountDown(t)
                    \/ CountCall(t) \/ DropShare(t) \/ TestCalls(t) \/ TestCount(t)
                    \/ RetakeShare(t) \/ Reschedule(t) \/ SlaveRun(t)
                    \/ Wakeup(t) \/ Return(t)

MainStep == /\ ~aborted
            /\ \/ MainSchedule \/ Scheduled \/ Wait \/ Shutdown \/ Destroyed
               \/ \E t \in Threads : Stop(t) \/ Join(t)

Next == \/ \E t \in Threads : ThreadStep(t)
        \/ MainStep
        \/ ~aborted /\ SpuriousWakeup

Spec == Init /\ [][Next]_vars

\* Every thread keeps running.
FairSpec == Spec /\ WF_vars(MainStep) /\ \A t \in Threads : WF_vars(ThreadStep(t))

-----------------------------------------------------------------------------
TypeOK == /\ queue \in [Threads -> Seq(0..MaxRoutines)]
          /\ running \in [Threads -> 0..MaxRoutines]
          /\ pc \in [Threads -> {"pop", "run", "drop", "quota", "test", "retake",
                                 "schedule", "wakeup", "return", "exited"}]
          /\ exitMain \in [Threads -> BOOLEAN]
          /\ lock \in {Nobody, "main"}
          /\ main \in {"scheduling", "scheduled", "waiting", "woken", "destroying",
                       "joining", "done"}
          /\ stopping \in Threads \cup {Nobody}
          /\ created \in 0..MaxRoutines
          /\ out \in 0..MaxRoutines + 1
          /\ calls \in Nat
          /\ slaves \subseteq 1..MaxRoutines
          /\ finished \subseteq 1..MaxRoutines
          /\ {oneStep, missed, spurious, early, aborted} \subseteq BOOLEAN

\* Shutdown trips no INVARIANT of Stop() or of ThreadMain, wherever the routines
\* ran and even if two of them called Wakeup, but in two cases: Wait, which has no
\* predicate, returned spuriously; or a routine of parallel_test saw out_ at zero
\* when main had more to schedule or another routine was between its two tests of
\* the count, about to take its share again.
ShutdownClean == aborted => spurious \/ early

\* What keeps a program from its end: a spurious return of Wait, or, in parallel_test,
\* such an early zero, or a second routine that saw zero and is stuck in Wakeup for
\* ever, while Shutdown holds lock_ and joins its thread.
SecondWakeup == stopping # Nobody /\ pc[stopping] = "wakeup"
Spoiled == spurious \/ (~oneStep /\ (early \/ SecondWakeup))

\* Every routine scheduled on the pool runs to its end, but for these causes.
EveryRoutineRuns ==
    \A r \in 1..MaxRoutines : created >= r ~> r \in finished \/ Spoiled

\* A program that waits for its routines ends, but for these causes: it is woken,
\* and Shutdown, which joins the threads with lock_ held, blocks none of them.  It
\* waits for ever only if the Wakeup came before the Wait.
ProgramEnds ==
    main = "waiting" ~> main = "done" \/ missed \/ Spoiled
=============================================================================
