------------------------------- MODULE Watchdog -------------------------------
(* Watchdog of src/src/schd/watchdog.hpp as the threads of the pool use it    *)
(* (NonBlockingThread::ThreadMain, src/src/schd/thread-pool.cc:84-137): a     *)
(* thread that has popped a routine reads the time, audits all threads, starts *)
(* its own watch, runs the routine, reads the time again and cancels the      *)
(* watch.  Times are what it reads, so it may be late with them.              *)
(* Every shared word is an atomic; an audit reads the time stamps one by one. *)
EXTENDS Integers

CONSTANT Threads

TIMEOUT == 500000 * 1000   \* TIMEOUT_MS * 1000: 500 s, where the comment says 500 ms
Never == -1                \* UINT64_MAX: no watch

VARIABLES now,         \* the clock
          last,        \* lastWakeupInMicroSec_
          stamps,      \* timestamps_: when the watch of every thread ends
          pc,          \* where every thread is in ThreadMain
          time,        \* the time it has read,
          checked,     \* and the time stamps its audit has looked at
          began,       \* history: when the thread read the time for its watch
          triggered    \* history: threads for which the watchdog has triggered

vars == <<now, last, stamps, pc, time, checked, began, triggered>>

Init == /\ now \in Nat
        /\ last = now
        /\ stamps = [t \in Threads |-> Never]
        /\ pc = [t \in Threads |-> "pop"]
        /\ time = [t \in Threads |-> now]
        /\ checked = [t \in Threads |-> {}]
        /\ began = [t \in Threads |-> now]
        /\ triggered = {}

Goto(t, from, to) == pc[t] = from /\ pc' = [pc EXCEPT ![t] = to]

\* The watch of u has ended before the time t has read.
Overdue(t, u) == stamps[u] # Never /\ stamps[u] < time[t]

-----------------------------------------------------------------------------
Tick == /\ \E n \in Nat : n > now /\ now' = n
        /\ UNCHANGED <<last, stamps, pc, time, checked, began, triggered>>

\* A routine is popped; startInMicroSec is read.  Pop never returns without a
\* routine, so an idle thread does not get here.
Pop(t) == /\ Goto(t, "pop", "wakeup")
          /\ time' = [time EXCEPT ![t] = now]
          /\ UNCHANGED <<now, last, stamps, checked, began, triggered>>

\* Watchdog::Wakeup goes on to the audit if Timeout() says so: while the last
\* audit is less than TIMEOUT ago.
Timeout(t) == last + TIMEOUT > time[t]

Wakeup(t) == /\ Goto(t, "wakeup", IF Timeout(t) THEN "mark" ELSE "start")
             /\ UNCHANGED <<now, last, stamps, time, checked, began, triggered>>

Mark(t) == /\ Goto(t, "mark", "audit")
           /\ last' = time[t]
           /\ checked' = [checked EXCEPT ![t] = {}]
           /\ UNCHANGED <<now, stamps, time, began, triggered>>

Audit(t, u) == /\ pc[t] = "audit"
               /\ u \notin checked[t]
               /\ checked' = [checked EXCEPT ![t] = @ \cup {u}]
               /\ triggered' = IF Overdue(t, u) THEN triggered \cup {u} ELSE triggered
               /\ UNCHANGED <<now, last, stamps, pc, time, began>>

Audited(t) == /\ Goto(t, "audit", "start")
              /\ checked[t] = Threads
              /\ UNCHANGED <<now, last, stamps, time, checked, began, triggered>>

StartWatch(t) == /\ Goto(t, "start", "run")
                 /\ stamps' = [stamps EXCEPT ![t] = time[t] + TIMEOUT]
                 /\ began' = [began EXCEPT ![t] = time[t]]
                 /\ UNCHANGED <<now, last, time, checked, triggered>>

\* The routine returns; endInMicroSec is read.
Run(t) == /\ Goto(t, "run", "cancel")
          /\ time' = [time EXCEPT ![t] = now]
          /\ UNCHANGED <<now, last, stamps, checked, began, triggered>>

\* A thread that leaves the pool cancels its watch like any other; here it may
\* pop on.
CancelWatch(t) == /\ Goto(t, "cancel", "pop")
                  /\ triggered' = IF Overdue(t, t) THEN triggered \cup {t} ELSE triggered
                  /\ stamps' = [stamps EXCEPT ![t] = Never]
                  /\ UNCHANGED <<now, last, time, checked, began>>

Step(t) == \/ Pop(t) \/ Wakeup(t) \/ Mark(t) \/ Audited(t)
           \/ StartWatch(t) \/ Run(t) \/ CancelWatch(t)
           \/ \E u \in Threads : Audit(t, u)

\* DEADEND ends the process when the watchdog triggers.
Next == triggered = {} /\ (Tick \/ \E t \in Threads : Step(t))

Spec == Init /\ [][Next]_vars

-----------------------------------------------------------------------------
TypeOK == /\ now \in Nat /\ last \in Nat
          /\ stamps \in [Threads -> Nat \cup {Never}]
          /\ pc \in [Threads -> {"pop", "wakeup", "mark", "audit", "start", "run", "cancel"}]
          /\ time \in [Threads -> Nat]
          /\ checked \in [Threads -> SUBSET Threads]
          /\ began \in [Threads -> Nat]
          /\ triggered \in SUBSET Threads

\* A thread for which the watchdog triggers has been at its routine for longer
\* than TIMEOUT: audits by other threads, with times read earlier, beside watches
\* that start and end, never take a time stamp for an overdue one.
NoFalseAlarm == \A t \in triggered : began[t] + TIMEOUT < now

\* After a silence of TIMEOUT, when no thread has a time in hand that was read
\* before, the watchdog is dead: no thread audits any more, whatever happens.
Silent == /\ now >= last + TIMEOUT
          /\ \A t \in Threads : /\ pc[t] = "wakeup" => time[t] >= last + TIMEOUT
                                /\ pc[t] # "mark"

StaysDead == [][Silent => Silent' /\ UNCHANGED last]_vars
=============================================================================
