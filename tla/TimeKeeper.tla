------------------------------ MODULE TimeKeeper ------------------------------
(* TimeKeeper of src/src/schd: one timerfd, armed for the first of the timers *)
(* in timers_, and one thread that reads it and schedules the routine of that *)
(* timer.  ScheduleIn holds lock_ from its first line to its last and is one  *)
(* step; the thread schedules the routine and forgets the timer in two, since *)
(* the routine may have run, and main be in Shutdown, before the second.      *)
EXTENDS Naturals

CONSTANTS MaxTimers,   \* bound: ScheduleIn calls in a behaviour
          MaxDelay,    \* bound: the msec of a ScheduleIn
          MaxTime      \* bound: the clock

ASSUME BoundsAssumption == /\ MaxTimers \in Nat
                           /\ MaxDelay \in Nat
                           /\ MaxTime \in Nat

VARIABLES now,       \* CLOCK_MONOTONIC
          timers,    \* timers_: [id, due]; id counts the insertions
          created,   \* timers inserted so far
          deadline,  \* the time fd_ is armed for, or Disarmed
          pc,        \* where the keeper's thread is
          lock,      \* who holds lock_ between two steps
          main,      \* where the main thread is
          fired,     \* history: timers whose routine was scheduled
          aborted    \* an INVARIANT failed

vars == <<now, timers, created, deadline, pc, lock, main, fired, aborted>>

Disarmed == MaxTime + MaxDelay + 1
Times == 0 .. MaxTime + MaxDelay

Init == /\ now = 0
        /\ timers = {}
        /\ created = 0
        /\ deadline = Disarmed
        /\ pc = "read"
        /\ lock = "nobody"
        /\ main = "running"
        /\ fired = {}
        /\ aborted = FALSE

Tick == /\ now < MaxTime
        /\ now' = now + 1
        /\ UNCHANGED <<timers, created, deadline, pc, lock, main, fired, aborted>>

-----------------------------------------------------------------------------
\* TimerEvent::operator< in a multiset, which inserts behind its equals.
Before(t, u) == t.due < u.due \/ (t.due = u.due /\ t.id < u.id)
IsFirst(t, set) == t \in set /\ \A u \in set \ {t} : Before(t, u)

SetTimer_NewestMutant == \E t \in timers' : t.id = created' /\ deadline' = t.due

\* SetTimer(): arm fd_, once, for the first timer.
SetTimer == \E t \in timers' : IsFirst(t, timers') /\ deadline' = t.due

ScheduleIn(msec) ==
    /\ lock = "nobody"
    /\ main = "running"
    /\ created < MaxTimers
    /\ created' = created + 1
    /\ timers' = timers \cup {[id |-> created + 1, due |-> now + msec]}
    /\ SetTimer
    /\ UNCHANGED <<now, pc, lock, main, fired, aborted>>

-----------------------------------------------------------------------------
(* ThreadMain.                                                                *)
\* read(fd_) returns when the deadline has passed, and disarms the timer.
Read == /\ pc = "read"
        /\ deadline <= now
        /\ deadline' = Disarmed
        /\ pc' = "lock"
        /\ UNCHANGED <<now, timers, created, lock, main, fired, aborted>>

Dispatch_LastMutant ==
    /\ pc = "lock"
    /\ lock = "nobody"
    /\ lock' = "keeper"
    /\ pc' = "erase"
    /\ \E t \in timers : (\A u \in timers \ {t} : Before(u, t)) /\ fired' = fired \cup {t}
    /\ UNCHANGED <<now, timers, created, deadline, main, aborted>>

\* Under lock_: INVARIANT(timers_.size() >= count), then Schedule(t.r_).
Dispatch == /\ pc = "lock"
            /\ lock = "nobody"
            /\ lock' = "keeper"
            /\ pc' = "erase"
            /\ IF timers = {}
                 THEN aborted' = TRUE /\ UNCHANGED fired
                 ELSE /\ \E t \in timers : IsFirst(t, timers) /\ fired' = fired \cup {t}
                      /\ UNCHANGED aborted
            /\ UNCHANGED <<now, timers, created, deadline, main>>

Erase_BeforeMutant == /\ pc = "erase"
                      /\ timers' = {t \in timers : ~IsFirst(t, timers)}
                      /\ \E t \in timers : IsFirst(t, timers) /\ deadline' = t.due
                      /\ lock' = "nobody"
                      /\ pc' = "read"
                      /\ UNCHANGED <<now, created, main, fired, aborted>>

Erase_ForgetMutant == /\ pc = "erase"
                      /\ timers' = {t \in timers : ~IsFirst(t, timers)}
                      /\ lock' = "nobody"
                      /\ pc' = "read"
                      /\ UNCHANGED <<now, created, deadline, main, fired, aborted>>

\* erase(begin()), SetTimer for the next if there is one, unlock.
Erase == /\ pc = "erase"
         /\ timers' = {t \in timers : ~IsFirst(t, timers)}
         /\ IF timers' # {} THEN SetTimer ELSE UNCHANGED deadline
         /\ lock' = "nobody"
         /\ pc' = "read"
         /\ UNCHANGED <<now, created, main, fired, aborted>>

-----------------------------------------------------------------------------
\* Shutdown() on the main thread, for as long as it lasts with lock_ held.  The
\* code demands that no timer is pending: the program calls it when the last
\* routine has run, which is some time after that routine was scheduled.
AllRun == \A i \in 1..created : \E t \in fired : t.id = i

Shutdown_Mutant == /\ main = "running"
                   /\ lock = "nobody"
                   /\ lock' = "main"
                   /\ main' = "joining"
                   /\ UNCHANGED <<now, timers, created, deadline, pc, fired, aborted>>

Shutdown == /\ main = "running"
            /\ AllRun
            /\ lock = "nobody"
            /\ lock' = "main"
            /\ main' = "joining"
            /\ UNCHANGED <<now, timers, created, deadline, pc, fired, aborted>>

\* Cancel(): the thread ends in read(), the only cancellation point it can be at.
Cancelled == /\ main = "joining"
             /\ pc = "read"
             /\ pc' = "cancelled"
             /\ UNCHANGED <<now, timers, created, deadline, lock, main, fired, aborted>>

\* Stop() has joined it; close(fd_), INVARIANT(timers_.empty()), unlock.
Joined == /\ main = "joining"
          /\ pc = "cancelled"
          /\ aborted' = (timers # {})
          /\ deadline' = Disarmed
          /\ lock' = "nobody"
          /\ main' = "done"
          /\ UNCHANGED <<now, timers, created, pc, fired>>

-----------------------------------------------------------------------------
KeeperStep == ~aborted /\ (Read \/ Dispatch \/ Erase)
MainStep == ~aborted /\ (Shutdown \/ Cancelled \/ Joined)

Next == \/ ~aborted /\ (Tick \/ \E msec \in 0..MaxDelay : ScheduleIn(msec))
        \/ KeeperStep
        \/ MainStep

Spec == Init /\ [][Next]_vars

\* Time passes, and both threads keep running.
FairSpec == Spec /\ WF_vars(Tick) /\ WF_vars(KeeperStep) /\ WF_vars(MainStep)

-----------------------------------------------------------------------------
TypeOK == /\ now \in 0..MaxTime
          /\ timers \subseteq [id : 1..MaxTimers, due : Times]
          /\ created \in 0..MaxTimers
          /\ deadline \in Times \cup {Disarmed}
          /\ pc \in {"read", "lock", "erase", "cancelled"}
          /\ lock \in {"nobody", "keeper", "main"}
          /\ main \in {"running", "joining", "done"}
          /\ fired \subseteq [id : 1..MaxTimers, due : Times]
          /\ aborted \in BOOLEAN

\* The INVARIANTs of ThreadMain and Shutdown hold: an expiry that was read
\* before lock_ was taken still has its timer, whatever ScheduleIn or Shutdown
\* did meanwhile, and none is left when the thread is gone.
NoInvariantFails == ~aborted

\* The timer is armed for the first timer whenever the thread is about to sleep
\* on it, so no timer waits behind a later one or behind a disarmed clock.
ArmedForFirst == pc = "read" /\ timers # {}
                   => \E t \in timers : IsFirst(t, timers) /\ deadline = t.due

\* When the thread has read an expiry, the first timer is due: ScheduleIn can put
\* no timer before it that is not.
ExpiryIsReal == pc = "lock" => \E t \in timers : IsFirst(t, timers) /\ t.due <= now

\* Shutdown waits for the thread with lock_ held, and never while the thread
\* is on its way to that lock.
ShutdownNeverBlocksKeeper == lock = "main" => pc \in {"read", "cancelled"}

\* Timers fire once, never early, in the order of their times and, within one
\* time, of the ScheduleIn calls.
Service == INSTANCE TimerService WITH waiting <- timers \ fired,
                                      Timers <- [id : 1..MaxTimers, due : Times]
TimersImplemented == Service!Spec

\* Every timer the clock reaches fires.
EveryTimerFires == \A i \in 1..MaxTimers :
    (\E t \in timers : t.id = i /\ t.due <= MaxTime) ~> (\E t \in fired : t.id = i)
=============================================================================
