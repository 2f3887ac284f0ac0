--------------------------- MODULE TimeKeeperProofs ---------------------------
(* Proofs about TimeKeeper for any number of timers, any delays and times.    *)
EXTENDS TimeKeeper, TLAPS

-----------------------------------------------------------------------------
(* The inductive invariant.                                                   *)
\* lock_ is held between two steps exactly where the thread or Shutdown is in
\* the middle of its critical section.
LockHeld == /\ lock = "keeper" <=> pc = "erase"
            /\ lock = "main" <=> main = "joining"

\* A timer is known by its id, and ids are handed out in order.
Numbered == /\ \A t \in timers \cup fired : t.id <= created
            /\ \A t, u \in timers \cup fired : t.id = u.id => t = u

\* What has fired was due, and comes before all that has not fired.
FiredFirst == \A f \in fired : /\ f.due <= now
                               /\ \A w \in timers \ fired : Before(f, w)

\* Only between the scheduling of its routine and its erasure is a timer both.
OnlyFirstFired == /\ pc # "erase" => timers \cap fired = {}
                  /\ pc = "erase" => \E t \in timers : /\ IsFirst(t, timers)
                                                       /\ timers \cap fired = {t}

\* An armed clock is armed for the first timer; while the thread is handling an
\* expiry the clock is armed again only if ScheduleIn has added a timer.
Armed == /\ deadline # Disarmed => \E t \in timers : IsFirst(t, timers) /\ deadline = t.due
         /\ pc \in {"lock", "erase"} /\ deadline # Disarmed
              => \E t \in timers : ~IsFirst(t, timers)

\* Once Shutdown has begun, no timer is left and the thread is in read().
Demand == main # "running" => timers = {} /\ pc \in {"read", "cancelled"}
Alive == pc = "cancelled" => main # "running"

IInv == /\ TypeOK /\ NoInvariantFails /\ ArmedForFirst /\ ExpiryIsReal
        /\ LockHeld /\ Numbered /\ FiredFirst /\ OnlyFirstFired /\ Armed
        /\ Demand /\ Alive

-----------------------------------------------------------------------------
(* Steps that leave timers_ and the fired routines alone.                     *)
LEMMA InitIInv == Init => IInv
<1> SUFFICES ASSUME Init PROVE IInv
  OBVIOUS
<1> USE BoundsAssumption DEF Init
<1>1. TypeOK
  <2>1. now \in 0..MaxTime /\ created \in 0..MaxTimers /\ deadline \in Times \cup {Disarmed}
    OBVIOUS
  <2>2. aborted \in BOOLEAN
    BY Zenon
  <2> QED
    BY <2>1, <2>2 DEF TypeOK
<1>2. NoInvariantFails /\ ArmedForFirst /\ ExpiryIsReal /\ LockHeld /\ Armed /\ Demand /\ Alive
  BY DEF NoInvariantFails, ArmedForFirst, ExpiryIsReal, LockHeld, Armed, Demand, Alive
<1>3. Numbered /\ FiredFirst /\ OnlyFirstFired
  BY DEF Numbered, FiredFirst, OnlyFirstFired
<1> QED
  BY <1>1, <1>2, <1>3 DEF IInv

LEMMA TickIInv == IInv /\ Tick => IInv'
<1> SUFFICES ASSUME IInv, Tick PROVE IInv'
  OBVIOUS
<1> USE BoundsAssumption DEF IInv, Tick
<1>1. TypeOK'
  BY DEF TypeOK, Times, Disarmed
<1>2. (NoInvariantFails /\ ArmedForFirst /\ LockHeld /\ Numbered /\ OnlyFirstFired /\ Armed
         /\ Demand /\ Alive)'
  BY DEF NoInvariantFails, ArmedForFirst, LockHeld, Numbered, OnlyFirstFired, Armed,
         Demand, Alive, IsFirst, Before, Disarmed
<1>3. ExpiryIsReal'
  BY DEF TypeOK, ExpiryIsReal, IsFirst, Before, Times
<1>4. FiredFirst'
  BY DEF TypeOK, FiredFirst, Before, Times
<1> QED
  BY <1>1, <1>2, <1>3, <1>4

LEMMA ReadIInv == IInv /\ Read => IInv'
<1> SUFFICES ASSUME IInv, Read PROVE IInv'
  OBVIOUS
<1> USE BoundsAssumption DEF IInv, Read
<1>1. deadline # Disarmed
  BY DEF TypeOK, Disarmed, Times
<1>2. ExpiryIsReal'
  BY <1>1 DEF ExpiryIsReal, Armed, IsFirst, Before
<1>3. main = "running"
  <2>1. \E t \in timers : deadline = t.due
    BY <1>1 DEF Armed
  <2> QED
    BY <2>1 DEF Demand, TypeOK
<1>4. TypeOK'
  BY DEF TypeOK, Disarmed
<1> QED
  BY <1>2, <1>3, <1>4
     DEF NoInvariantFails, ArmedForFirst, LockHeld, Numbered, FiredFirst, OnlyFirstFired,
         Armed, Demand, Alive, IsFirst, Before, TypeOK

LEMMA ShutdownIInv == IInv /\ Shutdown => IInv'
<1> SUFFICES ASSUME IInv, Shutdown PROVE IInv'
  OBVIOUS
<1> USE DEF IInv, Shutdown
<1>1. pc # "erase"
  BY DEF LockHeld
<1>2. timers = {}
  <2> SUFFICES ASSUME NEW t \in timers PROVE FALSE
    OBVIOUS
  <2>1. t.id \in 1..created
    BY DEF TypeOK, Numbered
  <2>2. PICK f \in fired : f.id = t.id
    BY <2>1 DEF AllRun
  <2>3. f = t
    BY <2>2 DEF Numbered
  <2> QED
    BY <1>1, <2>3 DEF OnlyFirstFired
<1>3. pc \in {"read"}
  BY <1>1, <1>2 DEF ExpiryIsReal, TypeOK, Alive
<1>4. Demand'
  BY <1>2, <1>3 DEF Demand
<1>5. LockHeld'
  BY <1>1 DEF LockHeld
<1> QED
  BY <1>4, <1>5 DEF TypeOK, NoInvariantFails, ArmedForFirst, ExpiryIsReal, Numbered,
                    FiredFirst, OnlyFirstFired, Armed, Alive, IsFirst, Before

LEMMA CancelledIInv == IInv /\ Cancelled => IInv'
BY DEF IInv, Cancelled, TypeOK, NoInvariantFails, ArmedForFirst, ExpiryIsReal, LockHeld,
       Numbered, FiredFirst, OnlyFirstFired, Armed, Demand, Alive, IsFirst, Before

LEMMA JoinedIInv == IInv /\ Joined => IInv'
BY DEF IInv, Joined, TypeOK, NoInvariantFails, ArmedForFirst, ExpiryIsReal, LockHeld,
       Numbered, FiredFirst, OnlyFirstFired, Armed, Demand, Alive, IsFirst, Before

-----------------------------------------------------------------------------
(* ScheduleIn: the new timer is behind everything that has fired.             *)
LEMMA ScheduleInIInv ==
  ASSUME IInv, NEW msec \in 0..MaxDelay, ScheduleIn(msec)
  PROVE  IInv'
<1> DEFINE n == [id |-> created + 1, due |-> now + msec]
<1> USE BoundsAssumption DEF IInv
<1>1. /\ timers' = timers \cup {n}
      /\ created' = created + 1 /\ created < MaxTimers
      /\ lock = "nobody" /\ main = "running"
      /\ UNCHANGED <<now, pc, lock, main, fired, aborted>>
  BY DEF ScheduleIn
<1>2. PICK first \in timers' : IsFirst(first, timers') /\ deadline' = first.due
  BY DEF ScheduleIn, SetTimer
<1>3. n \in [id : 1..MaxTimers, due : Times]
  BY <1>1 DEF TypeOK, Times
<1>4. \A t \in timers \cup fired : t.id \in Nat /\ t.id < n.id /\ t # n
  BY DEF TypeOK, Numbered
<1>5. TypeOK'
  <2>1. timers' \subseteq [id : 1..MaxTimers, due : Times]
    BY <1>1, <1>3 DEF TypeOK
  <2>2. first.due \in Times
    BY <2>1
  <2>3. created' \in 0..MaxTimers
    BY <1>1 DEF TypeOK
  <2> QED
    BY <1>1, <1>2, <2>1, <2>2, <2>3 DEF TypeOK
<1>6. Numbered'
  BY <1>1, <1>4 DEF Numbered, TypeOK
<1>7. pc # "erase"
  BY <1>1 DEF LockHeld
<1>8. OnlyFirstFired'
  BY <1>1, <1>4, <1>7 DEF OnlyFirstFired
<1>9. \A f \in fired : Before(f, n)
  BY <1>4 DEF FiredFirst, Before, TypeOK, Times
<1>10. FiredFirst'
  BY <1>1, <1>9 DEF FiredFirst
<1>11. ExpiryIsReal'
  <2> SUFFICES ASSUME pc = "lock" PROVE first.due <= now
    BY <1>1, <1>2 DEF ExpiryIsReal
  <2>1. PICK t \in timers : IsFirst(t, timers) /\ t.due <= now
    BY DEF ExpiryIsReal
  <2>2. t = first \/ first.due <= t.due
    BY <1>1, <1>2, <1>5 DEF IsFirst, Before, TypeOK, Times
  <2> QED
    BY <2>1, <2>2, <1>5, <1>1 DEF TypeOK, Times
<1>12. ArmedForFirst'
  BY <1>2 DEF ArmedForFirst
<1>13. Armed'
  <2>1. pc = "lock" => \E t \in timers' : ~IsFirst(t, timers')
    <3> SUFFICES ASSUME pc = "lock" PROVE \E t \in timers' : ~IsFirst(t, timers')
      OBVIOUS
    <3>1. PICK t \in timers : TRUE
      BY DEF ExpiryIsReal
    <3>2. t # n /\ t \in timers' /\ n \in timers'
      BY <1>1, <1>4
    <3>3. ~(Before(t, n) /\ Before(n, t))
      BY <3>2, <1>5 DEF Before, TypeOK, Times
    <3> QED
      BY <3>2, <3>3 DEF IsFirst
  <2> QED
    BY <1>1, <1>2, <1>7, <2>1 DEF Armed, TypeOK
<1>14. (NoInvariantFails /\ LockHeld /\ Demand /\ Alive)'
  BY <1>1 DEF NoInvariantFails, LockHeld, Demand, Alive
<1> QED
  BY <1>5, <1>6, <1>8, <1>10, <1>11, <1>12, <1>13, <1>14

-----------------------------------------------------------------------------
(* The thread's critical section.                                             *)
LEMMA DispatchIInv == IInv /\ Dispatch => IInv'
<1> SUFFICES ASSUME IInv, Dispatch PROVE IInv'
  OBVIOUS
<1> USE BoundsAssumption DEF IInv
<1>1. /\ pc = "lock" /\ lock = "nobody" /\ lock' = "keeper" /\ pc' = "erase"
      /\ UNCHANGED <<now, timers, created, deadline, main>>
  BY DEF Dispatch
<1>2. PICK due \in timers : IsFirst(due, timers) /\ due.due <= now
  BY <1>1 DEF ExpiryIsReal
<1>3. PICK t \in timers : IsFirst(t, timers) /\ fired' = fired \cup {t}
  BY <1>2 DEF Dispatch
<1>4. aborted' = aborted
  BY <1>2 DEF Dispatch
<1>5. t = due
  BY <1>2, <1>3 DEF IsFirst, Before, TypeOK, Times
<1>6. TypeOK'
  BY <1>1, <1>3, <1>4 DEF TypeOK
<1>7. timers \cap fired = {}
  BY <1>1 DEF OnlyFirstFired
<1>8. OnlyFirstFired'
  BY <1>1, <1>3, <1>7 DEF OnlyFirstFired
<1>9. FiredFirst'
  BY <1>1, <1>2, <1>3, <1>5, <1>7 DEF FiredFirst, IsFirst
<1>10. Numbered'
  BY <1>1, <1>3 DEF Numbered
<1>11. (NoInvariantFails /\ ArmedForFirst /\ ExpiryIsReal /\ Demand /\ Alive)'
  BY <1>1, <1>4 DEF NoInvariantFails, ArmedForFirst, ExpiryIsReal, Demand, Alive
<1>12. LockHeld'
  BY <1>1 DEF LockHeld
<1>13. Armed'
  BY <1>1 DEF Armed
<1> QED
  BY <1>6, <1>8, <1>9, <1>10, <1>11, <1>12, <1>13

LEMMA EraseIInv == IInv /\ Erase => IInv'
<1> SUFFICES ASSUME IInv, Erase PROVE IInv'
  OBVIOUS
<1> USE BoundsAssumption DEF IInv
<1>1. /\ pc = "erase" /\ lock' = "nobody" /\ pc' = "read"
      /\ UNCHANGED <<now, created, main, fired, aborted>>
      /\ timers' = {t \in timers : ~IsFirst(t, timers)}
  BY DEF Erase
<1>2. PICK e \in timers : IsFirst(e, timers) /\ timers \cap fired = {e}
  BY <1>1 DEF OnlyFirstFired
<1>3. timers' = timers \ {e}
  BY <1>1, <1>2 DEF IsFirst, Before, TypeOK, Times
<1>4. timers' # {} => \E t \in timers' : IsFirst(t, timers') /\ deadline' = t.due
  BY DEF Erase, SetTimer
<1>5. timers' = {} => deadline' = Disarmed
  <2> SUFFICES ASSUME timers' = {}, deadline # Disarmed PROVE FALSE
    BY DEF Erase
  <2>1. PICK t \in timers : ~IsFirst(t, timers)
    BY <1>1 DEF Armed
  <2> QED
    BY <1>1, <2>1
<1>6. TypeOK'
  <2>1. timers' \subseteq [id : 1..MaxTimers, due : Times]
    BY <1>3 DEF TypeOK
  <2>2. deadline' \in Times \cup {Disarmed}
    BY <1>4, <1>5, <2>1
  <2> QED
    BY <1>1, <2>1, <2>2 DEF TypeOK
<1>7. Armed' /\ ArmedForFirst'
  BY <1>1, <1>4, <1>5 DEF Armed, ArmedForFirst
<1>8. OnlyFirstFired'
  BY <1>1, <1>2, <1>3 DEF OnlyFirstFired
<1>9. FiredFirst' /\ Numbered'
  BY <1>1, <1>2, <1>3 DEF FiredFirst, Numbered
<1>10. (NoInvariantFails /\ ExpiryIsReal)'
  BY <1>1 DEF NoInvariantFails, ExpiryIsReal
<1>11. (Demand /\ Alive /\ LockHeld)'
  BY <1>1, <1>3 DEF Demand, Alive, LockHeld
<1> QED
  BY <1>6, <1>7, <1>8, <1>9, <1>10, <1>11

-----------------------------------------------------------------------------
LEMMA StutterIInv == IInv /\ UNCHANGED vars => IInv'
BY DEF IInv, vars, TypeOK, NoInvariantFails, ArmedForFirst, ExpiryIsReal, LockHeld,
       Numbered, FiredFirst, OnlyFirstFired, Armed, Demand, Alive, IsFirst, Before

LEMMA NextIInv == IInv /\ [Next]_vars => IInv'
BY TickIInv, ReadIInv, ShutdownIInv, CancelledIInv, JoinedIInv, ScheduleInIInv,
   DispatchIInv, EraseIInv, StutterIInv
   DEF Next, KeeperStep, MainStep

LEMMA Invariance == Spec => []IInv
BY InitIInv, NextIInv, PTL DEF Spec

\* The variables of the timer service keep their types.
THEOREM TypeCorrect == Spec => []TypeOK
BY Invariance, PTL DEF IInv

\* No INVARIANT of ThreadMain or of Shutdown fails.
THEOREM NoInvariantFailsHolds == Spec => []NoInvariantFails
BY Invariance, PTL DEF IInv

\* The timerfd is always armed for the first timer, and an expiry that was read
\* belongs to a timer that is due.
THEOREM ArmedForFirstHolds == Spec => [](ArmedForFirst /\ ExpiryIsReal)
BY Invariance, PTL DEF IInv

\* Shutdown, which joins the thread with lock_ held, never finds it on its way to
\* that lock.
THEOREM ShutdownNeverBlocksKeeperHolds == Spec => []ShutdownNeverBlocksKeeper
<1>1. IInv => ShutdownNeverBlocksKeeper
  BY DEF IInv, LockHeld, Demand, ShutdownNeverBlocksKeeper
<1> QED
  BY <1>1, Invariance, PTL

-----------------------------------------------------------------------------
(* The refinement of TimerService.                                            *)
LEMMA ScheduleInRequests ==
  ASSUME IInv, NEW msec \in 0..MaxDelay, ScheduleIn(msec)
  PROVE  Service!Next
<1> DEFINE n == [id |-> created + 1, due |-> now + msec]
<1>1. timers' = timers \cup {n} /\ UNCHANGED <<now, fired>> /\ created < MaxTimers
  BY DEF ScheduleIn
<1>2. n \in [id : 1..MaxTimers, due : Times]
  BY <1>1, BoundsAssumption DEF IInv, TypeOK, Times
<1>3. \A t \in timers \cup fired : t.id < n.id /\ t # n
  BY DEF IInv, TypeOK, Numbered
<1>4. (timers \ fired)' = (timers \ fired) \cup {n}
  BY <1>1, <1>3
<1>5. n.due >= now
  BY BoundsAssumption DEF IInv, TypeOK
<1> QED
  BY <1>1, <1>2, <1>3, <1>4, <1>5 DEF Service!Next, Service!Request

LEMMA DispatchFires == IInv /\ Dispatch => Service!Next
<1> SUFFICES ASSUME IInv, Dispatch PROVE Service!Next
  OBVIOUS
<1>1. pc = "lock" /\ UNCHANGED <<now, timers>>
  BY DEF Dispatch
<1>2. PICK due \in timers : IsFirst(due, timers) /\ due.due <= now
  BY <1>1 DEF IInv, ExpiryIsReal
<1>3. PICK t \in timers : IsFirst(t, timers) /\ fired' = fired \cup {t}
  BY <1>2 DEF Dispatch
<1>4. t = due
  BY <1>2, <1>3, BoundsAssumption DEF IInv, IsFirst, Before, TypeOK, Times
<1>5. t \in timers \ fired /\ t \in [id : 1..MaxTimers, due : Times]
  BY <1>1 DEF IInv, OnlyFirstFired, TypeOK
<1>6. (timers \ fired)' = (timers \ fired) \ {t}
  BY <1>1, <1>3
<1>7. \A u \in (timers \ fired) \ {t} : Service!Before(t, u)
  BY <1>3 DEF IsFirst, Before, Service!Before
<1>8. \A u \in fired : Service!Before(u, t)
  BY <1>5 DEF IInv, FiredFirst, Before, Service!Before
<1> QED
  BY <1>1, <1>2, <1>3, <1>4, <1>5, <1>6, <1>7, <1>8 DEF Service!Next, Service!Fire

LEMMA EraseStutters == IInv /\ Erase => UNCHANGED Service!vars
<1> SUFFICES ASSUME IInv, Erase PROVE UNCHANGED Service!vars
  OBVIOUS
<1>1. /\ pc = "erase" /\ UNCHANGED <<now, fired>>
      /\ timers' = {t \in timers : ~IsFirst(t, timers)}
  BY DEF Erase
<1>2. PICK e \in timers : IsFirst(e, timers) /\ timers \cap fired = {e}
  BY <1>1 DEF IInv, OnlyFirstFired
<1>3. timers' = timers \ {e}
  BY <1>1, <1>2, BoundsAssumption DEF IInv, IsFirst, Before, TypeOK, Times
<1> QED
  BY <1>1, <1>2, <1>3 DEF Service!vars

\* The timerfd, the multiset and the thread together implement the service: each
\* timer fires once, never early, in the order of times and calls.
THEOREM TimersImplementedHolds == Spec => TimersImplemented
<1>1. Init => Service!Init
  BY DEF Init, Service!Init
<1>2. IInv /\ [Next]_vars => [Service!Next]_(Service!vars)
  <2> SUFFICES ASSUME IInv, [Next]_vars PROVE [Service!Next]_(Service!vars)
    OBVIOUS
  <2>1. CASE Tick
    BY <2>1 DEF Tick, Service!Next, Service!Pass
  <2>2. CASE \E msec \in 0..MaxDelay : ScheduleIn(msec)
    BY <2>2, ScheduleInRequests
  <2>3. CASE Read \/ Shutdown \/ Cancelled \/ Joined \/ UNCHANGED vars
    BY <2>3 DEF Read, Shutdown, Cancelled, Joined, vars, Service!vars
  <2>4. CASE Dispatch
    BY <2>4, DispatchFires
  <2>5. CASE Erase
    BY <2>5, EraseStutters
  <2> QED
    BY <2>1, <2>2, <2>3, <2>4, <2>5 DEF Next, KeeperStep, MainStep
<1> QED
  BY <1>1, <1>2, Invariance, PTL DEF Spec, TimersImplemented, Service!Spec
=============================================================================
