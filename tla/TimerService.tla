----------------------------- MODULE TimerService -----------------------------
(* What ScheduleIn promises (src/src/bblocks.h, src/src/schd/thread-pool.h):  *)
(* a routine is scheduled once, not before its time, and before every routine *)
(* that is due later or was requested later for the same time.                *)
EXTENDS Naturals

CONSTANTS Timers   \* what can be requested: records [id, due]

VARIABLES now,       \* the clock
          waiting,   \* timers [id, due] requested and not fired
          fired      \* timers that have fired

vars == <<now, waiting, fired>>

Before(t, u) == t.due < u.due \/ (t.due = u.due /\ t.id < u.id)

Init == waiting = {} /\ fired = {} /\ now = 0

Pass == now' = now + 1 /\ UNCHANGED <<waiting, fired>>

\* Requests are numbered as they are made.
Request(t) == /\ t.due >= now
              /\ \A u \in waiting \cup fired : u.id < t.id
              /\ waiting' = waiting \cup {t}
              /\ UNCHANGED <<now, fired>>

Fire(t) == /\ t \in waiting
           /\ t.due <= now
           /\ \A u \in waiting \ {t} : Before(t, u)
           /\ \A u \in fired : Before(u, t)
           /\ waiting' = waiting \ {t}
           /\ fired' = fired \cup {t}
           /\ UNCHANGED now

Next == \/ Pass
        \/ \E t \in Timers : Request(t) \/ Fire(t)

Spec == Init /\ [][Next]_vars
=============================================================================
