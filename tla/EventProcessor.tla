---------------------------- MODULE EventProcessor ----------------------------
(* EventProcessor, EventThread and EventHandler of src/include/events.h over  *)
(* the blocking Queue of src/src/inlist.hpp: clients push events into the     *)
(* queue of a handler, the handler's threads pop and handle them, and Stop    *)
(* cancels and joins the threads one by one.  What is done under the mutex of *)
(* a queue is one step; a cancelled thread dies with the mutex locked.        *)
EXTENDS Naturals, Sequences, FiniteSets

CONSTANTS Threads,      \* EventThreads
          Handlers,     \* EventHandlers, each with its queue
          Nobody,
          MaxEvents     \* bound: events pushed for every handler

ASSUME ThreadsAssumption == IsFiniteSet(Threads) /\ Nobody \notin Threads

VARIABLES handlerOf,    \* eventHandler_ of every thread
          q,            \* q_ of every handler,
          lock,         \* the thread that died with its mutex,
          unsignalled,  \* and the Pushes that have not signalled yet
          pc, event,    \* every thread: where it is, the event it has
          cancelled,    \* threads for which pthread_cancel was called
          schedulers,   \* schedulers_, without those Stop is done with
          stop,         \* how far Stop is with the first of them
          pushed,       \* history: events pushed for every handler (numbered),
          handled,      \* those handled,
          cut,          \* and those cut off in the middle of Handle
          aborted       \* an INVARIANT failed

queues == <<q, lock, unsignalled, pushed>>
threads == <<pc, event, handled, cut>>
stopper == <<cancelled, schedulers, stop, aborted>>
vars == <<handlerOf, queues, threads, stopper>>

Init == /\ handlerOf \in [Threads -> Handlers]
        /\ q = [h \in Handlers |-> <<>>]
        /\ lock = [h \in Handlers |-> Nobody]
        /\ unsignalled = [h \in Handlers |-> 0]
        /\ pc = [t \in Threads |-> "off"]
        /\ event = [t \in Threads |-> 0]
        /\ cancelled = {}
        /\ schedulers = <<>>
        /\ stop = "no"
        /\ pushed = [h \in Handlers |-> 0]
        /\ handled = [h \in Handlers |-> {}]
        /\ cut = [h \in Handlers |-> {}]
        /\ aborted = FALSE

Q(t) == handlerOf[t]
CanLock(h) == ~aborted /\ lock[h] = Nobody
Goto(t, to) == pc' = [pc EXCEPT ![t] = to]

-----------------------------------------------------------------------------
(* Clients.  lock_ of the processor keeps AddEventScheduler out while it stops. *)
AddEventScheduler(t) == /\ ~aborted
                        /\ stop = "no" /\ pc[t] = "off"
                        /\ schedulers' = Append(schedulers, t)
                        /\ Goto(t, "pop")
                        /\ UNCHANGED <<handlerOf, queues, event, handled, cut,
                                       cancelled, stop, aborted>>

\* Queue::Push signals after it has unlocked the mutex.
Push(h) == /\ CanLock(h)
           /\ pushed[h] < MaxEvents
           /\ pushed' = [pushed EXCEPT ![h] = @ + 1]
           /\ q' = [q EXCEPT ![h] = Append(@, pushed[h] + 1)]
           /\ unsignalled' = [unsignalled EXCEPT ![h] = @ + 1]
           /\ UNCHANGED <<handlerOf, lock, threads, stopper>>

Waiting(h) == {t \in Threads : Q(t) = h /\ pc[t] = "waiting"}

CallSignal(h) == /\ ~aborted
                 /\ unsignalled[h] > 0
                 /\ unsignalled' = [unsignalled EXCEPT ![h] = @ - 1]
                 /\ UNCHANGED <<handlerOf, q, lock, pushed, event, handled, cut, stopper>>

Signal_Mutant(h) == CallSignal(h) /\ UNCHANGED pc

Signal(h) == /\ CallSignal(h)
             /\ IF Waiting(h) = {} THEN UNCHANGED pc
                                   ELSE \E t \in Waiting(h) : Goto(t, "woken")

-----------------------------------------------------------------------------
(* EventThread::ThreadMain.                                                   *)
\* Queue::Pop waits while the queue is empty.
Wait_Mutant(t) == /\ pc[t] \in {"pop", "woken"}
                  /\ CanLock(Q(t))
                  /\ q[Q(t)] = <<>>
                  /\ Goto(t, IF pc[t] = "woken" THEN "handling" ELSE "waiting")
                  /\ UNCHANGED <<handlerOf, queues, event, handled, cut, stopper>>

Wait(t) == /\ pc[t] \in {"pop", "woken"}
           /\ CanLock(Q(t))
           /\ q[Q(t)] = <<>>
           /\ Goto(t, "waiting")
           /\ UNCHANGED <<handlerOf, queues, event, handled, cut, stopper>>

SpuriousWakeup(t) == /\ ~aborted
                     /\ pc[t] = "waiting"
                     /\ Goto(t, "woken")
                     /\ UNCHANGED <<handlerOf, queues, event, handled, cut, stopper>>

Take(t) == /\ pc[t] \in {"pop", "woken"}
           /\ CanLock(Q(t))
           /\ q[Q(t)] # <<>>
           /\ event' = [event EXCEPT ![t] = Head(q[Q(t)])]
           /\ q' = [q EXCEPT ![Q(t)] = Tail(@)]
           /\ Goto(t, "handling")
           /\ UNCHANGED <<handlerOf, lock, unsignalled, pushed, handled, cut, stopper>>

Handle(t) == /\ ~aborted
             /\ pc[t] = "handling"
             /\ handled' = [handled EXCEPT ![Q(t)] = @ \cup {event[t]}]
             /\ Goto(t, "pop")
             /\ UNCHANGED <<handlerOf, queues, event, cut, stopper>>

\* Cancellation acts in pthread_cond_wait, which locks the mutex again before
\* the thread dies, and no one unlocks it, ...
DieInWait(t) == /\ t \in cancelled
                /\ pc[t] \in {"waiting", "woken"}
                /\ CanLock(Q(t))
                /\ lock' = [lock EXCEPT ![Q(t)] = t]
                /\ Goto(t, "dead")
                /\ UNCHANGED <<handlerOf, q, unsignalled, pushed, event, handled, cut, stopper>>

\* ... or wherever Handle comes to a cancellation point.
DieInHandle(t) == /\ ~aborted
                  /\ t \in cancelled
                  /\ pc[t] = "handling"
                  /\ cut' = [cut EXCEPT ![Q(t)] = @ \cup {event[t]}]
                  /\ Goto(t, "dead")
                  /\ UNCHANGED <<handlerOf, queues, event, handled, stopper>>

-----------------------------------------------------------------------------
(* EventProcessor::Stop, with lock_ held from beginning to end.               *)
CallStop == /\ ~aborted
            /\ stop = "no" /\ schedulers # <<>>
            /\ stop' = "check"
            /\ UNCHANGED <<handlerOf, queues, threads, cancelled, schedulers, aborted>>

\* EventThread::Stop: INVARIANT(q_.IsEmpty()), which takes the queue's mutex,
Check == /\ stop = "check" /\ schedulers # <<>>
         /\ CanLock(Q(Head(schedulers)))
         /\ aborted' = (q[Q(Head(schedulers))] # <<>>)
         /\ stop' = "cancel"
         /\ UNCHANGED <<handlerOf, queues, threads, cancelled, schedulers>>

\* pthread_cancel,
Cancel_Mutant == /\ ~aborted /\ stop = "cancel"
                 /\ stop' = "join"
                 /\ UNCHANGED <<handlerOf, queues, threads, cancelled, schedulers, aborted>>

Cancel == /\ ~aborted /\ stop = "cancel"
          /\ cancelled' = cancelled \cup {Head(schedulers)}
          /\ stop' = "join"
          /\ UNCHANGED <<handlerOf, queues, threads, schedulers, aborted>>

\* pthread_join and delete.
Join == /\ ~aborted /\ stop = "join"
        /\ pc[Head(schedulers)] = "dead"
        /\ schedulers' = Tail(schedulers)
        /\ stop' = "check"
        /\ UNCHANGED <<handlerOf, queues, threads, cancelled, aborted>>

Stopped == /\ ~aborted /\ stop = "check" /\ schedulers = <<>>
           /\ stop' = "no"
           /\ UNCHANGED <<handlerOf, queues, threads, cancelled, schedulers, aborted>>

-----------------------------------------------------------------------------
StopStep == Check \/ Cancel \/ Join \/ Stopped
ThreadStep(t) == Wait(t) \/ Take(t) \/ Handle(t) \/ DieInWait(t)

Next == \/ \E t \in Threads : \/ AddEventScheduler(t)
                              \/ ThreadStep(t) \/ SpuriousWakeup(t) \/ DieInHandle(t)
        \/ \E h \in Handlers : Push(h) \/ Signal(h)
        \/ CallStop \/ StopStep

Spec == Init /\ [][Next]_vars

\* Threads keep running, Handle returns, and a thread that is cancelled while
\* it waits dies; Handle need not have a cancellation point.
FairSpec == /\ Spec
            /\ WF_vars(StopStep)
            /\ \A t \in Threads : WF_vars(Wait(t) \/ Take(t) \/ Handle(t)) /\ WF_vars(DieInWait(t))
            /\ \A h \in Handlers : WF_vars(Signal(h))

-----------------------------------------------------------------------------
\* Whatever wakes and dies when, no event is handled twice, skipped or lost: those
\* that have left the queue, in their order, have been handled, or are in the
\* hands of one thread, or were in the hands of one that Stop cancelled, which
\* looks only at the queue.
InHands(h) == {t \in Threads : Q(t) = h /\ pc[t] = "handling"}

EventsAccounted ==
    \A h \in Handlers :
        LET inHand == {event[t] : t \in InHands(h)}
            left == pushed[h] - Len(q[h])
        IN  /\ q[h] = [i \in 1..Len(q[h]) |-> left + i]
            /\ 1..left = handled[h] \cup inHand \cup cut[h]
            /\ left = Cardinality(handled[h]) + Cardinality(InHands(h)) + Cardinality(cut[h])
            /\ Cardinality(cut[h]) <= Cardinality({t \in cancelled : Q(t) = h /\ pc[t] = "dead"})

\* Stop ends, or aborts because an event is queued, if no two threads had one
\* handler and none was started for a handler that had been stopped: the
\* thread that dies in the queue's condition wait leaves the mutex locked, and
\* IsEmpty, Pop and Push wait for it for ever.
Shared == \E t, u \in Threads : t # u /\ Q(t) = Q(u) /\ "off" \notin {pc[t], pc[u]}

StopEnds == stop # "no" ~> stop = "no" \/ aborted \/ Shared

\* Every event is handled as long as the handler has a thread, nobody calls
\* Stop, and no earlier one of its threads has died.
Served(h) == \E t \in Threads : Q(t) = h /\ pc[t] \notin {"off", "dead"}
Died(h) == \E t \in Threads : Q(t) = h /\ pc[t] = "dead"

EveryEventHandled ==
    \A h \in Handlers : \A n \in 1..MaxEvents :
        pushed[h] >= n ~> \/ n \in handled[h]
                          \/ ~Served(h) \/ Died(h) \/ stop # "no" \/ aborted
=============================================================================
