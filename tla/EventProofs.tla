------------------------------ MODULE EventProofs ------------------------------
(* Proofs about EventProcessor, for any number of threads, handlers and events, *)
(* and about Codec, the integers of the event bus's packets, for every integer. *)
EXTENDS EventProcessor, Codec, FiniteSetTheorems, SequenceTheorems, TLAPS

(* The event processor.                                                       *)

PCs == {"off", "pop", "waiting", "woken", "handling", "dead"}

\* Types, with what keeps Stop from looking into an empty list of schedulers.
EventTypeOK == /\ handlerOf \in [Threads -> Handlers]
               /\ q \in [Handlers -> Seq(Nat)]
               /\ pc \in [Threads -> PCs]
               /\ event \in [Threads -> Nat]
               /\ pushed \in [Handlers -> Nat]
               /\ handled \in [Handlers -> SUBSET Nat]
               /\ cut \in [Handlers -> SUBSET Nat]
               /\ cancelled \subseteq Threads
               /\ schedulers \in Seq(Threads)
               /\ stop \in {"cancel", "join"} => schedulers # <<>>

\* The events that have left the queue of a handler, the threads that died
\* with one, or waiting for one, after Stop had cancelled them.
Left(h) == pushed[h] - Len(q[h])
Buried(h) == {t \in cancelled : Q(t) = h /\ pc[t] = "dead"}
InHand(h) == {event[t] : t \in InHands(h)}

EventsNumbered(h) == Left(h) \in Nat /\ \A i \in 1..Len(q[h]) : q[h][i] = Left(h) + i

\* Everything that has left is somewhere ...
Somewhere(h) == 1..Left(h) = handled[h] \cup InHand(h) \cup cut[h]

\* ... and only there.
OnlyThere(h) == /\ \A t \in InHands(h) : event[t] \notin handled[h] \cup cut[h]
                /\ \A t, u \in InHands(h) : event[t] = event[u] => t = u

EventsCounted(h) ==
    /\ IsFiniteSet(handled[h]) /\ IsFiniteSet(cut[h])
    /\ Left(h) = Cardinality(handled[h]) + Cardinality(InHands(h)) + Cardinality(cut[h])
    /\ Cardinality(cut[h]) <= Cardinality(Buried(h))

Accounted(h) == EventsNumbered(h) /\ Somewhere(h) /\ OnlyThere(h) /\ EventsCounted(h)

EventIInv == EventTypeOK /\ \A h \in Handlers : Accounted(h)

-----------------------------------------------------------------------------
\* Finitely many threads have, or died with, an event of a handler.
LEMMA EventFinite ==
    ASSUME EventTypeOK, NEW h \in Handlers
    PROVE  /\ IsFiniteSet(InHands(h)) /\ Cardinality(InHands(h)) \in Nat
           /\ IsFiniteSet(Buried(h)) /\ Cardinality(Buried(h)) \in Nat
<1>1. InHands(h) \subseteq Threads /\ Buried(h) \subseteq Threads
      BY DEF InHands, Buried, EventTypeOK
<1> QED
    BY <1>1, ThreadsAssumption, FS_Subset, FS_CardinalityType

\* A step that leaves the events alone and in the same hands keeps the account.
LEMMA EventKeeps ==
    ASSUME EventIInv, EventTypeOK', NEW h \in Handlers,
           q'[h] = q[h], pushed'[h] = pushed[h], handled'[h] = handled[h], cut'[h] = cut[h],
           InHands(h)' = InHands(h), Buried(h) \subseteq Buried(h)',
           \A t \in InHands(h) : event'[t] = event[t]
    PROVE  Accounted(h)'
<1>1. Accounted(h)
      BY DEF EventIInv
<1>2. Left(h)' = Left(h) /\ InHand(h)' = InHand(h)
      BY DEF Left, InHand
<1>3. EventsNumbered(h)' /\ Somewhere(h)' /\ OnlyThere(h)'
      BY <1>1, <1>2 DEF Accounted, EventsNumbered, Somewhere, OnlyThere
<1>4. Cardinality(Buried(h)) <= Cardinality(Buried(h)')
  <2>1. IsFiniteSet(Buried(h)')
    <3>1. Buried(h)' \subseteq Threads
          BY DEF Buried, EventTypeOK
    <3> QED
        BY <3>1, ThreadsAssumption, FS_Subset
  <2> QED
      BY <2>1, FS_Subset
<1>5. EventsCounted(h)'
  <2>1. /\ Cardinality(Buried(h)) \in Nat /\ Cardinality(Buried(h)') \in Nat
        /\ Cardinality(cut[h]) \in Nat
    <3>1. Buried(h)' \subseteq Threads /\ Buried(h) \subseteq Threads
          BY DEF Buried, EventTypeOK, EventIInv
    <3> QED
        BY <3>1, <1>1, ThreadsAssumption, FS_Subset, FS_CardinalityType
           DEF Accounted, EventsCounted
  <2> QED
      BY <1>1, <1>2, <1>4, <2>1 DEF Accounted, EventsCounted
<1> QED
    BY <1>3, <1>5 DEF Accounted

-----------------------------------------------------------------------------
(* One lemma for every action.                                                *)
LEMMA EventPushIInv ==
    ASSUME EventIInv, NEW h \in Handlers, Push(h)
    PROVE  EventIInv'
<1>1. /\ pushed' = [pushed EXCEPT ![h] = pushed[h] + 1]
      /\ q' = [q EXCEPT ![h] = Append(q[h], pushed[h] + 1)]
      /\ UNCHANGED <<handlerOf, pc, event, handled, cut, cancelled, schedulers, stop>>
      BY DEF Push, threads, stopper
<1>2. EventTypeOK'
  <2>1. Append(q[h], pushed[h] + 1) \in Seq(Nat)
        BY AppendProperties DEF EventIInv, EventTypeOK
  <2> QED
      BY <1>1, <2>1 DEF EventIInv, EventTypeOK
<1>3. Accounted(h)'
  <2>1. Accounted(h) /\ q[h] \in Seq(Nat) /\ Len(q[h]) \in Nat /\ pushed[h] \in Nat
        BY LenProperties DEF EventIInv, EventTypeOK
  <2>2. /\ Len(q'[h]) = Len(q[h]) + 1 /\ DOMAIN q'[h] = 1..Len(q[h]) + 1
        /\ \A i \in 1..Len(q[h]) : q'[h][i] = q[h][i]
        /\ q'[h][Len(q[h]) + 1] = pushed[h] + 1
        /\ q'[h] \in Seq(Nat)
        BY <1>1, <2>1, AppendProperties DEF EventIInv, EventTypeOK
  <2>3. Left(h)' = Left(h)
        BY <1>1, <2>1, <2>2 DEF Left, EventIInv, EventTypeOK
  <2>4. EventsNumbered(h)'
    <3>1. Left(h) + Len(q[h]) + 1 = pushed[h] + 1
          BY <2>1 DEF Left
    <3>2. ASSUME NEW i \in 1..Len(q'[h]) PROVE q'[h][i] = Left(h) + i
      <4>1. CASE i \in 1..Len(q[h])
            BY <2>1, <2>2, <4>1 DEF Accounted, EventsNumbered
      <4>2. CASE i = Len(q[h]) + 1
            BY <2>1, <2>2, <3>1, <4>2 DEF Accounted, EventsNumbered
      <4> QED
          BY <2>1, <2>2, <4>1, <4>2
    <3> QED
        BY <3>2, <2>1, <2>3 DEF Accounted, EventsNumbered
  <2>5. InHands(h)' = InHands(h) /\ InHand(h)' = InHand(h) /\ Buried(h)' = Buried(h)
        BY <1>1 DEF InHands, InHand, Buried, Q
  <2> QED
      BY <1>1, <2>1, <2>3, <2>4, <2>5 DEF Accounted, Somewhere, OnlyThere, EventsCounted
<1>4. ASSUME NEW g \in Handlers, g # h PROVE Accounted(g)'
  <2>1. q'[g] = q[g] /\ pushed'[g] = pushed[g]
        BY <1>1, <1>4 DEF EventIInv, EventTypeOK
  <2>2. InHands(g)' = InHands(g) /\ Buried(g)' = Buried(g)
        BY <1>1 DEF InHands, Buried, Q
  <2> QED
      BY <1>1, <1>2, <2>1, <2>2, EventKeeps
<1> QED
    BY <1>2, <1>3, <1>4 DEF EventIInv

\* A thread takes the oldest event: it is in one more pair of hands.
LEMMA EventTakeIInv ==
    ASSUME EventIInv, NEW t \in Threads, Take(t)
    PROVE  EventIInv'
<1>0. PICK h \in Handlers : h = handlerOf[t]
      BY DEF EventIInv, EventTypeOK
<1>1. /\ q[h] # <<>> /\ pc[t] # "handling" /\ pc[t] # "dead"
      /\ event' = [event EXCEPT ![t] = Head(q[h])]
      /\ q' = [q EXCEPT ![h] = Tail(q[h])]
      /\ pc' = [pc EXCEPT ![t] = "handling"]
      /\ UNCHANGED <<handlerOf, pushed, handled, cut, cancelled, schedulers, stop>>
      BY <1>0 DEF Take, Q, stopper, Goto
<1>2. /\ q[h] \in Seq(Nat) /\ pushed[h] \in Nat
      /\ Len(q[h]) \in Nat \ {0} /\ Head(q[h]) \in Nat /\ Tail(q[h]) \in Seq(Nat)
      /\ Len(Tail(q[h])) = Len(q[h]) - 1
      /\ \A i \in 1..Len(q[h]) - 1 : Tail(q[h])[i] = q[h][i + 1]
      /\ Head(q[h]) = q[h][1]
      BY <1>0, <1>1, EmptySeq, LenProperties, HeadTailProperties
         DEF EventIInv, EventTypeOK
<1>3. EventTypeOK'
      BY <1>0, <1>1, <1>2 DEF EventIInv, EventTypeOK, PCs
<1>4. /\ q'[h] = Tail(q[h]) /\ event'[t] = Head(q[h])
      /\ \A u \in Threads \ {t} : event'[u] = event[u] /\ pc'[u] = pc[u]
      /\ pc'[t] = "handling"
      BY <1>0, <1>1 DEF EventIInv, EventTypeOK
<1>5. Accounted(h)'
  <2>1. Accounted(h)
        BY <1>0 DEF EventIInv
  <2>2. Left(h)' = Left(h) + 1 /\ Left(h) \in Nat
    <3>1. Left(h) \in Nat
          BY <2>1 DEF Accounted, EventsNumbered
    <3>2. pushed'[h] = pushed[h] /\ pushed[h] \in Nat
          BY <1>1, <1>2
    <3>3. Len(q'[h]) = Len(q[h]) - 1 /\ Len(q[h]) \in Nat
          BY <1>2, <1>4
    <3> QED
        BY <3>1, <3>2, <3>3 DEF Left
  <2>3. event'[t] = Left(h) + 1
    <3>1. 1 \in 1..Len(q[h])
          BY <1>2
    <3>2. q[h][1] = Left(h) + 1
          BY <2>1, <3>1 DEF Accounted, EventsNumbered
    <3> QED
        BY <1>2, <1>4, <3>2
  <2>4. EventsNumbered(h)'
    <3>1. ASSUME NEW i \in 1..Len(q'[h]) PROVE q'[h][i] = Left(h)' + i
      <4>1. i \in 1..Len(q[h]) - 1 /\ i + 1 \in 1..Len(q[h])
            BY <1>2, <1>4
      <4>2. q[h][i + 1] = Left(h) + (i + 1)
            BY <2>1, <4>1 DEF Accounted, EventsNumbered
      <4> QED
          BY <1>2, <1>4, <2>2, <4>1, <4>2
    <3> QED
        BY <3>1, <2>2 DEF EventsNumbered
  <2>5. InHands(h)' = InHands(h) \cup {t} /\ t \notin InHands(h) /\ Buried(h)' = Buried(h)
        BY <1>0, <1>1, <1>4, <1>3 DEF InHands, Buried, Q, EventTypeOK
  <2>6. InHand(h)' = InHand(h) \cup {Left(h) + 1}
    <3>1. \A u \in InHands(h) : event'[u] = event[u]
          BY <1>0, <1>4, <2>5 DEF InHands
    <3> QED
        BY <1>0, <3>1, <2>3, <2>5 DEF InHand
  <2>7. \A n \in handled[h] \cup InHand(h) \cup cut[h] : n \in 1..Left(h)
        BY <1>0, <2>1 DEF Accounted, Somewhere
  <2>8. Somewhere(h)'
    <3>1. 1..Left(h) + 1 = (1..Left(h)) \cup {Left(h) + 1}
          BY <1>0, <2>2
    <3> QED
        BY <1>0, <1>1, <2>1, <2>2, <2>6, <3>1 DEF Accounted, Somewhere
  <2>9. OnlyThere(h)'
    <3>1. \A u \in InHands(h) : event[u] \in 1..Left(h) /\ event'[u] = event[u] /\ u # t
          BY <1>0, <2>5, <2>7, <1>4 DEF InHand, InHands
    <3>2. Left(h) + 1 \notin 1..Left(h)
          BY <1>0, <2>2
    <3> QED
        BY <1>0, <1>1, <2>1, <2>3, <2>5, <2>7, <3>1, <3>2 DEF Accounted, OnlyThere
  <2>10. EventsCounted(h)'
    <3>1. Cardinality(InHands(h)') = Cardinality(InHands(h)) + 1
          BY <1>0, <2>5, EventFinite, FS_AddElement DEF EventIInv
    <3>2. /\ Cardinality(handled[h]) \in Nat /\ Cardinality(cut[h]) \in Nat
          /\ Cardinality(InHands(h)) \in Nat
          BY <1>0, <2>1, EventFinite, FS_CardinalityType
             DEF EventIInv, Accounted, EventsCounted
    <3> QED
        BY <1>0, <1>1, <2>1, <2>2, <2>5, <3>1, <3>2 DEF Accounted, EventsCounted
  <2> QED
      BY <1>0, <2>4, <2>8, <2>9, <2>10 DEF Accounted
<1>6. ASSUME NEW g \in Handlers, g # h PROVE Accounted(g)'
  <2>1. q'[g] = q[g]
        BY <1>0, <1>1, <1>6 DEF EventIInv, EventTypeOK
  <2>2. InHands(g)' = InHands(g) /\ Buried(g)' = Buried(g)
    <3>1. Q(t) # g
          BY <1>0, <1>6 DEF Q
    <3> QED
        BY <1>0, <1>1, <1>4, <3>1 DEF InHands, Buried, Q, EventIInv, EventTypeOK
  <2>3. \A u \in InHands(g) : event'[u] = event[u]
        BY <1>0, <1>4, <1>6 DEF InHands, Q
  <2> QED
      BY <1>0, <1>1, <1>3, <2>1, <2>2, <2>3, EventKeeps
<1> QED
    BY <1>0, <1>3, <1>5, <1>6 DEF EventIInv

\* The event in a thread's hands has been handled.
LEMMA HandleIInv ==
    ASSUME EventIInv, NEW t \in Threads, Handle(t)
    PROVE  EventIInv'
<1>0. PICK h \in Handlers : h = handlerOf[t]
      BY DEF EventIInv, EventTypeOK
<1>1. /\ pc[t] = "handling"
      /\ handled' = [handled EXCEPT ![h] = handled[h] \cup {event[t]}]
      /\ pc' = [pc EXCEPT ![t] = "pop"]
      /\ UNCHANGED <<handlerOf, q, pushed, event, cut, cancelled, schedulers, stop>>
      BY <1>0 DEF Handle, Q, stopper, Goto, queues
<1>2. EventTypeOK'
      BY <1>0, <1>1 DEF EventIInv, EventTypeOK, PCs
<1>3. /\ handled'[h] = handled[h] \cup {event[t]} /\ pc'[t] = "pop"
      /\ \A u \in Threads \ {t} : pc'[u] = pc[u]
      BY <1>0, <1>1 DEF EventIInv, EventTypeOK
<1>4. Accounted(h)'
  <2>1. Accounted(h)
        BY <1>0 DEF EventIInv
  <2>2. Left(h)' = Left(h)
        BY <1>0, <1>1 DEF Left
  <2>3. InHands(h)' = InHands(h) \ {t} /\ t \in InHands(h) /\ Buried(h)' = Buried(h)
        BY <1>0, <1>1, <1>3, <1>2 DEF InHands, Buried, Q, EventTypeOK
  <2>4. InHand(h) = InHand(h)' \cup {event[t]}
        BY <1>0, <1>1, <2>3 DEF InHand
  <2>5. EventsNumbered(h)' /\ Somewhere(h)'
        BY <1>0, <1>1, <1>3, <2>1, <2>2, <2>4 DEF Accounted, EventsNumbered, Somewhere
  <2>6. OnlyThere(h)'
        BY <1>0, <1>1, <1>3, <2>1, <2>3 DEF Accounted, OnlyThere
  <2>7. EventsCounted(h)'
    <3>1. /\ IsFiniteSet(InHands(h)')
          /\ Cardinality(InHands(h)') = Cardinality(InHands(h)) - 1
          BY <1>0, <2>3, EventFinite, FS_RemoveElement DEF EventIInv
    <3>2. event[t] \notin handled[h]
          BY <1>0, <2>1, <2>3 DEF Accounted, OnlyThere
    <3>3. /\ IsFiniteSet(handled'[h])
          /\ Cardinality(handled'[h]) = Cardinality(handled[h]) + 1
      <4>1. IsFiniteSet(handled[h]) /\ handled'[h] = handled[h] \cup {event[t]}
            BY <1>3, <2>1 DEF Accounted, EventsCounted
      <4>2. /\ IsFiniteSet(handled[h] \cup {event[t]})
            /\ Cardinality(handled[h] \cup {event[t]}) = Cardinality(handled[h]) + 1
            BY <3>2, <4>1, FS_AddElement
      <4> QED
          BY <4>1, <4>2
    <3>4. /\ Cardinality(handled[h]) \in Nat /\ Cardinality(cut[h]) \in Nat
          /\ Cardinality(InHands(h)) \in Nat
          BY <1>0, <2>1, EventFinite, FS_CardinalityType
             DEF EventIInv, Accounted, EventsCounted
    <3> QED
        BY <1>0, <1>1, <2>1, <2>2, <2>3, <3>1, <3>3, <3>4 DEF Accounted, EventsCounted
  <2> QED
      BY <1>0, <2>5, <2>6, <2>7 DEF Accounted
<1>5. ASSUME NEW g \in Handlers, g # h PROVE Accounted(g)'
  <2>1. handled'[g] = handled[g]
        BY <1>0, <1>1, <1>5 DEF EventIInv, EventTypeOK
  <2>2. InHands(g)' = InHands(g) /\ Buried(g)' = Buried(g)
    <3>1. Q(t) # g
          BY <1>0, <1>5 DEF Q
    <3> QED
        BY <1>0, <1>1, <1>3, <3>1 DEF InHands, Buried, Q, EventIInv, EventTypeOK
  <2> QED
      BY <1>0, <1>1, <1>2, <2>1, <2>2, EventKeeps
<1> QED
    BY <1>0, <1>2, <1>4, <1>5 DEF EventIInv

\* A cancelled thread dies with its event: one more is cut off and one more thread
\* is buried.
LEMMA DieInHandleIInv ==
    ASSUME EventIInv, NEW t \in Threads, DieInHandle(t)
    PROVE  EventIInv'
<1>0. PICK h \in Handlers : h = handlerOf[t]
      BY DEF EventIInv, EventTypeOK
<1>1. /\ pc[t] = "handling" /\ t \in cancelled
      /\ cut' = [cut EXCEPT ![h] = cut[h] \cup {event[t]}]
      /\ pc' = [pc EXCEPT ![t] = "dead"]
      /\ UNCHANGED <<handlerOf, q, pushed, event, handled, cancelled, schedulers, stop>>
      BY <1>0 DEF DieInHandle, Q, stopper, Goto, queues
<1>2. EventTypeOK'
      BY <1>0, <1>1 DEF EventIInv, EventTypeOK, PCs
<1>3. /\ cut'[h] = cut[h] \cup {event[t]} /\ pc'[t] = "dead"
      /\ \A u \in Threads \ {t} : pc'[u] = pc[u]
      BY <1>0, <1>1 DEF EventIInv, EventTypeOK
<1>4. Accounted(h)'
  <2>1. Accounted(h)
        BY <1>0 DEF EventIInv
  <2>2. Left(h)' = Left(h)
        BY <1>0, <1>1 DEF Left
  <2>3. InHands(h)' = InHands(h) \ {t} /\ t \in InHands(h)
        BY <1>0, <1>1, <1>3, <1>2 DEF InHands, Q, EventTypeOK
  <2>4. InHand(h) = InHand(h)' \cup {event[t]}
        BY <1>0, <1>1, <2>3 DEF InHand
  <2>5. EventsNumbered(h)' /\ Somewhere(h)'
        BY <1>0, <1>1, <1>3, <2>1, <2>2, <2>4 DEF Accounted, EventsNumbered, Somewhere
  <2>6. OnlyThere(h)'
        BY <1>0, <1>1, <1>3, <2>1, <2>3 DEF Accounted, OnlyThere
  <2>7. Buried(h)' = Buried(h) \cup {t} /\ t \notin Buried(h)
        BY <1>0, <1>1, <1>3, <1>2 DEF Buried, Q, EventTypeOK
  <2>8. EventsCounted(h)'
    <3>1. /\ IsFiniteSet(InHands(h)')
          /\ Cardinality(InHands(h)') = Cardinality(InHands(h)) - 1
          BY <1>0, <2>3, EventFinite, FS_RemoveElement DEF EventIInv
    <3>2. event[t] \notin cut[h]
          BY <1>0, <2>1, <2>3 DEF Accounted, OnlyThere
    <3>3. /\ IsFiniteSet(cut'[h])
          /\ Cardinality(cut'[h]) = Cardinality(cut[h]) + 1
      <4>1. IsFiniteSet(cut[h]) /\ cut'[h] = cut[h] \cup {event[t]}
            BY <1>3, <2>1 DEF Accounted, EventsCounted
      <4>2. /\ IsFiniteSet(cut[h] \cup {event[t]})
            /\ Cardinality(cut[h] \cup {event[t]}) = Cardinality(cut[h]) + 1
            BY <3>2, <4>1, FS_AddElement
      <4> QED
          BY <4>1, <4>2
    <3>4. Cardinality(Buried(h)') = Cardinality(Buried(h)) + 1
          BY <1>0, <2>7, EventFinite, FS_AddElement DEF EventIInv
    <3>5. /\ Cardinality(handled[h]) \in Nat /\ Cardinality(cut[h]) \in Nat
          /\ Cardinality(InHands(h)) \in Nat /\ Cardinality(Buried(h)) \in Nat
          BY <1>0, <2>1, EventFinite, FS_CardinalityType
             DEF EventIInv, Accounted, EventsCounted
    <3> QED
        BY <1>0, <1>1, <2>1, <2>2, <3>1, <3>3, <3>4, <3>5 DEF Accounted, EventsCounted
  <2> QED
      BY <1>0, <2>5, <2>6, <2>8 DEF Accounted
<1>5. ASSUME NEW g \in Handlers, g # h PROVE Accounted(g)'
  <2>1. cut'[g] = cut[g]
        BY <1>0, <1>1, <1>5 DEF EventIInv, EventTypeOK
  <2>2. InHands(g)' = InHands(g) /\ Buried(g)' = Buried(g)
    <3>1. Q(t) # g
          BY <1>0, <1>5 DEF Q
    <3> QED
        BY <1>0, <1>1, <1>3, <3>1 DEF InHands, Buried, Q, EventIInv, EventTypeOK
  <2> QED
      BY <1>0, <1>1, <1>2, <2>1, <2>2, EventKeeps
<1> QED
    BY <1>0, <1>2, <1>4, <1>5 DEF EventIInv

\* A thread that goes somewhere without an event, or dies waiting for one.
LEMMA EventGoesIInv ==
    ASSUME EventIInv, NEW t \in Threads, NEW to \in {"pop", "waiting", "woken", "dead"},
           pc[t] \notin {"handling", "dead"}, pc' = [pc EXCEPT ![t] = to],
           schedulers' \in Seq(Threads), stop \in {"cancel", "join"} => schedulers' = schedulers,
           UNCHANGED <<handlerOf, q, event, pushed, handled, cut, cancelled, stop>>
    PROVE  EventIInv'
<1>1. EventTypeOK'
      BY DEF EventIInv, EventTypeOK, PCs
<1>2. ASSUME NEW h \in Handlers PROVE Accounted(h)'
  <2>1. InHands(h)' = InHands(h) /\ Buried(h) \subseteq Buried(h)'
        BY DEF InHands, Buried, Q, EventIInv, EventTypeOK
  <2> QED
      BY <1>1, <2>1, EventKeeps
<1> QED
    BY <1>1, <1>2 DEF EventIInv

\* A step of Stop: no thread moves, and none is forgiven.
LEMMA EventStopsIInv ==
    ASSUME EventIInv, schedulers' \in Seq(Threads), cancelled' \subseteq Threads,
           cancelled \subseteq cancelled', stop' \in {"cancel", "join"} => schedulers' # <<>>,
           UNCHANGED <<handlerOf, q, pc, event, pushed, handled, cut>>
    PROVE  EventIInv'
<1>1. EventTypeOK'
      BY DEF EventIInv, EventTypeOK
<1>2. ASSUME NEW h \in Handlers PROVE Accounted(h)'
  <2>1. InHands(h)' = InHands(h) /\ Buried(h) \subseteq Buried(h)'
        BY DEF InHands, Buried, Q, EventIInv, EventTypeOK
  <2> QED
      BY <1>1, <2>1, EventKeeps
<1> QED
    BY <1>1, <1>2 DEF EventIInv

\* Every step of the event processor keeps the account ...
LEMMA EventNextIInv == EventIInv /\ [Next]_vars => EventIInv'
<1> SUFFICES ASSUME EventIInv, [Next]_vars PROVE EventIInv'
    OBVIOUS
<1>t. schedulers \in Seq(Threads) /\ cancelled \subseteq Threads
      BY DEF EventIInv, EventTypeOK
<1>1. ASSUME NEW t \in Threads, AddEventScheduler(t) PROVE EventIInv'
  <2>1. schedulers' \in Seq(Threads)
        BY <1>1, <1>t, AppendProperties DEF AddEventScheduler
  <2>2. /\ stop = "no" /\ pc[t] = "off" /\ pc' = [pc EXCEPT ![t] = "pop"]
        /\ UNCHANGED <<handlerOf, q, event, pushed, handled, cut, cancelled, stop>>
        BY <1>1 DEF AddEventScheduler, Goto, queues
  <2> QED
      BY <2>1, <2>2, EventGoesIInv
<1>2. ASSUME NEW t \in Threads, Wait(t) \/ SpuriousWakeup(t) \/ DieInWait(t) PROVE EventIInv'
  <2>1. /\ pc[t] \in {"pop", "waiting", "woken"}
        /\ \E to \in {"waiting", "woken", "dead"} : pc' = [pc EXCEPT ![t] = to]
        /\ UNCHANGED <<handlerOf, q, event, pushed, handled, cut, cancelled, stop,
                       schedulers>>
        BY <1>2 DEF Wait, SpuriousWakeup, DieInWait, Goto, queues, stopper
  <2> QED
      BY <2>1, <1>t, EventGoesIInv
<1>3. ASSUME NEW h \in Handlers, Signal(h) PROVE EventIInv'
  <2>1. UNCHANGED <<handlerOf, q, event, pushed, handled, cut, cancelled, stop,
                    schedulers>>
        BY <1>3 DEF Signal, CallSignal, stopper
  <2>2. CASE UNCHANGED pc
        BY <2>1, <2>2, <1>t, EventStopsIInv DEF EventIInv, EventTypeOK
  <2>3. CASE \E t \in Waiting(h) : Goto(t, "woken")
    <3>1. PICK t \in Waiting(h) : Goto(t, "woken")
          BY <2>3
    <3>2. t \in Threads /\ pc[t] = "waiting" /\ pc' = [pc EXCEPT ![t] = "woken"]
          BY <3>1 DEF Waiting, Goto
    <3> QED
        BY <3>2, <2>1, <1>t, EventGoesIInv
  <2> QED
      BY <1>3, <2>2, <2>3 DEF Signal
<1>4. ASSUME CallStop \/ StopStep PROVE EventIInv'
  <2>1. UNCHANGED <<handlerOf, q, pc, event, pushed, handled, cut>>
        BY <1>4
           DEF CallStop, StopStep, Check, Cancel, Join, Stopped, queues,
               threads
  <2>2. CASE CallStop \/ Stopped
        BY <2>1, <2>2, <1>t, EventStopsIInv DEF CallStop, Stopped
  <2>3. CASE Check
        BY <2>1, <2>3, <1>t, EventStopsIInv DEF Check
  <2>4. CASE Cancel
    <3>1. Head(schedulers) \in Threads /\ schedulers # <<>>
          BY <2>4, <1>t, HeadTailProperties DEF Cancel, EventIInv, EventTypeOK
    <3> QED
        BY <2>1, <2>4, <3>1, <1>t, EventStopsIInv DEF Cancel
  <2>5. CASE Join
    <3>1. Tail(schedulers) \in Seq(Threads)
          BY <2>5, <1>t, HeadTailProperties DEF Join, EventIInv, EventTypeOK
    <3> QED
        BY <2>1, <2>5, <3>1, <1>t, EventStopsIInv DEF Join
  <2> QED
      BY <1>4, <2>2, <2>3, <2>4, <2>5 DEF StopStep
<1>5. ASSUME UNCHANGED vars PROVE EventIInv'
      BY <1>5, <1>t, EventStopsIInv
         DEF vars, queues, threads, stopper, EventIInv, EventTypeOK
<1> QED
    BY <1>1, <1>2, <1>3, <1>4, <1>5, EventPushIInv, EventTakeIInv, HandleIInv,
       DieInHandleIInv
       DEF Next, ThreadStep

\* ... which is right at the start ...
LEMMA EventInitIInv == Init => EventIInv
<1> SUFFICES ASSUME Init PROVE EventIInv
    OBVIOUS
<1>1. <<>> \in Seq(Nat) /\ <<>> \in Seq(Threads) /\ Len(<<>>) = 0
      BY EmptySeq
<1>2. EventTypeOK
      BY <1>1 DEF Init, EventTypeOK, PCs
<1>3. ASSUME NEW h \in Handlers PROVE Accounted(h)
  <2>1. q[h] = <<>> /\ pushed[h] = 0 /\ handled[h] = {} /\ cut[h] = {}
        BY DEF Init
  <2>2. InHands(h) = {} /\ Buried(h) = {} /\ InHand(h) = {}
    <3>1. InHands(h) = {} /\ Buried(h) = {}
          BY DEF Init, InHands, Buried
    <3> QED
        BY <3>1 DEF InHand
  <2>3. Left(h) = 0
    <3>1. Len(q[h]) = 0 /\ pushed[h] = 0
          BY <2>1
    <3> QED
        BY <3>1 DEF Left
  <2> QED
      BY <1>1, <2>1, <2>2, <2>3, FS_EmptySet
         DEF Accounted, EventsNumbered, Somewhere, OnlyThere, EventsCounted
<1> QED
    BY <1>2, <1>3 DEF EventIInv

\* ... and so always.
LEMMA EventInductive == Spec => []EventIInv
<1> QED
    BY EventInitIInv, EventNextIInv, PTL DEF Spec

\* No event of any handler is handled twice, skipped or lost, whatever wakes, dies
\* or is cancelled when: it is queued, handled, in one thread's hands, or was cut off
\* with a thread that Stop cancelled.
THEOREM EventsAccountedHolds == Spec => []EventsAccounted
<1>1. ASSUME EventIInv, NEW h \in Handlers
      PROVE  q[h] = [i \in 1..Len(q[h]) |-> Left(h) + i]
  <2>1. q[h] \in Seq(Nat) /\ \A i \in 1..Len(q[h]) : q[h][i] = Left(h) + i
        BY <1>1 DEF EventIInv, EventTypeOK, Accounted, EventsNumbered
  <2>2. q[h] = [i \in 1..Len(q[h]) |-> q[h][i]]
        BY <2>1, LenProperties
  <2> QED
      BY <2>1, <2>2, Zenon
<1>2. EventIInv => EventsAccounted
      BY <1>1
         DEF EventIInv, Accounted, Somewhere, EventsCounted, Left, InHand, Buried,
             EventsAccounted
<1> QED
    BY <1>2, EventInductive, PTL

-----------------------------------------------------------------------------
(* The integers.                                                              *)

(* Pieces are numbers of 16 bits, and 32 bits are two of them.                *)
LEMMA Pieces ==
    ASSUME NEW v \in Int, 0 <= v, v < B64
    PROVE  /\ Piece0(v) \in Int /\ 0 <= Piece0(v) /\ Piece0(v) < B16
           /\ Piece1(v) \in Int /\ 0 <= Piece1(v) /\ Piece1(v) < B16
           /\ Piece2(v) \in Int /\ 0 <= Piece2(v) /\ Piece2(v) < B16
           /\ Piece3(v) \in Int /\ 0 <= Piece3(v) /\ Piece3(v) < B16
           /\ v % B32 = Piece0(v) + Piece1(v) * B16
BY SMT DEF Piece0, Piece1, Piece2, Piece3, B16, B32, B48, B64

(* A piece shifted by 16 is right but for the sign.                           *)
LEMMA Shift16 ==
    ASSUME NEW x \in Int, 0 <= x, x < B16
    PROVE  /\ Shifted16(x) \in Int /\ -B31 <= Shifted16(x) /\ Shifted16(x) < B31
           /\ x * B16 < B31 => Shifted16(x) = x * B16
           /\ x * B16 >= B31 => Shifted16(x) = x * B16 - B32
BY SMT DEF Shifted16, Int32, B16, B31, B32

(* UInt16 decodes to what was encoded, and so does UInt32.                    *)
THEOREM RoundTrip16 ==
    ASSUME NEW v \in Int, 0 <= v, v < B16
    PROVE  Read16(v) = v
BY SMT DEF Read16, Piece0, B16

(* The sign of the second piece is lost again in the width of UInt32.         *)
THEOREM RoundTrip32 ==
    ASSUME NEW v \in Int, 0 <= v, v < B32
    PROVE  Read32(v) = v
<1>1. v < B64
  BY SMT DEF B32, B64
<1>2. v % B32 = v
  BY SMT DEF B32
<1>3. /\ Piece0(v) \in Int /\ 0 <= Piece0(v) /\ Piece0(v) < B16
      /\ Piece1(v) \in Int /\ 0 <= Piece1(v) /\ Piece1(v) < B16
      /\ v = Piece0(v) + Piece1(v) * B16
  BY <1>1, <1>2, Pieces
<1>4. /\ Piece1(v) * B16 < B31 => Shifted16(Piece1(v)) = Piece1(v) * B16
      /\ Piece1(v) * B16 >= B31 => Shifted16(Piece1(v)) = Piece1(v) * B16 - B32
  BY <1>3, Shift16
<1> QED
  BY <1>3, <1>4, SMT DEF Read32, B16, B31, B32

(* Pieces that are zero stay zero.                                            *)
LEMMA ShiftZero == Shifted16(0) = 0
BY SMT DEF Shifted16, Int32, B16, B31, B32

(* UInt64 decodes to what was encoded below 2^31, ...                         *)
THEOREM RoundTrip64 ==
    ASSUME NEW v \in Int, 0 <= v, v < B31
    PROVE  Read64(v) = {v}
<1>1. v < B64 /\ v % B32 = v
  BY SMT DEF B31, B32, B64
<1>2. /\ Piece0(v) \in Int /\ 0 <= Piece0(v) /\ Piece0(v) < B16
      /\ Piece1(v) \in Int /\ 0 <= Piece1(v) /\ Piece1(v) < B16
      /\ v = Piece0(v) + Piece1(v) * B16
  BY <1>1, Pieces
<1>3. Piece1(v) * B16 < B31
  BY <1>2, SMT DEF B16, B31
<1>4. Shifted16(Piece1(v)) = Piece1(v) * B16
  BY <1>2, <1>3, Shift16
<1>5. Piece0(v) + Shifted16(Piece1(v)) = v
  BY <1>2, <1>4
<1>6. Piece2(v) = 0 /\ Piece3(v) = 0
  BY SMT DEF Piece2, Piece3, B16, B31, B32, B48
<1>7. Shifted32(Piece2(v)) = {0} /\ Shifted48(Piece3(v)) = {0}
  BY <1>6, ShiftZero DEF Shifted32, Shifted48
<1>8. Read64(v) = {(v + a + b) % B64 : a \in {0}, b \in {0}}
  BY <1>5, <1>7 DEF Read64
<1>9. (v + 0 + 0) % B64 = v
  BY <1>1, SMT DEF B64
<1> QED
  BY <1>8, <1>9

(* What is left of Broken64 when the pieces are plain numbers.                *)
LEMMA NoWrap ==
    ASSUME NEW v \in Int, NEW x \in Int, v < B63, v = x % B64, -B63 < x, x < B63
    PROVE  v = x
<1>1. x < 0 => x % B64 = x + B64
  BY SMT DEF B63, B64
<1>2. x >= 0 => x % B64 = x
  BY SMT DEF B63, B64
<1> QED
  BY <1>1, <1>2, SMT DEF B63, B64

(* Numbers below 2^32 + 2^31 have at most a one above their 32 bits, ...      *)
LEMMA HighPieces ==
    ASSUME NEW v \in Int, 0 <= v, v < B32 + B31
    PROVE  /\ Piece3(v) = 0
           /\ Piece2(v) = 0 \/ Piece2(v) = 1
           /\ v = (v % B32) + Piece2(v) * B32
BY SMT DEF Piece2, Piece3, B16, B31, B32, B48

(* ... and from 2^31 on no sum that ReadInt may form gives them back.         *)
LEMMA NoSolution ==
    ASSUME NEW p \in Int, NEW r \in Int, NEW s \in Int, NEW v \in Int, NEW c \in Int,
           NEW a \in Int,
           0 <= p, p < B16, 0 <= r, r < B16, c = 0 \/ c = 1, a = 0 \/ a = c,
           r * B16 < B31 => s = r * B16,
           r * B16 >= B31 => s = r * B16 - B32,
           B31 <= v, v = p + r * B16 + c * B32, v = p + s + a
    PROVE  FALSE
BY SMT DEF B16, B31, B32

(* ... and to something else, whatever the shifts give, from there to 2^63.   *)
THEOREM Broken64 ==
    ASSUME NEW v \in Int, B31 <= v, v < B63
    PROVE  v \notin Read64(v)
<1>0. SUFFICES ASSUME NEW a \in Shifted32(Piece2(v)), NEW b \in Shifted48(Piece3(v)),
                      v = (Piece0(v) + Shifted16(Piece1(v)) + a + b) % B64
               PROVE  FALSE
  BY DEF Read64
<1>1. 0 <= v /\ v < B64
  BY SMT DEF B31, B63, B64
<1>2. /\ Piece0(v) \in Int /\ 0 <= Piece0(v) /\ Piece0(v) < B16
      /\ Piece1(v) \in Int /\ 0 <= Piece1(v) /\ Piece1(v) < B16
      /\ Piece2(v) \in Int /\ 0 <= Piece2(v) /\ Piece2(v) < B16
      /\ Piece3(v) \in Int /\ 0 <= Piece3(v) /\ Piece3(v) < B16
      /\ v % B32 = Piece0(v) + Piece1(v) * B16
  BY <1>1, Pieces
<1>3. /\ Shifted16(Piece1(v)) \in Int /\ -B31 <= Shifted16(Piece1(v)) /\ Shifted16(Piece1(v)) < B31
      /\ Piece1(v) * B16 < B31 => Shifted16(Piece1(v)) = Piece1(v) * B16
      /\ Piece1(v) * B16 >= B31 => Shifted16(Piece1(v)) = Piece1(v) * B16 - B32
  BY <1>2, Shift16
<1>4. Shifted16(Piece3(v)) \in Int /\ -B31 <= Shifted16(Piece3(v)) /\ Shifted16(Piece3(v)) < B31
  BY <1>2, Shift16
<1>5. (a = Piece2(v) \/ a = 0) /\ (b = Shifted16(Piece3(v)) \/ b = 0)
  BY DEF Shifted32, Shifted48
<1>6. a \in Int /\ 0 <= a /\ a < B16 /\ b \in Int /\ -B31 <= b /\ b < B31
  BY <1>2, <1>4, <1>5, SMT DEF B16, B31
<1>7. \A p, s \in Int : 0 <= p /\ p < B16 /\ -B31 <= s /\ s < B31
        => /\ p + s + a + b \in Int
           /\ -B63 < p + s + a + b /\ p + s + a + b < B63 /\ p + s + a + b < B32 + B31
  BY <1>6, SMT DEF B16, B31, B32, B63
<1>8. v = Piece0(v) + Shifted16(Piece1(v)) + a + b /\ v < B32 + B31
  <2> DEFINE x == Piece0(v) + Shifted16(Piece1(v)) + a + b
  <2>1. x \in Int /\ -B63 < x /\ x < B63 /\ x < B32 + B31 /\ v = x % B64
    BY <1>0, <1>2, <1>3, <1>7
  <2> QED
    BY <2>1, NoWrap
<1>9. /\ Piece3(v) = 0
      /\ Piece2(v) = 0 \/ Piece2(v) = 1
      /\ v = (v % B32) + Piece2(v) * B32
  BY <1>1, <1>8, HighPieces
<1>10. b = 0 /\ (a = 0 \/ a = Piece2(v))
  BY <1>5, <1>9, ShiftZero
<1>11. /\ v = Piece0(v) + Piece1(v) * B16 + Piece2(v) * B32
       /\ v = Piece0(v) + Shifted16(Piece1(v)) + a
  BY <1>2, <1>3, <1>6, <1>8, <1>9, <1>10
<1> QED
  BY <1>2, <1>3, <1>6, <1>9, <1>10, <1>11, NoSolution
==============================================================================
