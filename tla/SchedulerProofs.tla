---------------------------- MODULE SchedulerProofs ----------------------------
(* Proofs about the pool, for any number of threads and routines, and about    *)
(* its watchdog, for any threads and any times.                                *)
EXTENDS ThreadPool, FiniteSetTheorems, SequenceTheorems, TLAPS

VARIABLES now, last, stamps, time, checked, began, triggered

\* The watchdog's threads are the pool's, seen from another side of ThreadMain.
W == INSTANCE Watchdog

\* A routine has a share of the countdown while it is queued on a thread, and while
\* it runs on one and has not counted down yet or has taken its share again; main has
\* one until it has scheduled all, if the program counts so.
Holding == {"run", "drop", "schedule"}
Placed(r) == \E t \in Threads : \/ \E i \in 1..Len(queue[t]) : queue[t][i] = r
                                \/ pc[t] \in Holding /\ running[t] = r
Pending == {r \in 1..created : Placed(r)}
Share == IF oneStep /\ main = "scheduling" THEN 1 ELSE 0

\* The steps of parallel_test, and all in which a thread has a routine.
InMaster == {"drop", "quota", "test", "retake", "schedule"}
Busy == InMaster \cup {"run", "wakeup", "return"}
Numbered == /\ \A t \in Threads : \A i \in 1..Len(queue[t]) : queue[t][i] \in 0..created
            /\ \A t \in Threads : pc[t] \in Busy => running[t] \in 1..created

\* Every routine is in one place.
OnePlace ==
    /\ \A t, u \in Threads : \A i \in 1..Len(queue[t]), j \in 1..Len(queue[u]) :
           queue[t][i] = queue[u][j] /\ queue[t][i] # Exit => t = u /\ i = j
    /\ \A t, u \in Threads :
           pc[t] \in Busy /\ pc[u] \in Busy /\ running[t] = running[u] => t = u
    /\ \A t, u \in Threads : \A i \in 1..Len(queue[u]) :
           pc[t] \in Busy => running[t] # queue[u][i]

\* The countdown counts those that have a share, and main's.
Counted == out = Cardinality(Pending) + Share

\* The steps of parallel_test are for it alone, and out_ is tested after calls enough.
Staged == \A t \in Threads : /\ pc[t] \in InMaster => ~oneStep
                             /\ pc[t] = "test" => calls > Calls

\* All is over once a routine calls Wakeup, unless Wait returned spuriously or the
\* count was zero early: nobody has a share, and nobody will take one.  An exit
\* routine is alone in the queue of a thread that Stop has been called for.
Ending == {"destroying", "joining", "done"}
Over == \/ main \in Ending \cup {"woken"}
        \/ \E t \in Threads : pc[t] = "wakeup"
Settled == out = 0 /\ ~Unsettled /\ (oneStep \/ calls > Calls)
Stopped(t) == main \in Ending /\ (pc[t] = "exited" \/ (main = "joining" /\ stopping = t))
Clean == /\ ~aborted
         /\ Over => Settled
         /\ \A t \in Threads : exitMain[t] => Stopped(t)
         /\ \A t \in Threads : \A i \in 1..Len(queue[t]) :
                queue[t][i] = Exit => exitMain[t] /\ Len(queue[t]) = 1

Sound == Numbered /\ OnePlace /\ Counted /\ Staged
IInv == TypeOK /\ Sound /\ (spurious \/ early \/ Clean)

-----------------------------------------------------------------------------
\* What the types and the bounds say, in one fact.
LEMMA Typing ==
    ASSUME TypeOK
    PROVE  /\ created \in Nat /\ out \in Nat /\ MaxRoutines \in Nat
           /\ \A t \in Threads : queue[t] \in Seq(0..MaxRoutines) /\ Len(queue[t]) \in Nat
           /\ IsFiniteSet(Pending) /\ Cardinality(Pending) \in Nat
           /\ Cardinality(Pending) <= created
           /\ IsFiniteSet(1..created) /\ Cardinality(1..created) = created
<1>1. /\ created \in Nat /\ out \in Nat /\ MaxRoutines \in Nat
      /\ \A t \in Threads : queue[t] \in Seq(0..MaxRoutines)
      BY BoundAssumption DEF TypeOK
<1>2. \A t \in Threads : Len(queue[t]) \in Nat
      BY <1>1, LenProperties
<1>3. IsFiniteSet(1..created) /\ Cardinality(1..created) = created
      BY <1>1, FS_Interval
<1>4. Pending \subseteq 1..created
      BY DEF Pending
<1> QED
    BY <1>1, <1>2, <1>3, <1>4, FS_Subset, FS_CardinalityType

\* Every place of a sequence with an element appended is an old one or the last, ...
Appended(r, s, e) ==
    /\ Len(s) \in Nat /\ Len(r) = Len(s) + 1
    /\ \A i \in 1..Len(s) : i \in 1..Len(r) /\ r[i] = s[i]
    /\ Len(s) + 1 \in 1..Len(r) /\ r[Len(s) + 1] = e
    /\ \A i \in 1..Len(r) : i \notin 1..Len(s) => i = Len(s) + 1

\* Append is such a sequence ...
LEMMA AppendIs ==
    ASSUME NEW S, NEW s \in Seq(S), NEW e \in S
    PROVE  Append(s, e) \in Seq(S) /\ Appended(Append(s, e), s, e)
<1>1. /\ Append(s, e) \in Seq(S) /\ Len(s) \in Nat /\ Len(Append(s, e)) = Len(s) + 1
      /\ \A i \in 1..Len(s) : Append(s, e)[i] = s[i]
      /\ Append(s, e)[Len(s) + 1] = e
      BY LenProperties, AppendProperties
<1> QED
    BY <1>1 DEF Appended

\* ... and every place of one without its head was the next one.
Beheaded(r, s) ==
    /\ Len(s) \in Nat /\ Len(r) \in Nat /\ Len(r) = Len(s) - 1 /\ 1 \in 1..Len(s)
    /\ \A i \in 1..Len(r) : i + 1 \in 1..Len(s) /\ i + 1 # 1 /\ r[i] = s[i + 1]
    /\ \A i \in 1..Len(s) : i # 1 => i - 1 \in 1..Len(r) /\ r[i - 1] = s[i]

\* ... and so is Tail.
LEMMA TailIs ==
    ASSUME NEW S, NEW s \in Seq(S), s # <<>>
    PROVE  /\ Tail(s) \in Seq(S) /\ Beheaded(Tail(s), s)
           /\ Head(s) = s[1] /\ Head(s) \in S
<1>1. /\ Len(s) \in Nat \ {0} /\ Tail(s) \in Seq(S) /\ Len(Tail(s)) = Len(s) - 1
      /\ Head(s) = s[1] /\ Head(s) \in S
      BY EmptySeq, LenProperties, HeadTailProperties
<1>2. \A i \in 1..Len(s) - 1 : Tail(s)[i] = s[i + 1]
      BY HeadTailProperties
<1>3. ASSUME NEW i \in 1..Len(s), i # 1
      PROVE  i - 1 \in 1..Len(Tail(s)) /\ Tail(s)[i - 1] = s[i]
  <2>1. i - 1 \in 1..Len(s) - 1 /\ (i - 1) + 1 = i
        BY <1>1, <1>3
  <2> QED
      BY <1>1, <1>2, <2>1
<1> QED
    BY <1>1, <1>2, <1>3 DEF Beheaded

\* While something is placed, the countdown has not reached zero.
LEMMA SomethingPlaced ==
    ASSUME IInv, NEW r \in 1..created, Placed(r)
    PROVE  out > 0
<1>1. r \in Pending
      BY DEF Pending
<1>2. Cardinality(Pending) # 0
      BY <1>1, Typing, FS_EmptySet DEF IInv
<1> QED
    BY <1>2, Typing DEF IInv, Sound, Counted, Share

\* A step that moves no routine ...
LEMMA PlacesKept ==
    ASSUME IInv, UNCHANGED <<queue, running, created>>,
           \A t \in Threads : pc'[t] \in Busy => pc[t] \in Busy
    PROVE  Numbered' /\ OnePlace'
<1>1. queue' = queue /\ running' = running /\ created' = created /\ Numbered /\ OnePlace
      BY DEF IInv, Sound
<1>2. Numbered'
      BY <1>1 DEF Numbered
<1>3. OnePlace'
      BY <1>1 DEF OnePlace, Exit
<1> QED
    BY <1>2, <1>3

\* ... and leaves the countdown alone.
LEMMA Keeps ==
    ASSUME IInv, TypeOK', UNCHANGED <<queue, running, created, out>>, Share' = Share,
           \A t \in Threads : pc'[t] \in Holding <=> pc[t] \in Holding,
           \A t \in Threads : pc'[t] \in Busy => pc[t] \in Busy,
           Staged'
    PROVE  Sound'
<1>1. Numbered' /\ OnePlace'
      BY PlacesKept
<1>2. Pending' = Pending
      BY DEF Pending, Placed
<1> QED
    BY <1>1, <1>2 DEF IInv, Sound, Counted

-----------------------------------------------------------------------------
(* One lemma for every action that moves a routine or a share.                *)
\* A new routine is appended to a queue: every place is an old one or the last.
LEMMA PushIs ==
    ASSUME IInv, NEW t \in Threads, created < MaxRoutines, created' = created + 1,
           Push(t, created + 1), running' = running,
           \A u \in Threads : pc'[u] \in Busy => pc[u] \in Busy
    PROVE  /\ created + 1 \in 1..MaxRoutines
           /\ queue' \in [Threads -> Seq(0..MaxRoutines)]
           /\ \A u \in Threads : \A i \in 1..Len(queue[u]) :
                  i \in 1..Len(queue'[u]) /\ queue'[u][i] = queue[u][i]
           /\ \A u \in Threads : \A i \in 1..Len(queue'[u]) :
                  \/ i \in 1..Len(queue[u]) /\ queue'[u][i] = queue[u][i]
                  \/ u = t /\ i = Len(queue[t]) + 1 /\ queue'[u][i] = created + 1
           /\ \E i \in 1..Len(queue'[t]) : queue'[t][i] = created + 1
           /\ Numbered' /\ OnePlace'
<1>1. queue' = [queue EXCEPT ![t] = Append(queue[t], created + 1)]
      BY DEF Push
<1>2. /\ created \in Nat /\ MaxRoutines \in Nat
      /\ queue[t] \in Seq(0..MaxRoutines) /\ Len(queue[t]) \in Nat
      BY Typing DEF IInv
<1>3. created + 1 \in 0..MaxRoutines /\ created + 1 \in 1..MaxRoutines
      BY <1>2
<1>4. /\ queue'[t] = Append(queue[t], created + 1)
      /\ \A u \in Threads \ {t} : queue'[u] = queue[u]
      BY <1>1 DEF IInv, TypeOK
<1>5. queue'[t] \in Seq(0..MaxRoutines) /\ Appended(queue'[t], queue[t], created + 1)
      BY <1>2, <1>3, <1>4, AppendIs
<1>6. /\ \A u \in Threads : \A i \in 1..Len(queue[u]) :
             i \in 1..Len(queue'[u]) /\ queue'[u][i] = queue[u][i]
      /\ \A u \in Threads : \A i \in 1..Len(queue'[u]) :
             \/ i \in 1..Len(queue[u]) /\ queue'[u][i] = queue[u][i]
             \/ u = t /\ i = Len(queue[t]) + 1 /\ queue'[u][i] = created + 1
      BY <1>4, <1>5 DEF Appended
<1>7. \E i \in 1..Len(queue'[t]) : queue'[t][i] = created + 1
      BY <1>5 DEF Appended
<1>8. Numbered'
  <2>1. \A n \in 0..created : n \in 0..created + 1
        BY <1>2
  <2>2. \A n \in 1..created : n \in 1..created + 1
        BY <1>2
  <2>3. created + 1 \in 0..created + 1
        BY <1>2
  <2> QED
      BY <1>6, <2>1, <2>2, <2>3 DEF IInv, Sound, Numbered
<1>9. OnePlace'
  <2>1. \A u \in Threads : \A i \in 1..Len(queue[u]) : queue[u][i] # created + 1
        BY <1>2 DEF IInv, Sound, Numbered
  <2>2. \A u \in Threads : pc[u] \in Busy => running[u] # created + 1
        BY <1>2 DEF IInv, Sound, Numbered
  <2>3. ASSUME NEW u \in Threads, NEW v \in Threads,
               NEW i \in 1..Len(queue'[u]), NEW j \in 1..Len(queue'[v]),
               queue'[u][i] = queue'[v][j], queue'[u][i] # Exit
        PROVE  u = v /\ i = j
    <3>1. CASE queue'[u][i] = created + 1
      <4>1. u = t /\ i = Len(queue[t]) + 1
            BY <1>6, <2>1, <3>1
      <4>2. v = t /\ j = Len(queue[t]) + 1
        <5>1. queue'[v][j] = created + 1
              BY <2>3, <3>1
        <5> QED
            BY <1>6, <2>1, <5>1
      <4> QED
          BY <4>1, <4>2
    <3>2. CASE queue'[u][i] # created + 1
      <4>1. /\ i \in 1..Len(queue[u]) /\ queue[u][i] = queue'[u][i]
            /\ j \in 1..Len(queue[v]) /\ queue[v][j] = queue'[v][j]
            BY <1>6, <2>3, <3>2
      <4> QED
          BY <2>3, <4>1 DEF IInv, Sound, OnePlace
    <3> QED
        BY <3>1, <3>2
  <2>4. \A u, v \in Threads :
            pc'[u] \in Busy /\ pc'[v] \in Busy /\ running'[u] = running'[v] => u = v
        BY DEF IInv, Sound, OnePlace
  <2>5. \A u, v \in Threads : \A i \in 1..Len(queue'[v]) :
            pc'[u] \in Busy => running'[u] # queue'[v][i]
        BY <1>6, <2>2 DEF IInv, Sound, OnePlace
  <2> QED
      BY <2>3, <2>4, <2>5 DEF OnePlace
<1>10. queue' \in [Threads -> Seq(0..MaxRoutines)]
      BY <1>1, <1>4, <1>5 DEF IInv, TypeOK
<1> QED
    BY <1>3, <1>6, <1>7, <1>8, <1>9, <1>10

\* A routine with a share of its own.
LEMMA CreateIInv ==
    ASSUME IInv, NEW t \in Threads, Create(t),
           main = "scheduling" \/ \E u \in Threads : pc[u] = "run"
    PROVE  IInv'
<1>1. /\ created < MaxRoutines /\ created' = created + 1 /\ out' = out + 1
      /\ Push(t, created + 1)
      /\ UNCHANGED <<running, pc, exitMain, oneStep, calls, slaves, finished, lock, main,
                     stopping, missed, spurious, early, aborted>>
      BY DEF Create, mainVars
<1>2. /\ created \in Nat /\ out \in Nat /\ MaxRoutines \in Nat
      /\ Cardinality(Pending) \in Nat /\ Cardinality(Pending) <= created
      /\ IsFiniteSet(Pending)
      BY Typing DEF IInv
<1>t. /\ created + 1 \in 1..MaxRoutines
      /\ queue' \in [Threads -> Seq(0..MaxRoutines)]
      /\ Numbered' /\ OnePlace'
      BY <1>1, PushIs
<1>3. /\ \A u \in Threads : \A i \in 1..Len(queue[u]) :
             i \in 1..Len(queue'[u]) /\ queue'[u][i] = queue[u][i]
      /\ \A u \in Threads : \A i \in 1..Len(queue'[u]) :
             \/ i \in 1..Len(queue[u]) /\ queue'[u][i] = queue[u][i]
             \/ u = t /\ i = Len(queue[t]) + 1 /\ queue'[u][i] = created + 1
      /\ \E i \in 1..Len(queue'[t]) : queue'[t][i] = created + 1
      BY <1>1, PushIs
<1>4. Pending' = Pending \cup {created + 1} /\ created + 1 \notin Pending
  <2>1. ASSUME NEW n PROVE Placed(n)' <=> Placed(n) \/ n = created + 1
    <3>1. n = created + 1 => Placed(n)'
          BY <1>3 DEF Placed
    <3>2. Placed(n) => Placed(n)'
          BY <1>1, <1>3 DEF Placed
    <3>3. ASSUME Placed(n)' PROVE Placed(n) \/ n = created + 1
      <4>1. PICK u \in Threads : \/ \E i \in 1..Len(queue'[u]) : queue'[u][i] = n
                                 \/ pc'[u] \in Holding /\ running'[u] = n
            BY <3>3 DEF Placed
      <4>2. CASE pc'[u] \in Holding /\ running'[u] = n
            BY <1>1, <4>2 DEF Placed
      <4>3. ASSUME NEW i \in 1..Len(queue'[u]), queue'[u][i] = n
            PROVE  Placed(n) \/ n = created + 1
            BY <1>3, <4>3 DEF Placed
      <4> QED
          BY <4>1, <4>2, <4>3
    <3> QED
        BY <3>1, <3>2, <3>3
  <2>2. 1..created' = (1..created) \cup {created + 1} /\ created + 1 \notin 1..created
        BY <1>1, <1>2
  <2> QED
      BY <2>1, <2>2 DEF Pending
<1>5. Counted'
  <2>1. Cardinality(Pending') = Cardinality(Pending) + 1
        BY <1>2, <1>4, FS_AddElement
  <2>2. Share' = Share /\ Share \in Nat
        BY <1>1 DEF Share
  <2> QED
      BY <1>1, <1>2, <2>1, <2>2 DEF IInv, Sound, Counted
<1>6. TypeOK'
  <2>1. Share \in 0..1
        BY DEF Share
  <2>2. out' \in 0..MaxRoutines + 1
        BY <1>1, <1>2, <2>1 DEF IInv, Sound, Counted
  <2>3. created' \in 0..MaxRoutines
        BY <1>1, <1>t
  <2> QED
      BY <1>1, <1>t, <2>2, <2>3 DEF IInv, TypeOK
<1>7. Staged'
      BY <1>1 DEF IInv, Sound, Staged
<1>8. ASSUME Clean PROVE Clean'
  <2>1. ~Over
    <3>1. CASE main = "scheduling"
          BY <1>8, <3>1 DEF Clean, Settled, Unsettled
    <3>2. ASSUME NEW u \in Threads, pc[u] = "run" PROVE ~Over
      <4>1. running[u] \in 1..created /\ Placed(running[u])
            BY <3>2 DEF IInv, Sound, Numbered, Busy, Placed, Holding
      <4>2. out # 0
            BY <1>2, <4>1, SomethingPlaced
      <4> QED
          BY <1>8, <4>2 DEF Clean, Settled
    <3> QED
        BY <3>1, <3>2
  <2>2. \A u \in Threads : ~exitMain[u]
        BY <1>8, <2>1 DEF Clean, Over, Stopped
  <2>3. \A u \in Threads : \A i \in 1..Len(queue'[u]) : queue'[u][i] # Exit
    <3>1. \A u \in Threads : \A i \in 1..Len(queue[u]) : queue[u][i] # Exit
          BY <1>8, <2>2 DEF Clean
    <3>2. created + 1 # Exit
          BY <1>2 DEF Exit
    <3> QED
        BY <1>3, <3>1, <3>2
  <2> QED
      BY <1>1, <1>8, <2>1, <2>2, <2>3 DEF Clean, Over
<1> QED
    BY <1>1, <1>t, <1>5, <1>6, <1>7, <1>8 DEF IInv, Sound

\* One that is given the share of the routine that schedules it.
LEMMA HandOnIInv ==
    ASSUME IInv, NEW t \in Threads, Reschedule(t) \/ SlaveRun(t)
    PROVE  IInv'
<1>1. /\ pc[t] \in {"schedule", "run"}
      /\ created < MaxRoutines /\ created' = created + 1
      /\ slaves' \in {slaves, slaves \cup {created + 1}}
      /\ pc' = [pc EXCEPT ![t] = "return"]
      /\ UNCHANGED <<running, exitMain, oneStep, out, calls, finished, lock, main,
                     stopping, missed, spurious, early, aborted>>
      BY DEF Reschedule, SlaveRun, HandOn, mainVars
<1>2. PICK q \in Threads : Push(q, created + 1)
      BY DEF Reschedule, SlaveRun, HandOn
<1>3. /\ created \in Nat /\ out \in Nat /\ MaxRoutines \in Nat
      /\ Cardinality(Pending) \in Nat /\ IsFiniteSet(Pending)
      BY Typing DEF IInv
<1>4. pc'[t] = "return" /\ \A u \in Threads \ {t} : pc'[u] = pc[u]
      BY <1>1 DEF IInv, TypeOK
<1>5. \A u \in Threads : pc'[u] \in Busy => pc[u] \in Busy
      BY <1>1, <1>4 DEF Busy, InMaster
<1>t. /\ created + 1 \in 1..MaxRoutines
      /\ queue' \in [Threads -> Seq(0..MaxRoutines)]
      /\ Numbered' /\ OnePlace'
      BY <1>1, <1>2, <1>5, PushIs
<1>6. /\ \A u \in Threads : \A i \in 1..Len(queue[u]) :
             i \in 1..Len(queue'[u]) /\ queue'[u][i] = queue[u][i]
      /\ \A u \in Threads : \A i \in 1..Len(queue'[u]) :
             \/ i \in 1..Len(queue[u]) /\ queue'[u][i] = queue[u][i]
             \/ u = q /\ i = Len(queue[q]) + 1 /\ queue'[u][i] = created + 1
      /\ \E i \in 1..Len(queue'[q]) : queue'[q][i] = created + 1
      BY <1>1, <1>2, <1>5, PushIs
<1>7. /\ pc[t] \in Busy /\ pc[t] \in Holding /\ running[t] \in 1..created
      /\ Placed(running[t]) /\ running[t] \in Pending
      BY <1>1 DEF IInv, Sound, Numbered, Busy, Holding, InMaster, Placed, Pending
<1>8. out # 0
      BY <1>3, <1>7, SomethingPlaced
<1>9. /\ Pending' = (Pending \ {running[t]}) \cup {created + 1}
      /\ created + 1 \notin Pending \ {running[t]}
  <2>1. ASSUME NEW n PROVE n = created + 1 => Placed(n)'
        BY <1>6 DEF Placed
  <2>2. ASSUME NEW n, n # created + 1, n # running[t] PROVE Placed(n)' <=> Placed(n)
    <3>1. \A u \in Threads :
              (\E i \in 1..Len(queue'[u]) : queue'[u][i] = n)
              <=> (\E i \in 1..Len(queue[u]) : queue[u][i] = n)
      <4>1. ASSUME NEW u \in Threads, NEW i \in 1..Len(queue[u]), queue[u][i] = n
            PROVE  \E k \in 1..Len(queue'[u]) : queue'[u][k] = n
            BY <1>6, <4>1
      <4>2. ASSUME NEW u \in Threads, NEW i \in 1..Len(queue'[u]), queue'[u][i] = n
            PROVE  \E k \in 1..Len(queue[u]) : queue[u][k] = n
            BY <1>6, <2>2, <4>2
      <4> QED
          BY <4>1, <4>2
    <3>2. \A u \in Threads : pc'[u] \in Holding /\ running'[u] = n
                             <=> pc[u] \in Holding /\ running[u] = n
          BY <1>1, <1>4, <2>2
    <3> QED
        BY <3>1, <3>2 DEF Placed
  <2>3. ASSUME NEW n, n = running[t] PROVE ~Placed(n)'
    <3>1. n # created + 1
          BY <1>3, <1>7, <2>3
    <3>2. \A u \in Threads : \A i \in 1..Len(queue'[u]) : queue'[u][i] # n
          BY <1>6, <1>7, <2>3, <3>1 DEF IInv, Sound, OnePlace
    <3>3. \A u \in Threads : pc'[u] \in Holding => running'[u] # n
      <4>1. \A u \in Threads : pc[u] \in Holding => pc[u] \in Busy
            BY DEF Holding, Busy, InMaster
      <4> QED
          BY <1>1, <1>4, <1>7, <2>3, <4>1 DEF IInv, Sound, OnePlace, Holding
    <3> QED
        BY <3>2, <3>3 DEF Placed
  <2>4. 1..created' = (1..created) \cup {created + 1} /\ created + 1 \notin 1..created
        BY <1>1, <1>3
  <2>5. ASSUME NEW n
        PROVE  n \in Pending' <=> n \in (Pending \ {running[t]}) \cup {created + 1}
        BY <2>1, <2>2, <2>3, <2>4 DEF Pending
  <2> QED
      BY <2>4, <2>5 DEF Pending
<1>10. Counted'
  <2>1. /\ Cardinality(Pending \ {running[t]}) = Cardinality(Pending) - 1
        /\ IsFiniteSet(Pending \ {running[t]})
        BY <1>3, <1>7, FS_RemoveElement
  <2>2. Cardinality(Pending') = Cardinality(Pending \ {running[t]}) + 1
        BY <1>9, <2>1, FS_AddElement
  <2>3. Share' = Share
        BY <1>1 DEF Share
  <2> QED
      BY <1>1, <1>3, <2>1, <2>2, <2>3 DEF IInv, Sound, Counted
<1>11. TypeOK'
  <2>1. created' \in 0..MaxRoutines /\ slaves' \subseteq 1..MaxRoutines
        BY <1>1, <1>t DEF IInv, TypeOK
  <2> QED
      BY <1>1, <1>t, <2>1 DEF IInv, TypeOK
<1>12. Staged'
      BY <1>1, <1>4 DEF IInv, Sound, Staged, InMaster
<1>13. ASSUME Clean PROVE Clean'
  <2>1. ~Over
        BY <1>8, <1>13 DEF Clean, Settled
  <2>2. ~Over'
        BY <1>1, <1>4, <2>1 DEF Over
  <2>3. \A u \in Threads : ~exitMain[u]
        BY <1>13, <2>1 DEF Clean, Over, Stopped
  <2>4. \A u \in Threads : \A i \in 1..Len(queue'[u]) : queue'[u][i] # Exit
    <3>1. \A u \in Threads : \A i \in 1..Len(queue[u]) : queue[u][i] # Exit
          BY <1>13, <2>3 DEF Clean
    <3>2. created + 1 # Exit
          BY <1>3 DEF Exit
    <3> QED
        BY <1>6, <3>1, <3>2
  <2> QED
      BY <1>1, <1>13, <2>2, <2>3, <2>4 DEF Clean
<1>14. Sound'
      BY <1>t, <1>10, <1>12 DEF Sound
<1>15. spurious' = spurious /\ early' = early
      BY <1>1
<1> QED
    BY <1>11, <1>13, <1>14, <1>15 DEF IInv

\* A thread takes the oldest routine of its queue: it is in the thread's hands now.
LEMMA PopIInv ==
    ASSUME IInv, NEW t \in Threads, Pop(t)
    PROVE  IInv'
<1>1. /\ pc[t] = "pop" /\ queue[t] # <<>>
      /\ queue' = [queue EXCEPT ![t] = Tail(queue[t])]
      /\ running' = [running EXCEPT ![t] = Head(queue[t])]
      /\ pc' = [pc EXCEPT ![t] = IF Head(queue[t]) = Exit THEN "exited" ELSE "run"]
      /\ aborted' = (Head(queue[t]) = Exit /\ Tail(queue[t]) # <<>>)
      /\ UNCHANGED <<exitMain, finished, lock, main, stopping, missed, spurious, created,
                     oneStep, out, calls, slaves, early>>
      BY DEF Pop, mainVars, workVars
<1>2. /\ created \in Nat /\ Tail(queue[t]) \in Seq(0..MaxRoutines)
      /\ Head(queue[t]) = queue[t][1] /\ Head(queue[t]) \in 0..MaxRoutines
      /\ Beheaded(Tail(queue[t]), queue[t])
      BY <1>1, Typing, TailIs DEF IInv
<1>3. /\ queue'[t] = Tail(queue[t]) /\ running'[t] = queue[t][1]
      /\ pc'[t] = IF queue[t][1] = Exit THEN "exited" ELSE "run"
      /\ \A u \in Threads \ {t} :
             queue'[u] = queue[u] /\ running'[u] = running[u] /\ pc'[u] = pc[u]
      BY <1>1, <1>2 DEF IInv, TypeOK
<1>4. /\ Len(queue[t]) \in Nat /\ Len(queue'[t]) = Len(queue[t]) - 1
      /\ 1 \in 1..Len(queue[t])
      /\ \A i \in 1..Len(queue'[t]) :
             i + 1 \in 1..Len(queue[t]) /\ i + 1 # 1 /\ queue'[t][i] = queue[t][i + 1]
      /\ \A i \in 1..Len(queue[t]) :
             i # 1 => i - 1 \in 1..Len(queue'[t]) /\ queue'[t][i - 1] = queue[t][i]
      BY <1>2, <1>3 DEF Beheaded
<1>5. TypeOK'
      BY <1>1, <1>2 DEF IInv, TypeOK
<1>6. Numbered'
  <2>1. queue[t][1] # Exit => queue[t][1] \in 1..created
        BY <1>2, <1>4 DEF IInv, Sound, Numbered, Busy, Exit
  <2> QED
      BY <1>1, <1>3, <1>4, <2>1 DEF IInv, Sound, Numbered, Busy, InMaster
<1>7. OnePlace'
  <2>1. ASSUME NEW u \in Threads, NEW v \in Threads,
               NEW i \in 1..Len(queue'[u]), NEW j \in 1..Len(queue'[v]),
               queue'[u][i] = queue'[v][j], queue'[u][i] # Exit
        PROVE  u = v /\ i = j
    <3> DEFINE At(w, n) == IF w = t THEN n + 1 ELSE n
    <3>1. At(u, i) \in 1..Len(queue[u]) /\ queue[u][At(u, i)] = queue'[u][i]
      <4>1. CASE u = t
            BY <1>4, <4>1
      <4>2. CASE u # t
            BY <1>3, <4>2
      <4> QED
          BY <4>1, <4>2
    <3>2. At(v, j) \in 1..Len(queue[v]) /\ queue[v][At(v, j)] = queue'[v][j]
      <4>1. CASE v = t
            BY <1>4, <4>1
      <4>2. CASE v # t
            BY <1>3, <4>2
      <4> QED
          BY <4>1, <4>2
    <3> HIDE DEF At
    <3>3. u = v /\ At(u, i) = At(v, j)
          BY <2>1, <3>1, <3>2 DEF IInv, Sound, OnePlace
    <3> QED
        BY <3>3 DEF At
  <2>2. ASSUME NEW u \in Threads, NEW v \in Threads, pc'[u] \in Busy, pc'[v] \in Busy,
               running'[u] = running'[v]
        PROVE  u = v
    <3>1. pc'[t] \in Busy => queue[t][1] # Exit
          BY <1>3 DEF Busy, InMaster
    <3> QED
        BY <1>3, <1>4, <2>2, <3>1 DEF IInv, Sound, OnePlace
  <2>3. ASSUME NEW u \in Threads, NEW v \in Threads, NEW i \in 1..Len(queue'[v]),
               pc'[u] \in Busy, running'[u] = queue'[v][i]
        PROVE  FALSE
    <3>1. PICK k \in 1..Len(queue[v]) : queue[v][k] = queue'[v][i] /\ (v = t => k # 1)
      <4>1. CASE v = t
            BY <1>4, <4>1
      <4>2. CASE v # t
            BY <1>3, <4>2
      <4> QED
          BY <4>1, <4>2
    <3>2. CASE u # t
          BY <1>3, <2>3, <3>1, <3>2 DEF IInv, Sound, OnePlace
    <3>3. CASE u = t
      <4>1. queue[t][1] = queue[v][k] /\ queue[t][1] # Exit
            BY <1>3, <2>3, <3>1, <3>3 DEF Busy, InMaster
      <4> QED
          BY <1>4, <3>1, <3>3, <4>1 DEF IInv, Sound, OnePlace
    <3> QED
        BY <3>2, <3>3
  <2> QED
      BY <2>1, <2>2, <2>3 DEF OnePlace
<1>8. Counted'
  <2>1. ASSUME NEW n \in 1..created PROVE Placed(n)' <=> Placed(n)
    <3>1. n # Exit
          BY DEF Exit
    <3>2. ASSUME Placed(n) PROVE Placed(n)'
      <4>1. PICK u \in Threads : \/ \E i \in 1..Len(queue[u]) : queue[u][i] = n
                                 \/ pc[u] \in Holding /\ running[u] = n
            BY <3>2 DEF Placed
      <4>2. CASE u # t
            BY <4>1, <4>2, <1>3 DEF Placed
      <4>3. CASE u = t
        <5>1. PICK i \in 1..Len(queue[t]) : queue[t][i] = n
              BY <1>1, <4>1, <4>3 DEF Holding
        <5>2. CASE i = 1
              BY <1>3, <3>1, <5>1, <5>2 DEF Placed, Holding
        <5>3. CASE i # 1
              BY <1>4, <5>1, <5>3 DEF Placed
        <5> QED
            BY <5>2, <5>3
      <4> QED
          BY <4>2, <4>3
    <3>3. ASSUME Placed(n)' PROVE Placed(n)
      <4>1. PICK u \in Threads : \/ \E i \in 1..Len(queue'[u]) : queue'[u][i] = n
                                 \/ pc'[u] \in Holding /\ running'[u] = n
            BY <3>3 DEF Placed
      <4>2. CASE u # t
            BY <4>1, <4>2, <1>3 DEF Placed
      <4>3. CASE u = t
            BY <4>1, <4>3, <1>3, <1>4 DEF Placed
      <4> QED
          BY <4>2, <4>3
    <3> QED
        BY <3>2, <3>3
  <2>2. Pending' = Pending
        BY <1>1, <2>1 DEF Pending
  <2> QED
      BY <1>1, <2>2 DEF IInv, Sound, Counted, Share
<1>9. Staged'
      BY <1>1, <1>3 DEF IInv, Sound, Staged, InMaster
<1>10. ASSUME Clean PROVE Clean'
  <2>1. ~aborted'
    <3>1. ASSUME queue[t][1] = Exit PROVE Tail(queue[t]) = <<>>
      <4>1. Len(queue[t]) = 1
            BY <1>4, <1>10, <3>1 DEF Clean
      <4>2. Len(Tail(queue[t])) = 0
            BY <1>2, <4>1 DEF Beheaded
      <4> QED
          BY <1>2, <4>2, EmptySeq
    <3> QED
        BY <1>1, <1>2, <3>1
  <2>2. Over' => Settled'
    <3>1. Over' => Over
          BY <1>1, <1>3 DEF Over
    <3>2. Unsettled' => Unsettled
          BY <1>1, <1>3 DEF Unsettled
    <3> QED
        BY <1>1, <1>10, <3>1, <3>2 DEF Clean, Settled
  <2>3. \A u \in Threads : exitMain'[u] => Stopped(u)'
        BY <1>1, <1>3, <1>10 DEF Clean, Stopped
  <2>4. ASSUME NEW u \in Threads, NEW i \in 1..Len(queue'[u]), queue'[u][i] = Exit
        PROVE  exitMain'[u] /\ Len(queue'[u]) = 1
    <3>1. CASE u # t
          BY <1>1, <1>3, <1>10, <2>4, <3>1 DEF Clean
    <3>2. CASE u = t
      <4>1. i + 1 \in 1..Len(queue[t]) /\ queue[t][i + 1] = Exit /\ Len(queue[t]) # 1
            BY <1>4, <2>4, <3>2
      <4> QED
          BY <1>10, <4>1 DEF Clean
    <3> QED
        BY <3>1, <3>2
  <2> QED
      BY <2>1, <2>2, <2>3, <2>4 DEF Clean
<1> QED
    BY <1>1, <1>5, <1>6, <1>7, <1>8, <1>9, <1>10 DEF IInv, Sound

\* A routine counts down, in one step or as the first of two: it has no share any
\* more, and the countdown is one less.
LEMMA CountDownIInv ==
    ASSUME IInv, NEW t \in Threads, CountDown(t) \/ DropShare(t)
    PROVE  IInv'
<1>1. /\ pc[t] \in {"run", "drop"} /\ out' = out - 1
      /\ \E to \in {"quota", "wakeup", "return"} :
             /\ pc' = [pc EXCEPT ![t] = to]
             /\ to = "quota" => pc[t] = "drop"
             /\ to = "wakeup" => oneStep /\ out = 1
      /\ UNCHANGED <<queue, running, exitMain, created, oneStep, calls, slaves, early,
                     aborted, finished, lock, main, stopping, missed, spurious>>
  <2>1. CASE CountDown(t)
    <3>1. CASE out = 1
          BY <2>1, <3>1 DEF CountDown, Goto, mainVars
    <3>2. CASE out # 1
          BY <2>1, <3>2 DEF CountDown, Goto, mainVars
    <3> QED
        BY <3>1, <3>2
  <2>2. CASE DropShare(t)
        BY <2>2 DEF DropShare, Goto, mainVars
  <2> QED
      BY <2>1, <2>2
<1>2. /\ pc'[t] \in {"quota", "wakeup", "return"}
      /\ pc'[t] = "quota" => pc[t] = "drop"
      /\ pc'[t] = "wakeup" => oneStep /\ out = 1
      /\ \A u \in Threads \ {t} : pc'[u] = pc[u]
      BY <1>1 DEF IInv, TypeOK
<1>3. /\ pc[t] \in Busy /\ pc[t] \in Holding /\ running[t] \in 1..created
      /\ Placed(running[t]) /\ running[t] \in Pending
      BY <1>1 DEF IInv, Sound, Numbered, Busy, InMaster, Holding, Placed, Pending
<1>4. out > 0 /\ out \in Nat
      BY <1>3, SomethingPlaced, Typing DEF IInv
<1>5. TypeOK'
  <2>1. out' \in 0..MaxRoutines + 1
    <3>1. out \in 0..MaxRoutines + 1 /\ MaxRoutines \in Nat
          BY Typing DEF IInv, TypeOK
    <3> QED
        BY <1>1, <1>4, <3>1
  <2> QED
      BY <1>1, <2>1 DEF IInv, TypeOK
<1>6. Numbered' /\ OnePlace'
  <2>1. \A u \in Threads : pc'[u] \in Busy => pc[u] \in Busy
        BY <1>2, <1>3
  <2> QED
      BY <1>1, <2>1, PlacesKept
<1>7. Pending' = Pending \ {running[t]}
  <2>1. ASSUME NEW n PROVE Placed(n)' => Placed(n)
        BY <1>1, <1>2 DEF Placed, Holding
  <2>2. ASSUME NEW n, n # running[t], Placed(n) PROVE Placed(n)'
        BY <1>1, <1>2, <2>2 DEF Placed
  <2>3. ~Placed(running[t])'
    <3>1. \A u \in Threads : pc[u] \in Holding => pc[u] \in Busy
          BY DEF Holding, Busy, InMaster
    <3> QED
        BY <1>1, <1>2, <1>3, <3>1 DEF Placed, IInv, Sound, OnePlace, Holding
  <2> QED
      BY <1>1, <2>1, <2>2, <2>3 DEF Pending
<1>8. Counted'
  <2>1. Cardinality(Pending') = Cardinality(Pending) - 1 /\ Cardinality(Pending) \in Nat
        BY <1>3, <1>7, Typing, FS_RemoveElement DEF IInv
  <2>2. Share' = Share /\ Share \in Nat
        BY <1>1 DEF Share
  <2> QED
      BY <1>1, <2>1, <2>2 DEF IInv, Sound, Counted
<1>9. Staged'
      BY <1>1, <1>2 DEF IInv, Sound, Staged, InMaster
<1>10. ASSUME Clean PROVE Clean'
  <2>1. ~Over
        BY <1>4, <1>10 DEF Clean, Settled
  <2>2. Over' => Settled'
    <3>1. ASSUME Over' PROVE oneStep /\ out' = 0
          BY <1>1, <1>2, <2>1, <3>1 DEF Over
    <3>2. ASSUME oneStep PROVE \A u \in Threads : pc'[u] # "retake"
          BY <1>1, <3>2, <1>9 DEF Staged, InMaster
    <3>3. ASSUME oneStep, out' = 0 PROVE main' # "scheduling"
      <4>1. Cardinality(Pending') \in Nat
            BY <1>5, <1>7, <1>3, Typing, FS_Subset, FS_CardinalityType DEF IInv
      <4> QED
          BY <1>1, <1>8, <3>3, <4>1 DEF Counted, Share
    <3> QED
        BY <1>1, <3>1, <3>2, <3>3 DEF Settled, Unsettled
  <2> QED
      BY <1>1, <1>2, <1>10, <2>2 DEF Clean, Stopped
<1> QED
    BY <1>1, <1>5, <1>6, <1>8, <1>9, <1>10 DEF IInv, Sound

\* A routine takes its share again, which it does not when all is over.
LEMMA RetakeIInv ==
    ASSUME IInv, NEW t \in Threads, RetakeShare(t)
    PROVE  IInv'
<1>1. /\ pc[t] = "retake" /\ out' = out + 1 /\ pc' = [pc EXCEPT ![t] = "schedule"]
      /\ UNCHANGED <<queue, running, exitMain, created, oneStep, calls, slaves, early,
                     aborted, finished, lock, main, stopping, missed, spurious>>
      BY DEF RetakeShare, Goto, mainVars
<1>2. pc'[t] = "schedule" /\ \A u \in Threads \ {t} : pc'[u] = pc[u]
      BY <1>1 DEF IInv, TypeOK
<1>3. pc[t] \in Busy /\ running[t] \in 1..created
      BY <1>1 DEF IInv, Sound, Numbered, Busy, InMaster
<1>4. /\ out \in Nat /\ created \in Nat /\ MaxRoutines \in Nat
      /\ Cardinality(Pending) \in Nat /\ IsFiniteSet(Pending)
      BY Typing DEF IInv
<1>5. Numbered' /\ OnePlace'
  <2>1. \A u \in Threads : pc'[u] \in Busy => pc[u] \in Busy
        BY <1>2, <1>3
  <2> QED
      BY <1>1, <2>1, PlacesKept
<1>6. Pending' = Pending \cup {running[t]} /\ running[t] \notin Pending
  <2>1. ASSUME NEW n PROVE Placed(n)' <=> Placed(n) \/ n = running[t]
    <3>1. Placed(n) => Placed(n)'
          BY <1>1, <1>2 DEF Placed, Holding
    <3>2. n = running[t] => Placed(n)'
          BY <1>1, <1>2 DEF Placed, Holding
    <3>3. Placed(n)' => Placed(n) \/ n = running[t]
          BY <1>1, <1>2 DEF Placed
    <3> QED
        BY <3>1, <3>2, <3>3
  <2>2. ~Placed(running[t])
    <3>1. \A u \in Threads : pc[u] \in Holding => pc[u] \in Busy
          BY DEF Holding, Busy, InMaster
    <3> QED
        BY <1>1, <1>3, <3>1 DEF Placed, IInv, Sound, OnePlace, Holding
  <2> QED
      BY <1>1, <1>3, <2>1, <2>2 DEF Pending
<1>7. Counted'
  <2>1. Cardinality(Pending') = Cardinality(Pending) + 1
        BY <1>4, <1>6, FS_AddElement
  <2>2. Share' = Share /\ Share \in Nat
        BY <1>1 DEF Share
  <2> QED
      BY <1>1, <1>4, <2>1, <2>2 DEF IInv, Sound, Counted
<1>8. TypeOK'
  <2>1. Cardinality(Pending') <= created
    <3>1. Pending' \in SUBSET (1..created)
          BY <1>1 DEF Pending
    <3>2. IsFiniteSet(1..created) /\ Cardinality(1..created) = created
          BY Typing DEF IInv
    <3>3. Cardinality(Pending') <= Cardinality(1..created)
          BY <3>1, <3>2, FS_Subset
    <3> QED
        BY <3>2, <3>3
  <2>2. Share' \in 0..1 /\ created <= MaxRoutines
        BY DEF Share, IInv, TypeOK
  <2>3. Cardinality(Pending') \in Nat
        BY <1>4, <1>6, FS_AddElement, FS_CardinalityType
  <2>4. out' \in 0..MaxRoutines + 1
        BY <1>4, <1>7, <2>1, <2>2, <2>3 DEF Counted
  <2> QED
      BY <1>1, <2>4 DEF IInv, TypeOK
<1>9. Staged'
      BY <1>1, <1>2 DEF IInv, Sound, Staged, InMaster
<1>10. ASSUME Clean PROVE Clean'
  <2>1. ~Over
        BY <1>1, <1>10 DEF Clean, Settled, Unsettled
  <2>2. ~Over'
        BY <1>1, <1>2, <2>1 DEF Over
  <2> QED
      BY <1>1, <1>2, <1>10, <2>2 DEF Clean, Stopped
<1> QED
    BY <1>1, <1>5, <1>7, <1>8, <1>9, <1>10 DEF IInv, Sound

\* Main has scheduled all and gives up its own share.
LEMMA ScheduledIInv ==
    ASSUME IInv, Scheduled
    PROVE  IInv'
<1>1. /\ main = "scheduling" /\ main' = "scheduled"
      /\ IF oneStep THEN out > 1 /\ out' = out - 1 ELSE out' = out
      /\ UNCHANGED <<queue, running, pc, exitMain, finished, lock, stopping, missed,
                     spurious, created, oneStep, calls, slaves, early, aborted>>
      BY DEF Scheduled, threadVars
<1>2. TypeOK'
  <2>1. out' \in 0..MaxRoutines + 1
        BY <1>1, Typing DEF IInv, TypeOK
  <2> QED
      BY <1>1, <2>1 DEF IInv, TypeOK
<1>3. Numbered' /\ OnePlace' /\ Staged'
      BY <1>1 DEF IInv, Sound, Numbered, OnePlace, Staged
<1>4. Counted'
  <2>1. Pending' = Pending
        BY <1>1 DEF Pending, Placed
  <2>2. Share = (IF oneStep THEN 1 ELSE 0) /\ Share' = 0
        BY <1>1 DEF Share
  <2> QED
      BY <1>1, <2>1, <2>2, Typing DEF IInv, Sound, Counted
<1>5. ASSUME Clean PROVE Clean'
  <2>1. ~Over
        BY <1>1, <1>5 DEF Clean, Settled, Unsettled
  <2>2. ~Over'
        BY <1>1, <2>1 DEF Over, Ending
  <2> QED
      BY <1>1, <1>5, <2>2 DEF Clean, Stopped, Ending
<1> QED
    BY <1>1, <1>2, <1>3, <1>4, <1>5 DEF IInv, Sound

\* Stop puts the exit routine into the queue of a thread, which is empty then unless
\* Wait returned spuriously.
LEMMA StopIInv ==
    ASSUME IInv, NEW t \in Threads, Stop(t)
    PROVE  IInv'
<1>1. /\ main = "destroying" /\ pc[t] # "exited" /\ main' = "joining" /\ stopping' = t
      /\ exitMain' = [exitMain EXCEPT ![t] = TRUE]
      /\ aborted' = (exitMain[t] \/ queue[t] # <<>>)
      /\ queue' = [queue EXCEPT ![t] = Append(queue[t], Exit)]
      /\ UNCHANGED <<running, pc, finished, lock, missed, spurious, created, oneStep,
                     out, calls, slaves, early>>
      BY DEF Stop, Push, workVars
<1>2. /\ created \in Nat /\ MaxRoutines \in Nat /\ queue[t] \in Seq(0..MaxRoutines)
      /\ Len(queue[t]) \in Nat /\ Exit \in 0..MaxRoutines
      BY Typing DEF IInv, Exit
<1>3. /\ queue'[t] = Append(queue[t], Exit) /\ exitMain'[t]
      /\ \A u \in Threads \ {t} : queue'[u] = queue[u] /\ exitMain'[u] = exitMain[u]
      BY <1>1 DEF IInv, TypeOK
<1>4. queue'[t] \in Seq(0..MaxRoutines) /\ Appended(queue'[t], queue[t], Exit)
      BY <1>2, <1>3, AppendIs
\* Every place is an old one or the new one.
<1>5. /\ \A u \in Threads : \A i \in 1..Len(queue[u]) :
             i \in 1..Len(queue'[u]) /\ queue'[u][i] = queue[u][i]
      /\ \A u \in Threads : \A i \in 1..Len(queue'[u]) :
             \/ i \in 1..Len(queue[u]) /\ queue'[u][i] = queue[u][i]
             \/ u = t /\ i = Len(queue[t]) + 1 /\ queue'[u][i] = Exit
      BY <1>3, <1>4 DEF Appended
<1>6. TypeOK'
  <2>1. aborted' \in BOOLEAN
        BY <1>1
  <2> QED
      BY <1>1, <1>3, <1>4, <2>1 DEF IInv, TypeOK
<1>7. Numbered'
  <2>1. Exit \in 0..created
        BY <1>2 DEF Exit
  <2> QED
      BY <1>1, <1>5, <2>1 DEF IInv, Sound, Numbered
<1>8. OnePlace'
  <2>1. \A u \in Threads : pc[u] \in Busy => running[u] # Exit
        BY DEF IInv, Sound, Numbered, Exit
  <2> QED
      BY <1>1, <1>5, <2>1 DEF IInv, Sound, OnePlace
<1>9. Counted'
  <2>1. ASSUME NEW n \in 1..created PROVE Placed(n)' <=> Placed(n)
    <3>1. n # Exit
          BY DEF Exit
    <3> QED
        BY <1>1, <1>5, <3>1 DEF Placed
  <2>2. Pending' = Pending
        BY <1>1, <2>1 DEF Pending
  <2> QED
      BY <1>1, <2>2 DEF IInv, Sound, Counted, Share
<1>10. Staged'
      BY <1>1 DEF IInv, Sound, Staged
<1>11. ASSUME Clean PROVE Clean'
  <2>1. ~exitMain[t]
        BY <1>1, <1>11 DEF Clean, Stopped
  <2>2. out = 0
        BY <1>1, <1>11 DEF Clean, Over, Settled, Ending
  <2>3. \A i \in 1..Len(queue[t]) : FALSE
    <3>1. ASSUME NEW i \in 1..Len(queue[t]) PROVE FALSE
      <4>1. queue[t][i] # Exit /\ queue[t][i] \in 0..created
            BY <1>11, <2>1 DEF Clean, IInv, Sound, Numbered
      <4>2. queue[t][i] \in 1..created /\ Placed(queue[t][i])
            BY <4>1 DEF Exit, Placed
      <4> QED
          BY <2>2, <4>2, SomethingPlaced
    <3> QED
        BY <3>1
  <2>4. Len(queue[t]) = 0 /\ queue[t] = <<>>
    <3>1. Len(queue[t]) \in Nat
          BY Typing DEF IInv
    <3>2. Len(queue[t]) = 0
          BY <2>3, <3>1
    <3> QED
        BY <1>2, <3>2, EmptySeq
  <2>5. ~aborted'
        BY <1>1, <2>1, <2>4
  <2>6. \A u \in Threads : exitMain'[u] => Stopped(u)'
        BY <1>1, <1>3, <1>11 DEF Clean, Stopped, Ending
  <2>7. Settled'
        BY <1>1, <1>11 DEF Clean, Over, Settled, Unsettled, Ending
  <2>8. ASSUME NEW u \in Threads, NEW i \in 1..Len(queue'[u]), queue'[u][i] = Exit
        PROVE  exitMain'[u] /\ Len(queue'[u]) = 1
    <3>1. CASE u # t
          BY <1>3, <1>11, <2>8, <3>1 DEF Clean
    <3>2. CASE u = t
      <4>1. Len(queue'[t]) = 1
            BY <1>4, <2>4 DEF Appended
      <4> QED
          BY <1>3, <3>2, <4>1
    <3> QED
        BY <3>1, <3>2
  <2> QED
      BY <1>1, <2>7, <2>5, <2>6, <2>8 DEF Clean
<1> QED
    BY <1>1, <1>6, <1>7, <1>8, <1>9, <1>10, <1>11 DEF IInv, Sound

-----------------------------------------------------------------------------
(* The rest moves none.                                                       *)
\* parallel_test counts a call; its routine has its share still.
LEMMA CountCallIInv ==
    ASSUME IInv, NEW t \in Threads, CountCall(t)
    PROVE  IInv'
<1>1. /\ pc[t] = "run" /\ ~oneStep /\ calls' = calls + 1
      /\ pc' = [pc EXCEPT ![t] = "drop"]
      /\ UNCHANGED <<queue, running, exitMain, created, oneStep, slaves, early, aborted,
                     out, finished, lock, main, stopping, missed, spurious>>
      BY DEF CountCall, Goto, mainVars
<1>2. /\ pc'[t] = "drop" /\ \A u \in Threads \ {t} : pc'[u] = pc[u]
      /\ calls \in Nat /\ Calls \in Nat
      BY <1>1, BoundAssumption DEF IInv, TypeOK
<1>3. TypeOK'
      BY <1>1 DEF IInv, TypeOK
<1>4. Sound'
  <2>1. Share' = Share
        BY <1>1 DEF Share
  <2>2. \A u \in Threads : pc'[u] \in Holding <=> pc[u] \in Holding
        BY <1>1, <1>2 DEF Holding
  <2>3. \A u \in Threads : pc'[u] \in Busy => pc[u] \in Busy
        BY <1>1, <1>2 DEF Busy
  <2>4. Staged'
        BY <1>1, <1>2 DEF IInv, Sound, Staged, InMaster
  <2> QED
      BY <1>1, <1>3, <2>1, <2>2, <2>3, <2>4, Keeps
<1>5. ASSUME Clean PROVE Clean'
  <2>1. running[t] \in 1..created /\ Placed(running[t])
        BY <1>1 DEF IInv, Sound, Numbered, Busy, Placed, Holding
  <2>2. out # 0
        BY <2>1, SomethingPlaced, Typing DEF IInv
  <2>3. ~Over
        BY <1>5, <2>2 DEF Clean, Settled
  <2>4. ~Over'
        BY <1>1, <1>2, <2>3 DEF Over
  <2> QED
      BY <1>1, <1>2, <1>5, <2>4 DEF Clean, Stopped
<1> QED
    BY <1>1, <1>3, <1>4, <1>5 DEF IInv

\* A thread behind its countdown.  When the test of out_ finds zero, nobody will take
\* a share, or the history says so.
LEMMA BehindIInv ==
    ASSUME IInv, NEW t \in Threads,
           TestCalls(t) \/ TestCount(t) \/ Wakeup(t) \/ Return(t)
    PROVE  IInv'
<1>1. /\ pc[t] \in {"quota", "test", "wakeup", "return"}
      /\ \E to \in {"test", "retake", "wakeup", "return", "pop"} :
             /\ pc' = [pc EXCEPT ![t] = to]
             /\ to = "test" => pc[t] = "quota" /\ calls > Calls
             /\ to = "retake" => pc[t] = "quota" /\ ~(calls > Calls)
             /\ to = "wakeup" => pc[t] = "test" /\ out = 0
             /\ to = "wakeup" /\ Unsettled => early'
      /\ main' # main => pc[t] = "wakeup" /\ main = "waiting" /\ main' = "woken"
      /\ missed' \in BOOLEAN /\ finished' \in {finished, finished \cup {running[t]}}
      /\ early' \in BOOLEAN /\ (early => early')
      /\ UNCHANGED <<queue, running, exitMain, created, oneStep, calls, slaves, aborted,
                     out, lock, stopping, spurious>>
  <2>t. missed \in BOOLEAN /\ early \in BOOLEAN
        BY DEF IInv, TypeOK
  <2>1. CASE TestCalls(t)
    <3>1. pc' = [pc EXCEPT ![t] = IF calls > Calls THEN "test" ELSE "retake"]
          BY <2>1 DEF TestCalls, Goto
    <3>2. CASE calls > Calls
          BY <2>t, <2>1, <3>1, <3>2 DEF TestCalls, Goto, mainVars
    <3>3. CASE ~(calls > Calls)
          BY <2>t, <2>1, <3>1, <3>3 DEF TestCalls, Goto, mainVars
    <3> QED
        BY <3>2, <3>3
  <2>2. CASE TestCount(t)
    <3>1. pc' = [pc EXCEPT ![t] = IF out = 0 THEN "wakeup" ELSE "return"]
          BY <2>2 DEF TestCount, Goto
    <3>2. early' \in BOOLEAN /\ (early => early') /\ (out = 0 /\ Unsettled => early')
          BY <2>t, <2>2 DEF TestCount
    <3>3. CASE out = 0
          BY <2>t, <2>2, <3>1, <3>2, <3>3 DEF TestCount, Goto, mainVars
    <3>4. CASE out # 0
          BY <2>t, <2>2, <3>1, <3>2, <3>4 DEF TestCount, Goto, mainVars
    <3> QED
        BY <3>3, <3>4
  <2>3. CASE Wakeup(t)
        BY <2>t, <2>3 DEF Wakeup, Goto
  <2>4. CASE Return(t)
        BY <2>t, <2>4 DEF Return, Goto, mainVars
  <2> QED
      BY <2>1, <2>2, <2>3, <2>4
<1>2. /\ pc'[t] \in {"test", "retake", "wakeup", "return", "pop"}
      /\ pc'[t] = "test" => pc[t] = "quota" /\ calls > Calls
      /\ pc'[t] = "retake" => pc[t] = "quota" /\ ~(calls > Calls)
      /\ pc'[t] = "wakeup" => pc[t] = "test" /\ out = 0
      /\ pc'[t] = "wakeup" /\ Unsettled => early'
      /\ \A u \in Threads \ {t} : pc'[u] = pc[u]
      BY <1>1 DEF IInv, TypeOK
<1>3. TypeOK'
  <2>1. /\ pc' \in [Threads -> {"pop", "run", "drop", "quota", "test", "retake",
                               "schedule", "wakeup", "return", "exited"}]
        /\ main' \in {"scheduling", "scheduled", "waiting", "woken", "destroying",
                      "joining", "done"}
        BY <1>1 DEF IInv, TypeOK
  <2>2. finished' \subseteq 1..MaxRoutines
    <3>1. running[t] \in 1..created /\ created <= MaxRoutines
          BY <1>1 DEF IInv, Sound, Numbered, Busy, InMaster, TypeOK
    <3> QED
        BY <1>1, <3>1, Typing DEF IInv, TypeOK
  <2> QED
      BY <1>1, <2>1, <2>2 DEF IInv, TypeOK
<1>4. Sound'
  <2>1. Share' = Share
        BY <1>1 DEF Share
  <2>2. \A u \in Threads : pc'[u] \in Holding <=> pc[u] \in Holding
        BY <1>1, <1>2 DEF Holding
  <2>3. \A u \in Threads : pc'[u] \in Busy => pc[u] \in Busy
        BY <1>1, <1>2 DEF Busy, InMaster
  <2>4. Staged'
        BY <1>1, <1>2 DEF IInv, Sound, Staged, InMaster
  <2> QED
      BY <1>1, <1>3, <2>1, <2>2, <2>3, <2>4, Keeps
<1>5. ASSUME Clean, ~early' PROVE Clean'
  <2>1. Over' => Settled'
    <3>1. CASE Over
      <4>1. Settled
            BY <1>5, <3>1 DEF Clean
      <4>2. pc'[t] # "retake"
        <5>1. pc[t] = "quota" => ~oneStep
              BY DEF IInv, Sound, Staged, InMaster
        <5> QED
            BY <1>2, <4>1, <5>1 DEF Settled
      <4>3. Unsettled' => Unsettled
            BY <1>1, <1>2, <4>2 DEF Unsettled
      <4> QED
          BY <1>1, <4>1, <4>3 DEF Settled
    <3>2. ASSUME ~Over, Over' PROVE Settled'
      <4>1. pc'[t] = "wakeup" /\ main' = main
            BY <1>1, <1>2, <3>2 DEF Over, Ending
      <4>2. ~Unsettled /\ out = 0 /\ calls > Calls
            BY <1>2, <1>5, <4>1 DEF IInv, Sound, Staged
      <4> QED
          BY <1>1, <1>2, <4>1, <4>2 DEF Settled, Unsettled
    <3> QED
        BY <3>1, <3>2
  <2>2. \A u \in Threads : exitMain'[u] => Stopped(u)'
        BY <1>1, <1>2, <1>5 DEF Clean, Stopped, Ending
  <2> QED
      BY <1>1, <1>5, <2>1, <2>2 DEF Clean
<1> QED
    BY <1>1, <1>3, <1>4, <1>5 DEF IInv

\* The main thread, when it has scheduled all.
LEMMA MainIInv ==
    ASSUME IInv,
           Wait \/ Shutdown \/ Destroyed \/ SpuriousWakeup \/ \E t \in Threads : Join(t)
    PROVE  IInv'
<1>1. /\ main # "scheduling" /\ main' # "scheduling"
      /\ UNCHANGED <<queue, running, pc, exitMain, finished, created, oneStep, out, calls,
                     slaves, early, missed, aborted>>
      BY DEF Wait, Shutdown, Destroyed, SpuriousWakeup, Join, threadVars, workVars
<1>2. TypeOK'
  <2>1. main' \in {"waiting", "woken", "destroying", "done"}
        BY DEF Wait, Shutdown, Destroyed, SpuriousWakeup, Join
  <2>2. lock' \in {Nobody, "main"} /\ stopping' \in Threads \cup {Nobody} /\ spurious' \in BOOLEAN
        BY DEF Wait, Shutdown, Destroyed, SpuriousWakeup, Join, IInv, TypeOK
  <2> QED
      BY <1>1, <2>1, <2>2 DEF IInv, TypeOK
<1>3. Sound'
  <2>1. Share' = Share
        BY <1>1 DEF Share
  <2>2. Staged'
        BY <1>1 DEF IInv, Sound, Staged
  <2> QED
      BY <1>1, <1>2, <2>1, <2>2, Keeps
<1>4. CASE SpuriousWakeup
      BY <1>2, <1>3, <1>4 DEF SpuriousWakeup, IInv
<1>5. ASSUME ~SpuriousWakeup, Clean PROVE Clean' /\ spurious' = spurious
  <2>1. Over' => Over
        BY <1>1, <1>5 DEF Wait, Shutdown, Destroyed, Join, Over, Ending
  <2>2. Settled => Settled'
        BY <1>1 DEF Settled, Unsettled
  <2>3. \A u \in Threads : exitMain[u] => Stopped(u)'
        BY <1>1, <1>5 DEF Wait, Shutdown, Destroyed, Join, Clean, Stopped, Ending
  <2> QED
      BY <1>1, <1>5, <2>1, <2>2, <2>3 DEF Clean, Wait, Shutdown, Destroyed, Join
<1>6. (spurious => spurious') /\ early' = early
      BY <1>1 DEF Wait, Shutdown, Destroyed, SpuriousWakeup, Join
<1> QED
    BY <1>2, <1>3, <1>4, <1>5, <1>6 DEF IInv

\* Every step of the pool keeps the invariant ...
LEMMA NextIInv == IInv /\ [Next]_vars => IInv'
<1> SUFFICES ASSUME IInv, [Next]_vars PROVE IInv'
    OBVIOUS
<1>1. CASE UNCHANGED vars
  <2>1. UNCHANGED <<queue, running, pc, exitMain, lock, main, stopping, created, oneStep,
                    out, calls, slaves, finished, missed, spurious, early, aborted>>
        BY <1>1 DEF vars
  <2>2. TypeOK' /\ Staged' /\ Clean' = Clean /\ Share' = Share
        BY <2>1 DEF IInv, Sound, Staged, TypeOK, Clean, Over, Settled, Unsettled, Stopped,
                    Share
  <2>3. Sound'
        BY <2>1, <2>2, Keeps
  <2> QED
      BY <2>1, <2>2, <2>3 DEF IInv
<1>2. ASSUME NEW t \in Threads, ThreadStep(t) PROVE IInv'
      BY <1>2, CreateIInv, HandOnIInv, PopIInv, CountDownIInv, RetakeIInv, CountCallIInv,
         BehindIInv DEF ThreadStep, Schedule, Yield
<1>3. CASE MainStep
      BY <1>3, CreateIInv, ScheduledIInv, StopIInv, MainIInv DEF MainStep, MainSchedule
<1>4. CASE SpuriousWakeup
      BY <1>4, MainIInv
<1> QED
    BY <1>1, <1>2, <1>3, <1>4 DEF Next

\* ... which holds at the start ...
LEMMA InitIInv == Init => IInv
<1> SUFFICES ASSUME Init PROVE IInv
    OBVIOUS
<1>1. \A t \in Threads : queue[t] = <<>> /\ Len(queue[t]) = 0 /\ pc[t] = "pop" /\ ~exitMain[t]
      BY EmptySeq DEF Init
<1>2. TypeOK
  <2>1. <<>> \in Seq(0..MaxRoutines) /\ MaxRoutines \in Nat \ {0}
        BY EmptySeq, BoundAssumption
  <2>2. out \in 0..MaxRoutines + 1 /\ created \in 0..MaxRoutines /\ Exit \in 0..MaxRoutines
        BY <2>1 DEF Init, Exit
  <2> QED
      BY <2>1, <2>2 DEF Init, TypeOK
<1>3. Numbered /\ OnePlace /\ Staged
      BY <1>1 DEF Numbered, OnePlace, Staged, Busy, InMaster
<1>4. Counted
  <2>1. Pending = {}
        BY <1>1 DEF Pending, Placed, Holding
  <2> QED
      BY <2>1, FS_EmptySet DEF Counted, Share, Init
<1>5. Clean
      BY <1>1 DEF Clean, Over, Ending, Init
<1> QED
    BY <1>2, <1>3, <1>4, <1>5 DEF IInv, Sound

\* ... and so always.
LEMMA Inductive == Spec => []IInv
<1> QED
    BY InitIInv, NextIInv, PTL DEF Spec

\* Every variable of the pool keeps its type, for every number of threads and
\* routines.
THEOREM TypeCorrect == Spec => []TypeOK
<1>1. IInv => TypeOK
      BY DEF IInv
<1> QED
    BY <1>1, Inductive, PTL

\* No INVARIANT of Stop() or of ThreadMain fails in either program, however many
\* threads, routines and calls there are and wherever the routines ran, unless Wait
\* returned without a Wakeup, or a routine saw out_ at zero while main had more to
\* schedule or another routine was about to take its share again.
THEOREM ShutdownCleanHolds == Spec => []ShutdownClean
<1>1. IInv => ShutdownClean
      BY DEF IInv, Clean, ShutdownClean
<1> QED
    BY <1>1, Inductive, PTL

-----------------------------------------------------------------------------
(* The watchdog.                                                              *)

\* The inductive invariant: times that were read are past, and a time stamp is
\* TIMEOUT after the time its thread read.
ReadTimes == \A t \in Threads : time[t] <= now
Stamped == \A t \in Threads : stamps[t] # W!Never => stamps[t] = began[t] + W!TIMEOUT
WatchIInv == W!TypeOK /\ ReadTimes /\ Stamped /\ W!NoFalseAlarm

(* It holds at first and every step   preserves it.                           *)
LEMMA InitWatchIInv == W!Init => WatchIInv
<1> SUFFICES ASSUME W!Init PROVE WatchIInv
  OBVIOUS
<1>1. W!TypeOK
  BY DEF W!Init, W!TypeOK
<1>2. ReadTimes /\ Stamped /\ W!NoFalseAlarm
  BY <1>1 DEF W!Init, W!TypeOK, ReadTimes, Stamped, W!NoFalseAlarm
<1> QED
  BY <1>1, <1>2 DEF WatchIInv

LEMMA NextWatchIInv == WatchIInv /\ [W!Next]_W!vars => WatchIInv'
<1> SUFFICES ASSUME WatchIInv, [W!Next]_W!vars PROVE WatchIInv'
  OBVIOUS
<1> USE DEF WatchIInv, W!TypeOK, ReadTimes, Stamped, W!NoFalseAlarm, W!Never, W!TIMEOUT
<1>1. CASE triggered = {} /\ W!Tick
  BY <1>1 DEF W!Tick
<1>2. ASSUME triggered = {}, NEW t \in Threads, W!Step(t) PROVE WatchIInv'
  <2> USE <1>2
  <2>1. CASE W!Pop(t)
    BY <2>1 DEF W!Pop, W!Goto
  <2>2. CASE W!Wakeup(t)
    BY <2>2 DEF W!Wakeup, W!Goto
  <2>3. CASE W!Audited(t)
    BY <2>3 DEF W!Audited, W!Goto
  <2>4. CASE W!Mark(t)
    BY <2>4 DEF W!Mark, W!Goto
  <2>5. CASE W!StartWatch(t)
    BY <2>5 DEF W!StartWatch, W!Goto
  <2>6. CASE W!Run(t)
    BY <2>6 DEF W!Run, W!Goto
  <2>7. CASE W!CancelWatch(t)
    BY <2>7 DEF W!CancelWatch, W!Goto, W!Overdue
  <2>8. ASSUME NEW u \in Threads, W!Audit(t, u) PROVE WatchIInv'
    BY <2>8 DEF W!Audit, W!Overdue
  <2> QED
    BY <2>1, <2>2, <2>3, <2>4, <2>5, <2>6, <2>7, <2>8 DEF W!Step
<1>3. CASE UNCHANGED W!vars
  BY <1>3 DEF W!vars
<1> QED
  BY <1>1, <1>2, <1>3 DEF W!Next

(* For any threads: the watchdog never triggers for a routine that has taken  *)
(* less than TIMEOUT.                                                         *)
THEOREM NoFalseAlarmHolds == W!Spec => []W!NoFalseAlarm
<1>1. WatchIInv => W!NoFalseAlarm
  BY DEF WatchIInv
<1> QED
  BY <1>1, InitWatchIInv, NextWatchIInv, PTL DEF W!Spec

(* For any threads: a silence of TIMEOUT stops the audits for good, although  *)
(* Wakeup says that it returns when the timeout is not reached.               *)
THEOREM StaysDeadHolds == W!Spec => W!StaysDead
<1>1. ASSUME WatchIInv, W!Silent, W!Next PROVE W!Silent' /\ UNCHANGED last
  <2> USE <1>1 DEF WatchIInv, W!TypeOK, W!Silent, W!TIMEOUT
  <2>1. CASE W!Tick
    BY <2>1 DEF W!Tick
  <2>2. ASSUME NEW t \in Threads, W!Step(t) PROVE W!Silent' /\ UNCHANGED last
    <3>1. CASE W!Wakeup(t)
      BY <3>1 DEF W!Wakeup, W!Goto, W!Timeout
    <3>2. CASE W!Pop(t)
      BY <3>2 DEF W!Pop, W!Goto
    <3>5. CASE W!Mark(t)
      BY <3>5 DEF W!Mark, W!Goto
    <3>3. CASE W!Audited(t) \/ W!StartWatch(t) \/ W!Run(t) \/ W!CancelWatch(t)
      BY <3>3 DEF W!Audited, W!StartWatch, W!Run, W!CancelWatch, W!Goto
    <3>4. CASE \E u \in Threads : W!Audit(t, u)
      BY <3>4 DEF W!Audit
    <3> QED
      BY <2>2, <3>1, <3>2, <3>3, <3>4, <3>5 DEF W!Step
  <2> QED
    BY <2>1, <2>2 DEF W!Next
<1>2. WatchIInv /\ [W!Next]_W!vars => [W!Silent => W!Silent' /\ UNCHANGED last]_W!vars
  BY <1>1
<1> QED
  BY <1>2, InitWatchIInv, NextWatchIInv, PTL DEF W!Spec, W!StaysDead
=============================================================================
