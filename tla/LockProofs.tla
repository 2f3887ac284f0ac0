------------------------------ MODULE LockProofs ------------------------------
(* Proofs about the three ways the code has of letting one thread in at a      *)
(* time: SpinMutex, for any threads and any initial owner_; AsyncLock, for any *)
(* requests; and CompletionQueue, for any number of workers, events and        *)
(* wakeups.  No theorem is about two of them.                                  *)
EXTENDS SpinMutex, AsyncLock, CompletionQueue, SequenceTheorems, TLAPS

\* The threads between a successful compare-and-swap and the store that opens
\* the lock again.
Inside == {t \in Threads : pc[t] \in {"recordOwner"} \cup Unlocking} \cup holds

\* The threads whose name is in owner_.
Recorded == {t \in Threads : pc[t] \in {"unlockIsOwner", "clearOwner"}} \cup holds

\* Where a thread that holds the lock can be, and who can be in "held".
HoldsLocal == \A t \in Threads :
                 /\ t \in holds => pc[t] \in {"held", "lockIsOpen", "lockIsClosed",
                                              "lockIsOwner", "aborted"}
                 /\ pc[t] = "held" => t \in holds

Exclusive == \A s, t \in Inside : s = t

ClosedIffInside == mutex_ = "CLOSED" <=> Inside # {}

OwnerRecorded == \A t \in Recorded : owner_ = t

\* The inductive invariant behind MutualExclusion.
IInv == /\ TypeOK
        /\ HoldsLocal
        /\ Exclusive
        /\ ClosedIffInside
        /\ OwnerRecorded

\* owner_ never names a thread that neither holds the lock nor is about to
\* clear it, and nobody but a holder has been aborted: true only when the
\* uninitialised owner_ is no thread's name.
NoFalseOwner == /\ \A t \in Threads : owner_ = t => t \in Recorded
                /\ OnlyRelockAborts

-----------------------------------------------------------------------------
(* The initial state satisfies the inductive invariant.                       *)
LEMMA InitIInv == Init => IInv
BY DEF Init, IInv, TypeOK, HoldsLocal, Exclusive, ClosedIffInside, OwnerRecorded, Inside,
       Recorded, Locking, Unlocking

(* Every step of SpinMutex preserves it: one step of the proof per action.    *)
LEMMA NextIInv == IInv /\ [Next]_vars => IInv'
<1> SUFFICES ASSUME IInv, [Next]_vars PROVE IInv'
    OBVIOUS
<1> USE DEF IInv, TypeOK, HoldsLocal, Exclusive, ClosedIffInside, OwnerRecorded,
            Inside, Recorded, Locking, Unlocking, Goto
<1>1. ASSUME NEW t \in Threads, CallLock(t) PROVE IInv'
      BY <1>1 DEF CallLock
<1>2. ASSUME NEW t \in Threads, CallUnlock(t) PROVE IInv'
      BY <1>2 DEF CallUnlock
<1>3. ASSUME NEW t \in Threads, LockIsOpen(t) PROVE IInv'
      BY <1>3 DEF LockIsOpen
<1>4. ASSUME NEW t \in Threads, LockIsClosed(t) PROVE IInv'
      BY <1>4 DEF LockIsClosed
<1>5. ASSUME NEW t \in Threads, LockIsOwner(t) PROVE IInv'
      BY <1>5 DEF LockIsOwner
<1>6. ASSUME NEW t \in Threads, TryLock(t) PROVE IInv'
      BY <1>6 DEF TryLock
<1>7. ASSUME NEW t \in Threads, RecordOwner(t) PROVE IInv'
      BY <1>7 DEF RecordOwner
<1>8. ASSUME NEW t \in Threads, UnlockIsOwner(t) PROVE IInv'
      BY <1>8 DEF UnlockIsOwner
<1>9. ASSUME NEW t \in Threads, ClearOwner(t) PROVE IInv'
      BY <1>9 DEF ClearOwner
<1>10. ASSUME NEW t \in Threads, Open(t) PROVE IInv'
      BY <1>10 DEF Open
<1>11. CASE UNCHANGED vars
      BY <1>11 DEF vars
<1> QED
    BY <1>1, <1>2, <1>3, <1>4, <1>5, <1>6, <1>7, <1>8, <1>9, <1>10, <1>11 DEF Next, Step

(* The words of the lock and the position of every thread keep their types.   *)
THEOREM TypeCorrect == Spec => []TypeOK
<1>1. IInv => TypeOK
      BY DEF IInv
<1> QED
    BY <1>1, InitIInv, NextIInv, PTL DEF Spec

(* For any number of threads, and whatever the constructor left in owner_, at *)
(* most one thread is between the return of Lock() and its call of Unlock().  *)
THEOREM MutualExclusionHolds == Spec => []MutualExclusion
<1>1. IInv => MutualExclusion
      BY DEF IInv, Exclusive, Inside, MutualExclusion
<1> QED
    BY <1>1, InitIInv, NextIInv, PTL DEF Spec

(* A thread that calls Lock() on a lock it holds is stopped by the INVARIANT  *)
(* before the loop, for any number of threads.                                *)
THEOREM RelockNeverSpinsHolds == Spec => []RelockNeverSpins
<1>1. IInv => RelockNeverSpins
      BY DEF IInv, TypeOK, HoldsLocal, RelockNeverSpins
<1> QED
    BY <1>1, InitIInv, NextIInv, PTL DEF Spec

-----------------------------------------------------------------------------
(* If the uninitialised owner_ happens to name no thread, it never names one  *)
(* that is neither a holder nor on its way out.                               *)
LEMMA InitNoFalseOwner ==
    ASSUME InitialOwners \cap Threads = {}, Init
    PROVE  NoFalseOwner
BY DEF Init, NoFalseOwner, OnlyRelockAborts

\* ... and no step makes it otherwise.
LEMMA NextNoFalseOwner == IInv /\ NoFalseOwner /\ [Next]_vars => NoFalseOwner'
<1> SUFFICES ASSUME IInv, NoFalseOwner, [Next]_vars PROVE NoFalseOwner'
    OBVIOUS
<1> USE ThreadsAssumption
    DEF IInv, TypeOK, HoldsLocal, Exclusive, ClosedIffInside, OwnerRecorded,
        NoFalseOwner, OnlyRelockAborts, Inside, Recorded, Locking, Unlocking, Goto
<1>1. ASSUME NEW t \in Threads, CallLock(t) PROVE NoFalseOwner'
      BY <1>1 DEF CallLock
<1>2. ASSUME NEW t \in Threads, CallUnlock(t) PROVE NoFalseOwner'
      BY <1>2 DEF CallUnlock
<1>3. ASSUME NEW t \in Threads, LockIsOpen(t) PROVE NoFalseOwner'
      BY <1>3 DEF LockIsOpen
<1>4. ASSUME NEW t \in Threads, LockIsClosed(t) PROVE NoFalseOwner'
      BY <1>4 DEF LockIsClosed
<1>5. ASSUME NEW t \in Threads, LockIsOwner(t) PROVE NoFalseOwner'
      BY <1>5 DEF LockIsOwner
<1>6. ASSUME NEW t \in Threads, TryLock(t) PROVE NoFalseOwner'
      BY <1>6 DEF TryLock
<1>7. ASSUME NEW t \in Threads, RecordOwner(t) PROVE NoFalseOwner'
      BY <1>7 DEF RecordOwner
<1>8. ASSUME NEW t \in Threads, UnlockIsOwner(t) PROVE NoFalseOwner'
      BY <1>8 DEF UnlockIsOwner
<1>9. ASSUME NEW t \in Threads, ClearOwner(t) PROVE NoFalseOwner'
      BY <1>9 DEF ClearOwner
<1>10. ASSUME NEW t \in Threads, Open(t) PROVE NoFalseOwner'
      BY <1>10 DEF Open
<1>11. CASE UNCHANGED vars
      BY <1>11 DEF vars
<1> QED
    BY <1>1, <1>2, <1>3, <1>4, <1>5, <1>6, <1>7, <1>8, <1>9, <1>10, <1>11 DEF Next, Step

(* A correct caller is never aborted, for any number of threads, provided the *)
(* constructor finds in owner_ no thread's name.                              *)
THEOREM OnlyRelockAbortsHolds ==
    ASSUME InitialOwners \cap Threads = {}
    PROVE  Spec => []OnlyRelockAborts
<1>1. NoFalseOwner => OnlyRelockAborts
      BY DEF NoFalseOwner
<1>2. Init => NoFalseOwner
      BY InitNoFalseOwner
<1> QED
    BY <1>1, <1>2, InitIInv, NextIInv, NextNoFalseOwner, PTL DEF Spec

(* Under the same assumption IsOwner() tells holders from the others.         *)
THEOREM OwnerIsHolderHolds ==
    ASSUME InitialOwners \cap Threads = {}
    PROVE  Spec => []OwnerIsHolder
<1>1. IInv /\ NoFalseOwner => OwnerIsHolder
      BY DEF IInv, NoFalseOwner, OwnerIsHolder, IsOwner, OwnerRecorded, Recorded,
             ClosedIffInside, Inside, HoldsLocal, TypeOK
<1>2. Init => NoFalseOwner
      BY InitNoFalseOwner
<1> QED
    BY <1>1, <1>2, InitIInv, NextIInv, NextNoFalseOwner, PTL DEF Spec

-----------------------------------------------------------------------------
(* Every step of SpinMutex is a step of the abstract mutex, or none.          *)
LEMMA StepRefines == IInv /\ IInv' /\ [Next]_vars => [Mutex!Next]_holder
<1> SUFFICES ASSUME IInv, IInv', [Next]_vars PROVE [Mutex!Next]_holder
    OBVIOUS
<1>1. ASSUME NEW t \in Threads, RecordOwner(t) PROVE Mutex!Acquire(t)
  <2>1. holds = {} /\ holds' = {t}
        BY <1>1 DEF RecordOwner, Goto, IInv, Exclusive, Inside, HoldsLocal, TypeOK
  <2> QED
      BY <2>1 DEF Mutex!Acquire, holder
<1>2. ASSUME NEW t \in Threads, CallUnlock(t) PROVE Mutex!Release(t)
  <2>1. holds = {t} /\ holds' = {}
        BY <1>2 DEF CallUnlock, Goto, IInv, Exclusive, Inside, HoldsLocal, TypeOK
  <2> QED
      BY <2>1 DEF Mutex!Release, holder
<1>3. ASSUME holds' = holds PROVE holder' = holder
      BY <1>3 DEF holder
<1>4. ASSUME NEW t \in Threads,
             CallLock(t) \/ LockIsOpen(t) \/ LockIsClosed(t) \/ LockIsOwner(t)
               \/ TryLock(t) \/ UnlockIsOwner(t) \/ ClearOwner(t) \/ Open(t)
      PROVE  holds' = holds
      BY <1>4
         DEF CallLock, LockIsOpen, LockIsClosed, LockIsOwner, TryLock, UnlockIsOwner,
             ClearOwner, Open
<1>5. CASE UNCHANGED vars
      BY <1>3, <1>5 DEF vars
<1> QED
    BY <1>1, <1>2, <1>3, <1>4, <1>5 DEF Next, Step, Mutex!Next

(* SpinMutex implements the abstract mutex, so a caller may treat what it     *)
(* does under the lock as one step.                                           *)
THEOREM MutexImplementedHolds == Spec => MutexImplemented
<1>1. Init => Mutex!Init
      BY DEF Init, Mutex!Init, holder
<1> QED
    BY <1>1, InitIInv, NextIInv, StepRefines, PTL DEF Spec, MutexImplemented, Mutex!Spec
-----------------------------------------------------------------------------
(* The asynchronous lock.                                                     *)

LineIInv == AsyncTypeOK /\ SingleOwner /\ WaitersQueued

-----------------------------------------------------------------------------
(* One owner, and a line of exactly the waiting requests, at the start ...    *)
LEMMA InitLineIInv == AsyncInit => LineIInv
<1> SUFFICES ASSUME AsyncInit PROVE LineIInv
    OBVIOUS
<1>1. waiters \in Seq(Requests) /\ Len(waiters) = 0
      BY EmptySeq DEF AsyncInit
<1>2. AsyncTypeOK
      BY <1>1 DEF AsyncInit, AsyncTypeOK, Owning
<1>3. SingleOwner
      BY DEF AsyncInit, SingleOwner, Owner, Owning
<1>4. WaitersQueued
      BY <1>1 DEF AsyncInit, WaitersQueued, Waiting
<1> QED
    BY <1>2, <1>3, <1>4 DEF LineIInv

(* ... and after every step.                                                  *)
LEMMA NextLineIInv == LineIInv /\ [AsyncNext]_asyncVars => LineIInv'
<1> SUFFICES ASSUME LineIInv, [AsyncNext]_asyncVars PROVE LineIInv'
    OBVIOUS
<1>t. /\ waiters \in Seq(Requests) /\ Len(waiters) \in Nat
      /\ stage \in [Requests -> Owning \cup {"new", "waiting", "done"}]
      BY LenProperties DEF LineIInv, AsyncTypeOK
<1>1. ASSUME NEW r \in Requests, Lock(r) PROVE LineIInv'
  <2>1. CASE isLocked
    <3>1. /\ stage[r] = "new" /\ stage' = [stage EXCEPT ![r] = "waiting"]
          /\ waiters' = Append(waiters, r) /\ isLocked' = isLocked
          BY <1>1, <2>1 DEF Lock, Queue
    <3>2. /\ waiters' \in Seq(Requests) /\ Len(waiters') = Len(waiters) + 1
          /\ \A i \in 1..Len(waiters) : waiters'[i] = waiters[i]
          /\ waiters'[Len(waiters) + 1] = r
          BY <3>1, <1>t, AppendProperties
    <3>3. AsyncTypeOK'
          BY <3>1, <3>2, <1>t DEF AsyncTypeOK, LineIInv, Owning
    <3>4. SingleOwner'
          BY <3>1, <1>t DEF LineIInv, SingleOwner, Owner, Owning
    <3>5. Waiting' = Waiting \cup {r} /\ r \notin Waiting
          BY <3>1, <1>t DEF Waiting
    <3>6. WaitersQueued'
      <4>1. {waiters'[i] : i \in 1..Len(waiters')} = {waiters[i] : i \in 1..Len(waiters)} \cup {r}
            BY <3>2, <1>t
      <4>2. \A i \in 1..Len(waiters) : waiters[i] # r
            BY <3>5 DEF LineIInv, WaitersQueued
      <4>3. ASSUME NEW i \in 1..Len(waiters'), NEW j \in 1..Len(waiters'),
                   waiters'[i] = waiters'[j]
            PROVE  i = j
            BY <4>2, <4>3, <3>2, <1>t DEF LineIInv, WaitersQueued
      <4> QED
          BY <4>1, <4>3, <3>1, <3>5, <2>1 DEF LineIInv, WaitersQueued
    <3> QED
        BY <3>3, <3>4, <3>6 DEF LineIInv
  <2>2. CASE ~isLocked
    <3>1. /\ stage[r] = "new" /\ stage' = [stage EXCEPT ![r] = "waking"]
          /\ waiters' = waiters /\ isLocked' = TRUE
          BY <1>1, <2>2 DEF Lock, TakeLock
    <3>2. \A s \in Requests : Owner(s)' <=> s = r
          BY <3>1, <2>2, <1>t DEF LineIInv, SingleOwner, Owner, Owning
    <3>3. Waiting' = Waiting
          BY <3>1, <1>t DEF Waiting
    <3> QED
        BY <3>1, <3>2, <3>3, <1>t
           DEF LineIInv, AsyncTypeOK, SingleOwner, WaitersQueued, Owning
  <2> QED
      BY <2>1, <2>2
<1>2. ASSUME NEW r \in Requests, WakeCallback(r) \/ RunCallback(r) PROVE LineIInv'
  <2>1. /\ waiters' = waiters /\ isLocked' = isLocked
        /\ \A s \in Requests : Owner(s)' <=> Owner(s)
        /\ stage' \in [Requests -> Owning \cup {"new", "waiting", "done"}]
        BY <1>2, <1>t DEF WakeCallback, RunCallback, Owner, Owning
  <2>2. Waiting' = Waiting
        BY <1>2, <1>t DEF WakeCallback, RunCallback, Waiting
  <2> QED
      BY <2>1, <2>2 DEF LineIInv, AsyncTypeOK, SingleOwner, WaitersQueued
<1>3. ASSUME NEW r \in Requests, Unlock(r) PROVE LineIInv'
  <2>o. \A s \in Requests : Owner(s) <=> s = r
        BY <1>3 DEF LineIInv, SingleOwner, Owner, Owning, Unlock
  <2>1. CASE waiters # <<>>
    <3> DEFINE s == Head(waiters)
    <3>1. /\ s \in Requests /\ s = waiters[1]
          /\ Tail(waiters) \in Seq(Requests)
          /\ Len(waiters) \in Nat \ {0} /\ Len(Tail(waiters)) = Len(waiters) - 1
          /\ \A i \in 1..Len(Tail(waiters)) : Tail(waiters)[i] = waiters[i + 1]
          BY <2>1, <1>t, HeadTailProperties, EmptySeq
    <3>2. /\ stage[r] = "inside" /\ waiters' = Tail(waiters) /\ isLocked' = isLocked
          /\ stage' = [stage EXCEPT ![r] = "done", ![s] = "waking"]
          BY <1>3, <2>1 DEF Unlock, HandOver
    <3>3. stage[s] = "waiting" /\ s # r
          BY <3>1, <3>2 DEF LineIInv, WaitersQueued, Waiting
    <3>4. /\ stage'[s] = "waking" /\ stage'[r] = "done"
          /\ \A v \in Requests \ {r, s} : stage'[v] = stage[v]
          BY <3>1, <3>2, <3>3, <1>t
    <3>5. AsyncTypeOK'
          BY <3>1, <3>2, <1>t DEF LineIInv, AsyncTypeOK, Owning
    <3>6. \A v \in Requests : Owner(v)' <=> v = s
          BY <3>1, <3>4, <2>o DEF Owner, Owning
    <3>7. SingleOwner'
          BY <3>1, <3>2, <3>6, <2>o DEF LineIInv, SingleOwner
    <3>8. Waiting' = Waiting \ {s}
          BY <3>1, <3>2, <3>3, <3>4 DEF Waiting
    <3>9. \A i \in 1..Len(waiters') : waiters'[i] = waiters[i + 1] /\ i + 1 \in 1..Len(waiters)
          BY <3>1, <3>2
    <3>10. {waiters'[i] : i \in 1..Len(waiters')} = {waiters[i] : i \in 1..Len(waiters)} \ {s}
      <4>1. ASSUME NEW i \in 1..Len(waiters), waiters[i] # s
            PROVE  \E j \in 1..Len(waiters') : waiters'[j] = waiters[i]
        <5>1. i - 1 \in 1..Len(waiters') /\ (i - 1) + 1 = i
              BY <4>1, <3>1, <3>2
        <5> QED
            BY <5>1, <3>9
      <4>2. \A i \in 1..Len(waiters') : waiters'[i] # s
            BY <3>1, <3>9 DEF LineIInv, WaitersQueued
      <4>3. \A i \in 1..Len(waiters') :
               \E j \in 1..Len(waiters) : waiters'[i] = waiters[j]
            BY <3>9
      <4> HIDE DEF s
      <4> QED
          BY <4>1, <4>2, <4>3
    <3>11. \A i, j \in 1..Len(waiters') : waiters'[i] = waiters'[j] => i = j
      <4> SUFFICES ASSUME NEW i \in 1..Len(waiters'), NEW j \in 1..Len(waiters'),
                          waiters'[i] = waiters'[j]
                   PROVE  i = j
          OBVIOUS
      <4>1. /\ i + 1 \in 1..Len(waiters) /\ j + 1 \in 1..Len(waiters)
            /\ waiters[i + 1] = waiters[j + 1]
            BY <3>9
      <4>2. i + 1 = j + 1
            BY <4>1 DEF LineIInv, WaitersQueued
      <4> QED
          BY <4>2, <3>1, <3>2
    <3>12. isLocked'
          BY <3>2, <2>o DEF LineIInv, SingleOwner
    <3> QED
        BY <3>5, <3>7, <3>8, <3>10, <3>11, <3>12 DEF LineIInv, WaitersQueued
  <2>2. CASE waiters = <<>>
    <3>1. /\ stage[r] = "inside" /\ stage' = [stage EXCEPT ![r] = "done"]
          /\ isLocked' = FALSE /\ waiters' = waiters
          BY <1>3, <2>2 DEF Unlock
    <3>2. Waiting' = Waiting
          BY <3>1, <1>t DEF Waiting
    <3>3. Waiting = {}
          BY <2>2, EmptySeq DEF LineIInv, WaitersQueued
    <3>4. \A v \in Requests : ~Owner(v)'
          BY <3>1, <2>o, <1>t DEF Owner, Owning
    <3>5. AsyncTypeOK'
          BY <3>1, <1>t DEF LineIInv, AsyncTypeOK, Owning
    <3>6. SingleOwner'
          BY <3>1, <3>4 DEF SingleOwner
    <3>7. WaitersQueued'
      <4>1. /\ {waiters'[i] : i \in 1..Len(waiters')} = {waiters[i] : i \in 1..Len(waiters)}
            /\ \A i, j \in 1..Len(waiters') : waiters'[i] = waiters'[j] => i = j
            BY <3>1 DEF LineIInv, WaitersQueued
      <4> QED
          BY <3>2, <3>3, <4>1 DEF LineIInv, WaitersQueued
    <3> QED
        BY <3>5, <3>6, <3>7 DEF LineIInv
  <2> QED
      BY <2>1, <2>2
<1>4. CASE UNCHANGED asyncVars
  <2>1. waiters' = waiters /\ isLocked' = isLocked /\ stage' = stage
        BY <1>4 DEF asyncVars
  <2>2. Waiting' = Waiting /\ \A r \in Requests : Owner(r)' <=> Owner(r)
        BY <2>1 DEF Waiting, Owner
  <2> QED
      BY <2>1, <2>2 DEF LineIInv, AsyncTypeOK, SingleOwner, WaitersQueued
<1> QED
    BY <1>1, <1>2, <1>3, <1>4 DEF AsyncNext

(* isLocked_, waiters_ and the stages of the requests keep their types.       *)
THEOREM AsyncTypeCorrect == AsyncSpec => []AsyncTypeOK
<1>1. LineIInv => AsyncTypeOK
      BY DEF LineIInv
<1> QED
    BY <1>1, InitLineIInv, NextLineIInv, PTL DEF AsyncSpec

(* For any number of requests: the lock has one owner at a time, and nobody   *)
(* waits for an open lock.                                                    *)
THEOREM OneOwnerHolds == AsyncSpec => []OneOwner
<1>1. LineIInv => OneOwner
      BY DEF LineIInv, OneOwner
<1> QED
    BY <1>1, InitLineIInv, NextLineIInv, PTL DEF AsyncSpec

-----------------------------------------------------------------------------
(* A line that begins with x: what it is without its first element, and how   *)
(* it grows and splits.                                                       *)
LEMMA LineProperties ==
    ASSUME NEW S, NEW x \in S, NEW s \in Seq(S)
    PROVE  /\ <<x>> \o s \in Seq(S)
           /\ <<x>> \o s # <<>>
           /\ Tail(<<x>> \o s) = s
           /\ \A e \in S : <<x>> \o Append(s, e) = Append(<<x>> \o s, e)
           /\ s # <<>> => <<Head(s)>> \o Tail(s) = s
<1>1. <<x>> \in Seq(S) /\ Len(<<x>>) = 1 /\ <<x>>[1] = x
      OBVIOUS
<1>2. /\ <<x>> \o s \in Seq(S) /\ Len(<<x>> \o s) = 1 + Len(s)
      /\ \A i \in 1..1 + Len(s) : (<<x>> \o s)[i] = IF i <= 1 THEN <<x>>[i] ELSE s[i - 1]
      BY <1>1, ConcatProperties
<1>3. Len(s) \in Nat
      BY LenProperties
<1>4. <<x>> \o s # <<>>
      BY <1>2, <1>3, EmptySeq
<1>5. Tail(<<x>> \o s) = s
  <2>1. /\ Tail(<<x>> \o s) \in Seq(S) /\ Len(Tail(<<x>> \o s)) = Len(s)
        /\ \A i \in 1..Len(s) : Tail(<<x>> \o s)[i] = (<<x>> \o s)[i + 1]
        BY <1>2, <1>3, <1>4, HeadTailProperties
  <2>2. \A i \in 1..Len(s) : Tail(<<x>> \o s)[i] = s[i]
        BY <2>1, <1>2, <1>3
  <2> QED
      BY <2>1, <2>2, SeqEqual
<1>6. ASSUME NEW e \in S PROVE <<x>> \o Append(s, e) = Append(<<x>> \o s, e)
  <2>1. Append(s, e) = s \o <<e>> /\ Append(<<x>> \o s, e) = (<<x>> \o s) \o <<e>>
        BY <1>2, AppendIsConcat
  <2>2. <<e>> \in Seq(S)
        OBVIOUS
  <2> QED
      BY <1>1, <2>1, <2>2, ConcatAssociative
<1>7. ASSUME s # <<>> PROVE <<Head(s)>> \o Tail(s) = s
  <2> DEFINE l == <<Head(s)>> \o Tail(s)
  <2>1. /\ Head(s) \in S /\ Head(s) = s[1] /\ Tail(s) \in Seq(S)
        /\ Len(s) \in Nat \ {0} /\ Len(Tail(s)) = Len(s) - 1
        /\ \A i \in 1..Len(Tail(s)) : Tail(s)[i] = s[i + 1]
        BY <1>7, HeadTailProperties, EmptySeq
  <2>2. <<Head(s)>> \in Seq(S) /\ Len(<<Head(s)>>) = 1 /\ <<Head(s)>>[1] = s[1]
        BY <2>1
  <2>3. /\ l \in Seq(S) /\ Len(l) = 1 + (Len(s) - 1)
        /\ \A i \in 1..1 + (Len(s) - 1) :
              l[i] = IF i <= 1 THEN <<Head(s)>>[i] ELSE Tail(s)[i - 1]
        BY <2>1, <2>2, ConcatProperties
  <2>4. Len(l) = Len(s) /\ \A i \in 1..Len(l) : l[i] = s[i]
        BY <2>1, <2>2, <2>3
  <2> QED
      BY <2>3, <2>4, SeqEqual
<1> QED
    BY <1>2, <1>4, <1>5, <1>6, <1>7

(* The line of the abstract lock, with and without an owner.                  *)
LEMMA LineIs ==
    /\ \A r \in Requests : (\A s \in Requests : Owner(s) <=> s = r)
                              => line = <<r>> \o waiters
    /\ (\A s \in Requests : ~Owner(s)) => line = waiters
BY DEF line

(* Every step of the lock is a step of FifoLock, or none.                     *)
LEMMA FifoStepRefines == LineIInv /\ LineIInv' /\ [AsyncNext]_asyncVars => [Fifo!Next]_(Fifo!vars)
<1> SUFFICES ASSUME LineIInv, LineIInv', [AsyncNext]_asyncVars PROVE [Fifo!Next]_(Fifo!vars)
    OBVIOUS
<1> USE DEF Fifo!vars
<1>t. /\ waiters \in Seq(Requests)
      /\ stage \in [Requests -> Owning \cup {"new", "waiting", "done"}]
      BY DEF LineIInv, AsyncTypeOK
<1>i. \A r \in Requests : stage[r] = "inside" => \A s \in Requests : Owner(s) <=> s = r
      BY DEF LineIInv, SingleOwner, Owner, Owning
<1>l. /\ \A r \in Requests : (\A s \in Requests : Owner(s)' <=> s = r)
                                => line' = <<r>> \o waiters'
      /\ (\A s \in Requests : ~Owner(s)') => line' = waiters'
      BY DEF line
<1>1. ASSUME NEW r \in Requests, Lock(r) PROVE Fifo!Arrive(r)
  <2>0. served' = served
        BY <1>1, <1>t DEF served, Lock, Queue, TakeLock
  <2>1. CASE isLocked
    <3>1. PICK o \in Requests : \A s \in Requests : Owner(s) <=> s = o
          BY <2>1 DEF LineIInv, SingleOwner
    <3>2. waiters' = Append(waiters, r) /\ \A s \in Requests : Owner(s)' <=> s = o
          BY <1>1, <2>1, <3>1, <1>t DEF Lock, Queue, Owner, Owning
    <3>3. line = <<o>> \o waiters /\ line' = <<o>> \o waiters'
          BY <3>1, <3>2, <1>l, LineIs
    <3> QED
        BY <2>0, <3>2, <3>3, <1>t, LineProperties DEF Fifo!Arrive
  <2>2. CASE ~isLocked
    <3>1. \A s \in Requests : ~Owner(s)
          BY <2>2 DEF LineIInv, SingleOwner
    <3>2. waiters = <<>>
      <4>1. Len(waiters) \in Nat /\ {waiters[i] : i \in 1..Len(waiters)} = {}
            BY <2>2, <1>t, LenProperties DEF LineIInv, WaitersQueued
      <4>2. ASSUME waiters # <<>> PROVE FALSE
        <5>1. Len(waiters) \in Nat \ {0}
              BY <4>2, <1>t, EmptySeq
        <5>2. 1 \in 1..Len(waiters)
              BY <5>1
        <5> QED
            BY <4>1, <5>2
      <4> QED
          BY <4>2
    <3>3. waiters' = <<>> /\ \A s \in Requests : Owner(s)' <=> s = r
          BY <1>1, <2>2, <3>1, <3>2, <1>t DEF Lock, TakeLock, Owner, Owning
    <3>4. line = <<>> /\ line' = <<r>> \o <<>>
          BY <3>1, <3>2, <3>3, <1>l, LineIs
    <3>5. <<r>> \o <<>> = Append(<<>>, r)
          BY ConcatEmptySeq, <<r>> \in Seq(Requests)
    <3> QED
        BY <2>0, <3>4, <3>5 DEF Fifo!Arrive
  <2> QED
      BY <2>1, <2>2
<1>2. ASSUME NEW r \in Requests, WakeCallback(r) PROVE UNCHANGED Fifo!vars
  <2>1. served' = served
        BY <1>2, <1>t DEF served, WakeCallback
  <2>2. waiters' = waiters /\ \A s \in Requests : Owner(s)' <=> Owner(s)
        BY <1>2, <1>t DEF WakeCallback, Owner, Owning
  <2>3. \A s \in Requests : Owner(s) <=> s = r
        BY <1>2 DEF LineIInv, SingleOwner, Owner, Owning, WakeCallback
  <2> QED
      BY <2>1, <2>2, <2>3, <1>l, LineIs
<1>3. ASSUME NEW r \in Requests, RunCallback(r) PROVE Fifo!Serve
  <2>1. \A s \in Requests : Owner(s) <=> s = r
        BY <1>3 DEF LineIInv, SingleOwner, Owner, Owning, RunCallback
  <2>2. waiters' = waiters /\ \A s \in Requests : Owner(s)' <=> s = r
        BY <1>3, <2>1, <1>t DEF RunCallback, Owner, Owning
  <2>3. line = <<r>> \o waiters /\ line' = line
        BY <2>1, <2>2, <1>l, LineIs
  <2>4. ~served /\ served'
        BY <1>3, <1>t, <1>i, <2>1 DEF served, RunCallback
  <2>5. served' = TRUE
        BY <2>4 DEF served
  <2> QED
      BY <2>3, <2>4, <2>5, <1>t, LineProperties DEF Fifo!Serve
<1>4. ASSUME NEW r \in Requests, Unlock(r) PROVE Fifo!Leave
  <2>1. stage[r] = "inside" /\ \A s \in Requests : Owner(s) <=> s = r
        BY <1>4, <1>i DEF Unlock
  <2>2. line = <<r>> \o waiters
        BY <2>1, LineIs
  <2>3. served
        BY <2>1 DEF served
  <2>4. CASE waiters # <<>>
    <3> DEFINE s == Head(waiters)
    <3>1. s \in Requests /\ stage[s] = "waiting" /\ s # r
      <4>1. s \in Requests /\ s = waiters[1] /\ 1 \in 1..Len(waiters)
            BY <2>4, <1>t, HeadTailProperties, EmptySeq
      <4> QED
          BY <4>1, <2>1 DEF LineIInv, WaitersQueued, Waiting
    <3>2. /\ waiters' = Tail(waiters)
          /\ stage' = [stage EXCEPT ![r] = "done", ![s] = "waking"]
          BY <1>4, <2>4 DEF Unlock, HandOver
    <3> HIDE DEF s
    <3>3. /\ stage'[s] = "waking" /\ stage'[r] = "done"
          /\ \A v \in Requests \ {r, s} : stage'[v] = stage[v]
          BY <3>1, <3>2, <1>t
    <3>4. \A v \in Requests : Owner(v)' <=> v = s
          BY <3>1, <3>3, <2>1 DEF Owner, Owning
    <3>5. \A v \in Requests : stage'[v] # "inside"
          BY <3>1, <3>3, <2>1 DEF Owner, Owning
    <3>6. served' = FALSE
          BY <3>5 DEF served
    <3>7. line' = <<s>> \o Tail(waiters)
          BY <3>1, <3>2, <3>4, <1>l
    <3>8. line' = waiters
          BY <3>1, <3>7, <2>4, <1>t, LineProperties DEF s
    <3> QED
        BY <2>2, <2>3, <3>6, <3>8, <1>t, LineProperties DEF Fifo!Leave
  <2>5. CASE waiters = <<>>
    <3>1. waiters' = waiters /\ stage' = [stage EXCEPT ![r] = "done"]
          BY <1>4, <2>5 DEF Unlock
    <3>2. \A v \in Requests : ~Owner(v)' /\ stage'[v] # "inside"
          BY <3>1, <2>1, <1>t DEF Owner, Owning
    <3>3. served' = FALSE
          BY <3>2 DEF served
    <3>4. line' = waiters
          BY <3>1, <3>2, <1>l
    <3> QED
        BY <2>2, <2>3, <3>3, <3>4, <1>t, LineProperties DEF Fifo!Leave
  <2> QED
      BY <2>4, <2>5
<1>5. CASE UNCHANGED asyncVars
  <2>1. waiters' = waiters /\ stage' = stage
        BY <1>5 DEF asyncVars
  <2>2. line' = line
        BY <2>1 DEF line, Owner
  <2>3. served' = served
        BY <2>1 DEF served
  <2> QED
      BY <2>2, <2>3
<1> QED
    BY <1>1, <1>2, <1>3, <1>4, <1>5 DEF AsyncNext, Fifo!Next

(* For any number of requests the lock serves them one at a time, in the      *)
(* order of their Lock calls.                                                 *)
THEOREM FifoImplementedHolds == AsyncSpec => FifoImplemented
<1>1. AsyncInit => Fifo!Init
  <2> SUFFICES ASSUME AsyncInit PROVE Fifo!Init
      OBVIOUS
  <2>1. \A r \in Requests : ~Owner(r) /\ stage[r] # "inside"
        BY DEF AsyncInit, Owner, Owning
  <2>2. line = <<>>
        BY <2>1 DEF line, AsyncInit
  <2>3. served = FALSE
        BY <2>1 DEF served
  <2> QED
      BY <2>2, <2>3 DEF Fifo!Init
<1> QED
    BY <1>1, InitLineIInv, NextLineIInv, FifoStepRefines, PTL
       DEF AsyncSpec, FifoImplemented, Fifo!Spec
-----------------------------------------------------------------------------
(* The completion queue.                                                      *)

\* Only a thread in the loop has a batch, and the handler runs for its head.
BatchLocal == \A w \in Workers :
                 /\ at[w] \in {"idle", "take"} => batch[w] = <<>>
                 /\ at[w] = "handler" => batch[w] # <<>>

\* The events w has taken and not yet handed to the handler.
Rest(w) == IF at[w] = "handler" THEN Tail(batch[w]) ELSE batch[w]

\* What the clients posted is what was delivered, then the rest of the one batch
\* there can be, then the queue.
InOrder ==
    /\ (\A w \in Workers : batch[w] = <<>>) => posted = delivered \o q
    /\ \A w \in Workers : batch[w] # <<>> => posted = (delivered \o Rest(w)) \o q

BatchIInv == CompletionTypeOK /\ SingleProcessor /\ NothingLeftBehind /\ BatchLocal

-----------------------------------------------------------------------------
(* The flag, the routines and the threads agree at the start ...              *)
LEMMA InitBatchIInv == CompletionInit => BatchIInv
<1> SUFFICES ASSUME CompletionInit PROVE BatchIInv
    OBVIOUS
<1>1. CompletionTypeOK
      BY EmptySeq DEF CompletionInit, CompletionTypeOK
<1>2. SingleProcessor
      BY DEF CompletionInit, SingleProcessor, Processes
<1> QED
    BY <1>1, <1>2 DEF CompletionInit, BatchIInv, NothingLeftBehind, BatchLocal

(* ... and after every step.                                                  *)
LEMMA NextBatchIInv == BatchIInv /\ [CompletionNext]_completionVars => BatchIInv'
<1> SUFFICES ASSUME BatchIInv, [CompletionNext]_completionVars PROVE BatchIInv'
    OBVIOUS
<1> USE DEF BatchIInv, CompletionTypeOK, SingleProcessor, Processes, NothingLeftBehind, BatchLocal
<1>1. ASSUME NEW e \in Events, Wakeup(e) PROVE BatchIInv'
  <2>1. CASE inprogress
        BY <1>1, <2>1 DEF Wakeup, Post
  <2>2. CASE ~inprogress
    <3>1. PICK w \in Workers : Enqueue(w)
          BY <1>1, <2>2 DEF Wakeup
    <3>2. \A v \in Workers : routines[v] = 0 /\ at[v] = "idle"
          BY <2>2
    <3>3. /\ routines' \in [Workers -> Nat]
          /\ \A v \in Workers : routines'[v] = IF v = w THEN 1 ELSE 0
          BY <3>1, <3>2 DEF Enqueue
    <3>4. inprogress' = TRUE /\ at' = at /\ batch' = batch
          BY <1>1, <2>2 DEF Wakeup, Post
    <3>5. CompletionTypeOK'
          BY <1>1, <3>3, <3>4 DEF Wakeup, Post
    <3>6. SingleProcessor'
      <4>1. \A v \in Workers : Processes(v)' <=> v = w
            BY <3>2, <3>3, <3>4
      <4> QED
          BY <3>2, <3>3, <3>4, <4>1
    <3> QED
        BY <3>4, <3>5, <3>6
  <2> QED
      BY <2>1, <2>2
<1>2. ASSUME NEW w \in Workers, Run(w) PROVE BatchIInv'
      BY <1>2 DEF Run
<1>3. ASSUME NEW w \in Workers, Take(w) PROVE BatchIInv'
  <2>1. CompletionTypeOK'
        BY <1>3, EmptySeq DEF Take, TakeAll
  <2>2. \A v \in Workers : routines[v] = 0 /\ (v # w => at[v] = "idle")
        BY <1>3 DEF Take, TakeAll
  <2>3. SingleProcessor' /\ NothingLeftBehind'
    <3>1. CASE q = <<>>
      <4>1. inprogress' = FALSE /\ q' = <<>>
            BY <1>3, <3>1 DEF Take, TakeAll
      <4>2. \A v \in Workers : routines'[v] = 0 /\ at'[v] = "idle"
            BY <1>3, <2>2, <3>1 DEF Take, TakeAll
      <4> QED
          BY <4>1, <4>2
    <3>2. CASE q # <<>>
          BY <1>3, <2>1, <2>2, <3>2 DEF Take, TakeAll
    <3> QED
        BY <3>1, <3>2
  <2>4. BatchLocal'
        BY <1>3 DEF Take, TakeAll
  <2> QED
      BY <2>1, <2>3, <2>4
<1>4. ASSUME NEW w \in Workers, CallHandler(w) PROVE BatchIInv'
      BY <1>4 DEF CallHandler
<1>5. ASSUME NEW w \in Workers, HandlerReturns(w) PROVE BatchIInv'
      BY <1>5 DEF HandlerReturns
<1>6. ASSUME NEW w \in Workers, Yield(w) PROVE BatchIInv'
      BY <1>6 DEF Yield, Enqueue
<1>7. CASE UNCHANGED completionVars
      BY <1>7 DEF completionVars
<1> QED
    BY <1>1, <1>2, <1>3, <1>4, <1>5, <1>6, <1>7 DEF CompletionNext, PoolStep

(* For any pool and any number of Wakeups, inprogress_ stands for exactly one *)
(* ProcessEvents, and a queue nobody processes is empty.                      *)
THEOREM OneProcessorHolds == CompletionSpec => []OneProcessor
<1>1. BatchIInv => OneProcessor
      BY DEF BatchIInv, OneProcessor
<1> QED
    BY <1>1, InitBatchIInv, NextBatchIInv, PTL DEF CompletionSpec

\* Every variable of the completion queue keeps its type, for every number of
\* workers, events and wakeups.
THEOREM CompletionTypeCorrect == CompletionSpec => []CompletionTypeOK
<1>1. BatchIInv => CompletionTypeOK
      BY DEF BatchIInv
<1> QED
    BY <1>1, InitBatchIInv, NextBatchIInv, PTL DEF CompletionSpec

-----------------------------------------------------------------------------
(* Moving the head of b to the end of a leaves a \o b as it is, and names the *)
(* next element of a longer sequence that begins with a \o b.                 *)
LEMMA MoveHead ==
    ASSUME NEW S, NEW a \in Seq(S), NEW b \in Seq(S), NEW c \in Seq(S), b # <<>>
    PROVE  /\ Append(a, Head(b)) \o Tail(b) = a \o b
           /\ Len(a) < Len((a \o b) \o c)
           /\ ((a \o b) \o c)[Len(a) + 1] = Head(b)
<1>1. /\ Head(b) \in S /\ Tail(b) \in Seq(S) /\ Len(Tail(b)) = Len(b) - 1
      /\ Len(b) \in Nat \ {0} /\ Head(b) = b[1]
      /\ \A i \in 1..Len(Tail(b)) : Tail(b)[i] = b[i + 1]
      BY HeadTailProperties, EmptySeq, LenProperties
<1>2. /\ Append(a, Head(b)) \in Seq(S) /\ Len(Append(a, Head(b))) = Len(a) + 1
      /\ \A i \in 1..Len(a) : Append(a, Head(b))[i] = a[i]
      /\ Append(a, Head(b))[Len(a) + 1] = b[1]
      BY <1>1, AppendProperties
<1>3. /\ a \o b \in Seq(S) /\ Len(a \o b) = Len(a) + Len(b)
      /\ \A i \in 1..Len(a) + Len(b) :
            (a \o b)[i] = IF i <= Len(a) THEN a[i] ELSE b[i - Len(a)]
      BY ConcatProperties
<1>4. Append(a, Head(b)) \o Tail(b) = a \o b
  <2> DEFINE l == Append(a, Head(b)) \o Tail(b)
  <2>1. /\ l \in Seq(S) /\ Len(l) = (Len(a) + 1) + (Len(b) - 1)
        /\ \A i \in 1..(Len(a) + 1) + (Len(b) - 1) :
              l[i] = IF i <= Len(a) + 1 THEN Append(a, Head(b))[i]
                                        ELSE Tail(b)[i - (Len(a) + 1)]
        BY <1>1, <1>2, ConcatProperties
  <2>2. Len(a) \in Nat
        BY LenProperties
  <2>3. Len(l) = Len(a \o b)
        BY <2>1, <2>2, <1>1, <1>3
  <2>4. \A i \in 1..Len(l) : l[i] = (a \o b)[i]
        BY <2>1, <2>2, <1>1, <1>2, <1>3
  <2> QED
      BY <2>1, <2>3, <2>4, <1>3, SeqEqual
<1>5. /\ Len((a \o b) \o c) = Len(a) + Len(b) + Len(c)
      /\ \A i \in 1..Len(a \o b) + Len(c) :
            ((a \o b) \o c)[i] = IF i <= Len(a \o b) THEN (a \o b)[i]
                                                     ELSE c[i - Len(a \o b)]
      BY <1>3, ConcatProperties
<1>6. Len(a) \in Nat /\ Len(c) \in Nat
      BY LenProperties
<1> QED
    BY <1>1, <1>3, <1>4, <1>5, <1>6

(* Appending to the right operand appends to a concatenation.                 *)
LEMMA ConcatAppend ==
    ASSUME NEW S, NEW a \in Seq(S), NEW b \in Seq(S), NEW e \in S
    PROVE  a \o Append(b, e) = Append(a \o b, e)
<1>1. <<e>> \in Seq(S)
      OBVIOUS
<1>2. a \o b \in Seq(S)
      BY ConcatProperties
<1>3. Append(b, e) = b \o <<e>> /\ Append(a \o b, e) = (a \o b) \o <<e>>
      BY <1>2, AppendIsConcat
<1> QED
    BY <1>1, <1>3, ConcatAssociative

-----------------------------------------------------------------------------
(* The order of the events is kept from Wakeup to the handler.                *)
LEMMA InitInOrder == CompletionInit => InOrder
BY EmptySeq, ConcatEmptySeq DEF CompletionInit, InOrder

\* No step loses the order.
LEMMA NextInOrder == BatchIInv /\ BatchIInv' /\ InOrder /\ [CompletionNext]_completionVars => InOrder'
<1> SUFFICES ASSUME BatchIInv, BatchIInv', InOrder, [CompletionNext]_completionVars PROVE InOrder'
    OBVIOUS
<1>t. /\ q \in Seq(Events) /\ delivered \in Seq(Events) /\ posted \in Seq(Events)
      /\ batch \in [Workers -> Seq(Events)]
      /\ at \in [Workers -> {"idle", "take", "loop", "handler"}]
      /\ \A v \in Workers : Rest(v) \in Seq(Events)
      BY HeadTailProperties DEF BatchIInv, CompletionTypeOK, BatchLocal, Rest
<1>o. \A v, w \in Workers : v # w /\ at[w] # "idle" => at[v] = "idle" /\ batch[v] = <<>>
      BY DEF BatchIInv, SingleProcessor, Processes, BatchLocal, CompletionTypeOK
<1>c. \A d, r \in Seq(Events) : d \o r \in Seq(Events)
      BY ConcatProperties
<1>1. ASSUME NEW e \in Events, Wakeup(e) PROVE InOrder'
  <2>1. /\ posted' = Append(posted, e) /\ q' = Append(q, e)
        /\ delivered' = delivered /\ batch' = batch /\ at' = at
        BY <1>1 DEF Wakeup, Post
  <2>2. \A v \in Workers : Rest(v)' = Rest(v)
        BY <2>1 DEF Rest
  <2>3. delivered \o q' = Append(delivered \o q, e)
        BY <1>t, <2>1, ConcatAppend
  <2>4. \A v \in Workers : (delivered \o Rest(v)) \o q'
                             = Append((delivered \o Rest(v)) \o q, e)
    <3> TAKE v \in Workers
    <3>1. delivered \o Rest(v) \in Seq(Events)
          BY <1>t, <1>c
    <3>2. (delivered \o Rest(v)) \o Append(q, e) = Append((delivered \o Rest(v)) \o q, e)
          BY <1>t, <3>1, ConcatAppend
    <3> QED
        BY <2>1, <3>2
  <2> QED
      BY <2>1, <2>2, <2>3, <2>4 DEF InOrder
<1>2. ASSUME NEW w \in Workers, Run(w) PROVE InOrder'
      BY <1>2, <1>t DEF Run, InOrder, Rest
<1>3. ASSUME NEW w \in Workers, Take(w) PROVE InOrder'
  <2>1. /\ at[w] = "take" /\ batch' = [batch EXCEPT ![w] = q] /\ q' = <<>>
        /\ at' = [at EXCEPT ![w] = IF q = <<>> THEN "idle" ELSE "loop"]
        /\ posted' = posted /\ delivered' = delivered
        BY <1>3 DEF Take, TakeAll
  <2>2. \A v \in Workers : batch[v] = <<>>
        BY <2>1, <1>o DEF BatchIInv, BatchLocal
  <2>3. posted = delivered \o q
        BY <2>2 DEF InOrder
  <2>4. (delivered \o q) \o <<>> = delivered \o q
        BY <1>t, <1>c, ConcatEmptySeq
  <2>5. CASE q = <<>>
        BY <2>1, <2>2, <2>3, <2>5, <1>t DEF InOrder
  <2>6. CASE q # <<>>
    <3>1. Rest(w)' = q /\ \A v \in Workers \ {w} : batch'[v] = <<>>
          BY <2>1, <2>2, <2>6, <1>t DEF Rest
    <3>2. batch'[w] = q
          BY <2>1, <1>t
    <3> QED
        BY <2>1, <2>3, <2>4, <2>6, <3>1, <3>2 DEF InOrder
  <2> QED
      BY <2>5, <2>6
<1>4. ASSUME NEW w \in Workers, CallHandler(w) PROVE InOrder'
  <2>1. /\ at[w] = "loop" /\ batch[w] # <<>>
        /\ delivered' = Append(delivered, Head(batch[w]))
        /\ at' = [at EXCEPT ![w] = "handler"]
        /\ batch' = batch /\ posted' = posted /\ q' = q
        BY <1>4 DEF CallHandler
  <2>2. posted = (delivered \o batch[w]) \o q
        BY <2>1 DEF InOrder, Rest
  <2>3. Rest(w)' = Tail(batch[w])
        BY <2>1, <1>t DEF Rest
  <2>4. delivered' \o Tail(batch[w]) = delivered \o batch[w]
    <3>1. delivered \in Seq(Events) /\ batch[w] \in Seq(Events)
          BY <1>t
    <3>2. Append(delivered, Head(batch[w])) \o Tail(batch[w]) = delivered \o batch[w]
          BY <2>1, <3>1, MoveHead
    <3> QED
        BY <2>1, <3>2
  <2>5. \A v \in Workers \ {w} : batch'[v] = <<>>
        BY <2>1, <1>o
  <2> QED
      BY <2>1, <2>2, <2>3, <2>4, <2>5 DEF InOrder
<1>5. ASSUME NEW w \in Workers, HandlerReturns(w) PROVE InOrder'
  <2>1. /\ at[w] = "handler" /\ batch' = [batch EXCEPT ![w] = Tail(batch[w])]
        /\ at' = [at EXCEPT ![w] = "loop"]
        /\ delivered' = delivered /\ posted' = posted /\ q' = q
        BY <1>5 DEF HandlerReturns
  <2>2. batch[w] # <<>>
        BY <2>1 DEF BatchIInv, BatchLocal
  <2>3. posted = (delivered \o Tail(batch[w])) \o q
        BY <2>1, <2>2 DEF InOrder, Rest
  <2>4. /\ batch'[w] = Tail(batch[w]) /\ Rest(w)' = Tail(batch[w])
        /\ \A v \in Workers \ {w} : batch'[v] = <<>>
        BY <2>1, <1>o, <1>t DEF Rest
  <2>5. delivered \o <<>> = delivered
        BY <1>t, ConcatEmptySeq
  <2> QED
      BY <2>1, <2>3, <2>4, <2>5 DEF InOrder
<1>6. ASSUME NEW w \in Workers, Yield(w) PROVE InOrder'
      BY <1>6, <1>t DEF Yield, InOrder, Rest
<1>7. CASE UNCHANGED completionVars
      BY <1>7 DEF completionVars, InOrder, Rest
<1> QED
    BY <1>1, <1>2, <1>3, <1>4, <1>5, <1>6, <1>7 DEF CompletionNext, PoolStep

(* Every step of the queue is a step of OrderedDelivery, or none.             *)
LEMMA DeliveryStepRefines ==
    BatchIInv /\ BatchIInv' /\ InOrder /\ [CompletionNext]_completionVars => [Delivery!Next]_(Delivery!vars)
<1> SUFFICES ASSUME BatchIInv, BatchIInv', InOrder, [CompletionNext]_completionVars
             PROVE  [Delivery!Next]_(Delivery!vars)
    OBVIOUS
<1> USE DEF Delivery!vars
<1>o. \A v, w \in Workers : v # w /\ at[w] # "idle" => at[v] = "idle"
      BY DEF BatchIInv, SingleProcessor, Processes
<1>t. at \in [Workers -> {"idle", "take", "loop", "handler"}]
      BY DEF BatchIInv, CompletionTypeOK
<1>1. ASSUME NEW e \in Events, Wakeup(e) PROVE Delivery!Post(e)
      BY <1>1 DEF Wakeup, Post, Delivery!Post, handling
<1>2. ASSUME NEW w \in Workers, CallHandler(w) PROVE Delivery!CallHandler
  <2>1. /\ at[w] = "loop" /\ batch[w] # <<>>
        /\ delivered' = Append(delivered, Head(batch[w]))
        /\ at' = [at EXCEPT ![w] = "handler"] /\ posted' = posted
        BY <1>2 DEF CallHandler
  <2>2. posted = (delivered \o batch[w]) \o q
        BY <2>1 DEF InOrder, Rest
  <2>3. Len(delivered) < Len(posted) /\ posted[Len(delivered) + 1] = Head(batch[w])
    <3>1. q \in Seq(Events) /\ delivered \in Seq(Events) /\ batch[w] \in Seq(Events)
          BY DEF BatchIInv, CompletionTypeOK
    <3> QED
        BY <3>1, <2>1, <2>2, MoveHead
  <2>4. ~handling /\ handling'
        BY <2>1, <1>o, <1>t DEF handling
  <2>5. handling' = TRUE
        BY <2>4 DEF handling
  <2> QED
      BY <2>1, <2>3, <2>4, <2>5 DEF Delivery!CallHandler
<1>3. ASSUME NEW w \in Workers, HandlerReturns(w) PROVE Delivery!HandlerReturns
  <2>1. handling /\ ~handling'
        BY <1>3, <1>o, <1>t DEF handling, HandlerReturns
  <2>2. handling' = FALSE
        BY <2>1 DEF handling
  <2> QED
      BY <1>3, <2>1, <2>2 DEF Delivery!HandlerReturns, HandlerReturns
<1>4. ASSUME NEW w \in Workers, Run(w) \/ Take(w) \/ Yield(w)
      PROVE  UNCHANGED Delivery!vars
  <2>1. handling' <=> handling
        BY <1>4, <1>t DEF handling, Run, Take, TakeAll, Yield
  <2>2. handling' = handling
        BY <2>1 DEF handling
  <2> QED
      BY <1>4, <2>2 DEF Run, Take, TakeAll, Yield
<1>5. CASE UNCHANGED completionVars
      BY <1>5 DEF completionVars, handling
<1> QED
    BY <1>1, <1>2, <1>3, <1>4, <1>5 DEF CompletionNext, PoolStep, Delivery!Next

(* For any pool, the handler is called exactly once per Wakeup, in the order  *)
(* of the Wakeups, and one call at a time.                                    *)
THEOREM DeliveryImplementedHolds == CompletionSpec => DeliveryImplemented
<1>1. CompletionInit => Delivery!Init
  <2>1. CompletionInit => handling = FALSE
        BY DEF CompletionInit, handling
  <2> QED
      BY <2>1 DEF CompletionInit, Delivery!Init
<1> QED
    BY <1>1, InitBatchIInv, NextBatchIInv, InitInOrder, NextInOrder, DeliveryStepRefines,
       PTL
       DEF CompletionSpec, DeliveryImplemented, Delivery!Spec
=============================================================================
