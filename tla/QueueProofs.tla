----------------------------- MODULE QueueProofs -----------------------------
(* Proofs about the intrusive list InList and the two that rely on it: InQueue, *)
(* for any number of elements, producers and consumers, and Aio, for any number *)
(* of operations and threads.                                                   *)
EXTENDS InQueue, Aio, FiniteSetTheorems, SequenceTheorems, WellFoundedInduction, TLAPS

-----------------------------------------------------------------------------
(* The list.                                                                  *)
In(s) == {s[i] : i \in 1..Len(s)}

\* The pointers form the sequence s, oldest element first: tail_ is its first
\* element, prev_ leads to the next one.
Distinct(s) == \A i, j \in 1..Len(s) : s[i] = s[j] => i = j
Ends(s) == /\ tail = IF Len(s) = 0 THEN Null ELSE s[1]
           /\ head = IF Len(s) = 0 THEN Null ELSE s[Len(s)]
Links(s) == /\ next \in [Elements -> Elements \cup {Null}]
            /\ prev \in [Elements -> Elements \cup {Null}]
            /\ \A i \in 1..Len(s) : /\ prev[s[i]] = IF i = Len(s) THEN Null ELSE s[i + 1]
                                    /\ next[s[i]] = IF i = 1 THEN Null ELSE s[i - 1]
            /\ \A t \in Elements \ In(s) : next[t] = Null /\ prev[t] = Null
Reads(s) == s \in Seq(Elements) /\ Distinct(s) /\ Ends(s) /\ Links(s)

\* Induction up to n: from the least number that is not in S comes one that is
\* smaller.
LEMMA InductionTo ==
    ASSUME NEW S, NEW n \in Nat, 0 \in S, \A i \in 0..n - 1 : i \in S => i + 1 \in S
    PROVE  0..n \subseteq S
<1> SUFFICES ASSUME NEW m \in 0..n, m \notin S PROVE FALSE
    OBVIOUS
<1> DEFINE T == {U \in SUBSET (0..m) : \E k \in Nat : k \notin S /\ U = 0..k}
<1>1. IsFiniteSet(0..m)
      BY FS_Interval
<1>2. T \subseteq FiniteSubsetsOf(0..m)
      BY <1>1, FS_Subset DEF FiniteSubsetsOf
<1>3. 0..m \in T
      OBVIOUS
<1>4. PICK U \in T : \A V \in T : ~(<<V, U>> \in StrictSubsetOrdering(0..m))
  <2>1. IsWellFoundedOn(StrictSubsetOrdering(0..m), FiniteSubsetsOf(0..m))
        BY <1>1, FS_StrictSubsetOrderingWellFounded
  <2> HIDE DEF T
  <2> QED
      BY <2>1, <1>2, <1>3, WFMin
<1>5. PICK k \in Nat : k \notin S /\ U = 0..k
      OBVIOUS
<1>6. k \in 0..m
  <2>1. k \in U /\ U \subseteq 0..m
        BY <1>5
  <2> QED
      BY <2>1
<1>7. k - 1 \in Nat /\ k - 1 \notin S
  <2>1. k # 0
        BY <1>5
  <2>2. k - 1 \in 0..n - 1 /\ (k - 1) + 1 = k
        BY <1>6, <2>1
  <2> QED
      BY <1>5, <2>2
<1>8. 0..(k - 1) \in T
      BY <1>6, <1>7
<1>9. /\ 0..(k - 1) \in SUBSET (0..m) /\ U \in SUBSET (0..m)
      /\ 0..(k - 1) \subseteq U /\ 0..(k - 1) # U
  <2>1. k \in 0..k /\ k \notin 0..(k - 1) /\ 0..(k - 1) \subseteq 0..k
        BY <1>7
  <2>2. 0..(k - 1) \in SUBSET (0..m) /\ U \in SUBSET (0..m)
        BY <1>8
  <2> QED
      BY <1>5, <2>1, <2>2
<1>10. <<0..(k - 1), U>> \in StrictSubsetOrdering(0..m)
      BY <1>9, Zenon DEF StrictSubsetOrdering
<1> QED
    BY <1>4, <1>8, <1>10

\* f is the walk along prev_ by which Contents is defined.
IsWalk(f, n) ==
    f = [i \in 0..n |-> IF i = 0 THEN tail ELSE IF f[i - 1] = Null THEN Null ELSE prev[f[i - 1]]]
Walked(f) == [i \in 1..Cardinality({n \in DOMAIN f : f[n] # Null}) |-> f[i - 1]]

\* Contents is what that walk meets.
LEMMA ContentsAreWalked == List!Contents = Walked(CHOOSE f : IsWalk(f, Cardinality(Elements)))
  BY DEF List!Contents, List!Cardinality, Cardinality, IsWalk, Walked

\* If they form s, the walk meets s, and nothing after it.
Walk(s, n) == [i \in 0..n |-> IF i < Len(s) THEN s[i + 1] ELSE Null]

\* Every step of the walk over s goes along prev_ ...
LEMMA WalkStep ==
    ASSUME NEW s, Reads(s), NEW n \in Nat, NEW i \in 1..n
    PROVE  Walk(s, n)[i] = IF Walk(s, n)[i - 1] = Null THEN Null ELSE prev[Walk(s, n)[i - 1]]
<1>1. /\ Len(s) \in Nat /\ i \in 0..n /\ i - 1 \in 0..n
      /\ \A j \in 1..Len(s) : s[j] \in Elements
      BY ElementOfSeq, LenProperties DEF Reads
<1>2. /\ Walk(s, n)[i] = IF i < Len(s) THEN s[i + 1] ELSE Null
      /\ Walk(s, n)[i - 1] = IF i - 1 < Len(s) THEN s[(i - 1) + 1] ELSE Null
      BY <1>1 DEF Walk
<1>3. CASE i - 1 < Len(s)
  <2>1. i \in 1..Len(s) /\ (i - 1) + 1 = i /\ i - 1 < Len(s)
        BY <1>1, <1>3
  <2>2. Walk(s, n)[i - 1] = s[i] /\ s[i] # Null
        BY <1>1, <1>2, <2>1, ElementsAssumption
  <2>3. prev[s[i]] = IF i = Len(s) THEN Null ELSE s[i + 1]
        BY <2>1 DEF Reads, Links
  <2>4. i < Len(s) <=> i # Len(s)
        BY <1>1, <2>1
  <2> QED
      BY <1>2, <2>2, <2>3, <2>4
<1>4. CASE ~(i - 1 < Len(s))
  <2>1. ~(i < Len(s))
        BY <1>1, <1>4
  <2> QED
      BY <1>2, <1>4, <2>1
<1> QED
    BY <1>3, <1>4

\* ... so it is the walk by which Contents is defined ...
LEMMA WalkExists ==
    ASSUME NEW s, Reads(s), NEW n \in Nat
    PROVE  IsWalk(Walk(s, n), n)
<1>1. Len(s) \in Nat
      BY LenProperties DEF Reads
<1>2. Walk(s, n)[0] = tail
  <2>1. 0 \in 0..n /\ 0 + 1 = 1 /\ (0 < Len(s) <=> Len(s) # 0)
        BY <1>1
  <2> QED
      BY <2>1 DEF Walk, Reads, Ends
<1> DEFINE w == Walk(s, n)
           u == [i \in 0..n |->
                   IF i = 0 THEN tail ELSE IF w[i - 1] = Null THEN Null ELSE prev[w[i - 1]]]
<1>3. ASSUME NEW i \in 0..n PROVE w[i] = u[i]
  <2>1. CASE i = 0
        BY <1>2, <2>1
  <2>2. CASE i # 0
    <3>1. i \in 1..n
          BY <2>2
    <3> QED
        BY <2>2, <3>1, WalkStep
  <2> QED
      BY <2>1, <2>2
<1>4. w = [i \in 0..n |-> w[i]]
      BY DEF Walk
<1> HIDE DEF w
<1>5. w = u
      BY <1>3, <1>4, Zenon
<1> QED
    BY <1>5 DEF IsWalk, w

\* ... any such walk goes along prev_ ...
LEMMA WalkAt ==
    ASSUME NEW n \in Nat, NEW f, IsWalk(f, n), NEW i \in 0..n
    PROVE  f[i] = IF i = 0 THEN tail ELSE IF f[i - 1] = Null THEN Null ELSE prev[f[i - 1]]
<1> DEFINE h == [j \in 0..n |->
                   IF j = 0 THEN tail ELSE IF f[j - 1] = Null THEN Null ELSE prev[f[j - 1]]]
<1>1. f = h
      BY DEF IsWalk
<1>2. h[i] = IF i = 0 THEN tail ELSE IF f[i - 1] = Null THEN Null ELSE prev[f[i - 1]]
      OBVIOUS
<1> HIDE DEF h
<1> QED
    BY <1>1, <1>2

\* ... and there is no other.
LEMMA WalkIs ==
    ASSUME NEW s, Reads(s), NEW n \in Nat, NEW f, IsWalk(f, n)
    PROVE  f = Walk(s, n)
<1> DEFINE w == Walk(s, n)
           S == {i \in 0..n : f[i] = w[i]}
<1>1. IsWalk(w, n)
      BY WalkExists
<1> HIDE DEF w
<1>2. 0 \in S
  <2>1. 0 \in 0..n
        OBVIOUS
  <2> QED
      BY <1>1, <2>1, WalkAt
<1>3. ASSUME NEW i \in 0..n - 1, i \in S PROVE i + 1 \in S
  <2>1. i + 1 \in 0..n /\ i + 1 # 0 /\ (i + 1) - 1 = i
        OBVIOUS
  <2>2. f[i + 1] = IF f[i] = Null THEN Null ELSE prev[f[i]]
        BY <2>1, WalkAt
  <2>3. w[i + 1] = IF w[i] = Null THEN Null ELSE prev[w[i]]
        BY <1>1, <2>1, WalkAt
  <2> QED
      BY <1>3, <2>1, <2>2, <2>3
<1>4. 0..n \subseteq S
  <2> HIDE DEF S
  <2> QED
      BY <1>2, <1>3, InductionTo
<1>5. f = [i \in 0..n |-> f[i]] /\ w = [i \in 0..n |-> w[i]]
  <2>1. f = [i \in 0..n |-> f[i]]
        BY DEF IsWalk
  <2>2. w = [i \in 0..n |-> w[i]]
        BY <1>1 DEF IsWalk
  <2> QED
      BY <2>1, <2>2
<1>6. \A i \in 0..n : f[i] = w[i]
      BY <1>4
<1> HIDE DEF S
<1>7. f = w
      BY <1>5, <1>6, Zenon
<1> QED
    BY <1>7 DEF w

\* How many numbers there are from 1 to n, and from 0 to n - 1.
LEMMA UpTo ==
    ASSUME NEW n \in Nat
    PROVE  /\ IsFiniteSet(1..n) /\ Cardinality(1..n) = n
           /\ Cardinality(0..n - 1) = n
<1>1. 0 \in Int /\ 1 \in Int /\ n \in Int /\ n - 1 \in Int
      OBVIOUS
<1>2. IsFiniteSet(1..n) /\ Cardinality(1..n) = IF 1 > n THEN 0 ELSE n - 1 + 1
      BY <1>1, FS_Interval, Zenon
<1>3. Cardinality(0..n - 1) = IF 0 > n - 1 THEN 0 ELSE (n - 1) - 0 + 1
      BY <1>1, FS_Interval, Zenon
<1> QED
    BY <1>2, <1>3

\* Contents and Linked say what the pointers form.
LEMMA ContentsAre ==
    ASSUME NEW s, Reads(s)
    PROVE  List!Contents = s /\ List!Linked = In(s) /\ In(s) \subseteq Elements
<1> DEFINE n == Cardinality(Elements)
<1>1. n \in Nat /\ Len(s) \in Nat /\ s \in Seq(Elements)
      /\ s = [i \in 1..Len(s) |-> s[i]] /\ s \in [1..Len(s) -> Elements]
      BY ElementsAssumption, FS_CardinalityType, LenProperties DEF Reads
<1>2. Len(s) <= n
  <2>1. IsFiniteSet(1..Len(s)) /\ Cardinality(1..Len(s)) = Len(s)
        BY <1>1, UpTo
  <2>2. ~(n < Len(s))
    <3> SUFFICES ASSUME n < Len(s) PROVE FALSE
        OBVIOUS
    <3>1. \E x, y \in 1..Len(s) : x # y /\ s[x] = s[y]
          BY <1>1, <2>1, ElementsAssumption, FS_PigeonHole
    <3> QED
        BY <3>1 DEF Reads, Distinct
  <2> QED
      BY <1>1, <2>2
<1> HIDE DEF n
<1> DEFINE w == Walk(s, n)
<1>3. (CHOOSE f : IsWalk(f, n)) = w
  <2>1. IsWalk(w, n)
        BY <1>1, WalkExists
  <2>2. IsWalk(CHOOSE f : IsWalk(f, n), n)
        BY <2>1
  <2> QED
      BY <1>1, <2>2, WalkIs
<1>4. Cardinality({i \in DOMAIN w : w[i] # Null}) = Len(s)
  <2>1. DOMAIN w = 0..n /\ \A i \in 0..n : w[i] = IF i < Len(s) THEN s[i + 1] ELSE Null
        BY DEF Walk
  <2>2. ASSUME NEW i \in 0..n PROVE w[i] # Null <=> i < Len(s)
    <3>1. CASE i < Len(s)
      <4>1. i + 1 \in 1..Len(s)
            BY <1>1, <3>1
      <4> QED
          BY <1>1, <2>1, <3>1, <4>1, ElementsAssumption
    <3> QED
        BY <2>1, <3>1
  <2>3. \A i : i \in 0..n /\ i < Len(s) <=> i \in 0..Len(s) - 1
        BY <1>1, <1>2
  <2>4. {i \in DOMAIN w : w[i] # Null} = 0..Len(s) - 1
        BY <2>1, <2>2, <2>3
  <2>5. Cardinality(0..Len(s) - 1) = Len(s)
        BY <1>1, UpTo
  <2> QED
      BY <2>4, <2>5
<1>5. \A i \in 1..Len(s) : w[i - 1] = s[i]
  <2> TAKE i \in 1..Len(s)
  <2>1. i - 1 \in 0..n /\ i - 1 < Len(s) /\ (i - 1) + 1 = i
        BY <1>1, <1>2
  <2> QED
      BY <2>1 DEF Walk
<1>6. List!Contents = s
  <2>1. List!Contents = [i \in 1..Len(s) |-> w[i - 1]]
    <3>1. List!Contents = Walked(CHOOSE f : IsWalk(f, n))
          BY ContentsAreWalked DEF n
    <3>2. List!Contents = Walked(w)
          BY <1>3, <3>1, Zenon
    <3> HIDE DEF w
    <3> QED
        BY <1>4, <3>2, Zenon DEF Walked
  <2> HIDE DEF w
  <2>2. [i \in 1..Len(s) |-> w[i - 1]] = [i \in 1..Len(s) |-> s[i]]
        BY <1>5, Zenon
  <2> QED
      BY <1>1, <2>1, <2>2, Zenon
<1>7. List!Linked = In(s)
  <2>1. DOMAIN s = 1..Len(s)
        BY <1>1
  <2> QED
      BY <1>6, <2>1, Zenon DEF List!Linked, In
<1>8. In(s) \subseteq Elements
      BY <1>1 DEF In
<1> QED
    BY <1>6, <1>7, <1>8

-----------------------------------------------------------------------------
(* What Push, Unlink and Pop do to the sequence.                              *)
Added(s, t, r) == /\ r \in Seq(Elements) /\ Len(r) = Len(s) + 1
                  /\ \A i \in 1..Len(s) : r[i] = s[i]
                  /\ r[Len(s) + 1] = t
Removed(s, m, r) == /\ r \in Seq(Elements) /\ Len(r) = Len(s) - 1
                    /\ \A i \in 1..Len(s) - 1 : i < m => r[i] = s[i]
                    /\ \A i \in 1..Len(s) - 1 : i >= m => r[i] = s[i + 1]

\* The elements of the sequence are elements, distinct, and linked to each other.
LEMMA Members ==
    ASSUME NEW s, Reads(s)
    PROVE  /\ Len(s) \in Nat /\ s \in Seq(Elements)
           /\ \A i \in 1..Len(s) : s[i] \in Elements /\ s[i] # Null /\ s[i] \in In(s)
           /\ \A i, j \in 1..Len(s) : i # j => s[i] # s[j]
           /\ \A i \in 1..Len(s) : /\ prev[s[i]] = IF i = Len(s) THEN Null ELSE s[i + 1]
                                   /\ next[s[i]] = IF i = 1 THEN Null ELSE s[i - 1]
<1>1. Len(s) \in Nat /\ s \in Seq(Elements) /\ Distinct(s)
      BY LenProperties DEF Reads
<1>2. \A i \in 1..Len(s) : s[i] \in Elements /\ s[i] # Null /\ s[i] \in In(s)
      BY <1>1, ElementOfSeq, ElementsAssumption DEF In
<1> QED
    BY <1>1, <1>2 DEF Reads, Distinct, Links

\* Push at head_ appends the element.
LEMMA PushReads ==
    ASSUME NEW s, Reads(s), NEW t \in Elements, t \notin In(s), List!Push(t),
           NEW r, Added(s, t, r)
    PROVE  Reads(r)'
<1> DEFINE k == Len(s)
<1>1. /\ k \in Nat /\ s \in Seq(Elements)
      /\ \A i \in 1..k : s[i] \in Elements /\ s[i] # Null /\ s[i] \in In(s)
      /\ \A i, j \in 1..k : i # j => s[i] # s[j]
      BY Members
<1>2. \A i \in 1..k : /\ prev[s[i]] = IF i = k THEN Null ELSE s[i + 1]
                      /\ next[s[i]] = IF i = 1 THEN Null ELSE s[i - 1]
      BY Members
<1>3. /\ tail = IF k = 0 THEN Null ELSE s[1]
      /\ head = IF k = 0 THEN Null ELSE s[k]
      /\ next \in [Elements -> Elements \cup {Null}]
      /\ prev \in [Elements -> Elements \cup {Null}]
      /\ \A u \in Elements : u \notin In(s) => next[u] = Null /\ prev[u] = Null
      BY DEF Reads, Ends, Links
<1>4. /\ r \in Seq(Elements) /\ Len(r) = k + 1
      /\ \A i \in 1..k : r[i] = s[i]
      /\ r[k + 1] = t
      BY DEF Added
<1>5. /\ t # Null /\ \A i \in 1..k : s[i] # t
      /\ head \in Elements \cup {Null}
      BY <1>1, <1>3, ElementsAssumption
<1>6. /\ next' \in [Elements -> Elements \cup {Null}]
      /\ prev' \in [Elements -> Elements \cup {Null}]
      /\ \A u \in Elements : /\ next'[u] = IF u = t THEN head ELSE next[u]
                             /\ prev'[u] = IF u = head THEN t ELSE prev[u]
      /\ head' = t
      /\ tail' = IF tail = Null THEN t ELSE tail
      BY <1>3, <1>5, ElementsAssumption DEF List!Push, List!Set
<1> HIDE DEF k
<1>7. Distinct(r)
  <2> SUFFICES ASSUME NEW i \in 1..k + 1, NEW j \in 1..k + 1, r[i] = r[j] PROVE i = j
      BY <1>4 DEF Distinct
  <2>1. CASE i \in 1..k /\ j \in 1..k
        BY <1>1, <1>4, <2>1
  <2>2. CASE i = k + 1 \/ j = k + 1
        BY <1>1, <1>4, <1>5, <2>2
  <2> QED
      BY <1>1, <2>1, <2>2
<1>8. Ends(r)'
  <2>1. tail' = r[1]
    <3>1. CASE k = 0
          BY <1>3, <1>4, <1>6, <3>1
    <3>2. CASE k # 0
      <4>1. 1 \in 1..k
            BY <1>1, <3>2
      <4> QED
          BY <1>1, <1>3, <1>4, <1>6, <3>2, <4>1
    <3> QED
        BY <3>1, <3>2
  <2>2. head' = r[k + 1] /\ k + 1 # 0
        BY <1>1, <1>4, <1>6
  <2> QED
      BY <1>4, <2>1, <2>2 DEF Ends
<1>9. ASSUME NEW i \in 1..k + 1
      PROVE  /\ prev'[r[i]] = IF i = k + 1 THEN Null ELSE r[i + 1]
             /\ next'[r[i]] = IF i = 1 THEN Null ELSE r[i - 1]
  <2>1. CASE i = k + 1
    <3>1. prev'[t] = Null
      <4>1. head # t
        <5>1. CASE k = 0
              BY <1>3, <1>5, <5>1
        <5>2. CASE k # 0
          <6>1. k \in 1..k
                BY <1>1, <5>2
          <6> QED
              BY <1>3, <1>5, <5>2, <6>1
        <5> QED
            BY <5>1, <5>2
      <4> QED
          BY <1>3, <1>6, <4>1
    <3>2. next'[t] = IF k = 0 THEN Null ELSE r[k]
      <4>1. next'[t] = head
            BY <1>6
      <4>2. k # 0 => k \in 1..k
            BY <1>1
      <4> QED
          BY <1>3, <1>4, <4>1, <4>2
    <3>3. (k + 1) - 1 = k /\ (k + 1 = 1 <=> k = 0)
          BY <1>1
    <3> QED
        BY <1>4, <2>1, <3>1, <3>2, <3>3
  <2>2. CASE i \in 1..k
    <3>1. r[i] = s[i] /\ s[i] # t /\ s[i] \in Elements
          BY <1>1, <1>4, <1>5, <2>2
    <3>2. next'[s[i]] = IF i = 1 THEN Null ELSE s[i - 1]
          BY <1>2, <1>6, <2>2, <3>1
    <3>3. i # 1 => i - 1 \in 1..k
          BY <1>1, <2>2
    <3>4. next'[s[i]] = IF i = 1 THEN Null ELSE r[i - 1]
          BY <1>4, <3>2, <3>3
    <3>5. CASE i = k
      <4>1. k # 0 /\ i + 1 = k + 1 /\ i # k + 1
            BY <1>1, <2>2, <3>5
      <4>2. s[i] = head
            BY <1>3, <3>5, <4>1
      <4>3. prev'[s[i]] = t
            BY <1>6, <3>1, <4>2
      <4> QED
          BY <1>4, <3>1, <3>4, <4>1, <4>3
    <3>6. CASE i # k
      <4>1. k # 0 /\ k \in 1..k /\ i + 1 \in 1..k /\ i # k + 1
            BY <1>1, <2>2, <3>6
      <4>2. s[i] # head
            BY <1>1, <1>3, <2>2, <3>6, <4>1
      <4>3. prev'[s[i]] = s[i + 1]
            BY <1>2, <1>6, <2>2, <3>1, <3>6, <4>2
      <4>4. prev'[s[i]] = r[i + 1]
            BY <1>4, <4>1, <4>3
      <4> QED
          BY <3>1, <3>4, <4>1, <4>4
    <3> QED
        BY <3>5, <3>6
  <2> QED
      BY <1>1, <2>1, <2>2
<1>10. ASSUME NEW u \in Elements, u \notin In(r)
       PROVE  next'[u] = Null /\ prev'[u] = Null
  <2>1. \A i \in 1..k + 1 : u # r[i]
    <3>1. \A i \in 1..Len(r) : r[i] \in In(r)
          BY DEF In
    <3> QED
        BY <1>4, <1>10, <3>1
  <2>2. u # t
    <3>1. k + 1 \in 1..k + 1
          BY <1>1
    <3> QED
        BY <1>4, <2>1, <3>1
  <2>3. \A i \in 1..k : u # s[i]
    <3> TAKE i \in 1..k
    <3>1. i \in 1..k + 1
          BY <1>1
    <3> QED
        BY <1>4, <2>1, <3>1
  <2>4. u \notin In(s)
        BY <2>3 DEF In, k
  <2>5. u # head
    <3>1. k # 0 => k \in 1..k
          BY <1>1
    <3> QED
        BY <1>3, <2>3, <3>1, ElementsAssumption
  <2> QED
      BY <1>3, <1>6, <2>2, <2>4, <2>5
<1>11. Links(r)'
       BY <1>4, <1>6, <1>9, <1>10 DEF Links
<1> QED
    BY <1>4, <1>7, <1>8, <1>11 DEF Reads, Distinct

\* Unlink takes the element out, wherever it is.
LEMMA UnlinkReads ==
    ASSUME NEW s, Reads(s), NEW m \in 1..Len(s), List!Unlink(s[m]),
           NEW r, Removed(s, m, r)
    PROVE  Reads(r)'
<1> DEFINE k == Len(s)
           t == s[m]
           p == IF m = k THEN Null ELSE s[m + 1]
           q == IF m = 1 THEN Null ELSE s[m - 1]
<1>1. /\ k \in Nat /\ s \in Seq(Elements) /\ m \in 1..k
      /\ \A i \in 1..k : s[i] \in Elements /\ s[i] # Null /\ s[i] \in In(s)
      /\ \A i, j \in 1..k : i # j => s[i] # s[j]
      BY Members
<1>2. \A i \in 1..k : /\ prev[s[i]] = IF i = k THEN Null ELSE s[i + 1]
                      /\ next[s[i]] = IF i = 1 THEN Null ELSE s[i - 1]
      BY Members
<1>3. /\ tail = IF k = 0 THEN Null ELSE s[1]
      /\ head = IF k = 0 THEN Null ELSE s[k]
      /\ next \in [Elements -> Elements \cup {Null}]
      /\ prev \in [Elements -> Elements \cup {Null}]
      /\ \A u \in Elements : u \notin In(s) => next[u] = Null /\ prev[u] = Null
      BY DEF Reads, Ends, Links
<1>4. /\ r \in Seq(Elements) /\ Len(r) = k - 1
      /\ \A i \in 1..k - 1 : i < m => r[i] = s[i]
      /\ \A i \in 1..k - 1 : i >= m => r[i] = s[i + 1]
      BY DEF Removed
<1>5. prev[t] = p /\ next[t] = q /\ t \in Elements
      BY <1>1, <1>2
<1>6. p \in Elements \cup {Null} /\ q \in Elements \cup {Null}
      BY <1>3, <1>5
<1>7. /\ next' \in [Elements -> Elements \cup {Null}]
      /\ prev' \in [Elements -> Elements \cup {Null}]
      /\ \A u \in Elements : /\ next'[u] = IF u = t THEN Null ELSE IF u = p THEN q ELSE next[u]
                             /\ prev'[u] = IF u = t THEN Null ELSE IF u = q THEN p ELSE prev[u]
      /\ head' = IF head = t THEN q ELSE head
      /\ tail' = IF tail = t THEN p ELSE tail
  <2>1. /\ next' = [List!Set(next, p, q) EXCEPT ![t] = Null]
        /\ prev' = [List!Set(prev, q, p) EXCEPT ![t] = Null]
        /\ head' = IF head = t THEN q ELSE head
        /\ tail' = IF tail = t THEN p ELSE tail
        BY <1>5 DEF List!Unlink
  <2> HIDE DEF p, q, t
  <2>2. /\ List!Set(next, p, q) \in [Elements -> Elements \cup {Null}]
        /\ \A u \in Elements : List!Set(next, p, q)[u] = IF u = p THEN q ELSE next[u]
        BY <1>3, <1>6, ElementsAssumption DEF List!Set
  <2>3. /\ List!Set(prev, q, p) \in [Elements -> Elements \cup {Null}]
        /\ \A u \in Elements : List!Set(prev, q, p)[u] = IF u = q THEN p ELSE prev[u]
        BY <1>3, <1>6, ElementsAssumption DEF List!Set
  <2> QED
      BY <2>1, <2>2, <2>3
<1> HIDE DEF k
<1>8. \A i \in 1..k : /\ i # m => s[i] # t
                      /\ s[i] = p <=> i = m + 1
                      /\ s[i] = q <=> i = m - 1
  <2> TAKE i \in 1..k
  <2>1. i # m => s[i] # t
        BY <1>1
  <2>2. s[i] = p <=> i = m + 1
    <3>1. CASE m = k
          BY <1>1, <3>1
    <3>2. CASE m # k
      <4>1. m + 1 \in 1..k
            BY <1>1, <3>2
      <4> QED
          BY <1>1, <3>2, <4>1
    <3> QED
        BY <3>1, <3>2
  <2>3. s[i] = q <=> i = m - 1
    <3>1. CASE m = 1
          BY <1>1, <3>1
    <3>2. CASE m # 1
      <4>1. m - 1 \in 1..k
            BY <1>1, <3>2
      <4> QED
          BY <1>1, <3>2, <4>1
    <3> QED
        BY <3>1, <3>2
  <2> QED
      BY <2>1, <2>2, <2>3
<1>9. Distinct(r)
  <2> SUFFICES ASSUME NEW i \in 1..k - 1, NEW j \in 1..k - 1, i # j PROVE r[i] # r[j]
      BY <1>4 DEF Distinct
  <2>1. ASSUME NEW n \in 1..k - 1
        PROVE  \E l \in 1..k : r[n] = s[l] /\ l = IF n < m THEN n ELSE n + 1
    <3>1. CASE n < m
      <4>1. n \in 1..k
            BY <1>1
      <4> QED
          BY <1>4, <3>1, <4>1
    <3>2. CASE n >= m
      <4>1. n + 1 \in 1..k /\ ~(n < m)
            BY <1>1, <3>2
      <4> QED
          BY <1>4, <3>2, <4>1
    <3> QED
        BY <1>1, <3>1, <3>2
  <2>2. PICK a \in 1..k : r[i] = s[a] /\ a = IF i < m THEN i ELSE i + 1
        BY <2>1
  <2>3. PICK b \in 1..k : r[j] = s[b] /\ b = IF j < m THEN j ELSE j + 1
        BY <2>1
  <2>4. a # b
    <3>1. a = IF i < m THEN i ELSE i + 1
          BY <2>2
    <3>2. b = IF j < m THEN j ELSE j + 1
          BY <2>3
    <3> QED
        BY <1>1, <3>1, <3>2
  <2> QED
      BY <1>1, <2>2, <2>3, <2>4
<1>10. ASSUME NEW i \in 1..k - 1
       PROVE  /\ prev'[r[i]] = IF i = k - 1 THEN Null ELSE r[i + 1]
              /\ next'[r[i]] = IF i = 1 THEN Null ELSE r[i - 1]
  <2>1. CASE i < m
    <3>1. i \in 1..k /\ i # m /\ i # m + 1 /\ i # k
          BY <1>1, <2>1
    <3>2. r[i] = s[i] /\ s[i] \in Elements /\ s[i] # t /\ s[i] # p
          BY <1>1, <1>4, <1>8, <2>1, <3>1
    <3>3. next'[r[i]] = IF i = 1 THEN Null ELSE s[i - 1]
          BY <1>2, <1>7, <3>1, <3>2
    <3>4. i # 1 => i - 1 \in 1..k - 1 /\ i - 1 < m
          BY <1>1, <2>1
    <3>5. next'[r[i]] = IF i = 1 THEN Null ELSE r[i - 1]
          BY <1>4, <3>3, <3>4
    <3>6. CASE i = m - 1
      <4>1. s[i] = q
            BY <1>8, <3>1, <3>6
      <4>2. prev'[r[i]] = p
            BY <1>7, <3>2, <4>1
      <4>3. (m = k <=> i = k - 1) /\ i + 1 = m
            BY <1>1, <3>6
      <4>4. m # k => m \in 1..k - 1 /\ m >= m
            BY <1>1
      <4>5. m # k => r[m] = s[m + 1]
            BY <1>4, <4>4
      <4>6. prev'[r[i]] = IF i = k - 1 THEN Null ELSE r[i + 1]
            BY <4>2, <4>3, <4>5
      <4> QED
          BY <3>5, <4>6
    <3>7. CASE i # m - 1
      <4>1. prev'[r[i]] = s[i + 1]
            BY <1>2, <1>7, <1>8, <3>1, <3>2, <3>7
      <4>2. i + 1 \in 1..k - 1 /\ i + 1 < m /\ i # k - 1
            BY <1>1, <2>1, <3>7
      <4>3. r[i + 1] = s[i + 1]
            BY <1>4, <4>2
      <4> QED
          BY <3>5, <4>1, <4>2, <4>3
    <3> QED
        BY <3>6, <3>7
  <2>2. CASE i >= m
    <3>1. i + 1 \in 1..k /\ i + 1 # m /\ i + 1 # m - 1 /\ i + 1 # 1 /\ (i + 1) - 1 = i
          BY <1>1, <2>2
    <3>2. /\ r[i] = s[i + 1] /\ s[i + 1] \in Elements
          /\ s[i + 1] # t /\ s[i + 1] # q
          /\ s[i + 1] = p <=> i + 1 = m + 1
          BY <1>1, <1>4, <1>8, <2>2, <3>1
    <3>3. prev'[r[i]] = IF i + 1 = k THEN Null ELSE s[(i + 1) + 1]
          BY <1>2, <1>7, <3>1, <3>2
    <3>4. /\ i + 1 = k <=> i = k - 1
          /\ i # k - 1 => i + 1 \in 1..k - 1 /\ i + 1 >= m
          BY <1>1, <2>2
    <3>5. i # k - 1 => r[i + 1] = s[(i + 1) + 1]
          BY <1>4, <3>4
    <3>6. prev'[r[i]] = IF i = k - 1 THEN Null ELSE r[i + 1]
          BY <3>3, <3>4, <3>5
    <3>7. CASE i = m
      <4>1. next'[r[i]] = q
            BY <1>7, <3>2, <3>7
      <4>2. m # 1 => m - 1 \in 1..k - 1 /\ m - 1 < m
            BY <1>1
      <4>3. m # 1 => r[m - 1] = s[m - 1]
            BY <1>4, <4>2
      <4>4. next'[r[i]] = IF i = 1 THEN Null ELSE r[i - 1]
            BY <3>7, <4>1, <4>3
      <4> QED
          BY <3>6, <4>4
    <3>8. CASE i # m
      <4>1. i + 1 # m + 1 /\ i # 1 /\ i - 1 \in 1..k - 1 /\ i - 1 >= m /\ (i - 1) + 1 = i
            BY <1>1, <2>2, <3>8
      <4>2. next'[r[i]] = s[i]
        <5>1. next[s[i + 1]] = s[(i + 1) - 1]
              BY <1>2, <3>1
        <5> QED
            BY <1>7, <3>1, <3>2, <4>1, <5>1
      <4>3. r[i - 1] = s[i]
        <5>1. r[i - 1] = s[(i - 1) + 1]
              BY <1>4, <4>1
        <5> QED
            BY <4>1, <5>1
      <4> QED
          BY <3>6, <4>1, <4>2, <4>3
    <3> QED
        BY <3>7, <3>8
  <2> QED
      BY <1>1, <2>1, <2>2
<1>11. ASSUME NEW u \in Elements, u \notin In(r)
       PROVE  next'[u] = Null /\ prev'[u] = Null
  <2>1. CASE u = t
        BY <1>7, <2>1
  <2>2. CASE u # t
    <3>1. ASSUME NEW i \in 1..k PROVE u # s[i]
      <4>1. \A j \in 1..k - 1 : u # r[j]
        <5>1. \A j \in 1..Len(r) : r[j] \in In(r)
              BY DEF In
        <5> QED
            BY <1>4, <1>11, <5>1
      <4>2. CASE i < m
        <5>1. i \in 1..k - 1
              BY <1>1, <4>2
        <5> QED
            BY <1>4, <4>1, <4>2, <5>1
      <4>3. CASE i = m
            BY <2>2, <4>3
      <4>4. CASE i > m
        <5>1. i - 1 \in 1..k - 1 /\ i - 1 >= m /\ (i - 1) + 1 = i
              BY <1>1, <4>4
        <5>2. r[i - 1] = s[(i - 1) + 1]
              BY <1>4, <5>1
        <5> QED
            BY <4>1, <5>1, <5>2
      <4> QED
          BY <1>1, <4>2, <4>3, <4>4
    <3>2. u \notin In(s)
          BY <3>1 DEF In, k
    <3>3. u # p
      <4>1. m # k => m + 1 \in 1..k
            BY <1>1
      <4> QED
          BY <3>1, <4>1, ElementsAssumption
    <3>4. u # q
      <4>1. m # 1 => m - 1 \in 1..k
            BY <1>1
      <4> QED
          BY <3>1, <4>1, ElementsAssumption
    <3> QED
        BY <1>3, <1>7, <2>2, <3>2, <3>3, <3>4
  <2> QED
      BY <2>1, <2>2
<1>12. Ends(r)'
  <2>1. k # 0 /\ 1 \in 1..k /\ k \in 1..k
        BY <1>1
  <2>2. tail = s[1] /\ head = s[k]
        BY <1>3, <2>1
  <2>3. tail' = IF k - 1 = 0 THEN Null ELSE r[1]
    <3>1. CASE m = 1
      <4>1. tail' = p
            BY <1>7, <2>2, <3>1
      <4>2. (m = k <=> k - 1 = 0) /\ (k - 1 # 0 => 1 \in 1..k - 1 /\ 1 >= m)
            BY <1>1, <3>1
      <4>3. k - 1 # 0 => r[1] = s[1 + 1]
            BY <1>4, <4>2
      <4> QED
          BY <3>1, <4>1, <4>2, <4>3
    <3>2. CASE m # 1
      <4>1. s[1] # t
            BY <1>8, <2>1, <3>2
      <4>2. k - 1 # 0 /\ 1 \in 1..k - 1 /\ 1 < m
            BY <1>1, <3>2
      <4> QED
          BY <1>4, <1>7, <2>2, <4>1, <4>2
    <3> QED
        BY <3>1, <3>2
  <2>4. head' = IF k - 1 = 0 THEN Null ELSE r[k - 1]
    <3>1. CASE m = k
      <4>1. head' = q
            BY <1>7, <2>2, <3>1
      <4>2. (m = 1 <=> k - 1 = 0) /\ (k - 1 # 0 => k - 1 \in 1..k - 1 /\ k - 1 < m)
            BY <1>1, <3>1
      <4>3. k - 1 # 0 => r[k - 1] = s[k - 1]
            BY <1>4, <4>2
      <4> QED
          BY <3>1, <4>1, <4>2, <4>3
    <3>2. CASE m # k
      <4>1. s[k] # t
            BY <1>8, <2>1, <3>2
      <4>2. k - 1 # 0 /\ k - 1 \in 1..k - 1 /\ k - 1 >= m /\ (k - 1) + 1 = k
            BY <1>1, <3>2
      <4>3. r[k - 1] = s[(k - 1) + 1]
            BY <1>4, <4>2
      <4> QED
          BY <1>7, <2>2, <4>1, <4>2, <4>3
    <3> QED
        BY <3>1, <3>2
  <2> QED
      BY <1>4, <2>3, <2>4 DEF Ends
<1>13. Links(r)'
       BY <1>4, <1>7, <1>10, <1>11 DEF Links
<1> QED
    BY <1>4, <1>9, <1>12, <1>13 DEF Reads, Distinct

\* Pop unlinks the oldest.
LEMMA PopUnlinks ==
    ASSUME NEW s, Reads(s), Len(s) # 0, List!Pop
    PROVE  tail = s[1] /\ List!Unlink(s[1])
<1>1. /\ Len(s) \in Nat /\ 1 \in 1..Len(s)
      /\ tail = s[1] /\ head = s[Len(s)]
  <2>1. Len(s) \in Nat
        BY Members
  <2> QED
      BY <2>1 DEF Reads, Ends
<1>2. s[1] # Null /\ next[s[1]] = Null
      BY <1>1, Members
<1>3. /\ tail' = prev[tail]
      /\ head' = IF head = tail THEN Null ELSE head
      /\ next' = [List!Set(next, prev[tail], Null) EXCEPT ![tail] = Null]
      /\ prev' = [prev EXCEPT ![tail] = Null]
      BY DEF List!Pop
<1>4. List!Set(prev, Null, prev[s[1]]) = prev
      BY DEF List!Set
<1> QED
    BY <1>1, <1>2, <1>3, <1>4 DEF List!Unlink

\* Appending adds at the end; Tail removes the first.
LEMMA AppendAdds ==
    ASSUME NEW s \in Seq(Elements), NEW t \in Elements
    PROVE  Added(s, t, Append(s, t))
  BY LenProperties, AppendProperties DEF Added

\* ... Tail removes the first.
LEMMA TailRemoves ==
    ASSUME NEW s \in Seq(Elements), s # <<>>
    PROVE  /\ Removed(s, 1, Tail(s)) /\ Len(s) \in Nat \ {0}
           /\ s[1] \in Elements
<1>1. /\ Len(s) \in Nat \ {0} /\ Tail(s) \in Seq(Elements) /\ Len(Tail(s)) = Len(s) - 1
      BY EmptySeq, LenProperties, HeadTailProperties
<1>2. \A i \in 1..Len(s) - 1 : Tail(s)[i] = s[i + 1]
      BY <1>1, HeadTailProperties
<1>3. \A i \in 1..Len(s) - 1 : ~(i < 1)
      BY <1>1
<1>4. 1 \in 1..Len(s)
      BY <1>1
<1> QED
    BY <1>1, <1>2, <1>3, <1>4, ElementOfSeq DEF Removed

\* A sequence in two parts, with an element added to the second or moved from
\* the second to the first.
LEMMA AddedToSecond ==
    ASSUME NEW p \in Seq(Elements), NEW s \in Seq(Elements), NEW t \in Elements
    PROVE  Append(p \o s, t) = p \o Append(s, t)
<1>1. /\ p \o s \in Seq(Elements) /\ Len(p \o s) = Len(p) + Len(s)
      /\ Len(p) \in Nat /\ Len(s) \in Nat
      /\ \A i \in 1..Len(p) + Len(s) : (p \o s)[i] = IF i <= Len(p) THEN p[i] ELSE s[i - Len(p)]
      BY LenProperties, ConcatProperties
<1> DEFINE l == Append(p \o s, t)
           q == Append(s, t)
           r == p \o q
<1>2. /\ l \in Seq(Elements) /\ Len(l) = Len(p \o s) + 1
      /\ \A i \in 1..Len(p \o s) : l[i] = (p \o s)[i]
      /\ l[Len(p \o s) + 1] = t
      BY <1>1, AppendProperties
<1>3. /\ q \in Seq(Elements) /\ Len(q) = Len(s) + 1
      /\ \A i \in 1..Len(s) : q[i] = s[i]
      /\ q[Len(s) + 1] = t
      BY <1>1, AppendProperties
<1> HIDE DEF l, q
<1>4. /\ r \in Seq(Elements) /\ Len(r) = Len(p) + Len(q)
      /\ \A i \in 1..Len(p) + Len(q) : r[i] = IF i <= Len(p) THEN p[i] ELSE q[i - Len(p)]
      BY <1>3, ConcatProperties
<1> HIDE DEF r
<1>5. ASSUME NEW i \in 1..Len(l) PROVE l[i] = r[i]
  <2>1. CASE i <= Len(p)
    <3>1. i \in 1..Len(p) + Len(s) /\ i \in 1..Len(p) + Len(q) /\ i \in 1..Len(p \o s)
          BY <1>1, <1>2, <1>3, <2>1
    <3> QED
        BY <1>1, <1>2, <1>4, <2>1, <3>1
  <2>2. CASE i > Len(p) /\ i <= Len(p) + Len(s)
    <3>1. /\ i \in 1..Len(p) + Len(s) /\ i \in 1..Len(p) + Len(q) /\ i \in 1..Len(p \o s)
          /\ i - Len(p) \in 1..Len(s) /\ ~(i <= Len(p))
          BY <1>1, <1>2, <1>3, <2>2
    <3>2. l[i] = s[i - Len(p)]
          BY <1>1, <1>2, <3>1
    <3>3. r[i] = q[i - Len(p)]
          BY <1>4, <3>1
    <3> QED
        BY <1>3, <3>1, <3>2, <3>3
  <2>3. CASE i = Len(p) + Len(s) + 1
    <3>1. i \in 1..Len(p) + Len(q) /\ ~(i <= Len(p)) /\ i - Len(p) = Len(s) + 1
          BY <1>1, <1>3, <2>3
    <3>2. r[i] = q[i - Len(p)]
          BY <1>4, <3>1
    <3>3. l[i] = t
          BY <1>1, <1>2, <2>3
    <3> QED
        BY <1>3, <3>1, <3>2, <3>3
  <2> QED
      BY <1>1, <1>2, <2>1, <2>2, <2>3
<1>6. Len(l) = Len(r)
      BY <1>1, <1>2, <1>3, <1>4
<1>7. l = r
      BY <1>2, <1>4, <1>5, <1>6, SeqEqual
<1> QED
    BY <1>7 DEF l, r, q

\* ... or moved from the second to the first.
LEMMA MovedToFirst ==
    ASSUME NEW p \in Seq(Elements), NEW s \in Seq(Elements), s # <<>>
    PROVE  p \o s = Append(p, s[1]) \o Tail(s)
<1> DEFINE t == s[1]
           a == Append(p, t)
           q == Tail(s)
           l == p \o s
           r == a \o q
<1>1. /\ l \in Seq(Elements) /\ Len(l) = Len(p) + Len(s)
      /\ Len(p) \in Nat /\ Len(s) \in Nat
      /\ \A i \in 1..Len(p) + Len(s) : l[i] = IF i <= Len(p) THEN p[i] ELSE s[i - Len(p)]
      BY LenProperties, ConcatProperties
<1>2. /\ q \in Seq(Elements) /\ Len(q) = Len(s) - 1 /\ Len(s) # 0 /\ t \in Elements
      /\ \A i \in 1..Len(s) - 1 : i >= 1 => q[i] = s[i + 1]
      BY TailRemoves DEF Removed
<1>3. /\ a \in Seq(Elements) /\ Len(a) = Len(p) + 1
      /\ \A i \in 1..Len(p) : a[i] = p[i]
      /\ a[Len(p) + 1] = t
      BY <1>2, AppendProperties
<1> HIDE DEF a, l, q
<1>4. /\ r \in Seq(Elements) /\ Len(r) = Len(a) + Len(q)
      /\ \A i \in 1..Len(a) + Len(q) : r[i] = IF i <= Len(a) THEN a[i] ELSE q[i - Len(a)]
      BY <1>2, <1>3, ConcatProperties
<1> HIDE DEF r
<1>5. ASSUME NEW i \in 1..Len(l) PROVE l[i] = r[i]
  <2>1. i \in 1..Len(p) + Len(s) /\ i \in 1..Len(a) + Len(q)
        BY <1>1, <1>2, <1>3
  <2>2. CASE i <= Len(p)
    <3>1. i \in 1..Len(p) /\ i <= Len(a)
          BY <1>1, <1>3, <2>1, <2>2
    <3> QED
        BY <1>1, <1>3, <1>4, <2>1, <2>2, <3>1
  <2>3. CASE i = Len(p) + 1
    <3>1. ~(i <= Len(p)) /\ i <= Len(a) /\ i - Len(p) = 1
          BY <1>1, <1>3, <2>3
    <3>2. l[i] = s[i - Len(p)]
          BY <1>1, <2>1, <3>1
    <3>3. r[i] = a[i]
          BY <1>4, <2>1, <3>1
    <3> QED
        BY <1>3, <2>3, <3>1, <3>2, <3>3 DEF t
  <2>4. CASE i > Len(p) + 1
    <3>1. /\ ~(i <= Len(p)) /\ ~(i <= Len(a))
          /\ i - Len(a) \in 1..Len(s) - 1 /\ i - Len(a) >= 1
          /\ (i - Len(a)) + 1 = i - Len(p)
          BY <1>1, <1>2, <1>3, <2>1, <2>4
    <3>2. l[i] = s[i - Len(p)]
          BY <1>1, <2>1, <3>1
    <3>3. r[i] = q[i - Len(a)]
          BY <1>4, <2>1, <3>1
    <3>4. q[i - Len(a)] = s[(i - Len(a)) + 1]
          BY <1>2, <3>1
    <3> QED
        BY <3>1, <3>2, <3>3, <3>4
  <2> QED
      BY <1>1, <2>1, <2>2, <2>3, <2>4
<1>6. Len(l) = Len(r)
      BY <1>1, <1>2, <1>3, <1>4
<1>7. l = r
      BY <1>1, <1>4, <1>5, <1>6, SeqEqual
<1> QED
    BY <1>7 DEF l, r, q, a, t

-----------------------------------------------------------------------------
(* The queue.  The pointers form a sequence that is what was pushed and not    *)
(* yet popped; while a consumer waits it is no longer than the list of those   *)
(* who will look at it.                                                        *)
Reached(s) == Reads(s) /\ pushed = popped \o s
Served(s) == Waiting # {} => Len(s) <= Cardinality(signalling) + Cardinality(Woken)

IInv == /\ TypeOK
        /\ IsFiniteSet(signalling) /\ IsFiniteSet(Woken)
        /\ \E s : Reached(s) /\ Served(s)

\* What leaves the pointers alone leaves the sequence alone.
LEMMA Unread ==
    ASSUME NEW s, UNCHANGED list
    PROVE  Reads(s)' <=> Reads(s)
  BY DEF list, Reads, Ends, Links

\* The list is empty when IsEmpty says so.
LEMMA EmptyWhen ==
    ASSUME NEW s, Reads(s)
    PROVE  List!IsEmpty <=> s = <<>>
<1>1. Len(s) \in Nat /\ (Len(s) = 0 <=> s = <<>>)
      BY EmptySeq, LenProperties DEF Reads
<1>2. CASE Len(s) = 0
      BY <1>1, <1>2 DEF Reads, Ends, List!IsEmpty
<1>3. CASE Len(s) # 0
  <2>1. 1 \in 1..Len(s)
        BY <1>1, <1>3
  <2>2. tail # Null
        BY <1>3, <2>1, Members DEF Reads, Ends
  <2> QED
      BY <1>1, <1>3, <2>2 DEF List!IsEmpty
<1> QED
    BY <1>2, <1>3

\* One more member, or one less, of the set a step counts.
LEMMA OneMore ==
    ASSUME NEW S, NEW T, NEW x, x \notin S, T = S \cup {x}, IsFiniteSet(S)
    PROVE  IsFiniteSet(T) /\ Cardinality(T) = Cardinality(S) + 1 /\ Cardinality(S) \in Nat
  BY FS_AddElement, FS_CardinalityType

\* ... or one less.
LEMMA OneLess ==
    ASSUME NEW S, NEW T, NEW x \in S, T = S \ {x}, IsFiniteSet(S)
    PROVE  IsFiniteSet(T) /\ Cardinality(T) = Cardinality(S) - 1 /\ Cardinality(T) \in Nat
  BY FS_RemoveElement, FS_CardinalityType

\* The sets of consumers that wait and that were woken, when c goes to x.
LEMMA GoesTo ==
    ASSUME NEW c \in Consumers, NEW x, TypeOK, pc' = [pc EXCEPT ![c] = x]
    PROVE  /\ Waiting' = IF x = "wait" THEN Waiting \cup {c} ELSE Waiting \ {c}
           /\ Woken' = IF x = "woken" THEN Woken \cup {c} ELSE Woken \ {c}
<1>1. DOMAIN pc = Consumers
      BY DEF TypeOK
<1>2. \A d \in Consumers : pc'[d] = IF d = c THEN x ELSE pc[d]
      BY <1>1
<1> QED
    BY <1>2 DEF Waiting, Woken

\* Push: an element more, and a Signal to come.
LEMMA PushIInv ==
    ASSUME IInv, NEW p \in Producers, NEW t \in Elements, Push(p, t)
    PROVE  IInv'
<1>1. /\ p \notin signalling /\ t \notin List!Linked /\ List!Push(t)
      /\ pushed' = Append(pushed, t) /\ signalling' = signalling \cup {p}
      /\ UNCHANGED <<pc, timed, spins, popped>>
      BY DEF Push
<1>2. PICK s : Reached(s) /\ Served(s)
      BY DEF IInv
<1>3. /\ TypeOK /\ IsFiniteSet(signalling) /\ IsFiniteSet(Woken)
      /\ s \in Seq(Elements) /\ Len(s) \in Nat
      BY <1>2, Members DEF IInv, Reached
<1>4. TypeOK'
  <2>1. pushed' \in Seq(Elements)
        BY <1>1, <1>3, AppendProperties DEF TypeOK
  <2> QED
      BY <1>1, <1>3, <2>1 DEF TypeOK
<1> DEFINE r == Append(s, t)
<1>5. Added(s, t, r)
      BY <1>3, AppendAdds
<1>6. Reads(r)'
  <2>1. t \notin In(s)
        BY <1>1, <1>2, ContentsAre DEF Reached
  <2> HIDE DEF r
  <2> QED
      BY <1>1, <1>2, <1>5, <2>1, PushReads DEF Reached
<1>7. pushed' = popped' \o r
  <2>1. pushed = popped \o s /\ popped \in Seq(Elements)
        BY <1>2, <1>3 DEF Reached, TypeOK
  <2>2. Append(popped \o s, t) = popped \o r
        BY <1>3, <2>1, AddedToSecond
  <2> QED
      BY <1>1, <2>1, <2>2
<1>8. /\ IsFiniteSet(signalling') /\ Cardinality(signalling') = Cardinality(signalling) + 1
      /\ Cardinality(signalling) \in Nat
      BY <1>1, <1>3, OneMore
<1>9. Waiting' = Waiting /\ Woken' = Woken
      BY <1>1 DEF Waiting, Woken
<1>10. Served(r)'
  <2>1. Len(r) = Len(s) + 1
        BY <1>5 DEF Added
  <2>2. Cardinality(Woken) \in Nat
        BY <1>3, FS_CardinalityType
  <2> HIDE DEF r
  <2> QED
      BY <1>2, <1>3, <1>8, <1>9, <2>1, <2>2 DEF Served
<1> HIDE DEF r
<1>11. Reached(r)'
      BY <1>6, <1>7 DEF Reached
<1> QED
    BY <1>3, <1>4, <1>8, <1>9, <1>10, <1>11 DEF IInv

\* Another consumer looks at the list: those who were to look are one more, and
\* those who wait not.
LEMMA WakeCounts ==
    ASSUME IInv, NEW c \in Waiting, Wake(c)
    PROVE  /\ TypeOK /\ pc' \in [Consumers -> {"away", "try", "lock", "wait", "woken"}]
           /\ Waiting' \subseteq Waiting
           /\ IsFiniteSet(Woken') /\ Cardinality(Woken') = Cardinality(Woken) + 1
           /\ Cardinality(Woken) \in Nat
<1>1. c \in Consumers /\ pc[c] = "wait" /\ TypeOK /\ pc' = [pc EXCEPT ![c] = "woken"]
      BY DEF Waiting, Wake, IInv
<1>2. Waiting' = Waiting \ {c} /\ Woken' = Woken \cup {c}
      BY <1>1, GoesTo
<1>3. c \notin Woken
      BY <1>1 DEF Woken
<1>4. pc' \in [Consumers -> {"away", "try", "lock", "wait", "woken"}]
      BY <1>1 DEF TypeOK
<1> QED
    BY <1>1, <1>2, <1>3, <1>4, OneMore DEF IInv

\* Signal: one to come less, one woken more, if any consumer waits.
LEMMA SignalIInv ==
    ASSUME IInv, NEW p \in Producers, Signal(p)
    PROVE  IInv'
<1>1. /\ p \in signalling /\ signalling' = signalling \ {p}
      /\ IF Waiting = {} THEN UNCHANGED pc ELSE \E c \in Waiting : Wake(c)
      /\ UNCHANGED list /\ timed' = timed /\ spins' = spins
      /\ pushed' = pushed /\ popped' = popped
      BY DEF Signal
<1>2. PICK s : Reached(s) /\ Served(s)
      BY DEF IInv
<1>3. /\ TypeOK /\ IsFiniteSet(signalling) /\ IsFiniteSet(Woken) /\ Len(s) \in Nat
      BY <1>2, Members DEF IInv, Reached
<1>4. /\ IsFiniteSet(signalling') /\ Cardinality(signalling') = Cardinality(signalling) - 1
      /\ Cardinality(signalling) \in Nat
      BY <1>1, <1>3, OneLess, FS_CardinalityType
<1>5. Reached(s)'
      BY <1>1, <1>2, Unread DEF Reached
<1>6. CASE Waiting = {}
  <2>1. pc' = pc
        BY <1>1, <1>6
  <2>2. Waiting' = {} /\ Woken' = Woken
        BY <1>6, <2>1 DEF Waiting, Woken
  <2>3. Served(s)'
        BY <2>2 DEF Served
  <2>4. TypeOK'
        BY <1>1, <1>3, <2>1 DEF TypeOK
  <2> QED
      BY <1>3, <1>4, <1>5, <2>2, <2>3, <2>4 DEF IInv
<1>7. CASE Waiting # {}
  <2>1. PICK c \in Waiting : Wake(c)
        BY <1>1, <1>7
  <2>2. /\ pc' \in [Consumers -> {"away", "try", "lock", "wait", "woken"}]
        /\ Waiting' \subseteq Waiting
        /\ IsFiniteSet(Woken') /\ Cardinality(Woken') = Cardinality(Woken) + 1
        /\ Cardinality(Woken) \in Nat
        BY <2>1, WakeCounts
  <2>3. Served(s)'
    <3>1. Len(s) <= Cardinality(signalling) + Cardinality(Woken)
          BY <1>2, <1>7 DEF Served
    <3>2. Len(s) <= Cardinality(signalling') + Cardinality(Woken')
          BY <1>3, <1>4, <2>2, <3>1
    <3> QED
        BY <3>2 DEF Served
  <2>4. TypeOK'
        BY <1>1, <1>3, <2>2 DEF TypeOK
  <2> QED
      BY <1>4, <1>5, <2>2, <2>3, <2>4 DEF IInv
<1> QED
    BY <1>6, <1>7

\* A consumer takes an element: at most one woken less, for one element less.
LEMMA TakeIInv ==
    ASSUME IInv, NEW c \in Consumers, pc[c] # "wait", Take(c)
    PROVE  IInv'
<1>1. /\ ~List!IsEmpty /\ List!Pop
      /\ popped' = Append(popped, tail) /\ pc' = [pc EXCEPT ![c] = "away"]
      /\ UNCHANGED <<signalling, timed, spins, pushed>>
      BY DEF Take
<1>2. PICK s : Reached(s) /\ Served(s)
      BY DEF IInv
<1>3. /\ TypeOK /\ IsFiniteSet(signalling) /\ IsFiniteSet(Woken)
      /\ s \in Seq(Elements) /\ Len(s) \in Nat /\ Reads(s)
      BY <1>2, Members DEF IInv, Reached
<1>4. s # <<>>
      BY <1>1, <1>3, EmptyWhen
<1>5. Removed(s, 1, Tail(s)) /\ Len(s) \in Nat \ {0} /\ s[1] \in Elements
      BY <1>3, <1>4, TailRemoves
<1>6. tail = s[1] /\ List!Unlink(s[1])
      BY <1>1, <1>3, <1>5, PopUnlinks
<1> DEFINE r == Tail(s)
<1>7. Reads(r)'
  <2>1. 1 \in 1..Len(s)
        BY <1>5
  <2> QED
      BY <1>3, <1>5, <1>6, <2>1, UnlinkReads
<1>8. TypeOK' /\ pushed' = popped' \o r
  <2>1. pushed = popped \o s /\ popped \in Seq(Elements)
        BY <1>2, <1>3 DEF Reached, TypeOK
  <2>2. popped \o s = Append(popped, s[1]) \o r
        BY <1>3, <1>4, <2>1, MovedToFirst
  <2>3. popped' \in Seq(Elements) /\ pushed' = pushed
        BY <1>1, <1>5, <1>6, <2>1, AppendProperties
  <2>4. pushed' = popped' \o r
        BY <1>1, <1>6, <2>1, <2>2, <2>3
  <2>5. TypeOK'
        BY <1>1, <1>3, <2>3 DEF TypeOK
  <2> QED
      BY <2>4, <2>5
<1>9. Waiting' = Waiting \ {c} /\ Woken' = Woken \ {c}
  <2> DEFINE x == "away"
  <2>1. TypeOK /\ pc' = [pc EXCEPT ![c] = x] /\ x # "wait" /\ x # "woken"
        BY <1>1, <1>3
  <2> HIDE DEF x
  <2> QED
      BY <2>1, GoesTo
<1>10. /\ IsFiniteSet(Woken') /\ Cardinality(Woken') >= Cardinality(Woken) - 1
       /\ Cardinality(Woken') \in Nat /\ Cardinality(Woken) \in Nat
  <2>1. CASE c \in Woken
    <3>1. /\ IsFiniteSet(Woken') /\ Cardinality(Woken') = Cardinality(Woken) - 1
          /\ Cardinality(Woken') \in Nat
          BY <1>3, <1>9, <2>1, OneLess
    <3>2. Cardinality(Woken) \in Nat
          BY <1>3, FS_CardinalityType
    <3> QED
        BY <3>1, <3>2
  <2>2. CASE c \notin Woken
    <3>1. Woken' = Woken
          BY <1>9, <2>2
    <3>2. Cardinality(Woken) \in Nat
          BY <1>3, FS_CardinalityType
    <3> QED
        BY <1>3, <3>1, <3>2
  <2> QED
      BY <2>1, <2>2
<1>11. Served(r)'
  <2>1. Len(r) = Len(s) - 1
        BY <1>5 DEF Removed
  <2>2. Waiting' # {} => Waiting # {}
        BY <1>9
  <2>3. signalling' = signalling /\ Cardinality(signalling) \in Nat
        BY <1>1, <1>3, FS_CardinalityType
  <2> HIDE DEF r
  <2> QED
      BY <1>2, <1>3, <1>10, <2>1, <2>2, <2>3 DEF Served
<1> HIDE DEF r
<1>12. Reached(r)'
       BY <1>7, <1>8 DEF Reached
<1> QED
    BY <1>1, <1>3, <1>8, <1>10, <1>11, <1>12 DEF IInv

\* A consumer goes on, does not leave the list of those who are to look at it
\* and does not start to wait.
LEMMA GoesOnIInv ==
    ASSUME IInv, NEW c \in Consumers, NEW x \in {"away", "try", "lock"},
           pc' = [pc EXCEPT ![c] = x], pc[c] # "woken",
           UNCHANGED <<list, signalling, pushed, popped>>, TypeOK'
    PROVE  IInv'
<1>1. Waiting' = Waiting \ {c} /\ Woken' = Woken
  <2>1. Waiting' = Waiting \ {c} /\ Woken' = Woken \ {c}
        BY GoesTo DEF IInv
  <2> QED
      BY <2>1 DEF Woken
<1>2. PICK s : Reached(s) /\ Served(s)
      BY DEF IInv
<1>3. Reached(s)'
      BY <1>2, Unread DEF Reached
<1>4. Served(s)'
      BY <1>1, <1>2 DEF Served
<1> QED
    BY <1>1, <1>3, <1>4 DEF IInv

\* TryPop takes an element or finds the list empty.
LEMMA TryPopIInv ==
    ASSUME IInv, NEW c \in Consumers, TryPop(c)
    PROVE  IInv'
<1>1. pc[c] = "try" /\ spins[c] < MaxSpin
      BY DEF TryPop
<1>2. CASE Take(c)
      BY <1>1, <1>2, TakeIInv
<1>3. CASE spins' = [spins EXCEPT ![c] = @ + 1]
             /\ UNCHANGED <<list, signalling, pc, timed, pushed, popped>>
  <2>1. TypeOK'
    <3>1. spins[c] + 1 \in 0..MaxSpin
          BY <1>1, BoundsAssumption DEF IInv, TypeOK
    <3> QED
        BY <1>3, <3>1 DEF IInv, TypeOK
  <2>2. Waiting' = Waiting /\ Woken' = Woken
        BY <1>3 DEF Waiting, Woken
  <2>3. PICK s : Reached(s) /\ Served(s)
        BY DEF IInv
  <2>4. Reached(s)'
        BY <1>3, <2>3, Unread DEF Reached
  <2>5. Served(s)'
        BY <1>3, <2>2, <2>3 DEF Served
  <2> QED
      BY <1>3, <2>1, <2>2, <2>4, <2>5 DEF IInv
<1> QED
    BY <1>2, <1>3 DEF TryPop

\* A consumer begins to wait only when the list is empty.
LEMMA TestOrWaitIInv ==
    ASSUME IInv, NEW c \in Consumers, TestOrWait(c)
    PROVE  IInv'
<1>1. pc[c] \in {"lock", "woken"}
      BY DEF TestOrWait
<1>2. CASE Take(c)
      BY <1>1, <1>2, TakeIInv
<1>3. CASE /\ List!IsEmpty
           /\ pc' = [pc EXCEPT ![c] = "wait"]
           /\ UNCHANGED <<list, signalling, timed, spins, pushed, popped>>
  <2>1. PICK s : Reached(s) /\ Served(s)
        BY DEF IInv
  <2>2. Len(s) = 0
    <3>1. s = <<>>
          BY <1>3, <2>1, EmptyWhen DEF Reached
    <3> QED
        BY <3>1
  <2>3. TypeOK'
        BY <1>3 DEF IInv, TypeOK
  <2>4. Woken' = Woken \ {c}
        BY <1>3, GoesTo DEF IInv
  <2>5. IsFiniteSet(Woken') /\ Cardinality(Woken') \in Nat
    <3>1. IsFiniteSet(Woken')
          BY <2>4, FS_Subset DEF IInv
    <3> QED
        BY <3>1, FS_CardinalityType
  <2>6. signalling' = signalling /\ Cardinality(signalling) \in Nat
        BY <1>3, FS_CardinalityType DEF IInv
  <2>7. Served(s)'
    <3>1. Len(s) <= Cardinality(signalling') + Cardinality(Woken')
          BY <2>2, <2>5, <2>6
    <3> QED
        BY <3>1 DEF Served
  <2>8. Reached(s)'
        BY <1>3, <2>1, Unread DEF Reached
  <2> QED
      BY <2>3, <2>5, <2>6, <2>7, <2>8 DEF IInv
<1> QED
    BY <1>2, <1>3 DEF TestOrWait

\* A spurious wakeup is one woken more.
LEMMA SpuriousWakeupIInv ==
    ASSUME IInv, NEW c \in Consumers, SpuriousWakeup(c)
    PROVE  IInv'
<1>1. /\ c \in Waiting /\ Wake(c)
      /\ UNCHANGED <<list, signalling, timed, spins, pushed, popped>>
      BY DEF SpuriousWakeup
<1>2. PICK s : Reached(s) /\ Served(s)
      BY DEF IInv
<1>3. /\ TypeOK /\ pc' \in [Consumers -> {"away", "try", "lock", "wait", "woken"}]
      /\ Waiting' \subseteq Waiting
      /\ IsFiniteSet(Woken') /\ Cardinality(Woken') = Cardinality(Woken) + 1
      /\ Cardinality(Woken) \in Nat
      BY <1>1, WakeCounts
<1>4. Served(s)'
  <2>1. /\ signalling' = signalling /\ Cardinality(signalling) \in Nat
        /\ Len(s) \in Nat
        BY <1>1, <1>2, Members, FS_CardinalityType DEF IInv, Reached
  <2>2. Len(s) <= Cardinality(signalling) + Cardinality(Woken)
        BY <1>1, <1>2 DEF Served
  <2>3. Len(s) <= Cardinality(signalling) + Cardinality(Woken')
        BY <1>3, <2>1, <2>2
  <2> QED
      BY <2>1, <2>3 DEF Served
<1>5. Reached(s)'
      BY <1>1, <1>2, Unread DEF Reached
<1>6. TypeOK'
      BY <1>1, <1>3 DEF TypeOK
<1> QED
    BY <1>1, <1>3, <1>4, <1>5, <1>6 DEF IInv

\* Every step keeps the invariant ...
LEMMA NextIInv ==
    ASSUME IInv, [Next]_vars
    PROVE  IInv'
<1>1. ASSUME NEW p \in Producers, Signal(p) PROVE IInv'
      BY <1>1, SignalIInv
<1>2. ASSUME NEW p \in Producers, NEW t \in Elements, Push(p, t) PROVE IInv'
      BY <1>2, PushIInv
<1>3. ASSUME NEW c \in Consumers, CallPop(c) PROVE IInv'
  <2>1. /\ pc[c] = "away" /\ pc' = [pc EXCEPT ![c] = "try"]
        /\ timed' \in {timed \ {c}, timed \cup {c}} /\ spins' = [spins EXCEPT ![c] = 0]
        /\ UNCHANGED <<list, signalling, pushed, popped>>
        BY <1>3 DEF CallPop
  <2>2. TypeOK'
    <3>1. 0 \in 0..MaxSpin
          BY BoundsAssumption
    <3> QED
        BY <2>1, <3>1 DEF IInv, TypeOK
  <2> QED
      BY <2>1, <2>2, GoesOnIInv
<1>4. ASSUME NEW c \in Consumers, TryPop(c) PROVE IInv'
      BY <1>4, TryPopIInv
<1>5. ASSUME NEW c \in Consumers, Block(c) PROVE IInv'
  <2>1. /\ pc[c] = "try" /\ pc' = [pc EXCEPT ![c] = "lock"]
        /\ UNCHANGED <<list, signalling, timed, spins, pushed, popped>>
        BY <1>5 DEF Block
  <2>2. TypeOK'
        BY <2>1 DEF IInv, TypeOK
  <2> QED
      BY <2>1, <2>2, GoesOnIInv
<1>6. ASSUME NEW c \in Consumers, TestOrWait(c) PROVE IInv'
      BY <1>6, TestOrWaitIInv
<1>7. ASSUME NEW c \in Consumers, SpuriousWakeup(c) PROVE IInv'
      BY <1>7, SpuriousWakeupIInv
<1>8. ASSUME NEW c \in Consumers, TimeOut(c) PROVE IInv'
  <2>1. /\ pc[c] \in {"lock", "wait"} /\ pc' = [pc EXCEPT ![c] = "away"]
        /\ UNCHANGED <<list, signalling, timed, spins, pushed, popped>>
        BY <1>8 DEF TimeOut
  <2>2. TypeOK'
        BY <2>1 DEF IInv, TypeOK
  <2> QED
      BY <2>1, <2>2, GoesOnIInv
<1>9. CASE UNCHANGED vars
  <2>1. UNCHANGED list /\ UNCHANGED <<signalling, pc, timed, spins, pushed, popped>>
        BY <1>9 DEF vars
  <2>2. TypeOK' /\ Waiting' = Waiting /\ Woken' = Woken
        BY <2>1 DEF IInv, TypeOK, Waiting, Woken
  <2>3. PICK s : Reached(s) /\ Served(s)
        BY DEF IInv
  <2>4. Reached(s)' /\ Served(s)'
        BY <2>1, <2>2, <2>3, Unread DEF Reached, Served
  <2> QED
      BY <2>1, <2>2, <2>4 DEF IInv
<1> QED
    BY <1>1, <1>2, <1>3, <1>4, <1>5, <1>6, <1>7, <1>8, <1>9 DEF Next

\* The list starts empty.
LEMMA EmptyReads == List!Init => Reads(<<>>)
<1> SUFFICES ASSUME List!Init PROVE Reads(<<>>)
    OBVIOUS
<1>1. <<>> \in Seq(Elements) /\ Len(<<>>) = 0 /\ \A i \in 1..0 : FALSE
      BY EmptySeq
<1>2. In(<<>>) = {}
      BY <1>1 DEF In
<1> QED
    BY <1>1, <1>2 DEF List!Init, Reads, Distinct, Ends, Links

\* ... which holds at the start ...
LEMMA InitIInv == Init => IInv
<1> SUFFICES ASSUME Init PROVE IInv
    OBVIOUS
<1>1. /\ List!Init /\ signalling = {} /\ pc = [c \in Consumers |-> "away"]
      /\ timed = {} /\ spins = [c \in Consumers |-> 0] /\ pushed = <<>> /\ popped = <<>>
      BY DEF Init
<1>2. TypeOK
  <2>1. 0 \in 0..MaxSpin /\ <<>> \in Seq(Elements)
        BY BoundsAssumption, EmptySeq
  <2> QED
      BY <1>1, <2>1 DEF TypeOK
<1>3. Waiting = {} /\ Woken = {} /\ IsFiniteSet({})
      BY <1>1, FS_EmptySet DEF Waiting, Woken
<1>4. Reached(<<>>)
  <2>1. <<>> \o <<>> = <<>>
        BY EmptySeq, ConcatEmptySeq
  <2> QED
      BY <1>1, <2>1, EmptyReads DEF Reached
<1>5. Served(<<>>)
      BY <1>3 DEF Served
<1> QED
    BY <1>1, <1>2, <1>3, <1>4, <1>5 DEF IInv

\* ... and so always.
LEMMA SpecIInv == Spec => []IInv
  BY InitIInv, NextIInv, PTL DEF Spec

\* Elements come out of the InQueue exactly once and in the order they went in, for
\* any number of elements, producers and consumers.
THEOREM InOrderHolds == Spec => []InOrder
<1>1. IInv => InOrder
  <2> SUFFICES ASSUME IInv PROVE InOrder
      OBVIOUS
  <2>1. PICK s : Reads(s) /\ pushed = popped \o s
        BY DEF IInv, Reached
  <2> QED
      BY <2>1, ContentsAre DEF InOrder
<1> QED
    BY <1>1, SpecIInv, PTL

\* No wakeup is lost: while a consumer waits there are at most as many elements in
\* the list as Signals to come and consumers on their way to it, for any number of
\* producers and consumers.
THEOREM NoLostWakeupHolds == Spec => []NoLostWakeup
<1>1. IInv => NoLostWakeup
  <2> SUFFICES ASSUME IInv PROVE NoLostWakeup
      OBVIOUS
  <2>1. PICK s : Reads(s) /\ Served(s)
        BY DEF IInv, Reached
  <2> QED
      BY <2>1, ContentsAre DEF NoLostWakeup, Served
<1> QED
    BY <1>1, SpecIInv, PTL

-----------------------------------------------------------------------------
(* The AIO processor.                                                         *)

\* A list that reads as a sequence fulfils the ASSERTs of Push, Pop and Unlink.
LEMMA ReadsSound ==
    ASSUME NEW s, Reads(s)
    PROVE  ListSound
<1> DEFINE k == Len(s)
<1>1. /\ k \in Nat
      /\ \A i \in 1..k : s[i] \in Elements /\ s[i] # Null
      /\ \A i \in 1..k : /\ prev[s[i]] = IF i = k THEN Null ELSE s[i + 1]
                         /\ next[s[i]] = IF i = 1 THEN Null ELSE s[i - 1]
      BY Members
<1>2. /\ tail = IF k = 0 THEN Null ELSE s[1]
      /\ head = IF k = 0 THEN Null ELSE s[k]
      /\ \A u \in Elements : u \notin In(s) => next[u] = Null /\ prev[u] = Null
      BY DEF Reads, Ends, Links
<1>3. \A u \in In(s) : \E i \in 1..k : u = s[i]
      BY DEF In
<1>4. List!Linked = In(s) /\ In(s) \subseteq Elements
      BY ContentsAre
<1> HIDE DEF k
<1>5. k # 0 => 1 \in 1..k /\ k \in 1..k
      BY <1>1
<1>6. /\ head = Null <=> tail = Null
      /\ head # Null => prev[head] = Null
      /\ tail # Null => next[tail] = Null
  <2>1. CASE k = 0
        BY <1>2, <2>1
  <2>2. CASE k # 0
        BY <1>1, <1>2, <1>5, <2>2
  <2> QED
      BY <2>1, <2>2
<1>7. ASSUME NEW u \in In(s)
      PROVE  /\ prev[u] # Null \/ head = u
             /\ next[u] # Null \/ tail = u
  <2>1. PICK i \in 1..k : u = s[i]
        BY <1>3
  <2>2. k # 0
        BY <1>1
  <2>3. prev[u] # Null \/ head = u
    <3>1. CASE i = k
          BY <1>2, <2>1, <2>2, <3>1
    <3>2. CASE i # k
      <4>1. i + 1 \in 1..k
            BY <1>1, <3>2
      <4> QED
          BY <1>1, <2>1, <3>2, <4>1
    <3> QED
        BY <3>1, <3>2
  <2>4. next[u] # Null \/ tail = u
    <3>1. CASE i = 1
          BY <1>2, <2>1, <2>2, <3>1
    <3>2. CASE i # 1
      <4>1. i - 1 \in 1..k
            BY <1>1, <3>2
      <4> QED
          BY <1>1, <2>1, <3>2, <4>1
    <3> QED
        BY <3>1, <3>2
  <2> QED
      BY <2>3, <2>4
<1>8. List!AssertsHold
      BY <1>2, <1>4, <1>6, <1>7 DEF List!AssertsHold
<1>9. ASSUME NEW u \in Elements, next[u] # Null PROVE prev[next[u]] = u
  <2>1. PICK i \in 1..k : u = s[i]
        BY <1>2, <1>3, <1>9
  <2>2. i # 1 /\ next[u] = s[i - 1]
        BY <1>1, <1>9, <2>1
  <2>3. i - 1 \in 1..k /\ i - 1 # k /\ (i - 1) + 1 = i
        BY <1>1, <2>2
  <2>4. prev[s[i - 1]] = s[(i - 1) + 1]
        BY <1>1, <2>3
  <2> QED
      BY <2>1, <2>2, <2>3, <2>4
<1>10. ASSUME NEW u \in Elements, prev[u] # Null PROVE next[prev[u]] = u
  <2>1. PICK i \in 1..k : u = s[i]
        BY <1>2, <1>3, <1>10
  <2>2. i # k /\ prev[u] = s[i + 1]
        BY <1>1, <1>10, <2>1
  <2>3. i + 1 \in 1..k /\ i + 1 # 1 /\ (i + 1) - 1 = i
        BY <1>1, <2>2
  <2>4. next[s[i + 1]] = s[(i + 1) - 1]
        BY <1>1, <2>3
  <2> QED
      BY <2>1, <2>2, <2>3, <2>4
<1>11. List!LinksAgree
       BY <1>9, <1>10 DEF List!LinksAgree
<1> QED
    BY <1>8, <1>11 DEF ListSound

\* Where an operation is in ops_, in what a thread has got from the kernel and
\* in its hands, and that none is once the processor is being destroyed.
OnItsWay == {"listed", "submitted", "failed", "complete", "event"}
Lists(s) == Reads(s) /\ In(s) = {o \in Elements : phase[o] \in OnItsWay}
Got == /\ \A t \in Threads : \A o \in batch[t] : phase[o] = "event"
       /\ \A t, u \in Threads : \A o \in batch[t] : o \in batch[u] => t = u
Taken == /\ \A t \in Threads : current[t] # Null => phase[current[t]] \in {"callback", "done"}
         /\ \A t, u \in Threads : current[t] # Null /\ current[t] = current[u] => t = u
Quiet == life # "alive" => \A o \in Elements : phase[o] \in {"free", "failed", "done"}

OpsIInv == AioTypeOK /\ Got /\ Taken /\ Quiet /\ \E s : Lists(s)

\* What moving one operation does.
LEMMA Moves ==
    ASSUME AioTypeOK, NEW o \in Elements, NEW x, Move(o, x)
    PROVE  \A u \in Elements : phase'[u] = IF u = o THEN x ELSE phase[u]
  BY DEF Move, AioTypeOK

\* A step that moves no operation into ops_ or out of it keeps the list.
LEMMA ListKept ==
    ASSUME NEW s, Lists(s), UNCHANGED list,
           \A o \in Elements : phase'[o] \in OnItsWay <=> phase[o] \in OnItsWay
    PROVE  Lists(s)'
<1>1. Reads(s)'
      BY Unread DEF Lists, list
<1>2. In(s)' = {o \in Elements : phase'[o] \in OnItsWay}
      BY DEF Lists, In, OnItsWay
<1> QED
    BY <1>1, <1>2 DEF Lists, OnItsWay

\* A step in which one operation, in nobody's hands, moves on and stays in ops_
\* or out of it.
LEMMA MoveIInv ==
    ASSUME OpsIInv, AioTypeOK', NEW o \in Elements, NEW x, Move(o, x),
           UNCHANGED <<batch, current,
                       life>>, UNCHANGED list, life = "alive" \/ x = "free",
           phase[o] \notin {"event", "callback", "done"},
           x \in OnItsWay <=> phase[o] \in OnItsWay
    PROVE  OpsIInv'
<1>1. \A u \in Elements : phase'[u] = IF u = o THEN x ELSE phase[u]
      BY Moves DEF OpsIInv
<1>2. /\ batch \in [Threads -> SUBSET Elements] /\ batch' = batch
      /\ current \in [Threads -> Elements \cup {Null}] /\ current' = current
      /\ life' = life
      BY DEF OpsIInv, AioTypeOK
<1>3. Got'
  <2>1. \A t \in Threads : \A u \in batch[t] : u \in Elements /\ phase[u] = "event"
        BY <1>2 DEF OpsIInv, Got
  <2> QED
      BY <1>1, <1>2, <2>1 DEF OpsIInv, Got
<1>4. Taken'
  <2>1. \A t \in Threads : current[t] # Null =>
            current[t] \in Elements /\ phase[current[t]] \in {"callback", "done"}
        BY <1>2 DEF OpsIInv, Taken
  <2> QED
      BY <1>1, <1>2, <2>1 DEF OpsIInv, Taken
<1>5. Quiet'
      BY <1>1, <1>2 DEF OpsIInv, Quiet
<1>6. PICK s : Lists(s)
      BY DEF OpsIInv
<1>7. Lists(s)'
      BY <1>1, <1>6, ListKept
<1> QED
    BY <1>3, <1>4, <1>5, <1>7 DEF OpsIInv

\* RemoveAt takes the element at m out.
LEMMA RemoveAtRemoves ==
    ASSUME NEW s \in Seq(Elements), NEW m \in 1..Len(s)
    PROVE  Removed(s, m, Abstract!RemoveAt(s, m))
<1> DEFINE a == SubSeq(s, 1, m - 1)
           b == SubSeq(s, m + 1, Len(s))
           r == a \o b
<1>1. /\ Len(s) \in Nat /\ m \in 1..Len(s) /\ m \in Nat
      /\ \A i \in 1..Len(s) : s[i] \in Elements
      BY LenProperties, ElementOfSeq
<1>2. /\ 1 \in Int /\ m - 1 \in Int /\ m + 1 \in Int /\ Len(s) \in Int
      /\ \A i \in 1..m - 1 : i \in 1..Len(s)
      /\ \A i \in m + 1..Len(s) : i \in 1..Len(s)
      BY <1>1
<1>3. /\ a \in Seq(Elements) /\ Len(a) = IF 1 <= m - 1 THEN m - 1 - 1 + 1 ELSE 0
      /\ \A i \in 1..m - 1 - 1 + 1 : a[i] = s[1 + i - 1]
      BY <1>1, <1>2, SubSeqProperties
<1>4. /\ b \in Seq(Elements)
      /\ Len(b) = IF m + 1 <= Len(s) THEN Len(s) - (m + 1) + 1 ELSE 0
      /\ \A i \in 1..Len(s) - (m + 1) + 1 : b[i] = s[m + 1 + i - 1]
      BY <1>1, <1>2, SubSeqProperties
<1> HIDE DEF a, b
<1>5. Len(a) = m - 1 /\ Len(b) = Len(s) - m
      BY <1>1, <1>3, <1>4
<1>6. /\ r \in Seq(Elements) /\ Len(r) = Len(a) + Len(b)
      /\ \A i \in 1..Len(a) + Len(b) : r[i] = IF i <= Len(a) THEN a[i] ELSE b[i - Len(a)]
      BY <1>3, <1>4, ConcatProperties
<1> HIDE DEF r
<1>7. ASSUME NEW i \in 1..Len(s) - 1, i < m PROVE r[i] = s[i]
  <2>1. /\ i \in 1..Len(a) + Len(b) /\ i <= Len(a)
        /\ i \in 1..m - 1 - 1 + 1 /\ 1 + i - 1 = i
        BY <1>1, <1>5, <1>7
  <2>2. r[i] = a[i]
        BY <1>6, <2>1
  <2>3. a[i] = s[1 + i - 1]
        BY <1>3, <2>1
  <2> QED
      BY <2>1, <2>2, <2>3
<1>8. ASSUME NEW i \in 1..Len(s) - 1, i >= m PROVE r[i] = s[i + 1]
  <2> DEFINE j == i - Len(a)
  <2>1. /\ i \in 1..Len(a) + Len(b) /\ ~(i <= Len(a))
        /\ j \in 1..Len(s) - (m + 1) + 1 /\ m + 1 + j - 1 = i + 1
        BY <1>1, <1>5, <1>8
  <2>2. r[i] = b[j]
        BY <1>6, <2>1
  <2> HIDE DEF j
  <2>3. b[j] = s[m + 1 + j - 1]
        BY <1>4, <2>1
  <2> QED
      BY <2>1, <2>2, <2>3
<1>9. Len(r) = Len(s) - 1
      BY <1>1, <1>5, <1>6
<1>10. Abstract!RemoveAt(s, m) = r
       BY DEF Abstract!RemoveAt, r, a, b
<1> QED
    BY <1>6, <1>7, <1>8, <1>9, <1>10 DEF Removed

\* Write appends its operation to ops_.
LEMMA WriteStep ==
    ASSUME OpsIInv, NEW o \in Elements, Write(o)
    PROVE  /\ OpsIInv'
           /\ \E s : Lists(s) /\ o \notin In(s) /\ Lists(Append(s, o))'
<1>1. /\ life = "alive" /\ phase[o] = "free" /\ List!Push(o) /\ Move(o, "listed")
      /\ caller' = caller \/ caller' = [caller EXCEPT ![o] = "call"]
      /\ UNCHANGED <<ctx, batch, current, done, life, closed, exited>>
      BY DEF Write, CallerAt, threads, processor
<1>2. \A u \in Elements : phase'[u] = IF u = o THEN "listed" ELSE phase[u]
      BY <1>1, Moves DEF OpsIInv
<1>3. AioTypeOK'
      BY <1>1 DEF OpsIInv, AioTypeOK, Move
<1>4. /\ batch \in [Threads -> SUBSET Elements] /\ batch' = batch
      /\ current \in [Threads -> Elements \cup {Null}] /\ current' = current
      /\ life' = life
      BY <1>1 DEF OpsIInv, AioTypeOK
<1>5. Got'
  <2>1. \A t \in Threads : \A u \in batch[t] : u \in Elements /\ phase[u] = "event"
        BY <1>4 DEF OpsIInv, Got
  <2> QED
      BY <1>1, <1>2, <1>4, <2>1 DEF OpsIInv, Got
<1>6. Taken'
  <2>1. \A t \in Threads : current[t] # Null =>
            current[t] \in Elements /\ phase[current[t]] \in {"callback", "done"}
        BY <1>4 DEF OpsIInv, Taken
  <2> QED
      BY <1>1, <1>2, <1>4, <2>1 DEF OpsIInv, Taken
<1>7. Quiet'
      BY <1>1, <1>4 DEF Quiet
<1>8. PICK s : Lists(s)
      BY DEF OpsIInv
<1>9. /\ Reads(s) /\ s \in Seq(Elements) /\ In(s) = {u \in Elements : phase[u] \in OnItsWay}
      BY <1>8, Members DEF Lists
<1>10. o \notin In(s)
       BY <1>1, <1>9 DEF OnItsWay
<1> DEFINE r == Append(s, o)
<1>11. Added(s, o, r)
       BY <1>9, AppendAdds
<1> HIDE DEF r
<1>12. Reads(r)'
  <2>1. List!Push(o)
        BY <1>1
  <2> QED
      BY <1>9, <1>10, <1>11, <2>1, PushReads
<1>13. In(r) = In(s) \cup {o}
  <2>1. Len(s) \in Nat
        BY <1>9, Members
  <2>2. /\ \A i \in 1..Len(s) : i \in 1..Len(r) /\ r[i] = s[i]
        /\ Len(s) + 1 \in 1..Len(r) /\ r[Len(s) + 1] = o
        /\ \A i \in 1..Len(r) : i \in 1..Len(s) \/ i = Len(s) + 1
        BY <1>11, <2>1 DEF Added
  <2> QED
      BY <2>2 DEF In
<1>14. Lists(r)'
  <2>1. In(r) = {u \in Elements : phase'[u] \in OnItsWay}
    <3>1. \A u \in Elements : phase'[u] \in OnItsWay <=> phase[u] \in OnItsWay \/ u = o
          BY <1>2 DEF OnItsWay
    <3> QED
        BY <1>9, <1>13, <3>1
  <2> QED
      BY <1>12, <2>1 DEF Lists, In, OnItsWay
<1> QED
    BY <1>3, <1>5, <1>6, <1>7, <1>8, <1>10, <1>14 DEF OpsIInv, r

\* io_getevents hands every operation that is complete to one thread.
LEMMA GetEventsIInv ==
    ASSUME OpsIInv, NEW t \in Threads, GetEvents(t)
    PROVE  OpsIInv'
<1> DEFINE C == Completed(t)
<1>1. /\ batch' = [batch EXCEPT ![t] = C]
      /\ phase' = [o \in Elements |-> IF o \in C THEN "event" ELSE phase[o]]
      /\ ctx' = [o \in Elements |-> IF o \in C THEN Null ELSE ctx[o]]
      /\ UNCHANGED list /\ C # {}
      /\ UNCHANGED <<current, caller, done, life, closed, exited>>
      BY DEF GetEvents, sync, processor
<1>2. \A o \in C : o \in Elements /\ phase[o] = "complete"
      BY DEF Completed
<1> HIDE DEF C
<1>3. /\ batch \in [Threads -> SUBSET Elements]
      /\ current \in [Threads -> Elements \cup {Null}] /\ current' = current
      /\ life' = life
      BY <1>1 DEF OpsIInv, AioTypeOK
<1>4. \A o \in Elements : phase'[o] = IF o \in C THEN "event" ELSE phase[o]
      BY <1>1
<1>5. \A u \in Threads : batch'[u] = IF u = t THEN C ELSE batch[u]
      BY <1>1, <1>3
<1>6. AioTypeOK'
      BY <1>1, <1>2 DEF OpsIInv, AioTypeOK
<1>7. Got'
  <2>1. \A u \in Threads : \A o \in batch[u] : o \in Elements /\ phase[o] = "event"
        BY <1>3 DEF OpsIInv, Got
  <2>2. ASSUME NEW u \in Threads, NEW o \in batch'[u] PROVE phase'[o] = "event"
        BY <1>2, <1>4, <1>5, <2>1
  <2>3. ASSUME NEW u \in Threads, NEW v \in Threads, NEW o \in batch'[u], o \in batch'[v]
        PROVE  u = v
    <3>1. o \in C => \A w \in Threads : o \notin batch[w]
          BY <1>2, <2>1
    <3> QED
        BY <1>5, <2>3, <3>1 DEF OpsIInv, Got
  <2> QED
      BY <2>2, <2>3 DEF Got
<1>8. Taken'
  <2>1. \A u \in Threads : current[u] # Null =>
            current[u] \in Elements /\ phase[current[u]] \in {"callback", "done"}
        BY <1>3 DEF OpsIInv, Taken
  <2>2. ASSUME NEW u \in Threads, current'[u] # Null
        PROVE  phase'[current'[u]] \in {"callback", "done"}
        BY <1>2, <1>3, <1>4, <2>1, <2>2
  <2> QED
      BY <1>3, <2>2 DEF OpsIInv, Taken
<1>9. Quiet'
  <2>1. life = "alive"
        BY <1>1, <1>2 DEF OpsIInv, Quiet
  <2> QED
      BY <1>3, <2>1 DEF Quiet
<1>10. PICK s : Lists(s)
       BY DEF OpsIInv
<1>11. Lists(s)'
  <2>1. \A o \in Elements : phase'[o] \in OnItsWay <=> phase[o] \in OnItsWay
        BY <1>2, <1>4 DEF OnItsWay
  <2> QED
      BY <1>1, <1>10, <2>1, ListKept
<1> QED
    BY <1>6, <1>7, <1>8, <1>9, <1>11 DEF OpsIInv

\* A thread takes one of its operations out of ops_.
LEMMA UnlinkStep ==
    ASSUME OpsIInv, NEW t \in Threads, Unlink(t)
    PROVE  /\ OpsIInv'
           /\ \E s : \E m \in 1..Len(s) : Lists(s) /\ Lists(Abstract!RemoveAt(s, m))'
<1>1. PICK o \in batch[t] :
         /\ current[t] = Null /\ List!Unlink(o)
         /\ batch' = [batch EXCEPT ![t] = @ \ {o}] /\ current' = [current EXCEPT ![t] = o]
         /\ Move(o, "callback")
         /\ UNCHANGED <<ctx, caller, done, life, closed, exited>>
      BY DEF Unlink, sync, processor
<1>2. /\ batch \in [Threads -> SUBSET Elements]
      /\ current \in [Threads -> Elements \cup {Null}]
      /\ o \in Elements /\ o # Null /\ phase[o] = "event"
      BY <1>1, ElementsAssumption DEF OpsIInv, AioTypeOK, Got
<1>3. \A u \in Elements : phase'[u] = IF u = o THEN "callback" ELSE phase[u]
      BY <1>1, <1>2, Moves DEF OpsIInv
<1>4. \A u \in Threads : /\ batch'[u] = IF u = t THEN batch[t] \ {o} ELSE batch[u]
                         /\ current'[u] = IF u = t THEN o ELSE current[u]
      BY <1>1, <1>2
<1>5. AioTypeOK'
      BY <1>1, <1>2 DEF OpsIInv, AioTypeOK, Move
<1>6. Got'
  <2>1. \A u \in Threads : \A e \in batch[u] : e \in Elements /\ phase[e] = "event"
        BY <1>2 DEF OpsIInv, Got
  <2>2. \A u \in Threads : u # t => o \notin batch[u]
        BY <1>1 DEF OpsIInv, Got
  <2>3. ASSUME NEW u \in Threads, NEW e \in batch'[u] PROVE e \in batch[u] /\ e # o
        BY <1>4, <2>2
  <2>4. \A u \in Threads : \A e \in batch'[u] : phase'[e] = "event"
        BY <1>3, <2>1, <2>3
  <2>5. \A u, v \in Threads : \A e \in batch'[u] : e \in batch'[v] => u = v
        BY <2>3 DEF OpsIInv, Got
  <2> QED
      BY <2>4, <2>5 DEF Got
<1>7. Taken'
  <2>1. \A u \in Threads : current[u] # Null =>
            /\ current[u] \in Elements /\ current[u] # o
            /\ phase[current[u]] \in {"callback", "done"}
        BY <1>2 DEF OpsIInv, Taken
  <2>2. ASSUME NEW u \in Threads, current'[u] # Null
        PROVE  phase'[current'[u]] \in {"callback", "done"}
        BY <1>2, <1>3, <1>4, <2>1, <2>2
  <2>3. ASSUME NEW u \in Threads, NEW v \in Threads, current'[u] # Null,
               current'[u] = current'[v]
        PROVE  u = v
        BY <1>2, <1>4, <2>1, <2>3 DEF OpsIInv, Taken
  <2> QED
      BY <2>2, <2>3 DEF Taken
<1>8. Quiet'
  <2>1. life = "alive" /\ life' = life
        BY <1>1, <1>2 DEF OpsIInv, Quiet
  <2> QED
      BY <2>1 DEF Quiet
<1>9. PICK s : Lists(s)
      BY DEF OpsIInv
<1>10. /\ Reads(s) /\ s \in Seq(Elements) /\ In(s) = {u \in Elements : phase[u] \in OnItsWay}
       BY <1>9, Members DEF Lists
<1>11. PICK m \in 1..Len(s) : s[m] = o
  <2>1. o \in In(s)
        BY <1>2, <1>10 DEF OnItsWay
  <2> QED
      BY <2>1 DEF In
<1> DEFINE r == Abstract!RemoveAt(s, m)
<1>12. Removed(s, m, r)
       BY <1>10, RemoveAtRemoves
<1> HIDE DEF r
<1>13. Reads(r)'
  <2>1. List!Unlink(s[m])
        BY <1>1, <1>11
  <2> QED
      BY <1>10, <1>12, <2>1, UnlinkReads
<1>14. In(r) = In(s) \ {o}
  <2>1. /\ Len(s) \in Nat /\ m \in 1..Len(s) /\ s[m] = o
        /\ \A i, j \in 1..Len(s) : i # j => s[i] # s[j]
        BY <1>10, <1>11, Members
  <2>2. ASSUME NEW i \in 1..Len(r)
        PROVE  \E j \in 1..Len(s) : j # m /\ r[i] = s[j]
    <3>1. i \in 1..Len(s) - 1 /\ i \in 1..Len(s) /\ i + 1 \in 1..Len(s)
          BY <1>12, <2>1 DEF Removed
    <3>2. CASE i < m
          BY <1>12, <2>1, <3>1, <3>2 DEF Removed
    <3>3. CASE i >= m
      <4>1. i + 1 # m
            BY <2>1, <3>1, <3>3
      <4> QED
          BY <1>12, <3>1, <3>3, <4>1 DEF Removed
    <3> QED
        BY <2>1, <3>1, <3>2, <3>3
  <2>3. ASSUME NEW j \in 1..Len(s), j # m
        PROVE  \E i \in 1..Len(r) : r[i] = s[j]
    <3>1. CASE j < m
      <4>1. j \in 1..Len(s) - 1 /\ j \in 1..Len(r)
            BY <1>12, <2>1, <3>1 DEF Removed
      <4> QED
          BY <1>12, <3>1, <4>1 DEF Removed
    <3>2. CASE j > m
      <4>1. j - 1 \in 1..Len(s) - 1 /\ j - 1 \in 1..Len(r) /\ j - 1 >= m /\ (j - 1) + 1 = j
            BY <1>12, <2>1, <3>2 DEF Removed
      <4>2. r[j - 1] = s[(j - 1) + 1]
            BY <1>12, <4>1 DEF Removed
      <4> QED
          BY <4>1, <4>2
    <3> QED
        BY <2>1, <2>3, <3>1, <3>2
  <2>4. ASSUME NEW e \in In(r) PROVE e \in In(s) /\ e # o
    <3>1. PICK i \in 1..Len(r) : e = r[i]
          BY DEF In
    <3>2. PICK j \in 1..Len(s) : j # m /\ r[i] = s[j]
          BY <2>2
    <3> QED
        BY <2>1, <3>1, <3>2 DEF In
  <2>5. ASSUME NEW e \in In(s), e # o PROVE e \in In(r)
    <3>1. PICK j \in 1..Len(s) : e = s[j]
          BY DEF In
    <3>2. PICK i \in 1..Len(r) : r[i] = s[j]
          BY <2>1, <2>3, <2>5, <3>1
    <3> QED
        BY <3>1, <3>2 DEF In
  <2> QED
      BY <2>4, <2>5
<1>15. Lists(r)'
  <2>1. In(r) = {u \in Elements : phase'[u] \in OnItsWay}
    <3>1. \A u \in Elements : phase'[u] \in OnItsWay <=> phase[u] \in OnItsWay /\ u # o
          BY <1>3 DEF OnItsWay
    <3> QED
        BY <1>10, <1>14, <3>1
  <2> QED
      BY <1>13, <2>1 DEF Lists, In, OnItsWay
<1> QED
    BY <1>5, <1>6, <1>7, <1>8, <1>9, <1>15 DEF OpsIInv, r

\* The operation in a thread's hands moves on, or leaves them.
LEMMA HandsIInv ==
    ASSUME OpsIInv, AioTypeOK', NEW t \in Threads, NEW o, o = current[t], o # Null,
           \/ Move(o, "done") /\ current' = current
           \/ Move(o, "free") /\ current' = [current EXCEPT ![t] = Null],
           UNCHANGED <<batch, life>>, UNCHANGED list
    PROVE  OpsIInv'
<1>1. /\ batch \in [Threads -> SUBSET Elements] /\ batch' = batch
      /\ current \in [Threads -> Elements \cup {Null}] /\ life' = life
      /\ o \in Elements /\ phase[o] \in {"callback", "done"}
      BY DEF OpsIInv, AioTypeOK, Taken
<1>2. PICK x \in {"done", "free"} :
         /\ \A u \in Elements : phase'[u] = IF u = o THEN x ELSE phase[u]
         /\ \A u \in Threads : current'[u] = IF u = t /\ x = "free" THEN Null ELSE current[u]
  <2>1. CASE Move(o, "done") /\ current' = current
    <3>1. \A u \in Elements : phase'[u] = IF u = o THEN "done" ELSE phase[u]
          BY <1>1, <2>1, Moves DEF OpsIInv
    <3> QED
        BY <2>1, <3>1
  <2>2. CASE Move(o, "free") /\ current' = [current EXCEPT ![t] = Null]
    <3>1. \A u \in Elements : phase'[u] = IF u = o THEN "free" ELSE phase[u]
          BY <1>1, <2>2, Moves DEF OpsIInv
    <3>2. \A u \in Threads : current'[u] = IF u = t THEN Null ELSE current[u]
          BY <1>1, <2>2
    <3> QED
        BY <3>1, <3>2
  <2> QED
      BY <2>1, <2>2
<1>3. Got'
  <2>1. \A u \in Threads : \A e \in batch[u] : e \in Elements /\ phase[e] = "event"
        BY <1>1 DEF OpsIInv, Got
  <2> QED
      BY <1>1, <1>2, <2>1 DEF OpsIInv, Got
<1>4. Taken'
  <2>1. \A u \in Threads : current[u] # Null =>
            current[u] \in Elements /\ phase[current[u]] \in {"callback", "done"}
        BY <1>1 DEF OpsIInv, Taken
  <2>2. \A u \in Threads : current[u] = o => u = t
        BY DEF OpsIInv, Taken
  <2>3. ASSUME NEW u \in Threads, current'[u] # Null
        PROVE  phase'[current'[u]] \in {"callback", "done"}
        BY <1>2, <2>1, <2>2, <2>3
  <2>4. ASSUME NEW u \in Threads, NEW v \in Threads, current'[u] # Null,
               current'[u] = current'[v]
        PROVE  u = v
        BY <1>2, <2>4 DEF OpsIInv, Taken
  <2> QED
      BY <2>3, <2>4 DEF Taken
<1>5. Quiet'
      BY <1>1, <1>2 DEF OpsIInv, Quiet
<1>6. PICK s : Lists(s)
      BY DEF OpsIInv
<1>7. Lists(s)'
  <2>1. \A u \in Elements : phase'[u] \in OnItsWay <=> phase[u] \in OnItsWay
        BY <1>1, <1>2 DEF OnItsWay
  <2> QED
      BY <1>6, <2>1, ListKept
<1> QED
    BY <1>3, <1>4, <1>5, <1>7 DEF OpsIInv

\* The steps that leave phase, the threads and ops_ alone.
LEMMA IdleIInv ==
    ASSUME OpsIInv, AioTypeOK', UNCHANGED list, UNCHANGED <<phase, batch, current>>,
           life' = life \/ \A o \in Elements : phase[o] \in {"free", "failed", "done"},
           life = "alive" \/ life' # "alive"
    PROVE  OpsIInv'
<1>1. Got' /\ Taken'
      BY DEF OpsIInv, Got, Taken
<1>2. Quiet'
      BY DEF OpsIInv, Quiet
<1>3. PICK s : Lists(s)
      BY DEF OpsIInv
<1>4. Lists(s)'
      BY <1>3, ListKept
<1> QED
    BY <1>1, <1>2, <1>4 DEF OpsIInv

\* The other steps of clients and of the kernel ...
LEMMA OpIInv ==
    ASSUME OpsIInv, NEW o \in Elements,
           \/ SubmitFails(o) \/ Complete(o) \/ Wait(o) \/ WakeCaller(o)
           \/ \E t \in Threads : Submit(o, t)
    PROVE  OpsIInv' /\ UNCHANGED list
<1>1. CASE SubmitFails(o)
  <2>1. /\ phase[o] = "listed" /\ Move(o, "failed") /\ UNCHANGED list
        /\ UNCHANGED <<ctx, batch, current, caller, done, life, closed, exited>>
        BY <1>1 DEF SubmitFails, threads, sync, processor
  <2>2. AioTypeOK'
        BY <2>1 DEF OpsIInv, AioTypeOK, Move
  <2>3. life = "alive"
        BY <2>1 DEF OpsIInv, Quiet
  <2> QED
      BY <2>1, <2>2, <2>3, MoveIInv DEF OnItsWay
<1>2. CASE Complete(o)
  <2>1. /\ phase[o] = "submitted" /\ Move(o, "complete") /\ UNCHANGED list
        /\ UNCHANGED <<ctx, batch, current, caller, done, life, closed, exited>>
        BY <1>2 DEF Complete, threads, sync, processor
  <2>2. AioTypeOK'
        BY <2>1 DEF OpsIInv, AioTypeOK, Move
  <2>3. life = "alive"
        BY <2>1 DEF OpsIInv, Quiet
  <2> QED
      BY <2>1, <2>2, <2>3, MoveIInv DEF OnItsWay
<1>3. CASE \E t \in Threads : Submit(o, t)
  <2>1. PICK t \in Threads : Submit(o, t)
        BY <1>3
  <2>2. /\ phase[o] = "listed" /\ Move(o, "submitted") /\ UNCHANGED list
        /\ ctx' = [ctx EXCEPT ![o] = t]
        /\ UNCHANGED <<batch, current, caller, done, life, closed, exited>>
        BY <2>1 DEF Submit, threads, sync, processor
  <2>3. AioTypeOK'
        BY <2>2 DEF OpsIInv, AioTypeOK, Move
  <2>4. life = "alive"
        BY <2>2 DEF OpsIInv, Quiet
  <2> QED
      BY <2>2, <2>3, <2>4, MoveIInv DEF OnItsWay
<1>4. CASE Wait(o) \/ WakeCaller(o)
  <2>1. /\ UNCHANGED list
        /\ UNCHANGED <<phase, ctx, batch, current, life, closed, exited>>
        /\ \E x \in {"none", "blocked"} : caller' = [caller EXCEPT ![o] = x]
        /\ done' = done \/ done' = done \ {o}
        BY <1>4 DEF Wait, WakeCaller, Return, CallerAt, threads, processor
  <2>2. AioTypeOK'
        BY <2>1 DEF OpsIInv, AioTypeOK
  <2>3. life' = life /\ (life = "alive" \/ life' # "alive")
        BY <2>1
  <2> QED
      BY <2>1, <2>2, <2>3, IdleIInv
<1> QED
    BY <1>1, <1>2, <1>3, <1>4

\* ... of the callback ...
LEMMA HandIInv ==
    ASSUME OpsIInv, NEW t \in Threads, CallBack(t) \/ Done(t) \/ Broadcast(t)
    PROVE  OpsIInv' /\ UNCHANGED list
<1> DEFINE o == current[t]
<1>1. o # Null /\ o \in Elements
      BY DEF CallBack, Done, Broadcast, OpsIInv, AioTypeOK
<1>2. CASE Done(t)
  <2>1. /\ Move(o, "done") /\ done' = done \cup {o} /\ UNCHANGED list
        /\ UNCHANGED <<ctx, batch, current, caller, life, closed, exited>>
        BY <1>2 DEF Done, threads, processor
  <2>2. AioTypeOK'
        BY <1>1, <2>1 DEF OpsIInv, AioTypeOK, Move
  <2> QED
      BY <1>1, <2>1, <2>2, HandsIInv
<1>3. CASE CallBack(t) \/ Broadcast(t)
  <2>1. /\ Move(o, "free") /\ current' = [current EXCEPT ![t] = Null] /\ UNCHANGED list
        /\ caller' = caller \/ caller' = [caller EXCEPT ![o] = "woken"]
        /\ UNCHANGED <<ctx, batch, done, life, closed, exited>>
        BY <1>3 DEF CallBack, Broadcast, Delete, CallerAt, sync, processor
  <2>2. AioTypeOK'
        BY <1>1, <2>1 DEF OpsIInv, AioTypeOK, Move
  <2> QED
      BY <1>1, <2>1, <2>2, HandsIInv
<1> QED
    BY <1>2, <1>3

\* ... and of the destructor leave ops_ alone.
LEMMA LifeIInv ==
    ASSUME OpsIInv,
           \/ Destroy \/ Join \/ UNCHANGED aioVars
           \/ \E t \in Threads : IoDestroy(t) \/ Exit(t)
    PROVE  OpsIInv' /\ UNCHANGED list
<1>1. /\ UNCHANGED list /\ UNCHANGED <<phase, ctx, batch, current, caller, done>>
      /\ life = "alive" \/ life' # "alive"
      /\ life' = life \/ \A o \in Elements : phase[o] \in {"free", "failed", "done"}
      /\ life' \in {"alive", "destroying", "destroyed"}
      /\ closed' \subseteq Threads /\ exited' \subseteq Threads
  <2>1. CASE Destroy
        BY <2>1 DEF Destroy, Answered, threads, sync, OpsIInv, AioTypeOK
  <2>2. CASE Join
        BY <2>2 DEF Join, threads, sync, OpsIInv, AioTypeOK, Quiet
  <2>3. CASE UNCHANGED aioVars
        BY <2>3 DEF aioVars, threads, sync, processor, OpsIInv, AioTypeOK
  <2>4. CASE \E t \in Threads : IoDestroy(t) \/ Exit(t)
        BY <2>4 DEF IoDestroy, Exit, threads, sync, OpsIInv, AioTypeOK
  <2> QED
      BY <2>1, <2>2, <2>3, <2>4
<1>2. AioTypeOK'
      BY <1>1 DEF OpsIInv, AioTypeOK
<1> QED
    BY <1>1, <1>2, IdleIInv

\* Every step keeps the invariant, and what it does to ops_ is nothing, an
\* append or the removal of one operation.
LEMMA OpsStep ==
    ASSUME OpsIInv, [AioNext]_aioVars
    PROVE  /\ OpsIInv'
           /\ \/ UNCHANGED list
              \/ \E s : \E o \in Elements : Lists(s) /\ o \notin In(s) /\ Lists(Append(s, o))'
              \/ \E s : \E m \in 1..Len(s) : Lists(s) /\ Lists(Abstract!RemoveAt(s, m))'
<1>1. CASE \E o \in Elements : Write(o)
      BY <1>1, WriteStep
<1>2. CASE \E o \in Elements : \/ SubmitFails(o) \/ Complete(o) \/ Wait(o) \/ WakeCaller(o)
                               \/ \E t \in Threads : Submit(o, t)
      BY <1>2, OpIInv
<1>3. CASE \E t \in Threads : GetEvents(t)
  <2>1. UNCHANGED list
        BY <1>3 DEF GetEvents
  <2> QED
      BY <1>3, <2>1, GetEventsIInv
<1>4. CASE \E t \in Threads : Unlink(t)
      BY <1>4, UnlinkStep
<1>5. CASE \E t \in Threads : CallBack(t) \/ Done(t) \/ Broadcast(t)
      BY <1>5, HandIInv
<1>6. CASE \/ Destroy \/ Join \/ UNCHANGED aioVars
           \/ \E t \in Threads : IoDestroy(t) \/ Exit(t)
      BY <1>6, LifeIInv
<1> QED
    BY <1>1, <1>2, <1>3, <1>4, <1>5, <1>6 DEF AioNext, ThreadStep

\* The invariant holds at the start ...
LEMMA InitOpsIInv == AioInit => OpsIInv /\ Reads(<<>>)
<1> SUFFICES ASSUME AioInit PROVE OpsIInv /\ Reads(<<>>)
    OBVIOUS
<1>1. /\ List!Init
      /\ phase = [o \in Elements |-> "free"] /\ ctx = [o \in Elements |-> Null]
      /\ batch = [t \in Threads |-> {}] /\ current = [t \in Threads |-> Null]
      /\ caller = [o \in Elements |-> "none"] /\ done = {}
      /\ life = "alive" /\ closed = {} /\ exited = {}
      BY DEF AioInit
<1>2. AioTypeOK
      BY <1>1 DEF AioTypeOK
<1>3. Got /\ Taken /\ Quiet
      BY <1>1 DEF Got, Taken, Quiet
<1>4. Reads(<<>>)
      BY <1>1, EmptyReads
<1>5. Lists(<<>>)
  <2>1. In(<<>>) = {}
    <3>1. \A i \in 1..Len(<<>>) : FALSE
          BY EmptySeq
    <3> QED
        BY <3>1 DEF In
  <2>2. {o \in Elements : phase[o] \in OnItsWay} = {}
        BY <1>1 DEF OnItsWay
  <2> QED
      BY <1>4, <2>1, <2>2 DEF Lists
<1> QED
    BY <1>2, <1>3, <1>4, <1>5 DEF OpsIInv

\* ... and so always.
LEMMA SpecOpsIInv == AioSpec => []OpsIInv
<1>1. AioInit => OpsIInv
      BY InitOpsIInv
<1>2. OpsIInv /\ [AioNext]_aioVars => OpsIInv'
      BY OpsStep
<1> QED
    BY <1>1, <1>2, PTL DEF AioSpec

\* When a client that has got its answers destroys the processor, no thread needs
\* lock_ any more and ops_ holds only what io_submit refused, for any number of
\* operations and threads.
THEOREM DestructionCleanHolds == AioSpec => []DestructionClean
<1>1. OpsIInv => DestructionClean
  <2> SUFFICES ASSUME OpsIInv, life # "alive"
               PROVE  /\ \A t \in Threads : batch[t] = {}
                      /\ List!Linked = {o \in Elements : phase[o] = "failed"}
      BY DEF DestructionClean
  <2>1. \A o \in Elements : phase[o] \in {"free", "failed", "done"}
        BY DEF OpsIInv, Quiet
  <2>2. \A t \in Threads : batch[t] = {}
    <3>1. \A t \in Threads : \A o \in batch[t] : o \in Elements /\ phase[o] = "event"
          BY DEF OpsIInv, AioTypeOK, Got
    <3> QED
        BY <2>1, <3>1
  <2>3. PICK s : Lists(s)
        BY DEF OpsIInv
  <2>4. List!Linked = {o \in Elements : phase[o] \in OnItsWay}
        BY <2>3, ContentsAre DEF Lists
  <2>5. \A o \in Elements : phase[o] \in OnItsWay <=> phase[o] = "failed"
        BY <2>1 DEF OnItsWay
  <2> QED
      BY <2>2, <2>4, <2>5
<1> QED
    BY <1>1, SpecOpsIInv, PTL

\* What Contents is, now and in the next state.
LEMMA ContentsBecome ==
    /\ \A s : Reads(s) => List!Contents = s
    /\ \A s : Reads(s)' => List!Contents' = s
<1>1. \A s : Reads(s) => List!Contents = s
      BY ContentsAre
<1>2. (\A s : Reads(s) => List!Contents = s)'
      BY <1>1, PTL
<1> QED
    BY <1>1, <1>2

\* The ASSERTs of the intrusive list hold at every step and ops_ is a queue from
\* which elements are taken anywhere, whichever threads complete operations in
\* whatever order.
THEOREM QueueImplementedHolds == AioSpec => QueueImplemented
<1>1. OpsIInv => ListSound
      BY ReadsSound DEF OpsIInv, Lists
<1>2. AioInit => Abstract!Init
      BY InitOpsIInv, ContentsBecome DEF Abstract!Init
<1>3. OpsIInv /\ [AioNext]_aioVars => [Abstract!Next]_(List!Contents)
  <2> SUFFICES ASSUME OpsIInv, [AioNext]_aioVars
               PROVE  Abstract!Next \/ List!Contents' = List!Contents
      OBVIOUS
  <2>1. CASE UNCHANGED list
    <3>1. PICK s : Reads(s)
          BY DEF OpsIInv, Lists
    <3>2. Reads(s)'
          BY <2>1, <3>1, Unread DEF list
    <3> QED
        BY <3>1, <3>2, ContentsBecome
  <2>2. CASE \E s : \E o \in Elements : Lists(s) /\ o \notin In(s) /\ Lists(Append(s, o))'
    <3>0. PICK s : \E o \in Elements : Lists(s) /\ o \notin In(s) /\ Lists(Append(s, o))'
          BY <2>2
    <3>1. PICK o \in Elements : Lists(s) /\ o \notin In(s) /\ Lists(Append(s, o))'
          BY <3>0
    <3>2. List!Contents = s /\ List!Contents' = Append(s, o)
          BY <3>1, ContentsBecome DEF Lists
    <3>3. o \notin Abstract!Range(s)
      <4>1. DOMAIN s = 1..Len(s)
            BY <3>1, LenProperties DEF Lists, Reads
      <4> QED
          BY <3>1, <4>1 DEF In, Abstract!Range
    <3>4. Abstract!Push(o)
          BY <3>2, <3>3 DEF Abstract!Push
    <3> QED
        BY <3>4 DEF Abstract!Next
  <2>3. CASE \E s : \E m \in 1..Len(s) : Lists(s) /\ Lists(Abstract!RemoveAt(s, m))'
    <3>1. PICK s : \E m \in 1..Len(s) : Lists(s) /\ Lists(Abstract!RemoveAt(s, m))'
          BY <2>3
    <3>2. PICK m \in 1..Len(s) : Lists(s) /\ Lists(Abstract!RemoveAt(s, m))'
          BY <3>1
    <3>3. List!Contents = s /\ List!Contents' = Abstract!RemoveAt(s, m)
          BY <3>2, ContentsBecome DEF Lists
    <3>4. m \in DOMAIN s /\ s[m] \in Elements
          BY <3>2, LenProperties, ElementOfSeq DEF Lists, Reads
    <3>5. Abstract!Unlink(s[m])
          BY <3>3, <3>4 DEF Abstract!Unlink
    <3> QED
        BY <3>4, <3>5 DEF Abstract!Next
  <2> QED
      BY <2>1, <2>2, <2>3, OpsStep
<1> QED
    BY <1>1, <1>2, <1>3, SpecOpsIInv, PTL DEF AioSpec, QueueImplemented, Abstract!Spec
=============================================================================
