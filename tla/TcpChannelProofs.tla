-------------------------- MODULE TcpChannelProofs --------------------------
(***************************************************************************)
(* Proofs about TcpChannel: for any sizes of the writes and the reads, any *)
(* number of requests, any space in the socket and any bytes that come.    *)
(* Byte n of the stream is compared with byte n of what was asked, so the  *)
(* proofs need facts about FlattenSeq, which the module proves first.      *)
(***************************************************************************)
EXTENDS TcpChannel, FiniteSetTheorems, SequenceTheorems, WellFoundedInduction, TLAPS

-----------------------------------------------------------------------------
(* FlattenSeq over sequences of any length.                                 *)

\* Induction, for a set of numbers: one that holds 0 and is closed under adding
\* one holds every number.  Were m missing, the intervals 0..k that end at a
\* missing number would have a smallest one, and it has not.
LEMMA SetInduction ==
    ASSUME NEW S, 0 \in S, \A n \in Nat : n \in S => n + 1 \in S
    PROVE  Nat \subseteq S
<1> SUFFICES ASSUME NEW m \in Nat, m \notin S PROVE FALSE
    OBVIOUS
<1> DEFINE T == {U \in SUBSET (0..m) : \E k \in Nat : k \notin S /\ U = 0..k}
<1>1. IsFiniteSet(0..m)
      BY FS_Interval
<1>2. T \subseteq FiniteSubsetsOf(0..m)
      BY <1>1, FS_Subset DEF FiniteSubsetsOf
<1>3. 0..m \in T
      OBVIOUS
<1>4. PICK U \in T : \A V \in T : ~(<<V, U>> \in StrictSubsetOrdering(0..m))
  <2>1. IsWellFoundedOn(StrictSubsetOrdering(0..m), FiniteSubsetsOf(0..m))
        BY FS_StrictSubsetOrderingWellFounded
  <2> HIDE DEF T
  <2> QED
      BY <2>1, <1>2, <1>3, WFMin
<1>5. PICK k \in Nat : k \notin S /\ U = 0..k
      OBVIOUS
<1>6. k - 1 \in Nat /\ k - 1 \notin S
      BY <1>5
<1>7. 0..(k-1) \in T
      BY <1>5, <1>6
<1>8. /\ 0..(k-1) \in SUBSET (0..m) /\ U \in SUBSET (0..m)
      /\ 0..(k-1) \subseteq U /\ 0..(k-1) # U
  <2>1. k \in 0..k /\ k \notin 0..(k-1) /\ 0..(k-1) \subseteq 0..k
        BY <1>6
  <2>2. 0..(k-1) \in SUBSET (0..m) /\ U \in SUBSET (0..m)
        BY <1>7
  <2> QED
      BY <1>5, <2>1, <2>2
<1>9. <<0..(k-1), U>> \in StrictSubsetOrdering(0..m)
      BY <1>8, Zenon DEF StrictSubsetOrdering
<1> QED
    BY <1>4, <1>7, <1>9

\* f is the recursive function by which FlattenSeq is defined.
IsFlatten(f, seqs, n) ==
    f = [i \in 1..n |-> IF i = 1 THEN seqs[i] ELSE f[i - 1] \o seqs[i]]

Joins(u, s, t) == u = s \o t
Agree(s, t, n) == \A i \in 1..n : s[i] = t[i]

\* What the recursive function inside FlattenSeq says at one index.
LEMMA FlattenAt ==
    ASSUME NEW seqs, NEW n \in Nat, NEW f, IsFlatten(f, seqs, n), NEW i \in 1..n
    PROVE  f[i] = IF i = 1 THEN seqs[i] ELSE f[i - 1] \o seqs[i]
<1> DEFINE h == [j \in 1..n |-> IF j = 1 THEN seqs[j] ELSE f[j - 1] \o seqs[j]]
<1>1. f = h
      BY DEF IsFlatten
<1>2. h[i] = IF i = 1 THEN seqs[i] ELSE f[i - 1] \o seqs[i]
      OBVIOUS
<1> HIDE DEF h
<1> QED
    BY <1>1, <1>2

\* The recursive function inside FlattenSeq exists for every length, ...
LEMMA FlattenExists ==
    ASSUME NEW seqs, NEW n \in Nat
    PROVE  \E f : IsFlatten(f, seqs, n)
<1> DEFINE S == {k \in Nat : \E f : IsFlatten(f, seqs, k)}
<1>1. 0 \in S
  <2> DEFINE f == [i \in 1..0 |-> seqs[i]]
  <2>1. IsFlatten(f, seqs, 0)
        BY DEF IsFlatten
  <2> QED
      BY <2>1
<1>2. ASSUME NEW k \in Nat, k \in S PROVE k + 1 \in S
  <2>1. PICK f : IsFlatten(f, seqs, k)
        BY <1>2
  <2> DEFINE g == [i \in 1..(k + 1) |->
                     IF i \in 1..k THEN f[i] ELSE IF i = 1 THEN seqs[i] ELSE f[k] \o seqs[i]]
  <2>2. \A i \in 1..(k + 1) : g[i] = IF i = 1 THEN seqs[i] ELSE g[i - 1] \o seqs[i]
    <3> TAKE i \in 1..(k + 1)
    <3>1. CASE i \in 1..k
      <4>1. f[i] = IF i = 1 THEN seqs[i] ELSE f[i - 1] \o seqs[i]
            BY <2>1, <3>1, FlattenAt
      <4>2. i # 1 => i - 1 \in 1..k /\ i - 1 \in 1..(k + 1)
            BY <3>1
      <4> QED
          BY <3>1, <4>1, <4>2
    <3>2. CASE i = k + 1
          BY <3>2
    <3> QED
        BY <3>1, <3>2
  <2> HIDE DEF g
  <2> DEFINE h == [i \in 1..(k + 1) |-> IF i = 1 THEN seqs[i] ELSE g[i - 1] \o seqs[i]]
  <2>3. g = h
        BY <2>2, Zenon DEF g
  <2>4. IsFlatten(g, seqs, k + 1)
        BY <2>3, Zenon DEF IsFlatten
  <2> QED
      BY <2>4
<1>3. n \in S
  <2> HIDE DEF S
  <2> QED
      BY <1>1, <1>2, SetInduction
<1> QED
    BY <1>3

\* ... and for a sequence with one more element it is the same, one step longer.
LEMMA FlattenExtends ==
    ASSUME NEW s, NEW t, NEW m \in Nat, NEW f, NEW g, m # 0,
           IsFlatten(f, s, m), IsFlatten(g, t, m + 1), Agree(s, t, m)
    PROVE  Joins(g[m + 1], f[m], t[m + 1])
<1> DEFINE S == {k \in Nat : k \in 1..m => f[k] = g[k]}
<1>1. 0 \in S
      OBVIOUS
<1>2. ASSUME NEW k \in Nat, k \in S PROVE k + 1 \in S
  <2> SUFFICES ASSUME k + 1 \in 1..m PROVE f[k + 1] = g[k + 1]
      OBVIOUS
  <2>1. f[k + 1] = IF k + 1 = 1 THEN s[k + 1] ELSE f[k + 1 - 1] \o s[k + 1]
        BY FlattenAt
  <2>2. m + 1 \in Nat /\ k + 1 \in 1..(m + 1)
        OBVIOUS
  <2>3. g[k + 1] = IF k + 1 = 1 THEN t[k + 1] ELSE g[k + 1 - 1] \o t[k + 1]
        BY <2>2, FlattenAt
  <2>4. k # 0 => f[k] = g[k]
        BY <1>2
  <2> QED
      BY <2>1, <2>3, <2>4 DEF Agree
<1> HIDE DEF S
<1>3. Nat \subseteq S
      BY <1>1, <1>2, SetInduction
<1>4. f[m] = g[m]
      BY <1>3 DEF S
<1>5. m + 1 \in Nat /\ m + 1 \in 1..(m + 1)
      OBVIOUS
<1>6. g[m + 1] = IF m + 1 = 1 THEN t[m + 1] ELSE g[m + 1 - 1] \o t[m + 1]
      BY <1>5, FlattenAt
<1>7. m + 1 # 1 /\ m + 1 - 1 = m
      OBVIOUS
<1> QED
    BY <1>4, <1>6, <1>7 DEF Joins

\* FlattenSeq of what is not empty is the last value of that function.
LEMMA FlattenIs ==
    ASSUME NEW T, NEW seqs \in Seq(T), seqs # <<>>
    PROVE  \E f : IsFlatten(f, seqs, Len(seqs)) /\ FlattenSeq(seqs) = f[Len(seqs)]
<1> DEFINE f == CHOOSE f : IsFlatten(f, seqs, Len(seqs))
<1>1. IsFlatten(f, seqs, Len(seqs))
      BY FlattenExists
<1>2. FlattenSeq(seqs) = f[Len(seqs)]
      BY DEF FlattenSeq, IsFlatten
<1> QED
    BY <1>1, <1>2

\* Nothing flattens to nothing, ...
LEMMA FlattenEmpty == FlattenSeq(<<>>) = <<>>
BY DEF FlattenSeq

\* ... one sequence flattens to itself, ...
LEMMA FlattenOne ==
    ASSUME NEW T, NEW e \in T
    PROVE  FlattenSeq(<<e>>) = e
<1>1. PICK f : IsFlatten(f, <<e>>, 1) /\ FlattenSeq(<<e>>) = f[1]
  <2>1. <<e>> \in Seq(T) /\ <<e>> # <<>> /\ Len(<<e>>) = 1
        OBVIOUS
  <2> QED
      BY <2>1, FlattenIs
<1> QED
    BY <1>1 DEF IsFlatten

\* ... an element more is concatenated, ...
LEMMA FlattenAppend ==
    ASSUME NEW T, NEW s \in Seq(T), NEW e \in T, s # <<>>
    PROVE  FlattenSeq(Append(s, e)) = FlattenSeq(s) \o e
<1> DEFINE t == Append(s, e)
<1>1. /\ t \in Seq(T) /\ t # <<>> /\ Len(t) = Len(s) + 1 /\ t[Len(s) + 1] = e
      /\ \A i \in 1..Len(s) : s[i] = t[i]
      /\ Len(s) \in Nat \ {0}
      OBVIOUS
<1> HIDE DEF t
<1>2. PICK f : IsFlatten(f, s, Len(s)) /\ FlattenSeq(s) = f[Len(s)]
      BY FlattenIs
<1>3. PICK g : IsFlatten(g, t, Len(t)) /\ FlattenSeq(t) = g[Len(t)]
      BY <1>1, FlattenIs
<1>4. PICK m \in Nat : m = Len(s)
      BY <1>1
<1>5. /\ m # 0 /\ IsFlatten(f, s, m) /\ IsFlatten(g, t, m + 1)
      /\ Agree(s, t, m)
      BY <1>1, <1>2, <1>3, <1>4 DEF Agree
<1>6. Joins(g[m + 1], f[m], t[m + 1])
      BY <1>5, FlattenExtends
<1> QED
    BY <1>1, <1>2, <1>3, <1>4, <1>6 DEF t, Joins

\* ... and the elements stay those of the sequences.
LEMMA FlattenType ==
    ASSUME NEW E, NEW s \in Seq(Seq(E))
    PROVE  FlattenSeq(s) \in Seq(E)
<1>1. CASE s = <<>>
      BY <1>1 DEF FlattenSeq
<1>2. CASE s # <<>>
  <2>1. PICK f : IsFlatten(f, s, Len(s)) /\ FlattenSeq(s) = f[Len(s)]
        BY <1>2, FlattenIs
  <2> DEFINE S == {k \in Nat : k \in 1..Len(s) => f[k] \in Seq(E)}
  <2>2. 0 \in S
        OBVIOUS
  <2>3. ASSUME NEW k \in Nat, k \in S PROVE k + 1 \in S
    <3> SUFFICES ASSUME k + 1 \in 1..Len(s) PROVE f[k + 1] \in Seq(E)
        OBVIOUS
    <3>1. f[k + 1] = IF k + 1 = 1 THEN s[k + 1] ELSE f[k + 1 - 1] \o s[k + 1]
          BY <2>1, FlattenAt
    <3>2. s[k + 1] \in Seq(E)
          OBVIOUS
    <3>3. k # 0 => f[k] \in Seq(E)
          BY <2>3
    <3> QED
        BY <3>1, <3>2, <3>3
  <2> HIDE DEF S
  <2>4. Nat \subseteq S
        BY <2>2, <2>3, SetInduction
  <2> QED
      BY <2>1, <2>4, <1>2 DEF S
<1> QED
    BY <1>1, <1>2

-----------------------------------------------------------------------------
\* The inductive invariant.  First the types, with lists as sequences, ...
Buffer == [n : 1..MaxWrites, left : 1..MaxSize]
Reading == [n : 1..MaxReads, size : 1..MaxSize, peek : BOOLEAN, data : Seq(Nat)]
Byte == (1..MaxWrites) \X (1..MaxSize)

Typed ==
    /\ holder \in {None, "client", "poller"}
    /\ wpending \in Seq(Buffer)
    /\ rpending \in Reading \cup {None}
    /\ rpending # None => Len(rpending.data) < rpending.size
    /\ stop \in {"no", "scheduled", "done"}
    /\ aborted \in BOOLEAN /\ registered \in BOOLEAN /\ edge \in BOOLEAN /\ cut \in BOOLEAN
    /\ reported \in (SUBSET {"in", "out", "err"}) \cup {None}
    /\ room \in 0..SendBuffer /\ arrived \in Nat /\ taken \in 0..arrived
    /\ connection \in {"up", "eof", "broken", "closed"}
    /\ writes \in Seq(1..MaxSize) /\ Len(writes) <= MaxWrites
    /\ reads \in 0..MaxReads /\ failures \in Nat
    /\ answers \in [Requests -> Nat]
    /\ failed \subseteq Requests
    /\ sent \in Seq(Byte) /\ got \in Seq(Nat)

\* ... then, while the program runs: wpending_ holds one buffer at most, of the
\* last Write, and one that nobody is writing means that a call has failed, ...
OneBuffer ==
    /\ wpending = <<>> \/ (Len(wpending) = 1 /\ wpending[1].n = Len(writes))
    /\ wpending # <<>> =>
         /\ Len(writes) > 0 /\ wpending[1].left <= writes[Len(writes)]
         /\ answers[W(Len(writes))] = 0 \/ W(Len(writes)) \in failed
         /\ holder = None => failed # {}
    /\ holder = "client" => Len(writes) > 0 /\ answers[W(Len(writes))] = 0
    /\ holder = "poller" => reported # None

\* ... rpending_ is the last read, not answered unless it met a failing call, ...
OneRead ==
    rpending # None => /\ rpending.n = reads
                       /\ answers[R(reads)] = 0 \/ R(reads) \in failed

\* ... a request without an answer is the one in wpending_ or in rpending_, or
\* the one that Write is about to answer, ...
Answering ==
    /\ \A q \in Requests \ Made : answers[q] = 0
    /\ \A q \in Made : answers[q] = 0 =>
         \/ q = W(Len(writes)) /\ (wpending # <<>> \/ holder = "client")
         \/ q = R(reads) /\ rpending # None

\* ... after BarrierDone nothing is pending, ...
Stopped == stop = "done" => wpending = <<>> /\ rpending = None /\ holder # "client"

\* ... EPOLLERR is reported of a broken connection only, ...
ErrIsBroken == reported # None /\ "err" \in reported => connection = "broken"

\* ... what was taken from the socket is what the reads returned and the bytes of
\* the read that is pending, in the order in which they came, ...
Input(r, t, g) ==
    IF r # None /\ ~r.peek
      THEN /\ t = Len(g) + Len(r.data)
           /\ \A i \in 1..Len(r.data) : r.data[i] = Len(g) + i
      ELSE t = Len(g)

InputSound == stop # "done" => Input(rpending, taken, got)

\* ... and what was sent, with the buffer that is pending, is what was written.
OutputSound ==
    stop # "done" /\ ~cut =>
      IF wpending = <<>> THEN sent = Written
        ELSE /\ wpending[1].left = writes[Len(writes)]
             /\ Written = sent \o Iovec(wpending[1])

Sound == /\ OneBuffer /\ OneRead /\ Answering /\ Stopped /\ ErrIsBroken
         /\ InputSound /\ OutputSound

IInv == /\ Typed /\ OnlyFailuresAbort /\ AnsweredOnce /\ StreamPreserved
        /\ (Running => Sound)

-----------------------------------------------------------------------------
(* What the operators of the model do.                                      *)

\* Requests are the writes and the reads, all different.
LEMMA RequestsAre ==
    /\ \A n \in 1..MaxWrites : W(n) \in Requests
    /\ \A n \in 1..MaxReads : R(n) \in Requests
    /\ \A m, n : W(m) = W(n) => m = n
    /\ \A m, n : R(m) = R(n) => m = n
    /\ \A m, n : W(m) # R(n)
BY DEF Requests, W, R

\* The calls that were made are among them.
LEMMA MadeAre == Typed => Made \subseteq Requests
<1>1. Typed => /\ Len(writes) \in Nat /\ Len(writes) <= MaxWrites
               /\ reads \in Nat /\ reads <= MaxReads
      BY BoundsAssumption, LenProperties DEF Typed
<1> QED
    BY <1>1, BoundsAssumption DEF Made, Requests

\* Answer adds one to the answers of its requests and leaves the others.
LEMMA AnswerIs ==
    ASSUME Typed, NEW qs, Answer(qs)
    PROVE  /\ answers' \in [Requests -> Nat]
           /\ \A q \in Requests : q \in qs => answers'[q] = answers[q] + 1
           /\ \A q \in Requests : q \notin qs => answers'[q] = answers[q]
BY DEF Typed, Answer

\* The bytes of a buffer that are still to be sent.
LEMMA IovecIs ==
    ASSUME NEW w \in Buffer
    PROVE  /\ Iovec(w) \in Seq(Byte) /\ Len(Iovec(w)) = w.left
           /\ w.left \in 1..MaxSize /\ w.n \in 1..MaxWrites
<1>1. w.left \in 1..MaxSize /\ w.n \in 1..MaxWrites /\ w.left \in Nat
      BY BoundsAssumption DEF Buffer
<1>2. \A b \in 1..w.left : <<w.n, b>> \in Byte
      BY <1>1, BoundsAssumption DEF Byte
<1>3. Iovec(w) \in [1..w.left -> Byte]
      BY <1>2 DEF Iovec
<1> QED
    BY <1>1, <1>3

\* A sequence of length one, and its parts.
LEMMA OneElement ==
    ASSUME NEW T, NEW s \in Seq(T), Len(s) = 1
    PROVE  s[1] \in T /\ s = <<s[1]>> /\ DOMAIN s = {1}
<1>1. s \in [1..1 -> T] /\ DOMAIN s = 1..1
      BY LenProperties
<1>2. s[1] \in T
      BY <1>1
<1>3. <<s[1]>> \in Seq(T) /\ Len(<<s[1]>>) = 1 /\ <<s[1]>>[1] = s[1]
      BY <1>2
<1>4. s = <<s[1]>>
      BY <1>3, SeqEqual
<1> QED
    BY <1>1, <1>2, <1>4

LEMMA SubSeqOne ==
    ASSUME NEW T, NEW e \in T
    PROVE  SubSeq(<<e>>, 1, 0) = <<>> /\ SubSeq(<<e>>, 1, 1) = <<e>>
<1>1. <<e>> \in Seq(T) /\ Len(<<e>>) = 1
      OBVIOUS
<1>2. SubSeq(<<e>>, 1, Len(<<e>>)) = <<e>>
      BY <1>1, SubSeqFull
<1>3. SubSeq(<<e>>, 1, 0) = <<>>
      BY SubSeqEmpty
<1> QED
    BY <1>1, <1>2, <1>3

\* With one buffer in wpending_, the iovec of writev is that buffer, and the loop
\* that trims the list drops it when all of it was written and cuts it otherwise.
LEMMA PendingIs ==
    ASSUME Typed, Len(wpending) = 1
    PROVE  /\ wpending[1] \in Buffer /\ wpending = <<wpending[1]>>
           /\ Pending = Iovec(wpending[1]) /\ Len(Pending) = wpending[1].left
           /\ UpTo(0) = 0 /\ UpTo(1) = wpending[1].left
           /\ \A b \in Nat : Whole(b) = IF wpending[1].left <= b THEN 1 ELSE 0
<1>1. wpending[1] \in Buffer /\ wpending = <<wpending[1]>> /\ DOMAIN wpending = {1}
      BY OneElement DEF Typed
<1>2. Iovecs = <<Iovec(wpending[1])>>
      BY <1>1 DEF Iovecs
<1>3. Iovec(wpending[1]) \in Seq(Byte) /\ Len(Iovec(wpending[1])) = wpending[1].left
      BY <1>1, IovecIs
<1>4. FlattenSeq(<<Iovec(wpending[1])>>) = Iovec(wpending[1])
      BY <1>3, FlattenOne
<1>5. /\ SubSeq(<<Iovec(wpending[1])>>, 1, 0) = <<>>
      /\ SubSeq(<<Iovec(wpending[1])>>, 1, 1) = <<Iovec(wpending[1])>>
      BY <1>3, SubSeqOne
<1>6. UpTo(0) = 0 /\ UpTo(1) = wpending[1].left
  <2>1. UpTo(0) = Len(<<>>)
        BY <1>2, <1>5, FlattenEmpty DEF UpTo
  <2>2. UpTo(1) = Len(Iovec(wpending[1]))
        BY <1>2, <1>4, <1>5 DEF UpTo
  <2> QED
      BY <1>3, <2>1, <2>2
<1>7. ASSUME NEW b \in Nat PROVE Whole(b) = IF wpending[1].left <= b THEN 1 ELSE 0
  <2>1. {i \in DOMAIN wpending : UpTo(i) <= b} = IF wpending[1].left <= b THEN {1} ELSE {}
        BY <1>1, <1>6
  <2> QED
      BY <2>1, FS_EmptySet, FS_Singleton DEF Whole
<1> QED
    BY <1>1, <1>2, <1>3, <1>4, <1>6, <1>7 DEF Pending

\* A writev of the one buffer sends all of it, which empties wpending_ and, on the
\* polling thread, answers the request; or it fills the socket and cuts the buffer.
LEMMA WritevIs ==
    ASSUME Typed, OneBuffer, Writev
    PROVE  /\ Running /\ holder # None /\ Len(wpending) = 1
           /\ UNCHANGED <<holder, rpending, stop, aborted, registered, edge, reported, arrived,
                          taken, connection, writes, reads, failures, failed, got>>
           /\ \/ /\ room' = room - wpending[1].left /\ room' \in 0..SendBuffer
                 /\ sent' = sent \o Iovec(wpending[1])
                 /\ wpending' = <<>>
                 /\ cut' = cut
                 /\ IF holder = "poller" THEN Answer({W(wpending[1].n)})
                                         ELSE answers' = answers
              \/ /\ room \in Nat /\ room > 0 /\ room < wpending[1].left
                 /\ room' = 0
                 /\ sent' = sent \o SubSeq(Iovec(wpending[1]), 1, room)
                 /\ wpending' = <<[n |-> wpending[1].n, left |-> wpending[1].left - room]>>
                 /\ cut' = TRUE
                 /\ answers' = answers
<1> DEFINE w == wpending[1]
<1>1. Len(wpending) = 1
      BY DEF OneBuffer, Writev
<1>2. /\ w \in Buffer /\ wpending = <<w>>
      /\ Pending = Iovec(w) /\ Len(Pending) = w.left
      /\ UpTo(0) = 0 /\ UpTo(1) = w.left
      /\ \A b \in Nat : Whole(b) = IF w.left <= b THEN 1 ELSE 0
      BY <1>1, PendingIs
<1>3. /\ Iovec(w) \in Seq(Byte) /\ Len(Iovec(w)) = w.left
      /\ w.left \in Nat /\ w.left > 0 /\ w.n \in Nat
      /\ w = [n |-> w.n, left |-> w.left]
      BY <1>2, IovecIs, BoundsAssumption DEF Buffer
<1>4. /\ room \in Nat /\ room > 0 /\ SendBuffer \in Nat /\ room <= SendBuffer
      BY BoundsAssumption DEF Typed, Writev
<1>5. /\ Running /\ holder # None
      /\ UNCHANGED <<holder, rpending, stop, aborted, registered, edge, reported, arrived,
                     taken, connection, writes, reads, failures, failed, got>>
      BY DEF Writev, Locked, epoll, counts
<1>6. CASE w.left <= room
  <2>1. Whole(w.left) = 1
        BY <1>2, <1>3
  <2>2. (IF Len(Pending) < room THEN Len(Pending) ELSE room) = w.left
        BY <1>2, <1>3, <1>4, <1>6
  <2>3. Trim(w.left) = <<>>
        BY <1>1, <2>1 DEF Trim
  <2>4. SubSeq(Pending, 1, w.left) = Iovec(w)
        BY <1>2, <1>3, SubSeqFull
  <2>5. {W(wpending[i].n) : i \in 1..1} = {W(w.n)}
        OBVIOUS
  <2>6. /\ room' = room - w.left
        /\ sent' = sent \o Iovec(w)
        /\ wpending' = <<>>
        /\ cut' = (cut \/ UpTo(1) # w.left)
        /\ IF holder = "poller" THEN Answer({W(w.n)}) ELSE answers' = answers
        BY <2>1, <2>2, <2>3, <2>4, <2>5 DEF Writev
  <2>7. cut' = cut
        BY <1>2, <2>6 DEF Typed
  <2> QED
      BY <1>1, <1>3, <1>4, <1>5, <1>6, <2>6, <2>7
<1>7. CASE ~(w.left <= room)
  <2>1. Whole(room) = 0
        BY <1>2, <1>4, <1>7
  <2>2. (IF Len(Pending) < room THEN Len(Pending) ELSE room) = room
        BY <1>2, <1>3, <1>4, <1>7
  <2>3. Trim(room) = <<[n |-> w.n, left |-> w.left - room]>>
    <3>1. SubSeq(wpending, 2, 1) = <<>>
          BY SubSeqEmpty
    <3>2. [w EXCEPT !.left = @ - (room - 0)] = [n |-> w.n, left |-> w.left - room]
          BY <1>3, <1>4
    <3>3. Trim(room) = <<[w EXCEPT !.left = @ - (room - 0)]>> \o SubSeq(wpending, 2, 1)
          BY <1>1, <1>2, <2>1 DEF Trim
    <3>4. \A e : <<e>> \o <<>> = <<e>>
      <4> SUFFICES ASSUME NEW e PROVE <<e>> \o <<>> = <<e>>
          OBVIOUS
      <4>1. <<e>> \in Seq({e})
            OBVIOUS
      <4> QED
          BY <4>1, ConcatEmptySeq
    <3> QED
        BY <3>1, <3>2, <3>3, <3>4
  <2>4. {W(wpending[i].n) : i \in 1..0} = {}
        OBVIOUS
  <2>5. /\ room' = room - room
        /\ sent' = sent \o SubSeq(Iovec(w), 1, room)
        /\ wpending' = Trim(room)
        /\ cut' = (cut \/ UpTo(0) # room)
        /\ IF holder = "poller" THEN Answer({}) ELSE answers' = answers
        BY <1>2, <2>1, <2>2, <2>4 DEF Writev
  <2>6. answers' = answers
        BY <2>5 DEF Answer, Typed
  <2>7. room' = 0 /\ cut' = TRUE /\ room < w.left
    <3>1. UpTo(0) # room
          BY <1>2, <1>4
    <3>2. cut' = TRUE
          BY <2>5, <3>1 DEF Typed
    <3> QED
        BY <1>3, <1>4, <1>7, <2>5, <3>2
  <2> QED
      BY <1>1, <1>4, <1>5, <2>3, <2>5, <2>6, <2>7, Zenon
<1> QED
    BY <1>6, <1>7

\* A sequence is a prefix of itself and of what extends it.
LEMMA PrefixRefl ==
    ASSUME NEW T, NEW s \in Seq(T)
    PROVE  IsPrefix(s, s)
BY DEF IsPrefix

LEMMA PrefixExtends ==
    ASSUME NEW T, NEW s \in Seq(T), NEW t \in Seq(T), NEW e \in Seq(T), IsPrefix(s, t)
    PROVE  IsPrefix(s, t \o e)
<1>1. Len(s) \in Nat /\ Len(t) \in Nat /\ Len(t \o e) = Len(t) + Len(e) /\ Len(e) \in Nat
      BY LenProperties, ConcatProperties
<1>2. CASE Len(s) = 0
      BY <1>1, <1>2, SubSeqEmpty DEF IsPrefix
<1>3. CASE Len(s) # 0
  <2>1. 1 \in 1..Len(t) /\ Len(s) \in 1..Len(t)
        BY <1>1, <1>3 DEF IsPrefix
  <2>2. SubSeq(t \o e, 1, Len(s)) = SubSeq(t, 1, Len(s))
        BY <2>1, SubSeqOfConcat1
  <2> QED
      BY <1>1, <2>2 DEF IsPrefix
<1> QED
    BY <1>2, <1>3

\* The bytes 1, 2, ... n and then the bytes n + 1, ... are again 1, 2, ...
LEMMA GotExtends ==
    ASSUME NEW g \in Seq(Nat), g = [i \in 1..Len(g) |-> i],
           NEW d \in Seq(Nat), \A i \in 1..Len(d) : d[i] = Len(g) + i
    PROVE  /\ g \o d \in Seq(Nat) /\ Len(g \o d) = Len(g) + Len(d)
           /\ g \o d = [i \in 1..Len(g \o d) |-> i]
<1>1. /\ Len(g) \in Nat /\ Len(d) \in Nat
      /\ g \o d \in Seq(Nat) /\ Len(g \o d) = Len(g) + Len(d)
      /\ \A i \in 1..(Len(g) + Len(d)) :
           (g \o d)[i] = IF i <= Len(g) THEN g[i] ELSE d[i - Len(g)]
      BY LenProperties, ConcatProperties
<1>2. \A i \in 1..Len(g) : g[i] = i
      OBVIOUS
<1>3. ASSUME NEW i \in 1..(Len(g) + Len(d)) PROVE (g \o d)[i] = i
  <2>1. CASE i <= Len(g)
        BY <1>1, <1>2, <2>1
  <2>2. CASE ~(i <= Len(g))
    <3>1. i - Len(g) \in 1..Len(d)
          BY <1>1, <2>2
    <3>2. d[i - Len(g)] = Len(g) + (i - Len(g))
          BY <3>1
    <3> QED
        BY <1>1, <2>2, <3>2
  <2> QED
      BY <2>1, <2>2
<1> DEFINE h == [i \in 1..Len(g \o d) |-> i]
<1>4. h \in Seq(Nat) /\ Len(h) = Len(g \o d) /\ \A i \in 1..Len(h) : h[i] = i
      BY <1>1
<1> HIDE DEF h
<1>5. g \o d = h
      BY <1>1, <1>3, <1>4, SeqEqual
<1> QED
    BY <1>1, <1>5 DEF h

\* recv returns no more bytes than the read lacks, and a read that does not peek
\* gets the next bytes of the stream.
LEMMA ReceivedIs ==
    ASSUME Typed, NEW ctx \in Reading, Len(ctx.data) < ctx.size
    PROVE  /\ Received(ctx) \in Seq(Nat)
           /\ Len(ctx.data) + Len(Received(ctx)) <= ctx.size
           /\ ~ctx.peek => /\ taken + Len(Received(ctx)) <= arrived
                           /\ \A i \in 1..Len(Received(ctx)) : Received(ctx)[i] = taken + i
<1>1. /\ arrived \in Nat /\ taken \in Nat /\ taken <= arrived
      /\ Available \in Nat /\ Available = arrived - taken
      BY DEF Typed, Available
<1>2. /\ ctx.size \in Nat /\ Len(ctx.data) \in Nat
      /\ Lacks(ctx) \in Nat /\ Lacks(ctx) = ctx.size - Len(ctx.data)
      BY BoundsAssumption, LenProperties DEF Reading, Lacks
<1>3. CASE ctx.peek
  <2> DEFINE m == IF Available = 0 THEN 0 ELSE Lacks(ctx)
             r == [i \in 1..m |-> taken + 1 + ((i - 1) % Available)]
  <2>1. m \in Nat /\ m <= Lacks(ctx)
        BY <1>1, <1>2
  <2>2. \A i \in 1..m : taken + 1 + ((i - 1) % Available) \in Nat
    <3> SUFFICES ASSUME NEW i \in 1..m PROVE (i - 1) % Available \in Nat
        BY <1>1
    <3>1. Available > 0 /\ i - 1 \in Int
          BY <1>1, <2>1
    <3> QED
        BY <1>1, <3>1
  <2>3. Received(ctx) = r
        BY <1>3 DEF Received
  <2> HIDE DEF m
  <2>4. r \in [1..m -> Nat]
        BY <2>2
  <2> HIDE DEF r
  <2>5. r \in Seq(Nat) /\ Len(r) = m
        BY <2>1, <2>4
  <2> QED
      BY <1>2, <1>3, <2>1, <2>3, <2>5
<1>4. CASE ~ctx.peek
  <2> DEFINE m == IF Available < Lacks(ctx) THEN Available ELSE Lacks(ctx)
             r == [i \in 1..m |-> taken + i]
  <2>1. m \in Nat /\ m <= Lacks(ctx) /\ taken + m <= arrived
        BY <1>1, <1>2
  <2>2. Received(ctx) = r
        BY <1>4 DEF Received
  <2> HIDE DEF m
  <2>3. r \in [1..m -> Nat] /\ \A i \in 1..m : r[i] = taken + i
        BY <1>1, <2>1
  <2> HIDE DEF r
  <2>4. r \in Seq(Nat) /\ Len(r) = m
        BY <2>1, <2>3
  <2> QED
      BY <1>2, <1>4, <2>1, <2>2, <2>3, <2>4
<1> QED
    BY <1>3, <1>4

\* What the clients have written is a sequence of bytes, and a Write extends it.
Bytes(sizes) == [n \in DOMAIN sizes |-> [b \in 1..sizes[n] |-> <<n, b>>]]

\* The bytes of the writes are sequences of bytes.
LEMMA BytesAre ==
    ASSUME NEW s \in Seq(1..MaxSize), Len(s) <= MaxWrites
    PROVE  Bytes(s) \in Seq(Seq(Byte)) /\ Len(Bytes(s)) = Len(s)
<1>1. Len(s) \in Nat /\ DOMAIN s = 1..Len(s) /\ \A n \in 1..Len(s) : s[n] \in 1..MaxSize
      BY LenProperties
<1>2. ASSUME NEW n \in 1..Len(s) PROVE [b \in 1..s[n] |-> <<n, b>>] \in Seq(Byte)
  <2>1. s[n] \in Nat /\ \A b \in 1..s[n] : <<n, b>> \in Byte
        BY <1>1, BoundsAssumption DEF Byte
  <2>2. [b \in 1..s[n] |-> <<n, b>>] \in [1..s[n] -> Byte]
        BY <2>1
  <2> QED
      BY <2>1, <2>2
<1>3. Bytes(s) \in [1..Len(s) -> Seq(Byte)]
      BY <1>1, <1>2 DEF Bytes
<1> QED
    BY <1>1, <1>3

\* What was written is the empty stream at first, ...
LEMMA WrittenIs ==
    ASSUME Typed
    PROVE  /\ Written \in Seq(Byte)
           /\ writes = <<>> => Written = <<>>
<1>1. Bytes(writes) \in Seq(Seq(Byte)) /\ Len(Bytes(writes)) = Len(writes)
      BY BytesAre DEF Typed
<1>2. Written = FlattenSeq(Bytes(writes))
      BY DEF Written, Bytes
<1>3. writes = <<>> => Bytes(writes) = <<>>
      BY <1>1, EmptySeq
<1> QED
    BY <1>1, <1>2, <1>3, FlattenType, FlattenEmpty

\* ... and a Write puts the bytes of its buffer at the end.
LEMMA WrittenAppend ==
    ASSUME Typed, Len(writes) < MaxWrites, NEW size \in 1..MaxSize,
           writes' = Append(writes, size)
    PROVE  Written' = Written \o Iovec([n |-> Len(writes) + 1, left |-> size])
<1> DEFINE w == [n |-> Len(writes) + 1, left |-> size]
<1>1. /\ writes \in Seq(1..MaxSize) /\ Len(writes) \in Nat /\ MaxWrites \in Nat
      /\ writes' \in Seq(1..MaxSize) /\ Len(writes') = Len(writes) + 1
      /\ \A n \in 1..Len(writes) : writes'[n] = writes[n]
      /\ writes'[Len(writes) + 1] = size
      BY AppendProperties, LenProperties, BoundsAssumption DEF Typed
<1>2. w \in Buffer
      BY <1>1 DEF Buffer
<1>3. Iovec(w) \in Seq(Byte) /\ Iovec(w) = [b \in 1..size |-> <<Len(writes) + 1, b>>]
      BY <1>2, IovecIs DEF Iovec
<1> HIDE DEF w
<1>4. /\ Bytes(writes) \in Seq(Seq(Byte)) /\ Len(Bytes(writes)) = Len(writes)
      /\ Bytes(writes') \in Seq(Seq(Byte)) /\ Len(Bytes(writes')) = Len(writes) + 1
  <2>1. Len(writes) <= MaxWrites /\ Len(writes') <= MaxWrites
        BY <1>1
  <2> QED
      BY <1>1, <2>1, BytesAre
<1>5. Bytes(writes') = Append(Bytes(writes), Iovec(w))
  <2>1. /\ Append(Bytes(writes), Iovec(w)) \in Seq(Seq(Byte))
        /\ Len(Append(Bytes(writes), Iovec(w))) = Len(writes) + 1
        /\ \A n \in 1..Len(writes) : Append(Bytes(writes), Iovec(w))[n] = Bytes(writes)[n]
        /\ Append(Bytes(writes), Iovec(w))[Len(writes) + 1] = Iovec(w)
        BY <1>3, <1>4, AppendProperties
  <2>2. /\ DOMAIN writes = 1..Len(writes) /\ DOMAIN writes' = 1..(Len(writes) + 1)
        BY <1>1, LenProperties
  <2>3. ASSUME NEW n \in 1..(Len(writes) + 1)
        PROVE  Bytes(writes')[n] = Append(Bytes(writes), Iovec(w))[n]
    <3>1. Bytes(writes')[n] = [b \in 1..writes'[n] |-> <<n, b>>]
          BY <2>2 DEF Bytes
    <3>2. CASE n = Len(writes) + 1
          BY <1>1, <1>3, <2>1, <3>1, <3>2
    <3>3. CASE n # Len(writes) + 1
      <4>1. n \in 1..Len(writes)
            BY <1>1, <3>3
      <4>2. Bytes(writes)[n] = [b \in 1..writes[n] |-> <<n, b>>]
            BY <2>2, <4>1 DEF Bytes
      <4> QED
          BY <1>1, <2>1, <3>1, <4>1, <4>2
    <3> QED
        BY <3>2, <3>3
  <2> QED
      BY <1>4, <2>1, <2>3, SeqEqual
<1>6. Written = FlattenSeq(Bytes(writes)) /\ Written' = FlattenSeq(Bytes(writes'))
      BY DEF Written, Bytes
<1>7. CASE writes = <<>>
  <2>1. Written = <<>> /\ Bytes(writes) = <<>>
        BY <1>4, <1>7, WrittenIs, EmptySeq
  <2>2. Append(Bytes(writes), Iovec(w)) = <<Iovec(w)>>
        BY <2>1
  <2>3. Written' = Iovec(w)
        BY <1>3, <1>5, <1>6, <2>2, FlattenOne
  <2>4. <<>> \o Iovec(w) = Iovec(w)
        BY <1>3, ConcatEmptySeq
  <2> QED
      BY <2>1, <2>3, <2>4 DEF w
<1>8. CASE writes # <<>>
  <2>1. Bytes(writes) # <<>>
        BY <1>1, <1>4, <1>8, EmptySeq
  <2>2. FlattenSeq(Append(Bytes(writes), Iovec(w))) = FlattenSeq(Bytes(writes)) \o Iovec(w)
        BY <1>3, <1>4, <2>1, FlattenAppend
  <2> QED
      BY <1>5, <1>6, <2>2 DEF w
<1> QED
    BY <1>7, <1>8

\* The bytes of the stream, from the first one on.
IsStream(g) == g = [i \in 1..Len(g) |-> i]

\* What a call of ReadDataFromSocket does to the read, its answer and the bytes.
ReadSound(ctx) ==
    /\ rpending' \in Reading \cup {None}
    /\ rpending' # None => /\ rpending'.n = ctx.n
                           /\ Len(rpending'.data) < rpending'.size
                           /\ answers' = answers \/ R(ctx.n) \in failed'
    /\ rpending' = None => answers'[R(ctx.n)] = answers[R(ctx.n)] + 1
    /\ answers' \in [Requests -> Nat]
    /\ answers'[R(ctx.n)] \in {answers[R(ctx.n)], answers[R(ctx.n)] + 1}
    /\ \A q \in Requests : q # R(ctx.n) => answers'[q] = answers[q]
    /\ failed \subseteq failed' /\ failed' \subseteq failed \cup {R(ctx.n)}
    /\ failures' \in Nat
    /\ taken' \in 0..arrived
    /\ got' \in Seq(Nat) /\ IsStream(got')
    /\ Input(rpending', taken', got')

\* ReadSound holds of a recv that gets bytes, ...
LEMMA RecvSound ==
    ASSUME Typed, NEW ctx \in Reading, Len(ctx.data) < ctx.size,
           Input(ctx, taken, got), IsStream(got), Recv(ctx)
    PROVE  ReadSound(ctx)
<1> DEFINE r == Received(ctx)
           data == ctx.data \o r
<1>1. /\ r \in Seq(Nat) /\ Len(ctx.data) + Len(r) <= ctx.size
      /\ ~ctx.peek => /\ taken + Len(r) <= arrived
                      /\ \A i \in 1..Len(r) : r[i] = taken + i
      BY ReceivedIs
<1> HIDE DEF r
<1>2. /\ ctx.n \in 1..MaxReads /\ ctx.size \in 1..MaxSize /\ ctx.peek \in BOOLEAN
      /\ ctx.data \in Seq(Nat) /\ ctx.size \in Nat /\ ctx # None
      /\ ctx = [n |-> ctx.n, size |-> ctx.size, peek |-> ctx.peek, data |-> ctx.data]
      /\ R(ctx.n) \in Requests
  <2>1. ctx # None
    <3>1. ctx \in [n : Nat, size : Nat, peek : BOOLEAN, data : Seq(Nat)]
          BY BoundsAssumption DEF Reading
    <3> QED
        BY <3>1, NoneAssumption
  <2> QED
      BY <2>1, RequestsAre, BoundsAssumption DEF Reading
<1>3. /\ data \in Seq(Nat) /\ Len(data) = Len(ctx.data) + Len(r)
      /\ Len(ctx.data) \in Nat /\ Len(r) \in Nat /\ Len(data) \in Nat
      /\ \A i \in 1..(Len(ctx.data) + Len(r)) :
           data[i] = IF i <= Len(ctx.data) THEN ctx.data[i] ELSE r[i - Len(ctx.data)]
      BY <1>1, <1>2, LenProperties, ConcatProperties
<1>4. /\ taken \in Nat /\ arrived \in Nat /\ taken <= arrived /\ got \in Seq(Nat)
      /\ Len(got) \in Nat /\ answers \in [Requests -> Nat] /\ failures \in Nat
      BY LenProperties DEF Typed
<1>5. /\ taken' = IF ctx.peek THEN taken ELSE taken + Len(r)
      /\ rpending' = IF Len(data) = ctx.size THEN None ELSE [ctx EXCEPT !.data = data]
      /\ got' = IF Len(data) = ctx.size /\ ~ctx.peek THEN got \o data ELSE got
      /\ IF Len(data) = ctx.size THEN Answer({R(ctx.n)}) ELSE UNCHANGED answers
      /\ UNCHANGED <<failures, failed>>
      BY DEF Recv, r
<1> HIDE DEF data
<1> DEFINE after == [n |-> ctx.n, size |-> ctx.size, peek |-> ctx.peek, data |-> data]
<1>6. /\ [ctx EXCEPT !.data = data] = after /\ after \in Reading
      /\ after.n = ctx.n /\ after.size = ctx.size /\ after.peek = ctx.peek /\ after.data = data
      /\ after # None
  <2>1. [ctx EXCEPT !.data = data] = after
        BY <1>2
  <2>2. after \in Reading
        BY <1>2, <1>3 DEF Reading
  <2>3. after \in [n : Nat, size : Nat, peek : BOOLEAN, data : Seq(Nat)]
        BY <2>2, BoundsAssumption DEF Reading
  <2> QED
      BY <2>1, <2>2, <2>3, NoneAssumption
<1> HIDE DEF after
<1>7. taken' \in 0..arrived
      BY <1>1, <1>4, <1>5
<1>8. ~ctx.peek => \A i \in 1..Len(data) : data[i] = Len(got) + i
  <2> SUFFICES ASSUME ~ctx.peek, NEW i \in 1..Len(data) PROVE data[i] = Len(got) + i
      OBVIOUS
  <2>1. /\ taken = Len(got) + Len(ctx.data)
        /\ \A j \in 1..Len(ctx.data) : ctx.data[j] = Len(got) + j
        BY <1>2 DEF Input
  <2>2. CASE i <= Len(ctx.data)
    <3>1. i \in 1..Len(ctx.data) /\ i \in 1..(Len(ctx.data) + Len(r))
          BY <1>3, <2>2
    <3>2. data[i] = ctx.data[i]
          BY <1>3, <2>2, <3>1
    <3> QED
        BY <2>1, <3>1, <3>2
  <2>3. CASE ~(i <= Len(ctx.data))
    <3>1. i - Len(ctx.data) \in 1..Len(r)
          BY <1>3, <2>3
    <3>2. r[i - Len(ctx.data)] = taken + (i - Len(ctx.data))
          BY <1>1, <3>1
    <3> QED
        BY <1>3, <1>4, <2>1, <2>3, <3>2
  <2> QED
      BY <2>2, <2>3
<1>9. CASE Len(data) = ctx.size
  <2>1. rpending' = None /\ Answer({R(ctx.n)}) /\ UNCHANGED <<failures, failed>>
        BY <1>5, <1>9
  <2>2. /\ answers' \in [Requests -> Nat]
        /\ answers'[R(ctx.n)] = answers[R(ctx.n)] + 1
        /\ \A q \in Requests : q # R(ctx.n) => answers'[q] = answers[q]
        BY <1>2, <2>1, AnswerIs
  <2>3. CASE ctx.peek
    <3>1. got' = got /\ taken' = taken /\ taken = Len(got)
          BY <1>5, <2>3 DEF Input
    <3> QED
        BY <1>4, <1>7, <2>1, <2>2, <3>1 DEF ReadSound, Input, IsStream
  <2>4. CASE ~ctx.peek
    <3>1. got' = got \o data /\ taken' = taken + Len(r) /\ taken = Len(got) + Len(ctx.data)
          BY <1>2, <1>5, <1>9, <2>4 DEF Input
    <3>2. got' \in Seq(Nat) /\ Len(got') = Len(got) + Len(data) /\ IsStream(got')
          BY <1>3, <1>4, <1>8, <2>4, <3>1, GotExtends DEF IsStream
    <3>3. taken' = Len(got')
          BY <1>3, <1>4, <3>1, <3>2
    <3> QED
        BY <1>4, <1>7, <2>1, <2>2, <3>2, <3>3 DEF ReadSound, Input
  <2> QED
      BY <1>2, <2>3, <2>4
<1>10. CASE Len(data) # ctx.size
  <2>1. rpending' = after /\ got' = got /\ UNCHANGED <<answers, failures, failed>>
        BY <1>5, <1>6, <1>10
  <2>2. Len(data) < ctx.size
        BY <1>1, <1>2, <1>3, <1>10
  <2>3. Input(after, taken', got)
    <3>1. CASE ctx.peek
          BY <1>5, <1>6, <3>1 DEF Input
    <3>2. CASE ~ctx.peek
      <4>1. taken' = taken + Len(r) /\ taken = Len(got) + Len(ctx.data)
            BY <1>2, <1>5, <3>2 DEF Input
      <4>2. taken' = Len(got) + Len(data)
            BY <1>3, <1>4, <4>1
      <4> QED
          BY <1>6, <1>8, <3>2, <4>2 DEF Input
    <3> QED
        BY <1>2, <3>1, <3>2
  <2> QED
      BY <1>2, <1>4, <1>6, <1>7, <2>1, <2>2, <2>3 DEF ReadSound
<1> QED
    BY <1>9, <1>10

\* ... of one that fails, ...
LEMMA RecvFailsSound ==
    ASSUME Typed, NEW ctx \in Reading, Len(ctx.data) < ctx.size,
           Input(ctx, taken, got), IsStream(got), RecvFails(ctx)
    PROVE  ReadSound(ctx)
<1>1. /\ rpending' = ctx /\ failed' = failed \cup {R(ctx.n)} /\ Answer({R(ctx.n)})
      /\ UNCHANGED <<taken, got>> /\ failures' \in Nat
      BY DEF RecvFails, CountFailure, Typed
<1>2. ctx # None /\ R(ctx.n) \in Requests
  <2>1. ctx \in [n : Nat, size : Nat, peek : BOOLEAN, data : Seq(Nat)]
        BY BoundsAssumption DEF Reading
  <2> QED
      BY <2>1, NoneAssumption, RequestsAre DEF Reading
<1>3. /\ answers' \in [Requests -> Nat]
      /\ answers'[R(ctx.n)] = answers[R(ctx.n)] + 1
      /\ \A q \in Requests : q # R(ctx.n) => answers'[q] = answers[q]
      BY <1>1, <1>2, AnswerIs
<1> QED
    BY <1>1, <1>2, <1>3 DEF ReadSound, Typed

\* ... and so of ReadDataFromSocket.
LEMMA ReadDataSound ==
    ASSUME Typed, NEW ctx \in Reading, Len(ctx.data) < ctx.size,
           Input(ctx, taken, got), IsStream(got), ReadDataFromSocket(ctx)
    PROVE  ReadSound(ctx)
BY RecvSound, RecvFailsSound DEF ReadDataFromSocket

-----------------------------------------------------------------------------
(* The steps.                                                               *)

\* What the steps below share: nothing but the request q is answered, and it had no
\* answer or had met a failure.
OneAnswer(q) ==
    /\ answers' \in [Requests -> Nat]
    /\ \A p \in Requests : p # q => answers'[p] = answers[p]
    /\ answers'[q] \in {answers[q], answers[q] + 1}
    /\ answers[q] = 0 \/ q \in failed'

\* A step that answers one request, which had no answer yet or met a failing
\* call, keeps every request from a second answer.
LEMMA OneAnswerKeeps ==
    ASSUME Typed, AnsweredOnce, NEW q \in Requests, OneAnswer(q),
           failed \subseteq failed', stop' = stop, stop = "done" => Made' = Made
    PROVE  AnsweredOnce'
<1>1. /\ answers \in [Requests -> Nat] /\ Made \subseteq Requests
      /\ answers' \in [Requests -> Nat] /\ answers'[q] \in {answers[q], answers[q] + 1}
      /\ \A p \in Requests : p # q => answers'[p] = answers[p]
      /\ answers[q] = 0 \/ q \in failed'
      BY MadeAre DEF Typed, OneAnswer
<1>2. ASSUME NEW p \in Requests \ failed' PROVE answers'[p] <= 1
      BY <1>1 DEF AnsweredOnce
<1>3. ASSUME stop' = "done", NEW p \in Made' PROVE answers'[p] > 0
      BY <1>1, <1>3 DEF AnsweredOnce
<1> QED
    BY <1>2, <1>3 DEF AnsweredOnce

\* Each step preserves IInv.  A writev takes the bytes from the front of the
\* buffer, so what was sent and what is pending stay what was written.
LEMMA WritevIInv ==
    ASSUME IInv, Writev
    PROVE  IInv'
<1> DEFINE w == wpending[1]
           q == W(Len(writes))
<1>1. /\ Typed /\ OneBuffer /\ OneRead /\ Answering /\ Stopped /\ ErrIsBroken
      /\ InputSound /\ OutputSound /\ OnlyFailuresAbort /\ AnsweredOnce /\ StreamPreserved
      BY DEF IInv, Sound, Writev
<1>2. /\ Running /\ holder # None /\ Len(wpending) = 1
      /\ UNCHANGED <<holder, rpending, stop, aborted, registered, edge, reported, arrived,
                     taken, connection, writes, reads, failures, failed, got>>
      /\ \/ /\ room' = room - w.left /\ room' \in 0..SendBuffer
            /\ sent' = sent \o Iovec(w)
            /\ wpending' = <<>>
            /\ cut' = cut
            /\ IF holder = "poller" THEN Answer({W(w.n)}) ELSE answers' = answers
         \/ /\ room \in Nat /\ room > 0 /\ room < w.left
            /\ room' = 0
            /\ sent' = sent \o SubSeq(Iovec(w), 1, room)
            /\ wpending' = <<[n |-> w.n, left |-> w.left - room]>>
            /\ cut' = TRUE
            /\ answers' = answers
      BY <1>1, WritevIs
<1>3. /\ w \in Buffer /\ w.n = Len(writes) /\ w.n \in Nat /\ w.n > 0
      /\ w.left \in Nat /\ w.left > 0 /\ w.left <= MaxSize /\ w.n \in 1..MaxWrites
      /\ Iovec(w) \in Seq(Byte) /\ Len(Iovec(w)) = w.left
      /\ wpending # <<>> /\ stop # "done" /\ q \in Requests
      /\ answers[q] = 0 \/ q \in failed
      /\ w.left <= writes[Len(writes)]
  <2>1. w \in Buffer /\ wpending # <<>>
        BY <1>1, <1>2, PendingIs, EmptySeq DEF Typed
  <2>2. /\ w.n = Len(writes) /\ (answers[q] = 0 \/ q \in failed) /\ stop # "done"
        /\ w.left <= writes[Len(writes)]
        BY <1>1, <2>1 DEF OneBuffer, Stopped
  <2>3. w.left \in 1..MaxSize /\ w.n \in 1..MaxWrites /\ q \in Requests
        BY <2>1, <2>2, IovecIs, RequestsAre
  <2> QED
      BY <2>1, <2>2, <2>3, IovecIs, BoundsAssumption
<1>q. q = W(Len(writes))
      OBVIOUS
<1>w. w = wpending[1] /\ w.left \in Nat /\ writes[Len(writes)] \in Nat
  <2>1. writes[Len(writes)] \in 1..MaxSize
    <3>1. Len(writes) \in Nat /\ Len(writes) > 0
          BY <1>3
    <3>2. writes \in Seq(1..MaxSize)
          BY <1>1 DEF Typed
    <3>3. Len(writes) \in 1..Len(writes)
          BY <3>1
    <3> QED
        BY <3>2, <3>3, ElementOfSeq
  <2> QED
      BY <1>3, <2>1, BoundsAssumption
<1>o. ~cut => Written = sent \o Iovec(w)
      BY <1>1, <1>3 DEF OutputSound
<1> HIDE DEF w, q
<1>4. /\ Made' = Made /\ Made \subseteq Requests /\ Written' = Written /\ Written \in Seq(Byte)
      /\ stop' = stop /\ failed' = failed /\ writes' = writes
      BY <1>1, <1>2, WrittenIs, MadeAre DEF Made, Written
<1>5. /\ InputSound' /\ ErrIsBroken' /\ OnlyFailuresAbort'
      /\ got' = got /\ got = [i \in 1..Len(got) |-> i]
      BY <1>1, <1>2 DEF InputSound, Input, ErrIsBroken, OnlyFailuresAbort, StreamPreserved
<1>6. CASE wpending' = <<>>
  <2>1. /\ room' \in 0..SendBuffer /\ sent' = sent \o Iovec(w) /\ cut' = cut
        /\ IF holder = "poller" THEN Answer({q}) ELSE answers' = answers
    <3>1. wpending' # <<[n |-> w.n, left |-> w.left - room]>>
          BY <1>6
    <3> QED
        BY <1>2, <1>3, <1>q, <3>1
  <2>2. /\ answers' \in [Requests -> Nat]
        /\ \A p \in Requests : p # q => answers'[p] = answers[p]
        /\ holder = "poller" => answers'[q] = answers[q] + 1
        /\ holder # "poller" => answers' = answers
        BY <1>1, <1>3, <2>1, AnswerIs DEF Typed
  <2>3. OneAnswer(q)
        BY <1>1, <1>3, <1>4, <2>2 DEF OneAnswer, Typed
  <2>4. Typed'
    <3>1. sent' \in Seq(Byte)
          BY <1>1, <1>3, <2>1, ConcatProperties DEF Typed
    <3> QED
        BY <1>1, <1>2, <1>6, <2>1, <2>2, <3>1 DEF Typed
  <2>5. AnsweredOnce'
        BY <1>1, <1>3, <1>4, <2>3, OneAnswerKeeps
  <2>6. OutputSound' /\ (~cut' => sent' = Written')
        BY <1>o, <1>4, <1>6, <2>1 DEF OutputSound
  <2>7. StreamPreserved'
        BY <1>4, <1>5, <2>6, PrefixRefl DEF StreamPreserved
  <2>8. OneBuffer' /\ Stopped'
        BY <1>1, <1>2, <1>3, <1>6, <2>2 DEF OneBuffer, Stopped
  <2>9. OneRead'
    <3>1. rpending' = rpending /\ reads' = reads /\ failed' = failed
          BY <1>2
    <3>2. rpending # None => R(reads) \in Requests /\ R(reads) # q
          BY <1>1, <1>q, RequestsAre DEF OneRead, Typed, Reading
    <3> QED
        BY <1>1, <2>2, <3>1, <3>2 DEF OneRead
  <2>10. Answering'
    <3>1. ASSUME NEW p \in Requests \ Made PROVE answers'[p] = 0
      <4>1. p # q
        <5>1. Len(writes) \in 1..Len(writes)
              BY <1>1, <1>3, LenProperties DEF Typed
        <5>2. W(Len(writes)) \in Made
              BY <5>1 DEF Made
        <5> QED
            BY <3>1, <5>2, <1>q
      <4> QED
          BY <1>1, <2>2, <4>1 DEF Answering
    <3>2. ASSUME NEW p \in Made, answers'[p] = 0
          PROVE  (p = q /\ holder = "client") \/ (p = R(reads) /\ rpending # None)
      <4>1. CASE holder = "poller"
        <5>1. answers[q] \in Nat
              BY <1>1, <1>3 DEF Typed
        <5>2. p # q
              BY <2>2, <3>2, <4>1, <5>1
        <5>3. answers[p] = 0
              BY <1>4, <2>2, <3>2, <5>2
        <5> QED
            BY <1>1, <1>q, <3>2, <5>2, <5>3 DEF Answering
      <4>2. CASE holder = "client"
            BY <1>1, <1>q, <2>2, <3>2, <4>2 DEF Answering
      <4> QED
          BY <1>1, <1>2, <4>1, <4>2 DEF Typed
    <3> QED
        BY <1>2, <1>4, <1>q, <3>1, <3>2 DEF Answering
  <2> QED
      BY <1>5, <2>4, <2>5, <2>6, <2>7, <2>8, <2>9, <2>10 DEF IInv, Sound
<1>7. CASE wpending' # <<>>
  <2>1. /\ room \in Nat /\ room > 0 /\ room < w.left /\ room' = 0
        /\ sent' = sent \o SubSeq(Iovec(w), 1, room)
        /\ wpending' = <<[n |-> w.n, left |-> w.left - room]>>
        /\ cut' = TRUE /\ answers' = answers
        BY <1>2, <1>7
  <2> DEFINE v == [n |-> w.n, left |-> w.left - room]
  <2>2. v \in Buffer /\ v.n = w.n /\ v.left <= w.left
        BY <1>3, <2>1, BoundsAssumption DEF Buffer
  <2>3. wpending' = <<v>> /\ wpending'[1] = v /\ Len(wpending') = 1 /\ wpending' \in Seq(Buffer)
        BY <2>1, <2>2
  <2> HIDE DEF v
  <2>4. Typed'
    <3>1. SubSeq(Iovec(w), 1, room) \in Seq(Byte)
          BY <1>3, <2>1, SubSeqProperties
    <3>2. sent' \in Seq(Byte)
          BY <1>1, <2>1, <3>1, ConcatProperties DEF Typed
    <3>3. room' \in 0..SendBuffer
          BY <2>1, BoundsAssumption
    <3> QED
        BY <1>1, <1>2, <2>1, <2>3, <3>2, <3>3 DEF Typed
  <2>5. AnsweredOnce' /\ OutputSound' /\ StreamPreserved'
    <3>1. AnsweredOnce'
          BY <1>1, <1>4, <2>1 DEF AnsweredOnce
    <3>2. OutputSound' /\ StreamPreserved'
          BY <1>5, <2>1 DEF OutputSound, StreamPreserved
    <3> QED
        BY <3>1, <3>2
  <2>6. OneBuffer' /\ Stopped'
    <3>1. v.left <= writes[Len(writes)]
      <4>1. v.left \in Int /\ v.left <= w.left /\ w.left <= writes[Len(writes)]
            BY <1>3, <2>2, BoundsAssumption DEF Buffer
      <4> QED
          BY <1>w, <4>1
    <3>2. Stopped'
          BY <1>2, <1>3 DEF Stopped
    <3>3. holder = "client" => answers[q] = 0
          BY <1>1, <1>q DEF OneBuffer
    <3>4. holder = "poller" => reported # None
          BY <1>1 DEF OneBuffer
    <3> QED
        BY <1>2, <1>3, <1>4, <1>q, <2>1, <2>2, <2>3, <3>1, <3>2, <3>3, <3>4 DEF OneBuffer
  <2>7. OneRead' /\ Answering'
        BY <1>1, <1>2, <1>3, <1>4, <1>7, <2>1 DEF OneRead, Answering
  <2> QED
      BY <1>5, <2>4, <2>5, <2>6, <2>7 DEF IInv, Sound
<1> QED
    BY <1>6, <1>7

\* The loop ends with nothing pending: Write returns and its request has its
\* answer, or HandleFdEvent goes on to the test of EPOLLERR.
LEMMA WriteEndsIInv ==
    ASSUME IInv, WriteEnds
    PROVE  IInv'
<1> DEFINE q == W(Len(writes))
<1>1. /\ Typed /\ OneBuffer /\ OneRead /\ Answering /\ Stopped /\ ErrIsBroken
      /\ InputSound /\ OutputSound /\ OnlyFailuresAbort /\ AnsweredOnce /\ StreamPreserved
      BY DEF IInv, Sound, WriteEnds
<1>2. /\ Running /\ holder \in {"client", "poller"} /\ wpending = <<>> /\ holder' = None
      /\ holder = "client" => Answer({q}) /\ aborted' = aborted /\ reported' = reported
      /\ holder = "poller" => /\ aborted' = ("err" \in reported) /\ reported' = None
                              /\ answers' = answers
      /\ UNCHANGED <<wpending, rpending, stop, registered, edge, room, arrived, taken,
                     connection, writes, reads, failures, failed, sent, got, cut>>
  <2>1. holder \in {"client", "poller"}
        BY <1>1 DEF Typed, WriteEnds, Locked
  <2>2. "poller" # "client"
        OBVIOUS
  <2> QED
      BY <2>1, <2>2 DEF WriteEnds, Release, socket, counts
<1>3. /\ Made' = Made /\ Made \subseteq Requests /\ Written' = Written
      BY <1>1, <1>2, MadeAre DEF Made, Written
<1>4. /\ InputSound' /\ OutputSound' /\ StreamPreserved'
      BY <1>1, <1>2, <1>3 DEF InputSound, OutputSound, StreamPreserved
<1>5. CASE holder = "client"
  <2>1. Len(writes) > 0 /\ answers[q] = 0 /\ q \in Requests
    <3>1. Len(writes) > 0 /\ answers[q] = 0
          BY <1>1, <1>5 DEF OneBuffer
    <3>2. Len(writes) \in 1..MaxWrites
          BY <1>1, <3>1, LenProperties, BoundsAssumption DEF Typed
    <3> QED
        BY <3>1, <3>2, RequestsAre
  <2>q. q = W(Len(writes))
        OBVIOUS
  <2> HIDE DEF q
  <2>2. /\ answers' \in [Requests -> Nat] /\ answers'[q] = answers[q] + 1
        /\ \A p \in Requests : p # q => answers'[p] = answers[p]
        BY <1>1, <1>2, <1>5, <2>1, AnswerIs
  <2>3. OneAnswer(q)
        BY <2>1, <2>2 DEF OneAnswer
  <2>4. Typed'
        BY <1>1, <1>2, <1>5, <2>2 DEF Typed
  <2>5. AnsweredOnce'
        BY <1>1, <1>2, <1>3, <2>1, <2>3, OneAnswerKeeps
  <2>6. OnlyFailuresAbort' /\ ErrIsBroken' /\ Stopped' /\ OneBuffer'
    <3>1. OneBuffer'
          BY <1>2, NoneAssumption DEF OneBuffer
    <3>2. Stopped'
          BY <1>2, <1>1, NoneAssumption DEF Stopped
    <3>3. OnlyFailuresAbort' /\ ErrIsBroken'
          BY <1>1, <1>2, <1>5 DEF OnlyFailuresAbort, ErrIsBroken
    <3> QED
        BY <3>1, <3>2, <3>3
  <2>7. OneRead'
        BY <1>1, <1>2, <2>1, <2>2, <2>q, RequestsAre DEF OneRead, Typed, Reading
  <2>8. Answering'
    <3>1. Len(writes) \in 1..Len(writes)
          BY <1>1, <2>1, LenProperties DEF Typed
    <3>2. q \in Made
          BY <2>q, <3>1 DEF Made
    <3>3. ASSUME NEW p \in Requests \ Made PROVE answers'[p] = 0
          BY <1>1, <2>2, <3>2, <3>3 DEF Answering
    <3>4. ASSUME NEW p \in Made, answers'[p] = 0 PROVE p = R(reads) /\ rpending # None
      <4>1. p # q /\ answers[p] = 0
            BY <1>1, <1>3, <2>1, <2>2, <3>4 DEF Typed
      <4> QED
          BY <1>1, <2>q, <4>1, <3>4 DEF Answering
    <3> QED
        BY <1>2, <1>3, <3>3, <3>4 DEF Answering
  <2> QED
      BY <1>4, <2>4, <2>5, <2>6, <2>7, <2>8 DEF IInv, Sound
<1>6. CASE holder = "poller"
  <2>1. /\ aborted' = ("err" \in reported) /\ reported' = None /\ answers' = answers
        /\ reported # None
        BY <1>1, <1>2, <1>6 DEF OneBuffer
  <2>2. Typed'
        BY <1>1, <1>2, <2>1 DEF Typed
  <2>3. AnsweredOnce' /\ OneRead'
        BY <1>1, <1>2, <1>3, <2>1 DEF AnsweredOnce, OneRead
  <2>4. OnlyFailuresAbort'
        BY <1>1, <1>2, <2>1 DEF OnlyFailuresAbort, ErrIsBroken
  <2>5. ErrIsBroken' /\ Stopped' /\ OneBuffer'
        BY <1>1, <1>2, <2>1, NoneAssumption DEF ErrIsBroken, Stopped, OneBuffer
  <2>6. Answering'
        BY <1>1, <1>2, <1>3, <1>6, <2>1 DEF Answering
  <2> QED
      BY <1>4, <2>2, <2>3, <2>4, <2>5, <2>6 DEF IInv, Sound
<1> QED
    BY <1>2, <1>5, <1>6

\* writev fails: the request is answered and stays in wpending_; that it has failed
\* is what excuses a second answer.
LEMMA WritevFailsIInv ==
    ASSUME IInv, WritevFails
    PROVE  IInv'
<1> DEFINE q == W(Len(writes))
<1>1. /\ Typed /\ OneBuffer /\ OneRead /\ Answering /\ Stopped /\ ErrIsBroken
      /\ InputSound /\ OutputSound /\ OnlyFailuresAbort /\ AnsweredOnce /\ StreamPreserved
      BY DEF IInv, Sound, WritevFails
<1>2. /\ Running /\ wpending # <<>> /\ holder \in {"client", "poller"} /\ stop # "done"
      /\ wpending[1].n = Len(writes) /\ (answers[q] = 0 \/ q \in failed)
      BY <1>1 DEF WritevFails, OneBuffer, Stopped, Locked, Typed
<1>3. /\ Answer({q}) /\ failed' = failed \cup {q} /\ holder' = None
      /\ aborted' \in BOOLEAN /\ reported' \in {reported, None} /\ failures' \in Nat
      /\ UNCHANGED <<wpending, rpending, stop, registered, edge, room, arrived, taken,
                     connection, writes, reads, sent, got, cut>>
  <2>1. {q} = {W(wpending[1].n)} /\ W(wpending[1].n) = q
        BY <1>2
  <2>2. /\ failed' = failed \cup {q} /\ Release(q) /\ (holder = "poller" => Answer({q}))
        BY <2>1 DEF WritevFails
  <2>3. "poller" # "client"
        OBVIOUS
  <2>4. Answer({q})
        BY <1>2, <2>2, <2>3 DEF Release
  <2>5. holder' = None /\ aborted' \in BOOLEAN /\ reported' \in {reported, None}
    <3>1. aborted' = aborted \/ aborted' = ("err" \in reported)
          BY <2>2 DEF Release
    <3>2. aborted \in BOOLEAN
          BY <1>1 DEF Typed
    <3>3. ("err" \in reported) \in BOOLEAN
          OBVIOUS
    <3>4. aborted' \in BOOLEAN
      <4>1. CASE aborted' = aborted
            BY <3>2, <4>1
      <4>2. CASE aborted' = ("err" \in reported)
            BY <4>2
      <4> QED
          BY <3>1, <4>1, <4>2
    <3> QED
        BY <2>2, <3>4 DEF Release
  <2>6. failures' \in Nat
        BY <1>1 DEF WritevFails, CountFailure, Typed
  <2> QED
      BY <2>2, <2>4, <2>5, <2>6 DEF WritevFails, socket
<1>4. /\ Made' = Made /\ Made \subseteq Requests /\ Written' = Written
      BY <1>1, <1>3, MadeAre DEF Made, Written
<1>5. /\ InputSound' /\ OutputSound' /\ StreamPreserved'
      BY <1>1, <1>3, <1>4 DEF InputSound, OutputSound, StreamPreserved
<1>6. q \in Requests
  <2>1. Len(writes) \in 1..MaxWrites
        BY <1>1, <1>2, LenProperties, BoundsAssumption DEF Typed, OneBuffer
  <2> QED
      BY <2>1, RequestsAre
<1>q. q = W(Len(writes))
      OBVIOUS
<1> HIDE DEF q
<1>7. /\ answers' \in [Requests -> Nat] /\ answers'[q] = answers[q] + 1
      /\ \A p \in Requests : p # q => answers'[p] = answers[p]
      BY <1>1, <1>3, <1>6, AnswerIs
<1>8. OneAnswer(q)
      BY <1>3, <1>7 DEF OneAnswer
<1>9. Typed'
      BY <1>1, <1>3, <1>6, <1>7 DEF Typed
<1>10. AnsweredOnce'
       BY <1>1, <1>3, <1>4, <1>6, <1>8, OneAnswerKeeps
<1>11. OnlyFailuresAbort' /\ ErrIsBroken' /\ Stopped'
       BY <1>1, <1>2, <1>3 DEF OnlyFailuresAbort, ErrIsBroken, Stopped
<1>12. OneBuffer'
       BY <1>1, <1>2, <1>3, <1>q, NoneAssumption DEF OneBuffer
<1>13. OneRead'
       BY <1>1, <1>3, <1>6, <1>7, <1>q, RequestsAre DEF OneRead, Typed, Reading
<1>14. Answering'
  <2>1. Len(writes) \in 1..Len(writes)
        BY <1>1, <1>2, LenProperties DEF Typed, OneBuffer
  <2>2. q \in Made
        BY <1>q, <2>1 DEF Made
  <2>3. ASSUME NEW p \in Requests \ Made PROVE answers'[p] = 0
        BY <1>1, <1>7, <2>2, <2>3 DEF Answering
  <2>4. ASSUME NEW p \in Made, answers'[p] = 0 PROVE p = R(reads) /\ rpending # None
    <3>1. p # q /\ answers[p] = 0
          BY <1>1, <1>4, <1>6, <1>7, <2>4 DEF Typed
    <3> QED
        BY <1>1, <1>q, <2>4, <3>1 DEF Answering
  <2> QED
      BY <1>3, <1>4, <2>3, <2>4 DEF Answering
<1> QED
    BY <1>5, <1>9, <1>10, <1>11, <1>12, <1>13, <1>14 DEF IInv, Sound

\* Write puts its buffer in the list; with one in the list already the program
\* stops, and IInv says that a failing call had left it there.
LEMMA WriteIInv ==
    ASSUME IInv, Write
    PROVE  IInv'
<1>1. /\ Typed /\ OneBuffer /\ OneRead /\ Answering /\ Stopped /\ ErrIsBroken
      /\ InputSound /\ OutputSound /\ OnlyFailuresAbort /\ AnsweredOnce /\ StreamPreserved
      BY DEF IInv, Sound, Write
<1>2. PICK size \in 1..MaxSize :
        /\ writes' = Append(writes, size)
        /\ wpending' = Append(wpending, [n |-> Len(writes'), left |-> size])
      BY DEF Write
<1>3. /\ Running /\ holder = None /\ stop = "no" /\ Len(writes) < MaxWrites
      /\ IF wpending = <<>> THEN holder' = "client" /\ aborted' = aborted
                            ELSE aborted' = TRUE /\ holder' = holder
      /\ UNCHANGED <<rpending, stop, registered, edge, reported, room, arrived, taken,
                     connection, reads, failures, answers, failed, sent, got, cut>>
      BY DEF Write, Locked, epoll, socket, history
<1> DEFINE w == [n |-> Len(writes) + 1, left |-> size]
           q == W(Len(writes) + 1)
<1>4. /\ writes \in Seq(1..MaxSize) /\ Len(writes) \in Nat
      /\ writes' \in Seq(1..MaxSize) /\ Len(writes') = Len(writes) + 1
      /\ writes'[Len(writes) + 1] = size
      /\ Len(writes') <= MaxWrites /\ Len(writes') \in 1..MaxWrites
  <2>1. writes \in Seq(1..MaxSize) /\ Len(writes) \in Nat /\ MaxWrites \in Nat
        BY <1>1, LenProperties, BoundsAssumption DEF Typed
  <2>2. /\ writes' \in Seq(1..MaxSize) /\ Len(writes') = Len(writes) + 1
        /\ writes'[Len(writes) + 1] = size
        BY <1>2, <2>1, AppendProperties
  <2> QED
      BY <1>3, <2>1, <2>2
<1>5. /\ w \in Buffer /\ w.n = Len(writes) + 1 /\ w.left = size
      /\ wpending' = Append(wpending, w) /\ Iovec(w) \in Seq(Byte)
      /\ wpending \in Seq(Buffer)
  <2>1. w \in Buffer /\ w.n = Len(writes) + 1 /\ w.left = size
        BY <1>4 DEF Buffer
  <2> QED
      BY <1>1, <1>2, <1>4, <2>1, IovecIs DEF Typed
<1>6. /\ wpending' \in Seq(Buffer) /\ wpending' # <<>>
      /\ wpending = <<>> => Len(wpending') = 1 /\ wpending'[1] = w
  <2> HIDE DEF w
  <2>1. Len(<<>>) = 0
        OBVIOUS
  <2> QED
      BY <1>5, <2>1, AppendProperties
<1>7. Made' = Made \cup {q} /\ q \notin Made /\ q \in Requests /\ Made \subseteq Requests
  <2>1. 1..(Len(writes) + 1) = (1..Len(writes)) \cup {Len(writes) + 1}
        BY <1>4
  <2>2. Made' = Made \cup {q}
        BY <1>3, <1>4, <2>1 DEF Made
  <2>3. q \notin Made
        BY <1>4, RequestsAre DEF Made
  <2> QED
      BY <1>1, <1>4, <2>2, <2>3, RequestsAre, MadeAre
<1>8. /\ Written' = Written \o Iovec(w) /\ Written \in Seq(Byte)
      BY <1>1, <1>2, <1>3, WrittenAppend, WrittenIs
<1>q. q = W(Len(writes'))
      BY <1>4
<1> HIDE DEF w, q
<1>9. Typed'
      BY <1>1, <1>3, <1>4, <1>6 DEF Typed
<1>10. OnlyFailuresAbort' /\ AnsweredOnce'
       BY <1>1, <1>3 DEF OnlyFailuresAbort, AnsweredOnce, OneBuffer
<1>11. StreamPreserved'
  <2>1. ~cut => IsPrefix(sent, Written)
        BY <1>1 DEF StreamPreserved
  <2>2. ~cut => IsPrefix(sent, Written \o Iovec(w))
        BY <1>1, <1>5, <1>8, <2>1, PrefixExtends DEF Typed
  <2> QED
      BY <1>1, <1>3, <1>8, <2>2 DEF StreamPreserved
<1>12. ASSUME Running' PROVE Sound'
  <2>1. wpending = <<>> /\ holder' = "client" /\ Len(wpending') = 1 /\ wpending'[1] = w
        BY <1>3, <1>6, <1>12 DEF Running
  <2>2. answers[q] = 0
        BY <1>1, <1>7 DEF Answering
  <2>3. OneBuffer'
        BY <1>3, <1>4, <1>5, <1>q, <2>1, <2>2, NoneAssumption DEF OneBuffer
  <2>4. OneRead' /\ Stopped' /\ ErrIsBroken' /\ InputSound'
        BY <1>1, <1>3 DEF OneRead, Stopped, ErrIsBroken, InputSound, Input
  <2>5. Answering'
    <3>1. ASSUME NEW p \in Requests \ Made' PROVE answers'[p] = 0
          BY <1>1, <1>3, <1>7, <3>1 DEF Answering
    <3>2. ASSUME NEW p \in Made', answers'[p] = 0, p # q
          PROVE  p = R(reads) /\ rpending # None
      <4>1. p \in Made /\ answers[p] = 0 /\ holder # "client"
            BY <1>3, <1>7, <3>2, NoneAssumption
      <4> QED
          BY <1>1, <2>1, <4>1 DEF Answering
    <3> QED
        BY <1>3, <1>6, <1>q, <3>1, <3>2 DEF Answering
  <2>6. OutputSound'
        BY <1>1, <1>3, <1>4, <1>5, <1>6, <1>8, <2>1 DEF OutputSound
  <2> QED
      BY <2>3, <2>4, <2>5, <2>6 DEF Sound
<1> QED
    BY <1>9, <1>10, <1>11, <1>12 DEF IInv

\* Stop only schedules the barrier.
LEMMA StopIInv ==
    ASSUME IInv, Stop
    PROVE  IInv'
<1>1. /\ Typed /\ OneBuffer /\ OneRead /\ Answering /\ Stopped /\ ErrIsBroken
      /\ InputSound /\ OutputSound /\ OnlyFailuresAbort /\ AnsweredOnce /\ StreamPreserved
      BY DEF IInv, Sound, Stop
<1>2. /\ Running /\ stop = "no" /\ stop' = "scheduled" /\ registered' = FALSE /\ edge' = FALSE
      /\ UNCHANGED <<holder, wpending, rpending, aborted, reported, room, arrived, taken,
                     connection, writes, reads, failures, answers, failed, sent, got, cut>>
      BY DEF Stop, socket, counts, history
<1>3. Made' = Made /\ Written' = Written
      BY <1>2 DEF Made, Written
<1>4. Typed'
      BY <1>1, <1>2 DEF Typed
<1>5. OnlyFailuresAbort' /\ AnsweredOnce' /\ StreamPreserved'
      BY <1>1, <1>2, <1>3 DEF OnlyFailuresAbort, AnsweredOnce, StreamPreserved
<1>6. OneBuffer' /\ OneRead' /\ Answering'
      BY <1>1, <1>2, <1>3 DEF OneBuffer, OneRead, Answering
<1>7. Stopped' /\ ErrIsBroken' /\ InputSound' /\ OutputSound'
      BY <1>1, <1>2, <1>3 DEF Stopped, ErrIsBroken, InputSound, OutputSound
<1> QED
    BY <1>4, <1>5, <1>6, <1>7 DEF IInv, Sound

\* BarrierDone answers what wpending_ and rpending_ hold, and by Answering these
\* are all the requests that have no answer.
LEMMA BarrierDoneIInv ==
    ASSUME IInv, BarrierDone
    PROVE  IInv'
<1> DEFINE qs == {W(wpending[i].n) : i \in DOMAIN wpending}
                 \cup (IF rpending = None THEN {} ELSE {R(rpending.n)})
<1>1. /\ Typed /\ OneBuffer /\ OneRead /\ Answering /\ Stopped /\ ErrIsBroken
      /\ InputSound /\ OutputSound /\ OnlyFailuresAbort /\ AnsweredOnce /\ StreamPreserved
      BY DEF IInv, Sound, BarrierDone
<1>2. /\ Running /\ holder = None /\ stop = "scheduled" /\ Answer(qs)
      /\ connection' \in {"broken", "closed"}
      /\ connection = "broken" => connection' = "broken"
      /\ wpending' = <<>> /\ rpending' = None /\ stop' = "done"
      /\ UNCHANGED <<holder, aborted, registered, edge, reported, room, arrived, taken,
                     writes, reads, failures, failed, sent, got, cut>>
      BY <1>1 DEF BarrierDone, FailOps, Locked, epoll, counts, Typed
<1>3. Made' = Made /\ Made \subseteq Requests /\ Written' = Written
      BY <1>1, <1>2, MadeAre DEF Made, Written
<1>4. /\ \A q \in qs : answers[q] = 0 \/ q \in failed
      /\ qs \subseteq Made
      /\ wpending # <<>> => W(Len(writes)) \in qs
      /\ rpending # None => R(reads) \in qs
  <2>1. {W(wpending[i].n) : i \in DOMAIN wpending} =
          IF wpending = <<>> THEN {} ELSE {W(Len(writes))}
    <3>1. CASE wpending = <<>>
          BY <3>1
    <3>2. CASE wpending # <<>>
      <4>1. DOMAIN wpending = {1} /\ wpending[1].n = Len(writes)
            BY <1>1, <3>2, PendingIs, OneElement DEF OneBuffer, Typed
      <4> QED
          BY <3>2, <4>1
    <3> QED
        BY <3>1, <3>2
  <2>2. rpending # None => rpending.n = reads
        BY <1>1 DEF OneRead
  <2>3. wpending # <<>> => W(Len(writes)) \in Made
    <3>1. wpending # <<>> => Len(writes) \in 1..Len(writes)
          BY <1>1, LenProperties DEF OneBuffer, Typed
    <3> QED
        BY <3>1 DEF Made
  <2>4. rpending # None => R(reads) \in Made
    <3>1. rpending # None => reads \in 1..reads
          BY <1>1, <2>2, BoundsAssumption DEF Reading, Typed
    <3> QED
        BY <3>1 DEF Made
  <2> QED
      BY <1>1, <2>1, <2>2, <2>3, <2>4 DEF OneBuffer, OneRead
<1> HIDE DEF qs
<1>5. /\ answers' \in [Requests -> Nat]
      /\ \A q \in Requests : q \in qs => answers'[q] = answers[q] + 1
      /\ \A q \in Requests : q \notin qs => answers'[q] = answers[q]
      BY <1>1, <1>2, AnswerIs
<1>6. Typed'
      BY <1>1, <1>2, <1>5, EmptySeq DEF Typed
<1>7. OnlyFailuresAbort' /\ StreamPreserved'
      BY <1>1, <1>2, <1>3 DEF OnlyFailuresAbort, StreamPreserved
<1>8. \A q \in Made : answers'[q] > 0
      BY <1>1, <1>2, <1>3, <1>4, <1>5, NoneAssumption DEF Answering, Typed
<1>9. AnsweredOnce'
  <2>1. ASSUME NEW q \in Requests \ failed PROVE answers'[q] <= 1
        BY <1>1, <1>4, <1>5 DEF AnsweredOnce
  <2> QED
      BY <1>2, <1>3, <1>8, <2>1 DEF AnsweredOnce
<1>10. OneBuffer' /\ OneRead' /\ Stopped'
       BY <1>2, NoneAssumption DEF OneBuffer, OneRead, Stopped
<1>11. Answering'
  <2>1. ASSUME NEW q \in Requests \ Made PROVE answers'[q] = 0
    <3>1. q \notin qs
          BY <1>4, <2>1
    <3> QED
        BY <1>1, <1>5, <3>1 DEF Answering
  <2> QED
      BY <1>3, <1>8, <2>1 DEF Answering
<1>12. ErrIsBroken' /\ InputSound' /\ OutputSound'
       BY <1>1, <1>2 DEF ErrIsBroken, InputSound, OutputSound
<1> QED
    BY <1>6, <1>7, <1>9, <1>10, <1>11, <1>12 DEF IInv, Sound

\* What the kernel and the peer do leaves the channel alone: more bytes, more
\* space, a connection that ends, a report of what is true of the socket.
LEMMA QuietIInv ==
    ASSUME IInv, Running,
           UNCHANGED <<holder, wpending, rpending, stop, aborted, taken, writes, reads,
                       failures, answers, failed, sent, got, cut>>,
           registered' = registered, edge' \in BOOLEAN,
           room' \in 0..SendBuffer, arrived' \in Nat, arrived <= arrived',
           connection' \in {"up", "eof", "broken", "closed"},
           connection = "broken" => connection' = "broken",
           \/ reported' = reported
           \/ /\ reported = None /\ reported' \in (SUBSET {"in", "out", "err"}) \cup {None}
              /\ reported' # None /\ "err" \in reported' => connection = "broken"
    PROVE  IInv'
<1>1. /\ Typed /\ OneBuffer /\ OneRead /\ Answering /\ Stopped /\ ErrIsBroken
      /\ InputSound /\ OutputSound /\ OnlyFailuresAbort /\ AnsweredOnce /\ StreamPreserved
      BY DEF IInv, Sound
<1>2. Made' = Made /\ Written' = Written
      BY DEF Made, Written
<1>3. Typed'
  <2>1. taken' \in 0..arrived'
        BY <1>1 DEF Typed
  <2>2. reported' \in (SUBSET {"in", "out", "err"}) \cup {None}
        BY <1>1 DEF Typed
  <2> QED
      BY <1>1, <2>1, <2>2 DEF Typed
<1>4. OnlyFailuresAbort' /\ AnsweredOnce' /\ StreamPreserved'
      BY <1>1, <1>2 DEF OnlyFailuresAbort, AnsweredOnce, StreamPreserved, Running
<1>5. OneBuffer' /\ OneRead' /\ Answering'
  <2>1. OneRead' /\ Answering'
        BY <1>1, <1>2 DEF OneRead, Answering
  <2>2. holder = "poller" => reported' # None
        BY <1>1 DEF OneBuffer
  <2> QED
      BY <1>1, <2>1, <2>2 DEF OneBuffer
<1>6. Stopped' /\ ErrIsBroken' /\ InputSound' /\ OutputSound'
      BY <1>1, <1>2 DEF Stopped, ErrIsBroken, InputSound, OutputSound
<1> QED
    BY <1>3, <1>4, <1>5, <1>6 DEF IInv, Sound

\* A report says EPOLLERR only of a broken connection.
LEMMA ReportIs ==
    ASSUME Typed, Report
    PROVE  /\ Running /\ edge' = FALSE /\ reported = None
           /\ reported' \in (SUBSET {"in", "out", "err"}) \cup {None}
           /\ reported' # None /\ "err" \in reported' => connection = "broken"
           /\ UNCHANGED <<holder, wpending, rpending, stop, aborted, registered, room, arrived,
                          taken, connection, writes, reads, failures, answers, failed, sent,
                          got, cut>>
<1>1. Mask \in SUBSET {"in", "out", "err"} /\ ("err" \in Mask => connection = "broken")
      BY DEF Mask
<1>2. reported' = None \/ reported' = Mask
      BY DEF Report
<1> QED
    BY <1>1, <1>2 DEF Report, channel, socket, counts, history

\* The steps of the kernel and the peer preserve IInv.
LEMMA SocketIInv ==
    ASSUME IInv, Arrives \/ PeerReads \/ PeerCloses \/ Breaks \/ Report
    PROVE  IInv'
<1>t. Typed
      BY DEF IInv
<1>b. SendBuffer \in Nat
      BY BoundsAssumption
<1>1. CASE Arrives
      BY <1>1, <1>t, QuietIInv DEF Arrives, Happens, channel, counts, history, Typed
<1>2. CASE PeerReads
      BY <1>2, <1>t, <1>b, QuietIInv DEF PeerReads, Happens, channel, counts, history, Typed
<1>3. CASE PeerCloses
      BY <1>3, <1>t, QuietIInv DEF PeerCloses, Happens, channel, counts, history, Typed
<1>4. CASE Breaks
      BY <1>4, <1>t, QuietIInv DEF Breaks, Happens, channel, counts, history, Typed
<1>5. CASE Report
  <2>1. /\ Running /\ edge' = FALSE /\ reported = None
        /\ reported' \in (SUBSET {"in", "out", "err"}) \cup {None}
        /\ reported' # None /\ "err" \in reported' => connection = "broken"
        /\ UNCHANGED <<holder, wpending, rpending, stop, aborted, registered, room, arrived,
                       taken, connection, writes, reads, failures, answers, failed, sent,
                       got, cut>>
        BY <1>t, <1>5, ReportIs
  <2>2. /\ registered' = registered /\ edge' \in BOOLEAN /\ arrived <= arrived'
        /\ room' \in 0..SendBuffer /\ arrived' \in Nat
        /\ connection' \in {"up", "eof", "broken", "closed"}
    <3>1. edge' \in BOOLEAN
          BY <2>1
    <3>2. arrived \in Nat /\ room \in 0..SendBuffer
          BY <1>t DEF Typed
    <3>3. arrived <= arrived'
          BY <2>1, <3>2
    <3>4. connection \in {"up", "eof", "broken", "closed"}
          BY <1>t DEF Typed
    <3> QED
        BY <2>1, <3>1, <3>2, <3>3, <3>4
  <2> QED
      BY <2>1, <2>2, QuietIInv
<1> QED
    BY <1>1, <1>2, <1>3, <1>4, <1>5

\* Read and Peek, by a client whose requests are answered: rpending_ is empty
\* unless a failing call left its read there, which stops the program.
LEMMA ReadIInv ==
    ASSUME IInv, Read
    PROVE  IInv'
<1> DEFINE q == R(reads + 1)
<1>1. /\ Typed /\ OneBuffer /\ OneRead /\ Answering /\ Stopped /\ ErrIsBroken
      /\ InputSound /\ OutputSound /\ OnlyFailuresAbort /\ AnsweredOnce /\ StreamPreserved
      BY DEF IInv, Sound, Read
<1>2. /\ Running /\ holder = None /\ stop = "no" /\ reads < MaxReads /\ reads' = reads + 1
      /\ \A n \in 1..reads : answers[R(n)] > 0
      /\ UNCHANGED <<holder, wpending, stop, registered, edge, reported, room, arrived,
                     connection, writes>>
      BY DEF Read, Locked, epoll
<1>3. /\ reads \in Nat /\ reads' \in 0..MaxReads /\ reads' \in 1..MaxReads
      BY <1>1, <1>2, BoundsAssumption DEF Typed
<1>4. /\ Made' = Made \cup {q} /\ q \notin Made /\ q \in Requests /\ Made \subseteq Requests
      /\ q = R(reads') /\ Written' = Written
  <2>1. 1..(reads + 1) = (1..reads) \cup {reads + 1}
        BY <1>3
  <2>2. Made' = Made \cup {q}
        BY <1>2, <2>1 DEF Made
  <2>3. q \notin Made
        BY <1>3, RequestsAre DEF Made
  <2> QED
      BY <1>1, <1>2, <1>3, <2>2, <2>3, RequestsAre, MadeAre DEF Written
<1>5. \A n \in 1..reads : R(n) \in Made
      BY DEF Made
<1>6. answers[q] = 0
      BY <1>1, <1>4 DEF Answering
<1>7. CASE rpending # None
  <2>1. /\ aborted' = TRUE
        /\ UNCHANGED <<rpending, taken, failures, answers, failed, sent, got, cut>>
        BY <1>7 DEF Read, history
  <2>2. failed # {}
    <3>1. reads \in 1..reads
      <4>1. rpending \in Reading /\ rpending.n = reads
            BY <1>1, <1>7 DEF OneRead, Typed
      <4>2. rpending.n \in 1..MaxReads
            BY <4>1 DEF Reading
      <4> QED
          BY <1>3, <4>1, <4>2
    <3> QED
        BY <1>1, <1>2, <1>7, <3>1 DEF OneRead
  <2>3. Typed'
        BY <1>1, <1>2, <1>3, <2>1 DEF Typed
  <2>4. OnlyFailuresAbort' /\ AnsweredOnce' /\ StreamPreserved'
        BY <1>1, <1>2, <1>4, <2>1, <2>2
           DEF OnlyFailuresAbort, AnsweredOnce, StreamPreserved
  <2> QED
      BY <2>1, <2>3, <2>4 DEF IInv, Running
<1>8. CASE rpending = None
  <2>1. PICK size \in 1..MaxSize, peek \in BOOLEAN :
          ReadDataFromSocket([n |-> reads', size |-> size, peek |-> peek, data |-> <<>>])
        BY <1>8 DEF Read
  <2>2. UNCHANGED <<aborted, sent, cut>>
        BY <1>8 DEF Read
  <2> DEFINE ctx == [n |-> reads', size |-> size, peek |-> peek, data |-> <<>>]
  <2>3. /\ ctx \in Reading /\ Len(ctx.data) < ctx.size /\ ctx.n = reads' /\ Len(ctx.data) = 0
        BY <1>3, EmptySeq DEF Reading
  <2>4. Input(ctx, taken, got) /\ IsStream(got)
    <3>1. taken = Len(got) /\ Len(got) \in Nat
          BY <1>1, <1>2, <1>8, LenProperties DEF InputSound, Input, Typed
    <3>2. IsStream(got)
          BY <1>1 DEF StreamPreserved, IsStream
    <3> QED
        BY <2>3, <3>1, <3>2 DEF Input
  <2>5. ReadSound(ctx)
    <3> HIDE DEF ctx
    <3> QED
        BY <1>1, <2>1, <2>3, <2>4, ReadDataSound DEF ctx
  <2> HIDE DEF ctx
  <2>6. /\ rpending' \in Reading \cup {None}
        /\ rpending' # None => /\ rpending'.n = reads'
                               /\ Len(rpending'.data) < rpending'.size
                               /\ answers' = answers \/ q \in failed'
        /\ rpending' = None => answers'[q] = answers[q] + 1
        /\ answers' \in [Requests -> Nat]
        /\ answers'[q] \in {answers[q], answers[q] + 1}
        /\ \A p \in Requests : p # q => answers'[p] = answers[p]
        /\ failed \subseteq failed' /\ failed' \subseteq failed \cup {q}
        /\ failures' \in Nat
        /\ taken' \in 0..arrived
        /\ got' \in Seq(Nat) /\ IsStream(got')
        /\ Input(rpending', taken', got')
        BY <1>4, <2>3, <2>5 DEF ReadSound
  <2> HIDE DEF q
  <2>7. Typed'
        BY <1>1, <1>2, <1>3, <1>4, <2>2, <2>6 DEF Typed
  <2>8. AnsweredOnce'
    <3>1. OneAnswer(q)
          BY <1>6, <2>6 DEF OneAnswer
    <3> QED
        BY <1>1, <1>2, <1>4, <2>6, <3>1, OneAnswerKeeps
  <2>9. OnlyFailuresAbort' /\ StreamPreserved'
        BY <1>1, <1>2, <1>4, <2>2, <2>6
           DEF OnlyFailuresAbort, StreamPreserved, IsStream, Running
  <2>10. OneBuffer'
    <3>1. W(Len(writes)) # q
          BY <1>4, RequestsAre
    <3>2. Len(writes) > 0 => W(Len(writes)) \in Requests
      <4>1. Len(writes) > 0 => Len(writes) \in 1..MaxWrites
            BY <1>1, LenProperties, BoundsAssumption DEF Typed
      <4> QED
          BY <4>1, RequestsAre
    <3>3. Len(writes) > 0 => answers'[W(Len(writes))] = answers[W(Len(writes))]
          BY <2>6, <3>1, <3>2
    <3> QED
        BY <1>1, <1>2, <2>6, <3>3 DEF OneBuffer
  <2>11. OneRead'
        BY <1>4, <1>6, <2>6 DEF OneRead
  <2>12. Answering'
    <3>1. ASSUME NEW p \in Requests \ Made' PROVE answers'[p] = 0
          BY <1>1, <1>4, <2>6, <3>1 DEF Answering
    <3>2. ASSUME NEW p \in Made', answers'[p] = 0
          PROVE  \/ p = W(Len(writes)) /\ (wpending # <<>> \/ holder = "client")
                 \/ p = R(reads') /\ rpending' # None
      <4>1. CASE p = q
            BY <1>4, <1>6, <2>6, <3>2, <4>1
      <4>2. CASE p # q
        <5>1. p \in Made /\ answers[p] = 0
              BY <1>4, <2>6, <3>2, <4>2
        <5> QED
            BY <1>1, <1>8, <5>1 DEF Answering
      <4> QED
          BY <4>1, <4>2
    <3> QED
        BY <1>2, <3>1, <3>2 DEF Answering
  <2>13. Stopped' /\ ErrIsBroken' /\ InputSound' /\ OutputSound'
        BY <1>1, <1>2, <1>4, <2>2, <2>6 DEF Stopped, ErrIsBroken, InputSound, OutputSound
  <2> QED
      BY <2>7, <2>8, <2>9, <2>10, <2>11, <2>12, <2>13 DEF IInv, Sound
<1> QED
    BY <1>7, <1>8

\* HandleFdEvent goes on with the read in rpending_, and only an EPOLLERR, of a
\* broken connection, stops the program.
LEMMA HandleFdEventIInv ==
    ASSUME IInv, HandleFdEvent
    PROVE  IInv'
<1> DEFINE q == R(reads)
           reading == "in" \in reported /\ rpending # None
<1>1. /\ Typed /\ OneBuffer /\ OneRead /\ Answering /\ Stopped /\ ErrIsBroken
      /\ InputSound /\ OutputSound /\ OnlyFailuresAbort /\ AnsweredOnce /\ StreamPreserved
      BY DEF IInv, Sound, HandleFdEvent
<1>2. /\ Running /\ holder = None /\ reported # None
      /\ IF "out" \in reported
           THEN holder' = "poller" /\ aborted' = aborted /\ reported' = reported
           ELSE aborted' = ("err" \in reported) /\ reported' = None /\ holder' = holder
      /\ UNCHANGED <<wpending, stop, registered, edge, room, arrived, connection, writes, reads,
                     sent, cut>>
      BY DEF HandleFdEvent, Locked
<1>3. Made' = Made /\ Made \subseteq Requests /\ Written' = Written
      BY <1>1, <1>2, MadeAre DEF Made, Written
<1>4. IF reading
        THEN ReadDataFromSocket(rpending)
        ELSE UNCHANGED <<rpending, taken, failures, answers, failed, got>>
      BY DEF HandleFdEvent
<1>5. /\ OnlyFailuresAbort' /\ aborted' \in BOOLEAN
      /\ holder' \in {None, "client", "poller"} /\ holder' # "client"
      /\ reported' \in {reported, None} /\ (holder' = "poller" => reported' # None)
  <2>1. holder' # "client" /\ None # "poller"
        BY <1>2, NoneAssumption
  <2>2. aborted' => connection' = "broken"
        BY <1>1, <1>2 DEF ErrIsBroken, Running, Typed
  <2>3. OnlyFailuresAbort'
        BY <2>2 DEF OnlyFailuresAbort
  <2>4. /\ aborted' \in BOOLEAN /\ holder' \in {None, "client", "poller"}
        /\ reported' \in {reported, None}
    <3>1. aborted' = aborted \/ aborted' = ("err" \in reported)
          BY <1>2
    <3>2. aborted \in BOOLEAN
          BY <1>1 DEF Typed
    <3>3. ("err" \in reported) \in BOOLEAN
          OBVIOUS
    <3>4. aborted' \in BOOLEAN
      <4>1. CASE aborted' = aborted
            BY <3>2, <4>1
      <4>2. CASE aborted' = ("err" \in reported)
            BY <4>2
      <4> QED
          BY <3>1, <4>1, <4>2
    <3> QED
        BY <1>1, <1>2, <3>4 DEF Typed
  <2>5. holder' = "poller" => reported' # None
        BY <1>2, <2>1
  <2> QED
      BY <2>1, <2>3, <2>4, <2>5
<1>7. CASE ~reading
  <2>1. UNCHANGED <<rpending, taken, failures, answers, failed, got>>
        BY <1>4, <1>7
  <2>2. Typed'
        BY <1>1, <1>2, <1>5, <2>1 DEF Typed
  <2>3. AnsweredOnce' /\ StreamPreserved'
        BY <1>1, <1>2, <1>3, <2>1 DEF AnsweredOnce, StreamPreserved
  <2>4. OneBuffer' /\ OneRead'
        BY <1>1, <1>2, <1>5, <2>1 DEF OneBuffer, OneRead
  <2>5. Answering'
        BY <1>1, <1>2, <1>3, <2>1, NoneAssumption DEF Answering
  <2>6. Stopped' /\ ErrIsBroken' /\ InputSound' /\ OutputSound'
        BY <1>1, <1>2, <1>3, <1>5, <2>1 DEF Stopped, ErrIsBroken, InputSound, OutputSound
  <2> QED
      BY <1>5, <2>2, <2>3, <2>4, <2>5, <2>6 DEF IInv, Sound
<1>8. CASE reading
  <2>1. rpending # None /\ rpending \in Reading /\ Len(rpending.data) < rpending.size
        /\ rpending.n = reads /\ stop # "done"
        BY <1>1, <1>8 DEF Typed, OneRead, Stopped
  <2>2. Input(rpending, taken, got) /\ IsStream(got)
        BY <1>1, <2>1 DEF InputSound, StreamPreserved, IsStream
  <2>3. ReadSound(rpending)
        BY <1>1, <1>4, <1>8, <2>1, <2>2, ReadDataSound
  <2>4. /\ q \in Requests /\ q \in Made /\ (answers[q] = 0 \/ q \in failed)
    <3>1. reads \in 1..MaxReads /\ reads \in 1..reads
          BY <1>1, <2>1, BoundsAssumption DEF Typed, Reading
    <3> QED
        BY <1>1, <2>1, <3>1, RequestsAre DEF OneRead, Made
  <2>q. q = R(reads)
        OBVIOUS
  <2> HIDE DEF q, reading
  <2>5. /\ rpending' \in Reading \cup {None}
        /\ rpending' # None => /\ rpending'.n = reads
                               /\ Len(rpending'.data) < rpending'.size
                               /\ answers' = answers \/ q \in failed'
        /\ rpending' = None => answers'[q] = answers[q] + 1
        /\ answers' \in [Requests -> Nat]
        /\ answers'[q] \in {answers[q], answers[q] + 1}
        /\ \A p \in Requests : p # q => answers'[p] = answers[p]
        /\ failed \subseteq failed' /\ failed' \subseteq failed \cup {q}
        /\ failures' \in Nat
        /\ taken' \in 0..arrived
        /\ got' \in Seq(Nat) /\ IsStream(got')
        /\ Input(rpending', taken', got')
        BY <2>1, <2>3, <2>q DEF ReadSound
  <2>6. Typed'
        BY <1>1, <1>2, <1>5, <2>4, <2>5 DEF Typed
  <2>7. AnsweredOnce'
    <3>1. OneAnswer(q)
          BY <2>4, <2>5 DEF OneAnswer
    <3> QED
        BY <1>1, <1>2, <1>3, <2>4, <2>5, <3>1, OneAnswerKeeps
  <2>8. StreamPreserved'
        BY <1>1, <1>2, <1>3, <2>5 DEF StreamPreserved, IsStream
  <2>9. OneBuffer'
    <3>1. W(Len(writes)) # q
          BY <2>q, RequestsAre
    <3>2. Len(writes) > 0 => W(Len(writes)) \in Requests
      <4>1. Len(writes) > 0 => Len(writes) \in 1..MaxWrites
            BY <1>1, LenProperties, BoundsAssumption DEF Typed
      <4> QED
          BY <4>1, RequestsAre
    <3>3. Len(writes) > 0 => answers'[W(Len(writes))] = answers[W(Len(writes))]
          BY <2>5, <3>1, <3>2
    <3>4. wpending # <<>> => failed' # {}
          BY <1>1, <1>2, <2>5 DEF OneBuffer
    <3> QED
        BY <1>1, <1>2, <1>5, <2>5, <3>3, <3>4 DEF OneBuffer
  <2>10. OneRead'
    <3>1. rpending' # None => answers'[q] = 0 \/ q \in failed'
          BY <2>4, <2>5
    <3> QED
        BY <1>2, <2>5, <2>q, <3>1 DEF OneRead
  <2>11. Answering'
    <3>1. ASSUME NEW p \in Requests \ Made PROVE answers'[p] = 0
          BY <1>1, <2>4, <2>5, <3>1 DEF Answering
    <3>2. ASSUME NEW p \in Made, answers'[p] = 0
          PROVE  \/ p = W(Len(writes)) /\ wpending # <<>>
                 \/ p = R(reads) /\ rpending' # None
      <4>1. CASE p = q
            BY <1>1, <2>4, <2>5, <2>q, <3>2, <4>1 DEF Typed
      <4>2. CASE p # q
        <5>1. answers[p] = 0 /\ holder # "client"
              BY <1>2, <1>3, <2>5, <3>2, <4>2, NoneAssumption
        <5> QED
            BY <1>1, <2>q, <4>2, <5>1 DEF Answering
      <4> QED
          BY <4>1, <4>2
    <3> QED
        BY <1>2, <1>3, <3>1, <3>2 DEF Answering
  <2>12. Stopped' /\ ErrIsBroken' /\ InputSound' /\ OutputSound'
        BY <1>1, <1>2, <1>3, <1>5, <2>1, <2>5
           DEF Stopped, ErrIsBroken, InputSound, OutputSound
  <2> QED
      BY <1>5, <2>6, <2>7, <2>8, <2>9, <2>10, <2>11, <2>12 DEF IInv, Sound
<1> QED
    BY <1>7, <1>8

\* IInv holds at first, ...
LEMMA InitIInv == Init => IInv
<1> SUFFICES ASSUME Init PROVE IInv
    OBVIOUS
<1>1. Typed
  <2>1. SendBuffer \in 0..SendBuffer /\ Len(<<>>) <= MaxWrites /\ 0 \in 0..MaxReads
        BY BoundsAssumption
  <2>2. answers \in [Requests -> Nat]
        BY DEF Init
  <2>3. None \in (SUBSET {"in", "out", "err"}) \cup {None} /\ 0 \in 0..0 /\ 0 \in Nat
        OBVIOUS
  <2> QED
      BY <2>1, <2>2, <2>3, EmptySeq DEF Init, Typed
<1>2. Made = {} /\ Written = <<>> /\ Len(got) = 0
      BY <1>1, WrittenIs DEF Init, Made
<1>3. OnlyFailuresAbort /\ AnsweredOnce
      BY <1>2 DEF Init, OnlyFailuresAbort, AnsweredOnce
<1>4. StreamPreserved
  <2>1. IsPrefix(sent, Written)
        BY <1>1, <1>2, PrefixRefl DEF Init, Typed
  <2>2. got = [i \in 1..Len(got) |-> i]
        BY <1>2 DEF Init
  <2> QED
      BY <2>1, <2>2 DEF StreamPreserved
<1>5. Sound
      BY <1>2, NoneAssumption
         DEF Init, Sound, OneBuffer, OneRead, Answering, Stopped, ErrIsBroken,
             InputSound, Input, OutputSound
<1> QED
    BY <1>1, <1>3, <1>4, <1>5 DEF IInv

\* ... every step preserves it, ...
LEMMA NextIInv == IInv /\ [Next]_vars => IInv'
<1> SUFFICES ASSUME IInv, [Next]_vars PROVE IInv'
    OBVIOUS
<1>1. CASE Next
      BY <1>1, WriteIInv, WritevIInv, WriteEndsIInv, WritevFailsIInv, ReadIInv,
         HandleFdEventIInv, StopIInv, BarrierDoneIInv, SocketIInv DEF Next
<1>2. CASE UNCHANGED vars
  <2>1. UNCHANGED <<holder, wpending, rpending, stop, aborted, registered, edge, reported, room,
                    arrived, taken, connection, writes, reads, failures, answers, failed, sent,
                    got, cut>>
        BY <1>2 DEF vars, channel, epoll, socket, counts, history
  <2>2. Made' = Made /\ Written' = Written
        BY <2>1 DEF Made, Written
  <2>3. /\ Typed' /\ OnlyFailuresAbort' /\ AnsweredOnce' /\ StreamPreserved'
        /\ Running => Running'
        BY <2>1, <2>2 DEF IInv, Typed, OnlyFailuresAbort, AnsweredOnce, StreamPreserved, Running
  <2>4. Running' => Running
        BY <2>1 DEF Running
  <2>5. Sound => OneBuffer' /\ OneRead' /\ Answering' /\ Stopped'
        BY <2>1, <2>2 DEF Sound, OneBuffer, OneRead, Answering, Stopped
  <2>6. Sound => ErrIsBroken' /\ InputSound' /\ OutputSound'
        BY <2>1, <2>2 DEF Sound, ErrIsBroken, InputSound, OutputSound
  <2> QED
      BY <2>3, <2>4, <2>5, <2>6 DEF IInv, Sound
<1> QED
    BY <1>1, <1>2

\* ... and so it holds in every state.
LEMMA Inductive == Spec => []IInv
<1> QED
    BY InitIInv, NextIInv, PTL DEF Spec

-----------------------------------------------------------------------------
(* The theorems.                                                            *)

\* The fields of a TCPChannel keep their types: a buffer of wpending_ is never
\* longer than the longest Write, and a read stays in rpending_ only while it
\* lacks bytes (tcp-linux.cc, ReadDataFromSocket).
THEOREM TypeCorrect == Spec => []TypeOK
<1>1. IInv => TypeOK
  <2>1. Typed => \A i \in DOMAIN wpending :
                   wpending[i] \in [n : 1..MaxWrites, left : 1..MaxSize]
        BY ElementOfSeq, LenProperties DEF Typed, Buffer
  <2>2. Typed => {aborted, registered, edge, cut} \subseteq BOOLEAN
        BY DEF Typed
  <2> QED
      BY <2>1, <2>2 DEF IInv, Typed, TypeOK, Reading
<1> QED
    BY <1>1, Inductive, PTL

\* The INVARIANTs of Read, Write and SpinMutex and the DEADEND of HandleFdEvent
\* stop the program only after a socket call has failed or the connection broke:
\* neither a client that calls Write and Read at any moment, while its requests
\* may be pending, nor a Stop, nor any order of the threads does it.
THEOREM OnlyFailuresAbortHolds == Spec => []OnlyFailuresAbort
<1>1. IInv => OnlyFailuresAbort
      BY DEF IInv
<1> QED
    BY <1>1, Inductive, PTL

\* A request that met no failing call is answered at most once, by the return of
\* its call, by its callback or by FailOps, and when BarrierDone has run no
\* request is without an answer.
THEOREM AnsweredOnceHolds == Spec => []AnsweredOnce
<1>1. IInv => AnsweredOnce
      BY DEF IInv
<1> QED
    BY <1>1, Inductive, PTL

\* The socket gets the bytes of the writes in the order of the calls, each once,
\* as long as no writev ended inside a buffer, and Read returns the bytes of the
\* stream in order, none twice and none left out, whatever Peek looked at between.
THEOREM StreamPreservedHolds == Spec => []StreamPreserved
<1>1. IInv => StreamPreserved
      BY DEF IInv
<1> QED
    BY <1>1, Inductive, PTL
=============================================================================
