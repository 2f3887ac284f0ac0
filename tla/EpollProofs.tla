------------------------------ MODULE EpollProofs ------------------------------
(* Proofs about Epoll for every set of descriptors, callers and events, and   *)
(* for any number of records.                                                 *)
EXTENDS Epoll, FiniteSetTheorems, TLAPS

-----------------------------------------------------------------------------
(* The inductive invariant.                                                   *)

(* The record of a descriptor in fdmap_ is a record of that descriptor, and   *)
(* calls about one descriptor do not overlap.                                 *)
MapSound == /\ \A r \in 1..created : recFd[r] \in Fds
            /\ \A f \in Fds : fdmap[f] # None =>
                 fdmap[f] \in 1..created /\ recFd[fdmap[f]] = f

Calling(c) == call[c].op # "idle"
FdOf(c) == recFd[call[c].rec]

NoOverlap == \A c, d \in Callers :
                Calling(c) /\ Calling(d) /\ FdOf(c) = FdOf(d) => c = d

Calls == [op : {"idle", "add", "del", "trash", "copy", "mod"},
          rec : Records \cup {None}, ee : SUBSET Events]

(* What is between two steps of a call: fdmap_ and the kernel disagree about  *)
(* its descriptor in one way only.                                            *)
Watches(f, r) == interest[f] # None /\ interest[f].rec = r

CallSound(c) ==
    /\ call[c].rec \in 1..created
    /\ call[c].rec \notin freed
    /\ call[c].op \in {"add", "copy", "mod"} => fdmap[FdOf(c)] = call[c].rec
    /\ call[c].op \in {"del", "trash"} => /\ fdmap[FdOf(c)] = None
                                        /\ call[c].rec \in muted \ trashcan
    /\ call[c].op \in {"copy", "mod", "del"} => Watches(FdOf(c), call[c].rec)
    /\ call[c].op \in {"add", "trash"} => interest[FdOf(c)] = None
    /\ call[c].op = "mod" => call[c].ee = mask[call[c].rec]

CallsSound == \A c \in Callers : Calling(c) => CallSound(c)

(* Where a record is: in fdmap_, in the hands of a Remove, in the trash, or   *)
(* deleted.  Only the record of a failed Add is deleted and still in fdmap_.  *)
InMap(r) == fdmap[recFd[r]] = r
InRemove(r) == \E c \in Callers : call[c].op \in {"del", "trash"} /\ call[c].rec = r

PlacesSound ==
    /\ trashcan \cup freed \cup muted \subseteq 1..created
    /\ trashcan \cap freed = {}
    /\ trashcan \subseteq muted
    /\ \A r \in 1..created : InMap(r) => r \notin muted \cup trashcan
    /\ \A r \in 1..created : InMap(r) \/ InRemove(r) \/ r \in trashcan \cup freed

(* The polling thread has pointers that the kernel gave it, of records that   *)
(* have been registered and are not deleted, only between EpollWait and       *)
(* EmptyTrashcan.                                                             *)
HeldSound(r) == /\ r \in 1..created
                /\ r \notin freed
                /\ \A c \in Callers : call[c].op = "add" => call[c].rec # r

ThreadSound ==
    /\ pc \in {"top", "wait", "ended"} => batch = {}
    /\ pc \in {"top", "wait", "ended", "loop"} => current = None
    /\ pc \in {"calling", "handler"} => current # None
    /\ \A x \in batch : HeldSound(x.rec)
    /\ current # None => HeldSound(current.rec)

(* The destructor runs when every call has returned and nothing is in         *)
(* fdmap_ but what failed Adds have left there.                               *)
LifeSound ==
    /\ life # "up" => (\A c \in Callers : ~Calling(c)) /\ (\A f \in Fds : ~Usable(f))
    /\ life \in {"joined", "gone"} => pc = "ended"
    /\ life = "gone" => trashcan = {} /\ \A f \in Fds : fdmap[f] = None

TablesSound == MapSound /\ NoOverlap /\ CallsSound /\ PlacesSound /\ KernelAgrees

IInv == TypeOK /\ TablesSound /\ ThreadSound /\ LifeSound

-----------------------------------------------------------------------------
(* The kernel has pointers to records that exist and have been registered.    *)
LEMMA InterestSound ==
    ASSUME TypeOK, TablesSound, NEW f \in Fds, interest[f] # None
    PROVE  HeldSound(interest[f].rec) /\ recFd[interest[f].rec] = f
<1>1. CASE ~Busy(f)
  <2>1. Usable(f) /\ interest[f] = [rec |-> fdmap[f], events |-> mask[fdmap[f]]]
        BY <1>1 DEF TablesSound, KernelAgrees
  <2>2. /\ interest[f].rec \in 1..created /\ interest[f].rec \notin freed
        /\ recFd[interest[f].rec] = f
        BY <2>1 DEF TablesSound, MapSound, Usable
  <2> QED
      BY <2>2, <1>1 DEF HeldSound, Busy
<1>2. CASE Busy(f)
  <2>1. PICK c \in Callers : Calling(c) /\ FdOf(c) = f
        BY <1>2 DEF Busy, Calling, FdOf
  <2>2. interest[f].rec = call[c].rec /\ CallSound(c)
        BY <2>1 DEF TypeOK, TablesSound, CallsSound, CallSound, Watches, Calling
  <2>3. \A d \in Callers : call[d].op = "add" => call[d].rec # call[c].rec
        BY <2>1, <2>2 DEF TablesSound, NoOverlap, Calling, FdOf, CallSound
  <2> QED
      BY <2>1, <2>2, <2>3 DEF HeldSound, CallSound, FdOf
<1> QED
    BY <1>1, <1>2

\* What every lemma below needs of the types: a call and a descriptor in use have a
\* record.
LEMMA Typing ==
    ASSUME IInv
    PROVE  /\ TypeOK /\ created \in Nat /\ call \in [Callers -> Calls]
           /\ Idle \in Calls /\ Idle.op = "idle"
           /\ \A c \in Callers : Calling(c) => call[c].rec \in Records
           /\ \A f \in Fds : Usable(f) => fdmap[f] \in Records
<1>1. TypeOK /\ created \in Nat /\ call \in [Callers -> Calls]
      BY DEF IInv, TypeOK, Calls
<1>2. Idle \in Calls /\ Idle.op = "idle"
      BY DEF Idle, Calls
<1>3. /\ \A c \in Callers : Calling(c) => call[c].rec \in Records
      /\ \A f \in Fds : Usable(f) => fdmap[f] \in Records
      BY BoundAssumption
         DEF IInv, TypeOK, TablesSound, CallsSound, CallSound, Usable, Records
<1> QED
    BY <1>1, <1>2, <1>3

\* The tables stay sound when the records, the kernel's list and the calls do.
LEMMA TablesKept ==
    ASSUME IInv, UNCHANGED <<records, interest, call, created>>
    PROVE  TablesSound'
BY DEF IInv, TablesSound, records, MapSound, NoOverlap, CallsSound, CallSound, Calling,
       FdOf, Watches, PlacesSound, InMap, InRemove, KernelAgrees, Busy, Usable

-----------------------------------------------------------------------------
(* Every step keeps the invariant; first the calls.                           *)

\* Add: a new record into fdmap_.
LEMMA AddIInv ==
    ASSUME IInv, NEW c \in Callers, NEW f \in Fds, NEW events \in SUBSET Events,
           Add(c, f, events)
    PROVE  IInv'
<1>t. /\ TypeOK /\ created \in Nat /\ call \in [Callers -> Calls]
      /\ Idle \in Calls /\ Idle.op = "idle"
      BY Typing
<1>s. /\ \A d \in Callers : Calling(d) => call[d].rec \in Records
      /\ \A g \in Fds : Usable(g) => fdmap[g] \in Records
      BY Typing
<1>1. /\ life = "up" /\ ~Calling(c) /\ ~Busy(f) /\ fdmap[f] = None
      /\ created' = created + 1 /\ created + 1 \in Records
      /\ fdmap' = [fdmap EXCEPT ![f] = created + 1]
      /\ recFd' = [recFd EXCEPT ![created + 1] = f]
      /\ mask' = [mask EXCEPT ![created + 1] = events]
      /\ UNCHANGED <<muted, freed, trashcan, interest, ready, pc, batch, current, life>>
      /\ call' = [call EXCEPT ![c] = [op |-> "add", rec |-> created + 1, ee |-> {}]]
      BY <1>t, BoundAssumption DEF Add, Free, Starts, Records, Calling, kernel, thread
<1>2. /\ call' \in [Callers -> Calls]
      /\ call'[c] = [op |-> "add", rec |-> created + 1, ee |-> {}]
      /\ \A d \in Callers \ {c} : call'[d] = call[d]
  <2>1. [op |-> "add", rec |-> created + 1, ee |-> {}] \in Calls
        BY <1>1 DEF Calls
  <2> QED
      BY <1>1, <1>t, <2>1
<1>3. TypeOK'
      BY <1>1, <1>t DEF TypeOK, Records
<1>4. MapSound'
      BY <1>1, <1>t, BoundAssumption DEF IInv, TablesSound, MapSound, TypeOK
<1>5. NoOverlap'
      BY <1>1
         DEF IInv, TablesSound, NoOverlap, Calling, FdOf, CallsSound, CallSound, Busy,
             TypeOK
<1>6. CallsSound'
      BY <1>1, NoneAssumption
         DEF IInv, TablesSound, CallsSound, CallSound, Calling, FdOf, Watches,
             KernelAgrees, Busy, PlacesSound, TypeOK
<1>7. PlacesSound'
  <2>1. \A r \in 1..created : r # created + 1 /\ (InRemove(r) => InRemove(r)')
        BY <1>1, <1>t DEF InRemove, Calling
  <2>2. created + 1 \notin trashcan \cup freed \cup muted
        BY <2>1 DEF IInv, TablesSound, PlacesSound
  <2>3. fdmap'[recFd'[created + 1]] = created + 1
        BY <1>1, <1>t DEF TypeOK
  <2>4. ASSUME NEW r \in 1..created
        PROVE  InMap(r)' <=> InMap(r)
    <3>1. recFd'[r] = recFd[r] /\ recFd[r] \in Fds /\ r # None /\ r # created + 1
          BY <1>1, <1>t, BoundAssumption, NoneAssumption
             DEF IInv, TablesSound, MapSound, Records
    <3>2. CASE recFd[r] = f
          BY <3>1, <1>1 DEF InMap
    <3>3. CASE recFd[r] # f
          BY <3>1, <1>1 DEF InMap
    <3> QED
        BY <3>2, <3>3
  <2>5. 1..created' = 1..created \cup {created + 1}
        BY <1>1, <1>t
  <2>6. (trashcan \cup freed \cup muted \subseteq 1..created)'
        BY <2>5, <1>1 DEF IInv, TablesSound, PlacesSound
  <2>7. \A r \in 1..created' : InMap(r)' => r \notin muted' \cup trashcan'
        BY <2>4, <1>1 DEF IInv, TablesSound, PlacesSound
  <2>8. \A r \in 1..created' : InMap(r)' \/ InRemove(r)' \/ r \in trashcan' \cup freed'
        BY <2>1, <2>3, <2>4, <2>5, <1>1 DEF IInv, TablesSound, PlacesSound, InMap
  <2> QED
      BY <2>6, <2>7, <2>8, <1>1 DEF IInv, TablesSound, PlacesSound
<1>8. ASSUME NEW g \in Fds, ~Busy(g)'
      PROVE  interest'[g] =
               IF Usable(g)' THEN [rec |-> fdmap'[g], events |-> mask'[fdmap'[g]]]
                            ELSE None
  <2>1. CASE g = f
        BY <2>1, <1>8, <1>1 DEF IInv, Busy, TypeOK
  <2>2. CASE g # f
    <3>1. ~Busy(g)
          BY <1>8, <1>1, <1>t DEF IInv, TablesSound, Busy, Calling, CallsSound, CallSound
    <3> QED
        BY <3>1, <2>2, <1>1, <1>t, NoneAssumption
           DEF IInv, TablesSound, KernelAgrees, Usable, MapSound
  <2> QED
      BY <2>1, <2>2
<1>9. ThreadSound'
      BY <1>1, <1>t DEF IInv, ThreadSound, HeldSound
<1>10. LifeSound'
      BY <1>1 DEF LifeSound
<1>11. KernelAgrees'
      BY <1>8 DEF KernelAgrees
<1> QED
    BY <1>3, <1>4, <1>5, <1>6, <1>7, <1>11, <1>9, <1>10 DEF IInv, TablesSound

\* Add: the kernel gets the pointer to it.
LEMMA CtlAddIInv ==
    ASSUME IInv, NEW c \in Callers, CtlAdd(c)
    PROVE  IInv'
<1>t. /\ TypeOK /\ created \in Nat /\ call \in [Callers -> Calls]
      /\ Idle \in Calls /\ Idle.op = "idle"
      BY Typing
<1>s. /\ \A d \in Callers : Calling(d) => call[d].rec \in Records
      /\ \A g \in Fds : Usable(g) => fdmap[g] \in Records
      BY Typing
<1>1. /\ call[c].op = "add"
      /\ interest' = [interest EXCEPT ![FdOf(c)] =
                           [rec |-> call[c].rec, events |-> mask[call[c].rec]]]
      /\ UNCHANGED <<fdmap, recFd, mask, muted, freed, trashcan, ready, created, pc,
                     batch, current, life>>
      /\ call' = [call EXCEPT ![c] = Idle]
      BY DEF CtlAdd, Register, Returns, FdOf, records, thread
<1>2. /\ call' \in [Callers -> Calls] /\ call'[c] = Idle
      /\ \A d \in Callers \ {c} : call'[d] = call[d]
      BY <1>1, <1>t
<1>3. TypeOK'
  <2> DEFINE Watched == [rec : Records, events : SUBSET Events] \cup {None}
  <2>1. call[c].rec \in Records
        BY <1>1, <1>s DEF Calling
  <2>2. interest \in [Fds -> Watched]
        BY <1>t DEF TypeOK
  <2>3. [rec |-> call[c].rec, events |-> mask[call[c].rec]] \in Watched
        BY <1>t, <2>1 DEF TypeOK, Calls
  <2>4. interest' \in [Fds -> Watched]
    <3> HIDE DEF Watched
    <3> QED
        BY <1>1, <2>2, <2>3
  <2> QED
      BY <1>1, <1>2, <1>t, <2>4 DEF TypeOK, Calls
<1>4. MapSound'
      BY <1>1 DEF IInv, TablesSound, MapSound
<1>5. NoOverlap'
      BY <1>1, <1>t DEF IInv, TablesSound, NoOverlap, Calling, FdOf
<1>6. CallsSound'
      BY <1>1, <1>t
         DEF IInv, TablesSound, CallsSound, CallSound, Calling, FdOf, Watches, NoOverlap
<1>7. PlacesSound'
      BY <1>1 DEF IInv, TablesSound, PlacesSound, InMap, InRemove
<1>8. ASSUME NEW g \in Fds, ~Busy(g)'
      PROVE  interest'[g] =
               IF Usable(g)' THEN [rec |-> fdmap'[g], events |-> mask'[fdmap'[g]]]
                            ELSE None
  <2>1. CASE g = FdOf(c)
    <3>1. /\ FdOf(c) \in Fds /\ call[c].rec \in Records \ freed
          /\ fdmap[FdOf(c)] = call[c].rec
          BY <1>1, BoundAssumption
             DEF IInv, TablesSound, CallsSound, CallSound, Calling, FdOf, MapSound,
                 Records, TypeOK
    <3>2. Usable(g)' /\ fdmap'[g] = call[c].rec
          BY <2>1, <3>1, <1>1, NoneAssumption DEF Usable
    <3> QED
        BY <2>1, <3>2, <1>1, <1>t DEF TypeOK
  <2>2. CASE g # FdOf(c)
    <3>1. ~Busy(g)
          BY <2>2, <1>8, <1>1 DEF Busy, FdOf
    <3> QED
        BY <3>1, <2>2, <1>1 DEF IInv, TablesSound, KernelAgrees, Usable
  <2> QED
      BY <2>1, <2>2
<1>9. ThreadSound'
      BY <1>1, <1>t DEF IInv, ThreadSound, HeldSound
<1>10. LifeSound'
      BY <1>1 DEF IInv, LifeSound, Calling
<1>11. KernelAgrees'
      BY <1>8 DEF KernelAgrees
<1> QED
    BY <1>3, <1>4, <1>5, <1>6, <1>7, <1>11, <1>9, <1>10 DEF IInv, TablesSound

\* Add: the kernel refuses it, and the record is deleted.
LEMMA CtlAddFailsIInv ==
    ASSUME IInv, NEW c \in Callers, CtlAddFails(c)
    PROVE  IInv'
<1>t. /\ TypeOK /\ created \in Nat /\ call \in [Callers -> Calls]
      /\ Idle \in Calls /\ Idle.op = "idle"
      BY Typing
<1>s. /\ \A d \in Callers : Calling(d) => call[d].rec \in Records
      /\ \A g \in Fds : Usable(g) => fdmap[g] \in Records
      BY Typing
<1>1. /\ call[c].op = "add"
      /\ freed' = freed \cup {call[c].rec}
      /\ UNCHANGED <<fdmap, recFd, mask, muted, trashcan, interest, ready, created, pc,
                     batch, current, life>>
      /\ call' = [call EXCEPT ![c] = Idle]
      BY DEF CtlAddFails, Returns, kernel, thread
<1>2. /\ call' \in [Callers -> Calls] /\ call'[c] = Idle
      /\ \A d \in Callers \ {c} : call'[d] = call[d]
      BY <1>1, <1>t
<1>3. TypeOK'
  <2>1. call[c].rec \in Records
        BY <1>1, <1>s DEF Calling
  <2>2. freed' \subseteq Records
        BY <1>1, <1>t, <2>1 DEF TypeOK
  <2> QED
      BY <1>1, <1>t, <2>2 DEF TypeOK, Calls
<1>4. MapSound'
      BY <1>1 DEF IInv, TablesSound, MapSound
<1>5. NoOverlap'
      BY <1>1, <1>t DEF IInv, TablesSound, NoOverlap, Calling, FdOf
<1>6. CallsSound'
      BY <1>1, <1>t
         DEF IInv, TablesSound, CallsSound, CallSound, Calling, FdOf, Watches, NoOverlap
<1>7. PlacesSound'
      BY <1>1
         DEF IInv, TablesSound, PlacesSound, InMap, InRemove, CallsSound, CallSound,
             Calling, FdOf
<1>8. ASSUME NEW g \in Fds, ~Busy(g)'
      PROVE  interest'[g] =
               IF Usable(g)' THEN [rec |-> fdmap'[g], events |-> mask'[fdmap'[g]]]
                            ELSE None
  <2>1. CASE g = FdOf(c)
        BY <2>1, <1>1 DEF IInv, TablesSound, CallsSound, CallSound, Calling, Usable
  <2>2. CASE g # FdOf(c)
    <3>1. ~Busy(g)
          BY <2>2, <1>8, <1>1 DEF Busy, FdOf
    <3> QED
        BY <3>1, <2>2, <1>1 DEF IInv, TablesSound, KernelAgrees, Usable, MapSound, FdOf
  <2> QED
      BY <2>1, <2>2
<1>9. ThreadSound'
      BY <1>1, <1>t DEF IInv, ThreadSound, HeldSound
<1>10. LifeSound'
      BY <1>1 DEF IInv, LifeSound, Calling
<1>11. KernelAgrees'
      BY <1>8 DEF KernelAgrees
<1> QED
    BY <1>3, <1>4, <1>5, <1>6, <1>7, <1>11, <1>9, <1>10 DEF IInv, TablesSound

\* Remove: out of fdmap_, and muted.
LEMMA RemoveIInv ==
    ASSUME IInv, NEW c \in Callers, NEW f \in Fds, Remove(c, f)
    PROVE  IInv'
<1>t. /\ TypeOK /\ created \in Nat /\ call \in [Callers -> Calls]
      /\ Idle \in Calls /\ Idle.op = "idle"
      BY Typing
<1>s. /\ \A d \in Callers : Calling(d) => call[d].rec \in Records
      /\ \A g \in Fds : Usable(g) => fdmap[g] \in Records
      BY Typing
<1>1. /\ life = "up" /\ ~Calling(c) /\ ~Busy(f) /\ Usable(f)
      /\ fdmap' = [fdmap EXCEPT ![f] = None] /\ muted' = muted \cup {fdmap[f]}
      /\ UNCHANGED <<recFd, mask, freed, trashcan, interest, ready, created, pc, batch,
                     current, life>>
      /\ call' = [call EXCEPT ![c] = [op |-> "del", rec |-> fdmap[f], ee |-> {}]]
      BY DEF Remove, Free, Starts, Calling, kernel, thread
<1>2. /\ call' \in [Callers -> Calls]
      /\ call'[c] = [op |-> "del", rec |-> fdmap[f], ee |-> {}]
      /\ \A d \in Callers \ {c} : call'[d] = call[d]
  <2>1. [op |-> "del", rec |-> fdmap[f], ee |-> {}] \in Calls
        BY <1>s, <1>1 DEF Calls
  <2> QED
      BY <1>1, <1>t, <2>1
<1>3. TypeOK'
  <2>1. fdmap[f] \in Records
        BY <1>1, <1>s
  <2>2. fdmap' \in [Fds -> Records \cup {None}] /\ muted' \subseteq Records
        BY <1>1, <1>t, <2>1 DEF TypeOK
  <2> QED
      BY <1>1, <1>t, <2>2 DEF TypeOK
<1>4. MapSound'
      BY <1>1 DEF IInv, TablesSound, MapSound
<1>5. NoOverlap'
      BY <1>1 DEF IInv, TablesSound, NoOverlap, Calling, FdOf, MapSound, Busy, Usable
<1>6. CallsSound'
      BY <1>1, NoneAssumption
         DEF IInv, TablesSound, CallsSound, CallSound, Calling, FdOf, Watches, MapSound,
             KernelAgrees, Busy, Usable, PlacesSound, InMap, TypeOK
<1>7. PlacesSound'
      BY <1>1, NoneAssumption
         DEF IInv, TablesSound, PlacesSound, InMap, InRemove, Calling, MapSound, Usable,
             TypeOK
<1>8. ASSUME NEW g \in Fds, ~Busy(g)'
      PROVE  interest'[g] =
               IF Usable(g)' THEN [rec |-> fdmap'[g], events |-> mask'[fdmap'[g]]]
                            ELSE None
  <2>1. CASE g = f
        BY <2>1, <1>8, <1>1, <1>2 DEF IInv, TablesSound, Busy, MapSound, Usable
  <2>2. CASE g # f
    <3>1. ~Busy(g)
          BY <1>8, <1>1 DEF Busy, Calling
    <3> QED
        BY <3>1, <2>2, <1>1 DEF IInv, TablesSound, KernelAgrees, Usable
  <2> QED
      BY <2>1, <2>2
<1>9. ThreadSound'
      BY <1>1 DEF IInv, ThreadSound, HeldSound
<1>10. LifeSound'
      BY <1>1 DEF LifeSound
<1>11. KernelAgrees'
      BY <1>8 DEF KernelAgrees
<1> QED
    BY <1>3, <1>4, <1>5, <1>6, <1>7, <1>11, <1>9, <1>10 DEF IInv, TablesSound

\* Remove: the kernel forgets the pointer.
LEMMA CtlDelIInv ==
    ASSUME IInv, NEW c \in Callers, CtlDel(c)
    PROVE  IInv'
<1>t. /\ TypeOK /\ created \in Nat /\ call \in [Callers -> Calls]
      /\ Idle \in Calls /\ Idle.op = "idle"
      BY Typing
<1>s. /\ \A d \in Callers : Calling(d) => call[d].rec \in Records
      /\ \A g \in Fds : Usable(g) => fdmap[g] \in Records
      BY Typing
<1>1. /\ call[c].op = "del"
      /\ interest' = [interest EXCEPT ![FdOf(c)] = None] /\ ready' \subseteq ready
      /\ UNCHANGED <<fdmap, recFd, mask, muted, freed, trashcan, created, pc, batch,
                     current, life>>
      /\ call' = [call EXCEPT ![c] = [call[c] EXCEPT !.op = "trash"]]
      BY DEF CtlDel, Goto, FdOf, records, thread
<1>2. /\ call' \in [Callers -> Calls] /\ call'[c] = [call[c] EXCEPT !.op = "trash"]
      /\ \A d \in Callers \ {c} : call'[d] = call[d]
  <2>1. [call[c] EXCEPT !.op = "trash"] \in Calls
        BY <1>t DEF Calls
  <2> QED
      BY <1>1, <1>t, <2>1
<1>3. TypeOK'
  <2> DEFINE Watched == [rec : Records, events : SUBSET Events] \cup {None}
  <2>1. interest \in [Fds -> Watched] /\ None \in Watched
        BY <1>t DEF TypeOK
  <2>2. interest' \in [Fds -> Watched]
    <3> HIDE DEF Watched
    <3> QED
        BY <1>1, <2>1
  <2>3. ready' \subseteq Fds \X Events
        BY <1>1, <1>t DEF TypeOK
  <2> QED
      BY <1>1, <1>2, <1>t, <2>2, <2>3 DEF TypeOK, Calls
<1>4. MapSound'
      BY <1>1 DEF IInv, TablesSound, MapSound
<1>5. NoOverlap'
      BY <1>1 DEF IInv, TablesSound, NoOverlap, Calling, FdOf
<1>6. CallsSound'
      BY <1>1
         DEF IInv, TablesSound, CallsSound, CallSound, Calling, FdOf, Watches, NoOverlap,
             MapSound, TypeOK
<1>7. PlacesSound'
  <2>1. \A r \in 1..created : InRemove(r) => InRemove(r)'
        BY <1>1 DEF InRemove
  <2> QED
      BY <2>1, <1>1 DEF IInv, TablesSound, PlacesSound, InMap
<1>8. ASSUME NEW g \in Fds, ~Busy(g)'
      PROVE  interest'[g] =
               IF Usable(g)' THEN [rec |-> fdmap'[g], events |-> mask'[fdmap'[g]]]
                            ELSE None
  <2>1. CASE g = FdOf(c)
        BY <2>1, <1>8, <1>1 DEF Busy, FdOf
  <2>2. CASE g # FdOf(c)
    <3>1. ~Busy(g)
          BY <1>8, <1>1 DEF Busy
    <3> QED
        BY <3>1, <2>2, <1>1 DEF IInv, TablesSound, KernelAgrees, Usable
  <2> QED
      BY <2>1, <2>2
<1>9. ThreadSound'
      BY <1>1 DEF IInv, ThreadSound, HeldSound
<1>10. LifeSound'
      BY <1>1 DEF IInv, LifeSound, Calling
<1>11. KernelAgrees'
      BY <1>8 DEF KernelAgrees
<1> QED
    BY <1>3, <1>4, <1>5, <1>6, <1>7, <1>11, <1>9, <1>10 DEF IInv, TablesSound

\* Remove: into the trash, as a batch may still have the pointer.
LEMMA TrashIInv ==
    ASSUME IInv, NEW c \in Callers, Trash(c)
    PROVE  IInv'
<1>t. /\ TypeOK /\ created \in Nat /\ call \in [Callers -> Calls]
      /\ Idle \in Calls /\ Idle.op = "idle"
      BY Typing
<1>s. /\ \A d \in Callers : Calling(d) => call[d].rec \in Records
      /\ \A g \in Fds : Usable(g) => fdmap[g] \in Records
      BY Typing
<1>1. /\ call[c].op = "trash"
      /\ trashcan' = trashcan \cup {call[c].rec}
      /\ UNCHANGED <<fdmap, recFd, mask, muted, freed, interest, ready, created, pc,
                     batch, current, life>>
      /\ call' = [call EXCEPT ![c] = Idle]
      BY DEF Trash, Returns, kernel, thread
<1>2. /\ call' \in [Callers -> Calls] /\ call'[c] = Idle
      /\ \A d \in Callers \ {c} : call'[d] = call[d]
      BY <1>1, <1>t
<1>3. TypeOK'
  <2>1. call[c].rec \in Records
        BY <1>1, <1>s DEF Calling
  <2>2. trashcan' \subseteq Records
        BY <1>1, <1>t, <2>1 DEF TypeOK
  <2> QED
      BY <1>1, <1>t, <2>2 DEF TypeOK, Calls
<1>4. MapSound'
      BY <1>1 DEF IInv, TablesSound, MapSound
<1>5. NoOverlap'
      BY <1>1, <1>t DEF IInv, TablesSound, NoOverlap, Calling, FdOf
<1>6. CallsSound'
      BY <1>1, <1>t
         DEF IInv, TablesSound, CallsSound, CallSound, Calling, FdOf, Watches, NoOverlap
<1>7. PlacesSound'
      BY <1>1
         DEF IInv, TablesSound, PlacesSound, InMap, InRemove, CallsSound, CallSound,
             Calling
<1>8. ASSUME NEW g \in Fds, ~Busy(g)'
      PROVE  interest'[g] =
               IF Usable(g)' THEN [rec |-> fdmap'[g], events |-> mask'[fdmap'[g]]]
                            ELSE None
  <2>1. CASE g = FdOf(c)
        BY <2>1, <1>1 DEF IInv, TablesSound, CallsSound, CallSound, Calling, Usable
  <2>2. CASE g # FdOf(c)
    <3>1. ~Busy(g)
          BY <2>2, <1>8, <1>1 DEF Busy, FdOf
    <3> QED
        BY <3>1, <1>1 DEF IInv, TablesSound, KernelAgrees, Usable
  <2> QED
      BY <2>1, <2>2
<1>9. ThreadSound'
      BY <1>1, <1>t DEF IInv, ThreadSound, HeldSound
<1>10. LifeSound'
      BY <1>1 DEF IInv, LifeSound, Calling
<1>11. KernelAgrees'
      BY <1>8 DEF KernelAgrees
<1> QED
    BY <1>3, <1>4, <1>5, <1>6, <1>7, <1>11, <1>9, <1>10 DEF IInv, TablesSound

\* AddEvent and RemoveEvent: new events_ for the record.
LEMMA ChangeEventsIInv ==
    ASSUME IInv, NEW c \in Callers, NEW f \in Fds, NEW events \in SUBSET Events,
        ChangeEvents(c, f, events)
    PROVE  IInv'
<1>t. /\ TypeOK /\ created \in Nat /\ call \in [Callers -> Calls]
      /\ Idle \in Calls /\ Idle.op = "idle"
      BY Typing
<1>s. /\ \A d \in Callers : Calling(d) => call[d].rec \in Records
      /\ \A g \in Fds : Usable(g) => fdmap[g] \in Records
      BY Typing
<1>1. /\ life = "up" /\ ~Calling(c) /\ ~Busy(f) /\ Usable(f)
      /\ mask' = [mask EXCEPT ![fdmap[f]] = events]
      /\ UNCHANGED <<fdmap, recFd, muted, freed, trashcan, interest, ready, created, pc,
                     batch, current, life>>
      /\ call' = [call EXCEPT ![c] = [op |-> "copy", rec |-> fdmap[f], ee |-> {}]]
      BY DEF ChangeEvents, Free, Starts, Calling, kernel, thread
<1>2. /\ call' \in [Callers -> Calls]
      /\ call'[c] = [op |-> "copy", rec |-> fdmap[f], ee |-> {}]
      /\ \A d \in Callers \ {c} : call'[d] = call[d]
  <2>1. [op |-> "copy", rec |-> fdmap[f], ee |-> {}] \in Calls
        BY <1>s, <1>1 DEF Calls
  <2> QED
      BY <1>1, <1>t, <2>1
<1>3. TypeOK'
      BY <1>1, <1>t, <1>s DEF TypeOK
<1>4. MapSound'
      BY <1>1 DEF IInv, TablesSound, MapSound
<1>5. NoOverlap'
      BY <1>1 DEF IInv, TablesSound, NoOverlap, Calling, FdOf, MapSound, Busy, Usable
<1>6. CallsSound'
      BY <1>1, NoneAssumption
         DEF IInv, TablesSound, CallsSound, CallSound, Calling, FdOf, Watches, MapSound,
             KernelAgrees, Busy, Usable, TypeOK
<1>7. PlacesSound'
  <2>1. \A r \in 1..created : InRemove(r) => InRemove(r)'
        BY <1>1 DEF InRemove, Calling
  <2> QED
      BY <2>1, <1>1 DEF IInv, TablesSound, PlacesSound, InMap
<1>8. ASSUME NEW g \in Fds, ~Busy(g)'
      PROVE  interest'[g] =
               IF Usable(g)' THEN [rec |-> fdmap'[g], events |-> mask'[fdmap'[g]]]
                            ELSE None
  <2>1. CASE g = f
        BY <2>1, <1>8, <1>1, <1>2 DEF IInv, TablesSound, Busy, MapSound, Usable
  <2>2. CASE g # f
    <3>1. ~Busy(g)
          BY <1>8, <1>1 DEF Busy, Calling
    <3> QED
        BY <3>1, <2>2, <1>1 DEF IInv, TablesSound, KernelAgrees, Usable, MapSound
  <2> QED
      BY <2>1, <2>2
<1>9. ThreadSound'
      BY <1>1 DEF IInv, ThreadSound, HeldSound
<1>10. LifeSound'
      BY <1>1 DEF LifeSound
<1>11. KernelAgrees'
      BY <1>8 DEF KernelAgrees
<1> QED
    BY <1>3, <1>4, <1>5, <1>6, <1>7, <1>11, <1>9, <1>10 DEF IInv, TablesSound

\* They read events_ again without the lock.  As no other call is about this
\* descriptor, what they read is what they wrote.
LEMMA CopyEventsIInv ==
    ASSUME IInv, NEW c \in Callers, CopyEvents(c)
    PROVE  IInv'
<1>t. /\ TypeOK /\ created \in Nat /\ call \in [Callers -> Calls]
      /\ Idle \in Calls /\ Idle.op = "idle"
      BY Typing
<1>s. /\ \A d \in Callers : Calling(d) => call[d].rec \in Records
      /\ \A g \in Fds : Usable(g) => fdmap[g] \in Records
      BY Typing
<1>1. /\ call[c].op = "copy"
      /\ UNCHANGED <<fdmap, recFd, mask, muted, freed, trashcan, interest, ready, created,
                     pc, batch, current, life>>
      /\ call' = [call EXCEPT ![c] =
                           [op |-> "mod", rec |-> call[c].rec, ee |-> mask[call[c].rec]]]
      BY DEF CopyEvents, records, kernel, thread
<1>2. /\ call' \in [Callers -> Calls]
      /\ call'[c] = [op |-> "mod", rec |-> call[c].rec, ee |-> mask[call[c].rec]]
      /\ \A d \in Callers \ {c} : call'[d] = call[d]
  <2>1. [op |-> "mod", rec |-> call[c].rec, ee |-> mask[call[c].rec]] \in Calls
        BY <1>t, <1>s, <1>1 DEF TypeOK, Calls, Calling
  <2> QED
      BY <1>1, <1>t, <2>1
<1>3. TypeOK'
      BY <1>1, <1>2, <1>t DEF TypeOK, Calls
<1>4. MapSound'
      BY <1>1 DEF IInv, TablesSound, MapSound
<1>5. NoOverlap'
      BY <1>1 DEF IInv, TablesSound, NoOverlap, Calling, FdOf
<1>6. CallsSound'
      BY <1>1 DEF IInv, TablesSound, CallsSound, CallSound, Calling, FdOf, Watches
<1>7. PlacesSound'
      BY <1>1 DEF IInv, TablesSound, PlacesSound, InMap, InRemove
<1>8. ASSUME NEW g \in Fds, ~Busy(g)'
      PROVE  interest'[g] =
               IF Usable(g)' THEN [rec |-> fdmap'[g], events |-> mask'[fdmap'[g]]]
                            ELSE None
  <2>1. CASE g = FdOf(c)
        BY <2>1, <1>8, <1>1 DEF Busy, FdOf
  <2>2. CASE g # FdOf(c)
    <3>1. ~Busy(g)
          BY <1>8, <1>1 DEF Busy
    <3> QED
        BY <3>1, <1>1 DEF IInv, TablesSound, KernelAgrees, Usable
  <2> QED
      BY <2>1, <2>2
<1>9. ThreadSound'
      BY <1>1 DEF IInv, ThreadSound, HeldSound
<1>10. LifeSound'
      BY <1>1 DEF IInv, LifeSound, Calling
<1>11. KernelAgrees'
      BY <1>8 DEF KernelAgrees
<1> QED
    BY <1>3, <1>4, <1>5, <1>6, <1>7, <1>11, <1>9, <1>10 DEF IInv, TablesSound

\* They give the copy to the kernel.
LEMMA CtlModIInv ==
    ASSUME IInv, NEW c \in Callers, CtlMod(c)
    PROVE  IInv'
<1>t. /\ TypeOK /\ created \in Nat /\ call \in [Callers -> Calls]
      /\ Idle \in Calls /\ Idle.op = "idle"
      BY Typing
<1>s. /\ \A d \in Callers : Calling(d) => call[d].rec \in Records
      /\ \A g \in Fds : Usable(g) => fdmap[g] \in Records
      BY Typing
<1>1. /\ call[c].op = "mod"
      /\ interest' = [interest EXCEPT ![FdOf(c)] =
                           [rec |-> call[c].rec, events |-> call[c].ee]]
      /\ UNCHANGED <<fdmap, recFd, mask, muted, freed, trashcan, ready, created, pc,
                     batch, current, life>>
      /\ call' = [call EXCEPT ![c] = Idle]
      BY DEF CtlMod, Returns, FdOf, records, thread
<1>2. /\ call' \in [Callers -> Calls] /\ call'[c] = Idle
      /\ \A d \in Callers \ {c} : call'[d] = call[d]
      BY <1>1, <1>t
<1>3. TypeOK'
  <2> DEFINE Watched == [rec : Records, events : SUBSET Events] \cup {None}
  <2>1. call[c].rec \in Records
        BY <1>1, <1>s DEF Calling
  <2>2. interest \in [Fds -> Watched]
        BY <1>t DEF TypeOK
  <2>3. [rec |-> call[c].rec, events |-> call[c].ee] \in Watched
        BY <1>t, <2>1 DEF TypeOK, Calls
  <2>4. interest' \in [Fds -> Watched]
    <3> HIDE DEF Watched
    <3> QED
        BY <1>1, <2>2, <2>3
  <2> QED
      BY <1>1, <1>2, <1>t, <2>4 DEF TypeOK, Calls
<1>4. MapSound'
      BY <1>1 DEF IInv, TablesSound, MapSound
<1>5. NoOverlap'
      BY <1>1, <1>t DEF IInv, TablesSound, NoOverlap, Calling, FdOf
<1>6. CallsSound'
      BY <1>1, <1>t
         DEF IInv, TablesSound, CallsSound, CallSound, Calling, FdOf, Watches, NoOverlap
<1>7. PlacesSound'
      BY <1>1 DEF IInv, TablesSound, PlacesSound, InMap, InRemove
<1>8. ASSUME NEW g \in Fds, ~Busy(g)'
      PROVE  interest'[g] =
               IF Usable(g)' THEN [rec |-> fdmap'[g], events |-> mask'[fdmap'[g]]]
                            ELSE None
  <2>1. CASE g = FdOf(c)
    <3>1. /\ FdOf(c) \in Fds /\ call[c].rec \in Records \ freed
          /\ fdmap[FdOf(c)] = call[c].rec
          BY <1>1, BoundAssumption
             DEF IInv, TablesSound, CallsSound, CallSound, Calling, FdOf, MapSound,
                 Records, TypeOK
    <3>2. Usable(g)' /\ fdmap'[g] = call[c].rec
          BY <2>1, <3>1, <1>1, NoneAssumption DEF Usable
    <3> QED
        BY <2>1, <3>2, <1>1 DEF TypeOK, IInv, TablesSound, CallsSound, CallSound, Calling
  <2>2. CASE g # FdOf(c)
    <3>1. ~Busy(g)
          BY <2>2, <1>8, <1>1 DEF Busy, FdOf
    <3> QED
        BY <3>1, <2>2, <1>1 DEF IInv, TablesSound, KernelAgrees, Usable
  <2> QED
      BY <2>1, <2>2
<1>9. ThreadSound'
      BY <1>1, <1>t DEF IInv, ThreadSound, HeldSound
<1>10. LifeSound'
      BY <1>1 DEF IInv, LifeSound, Calling
<1>11. KernelAgrees'
      BY <1>8 DEF KernelAgrees
<1> QED
    BY <1>3, <1>4, <1>5, <1>6, <1>7, <1>11, <1>9, <1>10 DEF IInv, TablesSound

-----------------------------------------------------------------------------
(* The steps of the kernel and of the polling thread.                         *)

\* An event occurs.
LEMMA OccursIInv ==
    ASSUME IInv, NEW f \in Fds, NEW e \in Events, Occurs(f, e)
    PROVE  IInv'
<1>t. /\ TypeOK /\ created \in Nat /\ call \in [Callers -> Calls]
      /\ Idle \in Calls /\ Idle.op = "idle"
      BY Typing
<1>1. TablesSound'
      BY TablesKept DEF Occurs
<1>2. TypeOK'
      BY <1>t DEF Occurs, records, thread, TypeOK
<1>3. ThreadSound'
      BY DEF Occurs, records, thread, IInv, ThreadSound, HeldSound
<1>4. LifeSound'
      BY DEF Occurs, records, thread, IInv, LifeSound, Calling, Usable
<1> QED
    BY <1>1, <1>2, <1>3, <1>4 DEF IInv

\* The thread goes to epoll_wait, with no pointer in hand, or finds it closed.
LEMMA EnterWaitIInv ==
    ASSUME IInv, EnterWait
    PROVE  IInv'
<1>t. /\ TypeOK /\ created \in Nat /\ call \in [Callers -> Calls]
      /\ Idle \in Calls /\ Idle.op = "idle"
      BY Typing
<1>1. TablesSound'
      BY TablesKept DEF EnterWait, kernel
<1>2. TypeOK'
      BY <1>t DEF EnterWait, records, kernel, TypeOK
<1>3. ThreadSound'
      BY DEF EnterWait, IInv, ThreadSound
<1>4. LifeSound'
      BY DEF EnterWait, records, IInv, LifeSound, Calling, Usable
<1> QED
    BY <1>1, <1>2, <1>3, <1>4 DEF IInv

\* It dies there of the destructor's cancellation.
LEMMA DieWaitingIInv ==
    ASSUME IInv, DieWaiting
    PROVE  IInv'
<1>t. /\ TypeOK /\ created \in Nat /\ call \in [Callers -> Calls]
      /\ Idle \in Calls /\ Idle.op = "idle"
      BY Typing
<1>1. TablesSound'
      BY TablesKept DEF DieWaiting, kernel
<1>2. TypeOK'
      BY <1>t DEF DieWaiting, records, kernel, TypeOK
<1>3. ThreadSound'
      BY DEF DieWaiting, IInv, ThreadSound
<1>4. LifeSound'
      BY DEF DieWaiting, records, IInv, LifeSound, Calling, Usable
<1> QED
    BY <1>1, <1>2, <1>3, <1>4 DEF IInv

\* epoll_wait returns a batch: all its pointers are of records not deleted.
LEMMA EpollWaitIInv ==
    ASSUME IInv, EpollWait
    PROVE  IInv'
<1>t. /\ TypeOK /\ created \in Nat /\ call \in [Callers -> Calls]
      /\ Idle \in Calls /\ Idle.op = "idle"
      BY Typing
<1>1. TablesSound'
      BY TablesKept DEF EpollWait
<1>2. TypeOK'
  <2>1. batch' \subseteq [rec : Records, events : SUBSET Events]
    <3>1. \A f \in Fds : interest[f] # None => interest[f].rec \in Records
          BY <1>t DEF TypeOK
    <3>2. \A p \in Reportable : p[1] \in Fds /\ interest[p[1]] # None
          BY <1>t DEF TypeOK, Reportable
    <3> QED
      <4> SUFFICES ASSUME NEW x \in batch'
                   PROVE  x \in [rec : Records, events : SUBSET Events]
          OBVIOUS
      <4>1. PICK p \in Reportable :
               x = [rec |-> interest[p[1]].rec,
                    events |-> {e \in Events : <<p[1], e>> \in Reportable}]
            BY DEF EpollWait
      <4> QED
          BY <4>1, <3>1, <3>2
  <2> QED
      BY <2>1, <1>t DEF EpollWait, records, TypeOK
<1>3. ThreadSound'
  <2>1. \A x \in batch' : \E f \in Fds : interest[f] # None /\ x.rec = interest[f].rec
        BY <1>t DEF EpollWait, Reportable, TypeOK
  <2>2. \A x \in batch' : HeldSound(x.rec)
        BY <2>1, InterestSound DEF IInv
  <2> QED
      BY <2>2 DEF EpollWait, IInv, ThreadSound, HeldSound, records
<1>4. LifeSound'
      BY DEF EpollWait, records, IInv, LifeSound, Calling, Usable
<1> QED
    BY <1>1, <1>2, <1>3, <1>4 DEF IInv

\* The thread takes an event of its batch and looks whether it is muted.
LEMMA CheckMuteIInv ==
    ASSUME IInv, CheckMute
    PROVE  IInv'
<1>t. /\ TypeOK /\ created \in Nat /\ call \in [Callers -> Calls]
      /\ Idle \in Calls /\ Idle.op = "idle"
      BY Typing
<1>1. TablesSound'
      BY TablesKept DEF CheckMute, kernel
<1>2. TypeOK'
      BY <1>t DEF CheckMute, records, kernel, TypeOK
<1>3. ThreadSound'
  <2>1. PICK x \in batch : /\ batch' = batch \ {x}
                            /\ IF x.rec \in muted THEN UNCHANGED <<pc, current>>
                               ELSE pc' = "calling" /\ current' = x
        BY DEF CheckMute
  <2>2. /\ pc = "loop" /\ current = None /\ x # None /\ HeldSound(x.rec)
        /\ \A y \in batch : HeldSound(y.rec)
        BY NoneAssumption DEF CheckMute, IInv, ThreadSound, TypeOK
  <2>3. \A r : HeldSound(r) => HeldSound(r)'
        BY DEF CheckMute, HeldSound, records
  <2>4. CASE x.rec \in muted
        BY <2>1, <2>2, <2>3 DEF ThreadSound
  <2>5. CASE x.rec \notin muted
        BY <2>1, <2>2, <2>3 DEF ThreadSound
  <2> QED
      BY <2>4, <2>5
<1>4. LifeSound'
      BY DEF CheckMute, records, IInv, LifeSound, Calling, Usable
<1> QED
    BY <1>1, <1>2, <1>3, <1>4 DEF IInv

\* It calls the handler.
LEMMA CallHandlerIInv ==
    ASSUME IInv, CallHandler
    PROVE  IInv'
<1>t. /\ TypeOK /\ created \in Nat /\ call \in [Callers -> Calls]
      /\ Idle \in Calls /\ Idle.op = "idle"
      BY Typing
<1>1. TablesSound'
      BY TablesKept DEF CallHandler, kernel
<1>2. TypeOK'
      BY <1>t DEF CallHandler, records, kernel, TypeOK
<1>3. ThreadSound'
      BY DEF CallHandler, records, IInv, ThreadSound, HeldSound
<1>4. LifeSound'
      BY DEF CallHandler, records, IInv, LifeSound, Calling, Usable
<1> QED
    BY <1>1, <1>2, <1>3, <1>4 DEF IInv

\* The handler returns.
LEMMA HandlerReturnsIInv ==
    ASSUME IInv, HandlerReturns
    PROVE  IInv'
<1>t. /\ TypeOK /\ created \in Nat /\ call \in [Callers -> Calls]
      /\ Idle \in Calls /\ Idle.op = "idle"
      BY Typing
<1>1. TablesSound'
      BY TablesKept DEF HandlerReturns, kernel
<1>2. TypeOK'
      BY <1>t DEF HandlerReturns, records, kernel, TypeOK
<1>3. ThreadSound'
      BY DEF HandlerReturns, records, IInv, ThreadSound, HeldSound
<1>4. LifeSound'
      BY DEF HandlerReturns, records, IInv, LifeSound, Calling, Usable
<1> QED
    BY <1>1, <1>2, <1>3, <1>4 DEF IInv

-----------------------------------------------------------------------------
(* The destructor, the end of a batch, and steps that change nothing.        *)

\* The destructor begins.
LEMMA CloseEpollIInv ==
    ASSUME IInv, CloseEpoll
    PROVE  IInv'
<1>t. /\ TypeOK /\ created \in Nat /\ call \in [Callers -> Calls]
      /\ Idle \in Calls /\ Idle.op = "idle"
      BY Typing
<1>1. TablesSound'
      BY TablesKept DEF CloseEpoll, kernel
<1>2. TypeOK'
      BY <1>t DEF CloseEpoll, records, kernel, thread, TypeOK
<1>3. ThreadSound'
      BY DEF CloseEpoll, records, thread, IInv, ThreadSound, HeldSound
<1>4. LifeSound'
      BY DEF CloseEpoll, records, LifeSound, Calling, Usable
<1> QED
    BY <1>1, <1>2, <1>3, <1>4 DEF IInv

\* It cancels the polling thread.
LEMMA CancelIInv ==
    ASSUME IInv, Cancel
    PROVE  IInv'
<1>t. /\ TypeOK /\ created \in Nat /\ call \in [Callers -> Calls]
      /\ Idle \in Calls /\ Idle.op = "idle"
      BY Typing
<1>1. TablesSound'
      BY TablesKept DEF Cancel, kernel
<1>2. TypeOK'
      BY <1>t DEF Cancel, records, kernel, thread, TypeOK
<1>3. ThreadSound'
      BY DEF Cancel, records, thread, IInv, ThreadSound, HeldSound
<1>4. LifeSound'
      BY DEF Cancel, records, IInv, LifeSound, Calling, Usable
<1> QED
    BY <1>1, <1>2, <1>3, <1>4 DEF IInv

\* It joins it.
LEMMA JoinIInv ==
    ASSUME IInv, Join
    PROVE  IInv'
<1>t. /\ TypeOK /\ created \in Nat /\ call \in [Callers -> Calls]
      /\ Idle \in Calls /\ Idle.op = "idle"
      BY Typing
<1>1. TablesSound'
      BY TablesKept DEF Join, kernel
<1>2. TypeOK'
      BY <1>t DEF Join, records, kernel, thread, TypeOK
<1>3. ThreadSound'
      BY DEF Join, thread, IInv, ThreadSound
<1>4. LifeSound'
      BY DEF Join, records, thread, IInv, LifeSound, Calling, Usable
<1> QED
    BY <1>1, <1>2, <1>3, <1>4 DEF IInv

\* Nothing happens.
LEMMA QuietIInv ==
    ASSUME IInv, UNCHANGED vars
    PROVE  IInv'
<1>t. /\ TypeOK /\ created \in Nat /\ call \in [Callers -> Calls]
      /\ Idle \in Calls /\ Idle.op = "idle"
      BY Typing
<1>1. TablesSound'
      BY TablesKept DEF vars, kernel
<1>2. TypeOK'
      BY <1>t DEF vars, records, kernel, thread, TypeOK
<1>3. ThreadSound'
      BY DEF vars, records, thread, IInv, ThreadSound, HeldSound
<1>4. LifeSound'
      BY DEF vars, records, thread, IInv, LifeSound, Calling, Usable
<1> QED
    BY <1>1, <1>2, <1>3, <1>4 DEF IInv

\* The trash is emptied at the end of a batch, when the thread has no pointer.
LEMMA EmptyTrashcanIInv ==
    ASSUME IInv, EmptyTrashcan
    PROVE  IInv'
<1>t. /\ TypeOK /\ created \in Nat /\ call \in [Callers -> Calls]
      /\ Idle \in Calls /\ Idle.op = "idle"
      BY Typing
<1>1. TypeOK'
      BY <1>t DEF EmptyTrashcan, kernel, TypeOK
<1>2. MapSound'
      BY DEF EmptyTrashcan, IInv, TablesSound, MapSound
<1>3. NoOverlap'
      BY DEF EmptyTrashcan, IInv, TablesSound, NoOverlap, Calling, FdOf
<1>4. CallsSound'
      BY DEF EmptyTrashcan, kernel, IInv, TablesSound, CallsSound, CallSound, Calling,
             FdOf, Watches, PlacesSound, InMap, TypeOK
<1>5. PlacesSound'
      BY DEF EmptyTrashcan, IInv, TablesSound, PlacesSound, InMap, InRemove
<1>6. KernelAgrees'
      BY DEF EmptyTrashcan, kernel, IInv, TablesSound, KernelAgrees, Busy, Usable,
             MapSound, PlacesSound, InMap
<1>7. ThreadSound'
      BY DEF EmptyTrashcan, IInv, ThreadSound
<1>8. LifeSound'
      BY DEF EmptyTrashcan, IInv, LifeSound, Calling, Usable
<1> QED
    BY <1>1, <1>2, <1>3, <1>4, <1>5, <1>6, <1>7, <1>8 DEF IInv, TablesSound

\* The destructor empties the trash, and aborts if a record is in fdmap_ still.
LEMMA DestroyedIInv ==
    ASSUME IInv, Destroyed
    PROVE  IInv'
<1>t. /\ TypeOK /\ created \in Nat /\ call \in [Callers -> Calls]
      /\ Idle \in Calls /\ Idle.op = "idle"
      BY Typing
<1>1. TypeOK'
  <2>1. trashcan' \subseteq Records /\ freed' \subseteq Records
        BY <1>t DEF Destroyed, TypeOK
  <2> QED
      BY <1>t DEF Destroyed, kernel, thread, TypeOK
<1>2. MapSound'
      BY DEF Destroyed, IInv, TablesSound, MapSound
<1>3. NoOverlap'
      BY DEF Destroyed, IInv, TablesSound, NoOverlap, Calling, FdOf
<1>4. CallsSound'
      BY NoneAssumption
         DEF Destroyed, kernel, IInv, TablesSound, CallsSound, CallSound, Calling, FdOf,
             Watches, MapSound, TypeOK
<1>5. PlacesSound'
  <2>1. \A r \in 1..created : InMap(r)' = InMap(r) /\ (InRemove(r) => InRemove(r)')
        BY DEF Destroyed, InMap, InRemove
  <2> QED
      BY <2>1 DEF Destroyed, IInv, TablesSound, PlacesSound
<1>6. KernelAgrees'
      BY DEF Destroyed, kernel, IInv, TablesSound, KernelAgrees, Busy, Usable
<1>7. ThreadSound'
  <2>1. pc = "ended" /\ batch = {} /\ current = None
        BY DEF Destroyed, IInv, ThreadSound, LifeSound
  <2> QED
      BY <2>1 DEF Destroyed, thread, ThreadSound
<1>8. LifeSound'
      BY DEF Destroyed, thread, IInv, LifeSound, Calling, Usable
<1> QED
    BY <1>1, <1>2, <1>3, <1>4, <1>5, <1>6, <1>7, <1>8 DEF IInv, TablesSound

-----------------------------------------------------------------------------
\* So every step keeps it, ...
LEMMA NextIInv == IInv /\ [Next]_vars => IInv'
<1> SUFFICES ASSUME IInv, [Next]_vars PROVE IInv'
    OBVIOUS
<1>1. ASSUME NEW c \in Callers, NEW f \in Fds, NEW e \in Events,
             AddEvent(c, f, e) \/ RemoveEvent(c, f, e)
      PROVE  IInv'
  <2>1. mask[fdmap[f]] \cup {e} \in SUBSET Events /\ mask[fdmap[f]] \ {e} \in SUBSET Events
        BY <1>1, Typing DEF AddEvent, RemoveEvent, TypeOK
  <2> QED
      BY <1>1, <2>1, ChangeEventsIInv DEF AddEvent, RemoveEvent
<1>2. ASSUME NEW c \in Callers, CallerStep(c) PROVE IInv'
      BY <1>2, CtlAddIInv, CtlAddFailsIInv, CtlDelIInv, TrashIInv, CopyEventsIInv,
         CtlModIInv
         DEF CallerStep
<1>3. CASE ThreadStep
      BY <1>3, EnterWaitIInv, DieWaitingIInv, EpollWaitIInv, CheckMuteIInv,
         CallHandlerIInv, HandlerReturnsIInv, EmptyTrashcanIInv
         DEF ThreadStep
<1>4. CASE DestructorStep
      BY <1>4, CancelIInv, JoinIInv, DestroyedIInv DEF DestructorStep
<1> QED
    BY <1>1, <1>2, <1>3, <1>4, AddIInv, RemoveIInv, OccursIInv, CloseEpollIInv, QuietIInv
       DEF Next

\* ... it holds at the start, ...
LEMMA InitIInv == Init => IInv
<1> SUFFICES ASSUME Init PROVE IInv
    OBVIOUS
<1>1. TypeOK
      BY BoundAssumption DEF Init, TypeOK, Idle
<1>2. /\ \A c \in Callers : ~Calling(c)
      /\ \A f \in Fds : ~Busy(f) /\ ~Usable(f)
      BY DEF Init, Idle, Calling, Busy, Usable
<1>3. MapSound /\ NoOverlap /\ CallsSound
      BY <1>2 DEF Init, MapSound, NoOverlap, CallsSound
<1>4. PlacesSound /\ KernelAgrees
      BY <1>2 DEF Init, PlacesSound, KernelAgrees
<1>5. ThreadSound /\ LifeSound
      BY DEF Init, ThreadSound, LifeSound
<1> QED
    BY <1>1, <1>3, <1>4, <1>5 DEF IInv, TablesSound

\* ... and so it holds in every state.
LEMMA Inductive == Spec => []IInv
<1> QED
    BY InitIInv, NextIInv, PTL DEF Spec

-----------------------------------------------------------------------------
(* The theorems.                                                             *)

\* The fields of Epoll and of its records have their types; a call that is not
\* "idle" has a record, and a batch only pointers to records (epoll.cc).
THEOREM TypeCorrect == Spec => []TypeOK
<1>1. IInv => TypeOK
      BY DEF IInv
<1> QED
    BY <1>1, Inductive, PTL

\* What the kernel has a pointer to, what a call works on and what the polling
\* thread has in its batch or in hand is not deleted: Remove puts a record into the
\* trash after EPOLL_CTL_DEL, and the thread empties it when its batch is done
\* (epoll.cc, Remove and ThreadMain).
THEOREM NoUseAfterFreeHolds == Spec => []NoUseAfterFree
<1>1. IInv => NoUseAfterFree
  <2> SUFFICES ASSUME IInv, NEW r \in InUse PROVE r \notin freed
      BY DEF NoUseAfterFree
  <2>1. CASE \E x \in batch : r = x.rec
        BY <2>1 DEF IInv, ThreadSound, HeldSound
  <2>2. CASE current # None /\ r = current.rec
        BY <2>2 DEF IInv, ThreadSound, HeldSound
  <2>3. CASE \E f \in Fds : interest[f] # None /\ r = interest[f].rec
        BY <2>3, InterestSound DEF IInv, HeldSound
  <2>4. CASE \E c \in Callers : call[c].op # "idle" /\ r = call[c].rec
        BY <2>4 DEF IInv, TablesSound, CallsSound, CallSound, Calling
  <2> QED
      BY <2>1, <2>2, <2>3, <2>4 DEF InUse
<1> QED
    BY <1>1, Inductive, PTL

\* A record is in one place at a time, fdmap_, the hands of a Remove, the trash, or
\* deleted: none is deleted twice and none is leaked, and when the destructor has
\* returned all are deleted (epoll.cc, EmptyTrashcan and ~Epoll).
THEOREM RecordsAccountedHolds == Spec => []RecordsAccounted
<1>1. IInv => RecordsAccounted
  <2> SUFFICES ASSUME IInv PROVE RecordsAccounted
      OBVIOUS
  <2>1. ASSUME NEW r \in 1..created
        PROVE  In(Registered, r) + In(trashcan, r) + In(freed, r)
                 + Cardinality(Leaving(r)) = 1
    <3>1. Registered \subseteq Records /\ (r \in Registered <=> InMap(r) /\ r \notin freed)
      <4>1. /\ recFd[r] \in Fds
            /\ \A f \in Fds : fdmap[f] = r => recFd[r] = f
            BY NoneAssumption, BoundAssumption
               DEF IInv, TypeOK, TablesSound, MapSound, Records
      <4>2. r # None
            BY NoneAssumption, BoundAssumption DEF IInv, TypeOK, Records
      <4> QED
          BY <4>1, <4>2 DEF Registered, Usable, InMap, IInv, TypeOK
    <3>2. r \in trashcan => ~InMap(r) /\ r \notin freed
          BY DEF IInv, TablesSound, PlacesSound
    <3>3. \A c \in Leaving(r) : /\ Calling(c) /\ FdOf(c) = recFd[r]
                               /\ ~InMap(r) /\ r \notin trashcan \cup freed
      <4> SUFFICES ASSUME NEW c \in Leaving(r)
                   PROVE /\ Calling(c) /\ FdOf(c) = recFd[r]
                         /\ ~InMap(r) /\ r \notin trashcan \cup freed
          OBVIOUS
      <4>1. c \in Callers /\ call[c].op \in {"del", "trash"} /\ call[c].rec = r
            BY DEF Leaving
      <4>2. Calling(c) /\ CallSound(c)
            BY <4>1 DEF IInv, TablesSound, CallsSound, Calling
      <4> QED
          BY <4>1, <4>2 DEF CallSound, FdOf, IInv, TablesSound, PlacesSound
    <3>4. CASE Leaving(r) = {}
      <4>1. Cardinality(Leaving(r)) = 0
            BY <3>4, FS_EmptySet
      <4>2. InMap(r) \/ r \in trashcan \cup freed
            BY <3>4 DEF Leaving, InRemove, IInv, TablesSound, PlacesSound
      <4> QED
          BY <4>1, <4>2, <3>1, <3>2 DEF In
    <3>5. CASE Leaving(r) # {}
      <4>1. PICK c : c \in Leaving(r)
            BY <3>5
      <4>2. Leaving(r) = {c}
            BY <4>1, <3>3 DEF Leaving, IInv, TablesSound, NoOverlap
      <4>3. Cardinality(Leaving(r)) = 1
            BY <4>2, FS_Singleton
      <4> QED
          BY <4>1, <4>3, <3>1, <3>3 DEF In
    <3> QED
        BY <3>4, <3>5
  <2>2. ASSUME life = "gone" PROVE freed = 1..created
    <3>1. trashcan = {} /\ \A c \in Callers : ~Calling(c)
          BY <2>2 DEF IInv, LifeSound
    <3>2. \A r \in 1..created : ~InMap(r) /\ ~InRemove(r)
      <4> SUFFICES ASSUME NEW r \in 1..created PROVE ~InMap(r) /\ ~InRemove(r)
          OBVIOUS
      <4>1. r # None /\ fdmap[recFd[r]] = None
            BY <2>2, NoneAssumption, BoundAssumption
               DEF IInv, TypeOK, LifeSound, TablesSound, MapSound, Records
      <4> QED
          BY <4>1, <3>1 DEF InMap, InRemove, Calling
    <3> QED
        BY <3>1, <3>2 DEF IInv, TablesSound, PlacesSound
  <2> QED
      BY <2>1, <2>2 DEF RecordsAccounted
<1> QED
    BY <1>1, Inductive, PTL

\* When no call is about a descriptor, the kernel watches it if and only if it is in
\* fdmap_, with the pointer and the events of the record there, although the tables
\* are changed under the lock and the kernel is told later (epoll.cc, Add, Remove,
\* AddEvent, RemoveEvent).
THEOREM KernelAgreesHolds == Spec => []KernelAgrees
<1>1. IInv => KernelAgrees
      BY DEF IInv, TablesSound
<1> QED
    BY <1>1, Inductive, PTL

\* The INVARIANTs about mute_ never fail: Remove finds an unmuted record, and
\* EmptyTrashcan finds muted ones only (epoll.cc).
THEOREM MuteInvariantsHold ==
    Spec => [](/\ \A f \in Fds : Usable(f) => fdmap[f] \notin muted
               /\ trashcan \subseteq muted)
<1>1. IInv => /\ \A f \in Fds : Usable(f) => fdmap[f] \notin muted
              /\ trashcan \subseteq muted
      BY DEF IInv, TablesSound, MapSound, PlacesSound, InMap, Usable
<1> QED
    BY <1>1, Inductive, PTL
=============================================================================
