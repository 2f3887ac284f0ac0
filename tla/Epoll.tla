--------------------------------- MODULE Epoll ---------------------------------
(* Epoll of src/src/net/epoll: threads that Add and Remove file descriptors   *)
(* and change their events, the kernel's interest list, and the polling       *)
(* thread, which finds the FDRecord of an event by the pointer it gave to the *)
(* kernel.  lock_ is held for one step; epoll_ctl and epoll_wait are made     *)
(* without it.  The destructor closes the epoll descriptor, cancels the       *)
(* polling thread, joins it and takes out the trash.                          *)
EXTENDS Naturals, FiniteSets

CONSTANTS Fds, Callers, None,
          Events,        \* EPOLLIN, EPOLLOUT
          MaxRecords     \* bound: Add calls in a behaviour

ASSUME BoundAssumption == MaxRecords \in Nat

VARIABLES fdmap,      \* fdmap_: the record of every registered descriptor
          recFd, mask,            \* fd_ and events_ of every record
          muted, freed,           \* records with mute_ set, records deleted
          trashcan,   \* trashcan_
          interest,   \* kernel: record and events registered per descriptor
          ready,      \* kernel: events that have occurred
          pc, batch, current,     \* the polling thread: where it is, the events
                                  \* of its epoll_wait left, the one in hand
          call,       \* every caller: the call it is in, its fdrec and its ee
          created,    \* records created so far
          life        \* the Epoll: "up", in a stage of its destructor, "gone" or "aborted"

records == <<fdmap, recFd, mask, muted, freed, trashcan>>
kernel == <<interest, ready>>
thread == <<pc, batch, current>>
vars == <<records, kernel, thread, call, created, life>>

Records == 1..MaxRecords

ASSUME NoneAssumption == /\ None \notin Fds \cup Records
                         /\ None \notin [rec : Records, events : SUBSET Events]

Idle == [op |-> "idle", rec |-> None, ee |-> {}]

Init == /\ fdmap = [f \in Fds |-> None]
        /\ recFd = [r \in Records |-> None]
        /\ mask = [r \in Records |-> {}]
        /\ muted = {} /\ freed = {} /\ trashcan = {}
        /\ interest = [f \in Fds |-> None]
        /\ ready = {}
        /\ pc = "top" /\ batch = {} /\ current = None
        /\ call = [c \in Callers |-> Idle]
        /\ created = 0 /\ life = "up"

Goto(c, op) == call' = [call EXCEPT ![c].op = op]
Returns(c) == call' = [call EXCEPT ![c] = Idle]
Starts(c, op, r) == call' = [call EXCEPT ![c] = [op |-> op, rec |-> r, ee |-> {}]]

\* What a client must see to, as MultiPathEpoll does with its own lock_: two calls
\* about one descriptor do not overlap.
Busy(f) == \E c \in Callers : call[c].op # "idle" /\ recFd[call[c].rec] = f

\* Nor does it begin one when it has begun to destroy the Epoll.
Free(c, f) == life = "up" /\ call[c].op = "idle" /\ ~Busy(f)

-----------------------------------------------------------------------------
\* Add: a new record into fdmap_, then EPOLL_CTL_ADD.
Add(c, f, events) ==
    /\ Free(c, f)
    /\ fdmap[f] = None
    /\ created < MaxRecords
    /\ created' = created + 1
    /\ fdmap' = [fdmap EXCEPT ![f] = created']
    /\ recFd' = [recFd EXCEPT ![created'] = f]
    /\ mask' = [mask EXCEPT ![created'] = events]
    /\ Starts(c, "add", created')
    /\ UNCHANGED <<muted, freed, trashcan, kernel, thread, life>>

Register(c) == LET r == call[c].rec IN
    interest' = [interest EXCEPT ![recFd[r]] = [rec |-> r, events |-> mask[r]]]

CtlAdd(c) == /\ call[c].op = "add"
             /\ Register(c)
             /\ Returns(c)
             /\ UNCHANGED <<records, ready, thread, created, life>>

\* epoll_ctl returned -1: the record is deleted, but fdmap_ keeps its pointer.
\* The client, who sees Add fail, must not use the descriptor again.
Usable(f) == fdmap[f] \notin freed \cup {None}

CtlAddFails(c) == /\ call[c].op = "add"
                  /\ freed' = freed \cup {call[c].rec}
                  /\ Returns(c)
                  /\ UNCHANGED <<fdmap, recFd, mask, muted, trashcan, kernel, thread,
                                 created, life>>

-----------------------------------------------------------------------------
\* Remove: out of fdmap_ and muted, then EPOLL_CTL_DEL, then into the trash.
Remove(c, f) == /\ Free(c, f)
                /\ Usable(f)
                /\ fdmap' = [fdmap EXCEPT ![f] = None]
                /\ muted' = muted \cup {fdmap[f]}
                /\ Starts(c, "del", fdmap[f])
                /\ UNCHANGED <<recFd, mask, freed, trashcan, kernel, thread, created, life>>

CtlDel(c) == /\ call[c].op = "del"
             /\ LET f == recFd[call[c].rec] IN
                  /\ interest' = [interest EXCEPT ![f] = None]
                  /\ ready' = {p \in ready : p[1] # f}
             /\ Goto(c, "trash")
             /\ UNCHANGED <<records, thread, created, life>>

Trash_Mutant(c) == /\ call[c].op = "trash"
                   /\ freed' = freed \cup {call[c].rec}
                   /\ Returns(c)
                   /\ UNCHANGED <<fdmap, recFd, mask, muted, trashcan, kernel, thread, created, life>>

Trash(c) == /\ call[c].op = "trash"
            /\ trashcan' = trashcan \cup {call[c].rec}
            /\ Returns(c)
            /\ UNCHANGED <<fdmap, recFd, mask, muted, freed, kernel, thread, created, life>>

-----------------------------------------------------------------------------
\* AddEvent and RemoveEvent: the record's events_ under the lock, a copy of them
\* into ee after it, then EPOLL_CTL_MOD with the copy.
ChangeEvents(c, f, events) ==
    /\ Free(c, f)
    /\ Usable(f)
    /\ Starts(c, "copy", fdmap[f])
    /\ mask' = [mask EXCEPT ![fdmap[f]] = events]
    /\ UNCHANGED <<fdmap, recFd, muted, freed, trashcan, kernel, thread, created, life>>

AddEvent(c, f, e) == Usable(f) /\ ChangeEvents(c, f, mask[fdmap[f]] \cup {e})
RemoveEvent(c, f, e) == Usable(f) /\ ChangeEvents(c, f, mask[fdmap[f]] \ {e})

CopyEvents(c) == /\ call[c].op = "copy"
                 /\ LET r == call[c].rec IN
                      call' = [call EXCEPT ![c] = [op |-> "mod", rec |-> r, ee |-> mask[r]]]
                 /\ UNCHANGED <<records, kernel, thread, created, life>>

CtlMod_Mutant(c) == /\ call[c].op = "mod"
                    /\ Returns(c)
                    /\ UNCHANGED <<records, kernel, thread, created, life>>

CtlMod(c) == /\ call[c].op = "mod"
             /\ interest' = [interest EXCEPT ![recFd[call[c].rec]] =
                                 [rec |-> call[c].rec, events |-> call[c].ee]]
             /\ Returns(c)
             /\ UNCHANGED <<records, ready, thread, created, life>>

-----------------------------------------------------------------------------
(* The kernel and the polling thread.  An event that has been reported is not *)
(* ready any more (EPOLLET); where it stays ready, it occurs again.           *)
Occurs(f, e) == /\ interest[f] # None
                /\ <<f, e>> \notin ready
                /\ ready' = ready \cup {<<f, e>>}
                /\ UNCHANGED <<records, interest, thread, call, created, life>>

Reportable == {p \in ready : interest[p[1]] # None /\ p[2] \in interest[p[1]].events}

\* The thread calls epoll_wait.  Once fd_ is closed that fails: with EBADF, which
\* ends the loop, or, if the number is in use again, with an error that reaches
\* DEADEND.  A thread that was cancelled dies there.
EnterWait ==
    /\ pc = "top"
    /\ \/ life = "up" /\ pc' = "wait" /\ UNCHANGED life
       \/ life = "closed" /\ pc' = "ended" /\ UNCHANGED life
       \/ life = "closed" /\ life' = "aborted" /\ UNCHANGED pc
       \/ life = "cancelled" /\ pc' = "ended" /\ UNCHANGED life
    /\ UNCHANGED <<records, kernel, batch, current, call, created>>

\* A thread that waits is not woken by the close, but by the cancellation;
\* between EpollWait and EmptyTrashcan cancellation is disabled.
DieWaiting == /\ pc = "wait" /\ life = "cancelled"
              /\ pc' = "ended"
              /\ UNCHANGED <<records, kernel, batch, current, call, created, life>>

\* epoll_wait returns the pointers of the records, not the descriptors.
EpollWait == /\ pc = "wait"
             /\ Reportable # {}
             /\ batch' = {[rec |-> interest[f].rec,
                           events |-> {e \in Events : <<f, e>> \in Reportable}] :
                             f \in {p[1] : p \in Reportable}}
             /\ ready' = ready \ Reportable
             /\ pc' = "loop"
             /\ UNCHANGED <<records, interest, current, call, created, life>>

\* Under lock_: a muted record is passed over.
CheckMute_Mutant == /\ pc = "loop"
                    /\ \E x \in batch :
                          IF x.rec \in muted
                            THEN batch' = {} /\ UNCHANGED <<pc, current>>
                            ELSE pc' = "calling" /\ current' = x /\ batch' = batch \ {x}
                    /\ UNCHANGED <<records, kernel, call, created, life>>

CheckMute == /\ pc = "loop"
             /\ \E x \in batch :
                   /\ batch' = batch \ {x}
                   /\ IF x.rec \in muted
                        THEN UNCHANGED <<pc, current>>
                        ELSE pc' = "calling" /\ current' = x
             /\ UNCHANGED <<records, kernel, call, created, life>>

\* fn_.Wakeup(fd_, events_mask), after the lock was released ...
CallHandler == /\ pc = "calling"
               /\ pc' = "handler"
               /\ UNCHANGED <<records, kernel, batch, current, call, created, life>>

\* ... and its return.
HandlerReturns == /\ pc = "handler"
                  /\ pc' = "loop"
                  /\ current' = None
                  /\ UNCHANGED <<records, kernel, batch, call, created, life>>

\* The batch is done: EmptyTrashcan() and back to epoll_wait.
EmptyTrashcan_Mutant == /\ pc = "loop"
                        /\ batch = {}
                        /\ freed' = freed \cup trashcan
                        /\ pc' = "top"
                        /\ UNCHANGED <<fdmap, recFd, mask, muted, trashcan, kernel, batch,
                                       current, call, created, life>>

EmptyTrashcan == /\ pc = "loop"
                 /\ batch = {}
                 /\ freed' = freed \cup trashcan
                 /\ trashcan' = {}
                 /\ pc' = "top"
                 /\ UNCHANGED <<fdmap, recFd, mask, muted, kernel, batch, current, call,
                                created, life>>

-----------------------------------------------------------------------------
(* The destructor, of a client all of whose calls have returned and who has   *)
(* removed every descriptor whose Add succeeded.                              *)
CloseEpoll == /\ life = "up"
              /\ \A c \in Callers : call[c].op = "idle"
              /\ \A f \in Fds : ~Usable(f)
              /\ life' = "closed"
              /\ UNCHANGED <<records, kernel, thread, call, created>>

\* pthread_cancel may find a thread that has ended, and say so: INVARIANT(!status).
Cancel == /\ life = "closed"
          /\ life' \in {"cancelled"} \cup (IF pc = "ended" THEN {"aborted"} ELSE {})
          /\ UNCHANGED <<records, kernel, thread, call, created>>

Join == /\ life = "cancelled" /\ pc = "ended"
        /\ life' = "joined"
        /\ UNCHANGED <<records, kernel, thread, call, created>>

\* INVARIANT(fdmap_.empty()), which a failed Add has made false for ever, and
\* EmptyTrashcan().
Destroyed == /\ life = "joined"
             /\ IF \A f \in Fds : fdmap[f] = None
                  THEN life' = "gone" /\ freed' = freed \cup trashcan /\ trashcan' = {}
                  ELSE life' = "aborted" /\ UNCHANGED <<freed, trashcan>>
             /\ UNCHANGED <<fdmap, recFd, mask, muted, kernel, thread, call, created>>

-----------------------------------------------------------------------------
CallerStep(c) == \/ CtlAdd(c) \/ CtlAddFails(c) \/ CtlDel(c) \/ Trash(c)
                  \/ CopyEvents(c) \/ CtlMod(c)

DestructorStep == Cancel \/ Join \/ Destroyed

ThreadStep == /\ life # "aborted"
              /\ \/ EnterWait \/ DieWaiting \/ EpollWait
                 \/ CheckMute \/ CallHandler \/ HandlerReturns \/ EmptyTrashcan

Next == \/ \E c \in Callers, f \in Fds : \/ \E events \in SUBSET Events : Add(c, f, events)
                                         \/ Remove(c, f)
                                         \/ \E e \in Events : \/ AddEvent(c, f, e)
                                                              \/ RemoveEvent(c, f, e)
        \/ \E c \in Callers : CallerStep(c)
        \/ \E f \in Fds, e \in Events : Occurs(f, e)
        \/ ThreadStep
        \/ CloseEpoll \/ DestructorStep

Spec == Init /\ [][Next]_vars

\* The polling thread and a thread inside a call or the destructor keep running;
\* handlers return.
FairSpec == Spec /\ WF_vars(ThreadStep) /\ WF_vars(DestructorStep)
                 /\ \A c \in Callers : WF_vars(CallerStep(c))

-----------------------------------------------------------------------------
TypeOK == /\ fdmap \in [Fds -> Records \cup {None}]
          /\ recFd \in [Records -> Fds \cup {None}]
          /\ mask \in [Records -> SUBSET Events]
          /\ muted \subseteq Records /\ freed \subseteq Records /\ trashcan \subseteq Records
          /\ interest \in [Fds -> [rec : Records, events : SUBSET Events] \cup {None}]
          /\ ready \subseteq Fds \X Events
          /\ pc \in {"top", "wait", "loop", "calling", "handler", "ended"}
          /\ batch \subseteq [rec : Records, events : SUBSET Events]
          /\ current \in [rec : Records, events : SUBSET Events] \cup {None}
          /\ call \in [Callers -> [op : {"idle", "add", "del", "trash", "copy", "mod"},
                                   rec : Records \cup {None}, ee : SUBSET Events]]
          /\ created \in 0..MaxRecords
          /\ life \in {"up", "closed", "cancelled", "joined", "gone", "aborted"}

\* A record is not deleted while the polling thread has its pointer from
\* epoll_wait, while the kernel may still report it, or while a caller is using
\* it outside the lock: the trash is taken out at the right moment, also by the
\* destructor.
InUse == {x.rec : x \in batch} \cup (IF current = None THEN {} ELSE {current.rec})
         \cup {interest[f].rec : f \in {g \in Fds : interest[g] # None}}
         \cup {call[c].rec : c \in {d \in Callers : call[d].op # "idle"}}
NoUseAfterFree == InUse \cap freed = {}

\* No record is lost and none is deleted twice: each is registered, or on its way
\* out in one Remove, or in the trash, or deleted; and a destructor that returns
\* leaves none, even if the thread ended without taking out the trash.
Registered == {fdmap[f] : f \in {g \in Fds : Usable(g)}}
Leaving(r) == {c \in Callers : call[c].op \in {"del", "trash"} /\ call[c].rec = r}
In(S, r) == IF r \in S THEN 1 ELSE 0
RecordsAccounted ==
    /\ \A r \in 1..created :
          In(Registered, r) + In(trashcan, r) + In(freed, r) + Cardinality(Leaving(r)) = 1
    /\ life = "gone" => freed = 1..created

\* When the calls about a descriptor have returned, the kernel watches it if and
\* only if it is in fdmap_, through that record and for the record's events.
KernelAgrees == \A f \in Fds : ~Busy(f) =>
    interest[f] = IF Usable(f) THEN [rec |-> fdmap[f], events |-> mask[fdmap[f]]]
                  ELSE None

\* An event of a registered descriptor reaches the handler, unless the client
\* takes back its interest.
EveryEventReported == \A f \in Fds, e \in Events :
    <<f, e>> \in Reportable ~> \/ pc = "handler" /\ recFd[current.rec] = f /\ e \in current.events
                               \/ interest[f] = None \/ e \notin interest[f].events
=============================================================================
