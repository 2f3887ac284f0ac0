------------------------------ MODULE TcpChannel ------------------------------
(* TCPChannel of src/src/net/transport/tcp-linux.cc: clients that Write, Read *)
(* and Peek, the polling thread that calls HandleFdEvent when the kernel      *)
(* reports an edge, and the thread of the pool that runs BarrierDone after    *)
(* Stop.  lock_ is held for one step, but by WriteDataToSocket, which calls   *)
(* writev until everything is written, for as many as that takes.  Callbacks  *)
(* only schedule a routine.  The Epoll that polls the descriptor is reduced   *)
(* to its one record; it is module Epoll in full.                             *)
EXTENDS Naturals, Sequences, SequencesExt, FiniteSets

CONSTANTS None,
          SendBuffer,                  \* bytes the socket takes before it is full
          MaxSize,                     \* bound: bytes of a buffer
          MaxWrites, MaxReads,         \* bounds: calls in a behaviour
          MaxArrivals, MaxFailures     \* bounds: bytes received, calls that fail

ASSUME BoundsAssumption ==
    {SendBuffer, MaxSize, MaxWrites, MaxReads, MaxArrivals, MaxFailures} \subseteq Nat

ASSUME NoneAssumption ==
    /\ None \notin {"client", "poller"}
    /\ \A events \in SUBSET {"in", "out", "err"} : None # events
    /\ None \notin [n : Nat, size : Nat, peek : BOOLEAN, data : Seq(Nat)]

VARIABLES holder,     \* who holds lock_ in WriteDataToSocket
          wpending,   \* wpending_: the buffers of Write and what is left of them
          rpending,   \* rpending_, or None
          stop,       \* Stop: not called, BarrierDone scheduled, client told
          aborted,    \* the program has been stopped by an INVARIANT or DEADEND
          registered, edge,         \* epoll: the record, news since the last report
          reported,                 \* events on their way to HandleFdEvent, or None
          room, arrived, taken, connection,   \* the socket: free space, bytes that
                                              \* came and bytes received, its state
          writes, reads, failures,  \* calls made: the sizes of the writes, the
                                    \* number of the reads, and of failed calls
          answers,                  \* history: answers to every request
          failed,                   \* history: requests that a failed call met
          sent, got, cut            \* history: bytes sent, bytes read, whether a
                                    \* writev ever ended inside a buffer

channel == <<holder, wpending, rpending, stop, aborted>>
epoll == <<registered, edge, reported>>
socket == <<room, arrived, taken, connection>>
counts == <<writes, reads, failures>>
history == <<answers, failed, sent, got, cut>>
vars == <<channel, epoll, socket, counts, history>>

W(n) == <<"write", n>>
R(n) == <<"read", n>>
Requests == {W(n) : n \in 1..MaxWrites} \cup {R(n) : n \in 1..MaxReads}

\* The constructor registers the descriptor, and epoll reports its state.
Init == /\ holder = None /\ wpending = <<>> /\ rpending = None
        /\ stop = "no" /\ aborted = FALSE
        /\ registered = TRUE /\ edge = TRUE /\ reported = None
        /\ room = SendBuffer /\ arrived = 0 /\ taken = 0 /\ connection = "up"
        /\ writes = <<>> /\ reads = 0 /\ failures = 0
        /\ answers = [q \in Requests |-> 0]
        /\ failed = {} /\ sent = <<>> /\ got = <<>> /\ cut = FALSE

Running == ~aborted
Locked == holder # None

Answer(qs) == answers' = [q \in Requests |-> IF q \in qs THEN answers[q] + 1 ELSE answers[q]]

Made == {W(n) : n \in 1..Len(writes)} \cup {R(n) : n \in 1..reads}

-----------------------------------------------------------------------------
\* WriteDataToSocket: one writev of all that is pending.  IOBuffer::Cut moves
\* the start of a buffer, but Ptr() returns the start it had at first.
Iovec(w) == [b \in 1..w.left |-> <<w.n, b>>]
Iovecs == [i \in DOMAIN wpending |-> Iovec(wpending[i])]
Pending == FlattenSeq(Iovecs)
UpTo(i) == Len(FlattenSeq(SubSeq(Iovecs, 1, i)))   \* bytes of the first i buffers

\* The buffers written in full leave the list, the next is cut.
Whole(bytes) == Cardinality({i \in DOMAIN wpending : UpTo(i) <= bytes})

Trim(bytes) == LET k == Whole(bytes) IN
    IF k = Len(wpending) THEN <<>>
    ELSE <<[wpending[k + 1] EXCEPT !.left = @ - (bytes - UpTo(k))]>>
         \o SubSeq(wpending, k + 2, Len(wpending))

Writev == /\ Running /\ Locked
          /\ wpending # <<>>
          /\ connection \in {"up", "eof"}
          /\ room > 0
          /\ LET bytes == IF Len(Pending) < room THEN Len(Pending) ELSE room IN
               /\ room' = room - bytes
               /\ sent' = sent \o SubSeq(Pending, 1, bytes)
               /\ wpending' = Trim(bytes)
               /\ cut' = (cut \/ UpTo(Whole(bytes)) # bytes)
               /\ IF holder = "poller"
                    THEN Answer({W(wpending[i].n) : i \in 1..Whole(bytes)})
                    ELSE UNCHANGED answers
          /\ UNCHANGED <<holder, rpending, stop, aborted, epoll, arrived, taken, connection,
                         counts, failed, got>>

\* What the end of the loop means for the holder of lock_: Write returns, or
\* HandleFdEvent comes to its last test.
Release(q) == /\ holder' = None
              /\ IF holder = "client"
                   THEN /\ Answer({q})
                        /\ UNCHANGED <<aborted, reported>>
                   ELSE /\ aborted' = ("err" \in reported)
                        /\ reported' = None

WriteEnds == /\ Running /\ Locked
             /\ wpending = <<>>
             /\ Release(W(Len(writes)))
             /\ holder = "poller" => UNCHANGED answers
             /\ UNCHANGED <<wpending, rpending, stop, registered, edge, socket, counts,
                            failed, sent, got, cut>>

\* An error other than EAGAIN: the client of the first buffer learns of it, by
\* the return of its Write or by its callback, and the buffer stays in the list.
MayFail == connection = "broken" \/ failures < MaxFailures
CountFailure == failures' = IF connection = "broken" THEN failures ELSE failures + 1

WritevFails == /\ Running /\ Locked
               /\ wpending # <<>>
               /\ MayFail /\ CountFailure
               /\ LET q == W(wpending[1].n) IN
                    /\ failed' = failed \cup {q}
                    /\ Release(q)
                    /\ holder = "poller" => Answer({q})
               /\ UNCHANGED <<wpending, rpending, stop, registered, edge, socket, writes, reads,
                              sent, got, cut>>

-----------------------------------------------------------------------------
\* ReadDataFromSocket, for the read ctx: recv until the buffer is full, the
\* socket is empty (EAGAIN) or at its end.  A recv with MSG_PEEK takes nothing
\* out of the socket and begins at the same byte every time.
Available == arrived - taken
Lacks(ctx) == ctx.size - Len(ctx.data)

Received(ctx) ==
    IF ctx.peek
      THEN [i \in 1..(IF Available = 0 THEN 0 ELSE Lacks(ctx)) |->
               taken + 1 + ((i - 1) % Available)]
      ELSE [i \in 1..(IF Available < Lacks(ctx) THEN Available ELSE Lacks(ctx)) |-> taken + i]

Recv_OnceMutant(ctx) ==
    LET new == IF Received(ctx) = <<>> THEN <<>> ELSE <<Head(Received(ctx))>>
        data == ctx.data \o new
        full == Len(data) = ctx.size
    IN  /\ connection \in {"up", "eof"}
        /\ taken' = IF ctx.peek THEN taken ELSE taken + Len(new)
        /\ rpending' = IF full THEN None ELSE [ctx EXCEPT !.data = data]
        /\ got' = IF full /\ ~ctx.peek THEN got \o data ELSE got
        /\ IF full THEN Answer({R(ctx.n)}) ELSE UNCHANGED answers
        /\ UNCHANGED <<failures, failed>>

Recv_KeepMutant(ctx) ==
    LET data == ctx.data \o Received(ctx)
        full == Len(data) = ctx.size
    IN  /\ connection \in {"up", "eof"}
        /\ taken' = IF ctx.peek THEN taken ELSE taken + Len(Received(ctx))
        /\ rpending' = [ctx EXCEPT !.data = IF full THEN <<>> ELSE data]
        /\ got' = IF full /\ ~ctx.peek THEN got \o data ELSE got
        /\ IF full THEN Answer({R(ctx.n)}) ELSE UNCHANGED answers
        /\ UNCHANGED <<failures, failed>>

Recv_PeekMutant(ctx) ==
    LET data == ctx.data \o Received(ctx)
        full == Len(data) = ctx.size
    IN  /\ connection \in {"up", "eof"}
        /\ taken' = taken
        /\ rpending' = IF full THEN None ELSE [ctx EXCEPT !.data = data]
        /\ got' = IF full /\ ~ctx.peek THEN got \o data ELSE got
        /\ IF full THEN Answer({R(ctx.n)}) ELSE UNCHANGED answers
        /\ UNCHANGED <<failures, failed>>

Recv(ctx) ==
    LET data == ctx.data \o Received(ctx)
        full == Len(data) = ctx.size
    IN  /\ connection \in {"up", "eof"}
        /\ taken' = IF ctx.peek THEN taken ELSE taken + Len(Received(ctx))
        /\ rpending' = IF full THEN None ELSE [ctx EXCEPT !.data = data]
        /\ got' = IF full /\ ~ctx.peek THEN got \o data ELSE got
        /\ IF full THEN Answer({R(ctx.n)}) ELSE UNCHANGED answers
        /\ UNCHANGED <<failures, failed>>

\* An error: the client learns of it and the read stays in rpending_.
RecvFails(ctx) == /\ MayFail /\ CountFailure
                  /\ rpending' = ctx
                  /\ failed' = failed \cup {R(ctx.n)}
                  /\ Answer({R(ctx.n)})
                  /\ UNCHANGED <<taken, got>>

ReadDataFromSocket(ctx) == Recv(ctx) \/ RecvFails(ctx)

-----------------------------------------------------------------------------
\* Write: with nothing pending, begin to write; else HandleFdEvent is called
\* and takes lock_ again, where the INVARIANT of SpinMutex stops the program.
Write == /\ Running /\ ~Locked /\ stop = "no"
         /\ Len(writes) < MaxWrites
         /\ \E size \in 1..MaxSize :
              /\ writes' = Append(writes, size)
              /\ wpending' = Append(wpending, [n |-> Len(writes'), left |-> size])
         /\ IF wpending = <<>>
              THEN holder' = "client" /\ UNCHANGED aborted
              ELSE aborted' = TRUE /\ UNCHANGED holder
         /\ UNCHANGED <<rpending, stop, epoll, socket, reads, failures, history>>

\* Read and Peek, by a client that has its answer to the one before.
Read == /\ Running /\ ~Locked /\ stop = "no"
        /\ reads < MaxReads
        /\ \A n \in 1..reads : answers[R(n)] > 0
        /\ reads' = reads + 1
        /\ IF rpending # None
             THEN /\ aborted' = TRUE
                  /\ UNCHANGED <<rpending, taken, failures, history>>
             ELSE /\ \E size \in 1..MaxSize, peek \in BOOLEAN :
                       ReadDataFromSocket([n |-> reads', size |-> size, peek |-> peek,
                                           data |-> <<>>])
                  /\ UNCHANGED <<aborted, sent, cut>>
        /\ UNCHANGED <<holder, wpending, stop, epoll, room, arrived, connection, writes>>

\* HandleFdEvent, on the polling thread.
HandleFdEvent ==
    /\ Running /\ ~Locked /\ reported # None
    /\ IF "in" \in reported /\ rpending # None
         THEN ReadDataFromSocket(rpending)
         ELSE UNCHANGED <<rpending, taken, failures, answers, failed, got>>
    /\ IF "out" \in reported
         THEN holder' = "poller" /\ UNCHANGED <<aborted, reported>>
         ELSE /\ aborted' = ("err" \in reported)
              /\ reported' = None
              /\ UNCHANGED holder
    /\ UNCHANGED <<wpending, stop, registered, edge, room, arrived, connection, writes, reads,
                   sent, cut>>

-----------------------------------------------------------------------------
\* Stop takes the descriptor out of epoll and schedules BarrierDone, ...
Stop == /\ Running /\ stop = "no"
        /\ registered' = FALSE /\ edge' = FALSE
        /\ stop' = "scheduled"
        /\ UNCHANGED <<holder, wpending, rpending, aborted, reported, socket, counts, history>>

\* ... which closes the socket, fails what is pending and tells the client.
FailOps_Mutant == Answer({W(wpending[i].n) : i \in DOMAIN wpending})

FailOps == Answer({W(wpending[i].n) : i \in DOMAIN wpending}
                  \cup (IF rpending = None THEN {} ELSE {R(rpending.n)}))

BarrierDone == /\ Running /\ ~Locked /\ stop = "scheduled"
               /\ connection' = IF connection = "broken" THEN connection ELSE "closed"
               /\ FailOps
               /\ wpending' = <<>> /\ rpending' = None
               /\ stop' = "done"
               /\ UNCHANGED <<holder, aborted, epoll, room, arrived, taken, counts,
                              failed, sent, got, cut>>

-----------------------------------------------------------------------------
(* The kernel, the peer and the polling thread (EPOLLET): something happens to *)
(* the socket, and the next epoll_wait reports the state it has by then.       *)
Happens == /\ Running
           /\ edge' = registered
           /\ UNCHANGED <<channel, registered, reported, taken, counts, history>>

Arrives == /\ connection = "up" /\ arrived < MaxArrivals
           /\ arrived' = arrived + 1
           /\ Happens
           /\ UNCHANGED <<room, connection>>

PeerReads == /\ connection \in {"up", "eof"} /\ room < SendBuffer
             /\ room' = SendBuffer
             /\ Happens
             /\ UNCHANGED <<arrived, connection>>

PeerCloses == /\ connection = "up"
              /\ connection' = "eof"
              /\ Happens
              /\ UNCHANGED <<room, arrived>>

Breaks == /\ connection \in {"up", "eof"}
          /\ connection' = "broken"
          /\ Happens
          /\ UNCHANGED <<room, arrived>>

Mask == {e \in {"in", "out", "err"} :
           \/ connection = "broken"
           \/ e = "in" /\ (Available > 0 \/ connection = "eof")
           \/ e = "out" /\ room > 0}

Report == /\ Running
          /\ edge /\ reported = None
          /\ edge' = FALSE
          /\ reported' = IF Mask = {} THEN None ELSE Mask
          /\ UNCHANGED <<channel, registered, socket, counts, history>>

-----------------------------------------------------------------------------
Next == \/ Write \/ Writev \/ WriteEnds \/ WritevFails
        \/ Read \/ HandleFdEvent \/ Stop \/ BarrierDone
        \/ Arrives \/ PeerReads \/ PeerCloses \/ Breaks \/ Report

Spec == Init /\ [][Next]_vars

\* Threads keep running, whoever holds lock_ included, and the peer goes on
\* reading what it is sent.
Loop == Writev \/ WriteEnds \/ (connection = "broken" /\ WritevFails)

Fairness == /\ WF_vars(Loop)
            /\ WF_vars(Report \/ HandleFdEvent)
            /\ WF_vars(BarrierDone)
            /\ WF_vars(PeerReads)

FairSpec == Spec /\ Fairness

-----------------------------------------------------------------------------
TypeOK == /\ holder \in {None, "client", "poller"}
          /\ \A i \in DOMAIN wpending : wpending[i] \in [n : 1..MaxWrites, left : 1..MaxSize]
          /\ \/ rpending = None
             \/ /\ rpending.n \in 1..MaxReads /\ rpending.size \in 1..MaxSize
                /\ Len(rpending.data) < rpending.size
          /\ stop \in {"no", "scheduled", "done"}
          /\ {aborted, registered, edge, cut} \subseteq BOOLEAN
          /\ reported = None \/ reported \subseteq {"in", "out", "err"}
          /\ room \in 0..SendBuffer /\ taken \in 0..arrived
          /\ connection \in {"up", "eof", "broken", "closed"}

\* Neither its own threads in any order nor a Stop at any moment stop the
\* program: that takes a socket call that fails or a connection that breaks.
OnlyFailuresAbort == aborted => failed # {} \/ connection = "broken"

\* A request that met no failing call is answered once, by the return of its
\* call, by its callback or by FailOps, and when Stop is done every request has
\* been answered.
AnsweredOnce == /\ \A q \in Requests \ failed : answers[q] <= 1
                /\ stop = "done" => \A q \in Made : answers[q] > 0

\* What goes into the socket is what the clients wrote, in the order of their
\* calls, as long as no writev ended inside a buffer; what Read returns is the
\* stream that came, whatever Peek looked at.
Written == FlattenSeq([n \in DOMAIN writes |-> [b \in 1..writes[n] |-> <<n, b>>]])

StreamPreserved == /\ ~cut => IsPrefix(sent, Written)
                   /\ got = [i \in 1..Len(got) |-> i]

\* No edge is missed: a read whose bytes are in the socket is answered, whether
\* they came before, during or after its call.
InSocket == rpending # None /\ Available >= Lacks(rpending)
Served == rpending = None \/ answers[R(rpending.n)] > 0

EveryReadServed == InSocket ~> Served \/ aborted
=============================================================================
