----------------------------- MODULE TcpConnector -----------------------------
(* TCPConnector of src/src/net/transport/tcp-linux.cc: a client that connects *)
(* and stops, the polling threads in HandleFdEvent, and the thread of the pool *)
(* in BarrierDone.  lock_ is held for one step, except by Stop.  Calls into   *)
(* epoll are made without lock_ by all but Stop.                              *)
EXTENDS Descriptors

VARIABLES pending,     \* pendingConnects_
          connecting,  \* the descriptor of a Connect between its two steps
          stop, todo,  \* Stop: how far, the descriptors left in its loop, ...
          closed,      \* ... and the one it has closed and not shut down yet
          owed,        \* history: Connects without an answer,
          twice,       \* a second answer to a Connect,
          lost         \* and descriptors of refused connections

connector == <<pending, connecting, stop, todo, closed, owed, twice, lost>>

Init == /\ pending = {}
        /\ connecting = None
        /\ stop = "no" /\ todo = {} /\ closed = None
        /\ owed = {} /\ twice = FALSE /\ lost = {}

Locked == stop = "loop"

\* The event a polling thread brings to HandleFdEvent.
Handles(p, where) == Running /\ polling[p].at = where
Fd(p) == polling[p].fd
Goes(p, where) == polling' = [polling EXCEPT ![p].at = where]
Returns(p) == polling' = [polling EXCEPT ![p] = Away] /\ late' = late \ {p}

Answer(fs) == /\ owed' = owed \ fs
              /\ twice' = (twice \/ ~ fs \subseteq owed)

-----------------------------------------------------------------------------
\* Connect: a socket that begins to connect, its entry, and its record.
Connect(f) == /\ Running
              /\ stop = "no" /\ connecting = None
              /\ sock[f] = "none"
              /\ sock' = [sock EXCEPT ![f] = "connecting"]
              /\ pending' = pending \cup {f}
              /\ owed' = owed \cup {f}
              /\ connecting' = f
              /\ UNCHANGED <<orphans, registered, path, polling, late, aborted, spoiled,
                             stop, todo, closed, twice, lost>>

Register_Mutant == /\ Running /\ connecting # None
                   /\ connecting' = None
                   /\ UNCHANGED <<shared, pending, stop, todo, closed, owed, twice, lost>>

Register == /\ Running /\ connecting # None
            /\ EpollAdd(connecting, "connector")
            /\ connecting' = None
            /\ UNCHANGED <<sock, orphans, polling, late, spoiled,
                           pending, stop, todo, closed, owed, twice, lost>>

-----------------------------------------------------------------------------
\* HandleFdEvent: out of epoll,
Unplug_Mutant(p) == /\ Handles(p, "connector")
                    /\ Goes(p, "unplugged")
                    /\ UNCHANGED <<sock, orphans, registered, path, late, aborted, spoiled,
                                   connector>>

Unplug(p) == /\ Handles(p, "connector")
             /\ EpollRemove(Fd(p), "connector")
             /\ Goes(p, "unplugged")
             /\ UNCHANGED <<sock, orphans, late, connector>>

\* out of pendingConnects_,
Drop(p) == /\ Handles(p, "unplugged") /\ ~Locked
           /\ aborted' = (Fd(p) \notin pending)
           /\ pending' = pending \ {Fd(p)}
           /\ Goes(p, "dropped")
           /\ UNCHANGED <<sock, orphans, registered, path, late, spoiled,
                          connecting, stop, todo, closed, owed, twice, lost>>

\* and the client is told.  The channel of an established connection registers
\* the descriptor again; that of a refused one is not closed.
Notify(p) == /\ Handles(p, "dropped")
             /\ IF polling[p].up
                  THEN EpollAdd(Fd(p), "channel") /\ UNCHANGED lost
                  ELSE lost' = lost \cup {Fd(p)} /\ UNCHANGED <<registered, path, aborted>>
             /\ Answer({Fd(p)})
             /\ Returns(p)
             /\ UNCHANGED <<sock, orphans, spoiled, pending, connecting, stop, todo, closed>>

-----------------------------------------------------------------------------
\* Stop holds lock_ while it takes every pending connection out of epoll, closes
\* its socket, shuts down whatever has its number by then, and schedules BarrierDone.
Stop == /\ Running
        /\ stop = "no" /\ connecting = None
        /\ stop' = "loop"
        /\ todo' = pending
        /\ UNCHANGED <<shared, pending, connecting, closed, owed, twice, lost>>

StopOne(f) == /\ Running /\ stop = "loop" /\ closed = None
              /\ f \in todo
              /\ EpollRemove(f, "connector")
              /\ CloseSocket(f)
              /\ todo' = todo \ {f}
              /\ closed' = f
              /\ late' = late \cup InHand(f)
              /\ UNCHANGED <<polling, pending, connecting, stop, owed, twice, lost>>

ShutdownSocket == /\ Running /\ closed # None
                  /\ spoiled' = Open(closed)
                  /\ closed' = None
                  /\ UNCHANGED <<sock, orphans, registered, path, polling, late, aborted,
                                 pending, connecting, stop, todo, owed, twice, lost>>

ScheduleBarrier == /\ Running /\ stop = "loop"
                   /\ todo = {} /\ closed = None
                   /\ stop' = "scheduled"
                   /\ UNCHANGED <<shared, pending, connecting, todo, closed, owed, twice, lost>>

BarrierDone_Mutant == /\ Running /\ stop = "scheduled"
                      /\ pending' = {}
                      /\ stop' = "done"
                      /\ UNCHANGED <<shared, connecting, todo, closed, owed, twice, lost>>

BarrierDone == /\ Running /\ stop = "scheduled"
               /\ Answer(pending)
               /\ pending' = {}
               /\ stop' = "done"
               /\ UNCHANGED <<shared, connecting, todo, closed, lost>>

-----------------------------------------------------------------------------
Next == \/ \E f \in Fds : Connect(f) \/ StopOne(f)
        \/ \E p \in Pollers : Unplug(p) \/ Drop(p) \/ Notify(p)
        \/ Register \/ Stop \/ ShutdownSocket \/ ScheduleBarrier \/ BarrierDone
=============================================================================
