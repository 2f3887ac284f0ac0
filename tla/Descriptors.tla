------------------------------ MODULE Descriptors ------------------------------
(* What the TCP components share: file descriptors, the sockets behind them,  *)
(* the records MultiPathEpoll has for them, and the polling threads.  Module  *)
(* Epoll has the records in full; here, as there, a handler may be called for *)
(* a record that was removed meanwhile.  The network is a loopback with other *)
(* hosts around it.                                                           *)
EXTENDS Naturals, FiniteSets

CONSTANTS Fds, Pollers,
          None,
          MaxBacklog   \* the kernel's limit of connections not accepted yet

ASSUME NoneAssumption == None \notin Fds \cup {"connector", "server", "channel"}

VARIABLES sock,        \* the sockets behind the descriptors, "none" if closed
          orphans,     \* connections to accept whose client has closed already
          registered,  \* fdmap_: who has a record for every descriptor, ...
          path,        \* ... and the Epoll, hence the polling thread, it is
                       \* in (not kept for channels)
          polling,     \* every polling thread: the event it has in hand
          late,        \* history: threads whose event's record was removed by
                       \* a Stop meanwhile
          aborted,     \* an INVARIANT has failed
          spoiled      \* history: a component used the descriptor of another

shared == <<sock, orphans, registered, path, polling, late, aborted, spoiled>>

Away == [at |-> "away", fd |-> None, up |-> FALSE]

InitDescriptors == /\ sock = [f \in Fds |-> "none"]
                   /\ orphans = 0
                   /\ registered = [f \in Fds |-> None]
                   /\ path = [f \in Fds |-> None]
                   /\ polling = [p \in Pollers |-> Away]
                   /\ late = {}
                   /\ aborted = FALSE /\ spoiled = FALSE

Running == ~aborted /\ ~spoiled

-----------------------------------------------------------------------------
(* MultiPathEpoll, for callers who are not in a polling thread or are done    *)
(* with their record.                                                         *)
\* Add aborts where there is a record; it goes to the next Epoll in turn, and
\* idx_, which nobody initialises, is whatever the others made of it.
EpollAdd(f, who) == /\ registered' = [registered EXCEPT ![f] = who]
                    /\ \E p \in IF who = "channel" THEN {None} ELSE Pollers :
                         path' = [path EXCEPT ![f] = p]
                    /\ aborted' = (registered[f] # None)

\* Remove aborts where there is no record, and does not ask whose it is.
EpollRemove(f, who) == /\ registered' = [registered EXCEPT ![f] = None]
                       /\ aborted' = (registered[f] = None)
                       /\ path' = [path EXCEPT ![f] = None]
                       /\ spoiled' = (registered[f] \notin {None, who})

\* Those who have an event of the descriptor in hand.
InHand(f) == {p \in Pollers : polling[p].fd = f}

-----------------------------------------------------------------------------
(* The kernel.                                                                *)
Queued == {f \in Fds : sock[f] = "queued"}
Backlog == Cardinality(Queued) + orphans
Open(f) == sock[f] # "none"
Listening == \E f \in Fds : sock[f] = "listening"

\* close(): a connection nobody accepted yet can be accepted all the same; the
\* connections a listening socket has not handed out are reset.
CloseSocket(f) ==
    IF sock[f] = "listening"
      THEN /\ sock' = [g \in Fds |-> IF g = f THEN "none"
                                     ELSE IF g \in Queued THEN "down" ELSE sock[g]]
           /\ orphans' = 0
      ELSE /\ sock' = [sock EXCEPT ![f] = "none"]
           /\ orphans' = IF f \in Queued THEN orphans + 1 ELSE orphans

\* A connection is established or fails; one to the server here waits in its
\* backlog until it is accepted.
Resolve(f) ==
    /\ Running /\ sock[f] = "connecting"
    /\ \/ sock' = [sock EXCEPT ![f] = "up"]
       \/ sock' = [sock EXCEPT ![f] = "down"]
       \/ /\ Listening /\ Backlog < MaxBacklog
          /\ sock' = [sock EXCEPT ![f] = "queued"]
    /\ UNCHANGED <<orphans, registered, path, polling, late, aborted, spoiled>>

\* What epoll reports: an answer to a connect, or connections to accept.
Ready(f) == \/ registered[f] = "connector" /\ sock[f] \in {"queued", "up", "down"}
            \/ registered[f] = "server" /\ sock[f] = "listening" /\ Backlog > 0

\* A polling thread reads mute_ and calls the handler of the record.
Report(p, f) ==
    /\ Running /\ polling[p] = Away
    /\ path[f] = p /\ Ready(f)
    /\ polling' = [polling EXCEPT ![p] =
                     [at |-> registered[f], fd |-> f, up |-> sock[f] # "down"]]
    /\ UNCHANGED <<sock, orphans, registered, path, late, aborted, spoiled>>

\* The channel on a descriptor (module TcpChannel) is stopped and deleted.
ChannelStops(f) == /\ Running /\ registered[f] = "channel"
                   /\ registered' = [registered EXCEPT ![f] = None]
                   /\ CloseSocket(f)
                   /\ UNCHANGED <<path, polling, late, aborted, spoiled>>
=============================================================================
