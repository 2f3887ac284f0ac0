------------------------------- MODULE TcpServer -------------------------------
(* TCPServer of src/src/net/transport/tcp-linux.cc: a client that lets it     *)
(* Accept connections and stops it, the polling threads in HandleFdEvent, and *)
(* the routines of the pool.  lock_ is held over whole methods, each a step.  *)
EXTENDS Descriptors

CONSTANT MaxAccepts   \* bound: calls of Accept

VARIABLES serving,    \* what the client has made of the server so far
          sockfd,     \* sockfd_
          accepts,    \* calls of Accept
          told,       \* descriptors whose channel the client is being told of
          discarded   \* history: sockets of calls of Accept that failed

server == <<serving, sockfd, accepts, told, discarded>>

Init == /\ serving = "idle"
        /\ sockfd = None
        /\ accepts = 0
        /\ told = {} /\ discarded = {}

-----------------------------------------------------------------------------
\* Accept: a listening socket and its record.  A client whose server has
\* stopped may start it again.
CallAccept(f) == /\ Running
                 /\ serving \in {"idle", "stopped"}
                 /\ accepts < MaxAccepts
                 /\ accepts' = accepts + 1
                 /\ sock[f] = "none"
                 /\ sockfd' = f

Accept_Mutant(f) == /\ CallAccept(f)
                    /\ sock' = [sock EXCEPT ![f] = "listening"]
                    /\ serving' = "listening"
                    /\ UNCHANGED <<orphans, registered, path, polling, late, aborted, spoiled,
                                   told, discarded>>

Accept(f) == /\ CallAccept(f)
             /\ sock' = [sock EXCEPT ![f] = "listening"]
             /\ EpollAdd(f, "server")
             /\ serving' = "listening"
             /\ UNCHANGED <<orphans, polling, late, spoiled, told, discarded>>

\* fcntl, bind, listen or epoll fails: the socket stays open (and epoll's entry
\* for it, if it has one, is never looked at again).
AcceptFails(f) == /\ CallAccept(f)
                  /\ sock' = [sock EXCEPT ![f] = "discarded"]
                  /\ discarded' = discarded \cup {f}
                  /\ UNCHANGED <<orphans, registered, path, polling, late, aborted, spoiled,
                                 serving, told>>

-----------------------------------------------------------------------------
\* HandleFdEvent, under lock_: INVARIANT(fd == sockfd_), then accept4.
Handles(p) == Running /\ polling[p].at = "server"
Stale(p) == polling[p].fd # sockfd
CanAccept == sock[sockfd] = "listening" /\ Backlog > 0

Returns(p) == polling' = [polling EXCEPT ![p] = Away] /\ late' = late \ {p}

HandleStale(p) == /\ Handles(p) /\ Stale(p)
                  /\ aborted' = TRUE
                  /\ UNCHANGED <<sock, orphans, registered, path, polling, late, spoiled, server>>

\* A connection: a socket of its own, a channel, and the client is told.
HandleAccepted(p, g) ==
    /\ Handles(p) /\ ~Stale(p) /\ CanAccept
    /\ sock[g] = "none"
    /\ \/ \E f \in Queued : sock' = [sock EXCEPT ![f] = "up", ![g] = "up"]
                            /\ UNCHANGED orphans
       \/ orphans > 0 /\ orphans' = orphans - 1 /\ sock' = [sock EXCEPT ![g] = "up"]
    /\ EpollAdd(g, "channel")
    /\ told' = told \cup {g}
    /\ Returns(p)
    /\ UNCHANGED <<spoiled, serving, sockfd, accepts, discarded>>

\* None: it was closed, there is nothing to accept, or no descriptor is free.
\* The client is told of the error.
HandleError(p) ==
    /\ Handles(p) /\ ~Stale(p)
    /\ CanAccept => \A g \in Fds : Open(g)
    /\ Returns(p)
    /\ UNCHANGED <<sock, orphans, registered, path, aborted, spoiled, server>>

\* The client's callback runs on the pool: the channel is its own.
Tell(g) == /\ Running /\ g \in told
           /\ told' = told \ {g}
           /\ UNCHANGED <<shared, serving, sockfd, accepts, discarded>>

-----------------------------------------------------------------------------
\* Stop: out of epoll, the socket closed, and BarrierDone scheduled.
Stop_Mutant == /\ Running /\ serving = "listening"
               /\ EpollRemove(sockfd, "server")
               /\ late' = late \cup InHand(sockfd)
               /\ serving' = "stopping"
               /\ UNCHANGED <<sock, orphans, polling, sockfd, accepts, told, discarded>>

Stop == /\ Running /\ serving = "listening"
        /\ EpollRemove(sockfd, "server")
        /\ CloseSocket(sockfd)
        /\ late' = late \cup InHand(sockfd)
        /\ serving' = "stopping"
        /\ UNCHANGED <<polling, sockfd, accepts, told, discarded>>

\* BarrierDone tells the client, who may hear of a channel accepted before after
\* that: the routines of the two may be on different threads of the pool.
BarrierDone == /\ Running /\ serving = "stopping"
               /\ serving' = "stopped"
               /\ UNCHANGED <<shared, sockfd, accepts, told, discarded>>

-----------------------------------------------------------------------------
Next == \/ \E f \in Fds : Accept(f) \/ AcceptFails(f) \/ Tell(f)
        \/ \E p \in Pollers : \/ HandleStale(p) \/ HandleError(p)
                              \/ \E g \in Fds : HandleAccepted(p, g)
        \/ Stop \/ BarrierDone
=============================================================================
