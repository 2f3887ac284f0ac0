----------------------------- MODULE TcpEndpoints -----------------------------
(* A TCPConnector and a TCPServer of one program, as in its test: they share  *)
(* the descriptors, the polling threads and MultiPathEpoll, and the connector *)
(* may connect to the server.                                                 *)
EXTENDS Descriptors

CONSTANT MaxAccepts

VARIABLES pending, connecting, stop, todo, closed, owed, twice, lost,
          serving, sockfd, accepts, told, discarded

C == INSTANCE TcpConnector
S == INSTANCE TcpServer

connector == <<pending, connecting, stop, todo, closed, owed, twice, lost>>
server == <<serving, sockfd, accepts, told, discarded>>
vars == <<shared, connector, server>>

Init == InitDescriptors /\ C!Init /\ S!Init

\* A channel is stopped by a client who has it.
Environment == /\ \E f \in Fds : \/ Resolve(f)
                                 \/ f \notin told /\ ChannelStops(f)
                                 \/ \E p \in Pollers : Report(p, f)
               /\ UNCHANGED <<connector, server>>

Next == \/ C!Next /\ UNCHANGED server
        \/ S!Next /\ UNCHANGED connector
        \/ Environment

Spec == Init /\ [][Next]_vars

\* Threads keep running, and the kernel gives every connection an outcome.  An
\* event stays ready until it is dealt with (level-triggered), so the polling
\* threads come to every descriptor.
Polling(p) == \/ (C!Unplug(p) \/ C!Drop(p) \/ C!Notify(p)) /\ UNCHANGED server
              \/ /\ \/ S!HandleStale(p) \/ S!HandleError(p)
                    \/ \E g \in Fds : S!HandleAccepted(p, g)
                 /\ UNCHANGED connector

Connecting == /\ \/ C!Register \/ C!ShutdownSocket \/ C!ScheduleBarrier \/ C!BarrierDone
                 \/ \E f \in Fds : C!StopOne(f)
              /\ UNCHANGED server

Serving == (S!BarrierDone \/ \E f \in Fds : S!Tell(f)) /\ UNCHANGED connector

Kernel(A) == A /\ UNCHANGED <<connector, server>>

Fairness == /\ \A f \in Fds : /\ WF_vars(Kernel(Resolve(f)))
                              /\ SF_vars(Kernel(\E p \in Pollers : Report(p, f)))
            /\ \A p \in Pollers : WF_vars(Polling(p))
            /\ WF_vars(Connecting) /\ WF_vars(Serving)

FairSpec == Spec /\ Fairness

-----------------------------------------------------------------------------
\* No INVARIANT fails, and neither component uses a descriptor of the other
\* (Remove does not ask whose record it takes away), whatever is closed and used
\* again, except in one of three ways: a polling thread had an event in hand when Stop
\* removed its record, or the connector's Stop shuts down a number after it
\* has closed it, and the number was given away in between.
OnlyLateEventHarms ==
    aborted \/ spoiled => late # {} \/ stop = "loop"

\* Every Connect is answered once, by HandleFdEvent or by BarrierDone, and once
\* Stop is done nothing is left of the connector but the event in hand: no
\* entry, no record in epoll, no answer to come.
Answering == {polling[p].fd : p \in {q \in Pollers : polling[q].at = "dropped"}}

AnsweredOnce ==
    Running => /\ ~twice
               /\ owed = pending \cup Answering
               /\ stop = "done" => /\ pending = {}
                                   /\ \A f \in Fds : registered[f] # "connector"

\* Every open descriptor belongs to one component, or is lost: the socket of a
\* refused connection, and that of an Accept that failed.  Nobody holds on to
\* one that is closed, except a connector that is being stopped.
Owners(f) == {x \in {"connector", "server", "channel", "nobody"} :
                \/ x = "connector" /\ f \in pending \cup Answering
                \/ x = "server" /\ serving = "listening" /\ sockfd = f
                \/ x = "channel" /\ registered[f] = "channel"
                \/ x = "nobody" /\ f \in lost \cup discarded}

DescriptorsAccounted ==
    Running /\ stop = "no" /\ late = {} => \A f \in Fds :
        Cardinality(Owners(f)) = IF Open(f) THEN 1 ELSE 0

\* Stopped means stopped: no connection is accepted for a server that has been
\* stopped, not even by the event in hand, and none is left waiting.  (That event may
\* still tell the client of an error, in HandleError.)
StoppedServerAcceptsNobody ==
    [][serving # "listening" => told' \subseteq told /\ Queued' \subseteq Queued]_vars

\* Every Connect is answered, and every connection to the server is accepted, unless
\* the server or the client stops, or all descriptors are in use.  (The
\* descriptors are alike: it is enough to look at one of them.)
Watched == CHOOSE f \in Fds : TRUE
Full == \A f \in Fds : Open(f)

EveryConnectionServed ==
    /\ Watched \in pending ~> Watched \notin owed \/ ~Running
    /\ sock[Watched] = "queued" ~> sock[Watched] # "queued" \/ Full \/ ~Running
=============================================================================
