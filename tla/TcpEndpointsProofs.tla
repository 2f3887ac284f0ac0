--------------------------- MODULE TcpEndpointsProofs --------------------------
(* Proofs about TcpEndpoints for any number of descriptors, polling threads   *)
(* and calls of Accept.                                                       *)
EXTENDS TcpEndpoints, FiniteSetTheorems, TLAPS

Sockets == {"none", "connecting", "queued", "up", "down", "listening", "discarded"}

TypeOK ==
    /\ sock \in [Fds -> Sockets]
    /\ orphans \in Nat
    /\ registered \in [Fds -> {None, "connector", "server", "channel"}]
    /\ path \in [Fds -> Pollers \cup {None}]
    /\ polling \in [Pollers ->
                     [at : {"away", "connector", "server", "unplugged", "dropped"},
                      fd : Fds \cup {None}, up : BOOLEAN]]
    /\ late \subseteq Pollers
    /\ aborted \in BOOLEAN /\ spoiled \in BOOLEAN
    /\ pending \subseteq Fds /\ todo \subseteq Fds /\ owed \subseteq Fds
    /\ connecting \in Fds \cup {None} /\ closed \in Fds \cup {None}
    /\ stop \in {"no", "loop", "scheduled", "done"}
    /\ twice \in BOOLEAN /\ lost \subseteq Fds
    /\ serving \in {"idle", "listening", "stopping", "stopped"}
    /\ sockfd \in Fds \cup {None}
    /\ accepts \in Nat
    /\ told \subseteq Fds /\ discarded \subseteq Fds

-----------------------------------------------------------------------------
(* The inductive invariant.                                                   *)
\* The connector's descriptors: of pendingConnects_, which Stop leaves as it is, those
\* Stop has not closed yet, and those whose answer is on its way.
Live == IF stop = "no" THEN pending ELSE todo
At(p, where) == polling[p].at = where
Answers(f) == \E p \in Pollers : At(p, "dropped") /\ polling[p].fd = f
InConnector(f) == f \in Live \/ Answers(f)

\* How far Stop is; and a Connect between its two steps has no record yet.
StopSound ==
    /\ todo \subseteq pending
    /\ stop # "loop" => todo = {} /\ closed = None
    /\ stop = "done" => pending = {}
    /\ connecting # None =>
         stop = "no" /\ connecting \in pending /\ registered[connecting] = None
    /\ serving = "listening" => sockfd \in Fds
    /\ ~twice

\* The state of a socket says to which component its descriptor belongs, and that
\* component alone has a record for it.
Connections == {"connecting", "queued", "up", "down"}

SocketSound(f) ==
    /\ registered[f] = "server" <=> sock[f] = "listening"
    /\ registered[f] = "server" <=> serving = "listening" /\ sockfd = f
    /\ sock[f] = "discarded" <=> f \in discarded
    /\ sock[f] \in Connections <=> InConnector(f) \/ f \in lost \/ registered[f] = "channel"
    /\ InConnector(f) => f \notin lost /\ registered[f] \in {None, "connector"}
    /\ registered[f] = "connector" => f \in Live
    /\ f \in lost => registered[f] = None /\ sock[f] = "down"
    /\ f \in owed <=> f \in pending \/ Answers(f)

\* The event that a polling thread has in hand is that of the record which is
\* registered, unless it is late; once the thread has removed the record, the
\* descriptor is its own.
Resolved(p, f) == /\ sock[f] # "connecting"
                  /\ ~polling[p].up => sock[f] = "down"

EventSound(p) == LET f == polling[p].fd IN
    /\ f # None <=> ~At(p, "away")
    /\ At(p, "away") => p \notin late
    /\ At(p, "server") => sockfd # None
    /\ At(p, "connector") /\ p \in late => stop # "no" /\ registered[f] # "connector"
    /\ At(p, "server") /\ p \notin late => registered[f] = "server"
    /\ At(p, "connector") /\ p \notin late =>
         registered[f] = "connector" /\ path[f] = p /\ Resolved(p, f)
    /\ At(p, "unplugged") \/ At(p, "dropped") =>
         p \notin late /\ registered[f] = None /\ Resolved(p, f)
    /\ At(p, "unplugged") => f \in Live /\ f # connecting
    /\ At(p, "dropped") => f \notin pending

Holds(p, f) == (At(p, "unplugged") \/ At(p, "dropped")) /\ polling[p].fd = f
OneHolder == \A p, q \in Pollers, f \in Fds : Holds(p, f) /\ Holds(q, f) => p = q

Sound == /\ StopSound
         /\ \A f \in Fds : SocketSound(f)
         /\ \A p \in Pollers : EventSound(p)
         /\ OneHolder

\* A program that an INVARIANT has stopped, or in which a component has used the
\* descriptor of another, does not go on: nothing is claimed of its tables.
IInv == TypeOK /\ OnlyLateEventHarms /\ (Running => Sound)

-----------------------------------------------------------------------------
(* Every step keeps it, first those of the connector.                         *)
\* A polling thread goes on with the event it has in hand.
LEMMA GoesTo ==
    ASSUME TypeOK, NEW p \in Pollers, NEW where, C!Goes(p, where)
    PROVE  polling' = [polling EXCEPT ![p] =
                         [at |-> where, fd |-> polling[p].fd, up |-> polling[p].up]]
<1>1. polling[p] = [at |-> polling[p].at, fd |-> polling[p].fd, up |-> polling[p].up]
      BY DEF TypeOK
<1>2. [polling[p] EXCEPT !.at = where] =
        [at |-> where, fd |-> polling[p].fd, up |-> polling[p].up]
      BY <1>1
<1> QED
    BY <1>2 DEF C!Goes

\* TCPConnector::Connect enters the descriptor of a new socket in pendingConnects_ ...
LEMMA ConnectIInv ==
    ASSUME IInv, NEW f \in Fds, C!Connect(f), UNCHANGED server
    PROVE  IInv'
<1> USE NoneAssumption
<1>t. TypeOK
      BY DEF IInv
<1>1. /\ Running /\ stop = "no" /\ connecting = None /\ sock[f] = "none"
      /\ sock' = [sock EXCEPT ![f] = "connecting"]
      /\ pending' = pending \cup {f} /\ owed' = owed \cup {f} /\ connecting' = f
      /\ UNCHANGED <<orphans, registered, path, polling, late, aborted, spoiled, stop,
                     todo, closed, twice, lost, serving, sockfd, accepts, told,
                     discarded>>
      BY DEF C!Connect, server, C!Running, Running
<1>s. Sound
      BY <1>1 DEF IInv
<1>2. TypeOK'
      BY <1>1, <1>t DEF TypeOK, Sockets
<1>3. OnlyLateEventHarms'
      BY <1>1 DEF OnlyLateEventHarms, Running
<1>4. ASSUME Running' PROVE Sound'
  <2>1. StopSound'
        BY <1>1, <1>t, <1>s
           DEF TypeOK, Sound, StopSound, SocketSound, InConnector, Connections
  <2>2. \A h \in Fds : SocketSound(h)'
        BY <1>1, <1>t, <1>s
           DEF TypeOK, Sound, SocketSound, At, Live, InConnector, Answers, Connections
  <2>3. \A q \in Pollers : EventSound(q)'
        BY <1>1, <1>s
           DEF Sound, SocketSound, EventSound, At, Live, InConnector, Answers,
               Connections, Resolved
  <2>4. OneHolder'
        BY <1>1, <1>s DEF Sound, OneHolder, Holds, At
  <2> QED
      BY <2>1, <2>2, <2>3, <2>4 DEF Sound
<1> QED
    BY <1>2, <1>3, <1>4 DEF IInv

\* ... and then registers it with epoll.
LEMMA RegisterIInv ==
    ASSUME IInv, C!Register, UNCHANGED server
    PROVE  IInv'
<1> USE NoneAssumption
<1>t. TypeOK
      BY DEF IInv
<1>1. /\ Running /\ connecting # None
      /\ registered' = [registered EXCEPT ![connecting] = "connector"]
      /\ path' \in [Fds -> Pollers \cup {None}]
      /\ \A g \in Fds \ {connecting} : path'[g] = path[g]
      /\ aborted' = (registered[connecting] # None) /\ connecting' = None
      /\ UNCHANGED <<sock, orphans, polling, late, spoiled, pending, stop, todo, closed,
                     owed, twice, lost, serving, sockfd, accepts, told, discarded>>
      BY <1>t DEF C!Register, server, C!Running, Running, C!EpollAdd, TypeOK
<1>s. Sound
      BY <1>1 DEF IInv
<1>2. TypeOK'
      BY <1>1, <1>t DEF TypeOK
<1>3. OnlyLateEventHarms'
      BY <1>1, <1>t, <1>s DEF OnlyLateEventHarms, TypeOK, Sound, StopSound, Running
<1>4. ASSUME Running' PROVE Sound'
  <2>1. StopSound'
        BY <1>1, <1>s DEF Sound, StopSound
  <2>2. \A h \in Fds : SocketSound(h)'
        BY <1>1, <1>s DEF Sound, StopSound, SocketSound, At, Live, InConnector, Answers
  <2>3. \A q \in Pollers : EventSound(q)'
        BY <1>1, <1>t, <1>s DEF TypeOK, Sound, StopSound, EventSound, At, Live, Resolved
  <2>4. OneHolder'
        BY <1>1, <1>s DEF Sound, OneHolder, Holds, At
  <2> QED
      BY <2>1, <2>2, <2>3, <2>4 DEF Sound
<1> QED
    BY <1>2, <1>3, <1>4 DEF IInv

\* HandleFdEvent first removes the record of its descriptor.
LEMMA UnplugIInv ==
    ASSUME IInv, NEW p \in Pollers, C!Unplug(p), UNCHANGED server
    PROVE  IInv'
<1> USE NoneAssumption
<1>t. TypeOK
      BY DEF IInv
<1>1. /\ Running /\ At(p, "connector")
      /\ registered' = [registered EXCEPT ![polling[p].fd] = None]
      /\ path' = [path EXCEPT ![polling[p].fd] = None]
      /\ aborted' = (registered[polling[p].fd] = None)
      /\ spoiled' = (registered[polling[p].fd] \notin {None, "connector"})
      /\ polling' = [polling EXCEPT ![p] =
                       [at |-> "unplugged", fd |-> polling[p].fd, up |-> polling[p].up]]
      /\ UNCHANGED <<sock, orphans, late, pending, connecting, stop, todo, closed, owed,
                     twice, lost, serving, sockfd, accepts, told, discarded>>
  <2>1. C!Goes(p, "unplugged")
        BY DEF C!Unplug
  <2>2. polling' = [polling EXCEPT ![p] =
                      [at |-> "unplugged", fd |-> polling[p].fd, up |-> polling[p].up]]
        BY <1>t, <2>1, GoesTo
  <2> QED
      BY <2>2
         DEF C!Unplug, server, C!Running, Running, C!EpollRemove, C!connector, C!Fd,
             C!Handles, At
<1>s. Sound
      BY <1>1 DEF IInv
<1>2. TypeOK'
      BY <1>1, <1>t, <1>s DEF TypeOK, Sound, At, EventSound
<1>3. OnlyLateEventHarms'
      BY <1>1, <1>t, <1>s DEF OnlyLateEventHarms, TypeOK, Sound, StopSound, EventSound
<1>4. ASSUME Running' PROVE Sound'
  <2>f. PICK f \in Fds : f = polling[p].fd
        BY <1>1, <1>t, <1>s DEF Sound, EventSound, At, TypeOK
  <2>r. /\ registered[f] = "connector" /\ p \notin late
        /\ path[f] = p /\ Resolved(p, f) /\ f \in Live /\ f # connecting
        BY <1>1, <1>s, <1>4, <2>f DEF Sound, EventSound, SocketSound, StopSound, Running
  <2>h. \A q \in Pollers : ~Holds(q, f)
        BY <2>r, <1>s DEF Sound, EventSound, Holds
  <2>p. /\ registered' = [registered EXCEPT ![f] = None]
        /\ path' = [path EXCEPT ![f] = None]
        /\ polling'[p] = [at |-> "unplugged", fd |-> f, up |-> polling[p].up]
        /\ \A q \in Pollers \ {p} : polling'[q] = polling[q]
        /\ UNCHANGED <<sock, orphans, late, pending, connecting, stop, todo, closed, owed,
                       twice, lost, serving, sockfd, accepts, told, discarded>>
        BY <1>1, <1>t, <2>f DEF TypeOK
  <2>a. \A h \in Fds : Answers(h)' <=> Answers(h)
        BY <1>1 DEF Answers, At
  <2>1. StopSound'
        BY <2>p, <1>s DEF Sound, StopSound
  <2>2. \A h \in Fds : SocketSound(h)'
        BY <2>p, <2>r, <2>a, <1>s DEF Sound, SocketSound, InConnector, Live
  <2>3. \A q \in Pollers : EventSound(q)'
    <3>1. EventSound(p)'
          BY <2>p, <2>r, <1>t DEF TypeOK, EventSound, At, Resolved, Live
    <3>2. ASSUME NEW q \in Pollers \ {p} PROVE EventSound(q)'
      <4>1. polling[q].fd = f => At(q, "away") \/ At(q, "server")
                                 \/ (At(q, "connector") /\ q \in late)
            BY <2>r, <1>s, <1>t DEF Sound, EventSound, TypeOK, At
      <4>2. CASE polling[q].fd = f
            BY <4>2, <2>p, <2>r, <1>s DEF Sound, EventSound, At
      <4>3. CASE polling[q].fd # f
            BY <4>3, <2>p, <1>s DEF Sound, EventSound, At, Resolved, Live
      <4> QED
          BY <4>2, <4>3
    <3> QED
        BY <3>1, <3>2
  <2>4. OneHolder'
        BY <2>p, <2>h, <1>s DEF Sound, OneHolder, Holds, At
  <2> QED
      BY <2>1, <2>2, <2>3, <2>4 DEF Sound
<1> QED
    BY <1>2, <1>3, <1>4 DEF IInv

\* It then takes the descriptor out of pendingConnects_, under the lock.
LEMMA DropIInv ==
    ASSUME IInv, NEW p \in Pollers, C!Drop(p), UNCHANGED server
    PROVE  IInv'
<1> USE NoneAssumption
<1>t. TypeOK
      BY DEF IInv
<1>1. /\ Running /\ At(p, "unplugged") /\ stop # "loop"
      /\ aborted' = (polling[p].fd \notin pending)
      /\ pending' = pending \ {polling[p].fd}
      /\ polling' = [polling EXCEPT ![p] =
                       [at |-> "dropped", fd |-> polling[p].fd, up |-> polling[p].up]]
      /\ UNCHANGED <<sock, orphans, registered, path, late, spoiled, connecting, stop,
                     todo, closed, owed, twice, lost, serving, sockfd, accepts, told,
                     discarded>>
  <2>1. C!Goes(p, "dropped")
        BY DEF C!Drop
  <2>2. polling' = [polling EXCEPT ![p] =
                      [at |-> "dropped", fd |-> polling[p].fd, up |-> polling[p].up]]
        BY <1>t, <2>1, GoesTo
  <2> QED
      BY <2>2 DEF C!Drop, server, C!Running, Running, C!Fd, C!Handles,
             C!Locked, At
<1>s. Sound
      BY <1>1 DEF IInv
<1>2. TypeOK'
      BY <1>1, <1>t DEF TypeOK
<1>3. OnlyLateEventHarms'
      BY <1>1, <1>t, <1>s
         DEF OnlyLateEventHarms, TypeOK, Sound, StopSound, EventSound, Live, Running
<1>4. ASSUME Running' PROVE Sound'
  <2>1. StopSound'
        BY <1>1, <1>s DEF Sound, StopSound, EventSound
  <2>2. \A h \in Fds : SocketSound(h)'
        BY <1>1, <1>t, <1>s
           DEF TypeOK, Sound, StopSound, SocketSound, EventSound, At, Live, InConnector,
               Answers
  <2>3. \A q \in Pollers : EventSound(q)'
        BY <1>1, <1>t, <1>s
           DEF TypeOK, Sound, EventSound, OneHolder, Holds, At, Live, Resolved
  <2>4. OneHolder'
        BY <1>1, <1>s DEF Sound, OneHolder, Holds, At
  <2> QED
      BY <2>1, <2>2, <2>3, <2>4 DEF Sound
<1> QED
    BY <1>2, <1>3, <1>4 DEF IInv

\* It calls the client back, with a channel if the connection is up ...
LEMMA NotifyUpIInv ==
    ASSUME IInv, NEW p \in Pollers, C!Notify(p), polling[p].up, UNCHANGED server
    PROVE  IInv'
<1> USE NoneAssumption
<1>t. TypeOK
      BY DEF IInv
<1>1. /\ Running /\ At(p, "dropped")
      /\ registered' = [registered EXCEPT ![polling[p].fd] = "channel"]
      /\ path' = [path EXCEPT ![polling[p].fd] = None]
      /\ aborted' = (registered[polling[p].fd] # None)
      /\ owed' = owed \ {polling[p].fd} /\ twice' = (twice \/ polling[p].fd \notin owed)
      /\ polling' = [polling EXCEPT ![p] = Away] /\ late' = late \ {p}
      /\ UNCHANGED <<sock, orphans, spoiled, pending, connecting, stop, todo, closed,
                     lost, serving, sockfd, accepts, told, discarded>>
      BY DEF C!Notify, server, C!Running, Running, C!EpollAdd, C!Fd, C!Handles, C!Returns,
             C!Answer, C!Away, Away, At
<1>s. Sound
      BY <1>1 DEF IInv
<1>2. TypeOK'
      BY <1>1, <1>t, <1>s DEF TypeOK, Sound, At, EventSound, Away
<1>3. OnlyLateEventHarms'
      BY <1>1, <1>t, <1>s DEF OnlyLateEventHarms, TypeOK, Sound, EventSound, Running
<1>4. ASSUME Running' PROVE Sound'
  <2>1. StopSound'
        BY <1>1, <1>t, <1>s
           DEF TypeOK, Sound, StopSound, SocketSound, EventSound, At, Answers
  <2>2. \A h \in Fds : SocketSound(h)'
        BY <1>1, <1>t, <1>s
           DEF TypeOK, Sound, StopSound, SocketSound, EventSound, OneHolder, Holds, At,
               Live, InConnector, Answers, Away
  <2>3. \A q \in Pollers : EventSound(q)'
        BY <1>1, <1>t, <1>s
           DEF TypeOK, Sound, EventSound, OneHolder, Holds, At, Live, Resolved, Away
  <2>4. OneHolder'
        BY <1>1, <1>s DEF Sound, OneHolder, Holds, At, Away
  <2> QED
      BY <2>1, <2>2, <2>3, <2>4 DEF Sound
<1> QED
    BY <1>2, <1>3, <1>4 DEF IInv

\* ... and with an error if it is not: the socket is left open and lost.
LEMMA NotifyDownIInv ==
    ASSUME IInv, NEW p \in Pollers, C!Notify(p), ~polling[p].up, UNCHANGED server
    PROVE  IInv'
<1> USE NoneAssumption
<1>t. TypeOK
      BY DEF IInv
<1>1. /\ Running /\ At(p, "dropped")
      /\ lost' = lost \cup {polling[p].fd}
      /\ owed' = owed \ {polling[p].fd} /\ twice' = (twice \/ polling[p].fd \notin owed)
      /\ polling' = [polling EXCEPT ![p] = Away] /\ late' = late \ {p}
      /\ UNCHANGED <<sock, orphans, registered, path, aborted, spoiled, pending,
                     connecting, stop, todo, closed, serving, sockfd, accepts, told,
                     discarded>>
      BY DEF C!Notify, server, C!Running, Running, C!Fd, C!Handles, C!Returns, C!Answer,
             C!Away, Away, At
<1>s. Sound
      BY <1>1 DEF IInv
<1>2. TypeOK'
      BY <1>1, <1>t, <1>s DEF TypeOK, Sound, At, EventSound, Away
<1>3. OnlyLateEventHarms'
      BY <1>1 DEF OnlyLateEventHarms, Running
<1>4. ASSUME Running' PROVE Sound'
  <2>1. StopSound'
        BY <1>1, <1>t, <1>s
           DEF TypeOK, Sound, StopSound, SocketSound, EventSound, At, Answers
  <2>2. \A h \in Fds : SocketSound(h)'
        BY <1>1, <1>t, <1>s
           DEF TypeOK, Sound, StopSound, SocketSound, EventSound, OneHolder, Holds, At,
               Live, InConnector, Answers, Resolved, Away
  <2>3. \A q \in Pollers : EventSound(q)'
        BY <1>1, <1>s DEF Sound, EventSound, At, Live, Resolved, Away
  <2>4. OneHolder'
        BY <1>1, <1>s DEF Sound, OneHolder, Holds, At, Away
  <2> QED
      BY <2>1, <2>2, <2>3, <2>4 DEF Sound
<1> QED
    BY <1>2, <1>3, <1>4 DEF IInv

\* Stop takes the lock and starts its loop over pendingConnects_.
LEMMA ConnectorStopIInv ==
    ASSUME IInv, C!Stop, UNCHANGED server
    PROVE  IInv'
<1> USE NoneAssumption
<1>t. TypeOK
      BY DEF IInv
<1>1. /\ Running /\ stop = "no" /\ connecting = None
      /\ stop' = "loop" /\ todo' = pending
      /\ UNCHANGED <<sock, orphans, registered, path, polling, late, aborted, spoiled,
                     pending, connecting, closed, owed, twice, lost, serving, sockfd,
                     accepts, told, discarded>>
      BY DEF C!Stop, C!shared, server, C!Running, Running
<1>s. Sound
      BY <1>1 DEF IInv
<1>2. TypeOK'
      BY <1>1, <1>t DEF TypeOK
<1>3. OnlyLateEventHarms'
      BY <1>1 DEF OnlyLateEventHarms
<1>4. ASSUME Running' PROVE Sound'
  <2>1. StopSound'
        BY <1>1, <1>s DEF Sound, StopSound
  <2>2. \A h \in Fds : SocketSound(h)'
        BY <1>1, <1>s DEF Sound, SocketSound, At, Live, InConnector, Answers
  <2>3. \A q \in Pollers : EventSound(q)'
        BY <1>1, <1>s DEF Sound, EventSound, At, Live, Resolved
  <2>4. OneHolder'
        BY <1>1, <1>s DEF Sound, OneHolder, Holds, At
  <2> QED
      BY <2>1, <2>2, <2>3, <2>4 DEF Sound
<1> QED
    BY <1>2, <1>3, <1>4 DEF IInv

\* The loop removes the record of one descriptor and closes it, whatever a polling
\* thread may have in hand: from here on such an event is late.
LEMMA StopOneIInv ==
    ASSUME IInv, NEW f \in Fds, C!StopOne(f), UNCHANGED server
    PROVE  IInv'
<1> USE NoneAssumption
<1>t. TypeOK
      BY DEF IInv
<1>1. /\ Running /\ stop = "loop" /\ closed = None /\ f \in todo
      /\ registered' = [registered EXCEPT ![f] = None]
      /\ path' = [path EXCEPT ![f] = None]
      /\ aborted' = (registered[f] = None)
      /\ spoiled' = (registered[f] \notin {None, "connector"})
      /\ sock[f] # "listening" => sock' = [sock EXCEPT ![f] = "none"]
      /\ sock' \in [Fds -> Sockets] /\ orphans' \in Nat
      /\ todo' = todo \ {f} /\ closed' = f
      /\ late' = late \cup {q \in Pollers : polling[q].fd = f}
      /\ UNCHANGED <<polling, pending, connecting, stop, owed, twice, lost, serving,
                     sockfd, accepts, told, discarded>>
      BY <1>t
         DEF C!StopOne, server, C!Running, Running, C!EpollRemove, C!CloseSocket,
             C!InHand, TypeOK, Sockets
<1>s. Sound
      BY <1>1 DEF IInv
<1>2. TypeOK'
      BY <1>1, <1>t DEF TypeOK
<1>3. OnlyLateEventHarms'
      BY <1>1 DEF OnlyLateEventHarms
<1>4. ASSUME Running' PROVE Sound'
  <2>r. /\ registered[f] = "connector" /\ f \in Live /\ sock[f] # "listening"
        /\ sock' = [sock EXCEPT ![f] = "none"]
        BY <1>1, <1>s, <1>t, <1>4 DEF Sound, SocketSound, TypeOK, Running, Live
  <2>1. StopSound'
        BY <1>1, <1>s DEF Sound, StopSound
  <2>a. \A h \in Fds : Answers(h)' <=> Answers(h)
        BY <1>1 DEF Answers, At
  <2>n. ~Answers(f)
        BY <2>r, <1>s DEF Sound, EventSound, Answers
  <2>2. ASSUME NEW h \in Fds PROVE SocketSound(h)'
    <3>1. CASE h = f
          BY <1>1, <2>a, <2>n, <1>s, <1>t
             DEF TypeOK, Sound, SocketSound, InConnector, Live, Connections
    <3>2. CASE h # f
          BY <3>2, <1>1, <2>a, <1>s DEF Sound, SocketSound, InConnector, Live
    <3> QED
        BY <3>1, <3>2
  <2>3. ASSUME NEW q \in Pollers PROVE EventSound(q)'
    <3>1. CASE polling[q].fd = f
      <4>1. At(q, "server") \/ At(q, "connector")
            BY <3>1, <2>r, <1>s, <1>t DEF Sound, EventSound, TypeOK, At
      <4> QED
          BY <3>1, <4>1, <1>1, <1>s, <1>t DEF Sound, EventSound, TypeOK, At
    <3>2. CASE polling[q].fd # f
          BY <1>1, <2>r, <1>s, <1>t DEF Sound, EventSound, TypeOK, At, Resolved, Live
    <3> QED
        BY <3>1, <3>2
  <2>4. OneHolder'
        BY <1>1, <1>s DEF Sound, OneHolder, Holds, At
  <2> QED
      BY <2>1, <2>2, <2>3, <2>4 DEF Sound
<1> QED
    BY <1>2, <1>3, <1>4 DEF IInv

\* It shuts down the number it has just closed, whoever has it now.
LEMMA ShutdownSocketIInv ==
    ASSUME IInv, C!ShutdownSocket, UNCHANGED server
    PROVE  IInv'
<1> USE NoneAssumption
<1>t. TypeOK
      BY DEF IInv
<1>1. /\ Running /\ closed # None
      /\ spoiled' \in BOOLEAN /\ closed' = None
      /\ UNCHANGED <<sock, orphans, registered, path, polling, late, aborted, pending,
                     connecting, stop, todo, owed, twice, lost, serving, sockfd, accepts,
                     told, discarded>>
      BY DEF C!ShutdownSocket, server, C!Running, Running, C!Open
<1>s. Sound
      BY <1>1 DEF IInv
<1>2. TypeOK'
      BY <1>1, <1>t DEF TypeOK
<1>3. OnlyLateEventHarms'
      BY <1>1, <1>s DEF OnlyLateEventHarms, Sound, StopSound
<1>4. ASSUME Running' PROVE Sound'
  <2>1. StopSound'
        BY <1>1, <1>s DEF Sound, StopSound
  <2>2. \A h \in Fds : SocketSound(h)'
        BY <1>1, <1>s DEF Sound, SocketSound, At, Live, InConnector, Answers
  <2>3. \A q \in Pollers : EventSound(q)'
        BY <1>1, <1>s DEF Sound, EventSound, At, Live, Resolved
  <2>4. OneHolder'
        BY <1>1, <1>s DEF Sound, OneHolder, Holds, At
  <2> QED
      BY <2>1, <2>2, <2>3, <2>4 DEF Sound
<1> QED
    BY <1>2, <1>3, <1>4 DEF IInv

\* The barrier is scheduled when the loop is through.
LEMMA ScheduleBarrierIInv ==
    ASSUME IInv, C!ScheduleBarrier, UNCHANGED server
    PROVE  IInv'
<1> USE NoneAssumption
<1>t. TypeOK
      BY DEF IInv
<1>1. /\ Running /\ stop = "loop" /\ todo = {} /\ closed = None
      /\ stop' = "scheduled"
      /\ UNCHANGED <<sock, orphans, registered, path, polling, late, aborted, spoiled,
                     pending, connecting, todo, closed, owed, twice, lost, serving,
                     sockfd, accepts, told, discarded>>
      BY DEF C!ScheduleBarrier, C!shared, server, C!Running, Running
<1>s. Sound
      BY <1>1 DEF IInv
<1>2. TypeOK'
      BY <1>1, <1>t DEF TypeOK
<1>3. OnlyLateEventHarms'
      BY <1>1 DEF OnlyLateEventHarms, Running
<1>4. ASSUME Running' PROVE Sound'
  <2>1. StopSound'
        BY <1>1, <1>s DEF Sound, StopSound
  <2>2. \A h \in Fds : SocketSound(h)'
        BY <1>1, <1>s DEF Sound, SocketSound, At, Live, InConnector, Answers
  <2>3. \A q \in Pollers : EventSound(q)'
        BY <1>1, <1>s DEF Sound, EventSound, At, Live, Resolved
  <2>4. OneHolder'
        BY <1>1, <1>s DEF Sound, OneHolder, Holds, At
  <2> QED
      BY <2>1, <2>2, <2>3, <2>4 DEF Sound
<1> QED
    BY <1>2, <1>3, <1>4 DEF IInv

\* BarrierDone answers what is left of pendingConnects_.
LEMMA ConnectorDoneIInv ==
    ASSUME IInv, C!BarrierDone, UNCHANGED server
    PROVE  IInv'
<1> USE NoneAssumption
<1>t. TypeOK
      BY DEF IInv
<1>1. /\ Running /\ stop = "scheduled"
      /\ stop' = "done" /\ pending' = {}
      /\ owed' = owed \ pending /\ twice' = (twice \/ ~ pending \subseteq owed)
      /\ UNCHANGED <<sock, orphans, registered, path, polling, late, aborted, spoiled,
                     connecting, todo, closed, lost, serving, sockfd, accepts, told,
                     discarded>>
      BY DEF C!BarrierDone, C!shared, server, C!Running, Running, C!Answer
<1>s. Sound
      BY <1>1 DEF IInv
<1>2. TypeOK'
      BY <1>1, <1>t DEF TypeOK
<1>3. OnlyLateEventHarms'
      BY <1>1 DEF OnlyLateEventHarms, Running
<1>4. ASSUME Running' PROVE Sound'
  <2>1. StopSound'
        BY <1>1, <1>t, <1>s DEF TypeOK, Sound, StopSound, SocketSound
  <2>2. \A h \in Fds : SocketSound(h)'
        BY <1>1, <1>s DEF Sound, SocketSound, EventSound, At, Live, InConnector, Answers
  <2>3. \A q \in Pollers : EventSound(q)'
        BY <1>1, <1>s DEF Sound, EventSound, At, Live, Resolved
  <2>4. OneHolder'
        BY <1>1, <1>s DEF Sound, OneHolder, Holds, At
  <2> QED
      BY <2>1, <2>2, <2>3, <2>4 DEF Sound
<1> QED
    BY <1>2, <1>3, <1>4 DEF IInv

-----------------------------------------------------------------------------
(* The steps of the server.                                                   *)
\* TCPServer::Accept opens a listening socket and registers it.
LEMMA AcceptIInv ==
    ASSUME IInv, NEW f \in Fds, S!Accept(f), UNCHANGED connector
    PROVE  IInv'
<1> USE NoneAssumption
<1>t. TypeOK
      BY DEF IInv
<1>1. /\ Running /\ serving # "listening" /\ sock[f] = "none"
      /\ accepts' \in Nat /\ sockfd' = f /\ serving' = "listening"
      /\ sock' = [sock EXCEPT ![f] = "listening"]
      /\ registered' = [registered EXCEPT ![f] = "server"]
      /\ path' \in [Fds -> Pollers \cup {None}]
      /\ \A g \in Fds \ {f} : path'[g] = path[g]
      /\ aborted' = (registered[f] # None)
      /\ UNCHANGED <<orphans, polling, late, spoiled, pending, connecting, stop, todo,
                     closed, owed, twice, lost, told, discarded>>
      BY <1>t
         DEF S!Accept, connector, S!Running, Running, S!EpollAdd, S!CallAccept, TypeOK
<1>s. Sound
      BY <1>1 DEF IInv
<1>2. TypeOK'
      BY <1>1, <1>t DEF TypeOK, Sockets
<1>3. OnlyLateEventHarms'
      BY <1>1, <1>t, <1>s
         DEF OnlyLateEventHarms, TypeOK, Sound, SocketSound, InConnector, Connections,
             Running
<1>4. ASSUME Running' PROVE Sound'
  <2>1. StopSound'
        BY <1>1, <1>s DEF Sound, StopSound, SocketSound, Live, InConnector, Connections
  <2>2. \A h \in Fds : SocketSound(h)'
        BY <1>1, <1>t, <1>s
           DEF TypeOK, Sound, SocketSound, At, Live, InConnector, Answers, Connections
  <2>3. \A q \in Pollers : EventSound(q)'
        BY <1>1, <1>t, <1>s
           DEF TypeOK, Sound, SocketSound, EventSound, At, Live, InConnector, Answers,
               Connections, Resolved
  <2>4. OneHolder'
        BY <1>1, <1>s DEF Sound, OneHolder, Holds, At
  <2> QED
      BY <2>1, <2>2, <2>3, <2>4 DEF Sound
<1> QED
    BY <1>2, <1>3, <1>4 DEF IInv

\* Accept fails after it has opened the socket, and leaves it open.
LEMMA AcceptFailsIInv ==
    ASSUME IInv, NEW f \in Fds, S!AcceptFails(f), UNCHANGED connector
    PROVE  IInv'
<1> USE NoneAssumption
<1>t. TypeOK
      BY DEF IInv
<1>1. /\ Running /\ serving # "listening" /\ sock[f] = "none"
      /\ accepts' \in Nat /\ sockfd' = f
      /\ sock' = [sock EXCEPT ![f] = "discarded"]
      /\ discarded' = discarded \cup {f}
      /\ UNCHANGED <<orphans, registered, path, polling, late, aborted, spoiled, pending,
                     connecting, stop, todo, closed, owed, twice, lost, serving, told>>
      BY <1>t DEF S!AcceptFails, connector, S!Running, Running, S!CallAccept, TypeOK
<1>s. Sound
      BY <1>1 DEF IInv
<1>2. TypeOK'
      BY <1>1, <1>t DEF TypeOK, Sockets
<1>3. OnlyLateEventHarms'
      BY <1>1 DEF OnlyLateEventHarms, Running
<1>4. ASSUME Running' PROVE Sound'
  <2>1. StopSound'
        BY <1>1, <1>s DEF Sound, StopSound
  <2>2. \A h \in Fds : SocketSound(h)'
        BY <1>1, <1>t, <1>s
           DEF TypeOK, Sound, SocketSound, At, Live, InConnector, Answers, Connections
  <2>3. \A q \in Pollers : EventSound(q)'
        BY <1>1, <1>s DEF Sound, EventSound, At, Live, Resolved
  <2>4. OneHolder'
        BY <1>1, <1>s DEF Sound, OneHolder, Holds, At
  <2> QED
      BY <2>1, <2>2, <2>3, <2>4 DEF Sound
<1> QED
    BY <1>2, <1>3, <1>4 DEF IInv

\* HandleFdEvent is called with a descriptor that is not sockfd_: an INVARIANT fails.
LEMMA HandleStaleIInv ==
    ASSUME IInv, NEW p \in Pollers, S!HandleStale(p), UNCHANGED connector
    PROVE  IInv'
<1> USE NoneAssumption
<1>t. TypeOK
      BY DEF IInv
<1>1. /\ Running /\ At(p, "server") /\ polling[p].fd # sockfd
      /\ aborted' = TRUE
      /\ UNCHANGED <<sock, orphans, registered, path, polling, late, spoiled, pending,
                     connecting, stop, todo, closed, owed, twice, lost, serving, sockfd,
                     accepts, told, discarded>>
      BY DEF S!HandleStale, S!server, connector, S!Running, Running, S!Handles, S!Stale,
             At
<1>s. Sound
      BY <1>1 DEF IInv
<1>2. TypeOK'
      BY <1>1, <1>t DEF TypeOK
<1>3. OnlyLateEventHarms'
      BY <1>1, <1>t, <1>s
         DEF OnlyLateEventHarms, TypeOK, Sound, SocketSound, EventSound, At
<1>4. ASSUME Running' PROVE Sound'
  <2>1. StopSound'
        BY <1>1, <1>s DEF Sound, StopSound
  <2>2. \A h \in Fds : SocketSound(h)'
        BY <1>1, <1>s DEF Sound, SocketSound, At, Live, InConnector, Answers
  <2>3. \A q \in Pollers : EventSound(q)'
        BY <1>1, <1>4 DEF Running
  <2>4. OneHolder'
        BY <1>1, <1>s DEF Sound, OneHolder, Holds, At
  <2> QED
      BY <2>1, <2>2, <2>3, <2>4 DEF Sound
<1> QED
    BY <1>2, <1>3, <1>4 DEF IInv

\* HandleFdEvent accepts one connection and makes a channel of it.
LEMMA HandleAcceptedIInv ==
    ASSUME IInv, NEW p \in Pollers, NEW g \in Fds, S!HandleAccepted(p, g),
           UNCHANGED connector
    PROVE  IInv'
<1> USE NoneAssumption
<1>t. TypeOK
      BY DEF IInv
<1>1. /\ Running /\ At(p, "server") /\ polling[p].fd = sockfd /\ sock[g] = "none"
      /\ sock[sockfd] = "listening"
      /\ sock' \in [Fds -> Sockets] /\ sock'[g] = "up"
      /\ \A h \in Fds \ {g} : \/ sock'[h] = sock[h]
                              \/ sock[h] = "queued" /\ sock'[h] = "up"
      /\ orphans' \in Nat
      /\ registered' = [registered EXCEPT ![g] = "channel"]
      /\ path' = [path EXCEPT ![g] = None]
      /\ aborted' = (registered[g] # None) /\ told' = told \cup {g}
      /\ polling' = [polling EXCEPT ![p] = Away] /\ late' = late \ {p}
      /\ UNCHANGED <<spoiled, pending, connecting, stop, todo, closed, owed, twice, lost,
                     serving, sockfd, accepts, discarded>>
  <2> DEFINE Accepted ==
        /\ sock' \in [Fds -> Sockets] /\ sock'[g] = "up" /\ orphans' \in Nat
        /\ \A h \in Fds \ {g} : \/ sock'[h] = sock[h]
                                \/ sock[h] = "queued" /\ sock'[h] = "up"
  <2>1. Accepted
    <3>1. /\ sock[g] = "none" /\ "up" \in Sockets
          /\ sock \in [Fds -> Sockets] /\ orphans \in Nat
          BY <1>t DEF S!HandleAccepted, Sockets, TypeOK
    <3>2. ASSUME NEW f \in Fds, sock[f] = "queued", orphans' = orphans,
                 sock' = [sock EXCEPT ![f] = "up", ![g] = "up"]
          PROVE  Accepted
          BY <3>1, <3>2
    <3>3. ASSUME orphans > 0, orphans' = orphans - 1,
                 sock' = [sock EXCEPT ![g] = "up"]
          PROVE  Accepted
          BY <3>1, <3>3
    <3> QED
        BY <3>2, <3>3 DEF S!HandleAccepted, S!Queued
  <2>2. /\ Running /\ At(p, "server") /\ polling[p].fd = sockfd /\ sock[g] = "none"
        /\ sock[sockfd] = "listening"
        BY DEF S!HandleAccepted, S!Handles, S!Stale, S!CanAccept, S!Running, Running, At
  <2>3. /\ registered' = [registered EXCEPT ![g] = "channel"]
        /\ path' = [path EXCEPT ![g] = None]
        /\ aborted' = (registered[g] # None) /\ told' = told \cup {g}
        /\ polling' = [polling EXCEPT ![p] = Away] /\ late' = late \ {p}
        /\ UNCHANGED <<spoiled, pending, connecting, stop, todo, closed, owed, twice,
                       lost, serving, sockfd, accepts, discarded>>
        BY DEF S!HandleAccepted, S!EpollAdd, S!Returns, S!Away, Away, connector
  <2> QED
      BY <2>1, <2>2, <2>3
<1>s. Sound
      BY <1>1 DEF IInv
<1>2. TypeOK'
      BY <1>1, <1>t DEF TypeOK, Away
<1>3. OnlyLateEventHarms'
      BY <1>1, <1>t, <1>s
         DEF OnlyLateEventHarms, TypeOK, Sound, SocketSound, InConnector, Connections,
             Running
<1>4. ASSUME Running' PROVE Sound'
  <2>1. StopSound'
        BY <1>1, <1>s DEF Sound, StopSound, SocketSound, Live, InConnector, Connections
  <2>2. \A h \in Fds : SocketSound(h)'
        BY <1>1, <1>t, <1>s
           DEF TypeOK, Sound, SocketSound, At, Live, InConnector, Answers, Connections,
               Away
  <2>3. \A q \in Pollers : EventSound(q)'
        BY <1>1, <1>t, <1>s
           DEF TypeOK, Sound, SocketSound, EventSound, At, Live, InConnector, Answers,
               Connections, Resolved, Away
  <2>4. OneHolder'
        BY <1>1, <1>s DEF Sound, OneHolder, Holds, At, Away
  <2> QED
      BY <2>1, <2>2, <2>3, <2>4 DEF Sound
<1> QED
    BY <1>2, <1>3, <1>4 DEF IInv

\* accept4 fails, and nothing else happens.
LEMMA HandleErrorIInv ==
    ASSUME IInv, NEW p \in Pollers, S!HandleError(p), UNCHANGED connector
    PROVE  IInv'
<1> USE NoneAssumption
<1>t. TypeOK
      BY DEF IInv
<1>1. /\ Running /\ At(p, "server")
      /\ polling' = [polling EXCEPT ![p] = Away] /\ late' = late \ {p}
      /\ UNCHANGED <<sock, orphans, registered, path, aborted, spoiled, pending,
                     connecting, stop, todo, closed, owed, twice, lost, serving, sockfd,
                     accepts, told, discarded>>
      BY DEF S!HandleError, S!server, connector, S!Running, Running, S!Handles, S!Returns,
             S!Away, Away, At
<1>s. Sound
      BY <1>1 DEF IInv
<1>2. TypeOK'
      BY <1>1, <1>t DEF TypeOK, Away
<1>3. OnlyLateEventHarms'
      BY <1>1 DEF OnlyLateEventHarms, Running
<1>4. ASSUME Running' PROVE Sound'
  <2>1. StopSound'
        BY <1>1, <1>s DEF Sound, StopSound
  <2>2. \A h \in Fds : SocketSound(h)'
        BY <1>1, <1>s DEF Sound, SocketSound, At, Live, InConnector, Answers, Away
  <2>3. \A q \in Pollers : EventSound(q)'
        BY <1>1, <1>t, <1>s DEF TypeOK, Sound, EventSound, At, Live, Resolved, Away
  <2>4. OneHolder'
        BY <1>1, <1>s DEF Sound, OneHolder, Holds, At, Away
  <2> QED
      BY <2>1, <2>2, <2>3, <2>4 DEF Sound
<1> QED
    BY <1>2, <1>3, <1>4 DEF IInv

\* The client is told of a channel.
LEMMA TellIInv ==
    ASSUME IInv, NEW g \in Fds, S!Tell(g), UNCHANGED connector
    PROVE  IInv'
<1> USE NoneAssumption
<1>t. TypeOK
      BY DEF IInv
<1>1. /\ Running
      /\ told' = told \ {g}
      /\ UNCHANGED <<sock, orphans, registered, path, polling, late, aborted, spoiled,
                     pending, connecting, stop, todo, closed, owed, twice, lost, serving,
                     sockfd, accepts, discarded>>
      BY DEF S!Tell, S!shared, connector, S!Running, Running
<1>s. Sound
      BY <1>1 DEF IInv
<1>2. TypeOK'
      BY <1>1, <1>t DEF TypeOK
<1>3. OnlyLateEventHarms'
      BY <1>1 DEF OnlyLateEventHarms, Running
<1>4. ASSUME Running' PROVE Sound'
  <2>1. StopSound'
        BY <1>1, <1>s DEF Sound, StopSound
  <2>2. \A h \in Fds : SocketSound(h)'
        BY <1>1, <1>s DEF Sound, SocketSound, At, Live, InConnector, Answers
  <2>3. \A q \in Pollers : EventSound(q)'
        BY <1>1, <1>s DEF Sound, EventSound, At, Live, Resolved
  <2>4. OneHolder'
        BY <1>1, <1>s DEF Sound, OneHolder, Holds, At
  <2> QED
      BY <2>1, <2>2, <2>3, <2>4 DEF Sound
<1> QED
    BY <1>2, <1>3, <1>4 DEF IInv

\* Stop removes the record of the listening socket and closes it; the connections
\* that wait in it are reset.
LEMMA ServerStopIInv ==
    ASSUME IInv, S!Stop, UNCHANGED connector
    PROVE  IInv'
<1> USE NoneAssumption
<1>t. TypeOK
      BY DEF IInv
<1>s. Sound
      BY DEF IInv, S!Stop, S!Running, Running
<1>1. /\ Running /\ serving = "listening" /\ sockfd \in Fds /\ registered[sockfd] = "server"
      /\ registered' = [registered EXCEPT ![sockfd] = None]
      /\ path' = [path EXCEPT ![sockfd] = None]
      /\ aborted' = FALSE /\ spoiled' = FALSE
      /\ sock' = [g \in Fds |-> IF g = sockfd THEN "none"
                       ELSE IF sock[g] = "queued" THEN "down" ELSE sock[g]]
      /\ orphans' = 0
      /\ late' = late \cup {q \in Pollers : polling[q].fd = sockfd}
      /\ serving' = "stopping"
      /\ UNCHANGED <<polling, pending, connecting, stop, todo, closed, owed, twice, lost,
                     sockfd, accepts, told, discarded>>
  <2>1. serving = "listening" /\ sockfd \in Fds
        BY <1>s DEF S!Stop, Sound, StopSound
  <2>2. /\ registered[sockfd] = "server" /\ sock[sockfd] = "listening"
        BY <1>s, <2>1 DEF Sound, SocketSound
  <2>3. /\ orphans' = 0
        /\ sock' = [g \in Fds |-> IF g = sockfd THEN "none"
                               ELSE IF sock[g] = "queued" THEN "down" ELSE sock[g]]
        BY <2>2 DEF S!Stop, S!CloseSocket, S!Queued
  <2>4. late' = late \cup {q \in Pollers : polling[q].fd = sockfd}
        BY DEF S!Stop, S!InHand
  <2> QED
      BY <2>1, <2>2, <2>3, <2>4 DEF S!Stop, S!Running, Running, S!EpollRemove, connector
<1>2. TypeOK'
      BY <1>1, <1>t, <1>s
         DEF TypeOK, Sound, At, StopSound, EventSound, SocketSound, Away, Sockets
<1>3. OnlyLateEventHarms'
      BY <1>1 DEF OnlyLateEventHarms
<1>4. ASSUME Running' PROVE Sound'
  <2>1. StopSound'
        BY <1>1, <1>s DEF Sound, StopSound
  <2>2. \A h \in Fds : SocketSound(h)'
        BY <1>1, <1>t, <1>s
           DEF TypeOK, Sound, SocketSound, At, Live, InConnector, Answers, Connections
  <2>3. \A q \in Pollers : EventSound(q)'
        BY <1>1, <1>t, <1>s DEF TypeOK, Sound, EventSound, At, Live, Resolved
  <2>4. OneHolder'
        BY <1>1, <1>s DEF Sound, OneHolder, Holds, At
  <2> QED
      BY <2>1, <2>2, <2>3, <2>4 DEF Sound
<1> QED
    BY <1>2, <1>3, <1>4 DEF IInv

\* BarrierDone: the server is stopped.
LEMMA ServerDoneIInv ==
    ASSUME IInv, S!BarrierDone, UNCHANGED connector
    PROVE  IInv'
<1> USE NoneAssumption
<1>t. TypeOK
      BY DEF IInv
<1>1. /\ Running /\ serving = "stopping"
      /\ serving' = "stopped"
      /\ UNCHANGED <<sock, orphans, registered, path, polling, late, aborted, spoiled,
                     pending, connecting, stop, todo, closed, owed, twice, lost, sockfd,
                     accepts, told, discarded>>
      BY DEF S!BarrierDone, S!shared, connector, S!Running, Running
<1>s. Sound
      BY <1>1 DEF IInv
<1>2. TypeOK'
      BY <1>1, <1>t DEF TypeOK
<1>3. OnlyLateEventHarms'
      BY <1>1 DEF OnlyLateEventHarms, Running
<1>4. ASSUME Running' PROVE Sound'
  <2>1. StopSound'
        BY <1>1, <1>s DEF Sound, StopSound
  <2>2. \A h \in Fds : SocketSound(h)'
        BY <1>1, <1>s DEF Sound, SocketSound, At, Live, InConnector, Answers
  <2>3. \A q \in Pollers : EventSound(q)'
        BY <1>1, <1>s DEF Sound, EventSound, At, Live, Resolved
  <2>4. OneHolder'
        BY <1>1, <1>s DEF Sound, OneHolder, Holds, At
  <2> QED
      BY <2>1, <2>2, <2>3, <2>4 DEF Sound
<1> QED
    BY <1>2, <1>3, <1>4 DEF IInv

-----------------------------------------------------------------------------
(* The steps of the kernel, of a polling thread that takes an event, and of a *)
(* client who stops a channel.                                                *)
\* The kernel connects a socket, or refuses to.
LEMMA ResolveIInv ==
    ASSUME IInv, NEW f \in Fds, Resolve(f), UNCHANGED <<connector, server>>
    PROVE  IInv'
<1> USE NoneAssumption
<1>t. TypeOK
      BY DEF IInv
<1>1. /\ Running /\ sock[f] = "connecting"
      /\ \E s \in {"up", "down", "queued"} : sock' = [sock EXCEPT ![f] = s]
      /\ UNCHANGED <<orphans, registered, path, polling, late, aborted, spoiled, pending,
                     connecting, stop, todo, closed, owed, twice, lost, serving, sockfd,
                     accepts, told, discarded>>
      BY DEF Resolve, connector, server
<1>s. Sound
      BY <1>1 DEF IInv
<1>2. TypeOK'
      BY <1>1, <1>t DEF TypeOK, Sockets
<1>3. OnlyLateEventHarms'
      BY <1>1 DEF OnlyLateEventHarms, Running
<1>4. ASSUME Running' PROVE Sound'
  <2>1. StopSound'
        BY <1>1, <1>s DEF Sound, StopSound
  <2>2. \A h \in Fds : SocketSound(h)'
        BY <1>1, <1>s DEF Sound, SocketSound, At, Live, InConnector, Answers, Connections
  <2>3. \A q \in Pollers : EventSound(q)'
        BY <1>1, <1>s DEF Sound, EventSound, At, Live, Resolved
  <2>4. OneHolder'
        BY <1>1, <1>s DEF Sound, OneHolder, Holds, At
  <2> QED
      BY <2>1, <2>2, <2>3, <2>4 DEF Sound
<1> QED
    BY <1>2, <1>3, <1>4 DEF IInv

\* epoll_wait reports a descriptor that is ready.
LEMMA ReportIInv ==
    ASSUME IInv, NEW p \in Pollers, NEW f \in Fds, Report(p, f),
           UNCHANGED <<connector, server>>
    PROVE  IInv'
<1> USE NoneAssumption
<1>t. TypeOK
      BY DEF IInv
<1>1. /\ Running /\ At(p, "away") /\ path[f] = p
      /\ \/ registered[f] = "connector" /\ sock[f] \in {"queued", "up", "down"}
         \/ registered[f] = "server" /\ sock[f] = "listening"
      /\ polling' = [polling EXCEPT ![p] =
                         [at |-> registered[f], fd |-> f, up |-> sock[f] # "down"]]
      /\ UNCHANGED <<sock, orphans, registered, path, late, aborted, spoiled, pending,
                     connecting, stop, todo, closed, owed, twice, lost, serving, sockfd,
                     accepts, told, discarded>>
  <2>1. polling' = [polling EXCEPT ![p] =
                        [at |-> registered[f], fd |-> f, up |-> sock[f] # "down"]]
        BY Zenon DEF Report
  <2> QED
      BY DEF Report, Ready, Away, At, connector, server
<1>s. Sound
      BY <1>1 DEF IInv
<1>2. TypeOK'
      BY <1>1, <1>t DEF TypeOK
<1>3. OnlyLateEventHarms'
      BY <1>1 DEF OnlyLateEventHarms, Running
<1>4. ASSUME Running' PROVE Sound'
  <2>r. p \notin late
        BY <1>1, <1>s DEF Sound, EventSound
  <2>p. /\ polling'[p] = [at |-> registered[f], fd |-> f, up |-> sock[f] # "down"]
        /\ \A q \in Pollers \ {p} : polling'[q] = polling[q]
        BY <1>1, <1>t DEF TypeOK
  <2>h. \A q \in Pollers \ {p},
           w \in {"away", "connector", "server", "unplugged", "dropped"} :
           At(q, w)' <=> At(q, w)
        BY <2>p DEF At
  <2>1. StopSound'
        BY <1>1, <1>s DEF Sound, StopSound
  <2>a. \A h \in Fds : Answers(h)' <=> Answers(h)
        BY <1>1 DEF Answers, At
  <2>2. \A h \in Fds : SocketSound(h)'
        BY <1>1, <2>a, <1>s DEF Sound, SocketSound, InConnector, Live
  <2>3. \A q \in Pollers : EventSound(q)'
    <3>1. EventSound(p)'
      <4>1. polling'[p].at = registered[f] /\ polling'[p].fd = f
            BY <2>p
      <4>3. ~polling'[p].up => sock[f] = "down"
        <5>1. polling'[p] = [at |-> registered[f], fd |-> f, up |-> sock[f] # "down"]
              BY <2>p, Zenon
        <5>2. ASSUME NEW event,
                     event = [at |-> registered[f], fd |-> f, up |-> sock[f] # "down"]
              PROVE  ~event.up => sock[f] = "down"
              BY <5>2, Zenon
        <5> QED
            BY <5>1, <5>2, Zenon
      <4>2. sockfd = f \/ registered[f] # "server"
            BY <1>s DEF Sound, SocketSound
      <4> QED
          BY <1>1, <4>1, <4>2, <4>3, <2>r DEF EventSound, At, Resolved
    <3>2. ASSUME NEW q \in Pollers \ {p} PROVE EventSound(q)'
          BY <1>1, <1>s DEF Sound, EventSound, At, Resolved, Live
    <3> QED
        BY <3>1, <3>2
  <2>4. OneHolder'
        BY <1>1, <1>s DEF Sound, OneHolder, Holds, At
  <2> QED
      BY <2>1, <2>2, <2>3, <2>4 DEF Sound
<1> QED
    BY <1>2, <1>3, <1>4 DEF IInv

\* A client stops a channel; module TcpChannel has that in full.
LEMMA ChannelStopsIInv ==
    ASSUME IInv, NEW f \in Fds, ChannelStops(f), UNCHANGED <<connector, server>>
    PROVE  IInv'
<1> USE NoneAssumption
<1>t. TypeOK
      BY DEF IInv
<1>1. /\ Running /\ registered[f] = "channel"
      /\ registered' = [registered EXCEPT ![f] = None]
      /\ sock' \in [Fds -> Sockets] /\ orphans' \in Nat
      /\ sock[f] # "listening" => sock' = [sock EXCEPT ![f] = "none"]
      /\ UNCHANGED <<path, polling, late, aborted, spoiled, pending, connecting, stop,
                     todo, closed, owed, twice, lost, serving, sockfd, accepts, told,
                     discarded>>
      BY <1>t DEF ChannelStops, connector, server, CloseSocket, TypeOK, Sockets
<1>s. Sound
      BY <1>1 DEF IInv
<1>2. TypeOK'
      BY <1>1, <1>t DEF TypeOK
<1>3. OnlyLateEventHarms'
      BY <1>1 DEF OnlyLateEventHarms, Running
<1>4. ASSUME Running' PROVE Sound'
  <2>1. StopSound'
        BY <1>1, <1>s DEF Sound, StopSound
  <2>2. \A h \in Fds : SocketSound(h)'
        BY <1>1, <1>t, <1>s
           DEF TypeOK, Sound, SocketSound, At, Live, InConnector, Answers, Connections
  <2>3. \A q \in Pollers : EventSound(q)'
        BY <1>1, <1>t, <1>s DEF TypeOK, Sound, SocketSound, EventSound, At, Live, Resolved
  <2>4. OneHolder'
        BY <1>1, <1>s DEF Sound, OneHolder, Holds, At
  <2> QED
      BY <2>1, <2>2, <2>3, <2>4 DEF Sound
<1> QED
    BY <1>2, <1>3, <1>4 DEF IInv

-----------------------------------------------------------------------------
\* It holds at the start: no socket, no record, no event.
LEMMA InitIInv == Init => IInv
<1> SUFFICES ASSUME Init PROVE IInv
    OBVIOUS
<1> USE NoneAssumption DEF Init, InitDescriptors, C!Init, S!Init, Away
<1>1. TypeOK
      BY DEF TypeOK, Sockets
<1>2. OnlyLateEventHarms
      BY DEF OnlyLateEventHarms
<1>3. \A f \in Fds : ~Answers(f)
      BY DEF Answers
<1>4. StopSound
      BY DEF StopSound
<1>5. \A f \in Fds : SocketSound(f)
      BY <1>3 DEF SocketSound, InConnector, Live, Connections
<1>6. \A p \in Pollers : EventSound(p)
      BY DEF EventSound, At
<1>7. OneHolder
      BY DEF OneHolder, Holds
<1> QED
    BY <1>1, <1>2, <1>4, <1>5, <1>6, <1>7 DEF IInv, Sound

\* Whatever the connector does, ...
LEMMA ConnectorIInv == IInv /\ C!Next /\ UNCHANGED server => IInv'
<1> SUFFICES ASSUME IInv, C!Next, UNCHANGED server PROVE IInv'
    OBVIOUS
<1>1. ASSUME NEW f \in Fds, C!Connect(f) \/ C!StopOne(f) PROVE IInv'
      BY <1>1, ConnectIInv, StopOneIInv
<1>2. ASSUME NEW p \in Pollers, C!Unplug(p) \/ C!Drop(p) \/ C!Notify(p) PROVE IInv'
      BY <1>2, UnplugIInv, DropIInv, NotifyUpIInv, NotifyDownIInv
<1>3. ASSUME \/ C!Register \/ C!Stop \/ C!ShutdownSocket
             \/ C!ScheduleBarrier \/ C!BarrierDone
      PROVE  IInv'
      BY <1>3, RegisterIInv, ConnectorStopIInv, ShutdownSocketIInv, ScheduleBarrierIInv,
         ConnectorDoneIInv
<1> QED
    BY <1>1, <1>2, <1>3 DEF C!Next

\* ... and whatever the server does keeps it, ...
LEMMA ServerIInv == IInv /\ S!Next /\ UNCHANGED connector => IInv'
<1> SUFFICES ASSUME IInv, S!Next, UNCHANGED connector PROVE IInv'
    OBVIOUS
<1>1. ASSUME NEW f \in Fds, S!Accept(f) \/ S!AcceptFails(f) \/ S!Tell(f) PROVE IInv'
      BY <1>1, AcceptIInv, AcceptFailsIInv, TellIInv
<1>2. ASSUME NEW p \in Pollers, S!HandleStale(p) \/ S!HandleError(p) PROVE IInv'
      BY <1>2, HandleStaleIInv, HandleErrorIInv
<1>3. ASSUME NEW p \in Pollers, NEW g \in Fds, S!HandleAccepted(p, g) PROVE IInv'
      BY <1>3, HandleAcceptedIInv
<1>4. ASSUME S!Stop \/ S!BarrierDone PROVE IInv'
      BY <1>4, ServerStopIInv, ServerDoneIInv
<1> QED
    BY <1>1, <1>2, <1>3, <1>4 DEF S!Next

\* ... and so does every step of the program.
LEMMA NextIInv == IInv /\ [Next]_vars => IInv'
<1> SUFFICES ASSUME IInv, [Next]_vars PROVE IInv'
    OBVIOUS
<1>1. CASE C!Next /\ UNCHANGED server
      BY <1>1, ConnectorIInv
<1>2. CASE S!Next /\ UNCHANGED connector
      BY <1>2, ServerIInv
<1>3. CASE Environment
  <2>1. UNCHANGED <<connector, server>>
        BY <1>3 DEF Environment
  <2> QED
      BY <1>3, ResolveIInv, ChannelStopsIInv, ReportIInv DEF Environment
<1>4. CASE UNCHANGED vars
  <2> USE <1>4 DEF vars, shared, connector, server
  <2>1. TypeOK' /\ OnlyLateEventHarms' /\ (Running' => Running)
        BY DEF IInv, TypeOK, OnlyLateEventHarms, Running
  <2>2. \A f \in Fds : Answers(f)' <=> Answers(f)
        BY DEF Answers, At
  <2>3. StopSound => StopSound'
        BY DEF StopSound
  <2>4. \A f \in Fds : SocketSound(f) => SocketSound(f)'
        BY <2>2 DEF SocketSound, InConnector, Live
  <2>5. \A p \in Pollers : EventSound(p) => EventSound(p)'
        BY DEF EventSound, At, Resolved, Live
  <2>6. OneHolder => OneHolder'
        BY DEF OneHolder, Holds, At
  <2> QED
      BY <2>1, <2>3, <2>4, <2>5, <2>6 DEF IInv, Sound
<1> QED
    BY <1>1, <1>2, <1>3, <1>4 DEF Next

\* So it holds in every state that can be reached.
LEMMA Inductive == Spec => []IInv
<1> QED
    BY InitIInv, NextIInv, PTL DEF Spec

\* Every variable has its type: in particular Connect, Accept, Stop and HandleFdEvent
\* use descriptors only, whatever the order of their steps.
THEOREM TypeCorrect == Spec => []TypeOK
<1>1. IInv => TypeOK
      BY DEF IInv
<1> QED
    BY <1>1, Inductive, PTL

\* No INVARIANT of the connector, the server or MultiPathEpoll fails, and no
\* component removes or shuts down what belongs to another, unless an event was in
\* the hand of a polling thread when Stop removed its record, or the connector is
\* in the loop of its Stop (tcp-linux.cc: HandleFdEvent, Stop).
THEOREM OnlyLateEventHarmsHolds == Spec => []OnlyLateEventHarms
<1>1. IInv => OnlyLateEventHarms
      BY DEF IInv
<1> QED
    BY <1>1, Inductive, PTL

\* The descriptors whose answer is on its way, as the property has them.
LEMMA AnsweringIs ==
    ASSUME TypeOK, Sound
    PROVE  Answering \subseteq Fds /\ \A f \in Fds : f \in Answering <=> Answers(f)
<1>1. \A p \in Pollers : At(p, "dropped") => polling[p].fd \in Fds
      BY DEF Sound, EventSound, At, TypeOK
<1>2. \A f : f \in Answering <=> \E p \in Pollers : At(p, "dropped") /\ polling[p].fd = f
      BY DEF Answering, At
<1> QED
    BY <1>1, <1>2 DEF Answers

\* Every Connect is answered once, by HandleFdEvent or by BarrierDone, and a
\* connector that has been stopped has no entry and no record left.
THEOREM AnsweredOnceHolds == Spec => []AnsweredOnce
<1>1. IInv => AnsweredOnce
  <2> SUFFICES ASSUME IInv, Running PROVE AnsweredOnce
      BY DEF AnsweredOnce
  <2>1. TypeOK /\ Sound
        BY DEF IInv
  <2>2. owed = pending \cup Answering
        BY <2>1, AnsweringIs DEF Sound, SocketSound, TypeOK
  <2>3. stop = "done" => pending = {} /\ \A f \in Fds : registered[f] # "connector"
        BY <2>1 DEF Sound, StopSound, SocketSound, Live
  <2> QED
      BY <2>1, <2>2, <2>3 DEF AnsweredOnce, Sound, StopSound
<1> QED
    BY <1>1, Inductive, PTL

\* Until the connector is stopped, and as long as no event is late, every open
\* descriptor belongs to just one of the connector, the server and the channels, or
\* is lost to a refused connection or a failed Accept; and nobody holds on to one
\* that is closed.
THEOREM DescriptorsAccountedHolds == Spec => []DescriptorsAccounted
<1>1. IInv => DescriptorsAccounted
  <2> SUFFICES ASSUME IInv, Running, stop = "no", NEW f \in Fds
               PROVE  Cardinality(Owners(f)) = IF Open(f) THEN 1 ELSE 0
      BY DEF DescriptorsAccounted
  <2>1. /\ sock[f] \in Sockets /\ SocketSound(f)
        /\ f \in pending \cup Answering <=> InConnector(f)
        BY AnsweringIs DEF IInv, Sound, TypeOK, InConnector, Live
  <2>2. \A x : x \in Owners(f) <=>
                 \/ x = "connector" /\ InConnector(f)
                 \/ x = "server" /\ registered[f] = "server"
                 \/ x = "channel" /\ registered[f] = "channel"
                 \/ x = "nobody" /\ f \in lost \cup discarded
        BY <2>1 DEF Owners, SocketSound
  <2>3. CASE sock[f] = "none"
    <3>1. Owners(f) = {}
          BY <2>1, <2>2, <2>3 DEF SocketSound, Connections
    <3> QED
        BY <3>1, <2>3, FS_EmptySet DEF Open
  <2>4. CASE sock[f] # "none"
    <3>1. \E x : Owners(f) = {x}
      <4>1. CASE sock[f] = "listening"
        <5>1. Owners(f) = {"server"}
              BY <2>1, <2>2, <4>1 DEF SocketSound, Connections
        <5> QED
            BY <5>1
      <4>2. CASE sock[f] = "discarded"
        <5>1. Owners(f) = {"nobody"}
              BY <2>1, <2>2, <4>2 DEF SocketSound, Connections
        <5> QED
            BY <5>1
      <4>3. CASE sock[f] \in Connections /\ InConnector(f)
        <5>1. Owners(f) = {"connector"}
              BY <2>1, <2>2, <4>3, NoneAssumption DEF SocketSound, Connections
        <5> QED
            BY <5>1
      <4>4. CASE sock[f] \in Connections /\ f \in lost
        <5>1. Owners(f) = {"nobody"}
              BY <2>1, <2>2, <4>4, NoneAssumption DEF SocketSound
        <5> QED
            BY <5>1
      <4>5. CASE sock[f] \in Connections /\ registered[f] = "channel"
        <5>1. Owners(f) = {"channel"}
              BY <2>1, <2>2, <4>5, NoneAssumption DEF SocketSound, Connections
        <5> QED
            BY <5>1
      <4> QED
          BY <2>1, <2>4, <4>1, <4>2, <4>3, <4>4, <4>5
             DEF SocketSound, Connections, Sockets
    <3> QED
        BY <3>1, <2>4, FS_Singleton DEF Open
  <2> QED
      BY <2>3, <2>4
<1> QED
    BY <1>1, Inductive, PTL

\* A server that has been stopped, or has not been started, accepts no connection,
\* not even for an event that a polling thread had in hand, and leaves none waiting.
THEOREM StoppedServerAcceptsNobodyHolds == Spec => StoppedServerAcceptsNobody
<1> DEFINE NoneQueued == \A f \in Fds : sock'[f] = "queued" => sock[f] = "queued"
<1>1. ASSUME IInv, Next, serving # "listening"
      PROVE  told' \subseteq told /\ Queued' \subseteq Queued
  <2> SUFFICES told' \subseteq told /\ NoneQueued
      BY DEF Queued
  <2>t. /\ sock \in [Fds -> Sockets]
        /\ polling \in [Pollers ->
                         [at : {"away", "connector", "server", "unplugged", "dropped"},
                          fd : Fds \cup {None}, up : BOOLEAN]]
        BY <1>1 DEF IInv, TypeOK
  <2>l. ASSUME Running, NEW f \in Fds PROVE sock[f] # "listening"
        BY <1>1, <2>l DEF IInv, Sound, SocketSound
  <2>c. ASSUME Running, NEW f \in Fds,
               sock' = [sock EXCEPT ![f] = "none"]
        PROVE  NoneQueued
        BY <2>c
  <2>1. CASE C!Next /\ UNCHANGED server
    <3>1. told' = told
          BY <2>1 DEF server
    <3>2. ASSUME NEW f \in Fds, C!Connect(f) PROVE NoneQueued
          BY <3>2 DEF C!Connect
    <3>3. ASSUME NEW f \in Fds, C!StopOne(f) PROVE NoneQueued
          BY <3>3, <2>c DEF C!StopOne, C!Running, Running, C!CloseSocket
    <3>4. ASSUME NEW p \in Pollers,
                 C!Unplug(p) \/ C!Drop(p) \/ C!Notify(p)
          PROVE  NoneQueued
          BY <3>4 DEF C!Unplug, C!Drop, C!Notify
    <3>5. ASSUME \/ C!Register \/ C!Stop \/ C!ShutdownSocket
                 \/ C!ScheduleBarrier \/ C!BarrierDone
          PROVE  NoneQueued
          BY <3>5
             DEF C!Register, C!Stop, C!ShutdownSocket, C!ScheduleBarrier, C!BarrierDone,
                 C!shared
    <3> QED
        BY <2>1, <3>1, <3>2, <3>3, <3>4, <3>5 DEF C!Next
  <2>2. CASE S!Next /\ UNCHANGED connector
    <3>1. ASSUME NEW f \in Fds,
                 S!Accept(f) \/ S!AcceptFails(f)
          PROVE  told' = told /\ NoneQueued
          BY <3>1, <2>t DEF S!Accept, S!AcceptFails
    <3>2. ASSUME NEW f \in Fds, S!Tell(f) PROVE told' \subseteq told /\ NoneQueued
          BY <3>2 DEF S!Tell, S!shared
    <3>3. ASSUME NEW p \in Pollers,
                 S!HandleStale(p) \/ S!HandleError(p)
          PROVE  told' = told /\ NoneQueued
          BY <3>3 DEF S!HandleStale, S!HandleError, S!server
    <3>4. ASSUME NEW p \in Pollers, NEW g \in Fds, S!HandleAccepted(p, g) PROVE FALSE
      <4>1. /\ Running /\ At(p, "server")
            /\ polling[p].fd = sockfd /\ sock[sockfd] = "listening"
            BY <3>4
               DEF S!HandleAccepted, S!Handles, S!Stale, S!CanAccept, S!Running, Running,
                   At
      <4>2. sockfd \in Fds
            BY <1>1, <2>t, <4>1 DEF IInv, Sound, EventSound
      <4> QED
          BY <4>1, <4>2, <2>l
    <3>5. ASSUME S!BarrierDone PROVE told' = told /\ NoneQueued
          BY <3>5 DEF S!BarrierDone, S!shared
    <3>6. ~S!Stop
          BY <1>1 DEF S!Stop
    <3> QED
        BY <2>2, <3>1, <3>2, <3>3, <3>4, <3>5, <3>6 DEF S!Next
  <2>3. CASE Environment
    <3>1. told' = told
          BY <2>3 DEF Environment, server
    <3>2. ASSUME NEW f \in Fds, Resolve(f) PROVE NoneQueued
          BY <3>2, <2>l, <2>t DEF Resolve, Listening
    <3>3. ASSUME NEW f \in Fds, ChannelStops(f) PROVE NoneQueued
          BY <3>3, <2>c DEF ChannelStops, CloseSocket
    <3>4. ASSUME NEW p \in Pollers, NEW f \in Fds, Report(p, f) PROVE NoneQueued
          BY <3>4 DEF Report
    <3> QED
        BY <2>3, <3>1, <3>2, <3>3, <3>4 DEF Environment
  <2> QED
      BY <1>1, <2>1, <2>2, <2>3 DEF Next
<1>2. IInv /\ [Next]_vars =>
        [serving # "listening" => told' \subseteq told /\ Queued' \subseteq Queued]_vars
      BY <1>1
<1> QED
    BY <1>2, Inductive, PTL DEF StoppedServerAcceptsNobody, Spec
=============================================================================
