------------------------------- MODULE InQueue -------------------------------
(* InQueue of src/src/inlist.hpp: the adaptive queue between the threads that *)
(* schedule routines and the thread that runs them.  The list is InList, the  *)
(* mutex and the condition variable are pthread's: a critical section is one  *)
(* step, the Signal that follows it another.                                  *)
EXTENDS ListOwner

CONSTANTS Producers, Consumers,
          MaxSpin,    \* maxSpin_: attempts of TryPop before the consumer blocks
          MaxPushes   \* bound: Push calls in a behaviour

ASSUME BoundsAssumption == MaxSpin \in Nat /\ MaxPushes \in Nat

VARIABLES signalling,               \* producers between unlock and Signal()
          pc,                       \* where every consumer is in Pop
          timed,                    \* the consumers whose call is Pop(ms)
          spins,                    \* attempts of TryPop made in this call
          pushed, popped            \* history: elements in the order they went
                                    \* in, and in the order they came out

vars == <<list, signalling, pc, timed, spins, pushed, popped>>

Init == /\ List!Init
        /\ signalling = {}
        /\ pc = [c \in Consumers |-> "away"]
        /\ timed = {}
        /\ spins = [c \in Consumers |-> 0]
        /\ pushed = <<>>
        /\ popped = <<>>

-----------------------------------------------------------------------------
\* Push(t): link it under the lock ...
Push(p, t) == /\ p \notin signalling
              /\ t \notin List!Linked
              /\ Len(pushed) < MaxPushes
              /\ List!Push(t)
              /\ pushed' = Append(pushed, t)
              /\ signalling' = signalling \cup {p}
              /\ UNCHANGED <<pc, timed, spins, popped>>

\* ... and signal after it: one of the waiting consumers, if any, returns from
\* its wait.
Waiting == {c \in Consumers : pc[c] = "wait"}

Wake(c) == pc' = [pc EXCEPT ![c] = "woken"]

Signal_Mutant(p) == /\ p \in signalling
                    /\ signalling' = signalling \ {p}
                    /\ IF Waiting = {} \/ Len(List!Contents) > 1
                         THEN UNCHANGED pc
                         ELSE \E c \in Waiting : Wake(c)
                    /\ UNCHANGED <<list, timed, spins, pushed, popped>>

Signal(p) == /\ p \in signalling
             /\ signalling' = signalling \ {p}
             /\ IF Waiting = {} THEN UNCHANGED pc ELSE \E c \in Waiting : Wake(c)
             /\ UNCHANGED <<list, timed, spins, pushed, popped>>

-----------------------------------------------------------------------------
\* Pop() and Pop(ms) begin with TryPop.
CallPop(c) == /\ pc[c] = "away"
              /\ pc' = [pc EXCEPT ![c] = "try"]
              /\ timed' \in {timed \ {c}, timed \cup {c}}
              /\ spins' = [spins EXCEPT ![c] = 0]
              /\ UNCHANGED <<list, signalling, pushed, popped>>

\* The element leaves the list and Pop returns it.
Take_Mutant(c) == /\ ~List!IsEmpty
                  /\ List!Pop
                  /\ popped' = Append(popped, head)
                  /\ pc' = [pc EXCEPT ![c] = "away"]
                  /\ UNCHANGED <<signalling, timed, spins, pushed>>

Take(c) == /\ ~List!IsEmpty
           /\ List!Pop
           /\ popped' = Append(popped, tail)
           /\ pc' = [pc EXCEPT ![c] = "away"]
           /\ UNCHANGED <<signalling, timed, spins, pushed>>

\* One attempt of TryPop ...
TryPop(c) == /\ pc[c] = "try"
             /\ spins[c] < MaxSpin
             /\ \/ Take(c)
                \/ /\ List!IsEmpty
                   /\ spins' = [spins EXCEPT ![c] = @ + 1]
                   /\ UNCHANGED <<list, signalling, pc, timed, pushed, popped>>

\* ... and, after the last, the traditional lock and wait.
Block(c) == /\ pc[c] = "try"
            /\ spins[c] = MaxSpin
            /\ pc' = [pc EXCEPT ![c] = "lock"]
            /\ UNCHANGED <<list, signalling, timed, spins, pushed, popped>>

\* The test of the loop, under the lock: take an element, or wait and release
\* the lock in one step.
TestOrWait(c) ==
    /\ pc[c] \in {"lock", "woken"}
    /\ \/ Take(c)
       \/ /\ List!IsEmpty
          /\ pc' = [pc EXCEPT ![c] = "wait"]
          /\ UNCHANGED <<list, signalling, timed, spins, pushed, popped>>

\* A wait may end without a signal; it is back at the test of the loop.
SpuriousWakeup(c) == /\ c \in Waiting
                     /\ Wake(c)
                     /\ UNCHANGED <<list, signalling, timed, spins, pushed, popped>>

\* Pop(ms) returns NULL when the lock or the wait times out, without looking at
\* the list again.
TimeOut(c) == /\ c \in timed
              /\ pc[c] \in {"lock", "wait"}
              /\ pc' = [pc EXCEPT ![c] = "away"]
              /\ UNCHANGED <<list, signalling, timed, spins, pushed, popped>>

-----------------------------------------------------------------------------
Next == \/ \E p \in Producers : Signal(p) \/ \E t \in Elements : Push(p, t)
        \/ \E c \in Consumers : \/ CallPop(c) \/ TryPop(c) \/ Block(c) \/ TestOrWait(c)
                                \/ SpuriousWakeup(c) \/ TimeOut(c)

Spec == Init /\ [][Next]_vars

\* Threads keep running, and consumers keep calling Pop as the pool's threads
\* do.  No wakeup without a signal and no timeout is assumed.
Fairness == /\ \A p \in Producers : WF_vars(Signal(p))
            /\ \A c \in Consumers : WF_vars(CallPop(c) \/ TryPop(c) \/ Block(c) \/ TestOrWait(c))

FairSpec == Spec /\ Fairness

-----------------------------------------------------------------------------
TypeOK == /\ signalling \subseteq Producers
          /\ pc \in [Consumers -> {"away", "try", "lock", "wait", "woken"}]
          /\ timed \subseteq Consumers
          /\ spins \in [Consumers -> 0..MaxSpin]
          /\ pushed \in Seq(Elements)
          /\ popped \in Seq(Elements)

\* Elements come out exactly once and in the order they went in.
InOrder == pushed = popped \o List!Contents

\* No lost wakeup: while a consumer waits, every element in the list has a Signal
\* still to come or a consumer that was woken and has not tested the list yet,
\* whichever elements are taken meanwhile by consumers nobody signalled.
Woken == {c \in Consumers : pc[c] = "woken"}
NoLostWakeup == Waiting # {}
                  => Len(List!Contents) <= Cardinality(signalling) + Cardinality(Woken)

\* Every element pushed is popped, though a consumer may stay blocked for ever.
EveryElementPopped ==
    \A n \in 1..MaxPushes : Len(pushed) >= n ~> Len(popped) >= n
=============================================================================
