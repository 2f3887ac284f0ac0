------------------------------ MODULE SpinMutex ------------------------------
(* SpinMutex of src/src/lock.h, one action per access to the shared words     *)
(* mutex_ and owner_.  Every other component of the library guards its state  *)
(* with this lock; the modules of those components take a critical section as *)
(* one atomic step, which is what MutualExclusion and the refinement of       *)
(* MutexSpec justify.  An operator named X_Mutant is a broken form of X: the  *)
(* specification never uses it (README, "Mutants").                           *)
EXTENDS FiniteSets

CONSTANTS Threads,        \* the threads that share the lock
          NoThread,       \* the value 0 of owner_
          InitialOwners   \* what owner_, which the constructor leaves
                          \* uninitialised, may hold before the first Lock

ASSUME ThreadsAssumption == NoThread \notin Threads

VARIABLES mutex_,   \* "OPEN" or "CLOSED"
          owner_,   \* pthread_t of the owner, as the source stores it
          pc,       \* the next access of every thread
          holds     \* history: between the return of Lock and the call of Unlock

vars == <<mutex_, owner_, pc, holds>>

Locking == {"lockIsOpen", "lockIsClosed", "lockIsOwner", "spin", "recordOwner"}
Unlocking == {"unlockIsOwner", "clearOwner", "open"}

Init == /\ mutex_ = "OPEN"
        /\ owner_ \in InitialOwners
        /\ pc = [t \in Threads |-> "away"]
        /\ holds = {}

\* A failed INVARIANT or ASSERT aborts the process: nothing runs after it.
Running == \A t \in Threads : pc[t] # "aborted"

Goto(t, from, to) == /\ Running
                     /\ pc[t] = from
                     /\ pc' = [pc EXCEPT ![t] = to]

-----------------------------------------------------------------------------
(* Lock(): INVARIANT(Is(OPEN) || !IsOwner()), then TryLock until it succeeds. *)
(* A thread calls it when it is away or, by mistake, while it holds the lock. *)
CallLock(t) == /\ \/ Goto(t, "away", "lockIsOpen")
                  \/ Goto(t, "held", "lockIsOpen")
               /\ UNCHANGED <<mutex_, owner_, holds>>

LockIsOpen(t) == /\ Goto(t, "lockIsOpen",
                         IF mutex_ = "OPEN" THEN "spin" ELSE "lockIsClosed")
                 /\ UNCHANGED <<mutex_, owner_, holds>>

LockIsClosed(t) == /\ Goto(t, "lockIsClosed",
                           IF mutex_ = "CLOSED" THEN "lockIsOwner" ELSE "spin")
                   /\ UNCHANGED <<mutex_, owner_, holds>>

LockIsOwner(t) == /\ Goto(t, "lockIsOwner",
                          IF owner_ = t THEN "aborted" ELSE "spin")
                  /\ UNCHANGED <<mutex_, owner_, holds>>

\* TryLock: the compare-and-swap ...
TryLock_Mutant(t) == /\ Goto(t, "spin", "recordOwner")
                   /\ mutex_' = "CLOSED"
                   /\ UNCHANGED <<owner_, holds>>

TryLock(t) == /\ mutex_ = "OPEN"
              /\ Goto(t, "spin", "recordOwner")
              /\ mutex_' = "CLOSED"
              /\ UNCHANGED <<owner_, holds>>

\* ... and, after it has succeeded, owner_ = pthread_self().
RecordOwner_Mutant(t) == /\ Goto(t, "recordOwner", "held")
                    /\ holds' = holds \cup {t}
                    /\ UNCHANGED <<mutex_, owner_>>

RecordOwner(t) == /\ Goto(t, "recordOwner", "held")
                  /\ owner_' = t
                  /\ holds' = holds \cup {t}
                  /\ UNCHANGED mutex_

-----------------------------------------------------------------------------
(* Unlock(): ASSERT(IsOwner()), owner_ = 0, then a compare-and-swap that must *)
(* find the word CLOSED.                                                      *)
CallUnlock(t) == /\ Goto(t, "held", "unlockIsOwner")
                 /\ holds' = holds \ {t}
                 /\ UNCHANGED <<mutex_, owner_>>

UnlockIsOwner(t) ==
    /\ Goto(t, "unlockIsOwner",
            IF mutex_ = "CLOSED" /\ owner_ = t THEN "clearOwner" ELSE "aborted")
    /\ UNCHANGED <<mutex_, owner_, holds>>

ClearOwner_Mutant(t) == /\ Goto(t, "clearOwner", "open")
                      /\ UNCHANGED <<mutex_, owner_, holds>>

ClearOwner(t) == /\ Goto(t, "clearOwner", "open")
                 /\ owner_' = NoThread
                 /\ UNCHANGED <<mutex_, holds>>

Open_Mutant(t) == /\ Goto(t, "open", "away")
                /\ UNCHANGED <<mutex_, owner_, holds>>

Open(t) == /\ Goto(t, "open", IF mutex_ = "CLOSED" THEN "away" ELSE "aborted")
           /\ mutex_' = "OPEN"
           /\ UNCHANGED <<owner_, holds>>

-----------------------------------------------------------------------------
\* The steps a thread takes by itself once it has called Lock or Unlock.
Step(t) == \/ LockIsOpen(t) \/ LockIsClosed(t) \/ LockIsOwner(t)
           \/ TryLock(t) \/ RecordOwner(t)
           \/ UnlockIsOwner(t) \/ ClearOwner(t) \/ Open(t)

Next == \E t \in Threads : CallLock(t) \/ CallUnlock(t) \/ Step(t)

Spec == Init /\ [][Next]_vars

\* Threads keep running; a holder eventually calls Unlock.
Fairness == \A t \in Threads : /\ WF_vars(Step(t))
                               /\ WF_vars(CallUnlock(t))

FairSpec == Spec /\ Fairness

-----------------------------------------------------------------------------
TypeOK == /\ mutex_ \in {"OPEN", "CLOSED"}
          /\ owner_ \in Threads \cup {NoThread} \cup InitialOwners
          /\ pc \in [Threads -> {"away", "held", "aborted"}
                                    \cup Locking \cup Unlocking]
          /\ holds \in SUBSET Threads

\* At most one thread is between the return of Lock() and its Unlock().
MutualExclusion == \A s, t \in holds : s = t

\* Unlock()'s two ASSERTs and Lock()'s INVARIANT stop only a thread that locks
\* again what it holds: a correct caller is never aborted, however the calls
\* of the other threads interleave with the two separate words of the lock.
OnlyRelockAborts == \A t \in Threads : pc[t] = "aborted" => t \in holds

\* A thread that locks what it already holds is stopped by the INVARIANT at the
\* head of Lock(): it never reaches the loop, where it would spin for ever.
RelockNeverSpins == \A t \in holds : pc[t] \notin {"spin", "recordOwner"}

\* A thread that holds the lock is the one recorded in owner_, so IsOwner() is
\* right for every caller, holder or not.
IsOwner(t) == mutex_ = "CLOSED" /\ owner_ = t
OwnerIsHolder == \A t \in Threads :
                    /\ t \in holds => IsOwner(t)
                    /\ pc[t] = "away" => ~IsOwner(t)

\* No thread's wait stops the others: while someone spins, the lock changes
\* hands again (a particular thread may starve: the loop has no queue).
Spinning == \E t \in Threads : pc[t] = "spin"
SomeoneAcquires == Spinning ~> (holds # {})

\* The lock is an implementation of the abstract mutex of MutexSpec, whose one
\* variable is the thread that is inside.
holder == IF holds = {} THEN NoThread ELSE CHOOSE t \in holds : TRUE
Mutex == INSTANCE MutexSpec
MutexImplemented == Mutex!Spec
=============================================================================
