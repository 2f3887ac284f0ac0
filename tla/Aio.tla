---------------------------------- MODULE Aio ----------------------------------
(* LinuxAioProcessor and SpinningDevice of src/src/fs/aio-linux.cc: clients   *)
(* submit operations to the kernel, one thread per aio context collects the   *)
(* completions, and the list ops_ holds every operation on its way.  A        *)
(* synchronous Write waits in an AsyncWait (src/src/async.h).  lock_ is held  *)
(* for one step, except by the destructor, which keeps it to its end.         *)
(* The elements of the list are the Op objects.                               *)
EXTENDS ListOwner

CONSTANTS SyncOps,   \* bound: the operations a synchronous Write may be about
          Threads    \* the PollThreads, each with its aio context

VARIABLES phase,    \* how far every operation has come
          ctx,      \* the thread whose context the kernel has it in
          batch,    \* every thread: the events it has got and not looked at
          current,  \* every thread: the operation taken out of ops_
          caller,   \* the synchronous Write that waits for an operation
          done,     \* operations whose AsyncWait has done_ set
          life, closed, exited   \* of the processor, its contexts, its threads

threads == <<batch, current>>
sync == <<caller, done>>
processor == <<life, closed, exited>>
aioVars == <<list, phase, ctx, threads, sync, processor>>

AioInit == /\ List!Init
           /\ phase = [o \in Elements |-> "free"]
           /\ ctx = [o \in Elements |-> Null]
           /\ batch = [t \in Threads |-> {}]
           /\ current = [t \in Threads |-> Null]
           /\ caller = [o \in Elements |-> "none"]
           /\ done = {}
           /\ life = "alive" /\ closed = {} /\ exited = {}

Move(o, p) == phase' = [phase EXCEPT ![o] = p]
CallerAt(o, p) == caller' = [caller EXCEPT ![o] = p]

-----------------------------------------------------------------------------
\* Write and Read: a new Op goes into ops_ under lock_, for a client with a
\* callback or for one that will wait ...
Write(o) == /\ life = "alive"
            /\ phase[o] = "free" /\ caller[o] = "none"
            /\ List!Push(o)
            /\ Move(o, "listed")
            /\ \/ UNCHANGED caller
               \/ o \in SyncOps /\ CallerAt(o, "call")
            /\ UNCHANGED <<ctx, threads, done, processor>>

\* ... and to a context picked at random, without lock_.
Submit(o, t) == /\ phase[o] = "listed"
                /\ Move(o, "submitted")
                /\ ctx' = [ctx EXCEPT ![o] = t]
                /\ UNCHANGED <<list, threads, sync, processor>>

\* io_submit failed: Write returns its status and does nothing else about it.
SubmitFails(o) == /\ phase[o] = "listed"
                  /\ Move(o, "failed")
                  /\ UNCHANGED <<list, ctx, threads, sync, processor>>

\* The kernel has done the transfer.
Complete(o) == /\ phase[o] = "submitted"
               /\ ctx[o] \notin closed
               /\ Move(o, "complete")
               /\ UNCHANGED <<list, ctx, threads, sync, processor>>

-----------------------------------------------------------------------------
\* PollThread::ThreadMain: io_getevents returns everything that is complete,
Completed(t) == {o \in Elements : phase[o] = "complete" /\ ctx[o] = t}

GetEvents(t) == /\ batch[t] = {} /\ current[t] = Null
                /\ t \notin closed
                /\ Completed(t) # {}
                /\ batch' = [batch EXCEPT ![t] = Completed(t)]
                /\ phase' = [o \in Elements |-> IF o \in Completed(t) THEN "event" ELSE phase[o]]
                /\ ctx' = [o \in Elements |-> IF o \in Completed(t) THEN Null ELSE ctx[o]]
                /\ UNCHANGED <<list, current, sync, processor>>

\* and operation by operation is taken out of ops_ under lock_,
Unlink_Mutant(t) == \E o \in batch[t] :
    /\ current[t] = Null
    /\ life # "destroying"
    /\ UNCHANGED list
    /\ batch' = [batch EXCEPT ![t] = @ \ {o}]
    /\ current' = [current EXCEPT ![t] = o]
    /\ Move(o, "callback")
    /\ UNCHANGED <<ctx, sync, processor>>

Unlink(t) == \E o \in batch[t] :
    /\ current[t] = Null
    /\ life # "destroying"
    /\ List!Unlink(o)
    /\ batch' = [batch EXCEPT ![t] = @ \ {o}]
    /\ current' = [current EXCEPT ![t] = o]
    /\ Move(o, "callback")
    /\ UNCHANGED <<ctx, sync, processor>>

\* its client told and the Op deleted.
Delete(t) == /\ current' = [current EXCEPT ![t] = Null]
             /\ Move(current[t], "free")

CallBack(t) == /\ current[t] # Null
               /\ caller[current[t]] = "none" /\ phase[current[t]] = "callback"
               /\ Delete(t)
               /\ UNCHANGED <<list, ctx, batch, sync, processor>>

\* AsyncWait::Done: done_ is set under its mutex and the condition broadcast
\* after it.
Done(t) == LET o == current[t] IN
    /\ o # Null
    /\ phase[o] = "callback" /\ caller[o] # "none"
    /\ done' = done \cup {o}
    /\ Move(o, "done")
    /\ UNCHANGED <<list, ctx, threads, caller, processor>>

Broadcast_Mutant(t) == LET o == current[t] IN
    /\ o # Null
    /\ phase[o] = "done"
    /\ Delete(t)
    /\ UNCHANGED <<list, ctx, batch, caller, done, processor>>

Broadcast(t) == LET o == current[t] IN
    /\ o # Null
    /\ phase[o] = "done"
    /\ IF caller[o] = "blocked" THEN CallerAt(o, "woken") ELSE UNCHANGED caller
    /\ Delete(t)
    /\ UNCHANGED <<list, ctx, batch, done, processor>>

-----------------------------------------------------------------------------
\* AsyncWait::Wait, in the caller, after the asynchronous Write has returned.
Return(o) == CallerAt(o, "none") /\ done' = done \ {o}

Wait(o) == /\ caller[o] = "call"
           /\ phase[o] # "listed"
           /\ IF o \in done THEN Return(o) ELSE CallerAt(o, "blocked") /\ UNCHANGED done
           /\ UNCHANGED <<list, phase, ctx, threads, processor>>

WakeCaller(o) == /\ caller[o] = "woken"
                 /\ Return(o)
                 /\ UNCHANGED <<list, phase, ctx, threads, processor>>

-----------------------------------------------------------------------------
\* What the client knows of: its calls have returned and its operations have
\* been answered, those that were not submitted apart.
Answered(o) == phase[o] \in {"free", "failed", "done"} /\ caller[o] = "none"

\* ~LinuxAioProcessor: lock_, io_destroy for every context, then a join of
\* every thread.
Destroy == /\ life = "alive"
           /\ \A o \in Elements : Answered(o)
           /\ life' = "destroying"
           /\ UNCHANGED <<list, phase, ctx, threads, sync, closed, exited>>

IoDestroy(t) == /\ life = "destroying"
                /\ t \notin closed
                /\ closed' = closed \cup {t}
                /\ UNCHANGED <<list, phase, ctx, threads, sync, life, exited>>

\* io_getevents reports EINVAL and the thread ends.
Exit(t) == /\ t \in closed \ exited
           /\ batch[t] = {} /\ current[t] = Null
           /\ exited' = exited \cup {t}
           /\ UNCHANGED <<list, phase, ctx, threads, sync, life, closed>>

Join == /\ life = "destroying"
        /\ closed = Threads /\ exited = Threads
        /\ life' = "destroyed"
        /\ UNCHANGED <<list, phase, ctx, threads, sync, closed, exited>>

-----------------------------------------------------------------------------
ThreadStep(t) == GetEvents(t) \/ Unlink(t) \/ CallBack(t) \/ Done(t) \/ Broadcast(t) \/ Exit(t)

AioNext == \/ \E o \in Elements : \/ Write(o) \/ SubmitFails(o) \/ Complete(o)
                                  \/ Wait(o) \/ WakeCaller(o)
                                  \/ \E t \in Threads : Submit(o, t)
           \/ \E t \in Threads : ThreadStep(t) \/ IoDestroy(t)
           \/ Destroy \/ Join

AioSpec == AioInit /\ [][AioNext]_aioVars

\* Threads keep running and the kernel completes what was submitted.
AioFairness ==
    /\ \A o \in Elements : /\ WF_aioVars(Complete(o)) /\ WF_aioVars(Wait(o) \/ WakeCaller(o))
                           /\ WF_aioVars(SubmitFails(o) \/ \E t \in Threads : Submit(o, t))
    /\ \A t \in Threads : WF_aioVars(ThreadStep(t)) /\ WF_aioVars(IoDestroy(t))
    /\ WF_aioVars(Join)

AioFairSpec == AioSpec /\ AioFairness

-----------------------------------------------------------------------------
AioTypeOK == /\ phase \in [Elements -> {"free", "listed", "submitted", "failed", "complete",
                                        "event", "callback", "done"}]
             /\ ctx \in [Elements -> Threads \cup {Null}]
             /\ batch \in [Threads -> SUBSET Elements]
             /\ current \in [Threads -> Elements \cup {Null}]
             /\ caller \in [Elements -> {"none", "call", "blocked", "woken"}]
             /\ done \subseteq Elements
             /\ life \in {"alive", "destroying", "destroyed"}
             /\ closed \subseteq Threads /\ exited \subseteq Threads

\* The pointers of ops_ stay sound and Unlink never meets an operation that is
\* not in the list (the ASSERTs of src/src/inlist.hpp:64-127), whichever threads
\* complete operations in whatever order: ops_ behaves as the abstract queue from
\* which elements are taken anywhere.
ListSound == List!AssertsHold /\ List!LinksAgree

Abstract == INSTANCE ElementQueue WITH contents <- List!Contents
QueueImplemented == [][ListSound']_list /\ Abstract!Spec

\* A client may destroy the processor as soon as it has got its answers: no
\* thread then needs lock_, which the destructor holds while it joins them, and
\* nothing is left in ops_ but what io_submit refused.
DestructionClean ==
    life # "alive" => /\ \A t \in Threads : batch[t] = {}
                      /\ List!Linked = {o \in Elements : phase[o] = "failed"}

\* Every operation the kernel accepted is answered, by the callback or by the
\* return of the synchronous Write, though Done may run before, during or after
\* the caller's Wait.
EveryOpAnswered ==
    \A o \in Elements : phase[o] = "submitted" ~> phase[o] = "free" /\ caller[o] = "none"
=============================================================================
