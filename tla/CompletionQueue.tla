--------------------------- MODULE CompletionQueue ---------------------------
(* CompletionQueue of src/src/async.h on the pool's threads.  lock_ is a      *)
(* SpinMutex, so what Wakeup and ProcessEvents do under it is one step; the   *)
(* handler calls, made without the lock, are steps of their own.  Operators   *)
(* named X_Mutant are broken forms of X that no specification uses.           *)
EXTENDS Naturals, Sequences

CONSTANTS Workers,    \* the threads of the pool
          Events,     \* the payloads of completion events
          MaxEvents   \* bound: Wakeup calls in a behaviour

ASSUME MaxEventsAssumption == MaxEvents \in Nat

VARIABLES q,           \* events accepted by Wakeup, not yet taken by ProcessEvents
          inprogress,  \* ProcessEvents is queued or running
          routines,    \* routines[w]: ProcessEvents routines in w's pool queue
          at,          \* where every thread is in ProcessEvents
          batch,       \* batch[w]: w's local list of events left to handle
          posted, delivered  \* history: events given to Wakeup and to the handler

completionVars == <<q, inprogress, routines, at, batch, posted, delivered>>

CompletionInit == /\ q = <<>>
                  /\ inprogress = FALSE
                  /\ routines = [w \in Workers |-> 0]
                  /\ at = [w \in Workers |-> "idle"]
                  /\ batch = [w \in Workers |-> <<>>]
                  /\ posted = <<>>
                  /\ delivered = <<>>

-----------------------------------------------------------------------------
\* BBlocks::Schedule takes the next thread of a rotation shared with the whole
\* program: any thread.  BBlocks::Yield queues on the calling thread.
Enqueue(w) == routines' = [routines EXCEPT ![w] = @ + 1]

\* Wakeup(event), called from anywhere, inside the handler too.
Post(e) == /\ Len(posted) < MaxEvents
           /\ posted' = Append(posted, e)
           /\ q' = Append(q, e)
           /\ UNCHANGED <<at, batch, delivered>>

Wakeup_TwiceMutant(e) == /\ Post(e)
                         /\ inprogress' = TRUE
                         /\ \E w \in Workers : Enqueue(w)

Wakeup(e) == /\ Post(e)
             /\ IF inprogress
                  THEN UNCHANGED <<inprogress, routines>>
                  ELSE inprogress' = TRUE /\ \E w \in Workers : Enqueue(w)

\* The thread pops the routine and enters ProcessEvents.
Run(w) == /\ at[w] = "idle"
          /\ routines[w] > 0
          /\ routines' = [routines EXCEPT ![w] = @ - 1]
          /\ at' = [at EXCEPT ![w] = "take"]
          /\ UNCHANGED <<q, inprogress, batch, posted, delivered>>

\* ProcessEvents under lock_: take everything there is, or leave when there is
\* nothing, with the flag cleared.
TakeAll(w, flag) == /\ at[w] = "take"
                    /\ batch' = [batch EXCEPT ![w] = q]
                    /\ q' = <<>>
                    /\ inprogress' = flag
                    /\ at' = [at EXCEPT ![w] = IF q = <<>> THEN "idle" ELSE "loop"]
                    /\ UNCHANGED <<routines, posted, delivered>>

Take_EarlyMutant(w) == TakeAll(w, FALSE)
Take_StuckMutant(w) == TakeAll(w, inprogress)

Take(w) == TakeAll(w, q # <<>>)

\* The loop over the batch: (h_->*fn_)(event) is called ...
CallHandler(w) == /\ at[w] = "loop"
                  /\ batch[w] # <<>>
                  /\ delivered' = Append(delivered, Head(batch[w]))
                  /\ at' = [at EXCEPT ![w] = "handler"]
                  /\ UNCHANGED <<q, inprogress, routines, batch, posted>>

\* ... and returns.
HandlerReturns_Mutant(w) == /\ at[w] = "handler"
                            /\ batch' = [batch EXCEPT ![w] = <<>>]
                            /\ at' = [at EXCEPT ![w] = "loop"]
                            /\ UNCHANGED <<q, inprogress, routines, posted, delivered>>

HandlerReturns(w) == /\ at[w] = "handler"
                     /\ batch' = [batch EXCEPT ![w] = Tail(@)]
                     /\ at' = [at EXCEPT ![w] = "loop"]
                     /\ UNCHANGED <<q, inprogress, routines, posted, delivered>>

\* The batch is done: Yield(ProcessEvents) looks for more.
Yield(w) == /\ at[w] = "loop"
            /\ batch[w] = <<>>
            /\ Enqueue(w)
            /\ at' = [at EXCEPT ![w] = "idle"]
            /\ UNCHANGED <<q, inprogress, batch, posted, delivered>>

-----------------------------------------------------------------------------
PoolStep(w) == Run(w) \/ Take(w) \/ CallHandler(w) \/ HandlerReturns(w) \/ Yield(w)

CompletionNext == \/ \E e \in Events : Wakeup(e)
                  \/ \E w \in Workers : PoolStep(w)

CompletionSpec == CompletionInit /\ [][CompletionNext]_completionVars

\* The pool's threads keep running and every handler returns.
CompletionFairSpec == CompletionSpec /\ \A w \in Workers : WF_completionVars(PoolStep(w))

-----------------------------------------------------------------------------
CompletionTypeOK == /\ q \in Seq(Events)
                    /\ inprogress \in BOOLEAN
                    /\ routines \in [Workers -> Nat]
                    /\ at \in [Workers -> {"idle", "take", "loop", "handler"}]
                    /\ batch \in [Workers -> Seq(Events)]
                    /\ posted \in Seq(Events)
                    /\ delivered \in Seq(Events)

\* inprogress_ counts for one ProcessEvents, queued or running: Wakeup and Yield
\* never leave two of them to race, nor none while the flag keeps Wakeup from
\* scheduling one; and when nobody is processing, nothing is left in the queue
\* for a processor that will never come (ASSERT(q_.size() == 1) in Wakeup).
Processes(w) == routines[w] > 0 \/ at[w] # "idle"
SingleProcessor ==
    /\ \A v, w \in Workers : Processes(v) /\ Processes(w) => v = w
    /\ \A w \in Workers : routines[w] <= IF at[w] = "idle" THEN 1 ELSE 0
    /\ inprogress <=> \E w \in Workers : Processes(w)

NothingLeftBehind == ~inprogress => q = <<>>

OneProcessor == SingleProcessor /\ NothingLeftBehind

\* The handler is called exactly once per event, in the order of the Wakeups,
\* one call at a time, whichever threads ProcessEvents runs on.
handling == \E w \in Workers : at[w] = "handler"
Delivery == INSTANCE OrderedDelivery
DeliveryImplemented == Delivery!Spec

\* Every event accepted by Wakeup reaches the handler, and once the Wakeups stop
\* the queue comes to rest: the state in which the destructor's INVARIANTs
\* hold and the client may destroy it.
ComesToRest == <>[](~inprogress /\ q = <<>>)

EveryEventDelivered ==
    /\ \A n \in 1..MaxEvents : Len(posted) >= n ~> Len(delivered) >= n
    /\ ComesToRest
=============================================================================
