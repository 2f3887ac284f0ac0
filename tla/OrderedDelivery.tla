--------------------------- MODULE OrderedDelivery ---------------------------
(* What a completion queue promises its client (src/src/async.h): the handler *)
(* is called once for every completion event, in the order of the Wakeup      *)
(* calls, and never again before the previous call has returned.              *)
EXTENDS Naturals, Sequences

CONSTANTS Events
VARIABLES posted,      \* the events of the Wakeup calls, in their order
          delivered,   \* the events the handler has been called with
          handling     \* a call of the handler has not returned

vars == <<posted, delivered, handling>>

Init == posted = <<>> /\ delivered = <<>> /\ handling = FALSE

Post(e) == /\ posted' = Append(posted, e)
           /\ UNCHANGED <<delivered, handling>>

CallHandler == /\ ~handling
               /\ Len(delivered) < Len(posted)
               /\ delivered' = Append(delivered, posted[Len(delivered) + 1])
               /\ handling' = TRUE
               /\ UNCHANGED posted

HandlerReturns == /\ handling
                  /\ handling' = FALSE
                  /\ UNCHANGED <<posted, delivered>>

Next == (\E e \in Events : Post(e)) \/ CallHandler \/ HandlerReturns

Spec == Init /\ [][Next]_vars
=============================================================================
