----------------------------- MODULE ElementQueue -----------------------------
(* What InList promises the queues built on it (src/src/inlist.hpp): elements *)
(* come out in the order they went in, unless one is taken out of the middle. *)
EXTENDS Sequences, SequencesExt

CONSTANTS Elements
VARIABLE contents   \* oldest first

Init == contents = <<>>

Push(t) == t \notin Range(contents) /\ contents' = Append(contents, t)
Pop == contents # <<>> /\ contents' = Tail(contents)
Unlink(t) == \E i \in DOMAIN contents : contents[i] = t /\ contents' = RemoveAt(contents, i)

Next == Pop \/ \E t \in Elements : Push(t) \/ Unlink(t)

Spec == Init /\ [][Next]_contents
=============================================================================
