------------------------------ MODULE ListOwner ------------------------------
(* What the owners of an InList have: q_ of InQueue and ops_ of the AIO       *)
(* processor.  InQueue pushes and pops, the processor unlinks from anywhere.  *)
EXTENDS Naturals, Sequences, FiniteSets

CONSTANTS Elements,   \* the objects that can be linked in, by address
          Null

ASSUME ElementsAssumption == IsFiniteSet(Elements) /\ Null \notin Elements

VARIABLES head, tail, next, prev

list == <<head, tail, next, prev>>

List == INSTANCE InList
=============================================================================
