-------------------------------- MODULE InList --------------------------------
(* InList of src/src/inlist.hpp: the intrusive doubly linked list, pointer by *)
(* pointer.  Push works at head_, Pop at tail_.  Modules that have such a     *)
(* list instantiate this one: the queues of threads Push and Pop, the AIO     *)
(* processor pushes and unlinks from anywhere.                                *)
EXTENDS Naturals, Sequences, FiniteSets

CONSTANTS Elements,   \* the objects that can be linked in
          Null

VARIABLES head, tail,   \* head_ and tail_
          next, prev    \* next_ and prev_ of every element

Init == /\ head = Null
        /\ tail = Null
        /\ next = [t \in Elements |-> Null]
        /\ prev = [t \in Elements |-> Null]

\* Assigning to the field of a pointer that may be null, guarded as in the code.
Set(f, t, value) == IF t = Null THEN f ELSE [f EXCEPT ![t] = value]

\* IsEmpty()
IsEmpty == head = Null /\ tail = Null

-----------------------------------------------------------------------------
\* What a walk from tail_ along prev_ meets: the elements, oldest first.  A
\* cycle would make it as long as the bound, an unlinked tail too short.
Contents ==
    LET at[n \in 0..Cardinality(Elements)] ==
            IF n = 0 THEN tail
            ELSE IF at[n - 1] = Null THEN Null ELSE prev[at[n - 1]]
        length == Cardinality({n \in DOMAIN at : at[n] # Null})
    IN  [i \in 1..length |-> at[i - 1]]

Linked == {Contents[i] : i \in DOMAIN Contents}

Push(t) == /\ next' = [next EXCEPT ![t] = head]
           /\ prev' = Set(prev, head, t)
           /\ head' = t
           /\ tail' = IF tail = Null THEN t ELSE tail

\* Pop() returns tail_ and unlinks it.
Pop == /\ tail' = prev[tail]
       /\ head' = IF head = tail THEN Null ELSE head
       /\ next' = [Set(next, prev[tail], Null) EXCEPT ![tail] = Null]
       /\ prev' = [prev EXCEPT ![tail] = Null]

Unlink_TailMutant(t) == /\ next' = [Set(next, prev[t], next[t]) EXCEPT ![t] = Null]
                        /\ prev' = [Set(prev, next[t], prev[t]) EXCEPT ![t] = Null]
                        /\ head' = IF head = t THEN next[t] ELSE head
                        /\ UNCHANGED tail

Unlink_PrevMutant(t) == /\ next' = [Set(next, prev[t], next[t]) EXCEPT ![t] = Null]
                        /\ prev' = [prev EXCEPT ![t] = Null]
                        /\ head' = IF head = t THEN next[t] ELSE head
                        /\ tail' = IF tail = t THEN prev[t] ELSE tail

Unlink(t) == /\ next' = [Set(next, prev[t], next[t]) EXCEPT ![t] = Null]
             /\ prev' = [Set(prev, next[t], prev[t]) EXCEPT ![t] = Null]
             /\ head' = IF head = t THEN next[t] ELSE head
             /\ tail' = IF tail = t THEN prev[t] ELSE tail

-----------------------------------------------------------------------------
\* The ASSERTs that Push, Pop and Unlink make before they touch a pointer: the
\* two ends agree, nothing lies beyond them, and an element outside the list
\* has no link left.
AssertsHold ==
    /\ head = Null <=> tail = Null
    /\ head # Null => prev[head] = Null
    /\ tail # Null => next[tail] = Null
    /\ \A t \in Elements \ Linked : next[t] = Null /\ prev[t] = Null
    /\ \A t \in Linked : /\ prev[t] # Null \/ head = t
                         /\ next[t] # Null \/ tail = t

\* next_ and prev_ are each other's inverse: the list reads the same from both
\* ends.
LinksAgree == /\ \A t \in Elements : next[t] # Null => prev[next[t]] = t
              /\ \A t \in Elements : prev[t] # Null => next[prev[t]] = t
=============================================================================
