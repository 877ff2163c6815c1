---------------------------- MODULE DocumentStore ----------------------------
(***************************************************************************)
(* What the documents table promises its readers: for every source it holds *)
(* nothing or one whole document, and it changes only by one source's       *)
(* document being replaced by another whole document in a single step.      *)
(***************************************************************************)
EXTENDS Naturals

CONSTANTS Sources,
          Whole(_, _)       \* Whole(s, d): d is one whole document of source s

VARIABLE stored             \* [Sources -> a set of rows]

Init == stored = [s \in Sources |-> {}]

Replace(s) ==
    /\ Whole(s, stored'[s])
    /\ stored' = [stored EXCEPT ![s] = stored'[s]]

Next == \E s \in Sources : Replace(s)

Spec == Init /\ [][Next]_stored
==============================================================================
