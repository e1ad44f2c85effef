------------------------------ MODULE MCClient ------------------------------
(***************************************************************************)
(* Bounds for Client: every other commit is a child of c1, and every file  *)
(* has the same content before the branches part.                          *)
(***************************************************************************)
EXTENDS Client, TLC

CONSTANTS c1, a

Fork == [o \in Oid |-> IF o = c1 THEN {} ELSE {c1}]
SameEverywhere == [p \in Path |-> a]

Symmetry ==
  Permutations(Clone) \cup Permutations(Oid \ {c1})
    \cup Permutations(Path) \cup Permutations(Branch)
=============================================================================
