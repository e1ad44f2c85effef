------------------------------- MODULE MCPushes -------------------------------
(***************************************************************************)
(* Two pushes at once of commits that fork from the first.                 *)
(***************************************************************************)
EXTENDS Pushes, TLC

Fork == [o \in Oid |-> IF o = c1 THEN {} ELSE {c1}]

Symmetry == Permutations(Session) \cup Permutations(Oid \ {c1})
=============================================================================
