---- MODULE MCConditionalRefStore ----
EXTENDS ConditionalRefStore, TLC

\* Every request that would change the ref, and the deletion of no ref.
Changes == {r \in Value \X Value : r[1] # r[2] \/ r[1] = NoOid}

Symmetry == Permutations(Proc) \cup Permutations(Oid)
=============================================================================
