---- MODULE MCFsRefStore ----
EXTENDS FsRefStore, TLC

\* Every request that would change the ref: creations, updates, deletions.
Changes == {r \in Value \X Value : r[1] # r[2]}

Symmetry == Permutations(Proc) \cup Permutations(Oid)
=============================================================================
