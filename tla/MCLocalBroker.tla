---------------------------- MODULE MCLocalBroker ----------------------------
EXTENDS LocalBroker, TLC
CONSTANT b1

OneBroker == [c \in Call |-> b1]

\* Every call has a process of its own.
EachItsOwn == CHOOSE f \in [Call -> Broker] : \A c, d \in Call : f[c] = f[d] => c = d

Symmetry ==
  Permutations(Ref) \cup Permutations(Call) \cup Permutations(Process) \cup Permutations(Name)
=============================================================================
