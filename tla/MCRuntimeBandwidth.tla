------------------------ MODULE MCRuntimeBandwidth ------------------------
(* Small instances of RuntimeBandwidth for TLC. *)
EXTENDS RuntimeBandwidth, TLC

\* Executors are interchangeable (no action compares or orders them).
ExecutorSymmetry == Permutations(Executors)

\* Behaviours are followed up to the first state in which the lock's holder and
\* the cycle's unlocked observe meet: the invariants claim nothing afterwards.
NoneOverlapped == ~overlapped

\* A round's facts speak of one executor: what two of them change, two rounds do.
OneFact == Cardinality({e \in Executors : facts[e] # "none"}) <= 1
=============================================================================
