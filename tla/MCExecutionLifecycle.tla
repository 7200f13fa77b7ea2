------------------------ MODULE MCExecutionLifecycle ------------------------
(***************************************************************************)
(* Instances of ExecutionLifecycle for TLC.                                *)
(***************************************************************************)
EXTENDS ExecutionLifecycle, TLC

\* Attempt identities are interchangeable: no action tells one from another.
AttemptSymmetry == Permutations(Attempts)

\* Bound: behaviours are followed up to the first start that loses its race.
NoneOvertaken == overtaken = {}
=============================================================================
