----------------------------- MODULE WriterLedger -----------------------------
(***************************************************************************)
(* What is promised of the native writers of one file: responsibility for  *)
(* an attempt is taken before its work begins, it is given up only when no  *)
(* work is left, and neither happens twice; and writers work one at a time. *)
(* Of an attempt that was lost nothing is promised.                         *)
(***************************************************************************)
CONSTANT Attempts

VARIABLES
    phase,          \* responsibility for each attempt: new, held, released, or lost
    work            \* its native work: none, running, ended

vars == <<phase, work>>

Init == phase = [e \in Attempts |-> "new"] /\ work = [e \in Attempts |-> "none"]

Take(e) ==
    /\ phase[e] = "new" /\ phase' = [phase EXCEPT ![e] = "held"]
    /\ work' = work

Begin(e) ==
    /\ phase[e] = "held" /\ work[e] = "none"
    /\ \A f \in Attempts : work[f] # "running"
    /\ work' = [work EXCEPT ![e] = "running"]
    /\ phase' = phase

\* Work may also be over as soon as it was begun.
End(e) ==
    /\ phase[e] = "held" /\ work[e] # "ended"
    /\ work' = [work EXCEPT ![e] = "ended"]
    /\ phase' = phase

Release(e) ==
    /\ phase[e] = "held" /\ work[e] # "running"
    /\ phase' = [phase EXCEPT ![e] = "released"]
    /\ work' = work

Lose(e) ==
    /\ phase[e] \in {"held", "released"}
    /\ phase' = [phase EXCEPT ![e] = "lost"]
    /\ work' = [work EXCEPT ![e] = "none"]

Next == \E e \in Attempts : Take(e) \/ Begin(e) \/ End(e) \/ Release(e) \/ Lose(e)

Spec == Init /\ [][Next]_vars
=============================================================================
