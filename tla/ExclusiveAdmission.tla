-------------------------- MODULE ExclusiveAdmission --------------------------
(***************************************************************************)
(* What a maintenance gate promises: whoever holds it works alone.          *)
(***************************************************************************)
CONSTANTS
    Tasks,          \* the tasks that may work, or hold the gate
    NoTask          \* nobody holds it

VARIABLES
    working,        \* the tasks with admitted work
    holder          \* the task that holds the gate, or NoTask

vars == <<working, holder>>

Init == working = {} /\ holder = NoTask

Enter(t) == holder = NoTask /\ working' = working \cup {t} /\ holder' = holder
Leave(t) == working' = working \ {t} /\ holder' = holder

\* The gate is taken once nobody else has work under it.
Take(t) == holder = NoTask /\ working \subseteq {t} /\ holder' = t /\ working' = working
Drop    == holder' = NoTask /\ working' = working

Next == Drop \/ \E t \in Tasks : Enter(t) \/ Leave(t) \/ Take(t)

Spec == Init /\ [][Next]_vars
=============================================================================
