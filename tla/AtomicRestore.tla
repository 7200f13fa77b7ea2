---------------------------- MODULE AtomicRestore ----------------------------
(***************************************************************************)
(* What a restore promises, whatever fails on the way: the stored state is  *)
(* always one complete generation, it is replaced in one step, and only     *)
(* that state is ever served.                                              *)
(***************************************************************************)
CONSTANTS
    Files,          \* the files that make up the stored state
    Core,           \* those no complete state can miss
    Generations,    \* the states there are: the original one and the restored
    Nothing         \* no file

VARIABLES
    stored,         \* what the next start would serve, file by file
    served          \* what is served now, or nothing at all

vars == <<stored, served>>

Closed == [f \in Files |-> Nothing]

\* Every file of s belongs to one generation, and none that matters is missing.
Complete(s) ==
    \E g \in Generations : \A f \in Files : s[f] = g \/ (s[f] = Nothing /\ f \notin Core)

States == {s \in [Files -> Generations \cup {Nothing}] : Complete(s)}

Init == stored \in States /\ served = Closed

Open    == served = Closed /\ served' = stored /\ stored' = stored
Close   == served' = Closed /\ stored' = stored
Replace == served = Closed /\ served' = served /\ stored' \in States

Next == Open \/ Close \/ Replace

Spec == Init /\ [][Next]_vars
=============================================================================
