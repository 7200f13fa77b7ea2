----------------------------- MODULE RestoreSwap -----------------------------
(***************************************************************************)
(* Replacing the stored state (database, configuration, avatar) with one    *)
(* restore point.  The live files are renamed away, the restored ones are   *)
(* renamed into their places, and a journal written before the first rename *)
(* lets a failed, refused or interrupted swap be reversed, in this process  *)
(* or at the next start.  Each action is one durable change of the disk.    *)
(*                                                                         *)
(* The order of the renames within one half of the plan is left open.       *)
(*                                                                         *)
(* Requests that only read are admitted by no gate but the database's, so    *)
(* their sessions may be open whenever the restore does not hold that one.   *)
(***************************************************************************)
EXTENDS Naturals, FiniteSets

CONSTANTS
    Files,          \* the database, the configuration and the avatar
    Core,           \* the database and the configuration
    Database,
    Restores,       \* restores asked for, each with staging of its own
    Sessions,       \* get_db() sessions of other tasks that may be open at one time
    Original,       \* the generation the installation starts with
    Nothing,        \* no file at a path
    Foreign,        \* a file neither state holds, created where one was moved away
    NoJournal,
    NoRestore,
    Faults,         \* may a rename, a removal of a file or a start fail?
    CommitFails,    \* may it be the removal of the journal at the commit?
    CutShort        \* may the restore be cancelled while it waits, with the swap
                    \* done, for the sessions to close?

ASSUME CoreAssumption == Core \subseteq Files /\ Database \in Core
ASSUME FaultAssumption == {Faults, CommitFails, CutShort} \subseteq BOOLEAN

Generations == Restores \cup {Original}

ASSUME NameAssumption == /\ Original \notin Restores /\ NoRestore \notin Restores
                         /\ {Nothing, Foreign} \cap Generations = {} /\ Nothing # Foreign

VARIABLES
    live,           \* what is at each live path
    restored,       \* restore -> its staged files not (or no longer) in place
    displaced,      \* restore -> live files it moved away
    journal,        \* the journal beside the database: the moves of one restore
    members,        \* history: the files each generation consists of
    pc,             \* where the process stands
    job,            \* the restore it is working on
    application,    \* the generation the (last) application was composed over
    sessions        \* the generation of the database each session was opened on

vars == <<live, restored, displaced, journal, members, pc, job, application, sessions>>

disk == <<live, restored, displaced, journal>>

Empty == [f \in Files |-> Nothing]

\* The state of generation g, whole.
Whole(g) == [f \in Files |-> IF f \in members[g] THEN g ELSE Nothing]

Moves == [of : Restores, out : SUBSET Files, in : SUBSET Files]

ASSUME JournalAssumption == NoJournal \notin Moves

Steps == {"serving", "closing", "staged", "swap", "undo", "starting", "revert", "rollback",
          "sealing", "commit", "drop", "sealed", "down", "recover", "sweep"}

-----------------------------------------------------------------------------

Init ==
    /\ members \in [Generations -> SUBSET Files]
    /\ Core \subseteq members[Original]
    /\ \A r \in Restores : members[r] = {}
    /\ live = Whole(Original)
    /\ restored = [r \in Restores |-> Empty]
    /\ displaced = [r \in Restores |-> Empty]
    /\ journal = NoJournal
    /\ pc = "down" /\ job = NoRestore /\ application = Original
    /\ sessions = [s \in Sessions |-> Nothing]

-----------------------------------------------------------------------------
(* Sessions (get_db) and the database gate *)

\* Database maintenance ends with the swap and is claimed again only to reverse
\* or to seal: while the restored state starts, anybody may read it.
DatabaseOpen == \/ pc \in {"serving", "starting", "commit"}
                \/ pc = "drop" /\ job = application

\* Mutant: only the swap itself refuses sessions.
OpenSessionWaiting(s) ==
    /\ DatabaseOpen \/ pc \in {"closing", "revert", "sealing"}
    /\ sessions[s] = Nothing
    /\ sessions' = [sessions EXCEPT ![s] = live[Database]]
    /\ UNCHANGED <<disk, members, pc, job, application>>

OpenSession(s) ==
    /\ DatabaseOpen /\ sessions[s] = Nothing
    /\ sessions' = [sessions EXCEPT ![s] = live[Database]]
    /\ UNCHANGED <<disk, members, pc, job, application>>

CloseSession(s) ==
    /\ sessions[s] # Nothing
    /\ sessions' = [sessions EXCEPT ![s] = Nothing]
    /\ UNCHANGED <<disk, members, pc, job, application>>

\* DatabaseMaintenanceGate.maintenance has waited for every session.
Drained == \A s \in Sessions : sessions[s] = Nothing

-----------------------------------------------------------------------------
(* Staging *)

\* Both gates are claimed: admission is closed and executions are drained.
Close ==
    /\ pc = "serving"
    /\ pc' = "closing"
    /\ UNCHANGED <<disk, members, job, application, sessions>>

\* Refused or cancelled before anything was staged.
Reopen ==
    /\ pc = "closing"
    /\ pc' = "serving"
    /\ UNCHANGED <<disk, members, job, application, sessions>>

\* The restore point S is staged beside the live state and validated.
Stage(r, S) ==
    /\ pc = "closing" /\ Drained
    /\ members[r] = {} /\ Core \subseteq S
    /\ members' = [members EXCEPT ![r] = S]
    /\ restored' = [restored EXCEPT ![r] = [f \in Files |-> IF f \in S THEN r ELSE Nothing]]
    /\ pc' = "staged" /\ job' = r
    /\ UNCHANGED <<live, displaced, journal, application, sessions>>

\* _discard removes the staging directories; a removal that fails is ignored.
Discarding ==
    \/ /\ restored' = [restored EXCEPT ![job] = Empty]
       /\ displaced' = [displaced EXCEPT ![job] = Empty]
    \/ Faults /\ UNCHANGED <<restored, displaced>>

\* Refused before anything moved: validation, live executions, or the journal
\* of an earlier restore, which is not this restore's to remove.
Refuse ==
    /\ pc = "staged"
    /\ Discarding
    /\ pc' = "serving" /\ job' = NoRestore
    /\ UNCHANGED <<live, journal, members, application, sessions>>

-----------------------------------------------------------------------------
(* StagedRestore.activate *)

\* Mutant: the plan moves only the live files that will be replaced.
ActivateReplaced ==
    /\ pc = "staged" /\ journal = NoJournal
    /\ journal' = [of |-> job, out |-> {f \in members[job] : live[f] # Nothing},
                   in |-> members[job]]
    /\ pc' = "swap"
    /\ UNCHANGED <<live, restored, displaced, members, job, application, sessions>>

\* The journal, durably, before the first rename.
Activate ==
    /\ pc = "staged" /\ journal = NoJournal
    /\ journal' = [of |-> job, out |-> {f \in Files : live[f] # Nothing}, in |-> members[job]]
    /\ pc' = "swap"
    /\ UNCHANGED <<live, restored, displaced, members, job, application, sessions>>

Displaced == \A f \in journal.out : displaced[job][f] # Nothing

Displace(f) ==
    /\ pc = "swap" /\ f \in journal.out /\ displaced[job][f] = Nothing
    /\ displaced' = [displaced EXCEPT ![job][f] = live[f]]
    /\ live' = [live EXCEPT ![f] = Nothing]
    /\ UNCHANGED <<restored, journal, members, pc, job, application, sessions>>

Install(f) ==
    /\ pc = "swap" /\ Displaced
    /\ f \in journal.in /\ restored[job][f] # Nothing
    /\ live' = [live EXCEPT ![f] = restored[job][f]]
    /\ restored' = [restored EXCEPT ![job][f] = Nothing]
    /\ UNCHANGED <<displaced, journal, members, pc, job, application, sessions>>

\* The swap ran to its end.  A restore cancelled meanwhile will neither start
\* nor commit it: the process is sealed and the next start reverses it.
Swapped ==
    /\ pc = "swap" /\ Displaced
    /\ \A f \in journal.in : restored[job][f] = Nothing
    /\ pc' \in {"starting", "sealed"}
    /\ UNCHANGED <<disk, members, job, application, sessions>>

SwapFails ==
    /\ Faults /\ pc = "swap"
    /\ ~(Displaced /\ \A f \in journal.in : restored[job][f] = Nothing)
    /\ pc' = "undo"
    /\ UNCHANGED <<disk, members, job, application, sessions>>

-----------------------------------------------------------------------------
(* _reverse: the moves that stand, last first *)

Reversing == pc \in {"undo", "rollback", "recover"}

\* A restored file in place, its staging path free: move it back ...
InPlace(f) == f \in journal.in /\ live[f] # Nothing /\ restored[journal.of][f] = Nothing

\* ... and a displaced one whose live path is free.
Away(f) == f \in journal.out /\ displaced[journal.of][f] # Nothing /\ live[f] = Nothing

Uninstall(f) ==
    /\ Reversing /\ InPlace(f)
    /\ restored' = [restored EXCEPT ![journal.of][f] = live[f]]
    /\ live' = [live EXCEPT ![f] = Nothing]
    /\ UNCHANGED <<displaced, journal, members, pc, job, application, sessions>>

PutBack(f) ==
    /\ Reversing /\ Away(f)
    /\ \A g \in Files : ~InPlace(g)
    /\ live' = [live EXCEPT ![f] = displaced[journal.of][f]]
    /\ displaced' = [displaced EXCEPT ![journal.of][f] = Nothing]
    /\ UNCHANGED <<restored, journal, members, pc, job, application, sessions>>

\* Mutant: a swap that could not be reversed is refused like any other.
ReversalFailsOpen ==
    /\ Faults /\ Reversing
    /\ pc' = IF pc = "recover" THEN "down" ELSE "serving"
    /\ UNCHANGED <<disk, members, job, application, sessions>>

\* Neither state is whole: this process touches the stored state no more (a
\* start that fails ends, and leaves everything to the one after it).
ReversalFails ==
    /\ Faults /\ Reversing
    /\ pc' = IF pc = "recover" THEN "down" ELSE "sealed"
    /\ UNCHANGED <<disk, members, job, application, sessions>>

\* Mutant: the files the journal names go before the journal is done with.
ReversedEarly ==
    /\ Reversing
    /\ \A f \in Files : ~InPlace(f)
    /\ journal' = NoJournal
    /\ pc' = IF pc = "recover" THEN "sweep" ELSE "drop"
    /\ UNCHANGED <<live, restored, displaced, members, job, application, sessions>>

\* All reversed: the journal goes before the files it names.
Reversed ==
    /\ Reversing
    /\ \A f \in Files : ~InPlace(f) /\ ~Away(f)
    /\ journal' = NoJournal
    /\ pc' = IF pc = "recover" THEN "sweep" ELSE "drop"
    /\ UNCHANGED <<live, restored, displaced, members, job, application, sessions>>

-----------------------------------------------------------------------------
(* Starting the restored state, and its commit *)

\* It starts, or fails to (and the swap is to be rolled back), or its start is
\* cancelled (and the process to be sealed).
StartRestored ==
    /\ pc = "starting"
    /\ pc' \in {"commit", "sealing"} \cup (IF Faults THEN {"revert"} ELSE {})
    /\ UNCHANGED <<disk, members, job, application, sessions>>

\* Mutant: the files are moved back under the sessions opened since the swap.
RevertUndrained ==
    /\ pc \in {"revert", "sealing"}
    /\ pc' = IF pc = "revert" THEN "rollback" ELSE "sealed"
    /\ UNCHANGED <<disk, members, job, application, sessions>>

\* Database maintenance again: the sessions opened since the swap end first.  Cancelled
\* in that wait, the restore leaves everything as it is, unsealed.
Revert ==
    /\ pc \in {"revert", "sealing"}
    /\ pc' \in (IF Drained THEN {IF pc = "revert" THEN "rollback" ELSE "sealed"} ELSE {})
              \cup (IF CutShort /\ ~Drained THEN {"serving"} ELSE {})
    /\ job' = IF pc' = "serving" THEN NoRestore ELSE job
    /\ UNCHANGED <<disk, members, application, sessions>>

Commit ==
    /\ pc = "commit"
    /\ journal' = NoJournal
    /\ pc' = "drop" /\ application' = job
    /\ UNCHANGED <<live, restored, displaced, members, job, sessions>>

\* Admission is released on the way out of restore_backup.
Drop ==
    /\ pc = "drop"
    /\ Discarding
    /\ pc' = "serving" /\ job' = NoRestore
    /\ UNCHANGED <<live, journal, members, application, sessions>>

\* The removal of the journal raises.  A commit then leaves restore_backup
\* without replacing the application; a failed swap that was reversed leaves
\* it on the state put back; a rollback is unresolved; a start ends.
UnlinkRaises ==
    /\ Faults
    /\ \/ CommitFails /\ pc = "commit" /\ pc' = "serving"
       \/ /\ Reversing
          /\ \A f \in Files : ~InPlace(f) /\ ~Away(f)
          /\ pc' = CASE pc = "undo" -> "serving" [] pc = "rollback" -> "sealed"
                     [] pc = "recover" -> "down"
    /\ job' = NoRestore
    /\ UNCHANGED <<disk, members, application, sessions>>

-----------------------------------------------------------------------------
(* The process ends anywhere, and starts again *)

Crash ==
    /\ pc # "down"
    /\ pc' = "down" /\ job' = NoRestore
    /\ sessions' = [s \in Sessions |-> Nothing]
    /\ UNCHANGED <<disk, members, application>>

\* A displaced original whose place is taken by something else.
Conflicts == {f \in Files : journal # NoJournal
                /\ f \in journal.out /\ displaced[journal.of][f] # Nothing
                /\ live[f] # Nothing /\ ~InPlace(f)}

\* Mutant: a start that does not look for conflicts.
StartUnchecked ==
    /\ pc = "down"
    /\ pc' = IF journal # NoJournal THEN "recover" ELSE "sweep"
    /\ UNCHANGED <<disk, members, job, application, sessions>>

\* Mutant: a path is taken even where the reversal itself would free it.
StartOverCautious ==
    /\ pc = "down"
    /\ journal # NoJournal =>
          \A f \in journal.out : displaced[journal.of][f] = Nothing \/ live[f] = Nothing
    /\ pc' = IF journal # NoJournal THEN "recover" ELSE "sweep"
    /\ UNCHANGED <<disk, members, job, application, sessions>>

\* recover_interrupted_restore.  With a conflict nothing is moved and the
\* start ends, as it began, with the process down.
Start ==
    /\ pc = "down" /\ Conflicts = {}
    /\ pc' = IF journal # NoJournal THEN "recover" ELSE "sweep"
    /\ UNCHANGED <<disk, members, job, application, sessions>>

\* Abandoned staging goes, and the application starts over what is live.
Sweep ==
    /\ pc = "sweep"
    /\ \E left \in {{}} \cup (IF Faults THEN SUBSET Restores ELSE {}) :
          /\ restored' = [r \in Restores |-> IF r \in left THEN restored[r] ELSE Empty]
          /\ displaced' = [r \in Restores |-> IF r \in left THEN displaced[r] ELSE Empty]
    /\ pc' = "serving"
    /\ \E f \in Core : application' = live[f]
    /\ UNCHANGED <<live, journal, members, job, sessions>>

\* While no process runs, or one that does misses a file it needs, something
\* creates it anew; the operator may remove it again.
Recreate(f) ==
    /\ Faults /\ pc \in {"down", "serving"}
    /\ f \in Core /\ live[f] = Nothing
    /\ live' = [live EXCEPT ![f] = Foreign]
    /\ UNCHANGED <<restored, displaced, journal, members, pc, job, application, sessions>>

Remove(f) ==
    /\ pc = "down" /\ live[f] = Foreign
    /\ live' = [live EXCEPT ![f] = Nothing]
    /\ UNCHANGED <<restored, displaced, journal, members, pc, job, application, sessions>>

-----------------------------------------------------------------------------

Restore ==
    \/ Refuse \/ Activate \/ Swapped
    \/ \E f \in Files : Displace(f) \/ Install(f)
    \/ StartRestored \/ Revert \/ Commit \/ Drop

Reverse == Reversed \/ \E f \in Files : Uninstall(f) \/ PutBack(f)

Next ==
    \/ \E s \in Sessions : OpenSession(s) \/ CloseSession(s)
    \/ Close \/ Reopen
    \/ \E r \in Restores, S \in SUBSET Files : Stage(r, S)
    \/ Restore \/ Reverse
    \/ SwapFails \/ ReversalFails \/ UnlinkRaises
    \/ Crash \/ Start \/ Sweep
    \/ \E f \in Files : Recreate(f) \/ Remove(f)

Spec == Init /\ [][Next]_vars

\* The container is restarted, a process that has begun goes on and every session is
\* closed some time; failures and crashes end at some time.
Failure == Crash \/ SwapFails \/ ReversalFails \/ UnlinkRaises \/ \E f \in Files : Recreate(f)

Fairness ==
    /\ WF_vars(Restore \/ Reverse \/ Start \/ Sweep)
    /\ \A s \in Sessions : WF_vars(CloseSession(s))
    /\ <>[][~Failure]_vars

FairSpec == Spec /\ Fairness

-----------------------------------------------------------------------------
(* Properties *)

Contents == Generations \cup {Nothing, Foreign}

TypeOK ==
    /\ live \in [Files -> Contents]
    /\ restored \in [Restores -> [Files -> Contents]]
    /\ displaced \in [Restores -> [Files -> Contents]]
    /\ journal \in Moves \cup {NoJournal}
    /\ members \in [Generations -> SUBSET Files]
    /\ pc \in Steps
    /\ job \in Restores \cup {NoRestore}
    /\ application \in Generations
    /\ sessions \in [Sessions -> Contents]

\* What the live paths hold once the journal (if there is one) is reversed.
Settled ==
    [f \in Files |->
        IF journal = NoJournal THEN live[f]
        ELSE IF f \in journal.out /\ displaced[journal.of][f] # Nothing
             THEN displaced[journal.of][f]
        ELSE IF InPlace(f) THEN Nothing
        ELSE live[f]]

\* At every step of a swap, of its reversal and of the recovery, whatever
\* failed and wherever the process ended, one complete generation can be put
\* back: nothing is mixed, nothing is deleted that is still needed.
Recoverable == \E g \in Generations : Settled = Whole(g)

\* What is served is one whole generation, and the application serving it was
\* composed over that generation.
ServesItsOwn == pc = "serving" => live = Whole(application)

\* restore_backup: "The pre-restore application stays closed while the restored
\* state starts, and is never reopened."
PreRestoreStaysClosed ==
    pc = "serving" => \A f \in Core : live[f] \in Restores => application = live[f]

\* No session outlives the database it was opened on: whatever the restore moves
\* there or back, it does so with no connection open to the file that goes.
SessionsStand == \A s \in Sessions : sessions[s] \in {Nothing, live[Database]}

\* The disk, as the next start would leave it, changes in one step, and only
\* what it holds is ever served.
Atomic == INSTANCE AtomicRestore WITH
            stored <- Settled,
            served <- IF pc = "serving" THEN live ELSE Empty

ReplacedAtomically == Atomic!Spec

\* A restore that has begun to move files ends, although it waits without a time limit
\* for whoever reads the database meanwhile: committed, put back, sealed or down.
RestoreEnds == journal # NoJournal /\ job # NoRestore ~> pc \in {"serving", "sealed", "down"}

\* The start after a crash ends with one state served again; only a file that
\* took the place of a displaced one stops it.
RecoveryCompletes == pc = "down" ~> (pc = "serving" \/ Conflicts # {})
=============================================================================
