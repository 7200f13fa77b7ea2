--------------------------- MODULE RuntimeBandwidth ---------------------------
(***************************************************************************)
(* The one global download-bandwidth allocator: a cap split equally between *)
(* the executors that hold a reservation.  Admissions, the reads of the     *)
(* operator and the release of absent executors run under the engine's      *)
(* dispatch lock; the reconcile cycle's reservation facts do not.  A task   *)
(* awaits at every executor call, so each call is one action; an admission  *)
(* and the start of the native work it admitted are two.                    *)
(*                                                                         *)
(* Every executor of the repository declares the ceiling and none declares  *)
(* an acquisition gate: the branches for the others are left out.           *)
(***************************************************************************)
EXTENDS Integers, FiniteSets, FiniteSetsExt

CONSTANTS
    Executors,      \* aria2, rsync, media, sabnzbd
    Caps,           \* max_download_bytes_per_second values configured; 0 = unlimited
    StartLimit,     \* bound: attempts of one executor admitted and not yet started
    Unassigned,     \* no ceiling was ever assigned by this process
    None            \* a ceiling that could not be confirmed; no executor; no share

ASSUME ExecutorsAssumption == IsFiniteSet(Executors) /\ None \notin Executors
ASSUME CapsAssumption == Caps \subseteq Nat
ASSUME StartLimitAssumption == StartLimit \in Nat \ {0}
ASSUME CeilingAssumption == Unassigned \notin Nat /\ None \notin Nat /\ Unassigned # None

VARIABLES
    configured,     \* _configured
    patched,        \* history: configured has changed and nothing converged since
    reserved,       \* _reserved
    seeded,         \* _seeded
    assigned,       \* _assigned
    error,          \* _error is not None
    unproven,       \* _unproven
    ceiling,        \* the ceiling each executor really enforces (0: none)
    starting,       \* how many attempts are admitted and prepared but not started
    job,            \* the executor's native work: none, live, or ended unrecorded
    facts,          \* the reservation facts the cycle gathered and not yet used
    op,             \* what the lock's holder and the cycle are in the middle of
    overlapped      \* history: the two were, since the process started, at one time

vars == <<configured, patched, reserved, seeded, assigned, error, unproven,
          ceiling, starting, job, facts, op, overlapped>>

policy == <<configured, patched, reserved, seeded, assigned, error, unproven>>
work   == <<starting, job, facts>>

Lock  == "lock"
Cycle == "cycle"

\* What converges, and on whose behalf.
Converging == {"read", "release", "abandon", "observe"}

Op(at, share, todo, who) == [at |-> at, share |-> share, todo |-> todo, who |-> who]

Idle == Op("idle", None, {}, None)

NoFacts == [e \in Executors |-> "none"]

Init ==
    /\ configured \in Caps /\ patched = FALSE
    /\ reserved = {} /\ seeded = FALSE
    /\ assigned = [e \in Executors |-> Unassigned]
    /\ error = FALSE /\ unproven = {}
    /\ ceiling = [e \in Executors |-> 0]
    /\ starting = [e \in Executors |-> 0]
    /\ job = [e \in Executors |-> "none"]
    /\ facts = NoFacts
    /\ op = [p \in {Lock, Cycle} |-> Idle]
    /\ overlapped = FALSE

-----------------------------------------------------------------------------
(* Helpers of the coordinator *)

\* Mutant: what is left once every other executor has its least.
ShareLeft(n) ==
    LET share == configured - (n - 1)
    IN  IF configured = 0 \/ share >= 1 THEN share ELSE None

\* _share: 0 only for an unlimited cap; None when there is no positive share.
Share(n) ==
    LET share == configured \div (IF n = 0 THEN 1 ELSE n)
    IN  IF configured = 0 \/ share >= 1 THEN share ELSE None

\* executors_with_live_work: an attempt counts from the row that prepares it.
LiveWork == {e \in Executors : job[e] # "none" \/ starting[e] > 0}

\* _seed: executors with live work keep, or get, a reservation.
Seeded == IF seeded THEN reserved ELSE reserved \cup LiveWork

\* One _apply: the ceiling is confirmed, or it is not (the executor is down, the
\* answer lost, or 0 would be told under a finite cap) and may hold or not.
Confirm(e, c) ==
    /\ ~(configured > 0 /\ c = 0)
    /\ ceiling' = [ceiling EXCEPT ![e] = c]
    /\ assigned' = [assigned EXCEPT ![e] = c]

FailToConfirm(e, c) ==
    /\ \/ ceiling' = ceiling
       \/ ~(configured > 0 /\ c = 0) /\ ceiling' = [ceiling EXCEPT ![e] = c]
    /\ assigned' = [assigned EXCEPT ![e] = None]

\* Mutant: a finite cap is told only to executors that were told one before.
StartConvergeKnown(p, at, R, A) ==
    LET share == Share(Cardinality(R))
        todo  == IF configured = 0 THEN {e \in Executors : A[e] \notin {0, Unassigned}}
                 ELSE IF share = None THEN {} ELSE {e \in R : A[e] # Unassigned}
    IN  /\ reserved' = R /\ seeded' = TRUE /\ patched' = FALSE
        /\ unproven' = IF share = None THEN R ELSE {}
        /\ error' = (share = None)
        /\ op' = [op EXCEPT ![p] = IF todo = {} THEN Idle ELSE Op(at, share, todo, None)]

\* converge over the reservations R, up to its first executor call; p then goes
\* through todo.  A is _assigned.
StartConverge(p, at, R, A) ==
    LET share == Share(Cardinality(R))
        todo  == IF configured = 0 THEN {e \in Executors : A[e] \notin {0, Unassigned}}
                                   ELSE IF share = None THEN {} ELSE R
    IN  /\ reserved' = R /\ seeded' = TRUE /\ patched' = FALSE
        /\ unproven' = IF share = None THEN R ELSE {}
        /\ error' = (share = None)
        /\ op' = [op EXCEPT ![p] = IF todo = {} THEN Idle ELSE Op(at, share, todo, None)]

\* After a step: did the lock's holder and the cycle meet?
Meeting(touched) ==
    overlapped' = (overlapped \/ (op'[Lock] # Idle /\ op'[Cycle] # Idle) \/ touched)

-----------------------------------------------------------------------------
(* Configuration and the operator's reads *)

\* configure_runtime_limits takes no lock.
Configure(c) ==
    /\ ~patched /\ c # configured
    /\ configured' = c /\ patched' = TRUE
    /\ UNCHANGED <<reserved, seeded, assigned, error, unproven, ceiling, work, op, overlapped>>

\* converge_runtime_limits: GET, and PATCH after it has configured.
Read ==
    /\ op[Lock] = Idle
    /\ StartConverge(Lock, "read", Seeded, assigned)
    /\ Meeting(op[Cycle] # Idle)
    /\ UNCHANGED <<configured, assigned, ceiling, work>>

\* Mutant: an executor that failed is left out, but nothing remembers it.
ConvergeForgetful(p) ==
    /\ op[p].at \in Converging
    /\ \E e \in op[p].todo :
          /\ \/ Confirm(e, op[p].share) /\ UNCHANGED <<error, unproven>>
             \/ FailToConfirm(e, op[p].share) /\ error' = TRUE /\ unproven' = unproven
          /\ op' = [op EXCEPT ![p] = IF op[p].todo = {e} THEN Idle
                                     ELSE [op[p] EXCEPT !.todo = @ \ {e}]]
    /\ UNCHANGED <<configured, patched, reserved, seeded, work, overlapped>>

\* The next executor of a convergence; the last one ends it.
Converge(p) ==
    /\ op[p].at \in Converging
    /\ \E e \in op[p].todo :
          /\ \/ Confirm(e, op[p].share) /\ UNCHANGED <<error, unproven>>
             \/ FailToConfirm(e, op[p].share) /\ error' = TRUE /\ unproven' = unproven \cup {e}
          /\ op' = [op EXCEPT ![p] = IF op[p].todo = {e} THEN Idle
                                     ELSE [op[p] EXCEPT !.todo = @ \ {e}]]
    /\ UNCHANGED <<configured, patched, reserved, seeded, work, overlapped>>

-----------------------------------------------------------------------------
(* admit, for a dispatch or a native resume *)

\* Admitted: the attempt is prepared under the same lock, to be started, or the
\* dispatch is given up after all.
Admitted(e) ==
    \/ starting' = starting
    \/ starting[e] < StartLimit /\ starting' = [starting EXCEPT ![e] = @ + 1]

\* The executor answers its health check and the way is decided.
Admit(e) ==
    LET R     == Seeded
        share == Share(Cardinality(R \cup {e}))
    IN
    /\ op[Lock] = Idle
    /\ seeded' = TRUE
    /\ \/ /\ error' = TRUE                       \* not ready, or no share
          /\ reserved' = R
          /\ UNCHANGED <<starting, op>>
       \/ /\ configured = 0
          /\ reserved' = R \cup {e}
          /\ Admitted(e)
          /\ UNCHANGED <<error, op>>
       \/ /\ configured > 0 /\ share # None /\ reserved' = R
          /\ IF e \in R /\ assigned[e] = share
             THEN Admitted(e) /\ op' = op
             ELSE /\ op' = [op EXCEPT ![Lock] = IF e \in R THEN Op("own", share, {}, e)
                                                ELSE Op("newcomer", share, R, e)]
                  /\ starting' = starting
          /\ UNCHANGED error
    /\ Meeting(op[Cycle] # Idle)
    /\ UNCHANGED <<configured, patched, assigned, unproven, ceiling, job, facts>>

\* A reserved executor without its current share gets that first.
AdmitOwn ==
    LET e == op[Lock].who IN
    /\ op[Lock].at = "own"
    /\ \/ Confirm(e, op[Lock].share) /\ Admitted(e) /\ error' = error
       \/ FailToConfirm(e, op[Lock].share) /\ starting' = starting /\ error' = TRUE
    /\ op' = [op EXCEPT ![Lock] = Idle]
    /\ UNCHANGED <<configured, patched, reserved, seeded, unproven, job, facts, overlapped>>

\* Mutant: the newcomer is counted in before the others have shrunk.
ShrinkNot ==
    LET e == op[Lock].who
        share == op[Lock].share
    IN
    /\ op[Lock].at = "newcomer"
    /\ \/ /\ Confirm(e, share) /\ Admitted(e)
          /\ reserved' = reserved \cup {e}
          /\ op' = [op EXCEPT ![Lock] = Idle]
          /\ UNCHANGED <<patched, seeded, error, unproven>>
       \/ /\ FailToConfirm(e, share) /\ starting' = starting
          /\ StartConverge(Lock, "abandon", reserved, assigned')
    /\ UNCHANGED <<configured, job, facts, overlapped>>

\* A newcomer: every executor with another share is told the smaller one first,
\* then the newcomer, and only then does it count.  If one of them does not
\* confirm (_abandon_newcomer), the share is split again without the newcomer.
AdmitNewcomer ==
    LET e     == op[Lock].who
        share == op[Lock].share
        left  == {f \in op[Lock].todo : assigned[f] # share}
    IN
    /\ op[Lock].at = "newcomer"
    /\ \/ \E f \in left :
             /\ Confirm(f, share)
             /\ op' = [op EXCEPT ![Lock].todo = @ \ {f}]
             /\ UNCHANGED <<starting, patched, reserved, seeded, error, unproven>>
       \/ /\ left = {}
          /\ Confirm(e, share) /\ Admitted(e)
          /\ reserved' = reserved \cup {e}
          /\ op' = [op EXCEPT ![Lock] = Idle]
          /\ UNCHANGED <<patched, seeded, error, unproven>>
       \/ /\ \E f \in IF left = {} THEN {e} ELSE left : FailToConfirm(f, share)
          /\ StartConverge(Lock, "abandon", reserved, assigned')
          /\ starting' = starting
    /\ UNCHANGED <<configured, job, facts, overlapped>>

-----------------------------------------------------------------------------
(* The reconcile cycle: observe, and release_absent at its end *)

\* What one round saw of each executor with durable work: a reservation is
\* still required, is not, or nobody knows.  An attempt that was prepared but
\* not started is missed by the round's list, or seen as absent.
Gather ==
    /\ op[Cycle] = Idle /\ op[Lock].at # "release" /\ facts = NoFacts
    /\ facts' \in {F \in [Executors -> {"none", "required", "free", "uncertain"}] :
                     \A e \in Executors :
                        F[e] \in CASE job[e] = "live"  -> {"required", "uncertain"}
                                   [] job[e] = "ended" -> {"free", "uncertain"}
                                   [] job[e] = "none"  ->
                                        {"none"} \cup IF starting[e] > 0
                                                      THEN {"free", "uncertain"} ELSE {}}
    /\ UNCHANGED <<policy, ceiling, starting, job, op, overlapped>>

\* Mutant: an executor that was never admitted is not taken up.
ObserveReleases ==
    LET freed == {e \in Seeded : facts[e] = "free"} IN
    /\ op[Cycle] = Idle /\ facts # NoFacts
    /\ IF freed # {}
       THEN StartConverge(Cycle, "observe", Seeded \ freed, assigned)
       ELSE /\ reserved' = Seeded /\ seeded' = TRUE
            /\ UNCHANGED <<patched, error, unproven, op>>
    /\ facts' = NoFacts
    /\ Meeting(freed # {} /\ op[Lock] # Idle)
    /\ UNCHANGED <<configured, assigned, ceiling, starting, job>>

\* observe: the facts, by now as old as the round, change the reservations, and
\* a change converges.  The dispatch lock is not taken.
Observe ==
    LET freed    == {e \in Seeded : facts[e] = "free"}
        acquirer == {e \in Executors \ Seeded : facts[e] = "required"}
        changed  == freed \cup acquirer # {}
    IN
    /\ op[Cycle] = Idle /\ facts # NoFacts
    /\ IF changed
       THEN StartConverge(Cycle, "observe", (Seeded \ freed) \cup acquirer, assigned)
       ELSE /\ reserved' = Seeded /\ seeded' = TRUE
            /\ UNCHANGED <<patched, error, unproven, op>>
    /\ facts' = NoFacts
    /\ Meeting(changed /\ op[Lock] # Idle)
    /\ UNCHANGED <<configured, assigned, ceiling, starting, job>>

\* release_absent, under the lock: no durable live work, no reservation.
ReleaseAbsent ==
    /\ op[Lock] = Idle /\ op[Cycle] = Idle /\ facts = NoFacts
    /\ IF Seeded \subseteq LiveWork
       THEN /\ reserved' = Seeded /\ seeded' = TRUE
            /\ UNCHANGED <<patched, error, unproven, op>>
       ELSE StartConverge(Lock, "release", Seeded \cap LiveWork, assigned)
    /\ UNCHANGED <<configured, assigned, ceiling, work, overlapped>>

-----------------------------------------------------------------------------
(* Native work, and the process *)

\* executor.start, resume or start_with_input, awaits after the admission: by
\* then cap, shares and reservations may be others.  It may also fail.
Start(e) ==
    /\ starting[e] > 0
    /\ starting' = [starting EXCEPT ![e] = @ - 1]
    /\ \/ job' = [job EXCEPT ![e] = "live"]
       \/ job' = [job EXCEPT ![e] = IF @ = "none" THEN "ended" ELSE @]
    /\ UNCHANGED <<policy, ceiling, facts, op, overlapped>>

JobEnds(e) ==
    /\ job[e] = "live"
    /\ job' = [job EXCEPT ![e] = "ended"]
    /\ UNCHANGED <<policy, ceiling, starting, facts, op, overlapped>>

\* The end is recorded: the executor has no durable live work any more.
RecordEnd(e) ==
    /\ job[e] = "ended"
    /\ job' = [job EXCEPT ![e] = "none"]
    /\ UNCHANGED <<policy, ceiling, starting, facts, op, overlapped>>

\* Durable work (of a start that never happened too) and the configuration stay;
\* a ceiling outlives the process where another program enforces it.
Restart ==
    /\ patched' = FALSE /\ reserved' = {} /\ seeded' = FALSE
    /\ assigned' = [e \in Executors |-> Unassigned]
    /\ error' = FALSE /\ unproven' = {}
    /\ ceiling' \in {C \in [Executors -> {0} \cup {ceiling[e] : e \in Executors}] :
                       \A e \in Executors : C[e] \in {0, ceiling[e]}}
    /\ facts' = NoFacts
    /\ op' = [p \in {Lock, Cycle} |-> Idle]
    /\ overlapped' = FALSE
    /\ starting' = [e \in Executors |-> 0]
    /\ job' = [e \in Executors |-> IF job[e] = "none" /\ starting[e] > 0 THEN "ended" ELSE job[e]]
    /\ UNCHANGED configured

-----------------------------------------------------------------------------

Next ==
    \/ \E c \in Caps : Configure(c)
    \/ Read
    \/ \E p \in {Lock, Cycle} : Converge(p)
    \/ \E e \in Executors : Admit(e)
    \/ AdmitOwn \/ AdmitNewcomer
    \/ Gather \/ Observe \/ ReleaseAbsent
    \/ \E e \in Executors : Start(e) \/ JobEnds(e) \/ RecordEnd(e)
    \/ Restart

Spec == Init /\ [][Next]_vars

\* Every call to an executor returns, the cycle goes round and round, and each
\* executor can be observed with certainty again and again; the process does
\* not restart for ever.
Fairness ==
    /\ \A p \in {Lock, Cycle} : WF_vars(Converge(p))
    /\ WF_vars(AdmitOwn \/ AdmitNewcomer) /\ WF_vars(Observe)
    /\ WF_vars(Gather)
    /\ \A e \in Executors : SF_vars(Gather /\ facts'[e] # "uncertain")
    /\ <>[][~Restart]_vars

FairSpec == Spec /\ Fairness

-----------------------------------------------------------------------------
(* Properties *)

Ceilings == Nat \cup {None, Unassigned}

OpType == [at : {"idle", "newcomer", "own"} \cup Converging, share : Nat \cup {None},
           todo : SUBSET Executors, who : Executors \cup {None}]

TypeOK ==
    /\ configured \in Caps /\ patched \in BOOLEAN
    /\ reserved \subseteq Executors /\ seeded \in BOOLEAN
    /\ assigned \in [Executors -> Ceilings]
    /\ error \in BOOLEAN /\ unproven \subseteq Executors
    /\ ceiling \in [Executors -> Nat]
    /\ starting \in [Executors -> 0 .. StartLimit]
    /\ job \in [Executors -> {"none", "live", "ended"}]
    /\ facts \in [Executors -> {"none", "required", "free", "uncertain"}]
    /\ op \in [{Lock, Cycle} -> OpType]
    /\ overlapped \in BOOLEAN

\* A convergence still has to speak to e.
Pending(e) == \E p \in {Lock, Cycle} : op[p].at \in Converging /\ e \in op[p].todo

\* While lock and cycle keep out of each other's way: under a finite cap every
\* reserved executor whose ceiling counts as confirmed enforces no more than
\* its equal share (so that together they stay within the cap), in the middle
\* of an admission, a release or a failure as well.
SharesBounded ==
    ~overlapped /\ ~patched /\ configured > 0 =>
        \A e \in reserved \ unproven :
            assigned[e] \in Nat /\ ~Pending(e) =>
                0 < ceiling[e] /\ ceiling[e] * Cardinality(reserved) <= configured

\* A cap that was lifted leaves no executor throttled, unless it is reported
\* unproven.
LiftedWhenUnlimited ==
    ~overlapped /\ ~patched /\ configured = 0 =>
        \A e \in Executors \ unproven : assigned[e] \in {0, Unassigned} \/ Pending(e)

\* The ceiling that e enforces is a confirmed one.
Proved(e) == assigned[e] \in Nat /\ assigned[e] > 0 /\ ceiling[e] = assigned[e]

\* "The executor's assigned ceiling is proven before its native acquisition may
\* begin".  Under a finite cap nothing is admitted on an executor that does not
\* enforce a confirmed ceiling; and when what was admitted begins, awaits later
\* and whatever the cap was at its admission, the executor enforces one still,
\* or a convergence is about to tell it, or the cap is reported unproven.  Not
\* so while nothing has converged since the cap changed, and not on an executor
\* whose reservation stale facts released.
AcquiresUnderCeiling ==
    [][\A e \in Executors : configured > 0 =>
            /\ starting'[e] > starting[e] => Proved(e)'
            /\ (starting'[e] < starting[e] /\ job'[e] = "live" /\ ~patched /\ e \in reserved)
                  => Proved(e) \/ Pending(e) \/ error]_vars

\* A reservation that stale facts released is taken up again as long as the
\* executor works: the cap is exceeded for a round, not for good.
LiveIsReservedAgain ==
    \A e \in Executors :
        (job[e] = "live" /\ e \notin reserved) ~> (job[e] # "live" \/ e \in reserved)

\* The rule an unlocked observe breaks: "adding an executor under a finite cap
\* shrinks every existing reserved executor first".  Nothing is in progress,
\* every share is confirmed, status() reports the cap proven: it is respected.
WithinCapAtRest ==
    (/\ \A p \in {Lock, Cycle} : op[p] = Idle
     /\ configured > 0 /\ ~patched /\ ~error /\ unproven = {}
     /\ \A e \in reserved : assigned[e] \in Nat /\ job[e] = "live")
        => MapThenSumSet(LAMBDA e : ceiling[e], reserved) <= configured
=============================================================================
