# Verification of DebridPulse's transfer core

TLA+ models of the parts of DebridPulse in which several asyncio tasks, native
download programs, crashes and restarts meet; TLC runs that check them on small
instances; and proofs, checked by TLAPS, of their main properties for every
value of the constants. Source paths below are relative to `src/` of the
project (`src/backend/...` in `PROJECT.json`).

Modules at a glance:

| Component | Specification | Abstract specification | Instances | Proofs |
|---|---|---|---|---|
| Execution lifecycle | `ExecutionLifecycle` | `WriterLedger` | `MCExecutionLifecycle`, `Execution*.cfg` | `ExecutionLifecycleProofs`, `WriterLedgerProofs` |
| Restore swap | `RestoreSwap` | `AtomicRestore` | `Restore*.cfg` | `RestoreSwapProofs` |
| Maintenance gates | `MaintenanceGates` | `ExclusiveAdmission` | `MaintenanceGates.cfg` | `MaintenanceGatesProofs` |
| Bandwidth allocator | `RuntimeBandwidth` | – | `MCRuntimeBandwidth`, `Bandwidth*.cfg` | `RuntimeBandwidthProofs`, on `FiniteSums` |
| Recovery | `RecoveryClaims` | – | `RecoveryClaims.cfg` | `RecoveryClaimsProofs` |
| Provider resources | `ProviderResources` | – | `MCProviderResources`, `ProviderResources.cfg` | `ProviderResourcesProofs` |

Run a model with `tlc -workers 2 -config X.cfg M`, a proof with `tlapm M.tla`.

## 1. The system

DebridPulse is one Python process (FastAPI, one asyncio event loop, SQLite) that
accepts links, magnets and NZBs, records each as a durable *transfer* with
*files* (artifacts), lets *providers* resolve them into candidates and
*executors* (aria2, rsync, yt-dlp, SABnzbd: separate programs) download them.
The scheduler runs a *reconcile cycle* again and again; HTTP requests run
controls (Pause, Resume, Retry, Cancel, Delete, configuration, backup) on the
same event loop. Tasks interleave at every `await`; there is no global lock.
Authority is durable: rows say which attempt may write a file, and executors ask
the rows before they act.

### Components

* **Execution lifecycle** (`transfers/_engine_base.py`, `_repository_base.py`,
  `repository.py`, `convergence_engine.py`, `candidate_activation.py`).
  State: `torrents.status` and the pause intent, `download_files.status` and
  `execution_attempt_id`, and per attempt `state`, `authorized`,
  `cleanup_state`. Operations: prepare and start, observe, pause and retire,
  resume, retry, stall fencing, recovery and requeue, completion verification,
  cancel, delete, the cleanup pass. Hard: native starts and cancellations run
  outside every lock; observations are up to a round old when recorded; answers
  are lost; the process restarts between a row and the effect it announces.
  Correct when: a running native job is always owned by an authorized, current
  attempt; a file never has two writers; nothing is delivered for an ended
  transfer; every writer left running is stopped in the end.
* **Restore swap** (`services/backup.py`, `application/lifetime.py`). State:
  the live database, configuration and avatar, staging and displaced
  directories, the journal, and which application serves. Hard: a crash, a
  failing rename or a cancellation between any two moves, and again during the
  reversal at the next start. Correct when one complete state can always be put
  back, and only a whole state is served, by the application composed over it.
* **Maintenance gates** (`services/maintenance_gate.py`, `db/database.py`).
  State: the nesting depth of each task, two counters, the owners, the seal.
  Hard: nested operations, a task that upgrades its own admission, time-outs
  and cancellations while draining, a drain without a time limit. Correct when
  the holder of a drained gate works alone, counters neither leak nor forget,
  and a sealed process touches nothing.
* **Bandwidth allocator** (`transfers/runtime_coordination.py`). State: the cap,
  the reservations, the confirmed share per executor, what is unproven. Hard:
  executor calls that fail in the middle of a split, stale facts from the cycle,
  and one caller that does not take the lock. Correct when the shares never add
  up to more than the cap and no executor is admitted, or begins what was admitted,
  without a confirmed ceiling or a report that it is unproven.
* **Recovery** (`recovery_repository.py`, `policy.py`, `convergence_engine.py`,
  `candidate_activation.py`). State: per file the claim (token, lease), its
  quiescence, the epoch and what it has spent (failures, refreshes), the
  decision being applied, the refresh in flight, the routes tried. Operations:
  every trigger (an ended writer, a wake, Retry, Resume, a switch, start-up)
  claims, reconciles, decides, applies, finishes. Hard: claims end under their
  owner (Pause, expiry, restart) between any two transactions, a provider call
  in between takes minutes, some writes are not fenced by the claim. Correct
  when the provider is asked once per charge, budgets bind, Pause lets nobody
  at work past another check, and no failure is left undecided.
* **Provider resources** (`_repository_base.py`, `_engine_base.py`, `engine.py`):
  the generations of a submission, the resolution of a root, what it made at the
  provider, and the cleanup of it. Hard: calls whose outcome is unknown, answers
  for a root that has been cancelled, deleted or rerouted meanwhile, a new
  generation of the same source while the old one's cleanup is owed, objects the
  user has and DebridPulse merely found. Correct when nothing made is forgotten,
  nothing is made twice, and nothing is removed that is in use or not ours.
* **Aggregation, admission, consolidation** (`_repository_base.py`,
  `cohorts.py`, `canonical.py`, `mirrors.py`): the status of a transfer from the
  statuses of its files; objects found equal are fetched once.
* **Candidate and provider choice** (`candidate_activation.py`,
  `manual_route_switch.py`, `provider_choice.py`, ...): which candidate follows.
* **Transient input** (`input_required.py`, `staged_input.py`): challenges
  answered by the operator, each answer used once.
* **Archive postprocessing, material and continuation, providers and
  integrations, API and frontend, authentication, scheduler**: see
  `PROJECT.json` for why each is left out or how it appears.

Interaction: the scheduler and the API call the engine; the engine admits
through the allocator, prepares rows through the repository and calls executors;
executors call back into the repository for authority; requests enter the
application gate and the database gate; a restore drains executions, then both
gates, and swaps the files below all of them. The six modules meet at narrow
points (a dispatch asks the allocator; the restore asks that no execution is
live and claims both gates; a recovery decides what writer a file gets next;
a transfer's end leaves its resources to the cleanup). Each states the others'
part as its environment: `RecoveryClaims` knows a writer only as "runs, ends with
an error", `ExecutionLifecycle` knows a recovery only as "requeues or not", and
`RestoreSwap` contains the database gate as far as the swap depends on it.

`PROJECT.json` lists the hazards of this code at the lines where they bite, with
the properties that would notice.

## 2. What is modelled

### ExecutionLifecycle and WriterLedger

One file of one transfer and any number of attempts. A task is a step counter
(`task[t].at`), the attempt it works on, what it last saw of it, and whether
that observation is still fresh (`_execution_writes`, a process-local count).
Each action is the code between two awaits; `PROJECT.json` "map" names the lines.

| Model | Code |
|---|---|
| `Prepare`, `CheckStart`, `Launch`, `RecordStart` | `prepare_execution`; aria2's authority check; its submission; `_dispatch`'s record |
| `Observe`, `Converge`, `RecordObserved`, `Decide` | `reconcile_executions`, `_converge_execution`, `_execution_result` |
| `Fence`, `RecordFence` | `_cancel_execution` of a stalled writer or of an ended transfer's |
| `Pause`, `ConvergeControl`, `Retire`, `StopWriter`, `RecordRetired`, `Detach` | `pause`, `retire_writer`, `detach_retired_writer`, under `_convergence_lock` |
| `Resume`, `Retry`, `Wake`, `Reconcile`, `RecordReconciled`, `Requeue` | `resume`, `retry`, quiescence wake, `_reconcile_current`, `transition_recovery` |
| `Verify`, `Accept`, `Commit`, `Reject`, `Aggregate` | `_verify_succeeded`, `record_materialization`, `artifact_state` |
| `Cancel`, `Delete`, `Pass` ... `Complete` | `cancel_with_execution_cleanup`, `delete`, `_cleanup_executions_pending` |
| `Record`, `Accepts` | `repository.execution`: which observation a row accepts, and what it makes stale |

`overtaken` is a history variable: attempts whose start was past its last
authority check when a stop of them was recorded, was about to be recorded
unconditionally, or their authority was withdrawn. The properties of running
writers speak of the others; the run `ExecutionOrphan` shows what happens to an
overtaken one.

`WriterLedger` is what the rows promise of the writers: responsibility for an
attempt is taken before its work begins, is given up only when no work is left,
and is never taken again; work is done by one writer at a time. `Ledger` maps the
model to it: an attempt is "new" before its row exists, "held" while it is
authorized, "released" after that, and "lost" once it is overtaken (`Lose`); its work
is the native job. Each step of the model maps to one step of the ledger, about
one attempt, or to none; which of the eight paths withdrew the authority, and on
which observation, is what the ledger abstracts from.

Abstractions: the executor state "queued" counts as running; parking executors
and native resume, input-required starts, candidate and source switches,
capacity ranking, recovery claims and budgets are left out (a recovery may do
nothing, which is what a lost claim does; a stalled writer and a spent
destructive budget are choices). A transfer that has ended stays ended. A
blocked cleanup counts as pending. The revocation in `execution` on an ownership
conflict only reaches attempts that already lost their authority.

### RestoreSwap and AtomicRestore

Each action is one durable change: the journal, a rename, its reversal, the
removal of the journal, the removal of staging. `live`, `restored`, `displaced`
and `journal` are the disk and survive `Crash`; `pc`, `job` are the process. The
order of renames within the displacing or the installing half is left open,
which includes the order the code uses. `Settled` is what reversing the journal
would leave, and refines `AtomicRestore!stored`: on the abstract level a restore
replaces the stored state in one step. The crash is a crash of the process: the
model has no disk that reorders renames or loses them after a power failure.

`sessions[s]` is the generation whose database file session `s` has open. A
session opens where the database gate lets it (`DatabaseOpen`): while
the application serves, and again while the restored state starts, because the
gate is released before the start and a GET request passes no other gate; what
such a request reads then it reads through the pre-restore application. A
restore that has to go back closes the gate and waits for the sessions
(`Revert`); one that fails before waits for nobody new.

Two parameters say what may go wrong at the end. `CommitFails`: the unlink of the
journal at the commit may raise. `CutShort`: the restore may be cancelled while it
waits for sessions, before its rollback or its seal. Either leaves the restored
files under the pre-restore application; `RestoreCommit` shows it for the
first, and `CutShort = TRUE, CommitFails = FALSE` in that file for the second. The
run `RestoreSwap` has neither, and the three theorems that need it assume so.

### MaintenanceGates and ExclusiveAdmission

Both gates, nested as the restore and the wipe nest them, and the seal. A
request is one task; a task's operations nest up to `MaxDepth`. The maintenance
owner's own operations and sessions are not counted by the code and so are left
out.

The gates' own actions have the guards that the gates check and no others. That
a task asks for a gate only when it has no session of its own open, and for the
database's only inside its application maintenance, is not checked by them: it is an assumption
about the callers, read off the call sites and kept apart in `AskMaintenance` and
`AskDatabase`. A caller that broke it would wait for itself, and no property
would notice. The middleware and the endpoint of a request are different Starlette tasks
(`main.py:262`): that a new route claims maintenance inside a counted request is
a hazard the model does not cover.

### RuntimeBandwidth

One action per executor call, because a task awaits there. `op[Lock]` is what
the holder of the dispatch lock is in the middle of, `op[Cycle]` the cycle's
unlocked `observe`. `ceiling` is what the executor really enforces, `assigned`
what the coordinator believes; a call that fails may have taken effect. One
`_apply` (health, set, record) is one action. An admission and the start of the
work it admitted are two: `starting[e]` counts the attempts that are prepared
under the lock and start outside it, awaits later (`Start`). A patch of the cap or the
cycle's `observe` may come in between, so `AcquiresUnderCeiling` says two things.
Nothing is *admitted* under a finite cap on an executor that does not enforce a
confirmed ceiling. And what *begins* under one, whatever the cap was when it was
admitted, does so on an executor that enforces its ceiling, or is about to be told, or
while the cap is reported unproven. It exempts the two cases in which the code
lets work begin without any of these: nothing has converged since the cap was
patched, and stale facts have released the executor's reservation since (until
the next round takes it up again, `LiveIsReservedAgain`). `patched` (the cap changed and
nothing has converged) and `overlapped` (lock and cycle were in the middle of
something at one time) are history variables. The acquisition gate is left out:
no executor of the repository declares one.

### RecoveryClaims

The recovery of one file with any number of routes (candidates). Tasks are the
reconcile cycle and operator commands; every database transaction is one action.
`owner` is the claim token's holder, `lapsed` that its lease has passed; a
transaction that the code fences starts with `Holds(t)`. `task[t]` is what a task
carries between transactions: what triggered it, the error it judges, the
decision (`key` = epoch, failure count, error, action), the refresh attempt.

| Model | Code |
|---|---|
| `Notice`, `Startup`, `Retry`, `Switch`, `Resume`, `Pause` | `reconcile_executions`, `_retry_actionable`, `activate_candidate_command`, `resume`, `set_pause_and_fence` |
| `Claim`, `Renew`, `Finish`, `Lapse` | `claim_recovery`, `renew_recovery_claim`, `finish_recovery_claim`, its lease passing |
| `Reconcile`, `Plan`, `Hold`, `Lift`, `Requeue`, `Legacy` | `_reconcile_current`, `_plan_after_reconcile`, `record_phase3_decision` |
| `Count`, `Policy`, `Decide`, `Conclude`, `Proceed` | `record_source_failure_once`, `policy.recover`, `_decide_and_apply`, `_apply_recovery_decision` |
| `ReserveRefresh`, `Mark`, `Begin`, `Replay`, `Ask`, `Call`, `Answer`, `Told`, `Replace`, `Settle` | `reserve_recovery_refresh`, `_refresh_claimed` with `begin_recovery_refresh`, `refresh_candidate`, `clear_recovery_refresh_inflight` |
| `Activate`, `Commit`, `Attempted`, `Park`, `Bind` | `activate_candidate`, `record_candidate_attempt`, `_park_existing_execution` |
| `Dispatch`, `WriterEnds`, `Progress`, `Complete`, `Expire` | the file's writer and its candidates, as `_execution_result` meets them |

Two history variables: `asked`, the decisions the provider was asked for on a
charge made since the last reset of the budget, and `outlived`, the tasks whose
call is of a reservation that has been replaced since.

A check of the claim and what it allows are two steps wherever the code awaits
between them: `Ask` reads the claim (`recovery_claim_current`), `Call` asks the provider,
and a Pause, a lapse or another claim may fall in between; `Renew` and `Replace`
are another such pair. `PauseFences` is therefore about the checks (`Checks`: a step
that is led on by the claim being current): during a pause neither the cycle
nor a Retry passes one. A call, or a replacement of the candidate, whose check came
before the pause does happen during it.

The errors `Policy` tells apart include the reconcile categories (`interrupted`,
which may end in an alternate, and `conflict`, which parks) and the capacity of the
source (`busy`). `same_signature_failures` is left out: it is counted and reset with
the failures and never exceeds them, so the maximum the policy takes of the two is
the failures. A refresh that succeeded and cannot be used is judged by what is
wrong with it (`UnusableKinds`): empty, expired, or of another size.

Abstractions: provider, executor and storage are ready; parked native writers,
input-required writers, the materialization hold, the route switch and the
collection as triggers, and the startup pass over delivered artifacts are left
out; backoffs are positive; a switch of a file that is being written is refused
(stopping the writer is `ExecutionLifecycle`'s). Reads that come before a fenced
record are part of it. Attempt numbers nobody refers to are used again.

What the code does that the properties have to exempt, each reachable in the
model by dropping the exemption:

* *Uncharged refreshes.* A reset of the budget keeps `last_refresh_decision_id`.
  Within an epoch a decision's identity repeats after a reset, and
  `reserve_recovery_refresh` (`recovery_repository.py:744`) takes it for already
  charged: from then on every further refresh is free. `RefreshBudget` therefore
  speaks of calls on charges made since the reset, `Stranded` names the state.
* *A refresh no one can begin.* A second decision recorded but not yet applied
  when the process or the claim ends makes `begin_recovery_refresh` refuse the
  first one for good, until Retry (`Stranded`, first disjunct).
* *A wait without a reason.* `recovery_wait` with no `quiescence_reason` is skipped
  by the wake pass (`Stranded`, third disjunct).
* *Single flight is per reservation.* A decision that comes back after another was
  reserved can be asked while the old call still runs (`outlived`).
* *Unfenced writes.* `transition_recovery`, `artifact_state('queued')`,
  `refresh_candidate`, `record_source_failure_once`, `reset_retry_budget` and
  `record_candidate_attempt` do not check the claim; an owner that lost it can
  still turn the status of a file back. The actions have no `Holds` there.
* *Pause inside Resume.* A Pause between Resume's lift and its claim is not seen:
  the trigger bypasses the check (`PauseFences` leaves Resume out).
* A refresh lost with its process replays as `refresh_outcome_unknown` after every
  Retry; a failed refresh is asked again without a new charge if the claim is lost
  between the clearing of the inflight columns and the next decision.

### ProviderResources

One provider; every transfer asks it for the same content, so that all that can
be confused is. A transfer is its root request and the bindings it has to the
provider's objects; generations of a submission share a source. Each database
transaction is one action; provider calls take effect before they are answered
(`ProviderCreates`, then `Answer` or `ProviderFails`), and anything may happen in
between.

| Model | Code |
|---|---|
| `Submit`, `Complete`, `Cancel`, `Delete`, `CloseCleanup` (one for each of `Closers`) | `admit`, `_delivered`, `cancel_with_execution_cleanup`, `delete`, `_cleanup_resources` |
| `PassFence`, `Reobserve`, `Gone`, `Expired`, `Drained`, `Begin`, `Arm` | `_resolve`, `begin_resolution`, `arm_creation` |
| `Answer` (`Accept`, `Late`, `Conflict`, `Bind`, `Refused`), `Erring`, `Hold` | `_apply_resolution`, `resolution`, `_record_unrouted_resource`, `settle_creation`, `hold_uncertain_resolution` |
| `ExhaustRoute`, `RequestFailure`, `Interrupted`, `Reresolve`, `Retry`, `SwitchRoute` | `exhaust_route`, `_request_failure`, `_process_request`, `_observe_resource`, `retry`, `replace_root_route` |
| `ReadUncertain`, `SettleUncertain`, `ReadUnowned`, `SettleUnowned` | `_settle_uncertain_resolution`, `_settle_unowned_creations` |
| `Inventory*`, `Import` | `reconcile_inventory` and the repository calls it makes, one item at a time |
| `Cleanup*`, `Closable`, `Authority` | `pending_cleanup`, `claim_cleanup`, `cleanup_complete`, `cleanup_retry`, `terminal_cleanup_authority` |

Two history variables: `postdated[t]`, the cleanups recorded after root `t` read
its fence, and `blind`, the attempts whose creation was asked for unarmed, or
settled by a reading of the inventory taken while the call was still running.

A completion, a Delete and a late answer each have a cleanup of the transfer's
resources still to record, in tasks of their own and in any order (`closing[t][c]`).
A cleanup pass reads what is owed (`CleanupScan`), claims the binding later (`CleanupStart`) and
calls the provider with what it *read*. An operator's switch opens the attempt
of the new route in its own commit (`pin`), which the next pass begins.

Abstractions: the provider can always be asked to reconcile; an operator's
switch keeps no standby route; a switch away from the provider and back again
under a pass that is still failing there is left out; reacquiring a completed
transfer is left out; a pass over the bindings (`_cleanup_resources`) is one step;
at most one cleanup call per binding runs at a time, which is what the lease
(`claim_cleanup`) is for and is not itself modelled.

Weaknesses of the code the exemptions stand for, besides the two disagreements
below: between the tombstone (or COMPLETED) and `cleanup_intent` a resubmission
passes the fence, and the predecessor's cleanup then removes the fresh object;
a crash in that gap leaves nothing owed; the inventory can renew the cleanup of a
deleted predecessor while the fresh root's call runs; a reconciliation that reads
"absent" while the ended transfer's creation call is under way clears the
obligation, one that reads "found" can bind to the deleted transfer what a fresh
generation is creating; an `arm_creation` refused after an adoption and a switch
still asks the provider; the cleanup of a capacity error
retries without a limit, so the fence may stay.

A user's request to remove what DebridPulse only observed can be lost. The owned
intent of a completion or a late answer, recorded after the Delete's, replaces it
(`cleanup_intent` is unconditional); or a pass that had scanned "owned" before the Delete
is answered "skipped", and `cleanup_complete` clears the obligation whatever it is
by then. Either way the object stays at the provider with nothing owed. `ObservedKept` is about the
other direction: nothing merely observed is removed *without* the user's word.

## 3. What the runs show

| Run | Instance | Shows |
|---|---|---|
| `ExecutionOwnership` | 2 attempts, cycle and one API task, faults, restarts; symmetry on attempts; 1.15 M states | `TypeOK`, `OwnedWriter`, `SingleWriter`, `NoLateDelivery`, `ResponsibilityLedger` |
| `ExecutionProgress` | 1 attempt, fair, executors that answer | `EndedWriterStops`, `PausedWriterStops` |
| `ExecutionOrphan` | 1 attempt | *violated*: `ResponsibilityRetained` |
| `ExecutionCommit` | 2 attempts | *violated*: `CommitOfCurrentWriter` |
| `RestoreSwap` | 3 files (2 required), 2 restores, 2 sessions, failures, crashes; 9,572 states | `TypeOK`, `Recoverable`, `ServesItsOwn`, `SessionsStand`, `ReplacedAtomically`, `RecoveryCompletes`, `RestoreEnds` |
| `RestoreCommit` | 1 restore, the commit's unlink may fail | *violated*: `PreRestoreStaysClosed` |
| `MaintenanceGates` | 3 tasks, 2 sessions, nesting 2 | `TypeOK`, `Counted`, `SealedIsClosed`, `ApplicationExclusive`, `DatabaseExclusive`, `DatabaseDrains` |
| `BandwidthShares` | 2 executors, caps 0, 1, 2, one start pending for each; symmetry; 1.22 M states | `TypeOK`, `SharesBounded`, `LiftedWhenUnlimited`, `AcquiresUnderCeiling` |
| `BandwidthReservations` | 1 executor, fair | `LiveIsReservedAgain` |
| `BandwidthOverlap` | 2 executors, cap 2 | *violated*: `WithinCapAtRest` |
| `RecoveryClaims` | cycle and one API task, 2 routes, one upset of each sort, 7 kinds of error, fair; 749,000 states | `TypeOK`, `OneCall`, `RefreshBudget`, `JudgedSwitch`, `PauseFences`, `ExhaustedRests`, `WaitsEnd`, `FailureDecided` |
| `ProviderResources` | 10 budgets of 1-2 transfers, 1-2 sources, 1-2 objects; 878,000 states | `TypeOK`, `Tracked`, `FenceBound`, `SoleOwner`, `NeverBlindly`, `Spared`, `ObservedKept` |

Bounds and why they are enough:

* Two attempts are one replacement of a writer by another; two tasks are one
  race. `NoneOvertaken` follows a behaviour up to the first start that loses its
  race, since the invariants say nothing of that attempt afterwards; the proofs
  need neither bound. Liveness uses one attempt: it is about the end of a
  writer, not about the next one, and symmetry would not be sound for it.
* Two restores of three files: the second meets what the first left behind (a
  journal, staging, displaced files). The avatar is the file a state may lack.
  Two sessions are one that is still open and one that comes.
* Three tasks are an owner, a worker and one that comes in between. Two nested
  operations are the deepest nesting that differs from one.
* Caps 0, 1, 2 with two executors are unlimited, a cap smaller than the number
  of executors, and one that divides. One start pending for each executor
  (`StartLimit`) meets every change of cap, share and reservation; with one executor two
  meet each other as well. `NoneOverlapped` is like `NoneOvertaken`. By `OneFact` a round's facts
  speak of one executor: what they change about two, two rounds change, and all that
  interleaves with them.

* Recovery: one refresh per epoch and two failures per candidate are the limits
  the policy has by default, or the smallest that are told apart; the second
  epoch shows what a reset forgets. One fault (a restart or a lapsed claim), one
  further failure and one operator command meet in every order. With three mixed
  upsets (1 M states) the safety properties, with two the liveness properties
  hold as well, and `OneCall` with two refreshes and two commands.
* Provider resources: no single budget that reaches everything is small enough,
  so `SmallBudgets` lists ten, each rich in one thing: failures and restarts of
  one root, without and with its Delete; imports of an object the user already has;
  every kind of Delete; an import that adopts a second object; two generations of
  one source, the first completed, deleted or imported; two sources with one object. With two
  generations and a Delete, what goes wrong does so before the second is submitted
  (`EarlyUpsets`); without it, that budget alone has 1.36 M states, and the properties hold.
  `Upset` counts failures, route changes and inventory passes.

`MaintenanceGates`, `ProviderResources` and `RecoveryClaims` run without the
deadlock check: a sealed process that has left its gates does nothing until it
is restarted, and a transfer or a file whose upsets are used up comes to rest.
All others check it.

### Fairness, and what justifies it

* `ExecutionLifecycle`: the event loop runs every task that can go on (WF of
  each task's next step); the scheduler repeats the cycle, whose round does the
  cleanup pass and observes the current writer (SF, because between two rounds
  the cycle task is busy with something else); the process does not restart
  for ever. With `Faults` no answer need ever arrive, so liveness is checked with
  executors that answer.
* `RestoreSwap`: the process's own steps and the container's restart (WF);
  sessions are closed (WF, as in `MaintenanceGates`); failures and crashes end at
  some time. A sealed process may wait for ever for its restart:
  `RecoveryCompletes` starts from "down".
* `MaintenanceGates`: a session is closed some time (WF): `get_db` closes it at
  the end of its block, and no block waits for a gate (the assumption about the
  callers named above). A drain whose condition
  holds is notified (WF).
* `RecoveryClaims`: a task that can go on does (WF), the cycle comes by, a start
  does its recovery pass, the backoff timer fires, and the claim of a process
  that is gone lapses (WF: `recovery_claim_until` passes). No provider answer is
  assumed to be a good one.
* `RuntimeBandwidth`: executor calls return, the cycle goes round (WF), and each
  executor can be observed with certainty again and again (SF).

### Disagreements between the code and its documents

1. **A start that loses its race is orphaned** (`ExecutionOrphan`).
   `EXECUTION_CLEANUP_LIFECYCLE.md:8` promises that responsibility for launched
   work is retained. Between the executor's last authority check and its
   submission an `absent` can be observed and recorded by Resume, the cycle or a
   cleanup pass, and the attempt's authority withdrawn; the job then lands with
   `authorized = 0`. `retire_writer` guards against it (`execution_start_pending`),
   the other paths do not. `KeepsLedger` is what still holds: this race is the only
   way responsibility ends before the job.
2. **A commit need not be of the current writer** (`ExecutionCommit`).
   `_verify_succeeded` promises a commit "only while that same execution is
   still the artifact's current, verifying writer"; the last check and
   `artifact_state('completed')` are separate transactions. What is committed is
   nevertheless a file whose writer had succeeded and stopped (`DeliversEnded`).
3. **The pre-restore application can come back** (`RestoreCommit`). If the
   journal's removal raises at the commit, admission reopens on the old
   application over the restored files, unsealed, with the journal left for the
   next start to reverse. A restore cancelled while it waits for sessions before
   its rollback or its seal ends the same way. There is no third way, and what is
   served then is one whole generation (`NoThirdWay`, `ServesOneGeneration`).
4. **The cap can be exceeded at rest** (`BandwidthOverlap`).
   `runtime_coordination.py:32` says callers serialize every mutation under the
   dispatch lock; `reconcile_executions` calls `observe` without it. Its
   convergence interleaved with an admission leaves ceilings that add up to more
   than the cap, while `status()` reports it proven. `BandwidthReservations` shows
   that a reservation lost to stale facts comes back, `CapHoldsApart` that the cap
   holds while the two keep apart.

Met in `ProviderResources` and `RecoveryClaims`, where they are exemptions of
properties that otherwise hold:

5. **A second creation next to an uncertain one.** `engine.py:152` says of the
   uncertain attempt "never a second one blindly". `_resolve` looks for one only
   while the root has no resource; a root still bound to a lost or expired resource
   makes another while the earlier attempt owes its reconciliation
   (`NeverBlindly` speaks of transfers that never had a resource).
6. **The fence does not wait for every cleanup it promises to wait for.**
   `_predecessor_cleanup_blocks` ignores bindings seen absent; the cleanup cadence
   does not, and removes by native id what a fresh generation may have made under
   it since (`Spared`, `_repository_base.py:2387`).
7. **A refresh that costs nothing.** `convergence_engine.py` calls the handling of
   refreshes "bounded, budget-aware"; after a reset it is neither (see
   `RecoveryClaims`, *Uncharged refreshes*).

## 4. What is proved

All proofs hold for every value of the constants under the `ASSUME`s of the
modules, which TLC evaluates in the runs.

**Execution lifecycle** (`ExecutionLifecycleProofs`): `TypeCorrect`,
`NeverOrphaned` (`OwnedWriter`), `OneWriter` (`SingleWriter`),
`NeverDeliveredLate` (`NoLateDelivery`), for any numbers of attempts and tasks.
`OwnedWriter` is not inductive: a step that withdraws authority is safe because
of what the task remembered when it decided to. `IInv` adds that. A stop which a
task will record, or act upon, without another look is still true of an attempt
that was not overtaken (`TrueStop`), because an attempt is started once
(`OneStart`, `NoJobYet`, `Unused`) and a deferred start creates no job
(`Deferred`). A stop that is still fresh but no longer true is outdated by a
start whose answer is about to be recorded, which will make it stale
(`FreshStop`). Cleanup works on ended transfers only, and settles a writer that
has stopped (`Settled`). `Owner` strengthens `OwnedWriter` to starts past their last
authority check. `SingleWriter` follows (both writers would be `current`).

`WriterLedgerProofs` shows the refinement, `KeepsLedger` (`ResponsibilityLedger`). Every
step is about one attempt (`AboutOne`), whose phase and work move along the ledger
while the others' stay (`LedgerStep`); that a job that begins is the only one, and
that no authority goes from a running job, is `IInv`. `DeliversEnded`
(`EndedWriterDelivers`) speaks of every attempt, overtaken ones included: its
invariant `Truthful` says that whoever is on the way to a commit saw its writer
succeed, and that a job that succeeded does not run again.

**Restore swap** (`RestoreSwapProofs`): `TypeCorrect`, `AlwaysRecoverable`
(`Recoverable`), `OnlyItsOwn` (`ServesItsOwn`), `RestoreIsAtomic`
(`ReplacedAtomically`), `SessionsUndisturbed` (`SessionsStand`), for any files, restores
and sessions; `OnlyItsOwn` and `RestoreIsAtomic` assume `~CommitFails` and
`~CutShort`. The invariant `IInv` says where each file of the journal's restore is while
the journal exists (`Journaled`: staged, live or displaced), what the program
counter adds to that (`Stands`), and that a restore not yet asked for has left
nothing on the disk (`Fresh`). From it follows that `Settled` is the whole
generation `application`, which changes only when the journal is removed at the
commit. `FaithfulAlways` (same assumptions) adds that the live paths hold exactly
that generation while it serves and while a restore is only staged.
`SessionsUndisturbed` needs one more invariant, `Quiet`: no session is open at the
steps that move files.

Two theorems are about the runs in which a commit fails or a wait is cut short.
`NoThirdWay` assumes nothing: a step that lets the live paths leave the served
application's generation is the commit whose unlink of the journal raised, the journal
staying (`JournalStays`), or the cancellation of a restore that waits for the sessions
opened since its swap (`WaitIsCut`). `ServesOneGeneration`, again
without assumptions: even then what is served is one generation, never a mixture,
and the journal is there by which the next start puts the application's own back.

**Maintenance gates** (`MaintenanceGatesProofs`): `TypeCorrect`, `CountersCorrect` (`Counted`),
`SealedForGood` (`SealedIsClosed`), `ApplicationGateExclusive` and
`DatabaseGateExclusive` (the refinements), for any finite sets of tasks and
sessions and any nesting depth. Counters equal the cardinalities of the sets
they stand for, and a gate that was entered has an empty set but for its owner.
`DrainsOnlyShrink` is the safety that `DatabaseDrains` rests on: nothing is added to what
a drain waits for. That what it waits for can end follows from the assumption about
the callers, not from the gates, and is not claimed as a theorem.

**Bandwidth allocator** (`RuntimeBandwidthProofs`): `TypeCorrect`,
`SharesAlwaysBounded` (`SharesBounded`), `LiftedForAll` (`LiftedWhenUnlimited`) and
`AcquiresOnlyUnderCeiling` (`AcquiresUnderCeiling`), for any finite set of executors
and any caps. The invariant adds to the two state properties what a step in
progress hands out (`Split`): a convergence the share its reservations give, a
newcomer's admission the share of one executor more, to everybody it has already
told; that lock and cycle are not both in progress unless the history variable
says so (`Apart`); that a confirmed ceiling is the enforced one (`Confirmed`); and
that nothing has a ceiling before the reservations are seeded (`Unseeded`,
`Seeding`). The key lemma is `StartConvergeStep`: whatever was true before, a
convergence that begins restores all of it, because everybody it splits among is
still to be told. `AcquiresOnlyUnderCeiling` does not need `overlapped`: it also holds
in the behaviours `BandwidthShares` does not follow.

That the ceilings add up is a statement about a sum over any finite set of
executors: `ProvenNeverExceed` (`ProvenWithinCap`, in every state, in the middle of
a cycle too) and `CapHoldsApart` (`WithinCapAtRest`, the property `BandwidthOverlap` violates,
while lock and cycle keep apart). `FiniteSums` proves what is needed of such sums:
they exist, grow by the term added, and are bounded by the number of terms times
the largest. Its induction over finite sets (`SetInduction`) takes the family of
the subsets that are done as a set, not as a predicate, so that it can be cited.

**Recovery** (`RecoveryClaimsProofs`): `TypeCorrect`, `SingleFlight` (`OneCall`),
`BudgetKept` (`RefreshBudget`), `SwitchesAsJudged` (`JudgedSwitch`),
`PauseAlwaysFences` (`PauseFences`), `ExhaustionRests` (`ExhaustedRests`), for any tasks,
routes, limits and bounds. The invariant has four parts. `Typed`: what a task
carries fits the step it is at. `Fences`: what the holder of the claim may rely on
(no pause since it claimed, the candidate it judged is the selected one).
`Attempts`: a refresh attempt has one task at most, is "started" until answered,
and the attempt of a call that was not outlived is the one in flight. `Charged`: the
decisions asked for, with the last one reserved, number no more than the refreshes
spent. Losing the claim takes `Fences` from a
task, not `Attempts`: that is why the provider is still asked once.
`NeverOverlooked` is the safety `WaitsEnd` rests on: whoever leaves a file waiting,
fenced or not, has ended its execution and does not leave it exhausted (`Waits`), so
the queries of the next pass find it when it is due.

**Provider resources** (`ProviderResourcesProofs`): `TypeCorrect`, `OneOwner`
(`SoleOwner`), `FenceHolds` (`FenceBound`), `NeverTwice` (`NeverBlindly`), `AlwaysTracked`
(`Tracked`), `SparesSuccessor` (`Spared`), `KeepsObserved` (`ObservedKept`), for any
transfers, sources, objects and numbers of attempts. Conjuncts of the invariant:
one unretired generation per source (`Generations`), which makes "precedes" a
stable relation; a transfer not yet submitted has nothing (`Born`) and has read no
fence; a new obligation of a retired generation is postdated for whoever has read
the fence, and an import or a fence that is passed reads that there is none; a
call in progress belongs to the root's last attempt, which is armed or `blind`
(`Asked`, `Openly`); what a scan, a reconciliation or an inventory pass carries is
about the rows it read (`Passes`, `Scans`). Most steps are of one root, and one lemma says
that they leave the others alone; `KeepsObserved` needs in addition that only
`CleanupActs` turns a call into a removal.

`KeepsObligations` says who may withdraw a cleanup: the answer of a cleanup call
alone, never a Delete, a completion, a switch, an import, a reconciliation or a restart.

Only model-checked: every liveness property (`EndedWriterStops`,
`PausedWriterStops`, `RecoveryCompletes`, `RestoreEnds`, `DatabaseDrains`,
`LiveIsReservedAgain`, `WaitsEnd`, `FailureDecided`), because the proof system does
not handle fairness and `ENABLED`.

## 5. Not modelled, and the plan

Modelled first was what no test reaches: who owns a running native program; then
recovery and the provider's resources, the two other places where durable
authority and a remote effect can disagree. Next, in this order:

1. The **input broker** (`input_required.py`): each answer handed to one start,
   challenges that expire, are settled and concluded under their askers.
2. **Aggregation** (`aggregate_lifecycle`): the transfer's status against a
   reference over all combinations of file statuses.
3. Parking executors with native resume in `ExecutionLifecycle`, and the count of
   destructive cancellations a cleanup may spend.

Why some hazards have no property, and one is not listed:

* The **cleanup lease** (`_repository_base.py:5585`) is a token, a heartbeat on a
  clock and a conditional completion; `ProviderResources` assumes what it is for.
* The **destructive budget** (`_engine_base.py:4418`): that a spent budget leaves the
  writer to the operator is documented policy, and what is left to check is a counter.
* The **middleware's exempted paths** (`main.py:262`) are a table; a missing entry is a
  test's concern.
* The **fast observation** (`sample_throughput`, `_engine_base.py:1338`) records only that
  an unfinished, authorized attempt runs or is paused, fresh and under the
  convergence lock. No property of the writers depends on such a record, so
  none about it could fail.

Left out for good: providers, integrations, the HTTP API and the frontend
(adapters and projections), authentication, byte-range and path arithmetic, the
database's schema and migrations.
