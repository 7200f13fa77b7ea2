---------------------------- MODULE RecoveryClaims ----------------------------
(***************************************************************************)
(* The recovery of one file: the durable claim that serializes every       *)
(* recovery trigger (recovery_repository.claim_recovery), the decision     *)
(* taken under it (policy.recover), its application, and the single-flight *)
(* refresh of the file's candidate at its provider                         *)
(* (convergence_engine._refresh_claimed).                                  *)
(*                                                                         *)
(* The tasks are the reconcile cycle and operator commands.  Every         *)
(* database transaction is one action, and most of them check the claim    *)
(* inside it ("fenced"); those the code leaves unfenced are marked.  The   *)
(* file's provider, executor and storage are ready throughout, and the     *)
(* writer a switch would stop first is ExecutionLifecycle's: a switch of a *)
(* file being written is refused here.                                     *)
(***************************************************************************)
EXTENDS Naturals, FiniteSets

CONSTANTS Tasks, Cycle,      \* the reconcile cycle is one of the tasks
          Candidates, First, \* the file's routes, the one selected at first
          FailureLimit,      \* policy.same_candidate_no_progress_limit
          RefreshLimit,      \* policy.refreshes_per_recovery_epoch
          WriterErrors, AnswerErrors, \* how an execution, a refresh can fail
          MaxTries, MaxEpoch, MaxFaults, MaxFailures, MaxCommands, \* bounds
          None, Lost         \* no claim, the claim of a process that is gone

\* Normalized errors, by what the policy tells apart.
Kinds == {"fatal",      \* permanent for the file
          "refused",    \* permanent for the route, during execution
          "expired", "transient",
          "stillborn",  \* transient, with no byte transferred
          "interrupted", "conflict", \* the reconcile categories, with and without a way out
          "busy"}       \* the source's own limit: remote_source_capacity

\* What is wrong with a refresh that succeeded and cannot be used: it is empty, has expired
\* already, or has another size (an integrity failure).
UnusableKinds == {"transient", "expired", "fatal"}

ASSUME TasksAssumption ==
    /\ IsFiniteSet(Tasks) /\ Cycle \in Tasks
    /\ None \notin Tasks /\ Lost \notin Tasks /\ None # Lost
ASSUME CandidatesAssumption == First \in Candidates /\ None \notin Candidates
ASSUME LimitsAssumption ==
    /\ FailureLimit \in Nat \ {0} /\ RefreshLimit \in Nat \ {0}
    /\ WriterErrors \subseteq Kinds /\ AnswerErrors \subseteq Kinds \ {"stillborn"}
    /\ MaxTries \in Nat /\ MaxEpoch \in Nat /\ MaxFaults \in Nat
    /\ MaxFailures \in Nat /\ MaxCommands \in Nat

VARIABLES
    status, due,     \* download_files.status, retry_at <= now
    selected, tried, \* selected_candidate, candidate_attempt_history
    expired,         \* the candidates that have expired
    writer, tries,   \* the execution of the file, and how many it had
    failures, lastFailure, \* recovery_failures, last_failure_identity
    refreshes, lastRefresh, \* recovery_refreshes, last_refresh_decision_id
    epoch,           \* recovery_epoch
    quiescence,      \* quiescence_reason
    decision,        \* recovery_decision_id
    inflight,        \* refresh_inflight_decision_id and _attempt_id
    answer,          \* resolution_attempts of the refreshes
    owner, lapsed,   \* recovery_claim_token, recovery_claim_until <= now
    paused,          \* transfer_pause_intents
    startup,         \* the cycle has the recovery of a start ahead of it
    task,            \* what each task is doing
    asked,           \* history: the decisions the provider was asked for on a charge made
                     \* since the last reset of the budget
    outlived,        \* history: the tasks whose call to the provider, or their leave for it, is
                     \* of a reservation that another has replaced since
    upsets           \* failures and operator commands so far

file     == <<status, due, quiescence>>
routes   == <<selected, tried, expired>>
work     == <<writer, tries>>
counters == <<failures, lastFailure, refreshes, epoch>>
refresh  == <<lastRefresh, inflight, answer>>
claim    == <<owner, lapsed>>
controls == <<paused, startup>>
history  == <<asked, outlived>>
durable  == <<file, routes, work, counters, refresh, decision>>
vars == <<durable, claim, controls, task, history, upsets>>

Acts     == {"fail", "park", "backoff", "refresh", "alternate"}
\* f"{attempt or no-execution}:{bytes}:{signature}", under the epoch: attempt 0 is no execution.
Failures == (0..MaxEpoch) \X (0..MaxTries) \X Kinds
Decisions == (0..MaxEpoch) \X (0..MaxTries) \X (Kinds \cup {"legacy"}) \X Acts
RefreshIds == 1..(Cardinality(Tasks) + 1)
Inflights == [key : Decisions, attempt : RefreshIds]
ASSUME NoneAssumption ==
    None \notin Inflights /\ None \notin {"retry_backoff", "recovery_exhausted"}
Triggers == {"auto", "retry", "resume", "switch"}
Steps == {"idle", "noticed", "reset", "reconcile", "plan", "hold", "lift", "reopen", "requeue",
          "count", "decide", "apply", "mark", "activate", "commit", "attempted", "park",
          "refresh", "legacy", "reserve", "begin", "ask", "call", "calling", "told", "clear",
          "renew", "replace", "land", "settle", "finish"}
TaskStates == [pc : Steps, trigger : Triggers, kind : Kinds \cup {None}, of : 0..MaxTries,
               key : Decisions \cup {None}, cand : Candidates \cup {None},
               target : Candidates \cup {None}, attempt : RefreshIds \cup {0}]
Idle == [pc |-> "idle", trigger |-> "auto", kind |-> None, of |-> 0, key |-> None,
         cand |-> None, target |-> None, attempt |-> 0]

At(t, pc)    == task[t].pc = pc
Go(t, pc)    == task' = [task EXCEPT ![t].pc = pc]
Leave(t)     == task' = [task EXCEPT ![t] = [Idle EXCEPT !.pc = "finish",
                                                     !.trigger = task[t].trigger]]
Holds(t)     == owner = t
Current(t)   == owner = t /\ ~lapsed
Budgets      == [fault |-> MaxFaults, failure |-> MaxFailures, command |-> MaxCommands]
Upset(kind)  == upsets[kind] < Budgets[kind] /\ upsets' = [upsets EXCEPT ![kind] = @ + 1]
Ended        == writer \in Kinds
Alternates   == Candidates \ (tried \cup {selected})

-----------------------------------------------------------------------------
(* Triggers and the claim. *)

\* Mutant: a backoff that has elapsed is forgotten.
ReasonsWithoutBackoff ==
    {k \in Kinds : writer = k}
    \cup (IF status = "queued" /\ writer = "none" /\ ~paused /\ selected \in expired
             THEN {"expired"} ELSE {})
    \cup (IF ~paused /\ due /\ writer = "none" /\ status = "refresh_pending"
             THEN {None} ELSE {})

\* The cycle's reasons to recover the file, and the error it passes on.
Reasons ==
    {k \in Kinds : writer = k}
    \cup (IF status = "queued" /\ writer = "none" /\ ~paused /\ selected \in expired
             THEN {"expired"} ELSE {})
    \cup (IF ~paused /\ due /\ writer = "none"
                /\ (status = "refresh_pending" \/ quiescence = "retry_backoff")
             THEN {None} ELSE {})

\* The cycle, or an operator's broad recovery pass, comes across the file.
Notice(t) ==
    /\ At(t, "idle") /\ IF t = Cycle THEN UNCHANGED upsets ELSE Upset("command")
    /\ \E k \in Reasons : task' = [task EXCEPT ![t] = [Idle EXCEPT !.pc = "noticed", !.kind = k]]
    /\ UNCHANGED <<durable, claim, controls, history>>

\* The first pass of a started process recovers every file once.
Startup ==
    /\ At(Cycle, "idle") /\ startup
    /\ startup' = FALSE
    /\ task' = [task EXCEPT ![Cycle] = [Idle EXCEPT !.pc = "noticed"]]
    /\ UNCHANGED <<durable, claim, paused, history, upsets>>

\* retry: an operator's Retry of a file that waits, failed or is parked.
Retry(t) ==
    /\ At(t, "idle") /\ t # Cycle /\ Upset("command")
    /\ \/ status \in {"error", "recovery_wait", "refresh_pending"}
       \/ quiescence # None /\ status # "completed"
    /\ task' = [task EXCEPT ![t] = [Idle EXCEPT !.pc = "noticed", !.trigger = "retry"]]
    /\ UNCHANGED <<durable, claim, controls, history>>

\* activate_candidate_command: an operator selects another candidate.
Switch(t) ==
    /\ At(t, "idle") /\ t # Cycle /\ Upset("command")
    /\ status # "completed"
    /\ \E c \in Candidates \ {selected} :
         task' = [task EXCEPT ![t] = [Idle EXCEPT !.pc = "noticed", !.trigger = "switch",
                                                  !.target = c]]
    /\ UNCHANGED <<durable, claim, controls, history>>

\* Mutant: the intent alone, the claims go on.
PauseUnfenced ==
    /\ ~paused /\ status # "completed" /\ Upset("command")
    /\ paused' = TRUE
    /\ UNCHANGED <<durable, claim, startup, task, history>>

\* set_pause_and_fence: the pause intent, and the end of every older claim.
Pause ==
    /\ ~paused /\ status # "completed" /\ Upset("command")
    /\ paused' = TRUE
    /\ owner' = None /\ lapsed' = FALSE
    /\ UNCHANGED <<durable, startup, task, history>>

\* resume: lifts the intent if there is one, fences likewise, then recovers the file.
Resume(t) ==
    /\ At(t, "idle") /\ t # Cycle /\ status # "completed"
    /\ IF paused THEN UNCHANGED upsets ELSE Upset("command")
    /\ paused' = FALSE
    /\ owner' = None /\ lapsed' = FALSE
    /\ task' = [task EXCEPT ![t] = [Idle EXCEPT !.pc = "noticed", !.trigger = "resume"]]
    /\ UNCHANGED <<durable, startup, history>>

\* Mutant: a claim never runs out.
FreeOnceReleased == owner = None

Free == owner = None \/ lapsed

\* claim_recovery: exclusive across every trigger while it has not lapsed.
Claim(t) ==
    /\ At(t, "noticed")
    /\ IF Free
         THEN /\ owner' = t /\ lapsed' = FALSE
              /\ Go(t, CASE task[t].trigger = "retry" -> "reset"
                         [] task[t].trigger = "switch" -> "activate"
                         [] OTHER -> "reconcile")
         ELSE /\ task' = [task EXCEPT ![t] = Idle]
              /\ UNCHANGED claim
    /\ UNCHANGED <<durable, controls, history, upsets>>

\* finish_recovery_claim, by whoever still holds it.
Finish(t) ==
    /\ At(t, "finish")
    /\ owner' = IF Holds(t) THEN None ELSE owner
    /\ lapsed' = (lapsed /\ ~Holds(t))
    /\ task' = [task EXCEPT ![t] = Idle]
    /\ UNCHANGED <<durable, controls, history, upsets>>

-----------------------------------------------------------------------------
(* What the claimed recovery finds (_reconcile_current, _plan_after_reconcile). *)

\* reset_retry_budget; unfenced.  What the last refresh was reserved for stays.
ResetBudget(t) ==
    /\ At(t, "reset")
    /\ failures' = 0 /\ refreshes' = 0 /\ lastFailure' = None
    /\ quiescence' = None /\ decision' = None /\ tried' = {}
    /\ asked' = {}
    /\ due' = TRUE
    /\ Go(t, "reconcile")
    /\ UNCHANGED <<status, selected, expired, work, epoch, refresh, claim, controls, outlived,
                   upsets>>

\* Nothing is done for a paused file, nor for one that is being written.
Withheld(t) == status = "completed" \/ (paused /\ task[t].trigger # "resume")
Reconcile(t) ==
    /\ At(t, "reconcile")
    /\ \/ Withheld(t) /\ Leave(t)
       \/ ~Withheld(t) /\ writer = "live" /\ Go(t, "lift")
       \/ /\ ~Withheld(t) /\ writer # "live"
          /\ task' = [task EXCEPT ![t].pc = "plan",
                                  ![t].kind = IF @ = None /\ Ended THEN writer ELSE @]
    /\ UNCHANGED <<durable, claim, controls, history, upsets>>

\* Mutant: Resume reopens what it finds, too.
RestingFromCycle(t) == quiescence = "recovery_exhausted" /\ task[t].trigger = "auto"

\* The operator's alone to lift: every other trigger leaves an exhausted file as it is.
Resting(t)  == quiescence = "recovery_exhausted" /\ task[t].trigger # "retry"
BackingOff  == quiescence = "retry_backoff" /\ ~due

\* An error is judged against the execution it is of, if there is one.
Judge(t, k) ==
    task' = [task EXCEPT ![t].pc = "count", ![t].kind = k,
                         ![t].of = IF writer = "none" THEN 0 ELSE tries]

\* Without an error the candidate is used again, unless it has expired.
Reuse(t) == IF selected \in expired THEN Judge(t, "expired") ELSE Go(t, "requeue")

Plan(t) ==
    /\ At(t, "plan")
    /\ \/ Resting(t) /\ Leave(t)
       \/ ~Resting(t) /\ BackingOff /\ Go(t, "hold")
       \/ ~Resting(t) /\ ~BackingOff /\ status = "refresh_pending" /\ Go(t, "refresh")
       \/ /\ ~Resting(t) /\ ~BackingOff /\ status # "refresh_pending"
          /\ \/ task[t].kind # None /\ Judge(t, task[t].kind)
             \/ task[t].kind = None /\ quiescence = "retry_backoff" /\ Go(t, "reopen")
             \/ task[t].kind = None /\ quiescence # "retry_backoff" /\ Reuse(t)
    /\ UNCHANGED <<durable, claim, controls, history, upsets>>

\* transition_recovery; unfenced unless its caller passes the claim.  Refused while the
\* file is being written.
Transition(s, q, d) ==
    IF writer = "live" THEN UNCHANGED <<file, writer>>
    ELSE status' = s /\ quiescence' = q /\ due' = d /\ writer' = "none"

\* A backoff that is not due is renewed.
Hold(t) ==
    /\ At(t, "hold")
    /\ Transition("recovery_wait", "retry_backoff", due)
    /\ Leave(t)
    /\ UNCHANGED <<routes, tries, counters, refresh, decision, claim, controls, history, upsets>>

\* clear_recovery_quiescence: of a file that is written again, refreshed, or no longer waits.
Lift(t) ==
    /\ \/ At(t, "lift") /\ Leave(t)
       \/ At(t, "reopen") /\ Reuse(t)
    /\ quiescence' = IF Holds(t) THEN None ELSE quiescence
    /\ UNCHANGED <<status, due, routes, work, counters, refresh, decision, claim, controls,
                   history, upsets>>

\* artifact_state("queued"): the ordinary dispatch takes the file up; unfenced.
Requeue(t) ==
    /\ \/ At(t, "requeue") /\ Leave(t)
       \/ At(t, "land") /\ Go(t, "settle")
    /\ status' = "queued" /\ due' = TRUE
    /\ UNCHANGED <<quiescence, routes, work, counters, refresh, decision, claim, controls,
                   history, upsets>>

-----------------------------------------------------------------------------
(* The decision and its application. *)

\* record_source_failure_once: one charge for one failure identity; unfenced.
Count(t) ==
    LET id == <<epoch, task[t].of, task[t].kind>> IN
    /\ At(t, "count")
    /\ lastFailure' = id
    /\ failures' = IF lastFailure = id THEN failures ELSE failures + 1
    /\ Go(t, "decide")
    /\ UNCHANGED <<file, routes, work, refreshes, epoch, refresh, decision, claim, controls,
                   history, upsets>>

\* Mutant: one refresh too many.
CanRefreshOnceMore == refreshes <= RefreshLimit

\* policy.recover; same_signature_failures is never more than failures, which it is counted
\* and reset with.  A decision to reconcile waits like a backoff.
CanRefresh == refreshes < RefreshLimit
Otherwise  == IF Alternates # {} THEN "alternate" ELSE "park"
Policy(kind) ==
    CASE kind = "fatal"   -> "fail"
      [] kind = "refused" -> IF Alternates # {} THEN "alternate" ELSE "fail"
      [] kind = "expired" -> IF CanRefresh THEN "refresh" ELSE Otherwise
      [] kind = "transient" -> IF failures < FailureLimit THEN "backoff"
                               ELSE IF CanRefresh THEN "refresh" ELSE Otherwise
      [] kind = "stillborn" -> IF CanRefresh THEN "refresh"
                               ELSE IF failures < FailureLimit THEN "backoff" ELSE Otherwise
      [] kind = "interrupted" -> IF failures < FailureLimit THEN "backoff" ELSE Otherwise
      [] kind = "conflict" -> IF failures < FailureLimit THEN "backoff" ELSE "park"
      [] kind = "busy" -> IF failures < FailureLimit \/ Alternates = {} THEN "backoff"
                          ELSE "alternate"

\* _decide_and_apply, record_phase3_decision: the decision, made and recorded under the claim.
Decide(t) ==
    LET act == Policy(task[t].kind)
        id  == <<epoch, task[t].of, task[t].kind, act>>
    IN
    /\ At(t, "decide")
    /\ \/ ~Holds(t) /\ Leave(t) /\ UNCHANGED decision
       \/ /\ Holds(t)
          /\ decision' = id
          /\ \E next \in IF Alternates = {} THEN {None} ELSE Alternates :
               task' = [task EXCEPT ![t].pc = "apply", ![t].key = id, ![t].cand = selected,
                                    ![t].target = next]
    /\ UNCHANGED <<file, routes, work, counters, refresh, claim, controls, history, upsets>>

Decided(t) == task[t].key[4]

\* fail_permanently, backoff; unfenced.
Conclude(t) ==
    /\ At(t, "apply")
    /\ \/ Decided(t) = "fail" /\ Transition("error", None, TRUE)
       \/ Decided(t) = "backoff" /\ Transition("recovery_wait", "retry_backoff", FALSE)
    /\ Leave(t)
    /\ UNCHANGED <<routes, tries, counters, refresh, decision, claim, controls, history, upsets>>

Proceed(t) ==
    /\ At(t, "apply")
    /\ \/ Decided(t) = "park" /\ Go(t, "park")
       \/ Decided(t) = "alternate" /\ Go(t, "activate")
    /\ UNCHANGED <<durable, claim, controls, history, upsets>>

\* reserve_recovery_refresh: once for one decision, within the budget.
Reserve(t) ==
    /\ lastRefresh' = task[t].key
    /\ IF lastRefresh = task[t].key
         THEN UNCHANGED <<refreshes, outlived>>
         ELSE /\ refreshes' = refreshes + 1
              /\ outlived' = {u \in Tasks : At(u, "call") \/ At(u, "calling")}
Reservable(t) == Holds(t) /\ (lastRefresh = task[t].key \/ CanRefresh)

\* A refresh that was decided is reserved, or an alternate taken, or the file parked.
ReserveRefresh(t) ==
    /\ \/ /\ At(t, "apply") /\ Decided(t) = "refresh"
          /\ \/ Reservable(t) /\ Reserve(t) /\ Go(t, "mark")
             \/ /\ ~Reservable(t)
                /\ Go(t, IF task[t].target # None THEN "activate" ELSE "park")
                /\ UNCHANGED <<lastRefresh, refreshes, outlived>>
       \/ /\ At(t, "reserve")
          /\ \/ Reservable(t) /\ Reserve(t) /\ Go(t, "begin")
             \/ ~Reservable(t) /\ Go(t, "park") /\ UNCHANGED <<lastRefresh, refreshes, outlived>>
    /\ UNCHANGED <<file, routes, work, failures, lastFailure, epoch, inflight, answer, decision,
                   claim, controls, asked, upsets>>

\* The refresh is left to the next recovery of the file; unfenced.
Mark(t) ==
    /\ At(t, "mark")
    /\ Transition("refresh_pending", None, TRUE)
    /\ Leave(t)
    /\ UNCHANGED <<routes, tries, counters, refresh, decision, claim, controls, history, upsets>>

\* activate_candidate, up to its commit.
Refuse(t) == IF task[t].trigger = "switch" THEN Leave(t) ELSE Go(t, "park")
Activate(t) ==
    /\ At(t, "activate")
    /\ \/ Current(t) /\ task[t].target # selected
          /\ task' = [task EXCEPT ![t].pc = "commit",
                                  ![t].cand = IF task[t].trigger = "switch" THEN selected ELSE @]
       \/ ~(Current(t) /\ task[t].target # selected) /\ Refuse(t)
    /\ UNCHANGED <<durable, claim, controls, history, upsets>>

\* Mutant: committed whoever holds the claim by now.
CommitUnfenced(t) ==
    /\ At(t, "commit")
    /\ \/ /\ writer # "live"
          /\ selected' = task[t].target
          /\ Transition("queued", None, TRUE)
          /\ failures' = 0 /\ refreshes' = 0 /\ asked' = {}
          /\ Go(t, "attempted")
       \/ /\ writer = "live"
          /\ Refuse(t)
          /\ UNCHANGED <<file, selected, writer, failures, refreshes, history>>
    /\ UNCHANGED <<tried, expired, tries, lastFailure, epoch, refresh, decision, claim, controls,
                   outlived, upsets>>

\* The switch itself: transition_recovery under the claim, with the budgets of the new candidate.
Commit(t) ==
    /\ At(t, "commit")
    /\ \/ /\ Holds(t) /\ writer # "live"
          /\ selected' = task[t].target
          /\ Transition("queued", None, TRUE)
          /\ failures' = 0 /\ refreshes' = 0 /\ asked' = {}
          /\ Go(t, "attempted")
       \/ /\ ~(Holds(t) /\ writer # "live")
          /\ Refuse(t)
          /\ UNCHANGED <<file, selected, writer, failures, refreshes, history>>
    /\ UNCHANGED <<tried, expired, tries, lastFailure, epoch, refresh, decision, claim, controls,
                   outlived, upsets>>

\* record_candidate_attempt: neither is found as an alternate again.
Attempted(t) ==
    /\ At(t, "attempted")
    /\ tried' = tried \cup {task[t].cand, task[t].target}
    /\ Leave(t)
    /\ UNCHANGED <<file, selected, expired, work, counters, refresh, decision, claim, controls,
                   history, upsets>>

\* _park_existing_execution(recovery_exhausted), under the claim.
Park(t) ==
    /\ At(t, "park")
    /\ IF Holds(t) THEN Transition("error", "recovery_exhausted", TRUE) ELSE UNCHANGED <<file,
                                                                                         writer>>
    /\ Leave(t)
    /\ UNCHANGED <<routes, tries, counters, refresh, decision, claim, controls, history, upsets>>

-----------------------------------------------------------------------------
(* The refresh of a file that waits for it (_refresh_claimed). *)

\* The decision it carries out is the one recorded last; one that a Retry erased is made up.
Bind(t) ==
    /\ At(t, "refresh")
    /\ \/ status # "refresh_pending" /\ Leave(t)
       \/ /\ status = "refresh_pending"
          /\ task' = [task EXCEPT
               ![t].pc = IF decision = None THEN "legacy" ELSE "begin",
               ![t].key = IF decision = None THEN <<epoch, 0, "legacy", "refresh">> ELSE decision,
               ![t].cand = selected]
    /\ UNCHANGED <<durable, claim, controls, history, upsets>>

Legacy(t) ==
    /\ At(t, "legacy")
    /\ \/ Holds(t) /\ decision' = task[t].key /\ Go(t, "reserve")
       \/ ~Holds(t) /\ Leave(t) /\ UNCHANGED decision
    /\ UNCHANGED <<file, routes, work, counters, refresh, claim, controls, history, upsets>>

\* An attempt that nothing refers to any more stands for a new one.
InUse(a) == (inflight # None /\ inflight.attempt = a) \/ \E u \in Tasks : task[u].attempt = a

\* Mutant: an attempt without an answer counts as none.
BegunAnswered(t) ==
    inflight # None /\ inflight.key = task[t].key /\ answer[inflight.attempt] # "started"

\* begin_recovery_refresh: a new attempt, or the one already begun for this decision.
Authorized(t) == Holds(t) /\ lastRefresh = task[t].key
Begun(t)      == inflight # None /\ inflight.key = task[t].key
Begin(t) ==
    /\ At(t, "begin")
    /\ Authorized(t) /\ ~Begun(t)
    /\ LET a == CHOOSE a \in RefreshIds : ~InUse(a) IN
         /\ answer' = [answer EXCEPT ![a] = "started"]
         /\ inflight' = [key |-> task[t].key, attempt |-> a]
         /\ task' = [task EXCEPT ![t].pc = "ask", ![t].attempt = a]
    /\ UNCHANGED <<file, routes, work, counters, lastRefresh, decision, claim, controls,
                   history, upsets>>

\* Of an attempt already begun only the recorded answer is used, if it still is any good.
Replay(t) ==
    /\ At(t, "begin")
    /\ \/ ~Authorized(t) /\ Leave(t)
       \/ /\ Authorized(t) /\ Begun(t)
          /\ \/ answer[inflight.attempt] \in {"started", "failed"} /\ Go(t, "park")
             \/ answer[inflight.attempt] = "usable" /\ Go(t, "renew")
             \/ /\ answer[inflight.attempt] \in {"usable", "unusable"}
                /\ \E k \in IF answer[inflight.attempt] = "usable" THEN {"expired"}
                                                                  ELSE UnusableKinds :
                     task' = [task EXCEPT ![t].pc = "count", ![t].kind = k, ![t].of = 0]
    /\ UNCHANGED <<durable, claim, controls, history, upsets>>

\* recovery_claim_current: leave to ask the provider, given under a claim that is current.
Ask(t) ==
    /\ At(t, "ask")
    /\ \/ /\ Current(t) /\ Go(t, "call")
          /\ asked' = asked \cup (IF refreshes = 0 THEN {} ELSE {task[t].key})
       \/ ~Current(t) /\ Leave(t) /\ UNCHANGED asked
    /\ UNCHANGED <<durable, claim, controls, outlived, upsets>>

\* provider.refresh: awaits after the check, whatever became of the claim by then.
Call(t) ==
    /\ At(t, "call") /\ Go(t, "calling")
    /\ UNCHANGED <<durable, claim, controls, history, upsets>>

\* Its answer, recorded whoever holds the claim by then (repository.resolution).
Answer(t) ==
    /\ At(t, "calling")
    /\ \E a \in {"usable", "unusable", "failed"} : answer' = [answer EXCEPT ![task[t].attempt] = a]
    /\ Go(t, "told")
    /\ outlived' = outlived \ {t}
    /\ UNCHANGED <<file, routes, work, counters, lastRefresh, inflight, decision, claim, controls,
                   asked, upsets>>

\* The answer is taken up under a claim that is current: used, or judged as a failure of
\* its own.
Told(t) ==
    LET good == answer[task[t].attempt] = "usable" IN
    /\ At(t, "told")
    /\ \/ ~Current(t) /\ Leave(t)
       \/ Current(t) /\ good /\ task' = [task EXCEPT ![t].pc = "renew", ![t].attempt = 0]
       \/ /\ Current(t) /\ ~good
          /\ \E k \in IF answer[task[t].attempt] = "failed" THEN AnswerErrors ELSE UnusableKinds :
               task' = [task EXCEPT ![t].pc = "clear", ![t].kind = k, ![t].of = 0,
                                    ![t].attempt = 0]
    /\ UNCHANGED <<durable, claim, controls, history, upsets>>

\* renew_recovery_claim
Renew(t) ==
    /\ At(t, "renew")
    /\ IF Current(t) THEN Go(t, "replace") ELSE Leave(t)
    /\ UNCHANGED <<durable, claim, controls, history, upsets>>

\* canonical.refresh_candidate; unfenced.
Replace(t) ==
    /\ At(t, "replace")
    /\ \/ /\ status \notin {"completed", "error"}
          /\ expired' = expired \ {task[t].cand}
          /\ Go(t, "land")
       \/ status \in {"completed", "error"} /\ Leave(t) /\ UNCHANGED expired
    /\ UNCHANGED <<file, selected, tried, work, counters, refresh, decision, claim, controls,
                   history, upsets>>

\* clear_recovery_refresh_inflight: the attempt is carried out, or its failure goes to the policy.
Settle(t) ==
    /\ \/ At(t, "settle") /\ Go(t, "lift")
       \/ At(t, "clear") /\ Go(t, "count")
    /\ inflight' = IF Holds(t) /\ Begun(t) THEN None ELSE inflight
    /\ UNCHANGED <<file, routes, work, counters, lastRefresh, answer, decision, claim, controls,
                   history, upsets>>

-----------------------------------------------------------------------------
(* The rest of the system. *)

\* The ordinary scheduler starts what is queued.
Dispatch ==
    /\ status = "queued" /\ due /\ writer = "none" /\ ~paused /\ selected \notin expired
    /\ tries < MaxTries
    /\ status' = "downloading" /\ writer' = "live" /\ tries' = tries + 1
    /\ UNCHANGED <<due, quiescence, routes, counters, refresh, decision, claim, controls, task,
                   history, upsets>>

WriterEnds ==
    /\ writer = "live" /\ Upset("failure")
    /\ writer' \in WriterErrors
    /\ UNCHANGED <<file, routes, tries, counters, refresh, decision, claim, controls, task,
                   history>>

\* repository.execution: meaningful progress opens a new epoch.
Progress ==
    /\ writer = "live" /\ epoch < MaxEpoch
    /\ epoch' = epoch + 1 /\ failures' = 0 /\ refreshes' = 0 /\ asked' = {}
    /\ quiescence' = None
    /\ UNCHANGED <<status, due, routes, work, lastFailure, refresh, decision, claim, controls,
                   task,
                   outlived, upsets>>

Complete ==
    /\ writer = "live"
    /\ status' = "completed" /\ writer' = "none" /\ quiescence' = None
    /\ UNCHANGED <<due, routes, tries, counters, refresh, decision, claim, controls, task,
                   history, upsets>>

Expire ==
    /\ \E c \in Candidates \ expired : expired' = expired \cup {c}
    /\ Upset("failure")
    /\ UNCHANGED <<file, selected, tried, work, counters, refresh, decision, claim, controls,
                   task, history>>

BackoffElapses ==
    /\ ~due /\ due' = TRUE
    /\ UNCHANGED <<status, quiescence, routes, work, counters, refresh, decision, claim, controls,
                   task, history, upsets>>

\* The lease runs out: of a process that is gone, or of an owner that is slow.
Lapse ==
    /\ owner # None /\ ~lapsed /\ lapsed' = TRUE
    /\ IF owner = Lost THEN UNCHANGED upsets ELSE Upset("fault")
    /\ UNCHANGED <<durable, owner, controls, task, history>>

\* The process stops and starts again; its claim stays.
Crash ==
    /\ Upset("fault")
    /\ task' = [t \in Tasks |-> Idle]
    /\ owner' = IF owner = None THEN None ELSE Lost
    /\ startup' = TRUE /\ outlived' = {}
    /\ UNCHANGED <<durable, lapsed, paused, asked>>

-----------------------------------------------------------------------------
Init ==
    /\ status = "queued" /\ due = TRUE /\ quiescence = None
    /\ selected = First /\ tried = {} /\ expired = {}
    /\ writer = "none" /\ tries = 0
    /\ failures = 0 /\ lastFailure = None /\ refreshes = 0 /\ epoch = 0
    /\ lastRefresh = None /\ inflight = None /\ answer = [a \in RefreshIds |-> "none"]
    /\ decision = None
    /\ owner = None /\ lapsed = FALSE
    /\ paused = FALSE /\ startup = FALSE
    /\ task = [t \in Tasks |-> Idle]
    /\ asked = {} /\ outlived = {}
    /\ upsets = [kind \in {"fault", "failure", "command"} |-> 0]

Recovery(t) ==
    \/ Claim(t) \/ Finish(t) \/ ResetBudget(t) \/ Reconcile(t) \/ Plan(t)
    \/ Hold(t) \/ Lift(t) \/ Requeue(t)
    \/ Count(t) \/ Decide(t) \/ Conclude(t) \/ Proceed(t) \/ ReserveRefresh(t) \/ Mark(t)
    \/ Activate(t) \/ Commit(t) \/ Attempted(t) \/ Park(t)
    \/ Bind(t) \/ Legacy(t) \/ Begin(t) \/ Replay(t) \/ Ask(t) \/ Call(t) \/ Answer(t)
    \/ Told(t) \/ Renew(t) \/ Replace(t) \/ Settle(t)

Operator(t) == Retry(t) \/ Switch(t) \/ Resume(t)

Environment ==
    \/ Pause \/ Dispatch \/ WriterEnds \/ Progress \/ Complete \/ Expire \/ BackoffElapses
    \/ Lapse \/ Crash

Next == Startup \/ Environment \/ \E t \in Tasks : Notice(t) \/ Operator(t) \/ Recovery(t)

Spec == Init /\ [][Next]_vars

\* Tasks run on, the cycle comes by again and again, timers fire, and a dead claim lapses.
Fairness ==
    /\ \A t \in Tasks : WF_vars(Recovery(t))
    /\ WF_vars(Startup) /\ WF_vars(Notice(Cycle))
    /\ WF_vars(BackoffElapses) /\ WF_vars(owner = Lost /\ Lapse)
FairSpec == Spec /\ Fairness

-----------------------------------------------------------------------------
\* Every variable has its type; the budget is never overdrawn.
TypeOK ==
    /\ status \in {"queued", "downloading", "recovery_wait", "refresh_pending", "error",
                   "completed"}
    /\ due \in BOOLEAN
    /\ quiescence \in {None, "retry_backoff", "recovery_exhausted"}
    /\ selected \in Candidates /\ tried \subseteq Candidates /\ expired \subseteq Candidates
    /\ writer \in {"none", "live"} \cup Kinds /\ tries \in 0..MaxTries
    /\ failures \in Nat /\ lastFailure \in Failures \cup {None}
    /\ refreshes \in 0..RefreshLimit /\ epoch \in 0..MaxEpoch
    /\ lastRefresh \in Decisions \cup {None}
    /\ inflight \in Inflights \cup {None}
    /\ answer \in [RefreshIds -> {"none", "started", "usable", "unusable", "failed"}]
    /\ decision \in Decisions \cup {None}
    /\ owner \in Tasks \cup {None, Lost} /\ lapsed \in BOOLEAN
    /\ paused \in BOOLEAN /\ startup \in BOOLEAN
    /\ task \in [Tasks -> TaskStates]
    /\ asked \subseteq Decisions /\ outlived \subseteq Tasks
    /\ upsets \in [{"fault", "failure", "command"} -> Nat]

\* Whatever becomes of their claims, two tasks never ask the provider to carry out the same
\* decision at the same time on one reservation (begin_recovery_refresh is single-flight,
\* _refresh_claimed asks only for an attempt it has begun itself).  A decision that comes back
\* after another has been reserved is a new one.
OneCall ==
    \A t, u \in Tasks \ outlived :
        At(t, "calling") /\ At(u, "calling") /\ task[t].key = task[u].key => t = u

\* Between two resets of the budget the provider is asked to carry out at most
\* refreshes_per_recovery_epoch decisions that were charged to it, over crashes, replays and
\* owners that lost their claim (reserve_recovery_refresh).  Calls on a charge that a reset
\* has erased are not counted, see Stranded.
RefreshBudget == Cardinality(asked) <= RefreshLimit

\* A switch leaves exactly the candidate it was decided for: the failure that was judged, or
\* the choice that was made, is that of the candidate selected when the switch commits
\* (activate_candidate's commit is fenced by the claim).
JudgedSwitch ==
    [][\A t \in Tasks : At(t, "commit") /\ task'[t].pc = "attempted"
         => selected = task[t].cand]_vars

\* The steps at which a recovery has its claim checked, and where each leads it on.
Checks == {<<"decide", "apply">>, <<"apply", "mark">>, <<"legacy", "reserve">>,
           <<"reserve", "begin">>, <<"begin", "ask">>, <<"begin", "renew">>, <<"ask", "call">>,
           <<"told", "renew">>, <<"told", "clear">>, <<"renew", "replace">>,
           <<"activate", "commit">>, <<"commit", "attempted">>}

\* While a file is paused neither the cycle nor a Retry passes a check of its claim, not even
\* one that had claimed and decided before the pause (set_pause_and_fence): it gets no leave
\* to ask the provider, takes up no answer, renews no claim and commits no switch.  What it
\* had passed before the pause it carries out: one call, one replacement of the candidate.
\* Resume is left out: its own pass does not look at the intent.
PauseFences ==
    [][\A t \in Tasks : paused /\ task[t].trigger \in {"auto", "retry"}
         => <<task[t].pc, task'[t].pc>> \notin Checks]_vars

Automatic(t) == task[t].trigger \in {"auto", "resume"}

\* No automatic recovery that holds the claim takes up an exhausted file: it stays at rest
\* for the operator's Retry or Switch.  A file found being written is being used again: its
\* rest is lifted.
ExhaustedRests ==
    [][\A t \in Tasks : /\ Holds(t) /\ Automatic(t) /\ ~At(t, "lift")
                        /\ task'[t] # task[t] /\ quiescence = "recovery_exhausted"
         => quiescence' = "recovery_exhausted"]_vars

\* Where the code leaves a file waiting for good: a refresh that failed, with the next decision
\* recorded and not applied (begin_recovery_refresh refuses it ever after); a refresh whose
\* charge a reset erased (it is found reserved each time, so nothing counts its repetitions);
\* a wait without a reason (no pass looks for it).
Stranded ==
    \/ status = "refresh_pending" /\ decision \notin {None, lastRefresh}
    \/ status = "refresh_pending" /\ decision = lastRefresh /\ refreshes = 0
    \/ status = "recovery_wait" /\ quiescence = None

Waiting == status \in {"refresh_pending", "recovery_wait"}

\* A file that waits for a refresh or a backoff does not wait for ever, whatever crash, lapse
\* or command comes between: it is taken up again, parked for the operator, paused, or it is
\* in one of the three states above.
WaitsEnd == Waiting ~> (~Waiting \/ paused \/ Stranded)

\* Every failed execution is decided on, though the process that had claimed it may be gone:
\* its claim lapses and the next pass claims anew (claim_recovery).
FailureDecided == Ended ~> (~Ended \/ paused)
=============================================================================
