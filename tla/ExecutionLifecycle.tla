------------------------- MODULE ExecutionLifecycle -------------------------
(***************************************************************************)
(* One artifact (file) of one transfer and the writers the core starts for *)
(* it.  The database rows are shared by several asyncio tasks; a task       *)
(* awaits at every executor call and at every transaction, so a task is a   *)
(* step counter and each action below is what happens between two awaits.   *)
(* The native job (aria2, rsync, yt-dlp...) is a program of its own.        *)
(***************************************************************************)
EXTENDS Naturals, FiniteSets

CONSTANTS
    Attempts,       \* execution attempt identities, each used at most once
    Tasks,          \* concurrent asyncio tasks of the engine
    Cycle,          \* the task of the reconcile cycle; the others serve the API
    NoAttempt,      \* download_files.execution_attempt_id IS NULL
    Faults          \* may an executor call fail or lose its acknowledgement?

ASSUME CycleAssumption == Cycle \in Tasks
ASSUME NoAttemptAssumption == NoAttempt \notin Attempts
ASSUME FaultsAssumption == Faults \in BOOLEAN

VARIABLES
    transfer,       \* torrents.status, as far as a writer is concerned
    paused,         \* the durable pause intent
    status,         \* download_files.status
    current,        \* download_files.execution_attempt_id
    state,          \* execution_attempts.state
    authorized,     \* execution_attempts.authorized
    cleanup,        \* execution_attempts.cleanup_state
    native,         \* the native job of each attempt, whatever the rows say
    task,           \* where each task stands, on which attempt, what it saw
    overtaken       \* history: attempts whose start lost a race (see Overtaking)

vars == <<transfer, paused, status, current, state, authorized, cleanup,
          native, task, overtaken>>

row == <<transfer, paused, status, current, state, authorized, cleanup>>

-----------------------------------------------------------------------------
(* Values *)

Ended    == {"cancelled", "deleted"}
Stopped  == {"succeeded", "failed", "cancelled", "absent"}
Mutating == {"prepared", "running", "paused", "unknown"}
Reported == Stopped \cup {"running", "paused", "unknown"}
Watched  == {"queued", "downloading", "unknown", "verifying", "paused"}

Steps == {"idle", "starting", "submitting", "answered",
          "observed", "result", "again", "decide", "fence", "fenced",
          "converge", "converged", "retire", "retiring", "retired", "detach",
          "lost", "release", "reconcile", "resume", "reconciled", "requeue",
          "verify", "accept", "commit", "reject",
          "pass", "clean", "reclaim", "reclaimed", "complete"}

\* download_files.status that an observation of the current writer leaves.
StatusOf ==
    [running |-> "downloading", paused |-> "paused", succeeded |-> "verifying",
     failed |-> "error", cancelled |-> "cancelled", absent |-> "lost",
     unknown |-> "unknown"]

Statuses == {StatusOf[s] : s \in Reported} \cup {"queued", "completed"}

TaskType == [at : Steps, on : Attempts \cup {NoAttempt},
             seen : {"none"} \cup Reported, fresh : BOOLEAN]

At(step, e, s, f) == [at |-> step, on |-> e, seen |-> s, fresh |-> f]

Idle == At("idle", NoAttempt, "none", FALSE)

\* Task t moves on; what it holds is kept unless the action says otherwise.
Go(t, step)      == task' = [task EXCEPT ![t].at = step]
GoOn(t, step, e) == task' = [task EXCEPT ![t] = At(step, e, "none", FALSE)]
Done(t)          == task' = [task EXCEPT ![t] = Idle]

Sees(t, step, e, s) == task' = [task EXCEPT ![t] = At(step, e, s, FALSE)]

-----------------------------------------------------------------------------
(* The executor contract *)

\* What a reachable executor reports of a job it finds (or does not find).
Truth(e) == IF native[e] \in {"none", "gone"} THEN "absent" ELSE native[e]

\* authorize_execution: observation, start and cancellation authority.
MayStart(e)  == /\ authorized[e] /\ current = e /\ state[e] = "prepared"
                /\ transfer = "live" /\ ~paused
MayCancel(e) == /\ authorized[e]
                /\ current = e \/ (transfer \in Ended /\ cleanup[e] = "pending")

\* observe: without authority, or unreachable, the answer is UNKNOWN.
Seen(e) == IF authorized[e] THEN {Truth(e)} \cup (IF Faults THEN {"unknown"} ELSE {})
                            ELSE {"unknown"}

\* cancel of attempt e answering r: refused, nothing to stop, stopped and
\* confirmed, or (Faults) an acknowledgement that never came.
CancelNative(e, r) ==
    \/ /\ ~MayCancel(e) /\ r = "unknown"
       /\ native' = native
    \/ /\ MayCancel(e) /\ native[e] # "running" /\ r = Truth(e)
       /\ native' = native
    \/ /\ MayCancel(e) /\ native[e] = "running" /\ r = "cancelled"
       /\ native' = [native EXCEPT ![e] = "gone"]
    \/ /\ MayCancel(e) /\ Faults /\ r = "unknown"
       /\ \/ native' = native
          \/ native[e] = "running" /\ native' = [native EXCEPT ![e] = "gone"]

-----------------------------------------------------------------------------
(* repository.execution: one observation made durable *)

\* An attempt without authority that is already terminal accepts nothing, and
\* a proven failure is not overwritten by a later absence.
Accepts(e, s) == /\ authorized[e] \/ state[e] \notin Stopped
                 /\ ~(state[e] = "failed" /\ s = "absent")

\* Task t records what it saw of its attempt and then stands at `next`.  A
\* write makes every observation obtained before it stale.
Record(t, next) ==
    LET e == task[t].on
        s == task[t].seen
    IN  IF Accepts(e, s)
        THEN /\ state' = [state EXCEPT ![e] = s]
             /\ status' = IF current = e /\ transfer \notin Ended THEN StatusOf[s] ELSE status
             /\ task' = [u \in Tasks |->
                           CASE u = t -> next
                             [] u # t /\ task[u].on = e -> [task[u] EXCEPT !.fresh = FALSE]
                             [] OTHER -> task[u]]
        ELSE /\ task' = [task EXCEPT ![t] = next]
             /\ UNCHANGED <<state, status>>

\* Where t stands after recording; only `decide` still looks at what was seen.
Then(t, step) == At(step, task[t].on, IF step = "decide" THEN task[t].seen ELSE "none", FALSE)

-----------------------------------------------------------------------------
(* Initial state: a transfer admitted, its file waiting for dispatch *)

Init ==
    /\ transfer = "live" /\ paused = FALSE
    /\ status = "queued" /\ current = NoAttempt
    /\ state = [e \in Attempts |-> "none"]
    /\ authorized = [e \in Attempts |-> FALSE]
    /\ cleanup = [e \in Attempts |-> "none"]
    /\ native = [e \in Attempts |-> "none"]
    /\ task = [t \in Tasks |-> Idle]
    /\ overtaken = {}

-----------------------------------------------------------------------------
(* Dispatch: durable admission, then a native start outside every lock *)

\* Mutant: an attempt that was withdrawn is prepared again.
PrepareReused(t, e) ==
    /\ task[t].at = "idle"
    /\ transfer = "live" /\ ~paused
    /\ status = "queued" /\ current = NoAttempt
    /\ state[e] = "none" \/ (state[e] \in Stopped /\ ~authorized[e])
    /\ state' = [state EXCEPT ![e] = "prepared"]
    /\ authorized' = [authorized EXCEPT ![e] = TRUE]
    /\ current' = e
    /\ GoOn(t, "starting", e)
    /\ UNCHANGED <<transfer, paused, status, cleanup, native>>

\* prepare_execution: the attempt exists, authorized and current, before any
\* native side effect.
Prepare(t, e) ==
    /\ task[t].at = "idle"
    /\ transfer = "live" /\ ~paused
    /\ status = "queued" /\ current = NoAttempt
    /\ state[e] = "none"
    /\ state' = [state EXCEPT ![e] = "prepared"]
    /\ authorized' = [authorized EXCEPT ![e] = TRUE]
    /\ current' = e
    /\ GoOn(t, "starting", e)
    /\ UNCHANGED <<transfer, paused, status, cleanup, native>>

\* The executor's last authority check.  A revoked attempt is uncertain; one
\* that may not start now is deferred: PAUSED is answered, no job was created.
CheckStart(t) ==
    LET e == task[t].on IN
    /\ task[t].at = "starting"
    /\ \/ MayStart(e) /\ Go(t, "submitting")
       \/ authorized[e] /\ ~MayStart(e) /\ Sees(t, "answered", e, "paused")
       \/ ~authorized[e] /\ Sees(t, "answered", e, "unknown")
    /\ UNCHANGED <<row, native>>

\* The native submission itself: accepted, accepted and dead at once,
\* refused, or (Faults) an answer that was lost either way.
Launch(t) ==
    LET e == task[t].on IN
    /\ task[t].at = "submitting"
    /\ \/ /\ native' = [native EXCEPT ![e] = "running"]
          /\ Sees(t, "answered", e, "running")
       \/ /\ native' = [native EXCEPT ![e] = "failed"]
          /\ Sees(t, "answered", e, "failed")
       \/ /\ native' = native
          /\ Sees(t, "answered", e, "failed")
       \/ /\ Faults
          /\ native' \in {native, [native EXCEPT ![e] = "running"]}
          /\ Sees(t, "answered", e, "unknown")
    /\ UNCHANGED row

\* _execution_result on the start's answer: recorded without a freshness check.
RecordStart(t) ==
    /\ task[t].at = "answered"
    /\ Record(t, Then(t, "decide"))
    /\ UNCHANGED <<transfer, paused, current, authorized, cleanup, native>>

-----------------------------------------------------------------------------
(* The reconcile cycle's observation of the current writer *)

Observe(e) ==
    /\ task[Cycle].at = "idle"
    /\ transfer = "live" /\ current = e /\ status \in Watched
    /\ \E s \in Seen(e) : task' = [task EXCEPT ![Cycle] = At("observed", e, s, TRUE)]
    /\ UNCHANGED <<row, native>>

\* _converge_execution on a passive observation: under a standing pause an
\* active writer is retired, a lost parked one released; a start whose answer
\* is still due is left to its dispatcher (execution_start_pending).
Converge(t) ==
    LET e == task[t].on
        held == paused /\ transfer = "live"
    IN
    /\ task[t].at = "observed"
    /\ \/ current # e /\ Done(t)
       \/ /\ current = e /\ held /\ task[t].seen = "running" /\ state[e] # "prepared"
          /\ GoOn(t, "retire", e)
       \/ /\ current = e /\ held /\ task[t].seen = "absent" /\ state[e] = "paused"
          /\ Go(t, "lost")
       \/ /\ current = e
          /\ ~(held /\ task[t].seen = "running" /\ state[e] # "prepared")
          /\ ~(held /\ task[t].seen = "absent" /\ state[e] = "paused")
          /\ Go(t, "result")
    /\ UNCHANGED <<row, native>>

\* Mutant: the observation is recorded however old it is.
RecordObservedStale(t) ==
    /\ task[t].at \in {"result", "again"}
    /\ Record(t, Then(t, "decide"))
    /\ UNCHANGED <<transfer, paused, current, authorized, cleanup, native>>

\* _execution_result with expected_writes: a superseded observation is taken
\* again once, and dropped when it is superseded again.
RecordObserved(t) ==
    LET e == task[t].on IN
    /\ task[t].at \in {"result", "again"}
    /\ \/ task[t].fresh /\ Record(t, Then(t, "decide"))
       \/ /\ ~task[t].fresh /\ task[t].at = "result"
          /\ \E s \in Seen(e) : task' = [task EXCEPT ![t] = At("again", e, s, TRUE)]
          /\ UNCHANGED <<state, status>>
       \/ /\ ~task[t].fresh /\ task[t].at = "again"
          /\ Done(t)
          /\ UNCHANGED <<state, status>>
    /\ UNCHANGED <<transfer, paused, current, authorized, cleanup, native>>

\* What a recorded observation leads to.  A live transfer's running writer may
\* also be found stalled and is then cancelled like one of an ended transfer.
Decide(t) ==
    LET s == task[t].seen IN
    /\ task[t].at = "decide"
    /\ \/ transfer # "live" /\ GoOn(t, "fence", task[t].on)
       \/ transfer = "live" /\ s = "running" /\ paused /\ GoOn(t, "retire", task[t].on)
       \/ transfer = "live" /\ s = "running" /\ ~paused /\ (Done(t) \/ GoOn(t, "fence", task[t].on))
       \/ transfer = "live" /\ s = "succeeded" /\ GoOn(t, "verify", task[t].on)
       \/ transfer = "live" /\ s \in {"failed", "absent"} /\ GoOn(t, "reconcile", task[t].on)
       \/ transfer = "live" /\ s \in {"unknown", "paused", "cancelled"} /\ Done(t)
    /\ UNCHANGED <<row, native>>

Fence(t) ==
    LET e == task[t].on IN
    /\ task[t].at = "fence"
    /\ \E r \in Reported : CancelNative(e, r) /\ Sees(t, "fenced", e, r)
    /\ UNCHANGED row

\* Only a stalled writer of a live transfer goes on to recovery.
RecordFence(t) ==
    /\ task[t].at = "fenced"
    /\ Record(t, IF transfer = "live" /\ task[t].seen \in {"absent", "cancelled"}
                 THEN At("reconcile", task[t].on, "none", FALSE) ELSE Idle)
    /\ UNCHANGED <<transfer, paused, current, authorized, cleanup, native>>

-----------------------------------------------------------------------------
(* Pause: the intent, then one writer retirement under the attempt's lock *)

\* _convergence_lock(e), held from the observation to the record of the stop.
LockFree(t, e) ==
    \A u \in Tasks \ {t} :
        ~(task[u].on = e /\ task[u].at \in {"converged", "retiring", "retired"})

Pause(t) ==
    /\ t # Cycle /\ task[t].at = "idle" /\ transfer = "live"
    /\ paused' = TRUE
    /\ IF current # NoAttempt /\ status # "completed"
       THEN GoOn(t, "converge", current) ELSE Done(t)
    /\ UNCHANGED <<transfer, status, current, state, authorized, cleanup, native>>

\* _converge_execution called by a control: it observes for itself.
ConvergeControl(t) ==
    LET e == task[t].on IN
    /\ task[t].at = "converge"
    /\ LockFree(t, e)
    /\ \/ (current # e \/ transfer # "live") /\ Done(t)
       \/ /\ current = e /\ transfer = "live"
          /\ \E s \in Seen(e) :
                Sees(t, CASE paused /\ s = "running" -> "retire"
                          [] paused /\ s = "absent" /\ state[e] = "paused" -> "lost"
                          [] OTHER -> "converged", e, s)
    /\ UNCHANGED <<row, native>>

RecordConverged(t) ==
    /\ task[t].at = "converged"
    /\ Record(t, Idle)
    /\ UNCHANGED <<transfer, paused, current, authorized, cleanup, native>>

\* Mutant: a standing pause is taken for proof that the writer was retired.
RetireUnpaused(t) ==
    LET e == task[t].on IN
    /\ task[t].at = "retire"
    /\ \/ (paused \/ current # e \/ state[e] = "prepared") /\ Done(t)
       \/ /\ ~paused /\ current = e /\ state[e] # "prepared"
          /\ \E s \in Seen(e) : Sees(t, "retiring", e, s)
    /\ UNCHANGED <<row, native>>

\* retire_writer: never while a start may be in flight; a succeeded writer is
\* kept; a writer already stopped is recorded, any other is cancelled first.
Retire(t) ==
    LET e == task[t].on IN
    /\ task[t].at = "retire"
    /\ LockFree(t, e)
    /\ \/ (current # e \/ state[e] = "prepared") /\ Done(t)
       \/ /\ current = e /\ state[e] # "prepared"
          /\ \E s \in Seen(e) :
                Sees(t, CASE s = "succeeded" /\ status # "error" -> "converged"
                          [] s \in Stopped /\ ~(s = "succeeded" /\ status # "error") -> "retired"
                          [] OTHER -> "retiring", e, s)
    /\ UNCHANGED <<row, native>>

StopWriter(t) ==
    LET e == task[t].on IN
    /\ task[t].at = "retiring"
    /\ \E r \in Reported : CancelNative(e, r) /\ Sees(t, "retired", e, r)
    /\ UNCHANGED row

RecordRetired(t) ==
    /\ task[t].at = "retired"
    /\ Record(t, IF task[t].seen \in Stopped THEN Then(t, "detach") ELSE Idle)
    /\ UNCHANGED <<transfer, paused, current, authorized, cleanup, native>>

\* _retire_lost_parked_writer: the absence is recorded, the writer released.
RecordLost(t) ==
    /\ task[t].at = "lost"
    /\ Record(t, Then(t, "release"))
    /\ UNCHANGED <<transfer, paused, current, authorized, cleanup, native>>

\* detach_retired_writer: only the exact current attempt, only once terminal,
\* and never the file of a settled transfer; the stopped attempt loses its
\* authority whatever became of the file.
Detach(t) ==
    LET e       == task[t].on
        stopped == state[e] \in Stopped \ {"succeeded"}
        freed   == stopped /\ current = e /\ status # "completed" /\ transfer = "live"
    IN
    /\ task[t].at \in {"detach", "release"}
    /\ current' = IF freed THEN NoAttempt ELSE current
    /\ status' = CASE freed /\ (task[t].at = "detach" \/ paused) -> "paused"
                   [] freed /\ ~(task[t].at = "detach" \/ paused) -> "queued"
                   [] OTHER -> status
    /\ authorized' = IF stopped THEN [authorized EXCEPT ![e] = FALSE] ELSE authorized
    /\ Done(t)
    /\ UNCHANGED <<transfer, paused, state, cleanup, native>>

-----------------------------------------------------------------------------
(* Recovery: Resume, Retry, a wake, or a lost, failed or rejected writer *)

Resume(t) ==
    /\ t # Cycle /\ task[t].at = "idle" /\ transfer = "live"
    /\ paused' = FALSE
    /\ IF status # "completed" THEN GoOn(t, "resume", NoAttempt) ELSE Done(t)
    /\ UNCHANGED <<transfer, status, current, state, authorized, cleanup, native>>

\* Operator Retry: only a transfer whose file has something to retry.
Retry(t) ==
    /\ t # Cycle /\ task[t].at = "idle" /\ transfer = "live"
    /\ status \in {"error", "lost"}
    /\ GoOn(t, "reconcile", NoAttempt)
    /\ UNCHANGED <<row, native>>

\* A quiescent recovery whose condition holds again.
Wake ==
    /\ task[Cycle].at = "idle" /\ transfer = "live" /\ ~paused
    /\ status = "error"
    /\ GoOn(Cycle, "reconcile", NoAttempt)
    /\ UNCHANGED <<row, native>>

\* _reconcile_current: the file is read again and its writer observed again.
\* Only Resume looks past a standing pause.
Reconcile(t) ==
    LET e == current IN
    /\ task[t].at \in {"reconcile", "resume"}
    /\ \/ transfer # "live" /\ Done(t)
       \/ /\ transfer = "live" /\ paused /\ task[t].at = "reconcile"
          /\ IF e = NoAttempt THEN Done(t) ELSE GoOn(t, "converge", e)
       \/ /\ transfer = "live" /\ ~(paused /\ task[t].at = "reconcile")
          /\ e = NoAttempt
          /\ GoOn(t, "requeue", NoAttempt)
       \/ /\ transfer = "live" /\ ~(paused /\ task[t].at = "reconcile")
          /\ e # NoAttempt
          /\ \E s \in Seen(e) :
                /\ s = "running" => LockFree(t, e)
                /\ Sees(t, CASE s = "succeeded" /\ status = "error" -> "requeue"
                             [] s = "absent" /\ state[e] = "paused" /\ task[t].at = "resume" -> "lost"
                             [] s = "running" -> IF paused THEN "retire" ELSE "converged"
                             [] OTHER -> "reconciled", e, s)
    /\ UNCHANGED <<row, native>>

RecordReconciled(t) ==
    /\ task[t].at = "reconciled"
    /\ Record(t, CASE task[t].seen = "succeeded" -> Then(t, "decide")
                   [] task[t].seen \in Stopped \ {"succeeded"} -> Then(t, "requeue")
                   [] OTHER -> Idle)
    /\ UNCHANGED <<transfer, paused, current, authorized, cleanup, native>>

\* Mutant: the current attempt is released before it is known to be terminal.
RequeueRunning(t) ==
    /\ task[t].at = "requeue" /\ transfer = "live"
    /\ status' \in {"queued", "error"}
    /\ current' = NoAttempt
    /\ authorized' = [e \in Attempts |-> authorized[e] /\ e # current]
    /\ Done(t)
    /\ UNCHANGED <<transfer, paused, state, cleanup, native>>

\* transition_recovery: refused for a settled transfer, while the current
\* attempt is not terminal, or while another authorized writer may mutate; the
\* terminal attempt loses its authority and its link.  A file that had no
\* writer is only queued again.  A recovery whose claim was lost does nothing.
Requeue(t) ==
    /\ task[t].at = "requeue"
    /\ \/ UNCHANGED <<status, current, authorized>>
       \/ /\ task[t].on = NoAttempt /\ transfer \notin Ended
          /\ status' = "queued"
          /\ UNCHANGED <<current, authorized>>
       \/ /\ task[t].on # NoAttempt /\ transfer = "live"
          /\ current # NoAttempt => state[current] \in Stopped
          /\ \A e \in Attempts \ {current} : ~(authorized[e] /\ state[e] \in Mutating)
          /\ status' \in {"queued", "error"}
          /\ current' = NoAttempt
          /\ authorized' = [e \in Attempts |-> authorized[e] /\ e # current]
    /\ Done(t)
    /\ UNCHANGED <<transfer, paused, state, cleanup, native>>

-----------------------------------------------------------------------------
(* Completion verification of a succeeded writer *)

\* _verify_succeeded waits for stable material, then looks again.
Verify(t) ==
    LET e == task[t].on IN
    /\ task[t].at = "verify"
    /\ IF current = e /\ status = "verifying" /\ transfer = "live"
       THEN Go(t, "accept") \/ Go(t, "reject") ELSE Done(t)
    /\ UNCHANGED <<row, native>>

\* record_materialization still names the current attempt, or it rejects.
Accept(t) ==
    /\ task[t].at = "accept"
    /\ Go(t, IF current = task[t].on THEN "commit" ELSE "reject")
    /\ UNCHANGED <<row, native>>

\* Mutant: the commit forgets that the transfer may have ended meanwhile.
CommitEnded(t) ==
    /\ task[t].at = "commit"
    /\ status' = "completed"
    /\ Done(t)
    /\ UNCHANGED <<transfer, paused, current, state, authorized, cleanup, native>>

\* artifact_state(completed): guarded by the transfer alone.
Commit(t) ==
    /\ task[t].at = "commit"
    /\ status' = IF transfer \in Ended THEN status ELSE "completed"
    /\ Done(t)
    /\ UNCHANGED <<transfer, paused, current, state, authorized, cleanup, native>>

\* Mutant: the rejection leaves a status no other operation knows.
RejectUnknown(t) ==
    /\ task[t].at = "reject"
    /\ status' = IF transfer \in Ended THEN status ELSE "rejected"
    /\ GoOn(t, "reconcile", task[t].on)
    /\ UNCHANGED <<transfer, paused, current, state, authorized, cleanup, native>>

Reject(t) ==
    /\ task[t].at = "reject"
    /\ status' = IF transfer \in Ended THEN status ELSE "error"
    /\ GoOn(t, "reconcile", task[t].on)
    /\ UNCHANGED <<transfer, paused, current, state, authorized, cleanup, native>>

\* _aggregate: a transfer whose file is complete is complete.
Aggregate ==
    /\ transfer = "live" /\ status = "completed"
    /\ transfer' = "completed"
    /\ UNCHANGED <<paused, status, current, state, authorized, cleanup, native, task>>

-----------------------------------------------------------------------------
(* Cancel and Delete, and the cleanup of the writers they leave running *)

\* Mutant: the transfer ends and its writer is owed nothing.
CancelUnowed(t) ==
    /\ t # Cycle /\ task[t].at = "idle" /\ transfer \in {"live", "cancelled"}
    /\ transfer' = "cancelled"
    /\ status' = IF status = "completed" THEN status ELSE "cancelled"
    /\ Go(t, "pass")
    /\ UNCHANGED <<paused, current, state, authorized, cleanup, native>>

\* cancel_with_execution_cleanup: the transfer ends and, in the same
\* transaction, its current writer is owed cleanup.  A repeated Cancel only
\* runs the cleanup pass.
Cancel(t) ==
    /\ t # Cycle /\ task[t].at = "idle" /\ transfer \in {"live", "cancelled"}
    /\ transfer' = "cancelled"
    /\ IF transfer = "live"
       THEN /\ cleanup' = [e \in Attempts |->
                             IF e = current /\ authorized[e] /\ state[e] \in Mutating
                             THEN "pending" ELSE cleanup[e]]
            /\ status' = IF status = "completed" THEN status ELSE "cancelled"
       ELSE UNCHANGED <<cleanup, status>>
    /\ Go(t, "pass")
    /\ UNCHANGED <<paused, current, state, authorized, native>>

\* delete: every authorized writer of the transfer is owed cleanup, linked or not.
Delete(t) ==
    /\ t # Cycle /\ task[t].at = "idle"
    /\ transfer' = "deleted"
    /\ cleanup' = [e \in Attempts |->
                     IF authorized[e] /\ state[e] \in Mutating THEN "pending" ELSE cleanup[e]]
    /\ Go(t, "pass")
    /\ UNCHANGED <<paused, status, current, state, authorized, native>>

Owed == {e \in Attempts : transfer \in Ended /\ cleanup[e] = "pending"}

\* Another task holds the cleanup lease of e (which may expire while it works).
Leased(t, e) == \E u \in Tasks \ {t} :
    task[u].on = e /\ task[u].at \in {"clean", "reclaim", "reclaimed", "complete"}

\* _cleanup_executions_pending: one owed writer is claimed and observed.
Pass(t, e) ==
    /\ task[t].at = "pass" \/ (t = Cycle /\ task[t].at = "idle")
    /\ e \in Owed
    /\ \E s \in Seen(e) : Sees(t, "clean", e, s)
    /\ UNCHANGED <<row, native>>

PassDone(t) ==
    /\ task[t].at = "pass"
    /\ \A e \in Owed : Leased(t, e)
    /\ Done(t)
    /\ UNCHANGED <<row, native>>

\* Stopped: settle.  Uncertain: observe again later.  Still there: cancel,
\* unless earlier cancellations used up the destructive budget.
RecordCleanup(t) ==
    /\ task[t].at = "clean"
    /\ \E step \in CASE task[t].seen \in Stopped -> {"complete"}
                     [] task[t].seen = "unknown" -> {"idle"}
                     [] OTHER -> {"reclaim"} \cup (IF Faults THEN {"idle"} ELSE {}) :
          Record(t, IF step = "idle" THEN Idle ELSE Then(t, step))
    /\ UNCHANGED <<transfer, paused, current, authorized, cleanup, native>>

\* execution_cleanup_attempt is refused once another task settled the attempt.
Reclaim(t) ==
    LET e == task[t].on IN
    /\ task[t].at = "reclaim"
    /\ \/ cleanup[e] # "pending" /\ Done(t) /\ native' = native
       \/ /\ cleanup[e] = "pending"
          /\ \E r \in Reported : CancelNative(e, r) /\ Sees(t, "reclaimed", e, r)
    /\ UNCHANGED row

RecordReclaimed(t) ==
    /\ task[t].at = "reclaimed"
    /\ Record(t, IF task[t].seen \in Stopped THEN Then(t, "complete") ELSE Idle)
    /\ UNCHANGED <<transfer, paused, current, authorized, cleanup, native>>

\* execution_cleanup_complete: unconditional, the lease is not checked.
Complete(t) ==
    LET e == task[t].on IN
    /\ task[t].at = "complete"
    /\ cleanup' = [cleanup EXCEPT ![e] = "complete"]
    /\ authorized' = [authorized EXCEPT ![e] = FALSE]
    /\ Done(t)
    /\ UNCHANGED <<transfer, paused, status, current, state, native>>

-----------------------------------------------------------------------------
(* The environment: native jobs end, are evicted or lost; the process restarts *)

NativeStep(e) ==
    /\ \/ native[e] = "running"
          /\ \E s \in {"succeeded", "failed", "gone"} : native' = [native EXCEPT ![e] = s]
       \/ native[e] \in {"succeeded", "failed"}
          /\ native' = [native EXCEPT ![e] = "gone"]
    /\ UNCHANGED <<row, task>>

\* Every task and every process-local write count is gone; rows and jobs stay.
Restart ==
    /\ task' = [t \in Tasks |-> Idle]
    /\ UNCHANGED <<row, native>>

-----------------------------------------------------------------------------
(* History: a start that lost its race *)

\* The start of e is past its last authority check and its answer is not yet
\* recorded ...
InFlight(e) == \E t \in Tasks :
    /\ task[t].on = e
    /\ \/ task[t].at = "submitting"
       \/ task[t].at = "answered" /\ task[t].seen \notin Stopped

\* ... while task t holds a stop of e it will record without asking whether
\* something newer was recorded since ...
HoldsStop(t, e) ==
    /\ task[t].on = e /\ task[t].seen \in Stopped
    /\ task[t].at \notin {"answered", "observed", "result", "again"}

\* ... or a stop of e is already recorded, or its authority withdrawn: the job
\* that lands afterwards was written off before it existed.
Overtaking(e) == /\ InFlight(e)
                 /\ \/ state[e] \in Stopped
                    \/ ~authorized[e]
                    \/ \E t \in Tasks : HoldsStop(t, e)

Note == overtaken' = overtaken \cup {e \in Attempts : Overtaking(e)'}

-----------------------------------------------------------------------------
(* Next-state relation and specification *)

\* A task that has begun something carries on.
Continue(t) ==
    \/ CheckStart(t) \/ Launch(t) \/ RecordStart(t)
    \/ Converge(t) \/ RecordObserved(t) \/ Decide(t) \/ Fence(t) \/ RecordFence(t)
    \/ ConvergeControl(t) \/ RecordConverged(t)
    \/ Retire(t) \/ StopWriter(t) \/ RecordRetired(t) \/ RecordLost(t) \/ Detach(t)
    \/ Reconcile(t) \/ RecordReconciled(t) \/ Requeue(t)
    \/ Verify(t) \/ Accept(t) \/ Commit(t) \/ Reject(t)
    \/ (\E e \in Attempts : task[t].at = "pass" /\ Pass(t, e)) \/ PassDone(t)
    \/ RecordCleanup(t) \/ Reclaim(t) \/ RecordReclaimed(t) \/ Complete(t)

Control(t) == Pause(t) \/ Resume(t) \/ Retry(t) \/ Cancel(t) \/ Delete(t)

CyclePass == \E e \in Attempts : task[Cycle].at = "idle" /\ Pass(Cycle, e)

CycleObserve == \E e \in Attempts : Observe(e)

Step ==
    \/ \E t \in Tasks : Continue(t) \/ Control(t)
    \/ \E t \in Tasks, e \in Attempts : Prepare(t, e)
    \/ CyclePass \/ CycleObserve \/ Wake
    \/ Aggregate
    \/ \E e \in Attempts : NativeStep(e)
    \/ Restart

Next == Step /\ Note

Spec == Init /\ [][Next]_vars

\* The event loop runs every task that can go on; the cycle runs forever, and
\* each of its rounds does the cleanup pass and observes the current writer.
\* The process does not restart forever.
Fairness ==
    /\ \A t \in Tasks : WF_vars(Continue(t) /\ Note)
    /\ SF_vars(CyclePass /\ Note)
    /\ SF_vars(CycleObserve /\ Note)
    /\ <>[][~Restart]_vars

FairSpec == Spec /\ Fairness

-----------------------------------------------------------------------------
(* Properties *)

TypeOK ==
    /\ transfer \in {"live", "completed"} \cup Ended
    /\ paused \in BOOLEAN
    /\ status \in Statuses
    /\ current \in Attempts \cup {NoAttempt}
    /\ state \in [Attempts -> {"none"} \cup Mutating \cup Stopped]
    /\ authorized \in [Attempts -> BOOLEAN]
    /\ cleanup \in [Attempts -> {"none", "pending", "complete"}]
    /\ native \in [Attempts -> {"none", "running", "succeeded", "failed", "gone"}]
    /\ task \in [Tasks -> TaskType]
    /\ overtaken \subseteq Attempts

\* A native writer whose start did not lose its race is never orphaned: it
\* keeps its authority, the file still names it, no row calls it stopped, and
\* once the transfer has ended somebody owes it cleanup.  This is what lets
\* transition_recovery, detach_retired_writer and execution_cleanup_complete
\* withdraw authority on the word of an earlier observation.
OwnedWriter ==
    \A e \in Attempts \ overtaken :
        native[e] = "running" =>
            /\ authorized[e] /\ current = e
            /\ state[e] \in Mutating
            /\ transfer \in Ended => cleanup[e] = "pending"

\* Two writers never write one file: whatever mixture of recovery, pause,
\* retry and restart led to a second attempt, the first one has stopped.
SingleWriter ==
    \A e, f \in Attempts \ overtaken :
        native[e] = "running" /\ native[f] = "running" => e = f

\* How responsible the rows are for an attempt, and what its native job does:
\* of an attempt that was overtaken the ledger says nothing.
Phase(e) == CASE e \in overtaken   -> "lost"
              [] e \notin overtaken /\ authorized[e] -> "held"
              [] e \notin overtaken /\ ~authorized[e] ->
                    IF state[e] = "none" THEN "new" ELSE "released"
Work(e)  == CASE e \in overtaken \/ native[e] = "none" -> "none"
              [] e \notin overtaken /\ native[e] = "running" -> "running"
              [] OTHER -> "ended"

Ledger == INSTANCE WriterLedger WITH
            phase <- [e \in Attempts |-> Phase(e)], work <- [e \in Attempts |-> Work(e)]

\* The rows keep the writers' ledger: an attempt is authorized once, before its
\* job begins, and alone; its authority goes when the job has ended, whoever
\* withdraws it (recovery, detachment, cleanup) on whichever observation, and
\* never comes back.
ResponsibilityLedger == Ledger!Spec

\* Only a writer that ended well delivers: when a verification commits, the job
\* of the writer it verified had succeeded and writes no more, whatever became
\* of the attempt meanwhile, and whether or not it is still the current one.
EndedWriterDelivers ==
    [][\A t \in Tasks :
            task[t].at = "commit" /\ status # "completed" /\ status' = "completed"
                => native[task[t].on] \in {"succeeded", "gone"}]_vars

\* What EXECUTION_CLEANUP_LIFECYCLE.md promises of every launched writer:
\* responsibility for it is retained until it is terminal or absent.
ResponsibilityRetained ==
    \A e \in Attempts : native[e] = "running" => authorized[e]

\* A late success of a cancelled or deleted transfer is never delivered, however
\* far its verification had come when the transfer ended.
NoLateDelivery ==
    [][(transfer \in Ended /\ status' = "completed") => status = "completed"]_vars

\* _verify_succeeded: "the existing commit -- only while that same execution is
\* still the artifact's current, verifying writer".  Here only the first half.
CommitOfCurrentWriter ==
    [][\A t \in Tasks :
            task[t].at = "commit" /\ status # "completed" /\ status' = "completed"
                => current = task[t].on]_vars

\* A writer its ended transfer left running is stopped in the end.
EndedWriterStops ==
    \A e \in Attempts :
        (transfer \in Ended /\ native[e] = "running")
            ~> (native[e] # "running" \/ e \in overtaken)

\* Under a pause that stands, no writer keeps acquiring.
PausedWriterStops ==
    \A e \in Attempts :
        (<>[](paused /\ transfer = "live"))
            => <>[](native[e] # "running" \/ e \in overtaken)
=============================================================================
