------------------------- MODULE RecoveryClaimsProofs -------------------------
(***************************************************************************)
(* RecoveryClaims for every set of tasks and candidates and every limit:   *)
(* its types, the single-flight refresh and its budget, and what the claim *)
(* fences: switches, decisions made before a pause, exhausted files.       *)
(*                                                                         *)
(* The invariant says what the holder of the claim may rely on (Fence),    *)
(* whose attempt is in flight (Attempt) and what was charged (Charged).    *)
(* A step is checked once, for its invariant and for what it may not do    *)
(* (Kept) together.                                                        *)
(***************************************************************************)
EXTENDS RecoveryClaims, FiniteSetTheorems, TLAPS

-----------------------------------------------------------------------------
(* The inductive invariant *)

\* What a task that is about to take the step p carries.
Fits(k, p) ==
    /\ p \in {"clear", "count", "decide"} => k.kind \in Kinds
    /\ p \in {"apply", "legacy", "reserve", "begin", "ask", "call", "calling", "told"}
         => k.key \in Decisions
    /\ p = "apply" /\ k.key[4] = "alternate" => k.target \in Candidates
    /\ p \in {"activate", "commit", "attempted"} => k.target \in Candidates
    /\ p \in {"apply", "commit", "attempted"} => k.cand \in Candidates
    /\ p = "activate" /\ k.trigger # "switch" => k.cand \in Candidates
    /\ p = "noticed" /\ k.trigger = "switch" => k.target \in Candidates
    /\ k.trigger = "switch" =>
         p \in {"idle", "noticed", "activate", "commit", "attempted", "finish"}
    /\ p = "reset" => k.trigger = "retry"
    /\ k.attempt \in (IF p \in {"ask", "call", "calling", "told"} THEN RefreshIds ELSE {0})

Carries == \A t \in Tasks : Fits(task[t], task[t].pc)
Typed   == TypeOK /\ Carries

\* A task that has leave to call the provider, or calls it.
Out(u) == task[u].pc \in {"call", "calling"}

\* What the holder of the claim relies on.
Unfenced == {"idle", "noticed", "reset", "reconcile", "finish"}
Fence(t) ==
    owner = t =>
      /\ \/ task[t].pc \in {"apply", "commit"}
         \/ task[t].pc = "activate" /\ task[t].trigger # "switch"
         => task[t].cand = selected
      /\ task[t].pc \notin Unfenced /\ task[t].trigger \in {"auto", "retry"} => ~paused
      /\ task[t].pc \notin Unfenced \cup {"plan", "lift"} /\ task[t].trigger \in {"auto", "resume"}
         => quiescence # "recovery_exhausted"
      /\ task[t].pc = "ask" => lastRefresh = task[t].key
      /\ task[t].pc \in {"ask", "call", "calling", "told"}
         => inflight = [key |-> task[t].key, attempt |-> task[t].attempt]
      /\ task[t].pc \in {"clear", "renew", "replace", "land", "settle"}
         => \A u \in Tasks \ outlived : ~Out(u)

\* An attempt is its task's own and without an answer until the call returns; the one of a
\* call that is not outlived is the one in flight.
Attempt(t) ==
    /\ \A u \in Tasks : task[u].attempt = task[t].attempt /\ task[t].attempt # 0 => u = t
    /\ task[t].pc \in {"ask", "call", "calling"} => answer[task[t].attempt] = "started"
    /\ Out(t) /\ t \notin outlived =>
         /\ lastRefresh = task[t].key
         /\ inflight = [key |-> task[t].key, attempt |-> task[t].attempt]

\* The charges cover what was asked, and the refresh that is reserved.
Charged ==
    /\ IsFiniteSet(asked)
    /\ IF refreshes = 0 THEN asked = {} ELSE Cardinality(asked \cup {lastRefresh}) <= refreshes

Fences   == \A t \in Tasks : Fence(t)
Attempts == \A t \in Tasks : Attempt(t)
IInv == Typed /\ Fences /\ Attempts /\ Charged

\* What a step may not do (the action properties, without the stuttering steps).
Kept ==
    \A t \in Tasks :
      /\ At(t, "commit") /\ task'[t].pc = "attempted" => selected = task[t].cand
      /\ paused /\ task[t].trigger \in {"auto", "retry"}
         => <<task[t].pc, task'[t].pc>> \notin Checks
      /\ /\ Holds(t) /\ Automatic(t) /\ ~At(t, "lift")
         /\ task'[t] # task[t] /\ quiescence = "recovery_exhausted"
         => quiescence' = "recovery_exhausted"

-----------------------------------------------------------------------------
(* How a task goes on *)

\* A check of the claim lets its holder pass.
Checked(t) == <<task[t].pc, task'[t].pc>> \in Checks => Holds(t)

LEMMA Diagonal == \A p : <<p, p>> \notin Checks
BY DEF Checks

LEMMA Unchecked ==
    ASSUME NEW t \in Tasks,
           \/ task[t].pc \notin {"decide", "apply", "legacy", "reserve", "begin", "ask", "told",
                                 "renew", "activate", "commit"}
           \/ task'[t].pc \notin {"apply", "mark", "reserve", "begin", "ask", "renew", "call",
                                  "clear", "replace", "commit", "attempted"}
    PROVE  Checked(t)
BY DEF Checked, Checks

\* Nobody passes a check during a pause: whoever holds the claim there is not paused.
LEMMA NonePasses ==
    ASSUME IInv, NEW t \in Tasks, Checked(t), \A u \in Tasks : task'[u] = task[u] \/ u = t,
           NEW u \in Tasks, paused, task[u].trigger \in {"auto", "retry"}
    PROVE  <<task[u].pc, task'[u].pc>> \notin Checks
<1> SUFFICES ASSUME <<task[u].pc, task'[u].pc>> \in Checks PROVE FALSE
    OBVIOUS
<1>1. task[u].pc \notin Unfenced /\ task[u].pc # task'[u].pc
    BY DEF Checks, Unfenced
<1>2. u = t /\ owner = t
    BY <1>1 DEF Checked, Holds
<1>3. Fence(t)
    BY DEF IInv, Fences
<1> QED
    BY <1>1, <1>2, <1>3 DEF Fence

LEMMA Ids == Cardinality(Tasks) \in Nat /\ RefreshIds \subseteq Nat /\ 0 \notin RefreshIds
<1>1. Cardinality(Tasks) \in Nat
    BY FS_CardinalityType, TasksAssumption
<1> QED
    BY <1>1 DEF RefreshIds

LEMMA IdleState ==
    /\ Idle \in TaskStates /\ Idle.pc = "idle" /\ Idle.trigger = "auto" /\ Idle.attempt = 0
    /\ Fits(Idle, "idle")
BY LimitsAssumption DEF Idle, TaskStates, Steps, Triggers, Fits

\* A task that goes on to another state, the others as they are.
LEMMA StepTyped ==
    ASSUME Typed, NEW t \in Tasks, NEW k \in TaskStates, Fits(k, k.pc),
           task' = [task EXCEPT ![t] = k]
    PROVE  /\ task' \in [Tasks -> TaskStates] /\ Carries'
           /\ task'[t] = k /\ \A u \in Tasks \ {t} : task'[u] = task[u]
<1>1. task \in [Tasks -> TaskStates] /\ \A u \in Tasks : Fits(task[u], task[u].pc)
    BY DEF Typed, TypeOK, Carries
<1>2. /\ task' \in [Tasks -> TaskStates]
      /\ task'[t] = k /\ \A u \in Tasks \ {t} : task'[u] = task[u]
    BY <1>1
<1>3. ASSUME NEW u \in Tasks PROVE Fits(task[u], task[u].pc)'
  <2>1. Fits(task'[u], task'[u].pc)
    BY <1>1, <1>2
  <2> QED
    BY <2>1 DEF Fits, Kinds, Decisions, RefreshIds, Acts
<1> QED
    BY <1>2, <1>3 DEF Carries

\* What a step of the task t leaves of the tasks' types.
Stepped(t) ==
    /\ task' \in [Tasks -> TaskStates] /\ Carries'
    /\ \A u \in Tasks \ {t} : task'[u] = task[u]

Goes(t, p) ==
    /\ Stepped(t) /\ task'[t].pc = p
    /\ task'[t].trigger = task[t].trigger /\ task'[t].cand = task[t].cand
    /\ task'[t].key = task[t].key /\ task'[t].attempt = task[t].attempt

Leaves(t) ==
    /\ Stepped(t) /\ task'[t].pc = "finish"
    /\ task'[t].trigger = task[t].trigger /\ task'[t].attempt = 0

LEMMA Going ==
    ASSUME Typed, NEW t \in Tasks, NEW p \in Steps, Go(t, p), Fits(task[t], p)
    PROVE  Goes(t, p)
<1> DEFINE k == [task[t] EXCEPT !.pc = p]
<1>1. task[t] \in TaskStates
    BY DEF Typed, TypeOK
<1>2. /\ k \in TaskStates /\ Fits(k, k.pc)
      /\ k.pc = p /\ k.trigger = task[t].trigger /\ k.cand = task[t].cand
      /\ k.key = task[t].key /\ k.attempt = task[t].attempt
    BY <1>1 DEF TaskStates, Fits
<1>3. task' = [task EXCEPT ![t] = k]
    BY DEF Go
<1> HIDE DEF k
<1> QED
    BY <1>2, <1>3, StepTyped DEF Goes, Stepped

LEMMA Leaving ==
    ASSUME Typed, NEW t \in Tasks, Leave(t)
    PROVE  Leaves(t)
<1> DEFINE k == [Idle EXCEPT !.pc = "finish", !.trigger = task[t].trigger]
<1>1. task[t].trigger \in Triggers
    BY DEF Typed, TypeOK, TaskStates
<1>2. /\ k \in TaskStates /\ Fits(k, k.pc)
      /\ k.pc = "finish" /\ k.trigger = task[t].trigger /\ k.attempt = 0
    BY <1>1, IdleState DEF TaskStates, Steps, Fits
<1>3. task' = [task EXCEPT ![t] = k]
    BY DEF Leave
<1> HIDE DEF k
<1> QED
    BY <1>2, <1>3, StepTyped DEF Leaves, Stepped

\* A task at its start notices the file.
LEMMA Noticing ==
    ASSUME Typed, NEW t \in Tasks, NEW k \in TaskStates, k.pc = "noticed", k.attempt = 0,
           k.trigger = "switch" => k.target \in Candidates,
           task' = [task EXCEPT ![t] = k]
    PROVE  Stepped(t) /\ task'[t].pc = "noticed" /\ task'[t].attempt = 0
<1>1. Fits(k, k.pc)
    BY DEF Fits
<1> QED
    BY <1>1, StepTyped DEF Stepped

\* The step of the task t changes nothing that the holder of the claim, unless it is t,
\* relies on.
Respects(t) ==
    /\ \A u \in Tasks \ {t} : owner' = u => owner = u /\ paused' = paused
    /\ quiescence' = "recovery_exhausted" => quiescence = "recovery_exhausted" \/ owner = t
    /\ owner # t => UNCHANGED <<selected, lastRefresh, inflight>>
    /\ \A u \in Tasks \ outlived' : Out(u)' => (Out(u) /\ u \notin outlived) \/ owner = t

LEMMA OthersFenced ==
    ASSUME IInv, NEW t \in Tasks, Stepped(t), Respects(t), Fence(t)'
    PROVE  Fences'
<1>1. ASSUME NEW u \in Tasks \ {t}, owner' = u
      PROVE  Fence(u)'
  <2>1. /\ owner = u /\ owner # t /\ paused' = paused /\ task'[u] = task[u]
        /\ UNCHANGED <<selected, lastRefresh, inflight>>
        /\ quiescence' = "recovery_exhausted" => quiescence = "recovery_exhausted"
        /\ \A w \in Tasks \ outlived' : Out(w)' => Out(w) /\ w \in Tasks \ outlived
    BY <1>1 DEF Respects, Stepped
  <2>2. Fence(u)
    BY DEF IInv, Fences
  <2> QED
    BY <2>1, <2>2 DEF Fence, Unfenced
<1>2. ASSUME NEW u \in Tasks \ {t}, owner' # u
      PROVE  Fence(u)'
    BY <1>2 DEF Fence
<1> QED
    BY <1>1, <1>2 DEF Fences

\* No task makes a call that it did not make before, and no attempt is answered.
LEMMA AttemptsStand ==
    ASSUME IInv, NEW t \in Tasks, Stepped(t), task'[t].attempt = 0,
           UNCHANGED <<lastRefresh, inflight, answer, outlived>>
    PROVE  Attempts'
<1>1. task'[t].pc \notin {"ask", "call", "calling", "told"}
    BY Ids DEF Stepped, Carries, Fits
<1>2. ASSUME NEW u \in Tasks
      PROVE  Attempt(u)'
  <2>1. \A w \in Tasks : Attempt(w)
    BY DEF IInv, Attempts
  <2>2. \A w \in Tasks : task'[w] = task[w] \/ w = t
    BY DEF Stepped
  <2> QED
    BY <1>1, <2>1, <2>2 DEF Attempt, Out
<1> QED
    BY <1>2 DEF Attempts

\* A step of a task that neither reserves nor asks, and switches nothing.
Local(t) ==
    /\ Stepped(t) /\ task'[t].attempt = 0 /\ ~At(t, "commit") /\ Checked(t)
    /\ UNCHANGED <<selected, lastRefresh, inflight, answer, owner, paused, outlived>>
    /\ quiescence' = "recovery_exhausted" => quiescence = "recovery_exhausted" \/ owner = t
    /\ Holds(t) /\ Automatic(t) /\ ~At(t, "lift") /\ quiescence = "recovery_exhausted"
         => quiescence' = "recovery_exhausted"

LEMMA LocalStep ==
    ASSUME IInv, NEW t \in Tasks, Local(t), Fence(t)', Charged'
    PROVE  Fences' /\ Attempts' /\ Charged' /\ Kept
<1>1. task'[t].pc \notin {"ask", "call", "calling", "told"}
    BY Ids DEF Local, Stepped, Carries, Fits
<1>2. Respects(t)
  <2>1. \A u \in Tasks : task'[u] = task[u] \/ u = t
    BY DEF Local, Stepped
  <2>2. /\ UNCHANGED <<selected, lastRefresh, inflight, owner, paused, outlived>>
        /\ quiescence' = "recovery_exhausted" => quiescence = "recovery_exhausted" \/ owner = t
    BY DEF Local
  <2> QED
    BY <1>1, <2>1, <2>2 DEF Respects, Out
<1>3. Fences'
    BY <1>2, OthersFenced DEF Local
<1>4. Attempts'
  <2>1. /\ Stepped(t) /\ task'[t].attempt = 0
        /\ UNCHANGED <<lastRefresh, inflight, answer, outlived>>
    BY DEF Local
  <2> QED
    BY <2>1, AttemptsStand
<1>5. Kept
  <2>1. \A u \in Tasks : task'[u] = task[u] \/ u = t
    BY DEF Local, Stepped
  <2>2. /\ ~At(t, "commit")
        /\ Holds(t) /\ Automatic(t) /\ ~At(t, "lift") /\ quiescence = "recovery_exhausted"
             => quiescence' = "recovery_exhausted"
    BY DEF Local
  <2>3. ASSUME NEW u \in Tasks, paused, task[u].trigger \in {"auto", "retry"}
        PROVE  <<task[u].pc, task'[u].pc>> \notin Checks
    BY <2>1, <2>3, NonePasses DEF Local
  <2> QED
    BY <2>1, <2>2, <2>3 DEF Kept, At
<1> QED
    BY <1>3, <1>4, <1>5

\* The holder's last step relies on nothing.
LEMMA NothingFenced ==
    ASSUME NEW t \in Tasks, task'[t].pc \in {"noticed", "finish", "idle"}
    PROVE  Fence(t)'
BY DEF Fence, Unfenced

LEMMA StillCharged ==
    ASSUME Charged, UNCHANGED <<refreshes, asked, lastRefresh>>
    PROVE  Charged'
BY DEF Charged

\* A step that changes nothing but the task's own state.
Still == UNCHANGED <<durable, claim, controls, history, upsets>>

LEMMA StillStep ==
    ASSUME IInv, NEW t \in Tasks, Stepped(t), Still, task'[t].attempt = 0, ~At(t, "commit"),
           Checked(t), Fence(t)'
    PROVE  IInv' /\ Kept
<1>1. /\ UNCHANGED <<status, due, quiescence, selected, tried, expired, writer, tries>>
      /\ UNCHANGED <<failures, lastFailure, refreshes, epoch, lastRefresh, inflight, answer>>
      /\ UNCHANGED <<decision, owner, lapsed, paused, startup, asked, outlived, upsets>>
    BY DEF Still, durable, file, routes, work, counters, refresh, claim, controls, history
<1>2. TypeOK'
    BY <1>1 DEF IInv, Typed, TypeOK, Stepped
<1>3. Charged'
    BY <1>1, StillCharged DEF IInv
<1>4. Local(t)
    BY <1>1 DEF Local
<1> QED
    BY <1>2, <1>3, <1>4, LocalStep DEF IInv, Typed, Stepped

LEMMA StillLeaving ==
    ASSUME IInv, NEW t \in Tasks, Leave(t), Still, ~At(t, "commit")
    PROVE  IInv' /\ Kept
<1>1. Leaves(t)
    BY Leaving DEF IInv
<1> QED
    BY <1>1, StillStep, NothingFenced, Unchecked DEF Leaves

LEMMA StillGoing ==
    ASSUME IInv, NEW t \in Tasks, NEW p \in Steps, Go(t, p), Still, Fits(task[t], p),
           task[t].attempt = 0, ~At(t, "commit"), Goes(t, p) => Fence(t)' /\ Checked(t)
    PROVE  IInv' /\ Kept
<1>1. Goes(t, p)
    BY Going DEF IInv
<1> QED
    BY <1>1, StillStep DEF Goes

-----------------------------------------------------------------------------
(* Triggers *)

LEMMA NoticeKeeps ==
    ASSUME IInv, NEW t \in Tasks, NEW k \in TaskStates, k.pc = "noticed", k.attempt = 0,
           k.trigger = "switch" => k.target \in Candidates,
           task' = [task EXCEPT ![t] = k], At(t, "idle"),
           upsets' \in [{"fault", "failure", "command"} -> Nat],
           UNCHANGED <<durable, claim, paused, history>>, startup' \in BOOLEAN
    PROVE  IInv' /\ Kept
<1>1. Stepped(t) /\ task'[t].pc = "noticed" /\ task'[t].attempt = 0
    BY Noticing DEF IInv
<1>2. /\ UNCHANGED <<status, due, quiescence, selected, tried, expired, writer, tries>>
      /\ UNCHANGED <<failures, lastFailure, refreshes, epoch, lastRefresh, inflight, answer>>
      /\ UNCHANGED <<decision, owner, lapsed, paused, asked, outlived>>
    BY DEF durable, file, routes, work, counters, refresh, claim, history
<1>3. TypeOK'
    BY <1>1, <1>2 DEF IInv, Typed, TypeOK, Stepped
<1>4. Charged'
    BY <1>2, StillCharged DEF IInv
<1>5. Local(t)
    BY <1>1, <1>2, Unchecked DEF Local, At
<1> QED
    BY <1>1, <1>3, <1>4, <1>5, LocalStep, NothingFenced DEF IInv, Typed, Stepped

LEMMA NoticeStep ==
    ASSUME IInv, NEW t \in Tasks, Notice(t)
    PROVE  IInv' /\ Kept
<1>1. Reasons \subseteq Kinds \cup {None}
    BY DEF Reasons, Kinds
<1>2. PICK k \in Reasons :
        task' = [task EXCEPT ![t] = [Idle EXCEPT !.pc = "noticed", !.kind = k]]
    BY DEF Notice
<1> DEFINE r == [Idle EXCEPT !.pc = "noticed", !.kind = k]
<1>3. r \in TaskStates /\ r.pc = "noticed" /\ r.attempt = 0 /\ r.trigger # "switch"
    BY <1>1, IdleState DEF TaskStates, Steps, Triggers
<1>4. task' = [task EXCEPT ![t] = r]
    BY <1>2
<1> HIDE DEF r
<1>5. upsets' \in [{"fault", "failure", "command"} -> Nat] /\ startup' \in BOOLEAN
    BY DEF Notice, Upset, IInv, Typed, TypeOK, controls
<1> QED
    BY <1>3, <1>4, <1>5, NoticeKeeps DEF Notice, controls

LEMMA StartupStep ==
    ASSUME IInv, Startup
    PROVE  IInv' /\ Kept
<1> DEFINE r == [Idle EXCEPT !.pc = "noticed"]
<1>1. r \in TaskStates /\ r.pc = "noticed" /\ r.attempt = 0 /\ r.trigger # "switch"
    BY IdleState DEF TaskStates, Steps, Triggers
<1>2. task' = [task EXCEPT ![Cycle] = r]
    BY DEF Startup
<1> HIDE DEF r
<1>3. upsets' \in [{"fault", "failure", "command"} -> Nat] /\ startup' \in BOOLEAN
    BY DEF Startup, IInv, Typed, TypeOK
<1> QED
    BY <1>1, <1>2, <1>3, NoticeKeeps, TasksAssumption DEF Startup

LEMMA RetryStep ==
    ASSUME IInv, NEW t \in Tasks, Retry(t)
    PROVE  IInv' /\ Kept
<1> DEFINE r == [Idle EXCEPT !.pc = "noticed", !.trigger = "retry"]
<1>1. r \in TaskStates /\ r.pc = "noticed" /\ r.attempt = 0 /\ r.trigger # "switch"
    BY IdleState, ZenonT(60) DEF TaskStates, Steps, Triggers
<1>2. task' = [task EXCEPT ![t] = r]
    BY DEF Retry
<1> HIDE DEF r
<1>3. upsets' \in [{"fault", "failure", "command"} -> Nat] /\ startup' \in BOOLEAN
    BY DEF Retry, Upset, IInv, Typed, TypeOK, controls
<1> QED
    BY <1>1, <1>2, <1>3, NoticeKeeps DEF Retry, controls

LEMMA SwitchStep ==
    ASSUME IInv, NEW t \in Tasks, Switch(t)
    PROVE  IInv' /\ Kept
<1>1. PICK c \in Candidates \ {selected} :
        task' = [task EXCEPT ![t] = [Idle EXCEPT !.pc = "noticed", !.trigger = "switch",
                                                 !.target = c]]
    BY DEF Switch
<1> DEFINE r == [Idle EXCEPT !.pc = "noticed", !.trigger = "switch", !.target = c]
<1>2. r \in TaskStates /\ r.pc = "noticed" /\ r.attempt = 0 /\ r.target \in Candidates
    BY IdleState, ZenonT(60) DEF TaskStates, Steps, Triggers
<1>3. task' = [task EXCEPT ![t] = r]
    BY <1>1
<1> HIDE DEF r
<1>4. upsets' \in [{"fault", "failure", "command"} -> Nat] /\ startup' \in BOOLEAN
    BY DEF Switch, Upset, IInv, Typed, TypeOK, controls
<1> QED
    BY <1>2, <1>3, <1>4, NoticeKeeps DEF Switch, controls

-----------------------------------------------------------------------------
(* What the claimed recovery finds *)

LEMMA ReconcileStep ==
    ASSUME IInv, NEW t \in Tasks, Reconcile(t)
    PROVE  IInv' /\ Kept
<1>1. /\ Fits(task[t], "reconcile") /\ task[t] \in TaskStates /\ task[t].attempt = 0
      /\ Still /\ ~At(t, "commit")
    BY DEF Reconcile, At, IInv, Typed, TypeOK, Carries, Fits, Still
<1>2. CASE Leave(t)
    BY <1>1, <1>2, StillLeaving
<1>3. CASE ~Withheld(t) /\ Go(t, "lift")
  <2>1. Fits(task[t], "lift") /\ "lift" \in Steps
    BY <1>1 DEF Fits, Steps
  <2>2. Goes(t, "lift") => Fence(t)' /\ Checked(t)
    BY <1>1, <1>3, Unchecked DEF Goes, Fence, Withheld, Still, controls
  <2> QED
    BY <1>1, <1>3, <2>1, <2>2, StillGoing
<1>4. ASSUME ~Withheld(t), NEW k \in Kinds \cup {None},
             task' = [task EXCEPT ![t] = [@ EXCEPT !.pc = "plan", !.kind = k]]
      PROVE  IInv' /\ Kept
  <2> DEFINE r == [task[t] EXCEPT !.pc = "plan", !.kind = k]
  <2>1. /\ r \in TaskStates /\ r.pc = "plan" /\ r.kind = k /\ r.trigger = task[t].trigger
        /\ r.attempt = 0
    BY <1>1, ZenonT(60) DEF TaskStates, Steps
  <2>2. task' = [task EXCEPT ![t] = r]
    BY <1>4
  <2> HIDE DEF r
  <2>3. Fits(r, r.pc)
    BY <1>1, <2>1 DEF Fits
  <2>4. Stepped(t) /\ task'[t] = r
    BY <2>1, <2>2, <2>3, StepTyped DEF Stepped, IInv
  <2>5. Fence(t)'
    BY <1>1, <1>4, <2>1, <2>4 DEF Fence, Withheld, Still, controls
  <2> QED
    BY <1>1, <2>1, <2>4, <2>5, StillStep, Unchecked
<1> QED
  <2>1. task[t].kind \in Kinds \cup {None} /\ (Ended => writer \in Kinds)
    BY <1>1 DEF TaskStates, Ended
  <2> QED
    BY <2>1, <1>2, <1>3, <1>4 DEF Reconcile

\* An error is judged next.
LEMMA Judging ==
    ASSUME IInv, NEW t \in Tasks, task[t].pc \in {"plan", "reopen"}, NEW k \in Kinds, Judge(t, k)
    PROVE  /\ Stepped(t) /\ task'[t].attempt = 0 /\ task'[t].trigger = task[t].trigger
           /\ task'[t].pc = "count"
<1> DEFINE n == IF writer = "none" THEN 0 ELSE tries
           r == [task[t] EXCEPT !.pc = "count", !.kind = k, !.of = n]
<1>1. /\ Fits(task[t], task[t].pc) /\ task[t] \in TaskStates /\ task[t].attempt = 0
      /\ n \in 0..MaxTries
    BY LimitsAssumption DEF IInv, Typed, TypeOK, Carries, Fits
<1>2. task' = [task EXCEPT ![t] = r]
    BY DEF Judge
<1> HIDE DEF n
<1>3. /\ r \in TaskStates /\ r.pc = "count" /\ r.kind = k /\ r.trigger = task[t].trigger
      /\ r.attempt = 0
    BY <1>1 DEF TaskStates, Steps
<1> HIDE DEF r
<1>4. Fits(r, r.pc)
    BY <1>1, <1>3 DEF Fits
<1> QED
    BY <1>2, <1>3, <1>4, StepTyped DEF Stepped, IInv

\* Without an error the candidate is used again, or its expiry is judged.
LEMMA Reusing ==
    ASSUME IInv, NEW t \in Tasks, task[t].pc \in {"plan", "reopen"}, Reuse(t)
    PROVE  /\ Stepped(t) /\ task'[t].attempt = 0 /\ task'[t].trigger = task[t].trigger
           /\ task'[t].pc \in {"requeue", "count"}
<1>1. /\ Fits(task[t], task[t].pc) /\ task[t] \in TaskStates /\ task[t].attempt = 0
    BY DEF IInv, Typed, TypeOK, Carries, Fits
<1>2. CASE Go(t, "requeue")
  <2>1. Fits(task[t], "requeue") /\ "requeue" \in Steps
    BY <1>1 DEF Fits, Steps
  <2> QED
    BY <1>1, <1>2, <2>1, Going DEF IInv, Goes
<1>3. CASE Judge(t, "expired")
    BY <1>1, <1>3, Judging DEF Kinds
<1> QED
    BY <1>2, <1>3 DEF Reuse

LEMMA PlanStep ==
    ASSUME IInv, NEW t \in Tasks, Plan(t)
    PROVE  IInv' /\ Kept
<1>1. /\ Fits(task[t], "plan") /\ task[t] \in TaskStates /\ task[t].attempt = 0
      /\ Still /\ ~At(t, "commit") /\ task[t].pc = "plan" /\ Fence(t)
    BY DEF Plan, At, IInv, Typed, TypeOK, Carries, Fits, Still, Fences
<1>2. ASSUME Leave(t) PROVE IInv' /\ Kept
    BY <1>1, <1>2, StillLeaving
<1>3. ASSUME ~Resting(t), Stepped(t), task'[t].attempt = 0, task'[t].trigger = task[t].trigger,
             task'[t].pc \in {"hold", "refresh", "reopen", "requeue", "count"}
      PROVE  IInv' /\ Kept
  <2>1. UNCHANGED <<quiescence, paused, owner>>
    BY <1>1 DEF Still, durable, file, claim, controls
  <2>2. Fence(t)'
    BY <1>1, <1>3, <2>1 DEF Fence, Resting, Unfenced
  <2> QED
    BY <1>1, <1>3, <2>2, StillStep, Unchecked
<1>4. ASSUME ~Resting(t), NEW p \in {"hold", "refresh", "reopen"}, Go(t, p)
      PROVE  IInv' /\ Kept
  <2>1. Fits(task[t], p) /\ p \in Steps
    BY <1>1, <1>4 DEF Fits, Steps
  <2>2. Goes(t, p)
    BY <1>4, <2>1, Going DEF IInv
  <2> QED
    BY <1>1, <1>3, <1>4, <2>2 DEF Goes
<1>5. ASSUME ~Resting(t), task[t].kind # None, Judge(t, task[t].kind)
      PROVE  IInv' /\ Kept
  <2>1. task[t].kind \in Kinds
    BY <1>1, <1>5 DEF TaskStates
  <2> QED
    BY <1>1, <1>3, <1>5, <2>1, Judging
<1>6. ASSUME ~Resting(t), Reuse(t)
      PROVE  IInv' /\ Kept
    BY <1>1, <1>3, <1>6, Reusing
<1> QED
    BY <1>2, <1>4, <1>5, <1>6 DEF Plan

\* The stati and the reasons to rest.
FileTyped ==
    /\ status \in {"queued", "downloading", "recovery_wait", "refresh_pending", "error",
                   "completed"}
    /\ due \in BOOLEAN
    /\ quiescence \in {None, "retry_backoff", "recovery_exhausted"}
    /\ writer \in {"none", "live"} \cup Kinds

LEMMA FileStep ==
    ASSUME IInv, NEW t \in Tasks, Stepped(t), task'[t].attempt = 0, ~At(t, "commit"), Checked(t),
           FileTyped',
           UNCHANGED <<routes, tries, counters, refresh, decision, claim, controls, history>>,
           UNCHANGED upsets,
           quiescence' = "recovery_exhausted" => quiescence = "recovery_exhausted" \/ owner = t,
           Holds(t) /\ Automatic(t) /\ ~At(t, "lift") /\ quiescence = "recovery_exhausted"
             => quiescence' = "recovery_exhausted",
           Fence(t)'
    PROVE  IInv' /\ Kept
<1>1. /\ UNCHANGED <<selected, tried, expired, tries>>
      /\ UNCHANGED <<failures, lastFailure, refreshes, epoch, lastRefresh, inflight, answer>>
      /\ UNCHANGED <<decision, owner, lapsed, paused, startup, asked, outlived, upsets>>
    BY DEF routes, counters, refresh, claim, controls, history
<1>2. TypeOK'
    BY <1>1 DEF IInv, Typed, TypeOK, Stepped, FileTyped
<1>3. Charged'
    BY <1>1, StillCharged DEF IInv
<1>4. Local(t)
    BY <1>1 DEF Local
<1> QED
    BY <1>2, <1>3, <1>4, LocalStep DEF IInv, Typed, Stepped

LEMMA Transitioned ==
    ASSUME IInv, NEW d \in BOOLEAN,
           NEW s \in {"queued", "recovery_wait", "refresh_pending", "error"},
           NEW q \in {None, "retry_backoff", "recovery_exhausted"}, Transition(s, q, d)
    PROVE  FileTyped' /\ quiescence' \in {quiescence, q}
<1>1. CASE writer = "live"
    BY <1>1 DEF Transition, FileTyped, file, IInv, Typed, TypeOK
<1>2. CASE writer # "live"
    BY <1>2 DEF Transition, FileTyped
<1> QED
    BY <1>1, <1>2

\* The task ends with a change of the file.
LEMMA FileLeaving ==
    ASSUME IInv, NEW t \in Tasks, Leave(t), ~At(t, "commit"), FileTyped',
           UNCHANGED <<routes, tries, counters, refresh, decision, claim, controls, history>>,
           UNCHANGED upsets,
           quiescence' = "recovery_exhausted" => quiescence = "recovery_exhausted" \/ owner = t,
           Holds(t) /\ Automatic(t) /\ ~At(t, "lift") /\ quiescence = "recovery_exhausted"
             => quiescence' = "recovery_exhausted"
    PROVE  IInv' /\ Kept
<1>1. Leaves(t)
    BY Leaving DEF IInv
<1>2. Fence(t)'
    BY <1>1, NothingFenced DEF Leaves
<1> QED
    BY <1>1, <1>2, FileStep, Unchecked DEF Leaves

\* Past its plan no automatic recovery that holds the claim has an exhausted file before it.
LEMMA PastPlan ==
    ASSUME IInv, NEW t \in Tasks, task[t].pc \notin Unfenced \cup {"plan", "lift"},
           Holds(t), Automatic(t)
    PROVE  quiescence # "recovery_exhausted"
<1>1. Fence(t)
    BY DEF IInv, Fences
<1> QED
    BY <1>1 DEF Fence, Holds, Automatic

LEMMA HoldStep ==
    ASSUME IInv, NEW t \in Tasks, Hold(t)
    PROVE  IInv' /\ Kept
<1>1. due \in BOOLEAN /\ Transition("recovery_wait", "retry_backoff", due) /\ Leave(t)
    BY DEF Hold, IInv, Typed, TypeOK
<1>2. FileTyped' /\ quiescence' \in {quiescence, "retry_backoff"}
    BY <1>1, Transitioned
<1>3. task[t].pc = "hold"
    BY DEF Hold, At
<1>4. Holds(t) /\ Automatic(t) => quiescence # "recovery_exhausted"
    BY <1>3, PastPlan DEF Unfenced
<1> QED
    BY <1>1, <1>2, <1>3, <1>4, FileLeaving DEF Hold, At

LEMMA ConcludeStep ==
    ASSUME IInv, NEW t \in Tasks, Conclude(t)
    PROVE  IInv' /\ Kept
<1>1. /\ Leave(t)
      /\ Transition("error", None, TRUE) \/ Transition("recovery_wait", "retry_backoff", FALSE)
    BY DEF Conclude
<1>2. FileTyped' /\ quiescence' \in {quiescence, None, "retry_backoff"}
    BY <1>1, Transitioned
<1>3. task[t].pc = "apply"
    BY DEF Conclude, At
<1>4. Holds(t) /\ Automatic(t) => quiescence # "recovery_exhausted"
    BY <1>3, PastPlan DEF Unfenced
<1>5. quiescence' = "recovery_exhausted" => quiescence = "recovery_exhausted"
    BY <1>2, NoneAssumption
<1>6. UNCHANGED <<routes, tries, counters, refresh, decision, claim, controls, history, upsets>>
    BY DEF Conclude
<1> QED
    BY <1>1, <1>2, <1>3, <1>4, <1>5, <1>6, FileLeaving DEF At

LEMMA MarkStep ==
    ASSUME IInv, NEW t \in Tasks, Mark(t)
    PROVE  IInv' /\ Kept
<1>1. Leave(t) /\ Transition("refresh_pending", None, TRUE)
    BY DEF Mark
<1>2. FileTyped' /\ quiescence' \in {quiescence, None}
    BY <1>1, Transitioned
<1>3. task[t].pc = "mark"
    BY DEF Mark, At
<1>4. Holds(t) /\ Automatic(t) => quiescence # "recovery_exhausted"
    BY <1>3, PastPlan DEF Unfenced
<1>5. quiescence' = "recovery_exhausted" => quiescence = "recovery_exhausted"
    BY <1>2, NoneAssumption
<1>6. UNCHANGED <<routes, tries, counters, refresh, decision, claim, controls, history, upsets>>
    BY DEF Mark
<1> QED
    BY <1>1, <1>2, <1>3, <1>4, <1>5, <1>6, FileLeaving DEF At

LEMMA ParkStep ==
    ASSUME IInv, NEW t \in Tasks, Park(t)
    PROVE  IInv' /\ Kept
<1>1. /\ Leave(t) /\ task[t].pc = "park"
      /\ UNCHANGED <<routes, tries, counters, refresh, decision, claim, controls, history, upsets>>
    BY DEF Park, At
<1>2. /\ FileTyped'
      /\ quiescence' \in {quiescence, "recovery_exhausted"}
      /\ owner = t \/ quiescence' = quiescence
  <2>1. CASE Holds(t)
    <3>1. Transition("error", "recovery_exhausted", TRUE)
        BY <2>1 DEF Park
    <3> QED
        BY <2>1, <3>1, Transitioned DEF Holds
  <2>2. CASE ~Holds(t)
    <3>1. UNCHANGED <<status, due, quiescence, writer>>
        BY <2>2 DEF Park, file
    <3> QED
        BY <3>1 DEF FileTyped, IInv, Typed, TypeOK
  <2> QED
    BY <2>1, <2>2
<1> QED
    BY <1>1, <1>2, FileLeaving DEF At

LEMMA LiftStep ==
    ASSUME IInv, NEW t \in Tasks, Lift(t)
    PROVE  IInv' /\ Kept
<1>1. /\ UNCHANGED <<routes, tries, counters, refresh, decision, claim, controls, history, upsets>>
      /\ UNCHANGED <<status, due, writer>> /\ quiescence' \in {quiescence, None}
    BY DEF Lift, work
<1>2. FileTyped'
    BY <1>1 DEF FileTyped, IInv, Typed, TypeOK
<1>3. quiescence' = "recovery_exhausted" => quiescence = "recovery_exhausted"
    BY <1>1, NoneAssumption
<1>4. CASE At(t, "lift") /\ Leave(t)
    BY <1>1, <1>2, <1>3, <1>4, FileLeaving DEF At
<1>5. CASE At(t, "reopen") /\ Reuse(t)
  <2>1. task[t].pc = "reopen"
    BY <1>5 DEF At
  <2>2. /\ Stepped(t) /\ task'[t].attempt = 0 /\ task'[t].trigger = task[t].trigger
        /\ task'[t].pc \in {"requeue", "count"}
    BY <1>5, <2>1, Reusing
  <2>3. UNCHANGED <<owner, paused>> /\ Fence(t)
    BY DEF Lift, claim, controls, IInv, Fences
  <2>4. Fence(t)'
    BY <1>3, <2>1, <2>2, <2>3 DEF Fence, Unfenced
  <2>5. Holds(t) /\ Automatic(t) => quiescence # "recovery_exhausted"
    BY <2>1, PastPlan DEF Unfenced
  <2> QED
    BY <1>1, <1>2, <1>3, <2>1, <2>2, <2>4, <2>5, FileStep, Unchecked DEF At
<1> QED
    BY <1>4, <1>5 DEF Lift

LEMMA RequeueStep ==
    ASSUME IInv, NEW t \in Tasks, Requeue(t)
    PROVE  IInv' /\ Kept
<1>1. /\ UNCHANGED <<routes, tries, counters, refresh, decision, claim, controls, history, upsets>>
      /\ UNCHANGED <<writer, quiescence>> /\ status' = "queued" /\ due' \in BOOLEAN
    BY DEF Requeue, work
<1>2. FileTyped'
    BY <1>1 DEF FileTyped, IInv, Typed, TypeOK
<1>3. CASE At(t, "requeue") /\ Leave(t)
    BY <1>1, <1>2, <1>3, FileLeaving DEF At
<1>4. CASE At(t, "land") /\ Go(t, "settle")
  <2>1. /\ Fits(task[t], "land") /\ task[t].attempt = 0 /\ task[t].pc = "land"
    BY <1>4 DEF At, IInv, Typed, Carries, Fits
  <2>2. Fits(task[t], "settle") /\ "settle" \in Steps
    BY <2>1 DEF Fits, Steps
  <2>3. Goes(t, "settle")
    BY <1>4, <2>2, Going DEF IInv
  <2>4. UNCHANGED <<owner, paused, outlived>> /\ Fence(t)
    BY DEF Requeue, claim, controls, history, IInv, Fences
  <2>5. \A u \in Tasks : Out(u)' => Out(u)
    BY <2>3 DEF Goes, Stepped, Out
  <2>6. Fence(t)'
    BY <1>1, <2>1, <2>3, <2>4, <2>5 DEF Goes, Fence, Unfenced
  <2> QED
    BY <1>1, <1>2, <2>1, <2>3, <2>6, FileStep, Unchecked DEF Goes, At
<1> QED
    BY <1>3, <1>4 DEF Requeue

-----------------------------------------------------------------------------
(* The decision and its application *)

LEMMA ResetBudgetStep ==
    ASSUME IInv, NEW t \in Tasks, ResetBudget(t)
    PROVE  IInv' /\ Kept
<1>1. /\ Fits(task[t], "reset") /\ task[t].attempt = 0 /\ task[t].pc = "reset"
      /\ task[t].trigger = "retry"
    BY DEF ResetBudget, At, IInv, Typed, Carries, Fits
<1>2. Fits(task[t], "reconcile") /\ "reconcile" \in Steps
    BY <1>1 DEF Fits, Steps
<1>3. Goes(t, "reconcile")
    BY <1>2, Going DEF IInv, ResetBudget
<1>4. /\ UNCHANGED <<status, selected, expired, writer, tries, epoch, lastRefresh, inflight>>
      /\ UNCHANGED <<answer, owner, lapsed, paused, startup, outlived, upsets>>
      /\ failures' = 0 /\ refreshes' = 0 /\ lastFailure' = None /\ quiescence' = None
      /\ decision' = None /\ tried' = {} /\ asked' = {} /\ due' \in BOOLEAN
    BY DEF ResetBudget, work, refresh, claim, controls
<1>5. TypeOK'
    BY <1>3, <1>4, LimitsAssumption DEF IInv, Typed, TypeOK, Goes, Stepped
<1>6. Charged'
    BY <1>4, FS_EmptySet DEF Charged
<1>7. Fence(t)'
    BY <1>3 DEF Goes, Fence, Unfenced
<1>8. Local(t)
    BY <1>1, <1>3, <1>4, NoneAssumption, Unchecked DEF Local, Goes, At, Automatic
<1> QED
    BY <1>3, <1>5, <1>6, <1>7, <1>8, LocalStep DEF IInv, Typed, Goes, Stepped

LEMMA CountStep ==
    ASSUME IInv, NEW t \in Tasks, Count(t)
    PROVE  IInv' /\ Kept
<1>1. /\ Fits(task[t], "count") /\ task[t].attempt = 0 /\ task[t].pc = "count"
      /\ task[t].kind \in Kinds /\ task[t].of \in 0..MaxTries
    BY DEF Count, At, IInv, Typed, TypeOK, TaskStates, Carries, Fits
<1>2. Fits(task[t], "decide") /\ "decide" \in Steps
    BY <1>1 DEF Fits, Steps
<1>3. Goes(t, "decide")
    BY <1>2, Going DEF IInv, Count
<1>4. /\ UNCHANGED <<status, due, quiescence, selected, tried, expired, writer, tries>>
      /\ UNCHANGED <<refreshes, epoch, lastRefresh, inflight, answer, decision>>
      /\ UNCHANGED <<owner, lapsed, paused, startup, asked, outlived, upsets>>
    BY DEF Count, file, routes, work, refresh, claim, controls, history
<1>5. lastFailure' \in Failures /\ failures' \in Nat
  <2>1. <<epoch, task[t].of, task[t].kind>> \in Failures
    BY <1>1 DEF Failures, IInv, Typed, TypeOK
  <2> QED
    BY <2>1 DEF Count, IInv, Typed, TypeOK
<1>6. TypeOK'
    BY <1>3, <1>4, <1>5 DEF IInv, Typed, TypeOK, Goes, Stepped
<1>7. Charged'
    BY <1>4, StillCharged DEF IInv
<1>8. Fence(t) /\ Fence(t)'
    BY <1>1, <1>3, <1>4 DEF Goes, Fence, Unfenced, IInv, Fences
<1>9. Local(t)
    BY <1>1, <1>3, <1>4, Unchecked DEF Local, Goes, At
<1> QED
    BY <1>3, <1>6, <1>7, <1>8, <1>9, LocalStep DEF IInv, Typed, Goes, Stepped

LEMMA Policies ==
    ASSUME NEW kind \in Kinds
    PROVE  Policy(kind) \in Acts /\ (Policy(kind) = "alternate" => Alternates # {})
BY DEF Policy, Acts, Otherwise, Kinds

LEMMA DecideStep ==
    ASSUME IInv, NEW t \in Tasks, Decide(t)
    PROVE  IInv' /\ Kept
<1> DEFINE kind == task[t].kind
           id == <<epoch, task[t].of, kind, Policy(kind)>>
<1>1. /\ Fits(task[t], "decide") /\ task[t].attempt = 0 /\ task[t].pc = "decide"
      /\ task[t] \in TaskStates /\ kind \in Kinds /\ task[t].of \in 0..MaxTries
    BY DEF Decide, At, IInv, Typed, TypeOK, TaskStates, Carries, Fits
<1>2. /\ UNCHANGED <<status, due, quiescence, selected, tried, expired, writer, tries>>
      /\ UNCHANGED <<failures, lastFailure, refreshes, epoch, lastRefresh, inflight, answer>>
      /\ UNCHANGED <<owner, lapsed, paused, startup, asked, outlived, upsets>>
    BY DEF Decide, file, routes, work, counters, refresh, claim, controls, history
<1>3. CASE ~Holds(t)
  <2>1. Leave(t) /\ Still
    BY <1>2, <1>3 DEF Decide, Still, durable
  <2> QED
    BY <1>1, <2>1, StillLeaving DEF At
<1>4. CASE Holds(t)
  <2>1. id \in Decisions /\ id[4] = Policy(kind)
    BY <1>1, Policies DEF IInv, Typed, TypeOK, Decisions
  <2>2. PICK next \in IF Alternates = {} THEN {None} ELSE Alternates :
          /\ task' = [task EXCEPT ![t] = [@ EXCEPT !.pc = "apply", !.key = id, !.cand = selected,
                                                   !.target = next]]
          /\ decision' = id
    BY <1>4 DEF Decide
  <2> HIDE DEF id
  <2>3. /\ selected \in Candidates /\ next \in Candidates \cup {None}
        /\ id[4] = "alternate" => next \in Candidates
    BY <1>1, <2>1, <2>2, Policies DEF IInv, Typed, TypeOK, Alternates
  <2> DEFINE r == [task[t] EXCEPT !.pc = "apply", !.key = id, !.cand = selected, !.target = next]
  <2>4. /\ r \in TaskStates /\ r.pc = "apply" /\ r.key = id /\ r.cand = selected
        /\ r.target = next /\ r.trigger = task[t].trigger /\ r.attempt = 0
    BY <1>1, <2>1, <2>3 DEF TaskStates, Steps
  <2>5. task' = [task EXCEPT ![t] = r]
    BY <2>2
  <2> HIDE DEF r
  <2>6. Fits(r, r.pc)
    BY <1>1, <2>1, <2>3, <2>4 DEF Fits
  <2>7. Stepped(t) /\ task'[t] = r
    BY <2>4, <2>5, <2>6, StepTyped DEF Stepped, IInv
  <2>8. TypeOK'
    BY <1>2, <2>1, <2>2, <2>7 DEF IInv, Typed, TypeOK, Stepped
  <2>9. Charged'
    BY <1>2, StillCharged DEF IInv
  <2>10. Fence(t)
    BY DEF IInv, Fences
  <2>11. Fence(t)'
    BY <1>1, <1>2, <2>4, <2>7, <2>10 DEF Fence, Unfenced
  <2>12. Local(t)
    BY <1>1, <1>2, <1>4, <2>4, <2>7 DEF Local, At, Checked
  <2> QED
    BY <2>7, <2>8, <2>9, <2>11, <2>12, LocalStep DEF IInv, Typed, Stepped
<1> QED
    BY <1>3, <1>4

LEMMA ProceedStep ==
    ASSUME IInv, NEW t \in Tasks, Proceed(t)
    PROVE  IInv' /\ Kept
<1>1. /\ Fits(task[t], "apply") /\ task[t].attempt = 0 /\ task[t].pc = "apply" /\ Fence(t)
      /\ Still /\ UNCHANGED <<selected, quiescence, owner, paused>>
    BY DEF Proceed, At, IInv, Typed, Carries, Fits, Fences, Still, durable, file, routes, claim,
           controls
<1>2. ASSUME NEW p \in {"park", "activate"}, Go(t, p), Decided(t) = "alternate" \/ p = "park"
      PROVE  IInv' /\ Kept
  <2>1. Fits(task[t], p) /\ p \in Steps
    BY <1>1, <1>2 DEF Fits, Steps, Decided
  <2>2. Goes(t, p) => Fence(t)' /\ Checked(t)
    BY <1>1, <1>2, Unchecked DEF Goes, Fence, Unfenced
  <2> QED
    BY <1>1, <1>2, <2>1, <2>2, StillGoing DEF At
<1> QED
    BY <1>2 DEF Proceed

LEMMA ActivateStep ==
    ASSUME IInv, NEW t \in Tasks, Activate(t)
    PROVE  IInv' /\ Kept
<1>1. /\ Fits(task[t], "activate") /\ task[t].attempt = 0 /\ task[t].pc = "activate" /\ Fence(t)
      /\ task[t] \in TaskStates /\ selected \in Candidates
      /\ Still /\ UNCHANGED <<selected, quiescence, owner, paused>>
    BY DEF Activate, At, IInv, Typed, TypeOK, Carries, Fits, Fences, Still, durable, file, routes,
           claim, controls
<1>2. CASE Refuse(t)
  <2>1. CASE Leave(t)
    BY <1>1, <2>1, StillLeaving DEF At
  <2>2. CASE task[t].trigger # "switch" /\ Go(t, "park")
    <3>1. Fits(task[t], "park") /\ "park" \in Steps
        BY <1>1, <2>2 DEF Fits, Steps
    <3>2. Goes(t, "park") => Fence(t)' /\ Checked(t)
        BY <1>1, Unchecked DEF Goes, Fence, Unfenced
    <3> QED
        BY <1>1, <2>2, <3>1, <3>2, StillGoing DEF At
  <2> QED
    BY <1>2, <2>1, <2>2 DEF Refuse
<1>3. ASSUME Current(t),
             NEW c \in Candidates, c = selected \/ (task[t].trigger # "switch" /\ c = task[t].cand),
             task' = [task EXCEPT ![t] = [@ EXCEPT !.pc = "commit", !.cand = c]]
      PROVE  IInv' /\ Kept
  <2> DEFINE r == [task[t] EXCEPT !.pc = "commit", !.cand = c]
  <2>1. /\ r \in TaskStates /\ r.pc = "commit" /\ r.cand = c /\ r.target = task[t].target
        /\ r.trigger = task[t].trigger /\ r.attempt = 0
    BY <1>1, ZenonT(60) DEF TaskStates, Steps
  <2>2. task' = [task EXCEPT ![t] = r]
    BY <1>3
  <2> HIDE DEF r
  <2>3. Fits(r, r.pc)
    BY <1>1, <2>1 DEF Fits
  <2>4. Stepped(t) /\ task'[t] = r
    BY <2>1, <2>2, <2>3, StepTyped DEF Stepped, IInv
  <2>5. Fence(t)'
    BY <1>1, <1>3, <2>1, <2>4 DEF Fence, Unfenced
  <2>6. Checked(t)
    BY <1>3 DEF Checked, Current, Holds
  <2> QED
    BY <1>1, <2>1, <2>4, <2>5, <2>6, StillStep DEF At
<1> QED
  <2> DEFINE c == IF task[t].trigger = "switch" THEN selected ELSE task[t].cand
  <2>1. c \in Candidates /\ (c = selected \/ (task[t].trigger # "switch" /\ c = task[t].cand))
    BY <1>1 DEF Fits
  <2>2. \/ Refuse(t)
        \/ Current(t) /\ task' = [task EXCEPT ![t] = [@ EXCEPT !.pc = "commit", !.cand = c]]
    BY DEF Activate
  <2> HIDE DEF c
  <2> QED
    BY <2>1, <2>2, <1>2, <1>3

LEMMA AttemptedStep ==
    ASSUME IInv, NEW t \in Tasks, Attempted(t)
    PROVE  IInv' /\ Kept
<1>1. /\ task[t].pc = "attempted" /\ task[t].cand \in Candidates /\ task[t].target \in Candidates
    BY DEF Attempted, At, IInv, Typed, Carries, Fits
<1>2. Leaves(t)
    BY Leaving DEF Attempted, IInv
<1>3. /\ UNCHANGED <<status, due, quiescence, selected, expired, writer, tries>>
      /\ UNCHANGED <<failures, lastFailure, refreshes, epoch, lastRefresh, inflight, answer>>
      /\ UNCHANGED <<decision, owner, lapsed, paused, startup, asked, outlived, upsets>>
      /\ tried' = tried \cup {task[t].cand, task[t].target}
    BY DEF Attempted, file, work, counters, refresh, claim, controls, history
<1>4. TypeOK'
    BY <1>1, <1>2, <1>3 DEF IInv, Typed, TypeOK, Leaves, Stepped
<1>5. Charged'
    BY <1>3, StillCharged DEF IInv
<1>6. Fence(t)'
    BY <1>2, NothingFenced DEF Leaves
<1>7. Local(t)
    BY <1>1, <1>2, <1>3, Unchecked DEF Local, Leaves, At
<1> QED
    BY <1>2, <1>4, <1>5, <1>6, <1>7, LocalStep DEF IInv, Typed, Leaves, Stepped

-----------------------------------------------------------------------------
(* The refresh *)

LEMMA BindStep ==
    ASSUME IInv, NEW t \in Tasks, Bind(t)
    PROVE  IInv' /\ Kept
<1>1. /\ Fits(task[t], "refresh") /\ task[t].attempt = 0 /\ task[t].pc = "refresh" /\ Fence(t)
      /\ task[t] \in TaskStates /\ selected \in Candidates
      /\ Still /\ UNCHANGED <<selected, quiescence, owner, paused>>
    BY DEF Bind, At, IInv, Typed, TypeOK, Carries, Fits, Fences, Still, durable, file, routes,
           claim, controls
<1>2. CASE Leave(t)
    BY <1>1, <1>2, StillLeaving DEF At
<1>3. ASSUME NEW d \in Decisions, NEW p \in {"legacy", "begin"},
             task' = [task EXCEPT ![t] = [@ EXCEPT !.pc = p, !.key = d, !.cand = selected]]
      PROVE  IInv' /\ Kept
  <2> DEFINE r == [task[t] EXCEPT !.pc = p, !.key = d, !.cand = selected]
  <2>1. /\ r \in TaskStates /\ r.pc = p /\ r.key = d /\ r.trigger = task[t].trigger
        /\ r.attempt = 0
    BY <1>1, ZenonT(60) DEF TaskStates, Steps
  <2>2. task' = [task EXCEPT ![t] = r]
    BY <1>3
  <2> HIDE DEF r
  <2>3. Fits(r, r.pc)
    BY <1>1, <2>1 DEF Fits
  <2>4. Stepped(t) /\ task'[t] = r
    BY <2>1, <2>2, <2>3, StepTyped DEF Stepped, IInv
  <2>5. Fence(t)'
    BY <1>1, <2>1, <2>4 DEF Fence, Unfenced
  <2> QED
    BY <1>1, <2>1, <2>4, <2>5, StillStep, Unchecked DEF At
<1> QED
  <2> DEFINE d == IF decision = None THEN <<epoch, 0, "legacy", "refresh">> ELSE decision
             p == IF decision = None THEN "legacy" ELSE "begin"
  <2>1. <<epoch, 0, "legacy", "refresh">> \in Decisions
    BY LimitsAssumption DEF Decisions, Acts, IInv, Typed, TypeOK
  <2>2. d \in Decisions /\ p \in {"legacy", "begin"}
    BY <2>1 DEF IInv, Typed, TypeOK
  <2>3. \/ Leave(t)
        \/ task' = [task EXCEPT ![t] = [@ EXCEPT !.pc = p, !.key = d, !.cand = selected]]
    BY DEF Bind
  <2> HIDE DEF d, p
  <2> QED
    BY <2>2, <2>3, <1>2, <1>3

LEMMA LegacyStep ==
    ASSUME IInv, NEW t \in Tasks, Legacy(t)
    PROVE  IInv' /\ Kept
<1>1. /\ Fits(task[t], "legacy") /\ task[t].attempt = 0 /\ task[t].pc = "legacy" /\ Fence(t)
      /\ task[t].key \in Decisions
    BY DEF Legacy, At, IInv, Typed, Carries, Fits, Fences
<1>2. /\ UNCHANGED <<status, due, quiescence, selected, tried, expired, writer, tries>>
      /\ UNCHANGED <<failures, lastFailure, refreshes, epoch, lastRefresh, inflight, answer>>
      /\ UNCHANGED <<owner, lapsed, paused, startup, asked, outlived, upsets>>
      /\ decision' \in {decision, task[t].key}
    BY DEF Legacy, file, routes, work, counters, refresh, claim, controls, history
<1>3. /\ Stepped(t) /\ task'[t].attempt = 0
      /\ \/ task'[t].pc = "finish"
         \/ task'[t].pc = "reserve" /\ task'[t].trigger = task[t].trigger /\ Holds(t)
  <2>1. CASE Leave(t)
    BY <2>1, Leaving DEF IInv, Leaves
  <2>2. CASE Holds(t) /\ Go(t, "reserve")
    <3>1. Fits(task[t], "reserve") /\ "reserve" \in Steps
        BY <1>1 DEF Fits, Steps
    <3> QED
        BY <1>1, <2>2, <3>1, Going DEF IInv, Goes
  <2> QED
    BY <2>1, <2>2 DEF Legacy
<1>4. TypeOK'
    BY <1>1, <1>2, <1>3 DEF IInv, Typed, TypeOK, Stepped
<1>5. Charged'
    BY <1>2, StillCharged DEF IInv
<1>6. Fence(t)'
    BY <1>1, <1>2, <1>3 DEF Fence, Unfenced
<1>7. Checked(t)
    BY <1>3, Unchecked DEF Checked
<1>8. Local(t)
    BY <1>1, <1>2, <1>3, <1>7 DEF Local, At
<1> QED
    BY <1>3, <1>4, <1>5, <1>6, <1>8, LocalStep DEF IInv, Typed, Stepped

\* A usable answer is on record: no call that still counts is out.
LEMMA Replayed ==
    ASSUME IInv, inflight # None, answer[inflight.attempt] # "started",
           NEW u \in Tasks \ outlived
    PROVE  ~Out(u)
<1>1. Attempt(u)
    BY DEF IInv, Attempts
<1> QED
    BY <1>1 DEF Attempt, Out

LEMMA ReplayStep ==
    ASSUME IInv, NEW t \in Tasks, Replay(t)
    PROVE  IInv' /\ Kept
<1>1. /\ Fits(task[t], "begin") /\ task[t].attempt = 0 /\ task[t].pc = "begin" /\ Fence(t)
      /\ task[t] \in TaskStates
      /\ Still /\ UNCHANGED <<selected, quiescence, owner, paused, outlived>>
    BY DEF Replay, At, IInv, Typed, TypeOK, Carries, Fits, Fences, Still, durable, file, routes,
           claim, controls, history
<1>2. CASE Leave(t)
    BY <1>1, <1>2, StillLeaving DEF At
<1>3. CASE Go(t, "park")
  <2>1. Fits(task[t], "park") /\ "park" \in Steps
    BY <1>1 DEF Fits, Steps
  <2>2. Goes(t, "park") => Fence(t)' /\ Checked(t)
    BY <1>1, Unchecked DEF Goes, Fence, Unfenced
  <2> QED
    BY <1>1, <1>3, <2>1, <2>2, StillGoing DEF At
<1>4. CASE Authorized(t) /\ Begun(t) /\ answer[inflight.attempt] = "usable" /\ Go(t, "renew")
  <2>1. Fits(task[t], "renew") /\ "renew" \in Steps
    BY <1>1 DEF Fits, Steps
  <2>2. \A u \in Tasks \ outlived : ~Out(u)
    BY <1>4, Replayed DEF Begun
  <2>3. ASSUME Goes(t, "renew") PROVE Fence(t)' /\ Checked(t)
    <3>1. \A u \in Tasks \ outlived' : ~Out(u)'
        BY <1>1, <2>2, <2>3 DEF Goes, Stepped, Out
    <3>2. Fence(t)'
        BY <1>1, <2>3, <3>1 DEF Goes, Fence, Unfenced
    <3> QED
        BY <1>4, <3>2 DEF Checked, Authorized
  <2> QED
    BY <1>1, <1>4, <2>1, <2>3, StillGoing DEF At
<1>5. ASSUME NEW k \in Kinds,
             task' = [task EXCEPT ![t] = [@ EXCEPT !.pc = "count", !.kind = k, !.of = 0]]
      PROVE  IInv' /\ Kept
  <2> DEFINE r == [task[t] EXCEPT !.pc = "count", !.kind = k, !.of = 0]
  <2>0. "count" \in Steps /\ 0 \in 0..MaxTries
    BY LimitsAssumption DEF Steps
  <2>1. /\ r \in TaskStates /\ r.pc = "count" /\ r.kind = k /\ r.trigger = task[t].trigger
        /\ r.attempt = 0
    BY <1>1, <2>0 DEF TaskStates
  <2>2. task' = [task EXCEPT ![t] = r]
    BY <1>5
  <2> HIDE DEF r
  <2>3. Fits(r, r.pc)
    BY <1>1, <2>1 DEF Fits
  <2>4. Stepped(t) /\ task'[t] = r
    BY <2>1, <2>2, <2>3, StepTyped DEF Stepped, IInv
  <2>5. Fence(t)'
    BY <1>1, <2>1, <2>4 DEF Fence, Unfenced
  <2> QED
    BY <1>1, <2>1, <2>4, <2>5, StillStep, Unchecked DEF At
<1> QED
  <2>1. {"expired"} \subseteq Kinds /\ UnusableKinds \subseteq Kinds
    BY DEF Kinds, UnusableKinds
  <2> QED
    BY <2>1, <1>2, <1>3, <1>4, <1>5 DEF Replay

LEMMA RenewStep ==
    ASSUME IInv, NEW t \in Tasks, Renew(t)
    PROVE  IInv' /\ Kept
<1>1. /\ Fits(task[t], "renew") /\ task[t].attempt = 0 /\ task[t].pc = "renew" /\ Fence(t)
      /\ Still /\ UNCHANGED <<selected, quiescence, owner, paused, outlived>>
    BY DEF Renew, At, IInv, Typed, Carries, Fits, Fences, Still, durable, file, routes, claim,
           controls, history
<1>2. CASE Leave(t)
    BY <1>1, <1>2, StillLeaving DEF At
<1>3. CASE Current(t) /\ Go(t, "replace")
  <2>1. Fits(task[t], "replace") /\ "replace" \in Steps
    BY <1>1 DEF Fits, Steps
  <2>2. ASSUME Goes(t, "replace") PROVE Fence(t)' /\ Checked(t)
    <3>1. \A u \in Tasks : Out(u)' => Out(u)
        BY <2>2 DEF Goes, Stepped, Out
    <3>2. Fence(t)'
        BY <1>1, <2>2, <3>1 DEF Goes, Fence, Unfenced
    <3> QED
        BY <1>3, <3>2 DEF Checked, Current, Holds
  <2> QED
    BY <1>1, <1>3, <2>1, <2>2, StillGoing DEF At
<1> QED
    BY <1>2, <1>3 DEF Renew

LEMMA ReplaceStep ==
    ASSUME IInv, NEW t \in Tasks, Replace(t)
    PROVE  IInv' /\ Kept
<1>1. /\ Fits(task[t], "replace") /\ task[t].attempt = 0 /\ task[t].pc = "replace" /\ Fence(t)
    BY DEF Replace, At, IInv, Typed, Carries, Fits, Fences
<1>2. /\ UNCHANGED <<status, due, quiescence, selected, tried, writer, tries>>
      /\ UNCHANGED <<failures, lastFailure, refreshes, epoch, lastRefresh, inflight, answer>>
      /\ UNCHANGED <<decision, owner, lapsed, paused, startup, asked, outlived, upsets>>
      /\ expired' \subseteq expired
    BY DEF Replace, file, work, counters, refresh, claim, controls, history
<1>3. /\ Stepped(t) /\ task'[t].attempt = 0
      /\ \/ task'[t].pc = "finish"
         \/ task'[t].pc = "land" /\ task'[t].trigger = task[t].trigger
  <2>1. CASE Leave(t)
    BY <2>1, Leaving DEF IInv, Leaves
  <2>2. CASE Go(t, "land")
    <3>1. Fits(task[t], "land") /\ "land" \in Steps
        BY <1>1 DEF Fits, Steps
    <3> QED
        BY <1>1, <2>2, <3>1, Going DEF IInv, Goes
  <2> QED
    BY <2>1, <2>2 DEF Replace
<1>4. TypeOK'
    BY <1>2, <1>3 DEF IInv, Typed, TypeOK, Stepped
<1>5. Charged'
    BY <1>2, StillCharged DEF IInv
<1>6. Fence(t)'
  <2>1. \A u \in Tasks : Out(u)' => Out(u)
    BY <1>3 DEF Stepped, Out
  <2> QED
    BY <1>1, <1>2, <1>3, <2>1 DEF Fence, Unfenced
<1>7. Local(t)
    BY <1>1, <1>2, <1>3, Unchecked DEF Local, At
<1> QED
    BY <1>3, <1>4, <1>5, <1>6, <1>7, LocalStep DEF IInv, Typed, Stepped

\* A step that commits no switch.
LEMMA KeepsAll ==
    ASSUME IInv, NEW t \in Tasks, \A u \in Tasks : task'[u] = task[u] \/ u = t,
           ~At(t, "commit") \/ task'[t].pc # "attempted", Checked(t),
           Holds(t) /\ Automatic(t) /\ ~At(t, "lift") /\ quiescence = "recovery_exhausted"
             => quiescence' = "recovery_exhausted"
    PROVE  Kept
<1>1. ASSUME NEW u \in Tasks, paused, task[u].trigger \in {"auto", "retry"}
      PROVE  <<task[u].pc, task'[u].pc>> \notin Checks
    BY <1>1, NonePasses
<1> QED
    BY <1>1 DEF Kept, At

LEMMA ReserveRefreshStep ==
    ASSUME IInv, NEW t \in Tasks, ReserveRefresh(t)
    PROVE  IInv' /\ Kept
<1>1. /\ task[t].pc \in {"apply", "reserve"} /\ Fits(task[t], task[t].pc) /\ task[t].attempt = 0
      /\ task[t].key \in Decisions /\ Fence(t)
    BY DEF ReserveRefresh, At, IInv, Typed, Carries, Fits, Fences
<1>2. /\ UNCHANGED <<status, due, quiescence, selected, tried, expired, writer, tries>>
      /\ UNCHANGED <<failures, lastFailure, epoch, inflight, answer, decision>>
      /\ UNCHANGED <<owner, lapsed, paused, startup, asked, upsets>>
    BY DEF ReserveRefresh, file, routes, work, claim, controls
<1>3. ASSUME NEW p \in {"mark", "begin", "activate", "park"}, Go(t, p),
             p = "activate" => task[t].pc = "apply" /\ task[t].target # None
      PROVE  Goes(t, p) /\ Fence(t)'
  <2>1. task[t].target # None => task[t].target \in Candidates
    BY DEF IInv, Typed, TypeOK, TaskStates
  <2>2. Fits(task[t], p) /\ p \in Steps
    BY <1>1, <1>3, <2>1 DEF Fits, Steps
  <2>3. Goes(t, p)
    BY <1>3, <2>2, Going DEF IInv
  <2> QED
    BY <1>1, <1>2, <1>3, <2>3 DEF Goes, Fence, Unfenced
<1>4. ASSUME NEW p \in {"mark", "begin", "activate", "park"}, Goes(t, p), Fence(t)', Checked(t),
             UNCHANGED <<lastRefresh, refreshes, outlived>>
      PROVE  IInv' /\ Kept
  <2>1. TypeOK'
    BY <1>2, <1>4 DEF IInv, Typed, TypeOK, Goes, Stepped
  <2>2. Charged'
    BY <1>2, <1>4, StillCharged DEF IInv
  <2>3. Local(t)
    BY <1>1, <1>2, <1>4 DEF Local, Goes, At
  <2> QED
    BY <1>4, <2>1, <2>2, <2>3, LocalStep DEF IInv, Typed, Goes, Stepped
<1>5. ASSUME NEW p \in {"mark", "begin"}, Goes(t, p), Fence(t)',
             Reservable(t), lastRefresh # task[t].key,
             lastRefresh' = task[t].key, refreshes' = refreshes + 1,
             outlived' = {u \in Tasks : At(u, "call") \/ At(u, "calling")}
      PROVE  IInv' /\ Kept
  <2>1. refreshes' \in 0..RefreshLimit /\ outlived' \subseteq Tasks /\ owner = t
    BY <1>5, LimitsAssumption DEF Reservable, CanRefresh, Holds, IInv, Typed, TypeOK
  <2>2. TypeOK'
    BY <1>1, <1>2, <1>5, <2>1 DEF IInv, Typed, TypeOK, Goes, Stepped
  <2>3. Charged'
    <3>1. IsFiniteSet(asked) /\ asked' = asked /\ refreshes \in Nat
        BY <1>2 DEF IInv, Charged, Typed, TypeOK
    <3>2. IsFiniteSet(asked \cup {lastRefresh})
        BY <3>1, FS_AddElement
    <3>3. Cardinality(asked) <= refreshes /\ Cardinality(asked) \in Nat
      <4>1. CASE refreshes = 0
          BY <4>1, FS_EmptySet DEF IInv, Charged
      <4>2. CASE refreshes # 0
        <5>1. Cardinality(asked) <= Cardinality(asked \cup {lastRefresh})
            BY <3>2, FS_Subset
        <5>2. Cardinality(asked \cup {lastRefresh}) <= refreshes
            BY <4>2 DEF IInv, Charged
        <5> QED
            BY <3>1, <3>2, <5>1, <5>2, FS_CardinalityType
      <4> QED
          BY <4>1, <4>2
    <3>4. Cardinality(asked \cup {task[t].key}) <= Cardinality(asked) + 1
      <4>1. \/ Cardinality(asked \cup {task[t].key}) = Cardinality(asked)
            \/ Cardinality(asked \cup {task[t].key}) = Cardinality(asked) + 1
          BY <3>1, FS_AddElement
      <4> QED
          BY <3>3, <4>1
    <3>5. Cardinality(asked \cup {task[t].key}) \in Nat
        BY <3>1, FS_AddElement, FS_CardinalityType
    <3>6. Cardinality(asked \cup {task[t].key}) <= refreshes'
        BY <1>5, <3>1, <3>3, <3>4, <3>5
    <3> QED
        BY <1>5, <3>1, <3>6 DEF Charged
  <2>4. \A u \in Tasks : task'[u] = task[u] \/ u = t
    BY <1>5 DEF Goes, Stepped
  <2>5. task'[t].pc = p /\ task'[t].attempt = 0
    BY <1>1, <1>5 DEF Goes
  <2>6. Respects(t)
    BY <1>2, <2>1, <2>4, <2>5 DEF Respects, Out
  <2>7. Fences'
    BY <1>5, <2>6, OthersFenced DEF Goes
  <2>8. Attempts'
    <3>1. ASSUME NEW u \in Tasks PROVE Attempt(u)'
      <4>1. \A w \in Tasks : Attempt(w)
          BY DEF IInv, Attempts
      <4>2. Out(u)' => u \in outlived'
          BY <1>5, <2>4, <2>5 DEF At, Out
      <4> QED
          BY <1>2, <2>4, <2>5, <4>1, <4>2 DEF Attempt, Out
    <3> QED
        BY <3>1 DEF Attempts
  <2>9. Kept
    BY <1>1, <1>2, <2>1, <2>4, <2>5, KeepsAll DEF At, Checked, Holds
  <2> QED
    BY <1>5, <2>2, <2>3, <2>7, <2>8, <2>9 DEF IInv, Typed, Goes, Stepped
<1>6. ASSUME NEW p \in {"mark", "begin"}, Go(t, p), Reservable(t), Reserve(t)
      PROVE  IInv' /\ Kept
  <2>1. Goes(t, p) /\ Fence(t)'
    BY <1>3, <1>6
  <2>2. CASE lastRefresh = task[t].key
    <3>1. UNCHANGED <<lastRefresh, refreshes, outlived>> /\ Checked(t)
        BY <1>6, <2>2 DEF Reserve, Reservable, Checked
    <3> QED
        BY <1>4, <2>1, <3>1
  <2>3. CASE lastRefresh # task[t].key
    <3>1. /\ lastRefresh' = task[t].key /\ refreshes' = refreshes + 1
          /\ outlived' = {u \in Tasks : At(u, "call") \/ At(u, "calling")}
        BY <1>6, <2>3 DEF Reserve
    <3> QED
        BY <1>5, <1>6, <2>1, <2>3, <3>1
  <2> QED
    BY <2>2, <2>3
<1>7. ASSUME NEW p \in {"activate", "park"}, Go(t, p),
             p = "activate" => task[t].pc = "apply" /\ task[t].target # None,
             UNCHANGED <<lastRefresh, refreshes, outlived>>
      PROVE  IInv' /\ Kept
  <2>1. Goes(t, p) /\ Fence(t)'
    BY <1>3, <1>7
  <2>2. Checked(t)
    BY <2>1, Unchecked DEF Goes
  <2> QED
    BY <1>4, <1>7, <2>1, <2>2
<1> QED
    BY <1>6, <1>7 DEF ReserveRefresh, At

LEMMA FreshAttempt ==
    ASSUME IInv, NEW t \in Tasks, task[t].attempt = 0
    PROVE  \E a \in RefreshIds : ~InUse(a)
<1> DEFINE other == IF inflight # None THEN inflight.attempt ELSE 0
           f == [u \in Tasks |-> IF u = t THEN other ELSE task[u].attempt]
           R == {f[u] : u \in Tasks}
<1>1. f \in Surjection(Tasks, R)
    BY DEF Surjection
<1>2. IsFiniteSet(R) /\ Cardinality(R) <= Cardinality(Tasks)
    BY <1>1, FS_Surjection, TasksAssumption
<1>3. ASSUME \A a \in RefreshIds : InUse(a) PROVE FALSE
  <2>1. ASSUME NEW a \in RefreshIds PROVE a \in R
    <3>1. CASE inflight # None /\ inflight.attempt = a
      <4>1. f[t] = a
          BY <3>1
      <4> QED
          BY <4>1
    <3>2. CASE \E u \in Tasks : task[u].attempt = a
      <4>1. PICK u \in Tasks : task[u].attempt = a
          BY <3>2
      <4>2. u # t
          BY <4>1, Ids
      <4>3. f[u] = a
          BY <4>1, <4>2
      <4> QED
          BY <4>3
    <3> QED
        BY <1>3, <3>1, <3>2 DEF InUse
  <2> HIDE DEF R
  <2>2. RefreshIds \in SUBSET R
    BY <2>1
  <2>3. Cardinality(RefreshIds) <= Cardinality(R)
    BY <1>2, <2>2, FS_Subset
  <2>4. Cardinality(RefreshIds) = Cardinality(Tasks) + 1
    BY Ids, FS_Interval DEF RefreshIds
  <2>5. Cardinality(R) \in Nat /\ Cardinality(Tasks) \in Nat
    BY <1>2, Ids, FS_CardinalityType
  <2> QED
    BY <1>2, <2>3, <2>4, <2>5
<1> QED
    BY <1>3

LEMMA BeginStep ==
    ASSUME IInv, NEW t \in Tasks, Begin(t)
    PROVE  IInv' /\ Kept
<1> DEFINE a == CHOOSE b \in RefreshIds : ~InUse(b)
           r == [task[t] EXCEPT !.pc = "ask", !.attempt = a]
<1>1. /\ Fits(task[t], "begin") /\ task[t].attempt = 0 /\ task[t].pc = "begin" /\ Fence(t)
      /\ task[t].key \in Decisions /\ task[t] \in TaskStates
      /\ owner = t /\ lastRefresh = task[t].key /\ ~Begun(t)
    BY DEF Begin, At, IInv, Typed, TypeOK, Carries, Fits, Fences, Authorized, Holds
<1>2. a \in RefreshIds /\ ~InUse(a)
    BY <1>1, FreshAttempt
<1>3. /\ answer' = [answer EXCEPT ![a] = "started"]
      /\ inflight' = [key |-> task[t].key, attempt |-> a]
      /\ task' = [task EXCEPT ![t].pc = "ask", ![t].attempt = a]
    BY Zenon DEF Begin
<1>4. /\ UNCHANGED <<status, due, quiescence, selected, tried, expired, writer, tries>>
      /\ UNCHANGED <<failures, lastFailure, refreshes, epoch, lastRefresh, decision>>
      /\ UNCHANGED <<owner, lapsed, paused, startup, asked, outlived, upsets>>
    BY DEF Begin, file, routes, work, counters, claim, controls, history
<1> HIDE DEF a
<1>17. task' = [task EXCEPT ![t] = r]
    BY <1>3
<1>5. /\ r \in TaskStates /\ r.pc = "ask" /\ r.attempt = a /\ r.key = task[t].key
      /\ r.trigger = task[t].trigger
    BY <1>1, <1>2 DEF TaskStates, Steps
<1> HIDE DEF r
<1>6. Fits(r, r.pc)
    BY <1>1, <1>2, <1>5 DEF Fits
<1>7. Stepped(t) /\ task'[t] = r
    BY <1>17, <1>5, <1>6, StepTyped DEF Stepped, IInv
<1>8. /\ answer' \in [RefreshIds -> {"none", "started", "usable", "unusable", "failed"}]
      /\ inflight' \in Inflights
    BY <1>1, <1>2, <1>3 DEF IInv, Typed, TypeOK, Inflights
<1>9. TypeOK'
    BY <1>4, <1>7, <1>8 DEF IInv, Typed, TypeOK, Stepped
<1>10. Charged'
    BY <1>4, StillCharged DEF IInv
<1>11. \A u \in Tasks : task'[u] = task[u] \/ u = t
    BY <1>7 DEF Stepped
<1>12. Fence(t)'
    BY <1>1, <1>3, <1>4, <1>5, <1>7 DEF Fence, Unfenced
<1>13. Respects(t)
    BY <1>1, <1>4, <1>5, <1>7, <1>11 DEF Respects, Out
<1>14. Attempts'
  <2>1. ASSUME NEW u \in Tasks PROVE Attempt(u)'
    <3>1. \A w \in Tasks : Attempt(w) /\ task[w].attempt # a
        BY <1>2 DEF IInv, Attempts, InUse
    <3>2. answer'[a] = "started" /\ \A b \in RefreshIds \ {a} : answer'[b] = answer[b]
        BY <1>2, <1>3 DEF IInv, Typed, TypeOK
    <3>3. \A w \in Tasks :
            task[w].pc \in {"ask", "call", "calling"} => task[w].attempt \in RefreshIds
        BY DEF IInv, Typed, Carries, Fits
    <3>4. Out(u) => u \in outlived
      <4>1. ASSUME Out(u), u \notin outlived PROVE FALSE
        <5>1. /\ lastRefresh = task[u].key
              /\ inflight = [key |-> task[u].key, attempt |-> task[u].attempt]
            BY <3>1, <4>1 DEF Attempt
        <5>2. inflight.key = task[t].key /\ inflight # None => Begun(t)
            BY DEF Begun
        <5>3. inflight # None
          <6>1. task[u].key \in Decisions /\ task[u].attempt \in RefreshIds
              BY <4>1 DEF IInv, Typed, Carries, Fits, Out
          <6>2. inflight \in Inflights
              BY <5>1, <6>1 DEF Inflights
          <6> QED
              BY <6>2, NoneAssumption
        <5> QED
            BY <1>1, <5>1, <5>2, <5>3
      <4> QED
          BY <4>1
    <3>5. CASE u = t
        BY <1>2, <1>5, <1>7, <1>11, <3>1, <3>2, <3>5 DEF Attempt, Out
    <3>6. CASE u # t
        BY <1>2, <1>4, <1>5, <1>7, <1>11, <3>1, <3>2, <3>3, <3>4, <3>6 DEF Attempt, Out
    <3> QED
        BY <3>5, <3>6
  <2> QED
    BY <2>1 DEF Attempts
<1>15. Fences'
    BY <1>7, <1>12, <1>13, OthersFenced
<1>16. Kept
    BY <1>1, <1>4, <1>5, <1>7, <1>11, KeepsAll DEF At, Checked, Holds
<1> QED
    BY <1>7, <1>9, <1>10, <1>14, <1>15, <1>16 DEF IInv, Typed, Stepped

LEMMA AskStep ==
    ASSUME IInv, NEW t \in Tasks, Ask(t)
    PROVE  IInv' /\ Kept
<1>1. /\ Fits(task[t], "ask") /\ task[t].pc = "ask" /\ task[t].attempt \in RefreshIds /\ Fence(t)
      /\ task[t].key \in Decisions
    BY DEF Ask, At, IInv, Typed, Carries, Fits, Fences
<1>2. /\ UNCHANGED <<status, due, quiescence, selected, tried, expired, writer, tries>>
      /\ UNCHANGED <<failures, lastFailure, refreshes, epoch, lastRefresh, inflight, answer>>
      /\ UNCHANGED <<decision, owner, lapsed, paused, startup, outlived, upsets>>
    BY DEF Ask, durable, file, routes, work, counters, refresh, claim, controls
<1>3. CASE Leave(t) /\ UNCHANGED asked
  <2>1. Still
    BY <1>2, <1>3
    DEF Still, durable, file, routes, work, counters, refresh, claim, controls, history
  <2> QED
    BY <1>1, <1>3, <2>1, StillLeaving DEF At
<1>4. CASE /\ Current(t) /\ Go(t, "call")
           /\ asked' = asked \cup (IF refreshes = 0 THEN {} ELSE {task[t].key})
  <2>1. Fits(task[t], "call") /\ "call" \in Steps
    BY <1>1 DEF Fits, Steps
  <2>2. Goes(t, "call")
    BY <1>4, <2>1, Going DEF IInv
  <2>3. /\ owner = t /\ lastRefresh = task[t].key
        /\ inflight = [key |-> task[t].key, attempt |-> task[t].attempt]
        /\ task[t].trigger \in {"auto", "retry"} => ~paused
        /\ task[t].trigger \in {"auto", "resume"} => quiescence # "recovery_exhausted"
    BY <1>1, <1>4 DEF Current, Fence, Unfenced
  <2>4. asked' \subseteq Decisions
    BY <1>1, <1>4 DEF IInv, Typed, TypeOK
  <2>5. TypeOK'
    BY <1>2, <2>2, <2>4 DEF IInv, Typed, TypeOK, Goes, Stepped
  <2>6. Charged'
    <3>1. CASE refreshes = 0
        BY <1>2, <1>4, <3>1 DEF IInv, Charged
    <3>2. CASE refreshes # 0
      <4>1. asked' = asked \cup {lastRefresh}
          BY <1>4, <2>3, <3>2
      <4>2. asked' \cup {lastRefresh'} = asked \cup {lastRefresh}
          BY <1>2, <4>1
      <4>3. IsFiniteSet(asked \cup {lastRefresh})
          BY FS_AddElement DEF IInv, Charged
      <4> QED
          BY <1>2, <3>2, <4>1, <4>2, <4>3 DEF IInv, Charged
    <3> QED
        BY <3>1, <3>2
  <2>7. \A u \in Tasks : task'[u] = task[u] \/ u = t
    BY <2>2 DEF Goes, Stepped
  <2>8. Fence(t)'
    BY <1>2, <2>2, <2>3 DEF Goes, Fence, Unfenced
  <2>9. Respects(t)
    BY <1>2, <2>3, <2>7 DEF Respects, Out
  <2>10. Attempts'
    <3>1. ASSUME NEW u \in Tasks PROVE Attempt(u)'
      <4>1. Attempt(t) /\ Attempt(u)
          BY DEF IInv, Attempts
      <4>2. \A w \in Tasks : task'[w].attempt = task[w].attempt /\ task'[w].key = task[w].key
          BY <2>2, <2>7 DEF Goes
      <4>3. task'[u].pc = task[u].pc \/ (u = t /\ task'[u].pc = "call")
          BY <2>2, <2>7 DEF Goes
      <4> QED
          BY <1>1, <1>2, <2>3, <4>1, <4>2, <4>3 DEF Attempt, Out
    <3> QED
        BY <3>1 DEF Attempts
  <2>11. Fences'
    BY <2>2, <2>8, <2>9, OthersFenced DEF Goes
  <2>12. Kept
    BY <1>1, <1>2, <2>3, <2>7, KeepsAll DEF At, Automatic, Checked, Holds
  <2> QED
    BY <2>2, <2>5, <2>6, <2>10, <2>11, <2>12 DEF IInv, Typed, Goes, Stepped
<1> QED
    BY <1>3, <1>4 DEF Ask

\* The call itself: whoever makes it has had leave for it, and nothing else changes.
LEMMA CallStep ==
    ASSUME IInv, NEW t \in Tasks, Call(t)
    PROVE  IInv' /\ Kept
<1>1. /\ Fits(task[t], "call") /\ task[t].pc = "call" /\ task[t].attempt \in RefreshIds
      /\ Fence(t)
    BY DEF Call, At, IInv, Typed, Carries, Fits, Fences
<1>2. /\ UNCHANGED <<status, due, quiescence, selected, tried, expired, writer, tries>>
      /\ UNCHANGED <<failures, lastFailure, refreshes, epoch, lastRefresh, inflight, answer>>
      /\ UNCHANGED <<decision, owner, lapsed, paused, startup, asked, outlived, upsets>>
    BY DEF Call, durable, file, routes, work, counters, refresh, claim, controls, history
<1>3. Fits(task[t], "calling") /\ "calling" \in Steps
    BY <1>1 DEF Fits, Steps
<1>4. Goes(t, "calling")
    BY <1>3, Going DEF IInv, Call
<1>5. TypeOK'
    BY <1>2, <1>4 DEF IInv, Typed, TypeOK, Goes, Stepped
<1>6. Charged'
    BY <1>2, StillCharged DEF IInv
<1>7. \A u \in Tasks : task'[u] = task[u] \/ u = t
    BY <1>4 DEF Goes, Stepped
<1>8. Fence(t)'
    BY <1>1, <1>2, <1>4 DEF Goes, Fence, Unfenced
<1>9. Respects(t)
    BY <1>1, <1>2, <1>4, <1>7 DEF Respects, Goes, Out
<1>10. Attempts'
  <2>1. ASSUME NEW u \in Tasks PROVE Attempt(u)'
    <3>1. Attempt(t) /\ Attempt(u)
        BY DEF IInv, Attempts
    <3>2. \A w \in Tasks : task'[w].attempt = task[w].attempt /\ task'[w].key = task[w].key
        BY <1>4, <1>7 DEF Goes
    <3>3. task'[u].pc = task[u].pc \/ (u = t /\ task'[u].pc = "calling")
        BY <1>4, <1>7 DEF Goes
    <3> QED
        BY <1>1, <1>2, <3>1, <3>2, <3>3 DEF Attempt, Out
  <2> QED
    BY <2>1 DEF Attempts
<1>11. Fences'
    BY <1>4, <1>8, <1>9, OthersFenced DEF Goes
<1>12. Kept
    BY <1>1, <1>2, <1>4, <1>7, KeepsAll, Unchecked DEF At, Goes
<1> QED
    BY <1>4, <1>5, <1>6, <1>10, <1>11, <1>12 DEF IInv, Typed, Goes, Stepped

LEMMA AnswerStep ==
    ASSUME IInv, NEW t \in Tasks, Answer(t)
    PROVE  IInv' /\ Kept
<1>1. /\ Fits(task[t], "calling") /\ task[t].pc = "calling" /\ task[t].attempt \in RefreshIds
      /\ Fence(t)
    BY DEF Answer, At, IInv, Typed, Carries, Fits, Fences
<1>2. /\ UNCHANGED <<status, due, quiescence, selected, tried, expired, writer, tries>>
      /\ UNCHANGED <<failures, lastFailure, refreshes, epoch, lastRefresh, inflight>>
      /\ UNCHANGED <<decision, owner, lapsed, paused, startup, asked, upsets>>
      /\ outlived' = outlived \ {t}
    BY DEF Answer, file, routes, work, counters, claim, controls
<1>3. PICK v \in {"usable", "unusable", "failed"} :
        answer' = [answer EXCEPT ![task[t].attempt] = v]
    BY DEF Answer
<1>4. Fits(task[t], "told") /\ "told" \in Steps
    BY <1>1 DEF Fits, Steps
<1>5. Goes(t, "told")
    BY <1>4, Going DEF IInv, Answer
<1>6. answer' \in [RefreshIds -> {"none", "started", "usable", "unusable", "failed"}]
    BY <1>3 DEF IInv, Typed, TypeOK
<1>7. TypeOK'
    BY <1>2, <1>5, <1>6 DEF IInv, Typed, TypeOK, Goes, Stepped
<1>8. Charged'
    BY <1>2, StillCharged DEF IInv
<1>9. \A u \in Tasks : task'[u] = task[u] \/ u = t
    BY <1>5 DEF Goes, Stepped
<1>10. Fence(t)'
    BY <1>1, <1>2, <1>5 DEF Goes, Fence, Unfenced
<1>11. Respects(t)
    BY <1>2, <1>5, <1>9 DEF Respects, Goes, Out
<1>12. Attempts'
  <2>1. ASSUME NEW u \in Tasks PROVE Attempt(u)'
    <3>1. Attempt(t) /\ Attempt(u)
        BY DEF IInv, Attempts
    <3>2. \A w \in Tasks : task'[w].attempt = task[w].attempt
        BY <1>5, <1>9 DEF Goes
    <3>3. CASE u = t
        BY <1>5, <3>1, <3>2, <3>3 DEF Goes, Attempt, Out
    <3>4. CASE u # t
      <4>1. task[u].attempt # task[t].attempt
          BY <1>1, <3>1, <3>4, Ids DEF Attempt
      <4>2. answer'[task[u].attempt] = answer[task[u].attempt] \/ task[u].attempt \notin RefreshIds
          BY <1>3, <4>1 DEF IInv, Typed, TypeOK
      <4>3. task[u].pc \in {"ask", "call", "calling"} => task[u].attempt \in RefreshIds
          BY DEF IInv, Typed, Carries, Fits
      <4>4. task'[u] = task[u] /\ (u \notin outlived' => u \notin outlived)
          BY <1>2, <1>9, <3>4
      <4> QED
          BY <1>2, <3>1, <3>2, <4>2, <4>3, <4>4 DEF Attempt, Out
    <3> QED
        BY <3>3, <3>4
  <2> QED
    BY <2>1 DEF Attempts
<1>13. Fences'
    BY <1>5, <1>10, <1>11, OthersFenced DEF Goes
<1>14. Kept
    BY <1>1, <1>2, <1>5, <1>9, KeepsAll, Unchecked DEF At, Goes
<1> QED
    BY <1>5, <1>7, <1>8, <1>12, <1>13, <1>14 DEF IInv, Typed, Goes, Stepped

LEMMA ToldStep ==
    ASSUME IInv, NEW t \in Tasks, Told(t)
    PROVE  IInv' /\ Kept
<1>1. /\ Fits(task[t], "told") /\ task[t].pc = "told" /\ task[t].attempt \in RefreshIds
      /\ task[t] \in TaskStates /\ Fence(t) /\ Still
      /\ UNCHANGED <<selected, quiescence, owner, paused, outlived>>
    BY DEF Told, At, IInv, Typed, TypeOK, Carries, Fits, Fences, Still, durable, file, routes,
           claim, controls, history
<1>2. CASE Leave(t)
    BY <1>1, <1>2, StillLeaving DEF At
\* While t holds the claim, no call but its own was for the attempt in flight.
<1>3. ASSUME Current(t), NEW u \in Tasks \ outlived PROVE ~Out(u)
  <2>1. Attempt(u) /\ inflight.attempt = task[t].attempt
    BY <1>1, <1>3 DEF IInv, Attempts, Fence, Current
  <2>2. Out(u) => task[u].attempt = task[t].attempt
    BY <2>1 DEF Attempt
  <2>3. task[u].attempt = task[t].attempt => u = t
    BY <1>1, Ids DEF IInv, Attempts, Attempt
  <2> QED
    BY <1>1, <2>2, <2>3 DEF Out
<1>4. ASSUME Current(t), NEW r \in TaskStates, Fits(r, r.pc), r.pc \in {"renew", "clear"},
             r.attempt = 0, r.trigger = task[t].trigger, task' = [task EXCEPT ![t] = r]
      PROVE  IInv' /\ Kept
  <2>1. Stepped(t) /\ task'[t] = r
    BY <1>4, StepTyped DEF Stepped, IInv
  <2>2. \A u \in Tasks \ outlived' : ~Out(u)'
    BY <1>1, <1>3, <1>4, <2>1 DEF Stepped, Out
  <2>3. Fence(t)'
    BY <1>1, <1>4, <2>1, <2>2 DEF Fence, Unfenced
  <2>4. Checked(t)
    BY <1>4 DEF Checked, Current, Holds
  <2> QED
    BY <1>1, <1>4, <2>1, <2>3, <2>4, StillStep DEF At
<1>5. CASE Current(t) /\ task' = [task EXCEPT ![t].pc = "renew", ![t].attempt = 0]
  <2> DEFINE r == [task[t] EXCEPT !.pc = "renew", !.attempt = 0]
  <2>1. r \in TaskStates /\ r.pc = "renew" /\ r.attempt = 0 /\ r.trigger = task[t].trigger
    BY <1>1 DEF TaskStates, Steps
  <2>2. task' = [task EXCEPT ![t] = r]
    BY <1>5
  <2> HIDE DEF r
  <2>3. Fits(r, r.pc)
    BY <1>1, <2>1 DEF Fits
  <2> QED
    BY <1>4, <1>5, <2>1, <2>2, <2>3
<1>6. ASSUME Current(t), NEW k \in Kinds,
             task' = [task EXCEPT ![t].pc = "clear", ![t].kind = k, ![t].of = 0, ![t].attempt = 0]
      PROVE  IInv' /\ Kept
  <2> DEFINE r == [task[t] EXCEPT !.pc = "clear", !.kind = k, !.of = 0, !.attempt = 0]
  <2>1. "clear" \in Steps /\ 0 \in 0..MaxTries
    BY LimitsAssumption DEF Steps
  <2>2. /\ r \in TaskStates /\ r.pc = "clear" /\ r.kind = k /\ r.attempt = 0
        /\ r.trigger = task[t].trigger
    BY <1>1, <2>1 DEF TaskStates
  <2>3. task' = [task EXCEPT ![t] = r]
    BY <1>6
  <2> HIDE DEF r
  <2>4. Fits(r, r.pc)
    BY <1>1, <2>2 DEF Fits
  <2> QED
    BY <1>4, <1>6, <2>2, <2>3, <2>4
<1> QED
  <2>1. UnusableKinds \subseteq Kinds /\ AnswerErrors \subseteq Kinds
    BY LimitsAssumption DEF Kinds, UnusableKinds
  <2> QED
    BY <2>1, <1>2, <1>5, <1>6 DEF Told

LEMMA SettleStep ==
    ASSUME IInv, NEW t \in Tasks, Settle(t)
    PROVE  IInv' /\ Kept
<1>1. /\ task[t].pc \in {"settle", "clear"} /\ Fits(task[t], task[t].pc) /\ task[t].attempt = 0
      /\ Fence(t)
    BY DEF Settle, At, IInv, Typed, Carries, Fits, Fences
<1>2. /\ UNCHANGED <<status, due, quiescence, selected, tried, expired, writer, tries>>
      /\ UNCHANGED <<failures, lastFailure, refreshes, epoch, lastRefresh, answer>>
      /\ UNCHANGED <<decision, owner, lapsed, paused, startup, asked, outlived, upsets>>
      /\ inflight' \in {inflight, None} /\ (owner = t \/ inflight' = inflight)
    BY DEF Settle, file, routes, work, counters, claim, controls, history, Holds
<1>3. PICK p \in {"lift", "count"} : Go(t, p) /\ (p = "count" => task[t].pc = "clear")
    BY DEF Settle, At
<1>4. Goes(t, p)
  <2>1. Fits(task[t], p) /\ p \in Steps
    BY <1>1, <1>3 DEF Fits, Steps
  <2> QED
    BY <1>3, <2>1, Going DEF IInv
<1>5. TypeOK'
    BY <1>2, <1>4 DEF IInv, Typed, TypeOK, Goes, Stepped
<1>6. Charged'
    BY <1>2, StillCharged DEF IInv
<1>7. \A u \in Tasks : task'[u] = task[u] \/ u = t
    BY <1>4 DEF Goes, Stepped
<1>8. owner = t => \A u \in Tasks \ outlived : ~Out(u)
    BY <1>1 DEF Fence
<1>9. Fence(t)'
    BY <1>1, <1>2, <1>4 DEF Goes, Fence, Unfenced
<1>10. Respects(t)
    BY <1>2, <1>4, <1>7 DEF Respects, Goes, Out
<1>11. Attempts'
  <2>1. ASSUME NEW u \in Tasks PROVE Attempt(u)'
    <3>1. \A w \in Tasks : Attempt(w)
        BY DEF IInv, Attempts
    <3>2. \A w \in Tasks : task'[w].attempt = task[w].attempt
        BY <1>4, <1>7 DEF Goes
    <3>3. Out(u) /\ u \notin outlived => inflight' = inflight
        BY <1>2, <1>8
    <3>4. task'[u].pc \in {"ask", "call", "calling"} => task'[u] = task[u]
        BY <1>4, <1>7 DEF Goes
    <3> QED
        BY <1>2, <3>1, <3>2, <3>3, <3>4 DEF Attempt, Out
  <2> QED
    BY <2>1 DEF Attempts
<1>12. Fences'
    BY <1>4, <1>9, <1>10, OthersFenced DEF Goes
<1>13. Kept
  <2>1. Holds(t) /\ Automatic(t) => quiescence # "recovery_exhausted"
    BY <1>1, PastPlan DEF Unfenced
  <2> QED
    BY <1>1, <1>2, <1>4, <1>7, <2>1, KeepsAll, Unchecked DEF At, Goes
<1> QED
    BY <1>4, <1>5, <1>6, <1>11, <1>12, <1>13 DEF IInv, Typed, Goes, Stepped

LEMMA CommitStep ==
    ASSUME IInv, NEW t \in Tasks, Commit(t)
    PROVE  IInv' /\ Kept
<1>1. /\ Fits(task[t], "commit") /\ task[t].pc = "commit" /\ task[t].attempt = 0 /\ Fence(t)
      /\ task[t].target \in Candidates /\ task[t].cand \in Candidates
    BY DEF Commit, At, IInv, Typed, Carries, Fits, Fences
<1>2. /\ UNCHANGED <<tried, expired, tries, lastFailure, epoch, lastRefresh, inflight, answer>>
      /\ UNCHANGED <<decision, owner, lapsed, paused, startup, outlived, upsets>>
    BY DEF Commit, refresh, claim, controls
<1>3. ASSUME Holds(t), writer # "live", selected' = task[t].target,
             Transition("queued", None, TRUE), failures' = 0, refreshes' = 0, asked' = {},
             Go(t, "attempted")
      PROVE  IInv' /\ Kept
  <2>1. Fits(task[t], "attempted") /\ "attempted" \in Steps
    BY <1>1 DEF Fits, Steps
  <2>2. Goes(t, "attempted")
    BY <1>3, <2>1, Going DEF IInv
  <2>3. FileTyped' /\ quiescence' = None
    BY <1>3 DEF Transition, FileTyped
  <2>4. TypeOK'
    BY <1>1, <1>2, <1>3, <2>2, <2>3, LimitsAssumption
    DEF IInv, Typed, TypeOK, Goes, Stepped, FileTyped
  <2>5. Charged'
    BY <1>3, FS_EmptySet DEF Charged
  <2>6. \A u \in Tasks : task'[u] = task[u] \/ u = t
    BY <2>2 DEF Goes, Stepped
  <2>7. Fence(t)'
    BY <1>1, <1>2, <2>2, <2>3, NoneAssumption DEF Goes, Fence, Unfenced
  <2>8. Respects(t)
    BY <1>2, <1>3, <2>2, <2>3, <2>6 DEF Respects, Goes, Holds, Out
  <2>9. Fences'
    BY <2>2, <2>7, <2>8, OthersFenced DEF Goes
  <2>10. Attempts'
    <3>1. /\ Stepped(t) /\ task'[t].attempt = 0
          /\ UNCHANGED <<lastRefresh, inflight, answer, outlived>>
        BY <1>1, <1>2, <2>2 DEF Goes
    <3> QED
        BY <3>1, AttemptsStand
  <2>11. /\ selected = task[t].cand
         /\ Automatic(t) => quiescence # "recovery_exhausted"
    BY <1>1, <1>3 DEF Fence, Unfenced, Holds, Automatic
  <2>12. Kept
    <3>1. Checked(t)
        BY <1>3 DEF Checked
    <3>2. \A u \in Tasks : paused /\ task[u].trigger \in {"auto", "retry"}
            => <<task[u].pc, task'[u].pc>> \notin Checks
        BY <2>6, <3>1, NonePasses
    <3> QED
        BY <2>2, <2>6, <2>11, <3>2 DEF Kept, Goes, At
  <2> QED
    BY <2>2, <2>4, <2>5, <2>9, <2>10, <2>12 DEF IInv, Typed, Goes, Stepped
<1>4. ASSUME Refuse(t), UNCHANGED <<file, selected, writer, failures, refreshes, history>>
      PROVE  IInv' /\ Kept
  <2>1. UNCHANGED <<status, due, quiescence, selected, writer, failures, refreshes, asked>>
    BY <1>4 DEF file, history
  <2>2. /\ Stepped(t) /\ task'[t].attempt = 0
        /\ \/ task'[t].pc = "finish"
           \/ task'[t].pc = "park" /\ task'[t].trigger = task[t].trigger
    <3>1. CASE Leave(t)
        BY <3>1, Leaving DEF IInv, Leaves
    <3>2. CASE task[t].trigger # "switch" /\ Go(t, "park")
      <4>1. Fits(task[t], "park") /\ "park" \in Steps
          BY <1>1, <3>2 DEF Fits, Steps
      <4> QED
          BY <1>1, <3>2, <4>1, Going DEF IInv, Goes
    <3> QED
        BY <1>4, <3>1, <3>2 DEF Refuse
  <2>3. TypeOK'
    BY <1>2, <2>1, <2>2 DEF IInv, Typed, TypeOK, Stepped
  <2>4. Charged'
    BY <1>2, <2>1, StillCharged DEF IInv
  <2>5. \A u \in Tasks : task'[u] = task[u] \/ u = t
    BY <2>2 DEF Stepped
  <2>6. Fence(t)'
    BY <1>1, <1>2, <2>1, <2>2 DEF Fence, Unfenced
  <2>7. Respects(t)
    BY <1>2, <2>1, <2>2, <2>5 DEF Respects, Out
  <2>8. Fences'
    BY <2>2, <2>6, <2>7, OthersFenced
  <2>9. Attempts'
    <3>1. UNCHANGED <<lastRefresh, inflight, answer, outlived>>
        BY <1>2
    <3> QED
        BY <2>2, <3>1, AttemptsStand
  <2>10. Kept
    BY <2>1, <2>2, <2>5, KeepsAll, Unchecked
  <2> QED
    BY <2>2, <2>3, <2>4, <2>8, <2>9, <2>10 DEF IInv, Typed, Stepped
<1> QED
    BY <1>3, <1>4 DEF Commit

-----------------------------------------------------------------------------
(* The claim, and what goes on around the recovery *)

LEMMA Idling ==
    ASSUME Typed, NEW t \in Tasks, task' = [task EXCEPT ![t] = Idle]
    PROVE  Stepped(t) /\ task'[t].pc = "idle" /\ task'[t].attempt = 0
BY IdleState, StepTyped DEF Stepped

LEMMA ClaimStep ==
    ASSUME IInv, NEW t \in Tasks, Claim(t)
    PROVE  IInv' /\ Kept
<1>1. /\ Fits(task[t], "noticed") /\ task[t].pc = "noticed" /\ task[t].attempt = 0
      /\ task[t] \in TaskStates /\ Fence(t)
    BY DEF Claim, At, IInv, Typed, TypeOK, Carries, Fits, Fences
<1>2. /\ UNCHANGED <<status, due, quiescence, selected, tried, expired, writer, tries>>
      /\ UNCHANGED <<failures, lastFailure, refreshes, epoch, lastRefresh, inflight, answer>>
      /\ UNCHANGED <<decision, paused, startup, asked, outlived, upsets>>
    BY DEF Claim, durable, file, routes, work, counters, refresh, controls, history
<1>3. CASE task' = [task EXCEPT ![t] = Idle] /\ UNCHANGED claim
  <2>1. Stepped(t) /\ task'[t].pc = "idle" /\ task'[t].attempt = 0
    BY <1>3, Idling DEF IInv
  <2>2. Still
    BY <1>2, <1>3 DEF Still, durable, file, routes, work, counters, refresh, controls, history
  <2>3. Fence(t)'
    BY <2>1, NothingFenced
  <2> QED
    BY <1>1, <2>1, <2>2, <2>3, StillStep, Unchecked DEF At
<1>4. ASSUME owner' = t, lapsed' = FALSE, NEW p \in {"reset", "activate", "reconcile"}, Go(t, p),
             p = "reset" <=> task[t].trigger = "retry",
             p = "activate" <=> task[t].trigger = "switch"
      PROVE  IInv' /\ Kept
  <2>1. Fits(task[t], p) /\ p \in Steps
    BY <1>1, <1>4 DEF Fits, Steps
  <2>2. Goes(t, p)
    BY <1>4, <2>1, Going DEF IInv
  <2>3. owner' \in Tasks \cup {None, Lost} /\ lapsed' \in BOOLEAN
    BY <1>4
  <2>4. TypeOK'
    BY <1>2, <2>2, <2>3 DEF IInv, Typed, TypeOK, Goes, Stepped
  <2>5. Charged'
    BY <1>2, StillCharged DEF IInv
  <2>6. \A u \in Tasks : task'[u] = task[u] \/ u = t
    BY <2>2 DEF Goes, Stepped
  <2>7. Fence(t)'
    BY <1>1, <1>4, <2>2 DEF Goes, Fence, Unfenced
  <2>8. Respects(t)
    BY <1>2, <1>4, <2>2, <2>6 DEF Respects, Goes, Out
  <2>9. Fences'
    BY <2>2, <2>7, <2>8, OthersFenced DEF Goes
  <2>10. Attempts'
    <3>1. /\ Stepped(t) /\ task'[t].attempt = 0
          /\ UNCHANGED <<lastRefresh, inflight, answer, outlived>>
        BY <1>1, <1>2, <2>2 DEF Goes
    <3> QED
        BY <3>1, AttemptsStand
  <2>11. Kept
    BY <1>1, <1>2, <1>4, <2>2, <2>6, KeepsAll, Unchecked DEF Goes, At
  <2> QED
    BY <2>2, <2>4, <2>5, <2>9, <2>10, <2>11 DEF IInv, Typed, Goes, Stepped
<1> QED
  <2> DEFINE p == CASE task[t].trigger = "retry" -> "reset"
                    [] task[t].trigger = "switch" -> "activate"
                    [] OTHER -> "reconcile"
  <2>1. /\ p \in {"reset", "activate", "reconcile"}
        /\ p = "reset" <=> task[t].trigger = "retry"
        /\ p = "activate" <=> task[t].trigger = "switch"
    BY DEF p
  <2>2. \/ task' = [task EXCEPT ![t] = Idle] /\ UNCHANGED claim
        \/ owner' = t /\ lapsed' = FALSE /\ Go(t, p)
    BY DEF Claim
  <2> HIDE DEF p
  <2> QED
    BY <1>3, <1>4, <2>1, <2>2

LEMMA FinishStep ==
    ASSUME IInv, NEW t \in Tasks, Finish(t)
    PROVE  IInv' /\ Kept
<1>1. /\ UNCHANGED <<status, due, quiescence, selected, tried, expired, writer, tries>>
      /\ UNCHANGED <<failures, lastFailure, refreshes, epoch, lastRefresh, inflight, answer>>
      /\ UNCHANGED <<decision, paused, startup, asked, outlived, upsets>>
      /\ task[t].pc = "finish" /\ owner' \in {owner, None}
    BY DEF Finish, durable, file, routes, work, counters, refresh, controls, history, At
<1>2. lapsed' \in BOOLEAN
    BY DEF Finish
<1>3. Stepped(t) /\ task'[t].pc = "idle" /\ task'[t].attempt = 0
    BY Idling DEF IInv, Finish
<1>4. TypeOK'
    BY <1>1, <1>2, <1>3 DEF IInv, Typed, TypeOK, Stepped
<1>5. Charged'
    BY <1>1, StillCharged DEF IInv
<1>6. \A u \in Tasks : task'[u] = task[u] \/ u = t
    BY <1>3 DEF Stepped
<1>7. Fence(t)'
    BY <1>3, NothingFenced
<1>8. Respects(t)
    BY <1>1, <1>3, <1>6, TasksAssumption DEF Respects, Out
<1>9. Fences'
    BY <1>3, <1>7, <1>8, OthersFenced
<1>10. Attempts'
  <2>1. UNCHANGED <<lastRefresh, inflight, answer, outlived>>
    BY <1>1
  <2> QED
    BY <1>3, <2>1, AttemptsStand
<1>11. Kept
    BY <1>1, <1>3, <1>6, KeepsAll, Unchecked DEF At
<1> QED
    BY <1>3, <1>4, <1>5, <1>9, <1>10, <1>11 DEF IInv, Typed, Stepped

LEMMA ResumeStep ==
    ASSUME IInv, NEW t \in Tasks, Resume(t)
    PROVE  IInv' /\ Kept
<1> DEFINE r == [Idle EXCEPT !.pc = "noticed", !.trigger = "resume"]
<1>1. r \in TaskStates /\ r.pc = "noticed" /\ r.attempt = 0 /\ r.trigger # "switch"
    BY IdleState, ZenonT(60) DEF TaskStates, Steps, Triggers
<1>2. task' = [task EXCEPT ![t] = r]
    BY DEF Resume
<1> HIDE DEF r
<1>3. Stepped(t) /\ task'[t].pc = "noticed" /\ task'[t].attempt = 0
    BY <1>1, <1>2, Noticing DEF IInv
<1>4. /\ UNCHANGED <<status, due, quiescence, selected, tried, expired, writer, tries>>
      /\ UNCHANGED <<failures, lastFailure, refreshes, epoch, lastRefresh, inflight, answer>>
      /\ UNCHANGED <<decision, startup, asked, outlived>>
      /\ task[t].pc = "idle" /\ owner' = None
    BY DEF Resume, durable, file, routes, work, counters, refresh, history, At
<1>5. /\ paused' \in BOOLEAN /\ lapsed' \in BOOLEAN
      /\ upsets' \in [{"fault", "failure", "command"} -> Nat]
  <2>1. paused' = FALSE /\ lapsed' = FALSE /\ (upsets' = upsets \/ Upset("command"))
    BY DEF Resume
  <2>2. upsets \in [{"fault", "failure", "command"} -> Nat]
    BY DEF IInv, Typed, TypeOK
  <2>3. ASSUME Upset("command") PROVE upsets' \in [{"fault", "failure", "command"} -> Nat]
    BY <2>2, <2>3 DEF Upset
  <2> QED
    BY <2>1, <2>2, <2>3
<1>6. TypeOK'
    BY <1>3, <1>4, <1>5 DEF IInv, Typed, TypeOK, Stepped
<1>7. Charged'
    BY <1>4, StillCharged DEF IInv
<1>8. \A u \in Tasks : task'[u] = task[u] \/ u = t
    BY <1>3 DEF Stepped
<1>9. Fence(t)'
    BY <1>3, NothingFenced
<1>10. Respects(t)
    BY <1>3, <1>4, <1>8, TasksAssumption DEF Respects, Out
<1>11. Fences'
    BY <1>3, <1>9, <1>10, OthersFenced
<1>12. Attempts'
  <2>1. UNCHANGED <<lastRefresh, inflight, answer, outlived>>
    BY <1>4
  <2> QED
    BY <1>3, <2>1, AttemptsStand
<1>13. Kept
    BY <1>3, <1>4, <1>8, KeepsAll, Unchecked DEF At
<1> QED
    BY <1>3, <1>6, <1>7, <1>11, <1>12, <1>13 DEF IInv, Typed, Stepped

\* A step of the surroundings: no task moves, and nobody gains the claim.
LEMMA OutsideStep ==
    ASSUME IInv, TypeOK', Charged',
           UNCHANGED <<task, selected, lastRefresh, inflight, answer, outlived>>,
           quiescence' = "recovery_exhausted" => quiescence = "recovery_exhausted",
           \A u \in Tasks : owner' = u => owner = u /\ paused' = paused
    PROVE  IInv' /\ Kept
<1>1. Carries'
    BY DEF IInv, Typed, Carries, Fits, Kinds, Decisions, Acts, RefreshIds
<1>2. ASSUME NEW t \in Tasks PROVE Fence(t)' /\ Attempt(t)'
  <2>1. Fence(t) /\ Attempt(t)
    BY DEF IInv, Fences, Attempts
  <2>2. Fence(t)'
    BY <2>1 DEF Fence, Unfenced, Out
  <2>3. Attempt(t)'
    BY <2>1 DEF Attempt, Out
  <2> QED
    BY <2>2, <2>3
<1>3. Kept
    BY Diagonal DEF Kept, At
<1> QED
    BY <1>1, <1>2, <1>3 DEF IInv, Typed, Fences, Attempts

LEMMA EnvironmentStep ==
    ASSUME IInv, Environment
    PROVE  IInv' /\ Kept
<1>1. CASE Pause
  <2>1. /\ UNCHANGED <<status, due, quiescence, selected, tried, expired, writer, tries>>
        /\ UNCHANGED <<failures, lastFailure, refreshes, epoch, lastRefresh, inflight, answer>>
        /\ UNCHANGED <<decision, startup, task, asked, outlived>> /\ owner' = None
    BY <1>1 DEF Pause, durable, file, routes, work, counters, refresh, history
  <2>2. paused' \in BOOLEAN /\ lapsed' \in BOOLEAN
    BY <1>1 DEF Pause
  <2>3. upsets' \in [{"fault", "failure", "command"} -> Nat]
    BY <1>1 DEF Pause, Upset, IInv, Typed, TypeOK
  <2>4. TypeOK'
    BY <2>1, <2>2, <2>3 DEF IInv, Typed, TypeOK
  <2>5. Charged'
    BY <2>1, StillCharged DEF IInv
  <2>6. \A u \in Tasks : owner' # u
    BY <2>1, TasksAssumption
  <2> QED
    BY <2>1, <2>4, <2>5, <2>6, OutsideStep
<1>2. CASE Dispatch
  <2>1. /\ UNCHANGED <<due, quiescence, selected, tried, expired>>
        /\ UNCHANGED <<failures, lastFailure, refreshes, epoch, lastRefresh, inflight, answer>>
        /\ UNCHANGED <<decision, owner, lapsed, paused, startup, task, asked, outlived, upsets>>
        /\ status' = "downloading" /\ writer' = "live" /\ tries' \in 0..MaxTries
    BY <1>2, LimitsAssumption DEF Dispatch, routes, counters, refresh, claim, controls, history,
                                  IInv, Typed, TypeOK
  <2>2. TypeOK'
    BY <2>1 DEF IInv, Typed, TypeOK
  <2>3. Charged'
    BY <2>1, StillCharged DEF IInv
  <2> QED
    BY <2>1, <2>2, <2>3, OutsideStep
<1>3. CASE WriterEnds
  <2>1. /\ UNCHANGED <<status, due, quiescence, selected, tried, expired, tries>>
        /\ UNCHANGED <<failures, lastFailure, refreshes, epoch, lastRefresh, inflight, answer>>
        /\ UNCHANGED <<decision, owner, lapsed, paused, startup, task, asked, outlived>>
        /\ writer' \in Kinds /\ upsets' \in [{"fault", "failure", "command"} -> Nat]
    BY <1>3, LimitsAssumption
    DEF WriterEnds, Upset, file, routes, counters, refresh, claim, controls, history, IInv, Typed,
        TypeOK
  <2>2. TypeOK'
    BY <2>1 DEF IInv, Typed, TypeOK
  <2>3. Charged'
    BY <2>1, StillCharged DEF IInv
  <2> QED
    BY <2>1, <2>2, <2>3, OutsideStep
<1>4. CASE Progress
  <2>1. /\ UNCHANGED <<status, due, selected, tried, expired, writer, tries>>
        /\ UNCHANGED <<lastFailure, lastRefresh, inflight, answer>>
        /\ UNCHANGED <<decision, owner, lapsed, paused, startup, task, outlived, upsets>>
        /\ failures' = 0 /\ refreshes' = 0 /\ asked' = {} /\ quiescence' = None
        /\ epoch' \in 0..MaxEpoch
    BY <1>4, LimitsAssumption
    DEF Progress, routes, work, refresh, claim, controls, IInv, Typed, TypeOK
  <2>2. TypeOK'
    BY <2>1, LimitsAssumption DEF IInv, Typed, TypeOK
  <2>3. Charged'
    BY <2>1, FS_EmptySet DEF Charged
  <2> QED
    BY <2>1, <2>2, <2>3, NoneAssumption, OutsideStep
<1>5. CASE Complete
  <2>1. /\ UNCHANGED <<due, selected, tried, expired, tries>>
        /\ UNCHANGED <<failures, lastFailure, refreshes, epoch, lastRefresh, inflight, answer>>
        /\ UNCHANGED <<decision, owner, lapsed, paused, startup, task, asked, outlived, upsets>>
        /\ status' = "completed" /\ writer' = "none" /\ quiescence' = None
    BY <1>5 DEF Complete, routes, counters, refresh, claim, controls, history
  <2>2. TypeOK'
    BY <2>1 DEF IInv, Typed, TypeOK
  <2>3. Charged'
    BY <2>1, StillCharged DEF IInv
  <2> QED
    BY <2>1, <2>2, <2>3, NoneAssumption, OutsideStep
<1>6. CASE Expire
  <2>1. /\ UNCHANGED <<status, due, quiescence, selected, tried, writer, tries>>
        /\ UNCHANGED <<failures, lastFailure, refreshes, epoch, lastRefresh, inflight, answer>>
        /\ UNCHANGED <<decision, owner, lapsed, paused, startup, task, asked, outlived>>
        /\ expired' \subseteq Candidates /\ upsets' \in [{"fault", "failure", "command"} -> Nat]
    BY <1>6 DEF Expire, Upset, file, work, counters, refresh, claim, controls, history, IInv,
                Typed, TypeOK
  <2>2. TypeOK'
    BY <2>1 DEF IInv, Typed, TypeOK
  <2>3. Charged'
    BY <2>1, StillCharged DEF IInv
  <2> QED
    BY <2>1, <2>2, <2>3, OutsideStep
<1>7. CASE BackoffElapses \/ Lapse
  <2>1. /\ UNCHANGED <<status, quiescence, selected, tried, expired, writer, tries>>
        /\ UNCHANGED <<failures, lastFailure, refreshes, epoch, lastRefresh, inflight, answer>>
        /\ UNCHANGED <<decision, owner, paused, startup, task, asked, outlived>>
    BY <1>7 DEF BackoffElapses, Lapse, durable, file, routes, work, counters, refresh, claim,
                controls, history
  <2>2. due' \in BOOLEAN /\ lapsed' \in BOOLEAN
    BY <1>7 DEF BackoffElapses, Lapse, durable, file, claim, IInv, Typed, TypeOK
  <2>3. upsets' \in [{"fault", "failure", "command"} -> Nat]
    <3>1. CASE upsets' = upsets
        BY <3>1 DEF IInv, Typed, TypeOK
    <3>2. CASE Upset("fault")
        BY <3>2 DEF Upset, IInv, Typed, TypeOK
    <3> QED
        BY <1>7, <3>1, <3>2 DEF BackoffElapses, Lapse
  <2>4. TypeOK'
    BY <2>1, <2>2, <2>3 DEF IInv, Typed, TypeOK
  <2>5. Charged'
    BY <2>1, StillCharged DEF IInv
  <2> QED
    BY <2>1, <2>4, <2>5, OutsideStep
<1>8. CASE Crash
  <2>1. /\ UNCHANGED <<status, due, quiescence, selected, tried, expired, writer, tries>>
        /\ UNCHANGED <<failures, lastFailure, refreshes, epoch, lastRefresh, inflight, answer>>
        /\ UNCHANGED <<decision, lapsed, paused, asked>>
        /\ owner' \in {None, Lost} /\ outlived' = {} /\ task' = [t \in Tasks |-> Idle]
    BY <1>8 DEF Crash, durable, file, routes, work, counters, refresh
  <2>2. startup' \in BOOLEAN /\ upsets' \in [{"fault", "failure", "command"} -> Nat]
    BY <1>8 DEF Crash, Upset, IInv, Typed, TypeOK
  <2>3. task' \in [Tasks -> TaskStates] /\ \A t \in Tasks : task'[t] = Idle
    BY <2>1, IdleState
  <2>4. TypeOK'
    BY <2>1, <2>2, <2>3 DEF IInv, Typed, TypeOK
  <2>5. Charged'
    BY <2>1, StillCharged DEF IInv
  <2>6. ASSUME NEW t \in Tasks PROVE Fits(task[t], task[t].pc)' /\ Fence(t)' /\ Attempt(t)'
    <3>1. Fits(task[t], task[t].pc)'
        BY <2>3, IdleState DEF Fits
    <3>2. Fence(t)'
        BY <2>1, TasksAssumption DEF Fence
    <3>3. Attempt(t)'
        BY <2>3, IdleState DEF Attempt, Out
    <3> QED
        BY <3>1, <3>2, <3>3
  <2>7. Kept
    <3>1. \A t \in Tasks : <<task[t].pc, task'[t].pc>> \notin Checks
        BY <2>3, IdleState DEF Checks
    <3> QED
        BY <2>1, <2>3, <3>1, IdleState DEF Kept, At
  <2> QED
    BY <2>4, <2>5, <2>6, <2>7 DEF IInv, Typed, Carries, Fences, Attempts
<1> QED
    BY <1>1, <1>2, <1>3, <1>4, <1>5, <1>6, <1>7, <1>8 DEF Environment

-----------------------------------------------------------------------------
(* The theorems *)

LEMMA StepKeeps ==
    ASSUME IInv, Next
    PROVE  IInv' /\ Kept
<1>1. ASSUME NEW t \in Tasks, Recovery(t)
      PROVE  IInv' /\ Kept
    BY <1>1, ClaimStep, FinishStep, ResetBudgetStep, ReconcileStep, PlanStep, HoldStep, LiftStep,
       RequeueStep, CountStep, DecideStep, ConcludeStep, ProceedStep, ReserveRefreshStep, MarkStep,
       ActivateStep, CommitStep, AttemptedStep, ParkStep, BindStep, LegacyStep, BeginStep,
       ReplayStep, AskStep, CallStep, AnswerStep, ToldStep, RenewStep, ReplaceStep, SettleStep
    DEF Recovery
<1>2. ASSUME NEW t \in Tasks, Notice(t) \/ Operator(t)
      PROVE  IInv' /\ Kept
    BY <1>2, NoticeStep, RetryStep, SwitchStep, ResumeStep DEF Operator
<1> QED
    BY <1>1, <1>2, StartupStep, EnvironmentStep DEF Next

LEMMA StutterKeeps ==
    ASSUME IInv, UNCHANGED vars
    PROVE  IInv'
<1>1. /\ UNCHANGED <<status, due, quiescence, selected, tried, expired, writer, tries>>
      /\ UNCHANGED <<failures, lastFailure, refreshes, epoch, lastRefresh, inflight, answer>>
      /\ UNCHANGED <<decision, owner, lapsed, paused, startup, task, asked, outlived, upsets>>
    BY DEF vars, durable, file, routes, work, counters, refresh, claim, controls, history
<1>2. TypeOK'
    BY <1>1 DEF IInv, Typed, TypeOK
<1>3. Charged'
    BY <1>1, StillCharged DEF IInv
<1> QED
    BY <1>1, <1>2, <1>3, OutsideStep

LEMMA InitIInv == Init => IInv
<1> SUFFICES ASSUME Init PROVE IInv
    OBVIOUS
<1>1. TypeOK
  <2>1. task \in [Tasks -> TaskStates]
    BY IdleState DEF Init
  <2>2. /\ answer \in [RefreshIds -> {"none", "started", "usable", "unusable", "failed"}]
        /\ upsets \in [{"fault", "failure", "command"} -> Nat]
    BY DEF Init
  <2>3. due \in BOOLEAN /\ lapsed \in BOOLEAN /\ paused \in BOOLEAN /\ startup \in BOOLEAN
    BY DEF Init
  <2>4. 0 \in 0..MaxTries /\ 0 \in 0..RefreshLimit /\ 0 \in 0..MaxEpoch
    BY LimitsAssumption
  <2> QED
    BY <2>1, <2>2, <2>3, <2>4, CandidatesAssumption DEF Init, TypeOK
<1>2. \A t \in Tasks : task[t] = Idle
    BY DEF Init
<1>3. Carries /\ Fences
    BY <1>2, IdleState, TasksAssumption DEF Init, Carries, Fences, Fence
<1>4. Attempts
    BY <1>2, IdleState DEF Attempts, Attempt, Out
<1>5. Charged
    BY FS_EmptySet DEF Init, Charged
<1> QED
    BY <1>1, <1>3, <1>4, <1>5 DEF IInv, Typed

\* What the holder of the claim relies on, the attempts and the charges hold for good.
THEOREM Inductive == Spec => []IInv
<1>1. IInv /\ [Next]_vars => IInv'
    BY StepKeeps, StutterKeeps
<1> QED
    BY InitIInv, <1>1, PTL DEF Spec

\* Every variable keeps its type: in particular a refresh is never charged beyond the budget,
\* and a step that applies a decision, an alternate or an attempt has one.
THEOREM TypeCorrect == Spec => []TypeOK
<1>1. IInv => TypeOK
    BY DEF IInv, Typed
<1> QED
    BY <1>1, Inductive, PTL

\* For any number of tasks, of claims that lapse under their owner and of restarts, the provider
\* is never asked twice at the same time for one decision on one reservation.
THEOREM SingleFlight == Spec => []OneCall
<1>1. IInv => OneCall
  <2> SUFFICES ASSUME IInv, NEW t \in Tasks \ outlived, NEW u \in Tasks \ outlived,
                      At(t, "calling"), At(u, "calling"), task[t].key = task[u].key
               PROVE  t = u
    BY DEF OneCall
  <2>1. Attempt(t) /\ Attempt(u) /\ Fits(task[t], "calling")
    BY DEF IInv, Attempts, Typed, Carries, At
  <2>2. task[t].attempt = task[u].attempt /\ task[t].attempt # 0
    BY <2>1, Ids DEF Attempt, At, Fits, Out
  <2> QED
    BY <2>1, <2>2 DEF Attempt
<1> QED
    BY <1>1, Inductive, PTL

\* Whatever the budget, the decisions asked on its charges do not exceed it.
THEOREM BudgetKept == Spec => []RefreshBudget
<1>1. IInv => RefreshBudget
  <2> SUFFICES ASSUME IInv PROVE RefreshBudget
    OBVIOUS
  <2>1. IsFiniteSet(asked) /\ refreshes \in Nat /\ refreshes <= RefreshLimit /\ RefreshLimit \in Nat
    BY LimitsAssumption DEF IInv, Charged, Typed, TypeOK
  <2>2. CASE refreshes = 0
    BY <2>1, <2>2, FS_EmptySet DEF IInv, Charged, RefreshBudget
  <2>3. CASE refreshes # 0
    <3>1. IsFiniteSet(asked \cup {lastRefresh})
        BY <2>1, FS_AddElement
    <3>2. Cardinality(asked) <= Cardinality(asked \cup {lastRefresh})
        BY <3>1, FS_Subset
    <3>3. Cardinality(asked \cup {lastRefresh}) <= refreshes
        BY <2>3 DEF IInv, Charged
    <3>4. Cardinality(asked) \in Nat /\ Cardinality(asked \cup {lastRefresh}) \in Nat
        BY <2>1, <3>1, FS_CardinalityType
    <3> QED
        BY <2>1, <3>2, <3>3, <3>4 DEF RefreshBudget
  <2> QED
    BY <2>2, <2>3
<1> QED
    BY <1>1, Inductive, PTL

\* A switch that commits leaves the candidate whose failure, or whose replacement, was decided:
\* whoever lost the claim in between changes nothing.
THEOREM SwitchesAsJudged == Spec => JudgedSwitch
<1>1. IInv /\ [Next]_vars =>
        [\A t \in Tasks : At(t, "commit") /\ task'[t].pc = "attempted"
           => selected = task[t].cand]_vars
    BY StepKeeps DEF Kept
<1> QED
    BY <1>1, Inductive, PTL DEF Spec, JudgedSwitch

\* During a pause neither the cycle nor a Retry passes a check of its claim, wherever the pause
\* finds it: it begins nothing that it had not leave for before.
THEOREM PauseAlwaysFences == Spec => PauseFences
<1>1. IInv /\ [Next]_vars =>
        [\A t \in Tasks : paused /\ task[t].trigger \in {"auto", "retry"}
           => <<task[t].pc, task'[t].pc>> \notin Checks]_vars
    BY StepKeeps DEF Kept
<1> QED
    BY <1>1, Inductive, PTL DEF Spec, PauseFences

\* Nothing but the operator's command, or the file being written again, lifts an exhaustion
\* found by the holder of the claim.
THEOREM ExhaustionRests == Spec => ExhaustedRests
<1>1. IInv /\ [Next]_vars =>
        [\A t \in Tasks : /\ Holds(t) /\ Automatic(t) /\ ~At(t, "lift")
                          /\ task'[t] # task[t] /\ quiescence = "recovery_exhausted"
           => quiescence' = "recovery_exhausted"]_vars
    BY StepKeeps DEF Kept
<1> QED
    BY <1>1, Inductive, PTL DEF Spec, ExhaustedRests

-----------------------------------------------------------------------------
(* No file that waits is overlooked: the safety WaitsEnd rests on *)

\* Whoever leaves a file waiting has ended its execution, and none rests for the operator.
Waits ==
    /\ Waiting => writer = "none"
    /\ status = "recovery_wait" => quiescence # "recovery_exhausted"

LEMMA WaitsTransition ==
    ASSUME Waits, NEW s, NEW q, NEW d, Transition(s, q, d),
           s = "recovery_wait" => q # "recovery_exhausted"
    PROVE  Waits'
BY DEF Transition, Waits, Waiting, file

LEMMA WaitsRecovery ==
    ASSUME Waits, NEW t \in Tasks, Recovery(t)
    PROVE  Waits'
<1>0. None # "recovery_exhausted"
    BY NoneAssumption
<1>1. CASE UNCHANGED <<file, writer>>
    BY <1>1 DEF file, Waits, Waiting
<1>2. CASE Hold(t)
    BY <1>2, WaitsTransition DEF Hold
<1>3. CASE Conclude(t)
    BY <1>3, WaitsTransition DEF Conclude
<1>4. CASE Mark(t)
    BY <1>4, WaitsTransition DEF Mark
<1>5. CASE Commit(t)
    BY <1>1, <1>5, WaitsTransition DEF Commit
<1>6. CASE Park(t)
    BY <1>1, <1>6, WaitsTransition DEF Park
<1>7. CASE ResetBudget(t) \/ Lift(t) \/ Requeue(t)
    BY <1>0, <1>7 DEF ResetBudget, Lift, Requeue, work, Waits, Waiting
<1>8. CASE \/ Claim(t) \/ Finish(t) \/ Reconcile(t) \/ Plan(t) \/ Count(t) \/ Decide(t)
           \/ Proceed(t) \/ ReserveRefresh(t) \/ Activate(t) \/ Attempted(t) \/ Bind(t)
           \/ Legacy(t)
    BY <1>1, <1>8 DEF Claim, Finish, Reconcile, Plan, Count, Decide, Proceed, ReserveRefresh,
                      Activate, Attempted, Bind, Legacy, durable, work
<1>9. CASE \/ Begin(t) \/ Replay(t) \/ Ask(t) \/ Call(t) \/ Answer(t) \/ Told(t)
           \/ Renew(t) \/ Replace(t) \/ Settle(t)
    BY <1>1, <1>9 DEF Begin, Replay, Ask, Call, Answer, Told, Renew, Replace, Settle, durable, work
<1> QED
    BY <1>2, <1>3, <1>4, <1>5, <1>6, <1>7, <1>8, <1>9 DEF Recovery

LEMMA WaitsStep == Waits /\ [Next]_vars => Waits'
<1> SUFFICES ASSUME Waits, [Next]_vars PROVE Waits'
    OBVIOUS
<1>0. None # "recovery_exhausted"
    BY NoneAssumption
<1>1. CASE UNCHANGED <<file, writer>>
    BY <1>1 DEF file, Waits, Waiting
<1>2. CASE UNCHANGED vars
    BY <1>1, <1>2 DEF vars, durable, work
<1>3. CASE Environment
    BY <1>0, <1>1, <1>3
    DEF Environment, Pause, Dispatch, WriterEnds, Progress, Complete, Expire, BackoffElapses,
        Lapse, Crash, durable, work, file, Waits, Waiting, Kinds
<1>4. CASE Startup
    BY <1>1, <1>4 DEF Startup, durable, work
<1>5. ASSUME NEW t \in Tasks, Notice(t) \/ Operator(t)
      PROVE  Waits'
    BY <1>1, <1>5 DEF Notice, Operator, Retry, Switch, Resume, durable, work
<1> QED
    BY <1>2, <1>3, <1>4, <1>5, WaitsRecovery DEF Next

\* A file that waits for a refresh or a backoff is on the next pass's list as soon as it is
\* due (the cycle's three queries), whatever crash, command or lapsed claim left it waiting:
\* all but a wait whose reason was cleared, the last case of Stranded.
NoneOverlooked ==
    Waiting /\ due /\ ~paused =>
        None \in Reasons \/ (status = "recovery_wait" /\ quiescence = None)

\* Whatever leaves a file waiting leaves it where a pass of reconcile_executions finds it.
THEOREM NeverOverlooked == Spec => []NoneOverlooked
<1>1. Init => Waits
    BY DEF Init, Waits, Waiting
<1>2. Typed /\ Waits => NoneOverlooked
    BY DEF Typed, TypeOK, Waits, NoneOverlooked, Waiting, Reasons
<1>3. IInv => Typed
    BY DEF IInv
<1> QED
    BY <1>1, <1>2, <1>3, WaitsStep, Inductive, PTL DEF Spec
=============================================================================
