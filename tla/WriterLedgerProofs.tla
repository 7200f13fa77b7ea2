-------------------------- MODULE WriterLedgerProofs --------------------------
(***************************************************************************)
(* ExecutionLifecycle implements the writers' ledger, and only a writer    *)
(* that has stopped delivers, for every set of attempts and tasks.         *)
(***************************************************************************)
EXTENDS ExecutionLifecycleProofs

-----------------------------------------------------------------------------
(* A step is about one attempt, or about none *)

\* The rows, the job and the tasks of every attempt but e are left alone.
About(e) ==
    /\ \A f \in Attempts \ {e} : /\ state'[f] = state[f]
                                 /\ authorized'[f] = authorized[f]
                                 /\ native'[f] = native[f]
    /\ \A u \in Tasks : \/ task'[u].on \in {e, NoAttempt}
                        \/ /\ task'[u].at = task[u].at /\ task'[u].on = task[u].on
                           /\ task'[u].seen = task[u].seen

\* What may happen to the authority and the job of e.
Lawful(e) == e \in Attempts =>
    /\ authorized'[e] => authorized[e] \/ (state[e] = "none" /\ state'[e] # "none")
    /\ authorized'[e] # authorized[e] => native'[e] = native[e]
    /\ state[e] # "none" => state'[e] # "none"
    /\ state[e] = "none" /\ state'[e] # "none" => authorized'[e] /\ ~InFlight(e)'
    /\ \/ native'[e] = native[e]
       \/ Live(e) /\ native'[e] # "none"
       \/ native[e] \notin {"none", "running"} /\ native'[e] = "gone"

AboutOne == \E e \in Attempts \cup {NoAttempt} : About(e) /\ Lawful(e)

\* Only the attempt a step is about can be overtaken by it.
LEMMA OthersKeep ==
    ASSUME IInv, Note, NEW e, About(e), NEW f \in Attempts \ {e}
    PROVE  f \in overtaken' <=> f \in overtaken
<1>1. f \in overtaken => f \in overtaken'
  BY NoteGrows DEF IInv
<1>2. ASSUME Overtaking(f)' PROVE f \in overtaken
  <2>1. f # NoAttempt
    BY NoAttemptAssumption
  <2>2. \A u \in Tasks : task'[u].on = f =>
          /\ task'[u].at = task[u].at /\ task'[u].on = task[u].on
          /\ task'[u].seen = task[u].seen
    BY <2>1 DEF About
  <2>3. InFlight(f)
    BY <1>2, <2>2 DEF Overtaking, InFlight
  <2>4. state'[f] = state[f] /\ authorized'[f] = authorized[f]
    BY DEF About
  <2>5. Overtaking(f)
    BY <1>2, <2>2, <2>3, <2>4 DEF Overtaking, HoldsStop
  <2> QED
    BY <2>5 DEF IInv, Ownership, Owner
<1>3. f \in overtaken' => f \in overtaken \/ Overtaking(f)'
  BY DEF Note
<1> QED
  BY <1>1, <1>2, <1>3

LEMMA LedgerStep ==
    ASSUME IInv, IInv', Note, NEW e \in Attempts \cup {NoAttempt}, About(e), Lawful(e)
    PROVE  Ledger!Next \/ UNCHANGED Ledger!vars
<1> DEFINE P == [f \in Attempts |-> Phase(f)]
           W == [f \in Attempts |-> Work(f)]
<1>1. \A f \in Attempts \ {e} : Phase(f)' = Phase(f) /\ Work(f)' = Work(f)
  BY OthersKeep DEF About, Phase, Work
<1>2. CASE e \notin Attempts
  <2>1. P' = P /\ W' = W
    BY <1>1, <1>2
  <2> QED
    BY <2>1 DEF Ledger!vars
<1>3. CASE e \in Attempts
  <2>1. /\ P' = [P EXCEPT ![e] = Phase(e)']
        /\ W' = [W EXCEPT ![e] = Work(e)']
        /\ P[e] = Phase(e) /\ W[e] = Work(e)
    BY <1>1, <1>3
  <2>2. /\ e \in overtaken => e \in overtaken'
        /\ Overtaking(e)' => e \in overtaken'
        /\ e \in overtaken' => e \in overtaken \/ Overtaking(e)'
    BY <1>3, NoteGrows DEF IInv, Note
  <2>3. CASE Phase(e)' = Phase(e) /\ Work(e)' = Work(e)
    BY <2>1, <2>3 DEF Ledger!vars
  <2>4. CASE e \in overtaken
    BY <1>3, <2>2, <2>3, <2>4 DEF Phase, Work
  <2>5. CASE e \notin overtaken /\ e \in overtaken'
    <3>1. InFlight(e)'
      BY <2>2, <2>5 DEF Overtaking
    <3>2. state'[e] # "none"
      BY <1>3, <3>1 DEF IInv, Ownership, Unused, InFlight
    <3>3. Phase(e) \in {"held", "released"}
      BY <1>3, <2>5, <3>1, <3>2 DEF Phase, Lawful
    <3>4. Phase(e)' = "lost" /\ Work(e)' = "none"
      BY <2>5 DEF Phase, Work
    <3> QED
      BY <1>3, <2>1, <3>3, <3>4 DEF Ledger!Next, Ledger!Lose
  <2>6. CASE e \notin overtaken' /\ authorized'[e] # authorized[e]
    <3>1. e \notin overtaken /\ Work(e)' = Work(e)
      BY <1>3, <2>2, <2>6 DEF Lawful, Work
    <3>2. CASE authorized'[e]
      <4>1. Phase(e) = "new" /\ Phase(e)' = "held"
        BY <1>3, <2>6, <3>1, <3>2 DEF Phase, Lawful
      <4> QED
        BY <1>3, <2>1, <3>1, <4>1 DEF Ledger!Next, Ledger!Take
    <3>3. CASE ~authorized'[e]
      <4>1. authorized[e]
        BY <1>3, <2>6, <3>3 DEF IInv, Typed, TypeOK
      <4>2. state'[e] # "none" /\ Phase(e) = "held" /\ Phase(e)' = "released"
        BY <1>3, <2>6, <3>1, <3>3, <4>1 DEF Phase, Lawful, IInv, Ownership, Unused
      <4>3. Work(e) # "running"
        BY <1>3, <2>6, <3>1, <3>3 DEF Work, IInv, Ownership, Owner, Live
      <4> QED
        BY <1>3, <2>1, <3>1, <4>2, <4>3 DEF Ledger!Next, Ledger!Release
    <3> QED
      BY <3>2, <3>3
  <2>7. CASE e \notin overtaken' /\ authorized'[e] = authorized[e]
    <3>1. e \notin overtaken /\ Phase(e)' = Phase(e)
      BY <1>3, <2>2, <2>7 DEF Lawful, Phase, IInv, Ownership, Unused
    <3>2. CASE Work(e)' # Work(e)
      <4>1. Live(e) /\ native'[e] # "none"
        BY <1>3, <2>7, <3>1, <3>2 DEF Lawful, Work
      <4>2. authorized[e] /\ Phase(e) = "held" /\ native[e] \in {"none", "running"}
        BY <1>3, <3>1, <4>1 DEF IInv, Ownership, Owner, NoJobYet, Live, Phase
      <4>3. CASE native'[e] = "running"
        <5>1. Work(e) = "none" /\ Work(e)' = "running"
          BY <2>7, <3>1, <3>2, <4>2, <4>3 DEF Work
        <5>2. \A f \in Attempts : Work(f) # "running"
          <6>1. \A f \in Attempts \ {e} : Work(f) = "running" => authorized[f]
            BY DEF Work, IInv, Ownership, Owner, Live
          <6>2. \A f \in Attempts \ {e} : ~authorized[f]
            BY <1>3, <4>2 DEF IInv, Ownership, Owner
          <6> QED
            BY <5>1, <6>1, <6>2
        <5> QED
          BY <1>3, <2>1, <3>1, <4>2, <5>1, <5>2 DEF Ledger!Next, Ledger!Begin
      <4>4. CASE native'[e] # "running"
        <5>1. Work(e)' = "ended" /\ Work(e) # "ended"
          BY <2>7, <3>2, <4>1, <4>4 DEF Work
        <5> QED
          BY <1>3, <2>1, <3>1, <4>2, <5>1 DEF Ledger!Next, Ledger!End
      <4> QED
        BY <4>3, <4>4
    <3> QED
      BY <2>3, <3>1, <3>2
  <2> QED
    BY <2>4, <2>5, <2>6, <2>7
<1> QED
  BY <1>2, <1>3

-----------------------------------------------------------------------------
(* Every step is about one attempt *)

\* One task moves on, and the rows of attempts and their jobs stay.
LEMMA OnlyTask ==
    ASSUME IInv, UNCHANGED <<state, authorized, native>>, NEW t \in Tasks, NEW k,
           k.on \in Attempts \cup {NoAttempt}, task' = [task EXCEPT ![t] = k]
    PROVE  AboutOne
<1>1. About(k.on)
  BY DEF About, IInv, Typed, TypeOK
<1>2. Lawful(k.on)
  BY DEF Lawful
<1> QED
  BY <1>1, <1>2 DEF AboutOne

LEMMA OnlyDone ==
    ASSUME IInv, UNCHANGED <<state, authorized, native>>, NEW t \in Tasks, Done(t)
    PROVE  AboutOne
BY OnlyTask DEF Done, Idle, At

LEMMA OnlyGo ==
    ASSUME IInv, UNCHANGED <<state, authorized, native>>, NEW t \in Tasks, NEW step, Go(t, step)
    PROVE  AboutOne
<1>1. [task[t] EXCEPT !.at = step].on \in Attempts \cup {NoAttempt}
  BY TaskTyped DEF IInv, Holds, TaskType
<1> QED
  BY <1>1, OnlyTask DEF Go, IInv, Typed, TypeOK

LEMMA OnlyGoOn ==
    ASSUME IInv, UNCHANGED <<state, authorized, native>>, NEW t \in Tasks, NEW step,
           NEW e \in Attempts \cup {NoAttempt}, GoOn(t, step, e)
    PROVE  AboutOne
BY OnlyTask DEF GoOn, At

LEMMA OnlySees ==
    ASSUME IInv, UNCHANGED <<state, authorized, native>>, NEW t \in Tasks, NEW step,
           NEW e \in Attempts \cup {NoAttempt}, NEW s, Sees(t, step, e, s)
    PROVE  AboutOne
BY OnlyTask DEF Sees, At

LEMMA OnlyRecord ==
    ASSUME IInv, UNCHANGED <<authorized, native>>, NEW t \in Tasks, NEW next,
           task[t].at \in Recording, Record(t, next), next.on \in {task[t].on, NoAttempt}
    PROVE  AboutOne
<1> DEFINE e == task[t].on
<1>1. e \in Attempts /\ state[e] # "none" /\ task[t].seen \in Reported
  BY TaskTyped DEF IInv, Ownership, Unused, Holds, StepOK, Unbound, Recording
<1>2. /\ \A f \in Attempts \ {e} : state'[f] = state[f]
      /\ state'[e] \in {state[e]} \cup Reported
  BY <1>1 DEF Record, IInv, Typed, TypeOK
<1>3. /\ task'[t] = next
      /\ \A u \in Tasks \ {t} : /\ task'[u].at = task[u].at /\ task'[u].on = task[u].on
                                /\ task'[u].seen = task[u].seen
  <2>1. \A u \in Tasks : task[u] \in TaskType
    BY DEF IInv, Typed, TypeOK
  <2>2. CASE Accepts(e, task[t].seen)
    <3>1. task' = [u \in Tasks |->
                    CASE u = t -> next
                      [] u # t /\ task[u].on = e -> [task[u] EXCEPT !.fresh = FALSE]
                      [] OTHER -> task[u]]
      BY <2>2 DEF Record
    <3> QED
      BY <2>1, <3>1 DEF TaskType
  <2>3. CASE ~Accepts(e, task[t].seen)
    BY <2>3 DEF Record, IInv, Typed, TypeOK
  <2> QED
    BY <2>2, <2>3
<1>4. About(e)
  BY <1>2, <1>3 DEF About
<1>5. Lawful(e)
  BY <1>1, <1>2 DEF Lawful, Reported, Stopped
<1> QED
  BY <1>1, <1>4, <1>5 DEF AboutOne

LEMMA AboutLooks ==
    ASSUME IInv, NEW t \in Tasks,
           \/ CheckStart(t) \/ Converge(t) \/ Decide(t) \/ ConvergeControl(t) \/ Retire(t)
           \/ Reconcile(t) \/ Verify(t) \/ Accept(t) \/ PassDone(t)
           \/ \E e \in Attempts : Pass(t, e)
    PROVE  AboutOne
<1>1. task[t].on \in Attempts \cup {NoAttempt} /\ current \in Attempts \cup {NoAttempt}
  BY DEF IInv, Typed, TypeOK, TaskType
<1>2. CASE CheckStart(t) \/ Converge(t) \/ Decide(t)
  BY <1>1, <1>2, OnlyDone, OnlyGo, OnlyGoOn, OnlySees DEF CheckStart, Converge, Decide, row
<1>3. CASE ConvergeControl(t) \/ Retire(t)
  BY <1>1, <1>3, OnlyDone, OnlyGo, OnlyGoOn, OnlySees DEF ConvergeControl, Retire, row
<1>4. CASE Reconcile(t)
  BY <1>1, <1>4, OnlyDone, OnlyGo, OnlyGoOn, OnlySees DEF Reconcile, row
<1>5. CASE Verify(t) \/ Accept(t) \/ PassDone(t)
  BY <1>1, <1>5, OnlyDone, OnlyGo, OnlyGoOn, OnlySees DEF Verify, Accept, PassDone, row
<1>6. ASSUME NEW e \in Attempts, Pass(t, e) PROVE AboutOne
  BY <1>6, OnlyDone, OnlyGo, OnlyGoOn, OnlySees DEF Pass, row
<1> QED
  BY <1>2, <1>3, <1>4, <1>5, <1>6

LEMMA AboutControls ==
    ASSUME IInv, NEW t \in Tasks,
           Pause(t) \/ Resume(t) \/ Retry(t) \/ Cancel(t) \/ Delete(t) \/ Commit(t) \/ Reject(t)
    PROVE  AboutOne
<1>1. task[t].on \in Attempts \cup {NoAttempt} /\ current \in Attempts \cup {NoAttempt}
  BY DEF IInv, Typed, TypeOK, TaskType
<1>2. UNCHANGED <<state, authorized, native>>
  BY DEF Pause, Resume, Retry, Cancel, Delete, Commit, Reject, row
<1>3. CASE Pause(t) \/ Resume(t) \/ Retry(t)
  BY <1>1, <1>2, <1>3, OnlyDone, OnlyGo, OnlyGoOn, OnlySees DEF Pause, Resume, Retry
<1>4. CASE Cancel(t) \/ Delete(t)
  BY <1>2, <1>4, OnlyDone, OnlyGo, OnlyGoOn, OnlySees DEF Cancel, Delete
<1>5. CASE Commit(t) \/ Reject(t)
  BY <1>1, <1>2, <1>5, OnlyDone, OnlyGo, OnlyGoOn, OnlySees DEF Commit, Reject
<1> QED
  BY <1>3, <1>4, <1>5

LEMMA AboutRecords ==
    ASSUME IInv, NEW t \in Tasks,
           \/ RecordStart(t) \/ RecordObserved(t) \/ RecordFence(t) \/ RecordConverged(t)
           \/ RecordRetired(t) \/ RecordLost(t) \/ RecordReconciled(t)
           \/ RecordCleanup(t) \/ RecordReclaimed(t)
    PROVE  AboutOne
<1>1. Idle.on = NoAttempt /\ \A step : Then(t, step).on = task[t].on
  BY DEF Idle, At, Then
<1>2. CASE RecordStart(t) \/ RecordConverged(t) \/ RecordLost(t)
  BY <1>1, <1>2, OnlyRecord DEF RecordStart, RecordConverged, RecordLost, Recording
<1>3. CASE RecordObserved(t)
  <2>1. task[t].at \in Recording /\ UNCHANGED <<authorized, native>>
    BY <1>3 DEF RecordObserved, Recording
  <2>2. CASE Record(t, Then(t, "decide"))
    BY <1>1, <2>1, <2>2, OnlyRecord
  <2>3. CASE Done(t) /\ UNCHANGED <<state, status>>
    BY <2>1, <2>3, OnlyDone
  <2>4. ASSUME NEW s, task' = [task EXCEPT ![t] = At("again", task[t].on, s, TRUE)],
               UNCHANGED <<state, status>>
        PROVE  AboutOne
    <3>1. At("again", task[t].on, s, TRUE).on \in Attempts \cup {NoAttempt}
      BY TaskTyped DEF At, IInv, Holds, TaskType
    <3> QED
      BY <2>1, <2>4, <3>1, OnlyTask
  <2> QED
    BY <1>3, <2>2, <2>3, <2>4 DEF RecordObserved
<1>4. CASE RecordFence(t)
  BY <1>1, <1>4, OnlyRecord DEF RecordFence, Recording, At
<1>5. CASE RecordRetired(t) \/ RecordReclaimed(t)
  BY <1>1, <1>5, OnlyRecord DEF RecordRetired, RecordReclaimed, Recording
<1>6. CASE RecordReconciled(t)
  <2> DEFINE next == CASE task[t].seen = "succeeded" -> Then(t, "decide")
                       [] task[t].seen \in Stopped \ {"succeeded"} -> Then(t, "requeue")
                       [] OTHER -> Idle
  <2>1. next.on \in {task[t].on, NoAttempt}
    BY <1>1
  <2> QED
    BY <1>6, <2>1, OnlyRecord DEF RecordReconciled, Recording
<1>7. CASE RecordCleanup(t)
  BY <1>1, <1>7, OnlyRecord DEF RecordCleanup, Recording
<1> QED
  BY <1>2, <1>3, <1>4, <1>5, <1>6, <1>7

LEMMA AboutCancels ==
    ASSUME IInv, NEW t \in Tasks, Fence(t) \/ StopWriter(t) \/ Reclaim(t)
    PROVE  AboutOne
<1> DEFINE e == task[t].on
<1>1. e \in Attempts /\ UNCHANGED row
  BY TaskTyped DEF Fence, StopWriter, Reclaim, IInv, Holds, StepOK, Unbound
<1>2. ASSUME NEW r, CancelNative(e, r), NEW step, Sees(t, step, e, r) PROVE AboutOne
  <2>1. native' = native \/ (native[e] = "running" /\ native' = [native EXCEPT ![e] = "gone"])
    BY <1>2 DEF CancelNative
  <2>2. /\ \A f \in Attempts \ {e} : native'[f] = native[f]
        /\ native'[e] = native[e] \/ (native[e] = "running" /\ native'[e] = "gone")
    BY <1>1, <2>1 DEF IInv, Typed, TypeOK
  <2>3. About(e)
    BY <1>1, <1>2, <2>2 DEF About, Sees, At, row, IInv, Typed, TypeOK
  <2>4. Lawful(e)
    BY <1>1, <2>2 DEF Lawful, Live, row
  <2> QED
    BY <1>1, <2>3, <2>4 DEF AboutOne
<1>3. CASE Done(t) /\ native' = native
  BY <1>1, <1>3, OnlyDone DEF row
<1> QED
  BY <1>2, <1>3 DEF Fence, StopWriter, Reclaim

LEMMA AboutLaunch == ASSUME IInv, NEW t \in Tasks, Launch(t) PROVE AboutOne
<1> DEFINE e == task[t].on
<1>1. /\ e \in Attempts /\ UNCHANGED row /\ native[e] = "none" /\ Live(e)
  BY TaskTyped DEF Launch, IInv, Holds, StepOK, Unbound, Ownership, NoJobYet, Live
<1>2. \/ native' = native
      \/ \E s \in {"running", "failed"} : native' = [native EXCEPT ![e] = s]
  BY DEF Launch
<1>3. /\ \A f \in Attempts \ {e} : native'[f] = native[f]
      /\ native'[e] = native[e] \/ native'[e] # "none"
  BY <1>1, <1>2 DEF IInv, Typed, TypeOK
<1>4. \E s : Sees(t, "answered", e, s)
  BY DEF Launch
<1>5. About(e)
  BY <1>1, <1>3, <1>4 DEF About, Sees, At, row, IInv, Typed, TypeOK
<1>6. Lawful(e)
  BY <1>1, <1>3 DEF Lawful, row
<1> QED
  BY <1>1, <1>5, <1>6 DEF AboutOne

LEMMA AboutPrepare ==
    ASSUME IInv, NEW t \in Tasks, NEW e \in Attempts, Prepare(t, e)
    PROVE  AboutOne
<1>1. /\ \A f \in Attempts \ {e} : state'[f] = state[f] /\ authorized'[f] = authorized[f]
      /\ state'[e] = "prepared" /\ state[e] = "none" /\ authorized'[e] /\ native' = native
  BY DEF Prepare, IInv, Typed, TypeOK
<1>2. task' = [task EXCEPT ![t] = At("starting", e, "none", FALSE)]
  BY DEF Prepare, GoOn
<1>3. About(e)
  BY <1>1, <1>2 DEF About, At, IInv, Typed, TypeOK
<1>4. \A u \in Tasks : task[u].on # e
  BY <1>1 DEF IInv, Ownership, Unused
<1>5. ~InFlight(e)'
  BY <1>2, <1>4 DEF InFlight, At, IInv, Typed, TypeOK
<1>6. Lawful(e)
  BY <1>1, <1>5 DEF Lawful
<1> QED
  BY <1>3, <1>6 DEF AboutOne

LEMMA AboutReleases ==
    ASSUME IInv, NEW t \in Tasks, Detach(t) \/ Requeue(t) \/ Complete(t)
    PROVE  AboutOne
<1>1. UNCHANGED <<state, native>> /\ task' = [task EXCEPT ![t] = Idle] /\ Idle.on = NoAttempt
  BY DEF Detach, Requeue, Complete, Done, Idle, At
<1>2. ASSUME NEW e \in Attempts \cup {NoAttempt},
             \A f \in Attempts : authorized'[f] = (authorized[f] /\ f # e)
      PROVE  AboutOne
  <2>1. About(e)
    BY <1>1, <1>2 DEF About, IInv, Typed, TypeOK
  <2>2. Lawful(e)
    BY <1>1, <1>2 DEF Lawful
  <2> QED
    BY <2>1, <2>2 DEF AboutOne
<1>3. CASE authorized' = authorized
  BY <1>1, <1>3, OnlyTask
<1>4. CASE Detach(t) \/ Complete(t)
  <2>1. task[t].on \in Attempts
    BY <1>4, TaskTyped DEF Detach, Complete, IInv, Holds, StepOK, Unbound
  <2>2. authorized' = authorized \/ authorized' = [authorized EXCEPT ![task[t].on] = FALSE]
    BY <1>4 DEF Detach, Complete
  <2>3. CASE authorized' = [authorized EXCEPT ![task[t].on] = FALSE]
    <3>1. \A f \in Attempts : authorized[f] \in BOOLEAN
      BY DEF IInv, Typed, TypeOK
    <3>2. \A f \in Attempts : authorized'[f] = (authorized[f] /\ f # task[t].on)
      BY <2>3, <3>1 DEF IInv, Typed, TypeOK
    <3> QED
      BY <1>2, <2>1, <3>2
  <2> QED
    BY <1>3, <2>2, <2>3
<1>5. CASE Requeue(t)
  BY <1>2, <1>3, <1>5 DEF Requeue, IInv, Typed, TypeOK
<1> QED
  BY <1>4, <1>5

LEMMA AboutOthers ==
    ASSUME IInv, Aggregate \/ (\E e \in Attempts : NativeStep(e)) \/ Restart
    PROVE  AboutOne
<1>1. CASE Aggregate \/ Restart
  <2>1. UNCHANGED <<state, authorized, native>> /\ Idle.on = NoAttempt
    BY <1>1 DEF Aggregate, Restart, row, Idle, At
  <2>2. About(NoAttempt) /\ Lawful(NoAttempt)
    BY <1>1, <2>1, NoAttemptAssumption DEF About, Lawful, Aggregate, Restart
  <2> QED
    BY <2>2 DEF AboutOne
<1>2. ASSUME NEW e \in Attempts, NativeStep(e) PROVE AboutOne
  <2>1. /\ \A f \in Attempts \ {e} : native'[f] = native[f]
        /\ \/ native[e] = "running" /\ native'[e] \in {"succeeded", "failed", "gone"}
           \/ native[e] \in {"succeeded", "failed"} /\ native'[e] = "gone"
    BY <1>2 DEF NativeStep, IInv, Typed, TypeOK
  <2>2. UNCHANGED row /\ task' = task
    BY <1>2 DEF NativeStep
  <2>3. About(e) /\ Lawful(e)
    BY <2>1, <2>2 DEF About, Lawful, row, Live
  <2> QED
    BY <2>3 DEF AboutOne
<1> QED
  BY <1>1, <1>2

LEMMA AboutCycle == ASSUME IInv, CyclePass \/ CycleObserve \/ Wake PROVE AboutOne
<1>1. CASE CyclePass
  BY <1>1, AboutLooks, CycleAssumption DEF CyclePass
<1>2. ASSUME NEW e \in Attempts, Observe(e) PROVE AboutOne
  <2>1. UNCHANGED <<state, authorized, native>>
    BY <1>2 DEF Observe, row
  <2>2. PICK s : task' = [task EXCEPT ![Cycle] = At("observed", e, s, TRUE)]
    BY <1>2 DEF Observe
  <2> QED
    BY <2>1, <2>2, OnlyTask, CycleAssumption DEF At
<1>3. CASE Wake
  BY <1>3, OnlyGoOn, CycleAssumption DEF Wake, row
<1> QED
  BY <1>1, <1>2, <1>3 DEF CycleObserve

LEMMA StepAboutOne == ASSUME IInv, Step PROVE AboutOne
<1>1. ASSUME NEW t \in Tasks, Continue(t) PROVE AboutOne
  BY <1>1, AboutLooks, AboutControls, AboutRecords, AboutCancels, AboutLaunch, AboutReleases
     DEF Continue
<1>2. ASSUME NEW t \in Tasks, Control(t) PROVE AboutOne
  BY <1>2, AboutControls DEF Control
<1>3. ASSUME NEW t \in Tasks, NEW e \in Attempts, Prepare(t, e) PROVE AboutOne
  BY <1>3, AboutPrepare
<1> QED
  BY <1>1, <1>2, <1>3, AboutCycle, AboutOthers DEF Step

-----------------------------------------------------------------------------
(* The refinement *)

LEMMA LedgerInit == Init => Ledger!Init
BY DEF Init, Ledger!Init, Phase, Work

LEMMA LedgerNext == IInv /\ IInv' /\ [Next]_vars => [Ledger!Next]_(Ledger!vars)
<1> SUFFICES ASSUME IInv, IInv', [Next]_vars PROVE Ledger!Next \/ UNCHANGED Ledger!vars
  OBVIOUS
<1>1. CASE UNCHANGED vars
  BY <1>1 DEF vars, Ledger!vars, Phase, Work
<1>2. CASE Next
  BY <1>2, StepAboutOne, LedgerStep DEF Next, AboutOne
<1> QED
  BY <1>1, <1>2

\* Whatever the tasks do, in whatever order, and however often the process
\* restarts, the rows keep the ledger of the writers: responsibility is taken
\* before a job begins and given up only when it has ended.
THEOREM KeepsLedger == Spec => ResponsibilityLedger
BY LedgerInit, LedgerNext, Inductive, PTL DEF Spec, ResponsibilityLedger, Ledger!Spec

-----------------------------------------------------------------------------
(* What a commit knows of the writer it delivers *)

\* A task that saw its writer succeed, or delivers on that word.
Vouches(k) ==
    k.on \in Attempts /\ (k.seen = "succeeded" \/ k.at \in {"verify", "accept", "commit"})

EndedWell == {"succeeded", "gone"}

Truthful == \A t \in Tasks : Vouches(task[t]) => native[task[t].on] \in EndedWell

\* Whoever vouches for a writer after a step has seen it end well just now, or did before.
Honest ==
    \A u \in Tasks : Vouches(task'[u]) =>
        \/ Vouches(task[u]) /\ task'[u].on = task[u].on
        \/ native'[task'[u].on] \in EndedWell

LEMMA EndedStays ==
    ASSUME IInv, AboutOne, NEW e \in Attempts, native[e] \in EndedWell
    PROVE  native'[e] \in EndedWell
<1>1. ~Live(e)
  BY DEF IInv, Ownership, NoJobYet, Live, EndedWell
<1> QED
  BY <1>1 DEF AboutOne, About, Lawful, EndedWell

LEMMA HonestKeeps ==
    ASSUME IInv, Truthful, AboutOne, Honest
    PROVE  Truthful'
<1> SUFFICES ASSUME NEW u \in Tasks, Vouches(task'[u]) PROVE native'[task'[u].on] \in EndedWell
  BY DEF Truthful
<1>1. CASE Vouches(task[u]) /\ task'[u].on = task[u].on
  BY <1>1, EndedStays DEF Truthful, Vouches
<1> QED
  BY <1>1 DEF Honest

LEMMA HonestPut ==
    ASSUME IInv, NEW t \in Tasks, NEW k, task' = [task EXCEPT ![t] = k],
           Vouches(k) => \/ Vouches(task[t]) /\ k.on = task[t].on
                         \/ native'[k.on] \in EndedWell
    PROVE  Honest
BY DEF Honest, IInv, Typed, TypeOK

LEMMA HonestDone == ASSUME IInv, NEW t \in Tasks, Done(t) PROVE Honest
BY HonestPut DEF Done, Idle, At, Vouches

LEMMA HonestGo ==
    ASSUME IInv, NEW t \in Tasks, NEW step, Go(t, step),
           step \in {"verify", "accept", "commit"} => Vouches(task[t])
    PROVE  Honest
<1>1. task[t] \in TaskType
  BY DEF IInv, Typed, TypeOK
<1>2. /\ [task[t] EXCEPT !.at = step].on = task[t].on
      /\ [task[t] EXCEPT !.at = step].seen = task[t].seen
      /\ [task[t] EXCEPT !.at = step].at = step
  BY <1>1 DEF TaskType
<1>3. task' = [task EXCEPT ![t] = [task[t] EXCEPT !.at = step]]
  BY DEF Go, IInv, Typed, TypeOK
<1> QED
  BY <1>2, <1>3, HonestPut DEF Vouches

LEMMA HonestGoOn ==
    ASSUME IInv, NEW t \in Tasks, NEW step, NEW e, GoOn(t, step, e),
           step \in {"verify", "accept", "commit"} => Vouches(task[t]) /\ e = task[t].on
    PROVE  Honest
BY HonestPut DEF GoOn, At, Vouches

LEMMA HonestSees ==
    ASSUME IInv, NEW t \in Tasks, NEW step \in Steps \ {"verify", "accept", "commit"},
           NEW e, NEW s, Sees(t, step, e, s),
           s = "succeeded" => native'[e] \in EndedWell
    PROVE  Honest
BY HonestPut DEF Sees, At, Vouches

LEMMA SeenEndedWell == ASSUME NEW e, NEW s \in Seen(e), s = "succeeded"
                       PROVE  native[e] \in EndedWell
BY DEF Seen, Truth, EndedWell

LEMMA HonestRecord ==
    ASSUME IInv, NEW t \in Tasks, NEW next, Record(t, next),
           Vouches(next) => Vouches(task[t]) /\ next.on = task[t].on
    PROVE  Honest
<1>1. \A u \in Tasks : task[u] \in TaskType
  BY DEF IInv, Typed, TypeOK
<1>2. CASE Accepts(task[t].on, task[t].seen)
  <2>1. task' = [u \in Tasks |->
                  CASE u = t -> next
                    [] u # t /\ task[u].on = task[t].on -> [task[u] EXCEPT !.fresh = FALSE]
                    [] OTHER -> task[u]]
    BY <1>2 DEF Record
  <2>2. /\ task'[t] = next
        /\ \A u \in Tasks \ {t} : /\ task'[u].at = task[u].at /\ task'[u].on = task[u].on
                                  /\ task'[u].seen = task[u].seen
    BY <1>1, <2>1 DEF TaskType
  <2> QED
    BY <2>2 DEF Honest, Vouches
<1>3. CASE ~Accepts(task[t].on, task[t].seen)
  BY <1>3, HonestPut DEF Record
<1> QED
  BY <1>2, <1>3

LEMMA HonestLooks ==
    ASSUME IInv, NEW t \in Tasks,
           \/ CheckStart(t) \/ Converge(t) \/ Decide(t) \/ ConvergeControl(t) \/ Retire(t)
           \/ Reconcile(t) \/ Verify(t) \/ Accept(t) \/ PassDone(t)
           \/ \E e \in Attempts : Pass(t, e)
    PROVE  Honest
<1> USE DEF Steps
<1>1. native' = native /\ (task[t].at \notin Unbound => task[t].on \in Attempts)
  BY TaskTyped DEF CheckStart, Converge, Decide, ConvergeControl, Retire, Reconcile, Verify, Accept,
                   PassDone, Pass, IInv, Holds, StepOK
<1>2. CASE CheckStart(t)
  BY <1>2, HonestGo, HonestSees DEF CheckStart
<1>3. CASE Converge(t)
  BY <1>3, HonestDone, HonestGo, HonestGoOn DEF Converge
<1>4. CASE Decide(t)
  BY <1>1, <1>4, HonestDone, HonestGoOn DEF Decide, Vouches, Unbound
<1>5. CASE ConvergeControl(t)
  <2>1. CASE Done(t)
    BY <2>1, HonestDone
  <2>2. ASSUME NEW s \in Seen(task[t].on), NEW step \in {"retire", "lost", "converged"},
               Sees(t, step, task[t].on, s)
        PROVE  Honest
    BY <1>1, <2>2, HonestSees, SeenEndedWell
  <2> QED
    BY <1>5, <2>1, <2>2 DEF ConvergeControl
<1>6. CASE Retire(t)
  <2>1. CASE Done(t)
    BY <2>1, HonestDone
  <2>2. ASSUME NEW s \in Seen(task[t].on), NEW step \in {"converged", "retired", "retiring"},
               Sees(t, step, task[t].on, s)
        PROVE  Honest
    BY <1>1, <2>2, HonestSees, SeenEndedWell
  <2> QED
    BY <1>6, <2>1, <2>2 DEF Retire
<1>7. CASE Reconcile(t)
  <2>1. CASE Done(t)
    BY <2>1, HonestDone
  <2>2. ASSUME NEW e, GoOn(t, "converge", e) \/ GoOn(t, "requeue", e) PROVE Honest
    BY <2>2, HonestGoOn
  <2>3. ASSUME NEW s \in Seen(current),
               NEW step \in {"requeue", "lost", "retire", "converged", "reconciled"},
               Sees(t, step, current, s)
        PROVE  Honest
    BY <1>1, <2>3, HonestSees, SeenEndedWell
  <2> QED
    BY <1>7, <2>1, <2>2, <2>3 DEF Reconcile
<1>8. CASE Verify(t) \/ Accept(t) \/ PassDone(t)
  BY <1>1, <1>8, HonestDone, HonestGo DEF Verify, Accept, PassDone, Vouches, Unbound
<1>9. ASSUME NEW e \in Attempts, Pass(t, e) PROVE Honest
  BY <1>1, <1>9, HonestSees, SeenEndedWell DEF Pass
<1> QED
  BY <1>2, <1>3, <1>4, <1>5, <1>6, <1>7, <1>8, <1>9

LEMMA HonestControls ==
    ASSUME IInv, NEW t \in Tasks, 
           \/ Pause(t) \/ Resume(t) \/ Retry(t) \/ Cancel(t) \/ Delete(t) \/ Commit(t) \/ Reject(t)
           \/ Detach(t) \/ Requeue(t) \/ Complete(t)
    PROVE  Honest
BY HonestDone, HonestGo, HonestGoOn
   DEF Pause, Resume, Retry, Cancel, Delete, Commit, Reject, Detach, Requeue, Complete

LEMMA HonestRecords ==
    ASSUME IInv, NEW t \in Tasks,
           \/ RecordStart(t) \/ RecordObserved(t) \/ RecordFence(t) \/ RecordConverged(t)
           \/ RecordRetired(t) \/ RecordLost(t) \/ RecordReconciled(t)
           \/ RecordCleanup(t) \/ RecordReclaimed(t)
    PROVE  Honest
<1>1. ~Vouches(Idle) /\ ~Vouches(At("reconcile", task[t].on, "none", FALSE))
  BY DEF Vouches, Idle, At
<1>2. \A step \in {"decide", "detach", "release", "requeue", "complete", "reclaim"} :
         /\ Then(t, step).on = task[t].on
         /\ Vouches(Then(t, step)) => Vouches(task[t])
  BY DEF Vouches, At, Then
<1>3. CASE RecordStart(t) \/ RecordConverged(t) \/ RecordLost(t)
  BY <1>1, <1>2, <1>3, HonestRecord DEF RecordStart, RecordConverged, RecordLost
<1>4. CASE RecordObserved(t)
  <2>1. ASSUME NEW s \in Seen(task[t].on),
               task' = [task EXCEPT ![t] = At("again", task[t].on, s, TRUE)], native' = native
        PROVE  Honest
    BY <2>1, HonestPut, SeenEndedWell DEF At, Vouches
  <2> QED
    BY <1>2, <1>4, <2>1, HonestDone, HonestRecord DEF RecordObserved
<1>5. CASE RecordFence(t)
  BY <1>1, <1>5, HonestRecord DEF RecordFence
<1>6. CASE RecordRetired(t) \/ RecordReclaimed(t)
  BY <1>1, <1>2, <1>6, HonestRecord DEF RecordRetired, RecordReclaimed
<1>7. CASE RecordReconciled(t)
  <2> DEFINE next == CASE task[t].seen = "succeeded" -> Then(t, "decide")
                       [] task[t].seen \in Stopped \ {"succeeded"} -> Then(t, "requeue")
                       [] OTHER -> Idle
  <2>1. Vouches(next) => Vouches(task[t]) /\ next.on = task[t].on
    BY <1>1, <1>2
  <2>2. Record(t, next)
    BY <1>7 DEF RecordReconciled
  <2> HIDE DEF next
  <2> QED
    BY <2>1, <2>2, HonestRecord
<1>8. CASE RecordCleanup(t)
  BY <1>1, <1>2, <1>8, HonestRecord DEF RecordCleanup
<1> QED
  BY <1>3, <1>4, <1>5, <1>6, <1>7, <1>8

LEMMA HonestCancels ==
    ASSUME IInv, NEW t \in Tasks, Fence(t) \/ StopWriter(t) \/ Reclaim(t) \/ Launch(t)
    PROVE  Honest
<1> USE DEF Steps
<1>1. ASSUME NEW r, CancelNative(task[t].on, r),
             NEW step \in {"fenced", "retired", "reclaimed"}, Sees(t, step, task[t].on, r)
      PROVE  Honest
  <2>1. r = "succeeded" => native'[task[t].on] \in EndedWell
    BY <1>1 DEF CancelNative, Truth, EndedWell
  <2> QED
    BY <1>1, <2>1, HonestSees
<1>2. CASE Fence(t) \/ StopWriter(t) \/ Reclaim(t)
  BY <1>1, <1>2, HonestDone DEF Fence, StopWriter, Reclaim
<1>3. CASE Launch(t)
  BY <1>3, HonestSees DEF Launch
<1> QED
  BY <1>2, <1>3

LEMMA StepHonest == ASSUME IInv, Step PROVE Honest
<1>1. ASSUME NEW t \in Tasks, Continue(t) PROVE Honest
  BY <1>1, HonestLooks, HonestControls, HonestRecords, HonestCancels DEF Continue
<1>2. ASSUME NEW t \in Tasks, Control(t) PROVE Honest
  BY <1>2, HonestControls DEF Control
<1>3. ASSUME NEW t \in Tasks, NEW e \in Attempts, Prepare(t, e) PROVE Honest
  BY <1>3, HonestGoOn DEF Prepare
<1>4. CASE CyclePass \/ Wake
  BY <1>4, HonestLooks, HonestGoOn, CycleAssumption DEF CyclePass, Wake
<1>5. ASSUME NEW e \in Attempts, Observe(e) PROVE Honest
  <2>1. PICK s \in Seen(e) : task' = [task EXCEPT ![Cycle] = At("observed", e, s, TRUE)]
    BY <1>5 DEF Observe
  <2> QED
    BY <1>5, <2>1, HonestPut, SeenEndedWell, CycleAssumption DEF Observe, At, Vouches
<1>6. CASE Aggregate \/ (\E e \in Attempts : NativeStep(e)) \/ Restart
  BY <1>6 DEF Aggregate, NativeStep, Restart, Honest, Vouches, Idle, At
<1> QED
  BY <1>1, <1>2, <1>3, <1>4, <1>5, <1>6 DEF Step, CycleObserve

\* Whoever vouches for a writer tells the truth: its job has succeeded.
LEMMA AlwaysTruthful == Spec => []Truthful
<1>1. Init => Truthful
  BY NoAttemptAssumption DEF Init, Truthful, Vouches, Idle, At
<1>2. IInv /\ Truthful /\ [Next]_vars => Truthful'
  <2>1. CASE UNCHANGED vars
    BY <2>1 DEF vars, Truthful, Vouches
  <2>2. ASSUME IInv, Truthful, Next PROVE Truthful'
    BY <2>2, StepAboutOne, StepHonest, HonestKeeps DEF Next
  <2> QED
    BY <2>1, <2>2
<1> QED
  BY <1>1, <1>2, Inductive, PTL DEF Spec

\* A file is completed on the word of a writer whose job has succeeded, and
\* never on that of one that still writes or never ran.
THEOREM DeliversEnded == Spec => EndedWriterDelivers
<1>1. IInv /\ Truthful /\ [Next]_vars =>
        [\A t \in Tasks :
            task[t].at = "commit" /\ status # "completed" /\ status' = "completed"
                => native[task[t].on] \in {"succeeded", "gone"}]_vars
  BY TaskTyped DEF Truthful, Vouches, EndedWell, IInv, Holds, StepOK, Unbound
<1> QED
  BY <1>1, Inductive, AlwaysTruthful, PTL DEF Spec, EndedWriterDelivers
=============================================================================
