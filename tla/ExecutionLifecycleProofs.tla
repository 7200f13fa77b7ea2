---------------------- MODULE ExecutionLifecycleProofs ----------------------
(***************************************************************************)
(* ExecutionLifecycle for every set of attempts and tasks: its types, and  *)
(* that a writer whose start did not lose its race is never orphaned.      *)
(***************************************************************************)
EXTENDS ExecutionLifecycle, TLAPS

-----------------------------------------------------------------------------
(* The inductive invariant *)

\* Steps at which a task is about to record what it saw of its attempt.
Recording == {"answered", "observed", "result", "again", "decide", "fenced", "converged",
              "retired", "lost", "reconciled", "clean", "reclaimed"}

\* Steps at which a task need not name an attempt.
Unbound == {"idle", "pass", "reconcile", "resume", "requeue"}

Starting == {"starting", "submitting", "answered"}
Cleaning == {"clean", "reclaim", "reclaimed", "complete"}
Guarded  == {"observed", "result", "again"}

\* What a task stands at determines what it holds.
StepOK(k) == /\ k.at \notin Unbound => k.on \in Attempts
             /\ k.at \in Recording => k.seen \in Reported

Typed == TypeOK /\ \A t \in Tasks : StepOK(task[t])

\* A native job exists, or a start is past its last authority check.
Live(e) == native[e] = "running" \/ \E t \in Tasks : task[t].on = e /\ task[t].at = "submitting"

\* An attempt not yet prepared is known to nobody.
Unused(e) == state[e] = "none" =>
    /\ native[e] = "none" /\ ~authorized[e] /\ current # e /\ cleanup[e] = "none"
    /\ \A t \in Tasks : task[t].on # e

\* One start per attempt, and no job before it.
OneStart(t) == task[t].at \in Starting =>
    \A u \in Tasks \ {t} : ~(task[u].on = task[t].on /\ task[u].at \in Starting)

NoJobYet(t) == task[t].at \in {"starting", "submitting"} => native[task[t].on] = "none"

\* A deferred start created no job.
Deferred(e) ==
    (state[e] = "paused" \/ \E t \in Tasks : task[t].on = e /\ task[t].seen = "paused") =>
        /\ native[e] # "running"
        /\ \A t \in Tasks : ~(task[t].on = e /\ task[t].at \in {"starting", "submitting"})

\* A stop that will be recorded, or acted upon, without another look is true.
TrueStop(t) == LET e == task[t].on IN
    (e \in Attempts \ overtaken /\ task[t].at \notin Guarded /\ task[t].seen \in Stopped) => ~Live(e)

\* A fresh but outdated stop is outdated by a start whose answer is still due.
FreshStop(t) == LET e == task[t].on IN
    ( /\ e \notin overtaken /\ task[t].at \in Guarded
      /\ task[t].fresh /\ task[t].seen \in Stopped /\ native[e] = "running")
    => \E u \in Tasks : task[u].on = e /\ task[u].at = "answered" /\ task[u].seen \notin Stopped

\* Cleanup works on an ended transfer and settles a writer that has stopped.
Settled(t) ==
    /\ task[t].at \in Cleaning => transfer \in Ended
    /\ (task[t].at = "complete" /\ task[t].on \notin overtaken) => ~Live(task[t].on)

Owner(e) ==
    /\ authorized[e] => current = e
    /\ Overtaking(e) => e \in overtaken
    /\ (Live(e) /\ e \notin overtaken) =>
          /\ authorized[e] /\ state[e] \in Mutating
          /\ transfer \in Ended => cleanup[e] = "pending"

Ownership ==
    /\ \A e \in Attempts : Unused(e) /\ Deferred(e) /\ Owner(e)
    /\ \A t \in Tasks : OneStart(t) /\ NoJobYet(t) /\ TrueStop(t) /\ FreshStop(t) /\ Settled(t)

IInv == Typed /\ Ownership

-----------------------------------------------------------------------------
(* Types: a step of task t puts a well-formed task in its place *)

Holds(k) == k \in TaskType /\ StepOK(k)

LEMMA TaskTyped == ASSUME Typed, NEW t \in Tasks PROVE Holds(task[t])
BY DEF Typed, TypeOK, Holds

LEMMA PutTask ==
    ASSUME Typed, NEW t \in Tasks, NEW k, Holds(k), task' = [task EXCEPT ![t] = k]
    PROVE  task' \in [Tasks -> TaskType] /\ \A u \in Tasks : StepOK(task'[u])
BY DEF Typed, TypeOK, Holds

LEMMA PutGo ==
    ASSUME Typed, NEW t \in Tasks, NEW step \in Steps, Go(t, step),
           step \in Unbound \/ task[t].at \notin Unbound,
           step \notin Recording \/ task[t].at \in Recording
    PROVE  /\ Holds([task[t] EXCEPT !.at = step])
           /\ task' = [task EXCEPT ![t] = [task[t] EXCEPT !.at = step]]
BY TaskTyped DEF Go, Holds, StepOK, TaskType, Typed, TypeOK

LEMMA PutAt ==
    ASSUME NEW step \in Steps, NEW e \in Attempts \cup {NoAttempt},
           NEW s \in {"none"} \cup Reported, NEW f \in BOOLEAN,
           step \in Unbound \/ e \in Attempts,
           step \in Recording => s \in Reported
    PROVE  Holds(At(step, e, s, f))
BY DEF Holds, StepOK, TaskType, At

LEMMA PutRecord ==
    ASSUME Typed, NEW t \in Tasks, NEW next, Holds(next),
           task[t].at \in Recording, Record(t, next)
    PROVE  /\ task' \in [Tasks -> TaskType] /\ \A u \in Tasks : StepOK(task'[u])
           /\ state' \in [Attempts -> {"none"} \cup Mutating \cup Stopped]
           /\ status' \in Statuses
<1> DEFINE e == task[t].on
           s == task[t].seen
<1>1. e \in Attempts /\ s \in Reported
  BY TaskTyped DEF Holds, StepOK, Recording, Unbound
<1>2. CASE Accepts(e, s)
  <2>1. /\ state' = [state EXCEPT ![e] = s]
        /\ status' = IF current = e /\ transfer \notin Ended THEN StatusOf[s] ELSE status
        /\ task' = [u \in Tasks |->
                      CASE u = t -> next
                        [] u # t /\ task[u].on = e -> [task[u] EXCEPT !.fresh = FALSE]
                        [] OTHER -> task[u]]
    BY <1>2 DEF Record
  <2>2. \A u \in Tasks : Holds([task[u] EXCEPT !.fresh = FALSE])
    BY TaskTyped DEF Holds, StepOK, TaskType
  <2>3. task' \in [Tasks -> TaskType] /\ \A u \in Tasks : StepOK(task'[u])
    BY <2>1, <2>2, TaskTyped DEF Holds
  <2> QED
    BY <1>1, <2>1, <2>3 DEF Typed, TypeOK, Statuses, Reported, Mutating, Stopped
<1>3. CASE ~Accepts(e, s)
  <2>1. task' = [task EXCEPT ![t] = next] /\ UNCHANGED <<state, status>>
    BY <1>3 DEF Record
  <2> QED
    BY <2>1, PutTask DEF Typed, TypeOK
<1> QED
  BY <1>2, <1>3
-----------------------------------------------------------------------------
(* Moves: steps of one task that write no attempt row and start no job *)

\* What task t may hold next without disturbing the ownership invariant.
Safe(t, k) ==
    /\ Holds(k)
    /\ task[t].at # "answered" /\ k.at \notin Starting \cup {"complete"}
    /\ k.on \in Attempts => state[k.on] # "none"
    /\ k.seen = "paused" => k.on = task[t].on /\ task[t].seen = "paused"
    /\ (k.seen \in Stopped /\ k.on \in Attempts \ overtaken) =>
          native'[k.on] # "running" \/ (k = [task[t] EXCEPT !.at = "result"] /\ task[t].at \in Guarded)
    /\ k.at \in Cleaning => transfer \in Ended

\* Jobs may stop, and none comes into being.
JobsOnlyEnd ==
    /\ native' \in [Attempts -> {"none", "running", "succeeded", "failed", "gone"}]
    /\ \A e \in Attempts : native'[e] = "running" => native[e] = "running"
    /\ \A e \in Attempts : native[e] = "none" => native'[e] = "none"

Moves(t) == \E k : Safe(t, k) /\ task' = [task EXCEPT ![t] = k]

LEMMA NoteGrows == ASSUME Typed, Note
                   PROVE  /\ overtaken \subseteq overtaken' /\ overtaken' \subseteq Attempts
                          /\ \A e \in Attempts : Overtaking(e)' => e \in overtaken'
BY DEF Note, Typed, TypeOK

\* Rows may change as long as no live writer loses its authority or, when its
\* transfer ends, escapes cleanup.
RowsKeep ==
    /\ transfer' \in {"live", "completed"} \cup Ended
    /\ transfer \in Ended => transfer' \in Ended
    /\ paused' \in BOOLEAN /\ status' \in Statuses
    /\ state' = state /\ current' \in {current, NoAttempt}
    /\ authorized' \in [Attempts -> BOOLEAN]
    /\ cleanup' \in [Attempts -> {"none", "pending", "complete"}]
    /\ \A e \in Attempts : authorized'[e] => authorized[e] /\ current' = e
    /\ \A e \in Attempts : state[e] = "none" => cleanup'[e] = "none"
    /\ \A e \in Attempts \ overtaken : Live(e) =>
          authorized'[e] /\ (transfer' \in Ended => cleanup'[e] = "pending")

LEMMA MoveRows ==
    ASSUME IInv, Note, NEW t \in Tasks, Moves(t), JobsOnlyEnd, RowsKeep
    PROVE  IInv'
<1>1. PICK k : Safe(t, k) /\ task' = [task EXCEPT ![t] = k]
  BY DEF Moves
<1>2. /\ task' \in [Tasks -> TaskType] /\ task'[t] = k
      /\ \A u \in Tasks : StepOK(task'[u])
      /\ \A u \in Tasks \ {t} : task'[u] = task[u]
  BY <1>1, PutTask DEF IInv, Typed, TypeOK, Safe
<1>a. /\ k.at \notin Starting /\ k.at # "complete"
      /\ k.on \in Attempts => state[k.on] # "none"
      /\ k.seen = "paused" => k.on = task[t].on /\ task[t].seen = "paused"
      /\ k.at \in Cleaning => transfer \in Ended
  BY <1>1 DEF Safe
<1>b. /\ \A e \in Attempts : native'[e] = "running" => native[e] = "running"
      /\ \A e \in Attempts : native[e] = "none" => native'[e] = "none"
  BY DEF JobsOnlyEnd
<1>3. Typed'
  BY <1>2, NoteGrows DEF IInv, Typed, TypeOK, StepOK, JobsOnlyEnd, RowsKeep
<1>4. \A e \in Attempts : Live(e)' => Live(e)
  BY <1>a, <1>b, <1>2 DEF Live, Starting
<1>5. \A e \in Attempts : Unused(e)'
  BY <1>a, <1>b, <1>2, NoAttemptAssumption DEF IInv, Ownership, Unused, RowsKeep
<1>6. \A e \in Attempts : Deferred(e)'
  BY <1>a, <1>b, <1>2 DEF IInv, Ownership, Deferred, Starting, RowsKeep
<1>7. \A e \in Attempts : Owner(e)'
  BY <1>4, NoteGrows DEF IInv, Ownership, Owner, RowsKeep
<1>8. \A u \in Tasks : OneStart(u)' /\ NoJobYet(u)'
  BY <1>a, <1>b, <1>2 DEF IInv, Ownership, OneStart, NoJobYet, Typed, StepOK, Unbound, Starting
<1>9. \A u \in Tasks : TrueStop(u)'
  <2>1. TrueStop(t)'
    <3> SUFFICES ASSUME k.on \in Attempts \ overtaken', k.at \notin Guarded, k.seen \in Stopped
                 PROVE  ~Live(k.on)'
      BY <1>2 DEF TrueStop
    <3>1. k.on \in Attempts \ overtaken /\ native'[k.on] # "running"
      BY <1>1, TaskTyped, NoteGrows DEF Safe, Guarded, IInv, Holds, TaskType
    <3>2. HoldsStop(t, k.on)'
      BY <1>1, <1>2 DEF HoldsStop, Safe, Starting, Guarded
    <3>3. ASSUME NEW u \in Tasks, task'[u].on = k.on, task'[u].at = "submitting" PROVE FALSE
      <4>1. Overtaking(k.on)'
        BY <3>2, <3>3 DEF Overtaking, InFlight
      <4> QED
        BY <4>1, NoteGrows DEF IInv
    <3> QED
      BY <3>1, <3>3 DEF Live
  <2>2. ASSUME NEW u \in Tasks \ {t} PROVE TrueStop(u)'
    BY <1>2, <1>4, <2>2, NoteGrows DEF IInv, Ownership, TrueStop
  <2> QED
    BY <2>1, <2>2
<1>10. \A u \in Tasks : FreshStop(u)'
  <2>1. ASSUME NEW v \in Tasks, task[v].at = "answered"
        PROVE  task'[v] = task[v]
    BY <1>1, <1>2, <2>1 DEF Safe
  <2>2. ASSUME NEW u \in Tasks \ {t} PROVE FreshStop(u)'
    BY <1>b, <1>2, <2>1, NoteGrows DEF IInv, Ownership, FreshStop, Typed, StepOK, Guarded, Unbound
  <2>3. FreshStop(t)'
    <3> SUFFICES ASSUME k.on \notin overtaken', k.at \in Guarded, k.fresh,
                        k.seen \in Stopped, native'[k.on] = "running"
                 PROVE  \E v \in Tasks : /\ task'[v].on = k.on /\ task'[v].at = "answered"
                                        /\ task'[v].seen \notin Stopped
      BY <1>2 DEF FreshStop
    <3>1. k = [task[t] EXCEPT !.at = "result"] /\ task[t].at \in Guarded /\ k.on \in Attempts
      BY <1>1, NoteGrows DEF Safe, IInv, Holds, StepOK, Guarded, Unbound
    <3>2. k.on = task[t].on /\ k.seen = task[t].seen /\ k.fresh = task[t].fresh
      BY <3>1, TaskTyped DEF IInv, Holds, TaskType
    <3>3. PICK v \in Tasks : /\ task[v].on = k.on /\ task[v].at = "answered"
                             /\ task[v].seen \notin Stopped
      BY <1>b, <3>1, <3>2, NoteGrows DEF IInv, Ownership, FreshStop
    <3> QED
      BY <3>3, <2>1
  <2> QED
    BY <2>2, <2>3
<1>11. \A u \in Tasks : Settled(u)'
  BY <1>1, <1>2, <1>4, NoteGrows
     DEF IInv, Ownership, Settled, Safe, Typed, StepOK, Unbound, Starting, Cleaning, RowsKeep
<1> QED
  BY <1>3, <1>5, <1>6, <1>7, <1>8, <1>9, <1>10, <1>11 DEF IInv, Ownership

LEMMA MoveKeeps ==
    ASSUME IInv, Note, NEW t \in Tasks, Moves(t), JobsOnlyEnd,
           UNCHANGED <<transfer, current, state, authorized, cleanup>>,
           paused' \in BOOLEAN, status' \in Statuses
    PROVE  IInv'
<1>1. RowsKeep
  BY DEF RowsKeep, IInv, Typed, TypeOK, Ownership, Owner, Unused
<1> QED
  BY <1>1, MoveRows

-----------------------------------------------------------------------------
(* Records: a task makes durable what it saw *)

\* What task t may hold after recording its observation.
SafeNext(t, next) ==
    /\ Holds(next)
    /\ next.on \in {task[t].on, NoAttempt}
    /\ next.seen \in {"none", task[t].seen}
    /\ next.on = NoAttempt => next.seen = "none"
    /\ next.at \notin Starting \cup Guarded
    /\ next.at \in Cleaning => transfer \in Ended
    /\ next.at = "complete" => task[t].seen \in Stopped /\ task[t].at \notin Guarded

LEMMA RecordKeeps ==
    ASSUME IInv, Note, NEW t \in Tasks, NEW next, SafeNext(t, next),
           task[t].at \in Recording, task[t].at \in Guarded => task[t].fresh,
           Record(t, next),
           UNCHANGED <<transfer, paused, current, authorized, cleanup, native>>
    PROVE  IInv'
<1>0. PICK e \in Attempts, s \in Reported : e = task[t].on /\ s = task[t].seen
  BY TaskTyped DEF IInv, Holds, StepOK, Recording, Unbound
<1>1. /\ e = task[t].on /\ s = task[t].seen /\ e \in Attempts /\ s \in Reported
      /\ state[e] # "none" /\ e # NoAttempt
      /\ Holds(next)
  BY <1>0, TaskTyped, NoAttemptAssumption
     DEF IInv, Ownership, Unused, Holds, StepOK, Recording, Unbound, SafeNext
<1>2. /\ task' \in [Tasks -> TaskType] /\ \A u \in Tasks : StepOK(task'[u])
      /\ state' \in [Attempts -> {"none"} \cup Mutating \cup Stopped]
      /\ status' \in Statuses
  BY <1>1, PutRecord DEF IInv
<1>3. Typed'
  BY <1>2, NoteGrows DEF IInv, Typed, TypeOK, StepOK
<1>4. /\ task'[t] = next
      /\ \A u \in Tasks \ {t} : /\ task'[u].at = task[u].at /\ task'[u].on = task[u].on
                                /\ task'[u].seen = task[u].seen
                                /\ task'[u].fresh => task[u].fresh
  <2>1. CASE Accepts(e, s)
    <3>1. task' = [u \in Tasks |->
                    CASE u = t -> next
                      [] u # t /\ task[u].on = e -> [task[u] EXCEPT !.fresh = FALSE]
                      [] OTHER -> task[u]]
      BY <1>1, <2>1 DEF Record
    <3>2. \A u \in Tasks : task[u] \in TaskType
      BY DEF IInv, Typed, TypeOK
    <3> QED
      BY <3>1, <3>2 DEF TaskType
  <2>2. CASE ~Accepts(e, s)
    BY <1>1, <2>2 DEF Record, IInv, Typed, TypeOK
  <2> QED
    BY <2>1, <2>2
<1>5. /\ \A f \in Attempts \ {e} : state'[f] = state[f]
      /\ state'[e] = IF Accepts(e, s) THEN s ELSE state[e]
  BY <1>1 DEF Record, IInv, Typed, TypeOK
<1>6. \A f : Live(f)' => Live(f)
  BY <1>4 DEF Live, SafeNext, Starting
<1>7. \A f \in Attempts : Unused(f)'
  <2>1. \A f \in Attempts : state'[f] = "none" => f # e /\ state[f] = "none"
    BY <1>1, <1>5 DEF Reported, Stopped
  <2> QED
    BY NoAttemptAssumption, <1>1, <1>4, <2>1 DEF IInv, Ownership, Unused, SafeNext
<1>8. \A f \in Attempts : Deferred(f)'
  BY <1>1, <1>4, <1>5 DEF IInv, Ownership, Deferred, SafeNext, Starting
<1>9. ASSUME Live(e), e \notin overtaken, s \in Stopped, Accepts(e, s) PROVE e \in overtaken'
  <2>1. task[t].at \in Guarded /\ task[t].fresh
    BY <1>1, <1>9 DEF IInv, Ownership, TrueStop
  <2>2. PICK u \in Tasks : /\ task[u].on = e
                           /\ \/ task[u].at = "submitting"
                              \/ task[u].at = "answered" /\ task[u].seen \notin Stopped
    BY <1>1, <1>9, <2>1 DEF Live, IInv, Ownership, FreshStop
  <2>3. u # t
    BY <2>1, <2>2 DEF Guarded
  <2>4. Overtaking(e)'
    BY <1>4, <1>5, <1>9, <2>2, <2>3 DEF Overtaking, InFlight, SafeNext
  <2> QED
    BY <1>1, <2>4, NoteGrows DEF IInv
<1>10. ASSUME Live(e), e \notin overtaken PROVE Accepts(e, s)
  BY <1>1, <1>10 DEF IInv, Ownership, Owner, Accepts, Mutating, Stopped
<1>11. \A f \in Attempts : Owner(f)'
  <2>1. ASSUME NEW f \in Attempts, Live(f)', f \notin overtaken' PROVE state'[f] \in Mutating
    <3>1. Live(f) /\ f \notin overtaken
      BY <1>6, <2>1, NoteGrows DEF IInv
    <3>2. CASE f = e
      BY <1>1, <1>5, <1>9, <1>10, <2>1, <3>1, <3>2 DEF Reported, Mutating, Stopped
    <3>3. CASE f # e
      BY <1>5, <3>1, <3>3 DEF IInv, Ownership, Owner
    <3> QED
      BY <3>2, <3>3
  <2> QED
    BY <1>6, <2>1, NoteGrows DEF IInv, Ownership, Owner
<1>12. \A u \in Tasks : OneStart(u)' /\ NoJobYet(u)'
  BY <1>4 DEF IInv, Ownership, OneStart, NoJobYet, SafeNext, Starting
<1>13. \A u \in Tasks : TrueStop(u)'
  <2>1. TrueStop(t)'
    <3> SUFFICES ASSUME next.on \in Attempts \ overtaken', next.seen \in Stopped, Live(next.on)'
                 PROVE  FALSE
      BY <1>4 DEF TrueStop
    <3>1. next.on = e /\ next.seen = s
      BY <1>1 DEF SafeNext, Stopped
    <3>2. Live(e) /\ e \notin overtaken
      BY <1>6, <3>1, NoteGrows DEF IInv
    <3> QED
      BY <1>1, <1>9, <1>10, <3>1, <3>2
  <2>2. ASSUME NEW u \in Tasks \ {t} PROVE TrueStop(u)'
    BY <1>4, <1>6, <2>2, NoteGrows DEF IInv, Ownership, TrueStop
  <2> QED
    BY <2>1, <2>2
<1>14. \A u \in Tasks : FreshStop(u)'
  <2> SUFFICES ASSUME NEW u \in Tasks, task'[u].on \notin overtaken', task'[u].at \in Guarded,
                      task'[u].fresh, task'[u].seen \in Stopped, native[task'[u].on] = "running"
               PROVE  \E v \in Tasks : /\ task'[v].on = task'[u].on /\ task'[v].at = "answered"
                                       /\ task'[v].seen \notin Stopped
    BY DEF FreshStop
  <2>1. u # t
    BY <1>4 DEF SafeNext
  <2>2. PICK v \in Tasks : /\ task[v].on = task[u].on /\ task[v].at = "answered"
                           /\ task[v].seen \notin Stopped
    BY <1>4, <2>1, NoteGrows DEF IInv, Ownership, FreshStop
  <2>3. CASE v # t
    BY <1>4, <2>1, <2>2, <2>3
  <2>4. CASE v = t
    <3>1. task[u].on = e /\ Live(e) /\ e \notin overtaken
      BY <1>1, <1>4, <2>1, <2>2, <2>4, NoteGrows DEF Live, IInv
    <3>2. task'[u] = [task[u] EXCEPT !.fresh = FALSE]
      BY <1>1, <1>10, <2>1, <3>1 DEF Record
    <3> QED
      BY <3>2, TaskTyped DEF IInv, Holds, TaskType
  <2> QED
    BY <2>3, <2>4
<1>15. \A u \in Tasks : Settled(u)'
  <2>1. Settled(t)'
    <3>1. ASSUME next.at = "complete", next.on \notin overtaken', Live(next.on)' PROVE FALSE
      <4>1. next.on = e
        BY NoAttemptAssumption, <1>1, <3>1 DEF SafeNext, Holds, StepOK, Unbound
      <4>2. Live(e) /\ e \notin overtaken
        BY <1>6, <3>1, <4>1, NoteGrows DEF IInv
      <4> QED
        BY <1>1, <3>1, <4>2 DEF SafeNext, IInv, Ownership, TrueStop
    <3> QED
      BY <1>4, <3>1 DEF Settled, SafeNext
  <2>2. ASSUME NEW u \in Tasks \ {t} PROVE Settled(u)'
    BY <1>4, <1>6, <2>2, NoteGrows DEF IInv, Ownership, Settled
  <2> QED
    BY <2>1, <2>2
<1> QED
  BY <1>3, <1>7, <1>8, <1>11, <1>12, <1>13, <1>14, <1>15 DEF IInv, Ownership

-----------------------------------------------------------------------------
(* The executor contract never answers a false stop *)

LEMMA SeenTrue ==
    ASSUME Typed, NEW e \in Attempts, NEW s \in Seen(e)
    PROVE  s \in Reported \ {"paused"} /\ (s \in Stopped => native[e] # "running")
BY DEF Seen, Truth, Typed, TypeOK, Reported, Stopped

LEMMA CancelTrue ==
    ASSUME Typed, NEW e \in Attempts, NEW r \in Reported, CancelNative(e, r)
    PROVE  /\ r # "paused" /\ JobsOnlyEnd
           /\ r \in Stopped => native'[e] # "running"
BY DEF CancelNative, JobsOnlyEnd, Truth, Typed, TypeOK, Reported, Stopped

LEMMA SameJobs == ASSUME Typed, native' = native PROVE JobsOnlyEnd
BY DEF JobsOnlyEnd, Typed, TypeOK

\* An attempt some task works on, or the file names, has been prepared.
LEMMA Prepared ==
    ASSUME IInv
    PROVE  /\ \A t \in Tasks : task[t].on \in Attempts => state[task[t].on] # "none"
           /\ current \in Attempts => state[current] # "none"
           /\ \A e \in Attempts : cleanup[e] # "none" => state[e] # "none"
BY DEF IInv, Ownership, Unused

-----------------------------------------------------------------------------
(* Three ways to move *)

LEMMA MoveDone == ASSUME IInv, NEW t \in Tasks, task[t].at # "answered", Done(t)
                  PROVE  Moves(t)
<1>1. Holds(Idle)
  BY DEF Idle, At, Holds, StepOK, TaskType, Steps, Unbound, Recording
<1>2. Safe(t, Idle)
  BY <1>1, NoAttemptAssumption DEF Safe, Idle, At, Starting, Cleaning, Stopped
<1> QED
  BY <1>2 DEF Moves, Done

LEMMA MoveGoOn ==
    ASSUME IInv, NEW t \in Tasks, task[t].at # "answered",
           NEW step \in Steps \ (Starting \cup Recording \cup Cleaning),
           NEW e \in Attempts \cup {NoAttempt}, GoOn(t, step, e),
           step \in Unbound \/ e \in Attempts,
           e \in Attempts => state[e] # "none"
    PROVE  Moves(t)
<1> DEFINE k == At(step, e, "none", FALSE)
<1>1. Holds(k)
  BY PutAt
<1>2. Safe(t, k)
  BY <1>1 DEF Safe, At, Stopped, Cleaning
<1> QED
  BY <1>2 DEF Moves, GoOn

LEMMA MoveTo ==
    ASSUME IInv, NEW t \in Tasks, task[t].at # "answered",
           NEW step \in Steps \ (Starting \cup {"complete"}), step \in Cleaning => transfer \in Ended,
           NEW e \in Attempts, state[e] # "none",
           NEW s \in Reported \ {"paused"}, s \in Stopped => native'[e] # "running",
           NEW f \in BOOLEAN, task' = [task EXCEPT ![t] = At(step, e, s, f)]
    PROVE  Moves(t)
<1> DEFINE k == At(step, e, s, f)
<1>1. Holds(k)
  BY PutAt
<1>2. Safe(t, k)
  BY <1>1 DEF Safe, At
<1> QED
  BY <1>2 DEF Moves

\* What a task saw stays true while it goes on.
LEMMA MoveGo ==
    ASSUME IInv, NEW t \in Tasks, task[t].at \notin Starting \cup Guarded, native' = native,
           NEW step \in Steps \ (Starting \cup Recording \cup Cleaning), Go(t, step),
           step \in Unbound \/ task[t].at \notin Unbound
    PROVE  Moves(t)
<1> DEFINE k == [task[t] EXCEPT !.at = step]
<1>1. Holds(k) /\ task' = [task EXCEPT ![t] = k]
  BY PutGo DEF IInv
<1>2. k.on = task[t].on /\ k.seen = task[t].seen /\ k.at = step
  BY TaskTyped DEF IInv, Holds, TaskType
<1>3. (k.seen \in Stopped /\ k.on \in Attempts \ overtaken) => native'[k.on] # "running"
  BY <1>2 DEF IInv, Ownership, TrueStop, Live
<1>4. k.on \in Attempts => state[k.on] # "none"
  BY <1>2, Prepared
<1> HIDE DEF k
<1>5. Safe(t, k)
  BY <1>1, <1>2, <1>3, <1>4 DEF Safe, Starting, Cleaning
<1> QED
  BY <1>1, <1>5 DEF Moves

-----------------------------------------------------------------------------
(* The steps of one task, in the order of the module *)

\* The rows a move leaves alone, but for the pause and the file's status.
LEMMA Moved ==
    ASSUME IInv, Note, NEW t \in Tasks, Moves(t), JobsOnlyEnd, UNCHANGED row
    PROVE  IInv'
BY MoveKeeps DEF row, IInv, Typed, TypeOK

LEMMA KeepConverge == ASSUME IInv, Note, NEW t \in Tasks, Converge(t) PROVE IInv'
<1> DEFINE e == task[t].on
<1>1. /\ e \in Attempts /\ state[e] # "none" /\ task[t].at = "observed"
      /\ task[t].seen \in Reported
  BY TaskTyped, Prepared DEF Converge, IInv, Holds, StepOK, Unbound, Recording
<1>2. JobsOnlyEnd /\ native' = native /\ UNCHANGED row
  BY SameJobs DEF Converge, IInv
<1>3. CASE Done(t)
  BY <1>1, <1>2, <1>3, MoveDone, Moved
<1>4. CASE GoOn(t, "retire", e)
  <2>1. Moves(t)
    BY <1>1, <1>4, MoveGoOn DEF Steps, Starting, Recording, Cleaning
  <2> QED
    BY <1>2, <2>1, Moved
<1>5. CASE Go(t, "lost") /\ task[t].seen = "absent" /\ state[e] = "paused"
  <2> DEFINE k == [task[t] EXCEPT !.at = "lost"]
  <2>1. Holds(k) /\ task' = [task EXCEPT ![t] = k]
    BY <1>1, <1>5, PutGo DEF IInv, Steps, Unbound, Recording
  <2>2. k.on = e /\ k.seen = "absent" /\ k.at = "lost"
    BY <1>5, TaskTyped DEF IInv, Holds, TaskType
  <2>3. native'[e] # "running"
    BY <1>1, <1>2, <1>5 DEF IInv, Ownership, Deferred
  <2> HIDE DEF k
  <2>4. Safe(t, k)
    BY <1>1, <2>1, <2>2, <2>3 DEF Safe, Starting, Cleaning
  <2> QED
    BY <1>2, <2>1, <2>4, Moved DEF Moves
<1>6. CASE Go(t, "result")
  <2> DEFINE k == [task[t] EXCEPT !.at = "result"]
  <2>1. Holds(k) /\ task' = [task EXCEPT ![t] = k]
    BY <1>1, <1>6, PutGo DEF IInv, Steps, Unbound, Recording
  <2>2. k.on = e /\ k.seen = task[t].seen /\ k.at = "result"
    BY TaskTyped DEF IInv, Holds, TaskType
  <2>3. Safe(t, k)
    BY <1>1, <2>1, <2>2 DEF Safe, Starting, Cleaning, Guarded
  <2> QED
    BY <1>2, <2>1, <2>3, Moved DEF Moves
<1> QED
  BY <1>3, <1>4, <1>5, <1>6 DEF Converge

LEMMA KeepRecordStart == ASSUME IInv, Note, NEW t \in Tasks, RecordStart(t) PROVE IInv'
<1>1. /\ task[t].on \in Attempts /\ task[t].seen \in Reported /\ task[t].at = "answered"
  BY TaskTyped DEF RecordStart, IInv, Holds, StepOK, Unbound, Recording
<1>2. Holds(Then(t, "decide"))
  BY <1>1, PutAt DEF Then, Steps
<1>3. SafeNext(t, Then(t, "decide"))
  BY <1>1, <1>2, NoAttemptAssumption DEF SafeNext, Then, At, Starting, Guarded, Cleaning
<1> QED
  BY <1>1, <1>3, RecordKeeps DEF RecordStart, Recording, Guarded

LEMMA KeepRecordObserved == ASSUME IInv, Note, NEW t \in Tasks, RecordObserved(t) PROVE IInv'
<1>1. /\ task[t].on \in Attempts /\ task[t].seen \in Reported
      /\ task[t].at \in {"result", "again"} /\ state[task[t].on] # "none"
  BY TaskTyped, Prepared DEF RecordObserved, IInv, Holds, StepOK, Unbound, Recording
<1>2. CASE task[t].fresh /\ Record(t, Then(t, "decide"))
  <2>1. Holds(Then(t, "decide"))
    BY <1>1, PutAt DEF Then, Steps
  <2>2. SafeNext(t, Then(t, "decide"))
    BY <1>1, <2>1, NoAttemptAssumption DEF SafeNext, Then, At, Starting, Guarded, Cleaning
  <2> QED
    BY <1>1, <1>2, <2>2, RecordKeeps DEF RecordObserved, Recording, Guarded
<1>3. ASSUME NEW s \in Seen(task[t].on), UNCHANGED <<state, status>>,
             task' = [task EXCEPT ![t] = At("again", task[t].on, s, TRUE)]
      PROVE  IInv'
  <2>1. JobsOnlyEnd /\ native' = native /\ UNCHANGED row
    BY <1>3, SameJobs DEF RecordObserved, IInv, row
  <2>2. Moves(t)
    BY <1>1, <1>3, <2>1, SeenTrue, MoveTo DEF IInv, Steps, Starting, Cleaning
  <2> QED
    BY <2>1, <2>2, Moved
<1>4. CASE Done(t) /\ UNCHANGED <<state, status>>
  BY <1>1, <1>4, MoveDone, SameJobs, Moved DEF RecordObserved, IInv, row
<1> QED
  BY <1>2, <1>3, <1>4 DEF RecordObserved

\* A recording step after an unguarded observation.
LEMMA KeepRecord ==
    ASSUME IInv, Note, NEW t \in Tasks, NEW next, Record(t, next),
           task[t].at \in Recording \ Guarded,
           \/ next = Idle
           \/ \E step \in Steps \ (Starting \cup Guarded) :
                 /\ next = Then(t, step)
                 /\ step \in Cleaning => task[t].at \in Cleaning
                 /\ step \in Recording \ {"decide"} => FALSE
                 /\ step = "complete" => task[t].seen \in Stopped
           \/ next = At("reconcile", task[t].on, "none", FALSE),
           UNCHANGED <<transfer, paused, current, authorized, cleanup, native>>
    PROVE  IInv'
<1>1. /\ task[t].on \in Attempts /\ task[t].seen \in Reported
      /\ task[t].at \in Cleaning => transfer \in Ended
  BY TaskTyped DEF IInv, Holds, StepOK, Unbound, Recording, Ownership, Settled
<1>2. CASE next = Idle
  <2>1. Holds(Idle)
    BY DEF Idle, At, Holds, StepOK, TaskType, Steps, Unbound, Recording
  <2> QED
    BY <1>1, <1>2, <2>1, RecordKeeps DEF SafeNext, Idle, At, Starting, Guarded, Cleaning
<1>3. ASSUME NEW step \in Steps \ (Starting \cup Guarded),
             next = Then(t, step),
             step \in Cleaning => task[t].at \in Cleaning,
             step \in Recording \ {"decide"} => FALSE,
             step = "complete" => task[t].seen \in Stopped
      PROVE  IInv'
  <2>1. Holds(Then(t, step))
    BY <1>1, <1>3, PutAt DEF Then, Recording
  <2>2. SafeNext(t, next)
    BY <1>1, <1>3, <2>1, NoAttemptAssumption DEF SafeNext, Then, At
  <2> QED
    BY <2>2, RecordKeeps
<1>4. CASE next = At("reconcile", task[t].on, "none", FALSE)
  <2>1. Holds(next)
    BY <1>1, <1>4 DEF Holds, StepOK, TaskType, At, Steps, Unbound, Recording
  <2>2. SafeNext(t, next)
    BY <1>1, <1>4, <2>1, NoAttemptAssumption DEF SafeNext, At, Starting, Guarded, Cleaning
  <2> QED
    BY <2>2, RecordKeeps
<1> QED
  BY <1>2, <1>3, <1>4

LEMMA KeepRecords ==
    ASSUME IInv, Note, NEW t \in Tasks,
           \/ RecordFence(t) \/ RecordConverged(t) \/ RecordRetired(t) \/ RecordLost(t)
           \/ RecordReconciled(t) \/ RecordCleanup(t) \/ RecordReclaimed(t)
    PROVE  IInv'
<1>1. CASE RecordFence(t)
  BY <1>1, KeepRecord DEF RecordFence, Recording, Guarded
<1>2. CASE RecordConverged(t)
  BY <1>2, KeepRecord DEF RecordConverged, Recording, Guarded
<1>3. CASE RecordRetired(t)
  BY <1>3, KeepRecord DEF RecordRetired, Steps, Starting, Recording, Guarded, Cleaning
<1>4. CASE RecordLost(t)
  <2>1. Record(t, Then(t, "release")) /\ task[t].at = "lost"
    BY <1>4 DEF RecordLost
  <2>2. \E step \in Steps \ (Starting \cup Guarded) :
          /\ Then(t, "release") = Then(t, step)
          /\ step \notin Recording \cup Cleaning
    BY DEF Steps, Starting, Recording, Guarded, Cleaning
  <2> QED
    BY <1>4, <2>1, <2>2, KeepRecord DEF RecordLost, Recording, Guarded, Cleaning
<1>5. CASE RecordReconciled(t)
  <2> DEFINE next == CASE task[t].seen = "succeeded" -> Then(t, "decide")
                       [] task[t].seen \in Stopped \ {"succeeded"} -> Then(t, "requeue")
                       [] OTHER -> Idle
  <2>1. Record(t, next) /\ task[t].at = "reconciled"
    BY <1>5 DEF RecordReconciled
  <2>2. \/ next = Idle
        \/ \E step \in Steps \ (Starting \cup Guarded) :
              next = Then(t, step) /\ step \notin (Recording \ {"decide"}) \cup Cleaning
    BY DEF Steps, Starting, Recording, Guarded, Cleaning, Stopped
  <2> HIDE DEF next
  <2> QED
    BY <1>5, <2>1, <2>2, KeepRecord DEF RecordReconciled, Recording, Guarded, Cleaning
<1>6. CASE RecordCleanup(t)
  BY <1>6, KeepRecord DEF RecordCleanup, Steps, Starting, Recording, Guarded, Cleaning
<1>7. CASE RecordReclaimed(t)
  BY <1>7, KeepRecord DEF RecordReclaimed, Steps, Starting, Recording, Guarded, Cleaning
<1> QED
  BY <1>1, <1>2, <1>3, <1>4, <1>5, <1>6, <1>7

\* A cancellation leaves a true answer with its task.
LEMMA KeepCancel ==
    ASSUME IInv, Note, NEW t \in Tasks, Fence(t) \/ StopWriter(t) \/ Reclaim(t)
    PROVE  IInv'
<1> DEFINE e == task[t].on
<1>1. e \in Attempts /\ state[e] # "none" /\ task[t].at \in {"fence", "retiring", "reclaim"}
      /\ UNCHANGED row
  BY TaskTyped, Prepared DEF Fence, StopWriter, Reclaim, IInv, Holds, StepOK, Unbound, row
<1>2. ASSUME NEW r \in Reported, CancelNative(e, r),
             NEW step \in {"fenced", "retired", "reclaimed"}, Sees(t, step, e, r),
             step = "reclaimed" => task[t].at = "reclaim"
      PROVE  IInv'
  <2>1. JobsOnlyEnd /\ r # "paused" /\ (r \in Stopped => native'[e] # "running")
    BY <1>1, <1>2, CancelTrue DEF IInv
  <2>2. step \in Cleaning => transfer \in Ended
    BY <1>2 DEF IInv, Ownership, Settled, Cleaning
  <2>3. Moves(t)
    BY <1>1, <1>2, <2>1, <2>2, MoveTo DEF Sees, Steps, Starting
  <2> QED
    BY <1>1, <2>1, <2>3, Moved
<1>3. CASE Done(t) /\ native' = native
  BY <1>1, <1>3, MoveDone, SameJobs, Moved DEF IInv
<1> QED
  BY <1>2, <1>3 DEF Fence, StopWriter, Reclaim

\* Steps that only decide where a task goes next.
LEMMA KeepTurns ==
    ASSUME IInv, Note, NEW t \in Tasks, Decide(t) \/ Verify(t) \/ Accept(t) \/ PassDone(t)
    PROVE  IInv'
<1>1. UNCHANGED row /\ native' = native /\ JobsOnlyEnd
  BY SameJobs DEF Decide, Verify, Accept, PassDone, IInv, row
<1>2. task[t].at \in {"decide", "verify", "accept", "pass"}
  BY DEF Decide, Verify, Accept, PassDone
<1>3. CASE Done(t)
  BY <1>1, <1>2, <1>3, MoveDone, Moved
<1>4. ASSUME task[t].at = "decide",
             NEW step \in {"fence", "retire", "verify", "reconcile"}, GoOn(t, step, task[t].on)
      PROVE  IInv'
  <2>1. task[t].on \in Attempts /\ state[task[t].on] # "none"
    BY <1>4, TaskTyped, Prepared DEF IInv, Holds, StepOK, Unbound
  <2>2. Moves(t)
    BY <1>4, <2>1, MoveGoOn DEF Steps, Starting, Recording, Cleaning
  <2> QED
    BY <1>1, <2>2, Moved
<1>5. ASSUME task[t].at \in {"verify", "accept"},
             NEW step \in {"accept", "reject", "commit"}, Go(t, step)
      PROVE  IInv'
  <2>1. Moves(t)
    BY <1>1, <1>5, MoveGo DEF Steps, Starting, Guarded, Recording, Cleaning, Unbound
  <2> QED
    BY <1>1, <2>1, Moved
<1>6. CASE Decide(t)
  BY <1>3, <1>4, <1>6 DEF Decide
<1>7. CASE Verify(t)
  BY <1>3, <1>5, <1>7 DEF Verify
<1>8. CASE Accept(t)
  <2>1. task[t].at = "accept" /\ (Go(t, "commit") \/ Go(t, "reject"))
    BY <1>8 DEF Accept
  <2> QED
    BY <1>5, <2>1
<1>9. CASE PassDone(t)
  BY <1>3, <1>9 DEF PassDone
<1> QED
  BY <1>6, <1>7, <1>8, <1>9

\* Steps that observe a writer, or find none.
LEMMA KeepLooks ==
    ASSUME IInv, Note, NEW t \in Tasks, ConvergeControl(t) \/ Retire(t) \/ Reconcile(t)
    PROVE  IInv'
<1>1. UNCHANGED row /\ native' = native /\ JobsOnlyEnd
  BY SameJobs DEF ConvergeControl, Retire, Reconcile, IInv, row
<1>2. task[t].at \in {"converge", "retire", "reconcile", "resume"}
  BY DEF ConvergeControl, Retire, Reconcile
<1>3. CASE Done(t)
  BY <1>1, <1>2, <1>3, MoveDone, Moved
<1>4. ASSUME NEW e \in Attempts, state[e] # "none", NEW s \in Seen(e),
             NEW step \in {"retire", "lost", "converged", "retired", "retiring",
                           "requeue", "reconciled"},
             Sees(t, step, e, s)
      PROVE  IInv'
  <2>1. s \in Reported \ {"paused"} /\ (s \in Stopped => native'[e] # "running")
    BY <1>1, SeenTrue DEF IInv
  <2>2. Moves(t)
    BY <1>2, <1>4, <2>1, MoveTo DEF Sees, Steps, Starting, Cleaning
  <2> QED
    BY <1>1, <2>2, Moved
<1>5. ASSUME NEW e \in Attempts \cup {NoAttempt}, e = current,
             NEW step \in {"converge", "requeue"}, GoOn(t, step, e),
             step = "converge" => e # NoAttempt
      PROVE  IInv'
  <2>1. Moves(t)
    BY <1>2, <1>5, Prepared, MoveGoOn DEF Steps, Starting, Recording, Cleaning, Unbound
  <2> QED
    BY <1>1, <2>1, Moved
<1>6. CASE ConvergeControl(t)
  <2> DEFINE e == task[t].on
  <2>1. e \in Attempts /\ state[e] # "none"
    BY <1>6, TaskTyped, Prepared DEF ConvergeControl, IInv, Holds, StepOK, Unbound
  <2>2. ASSUME NEW s \in Seen(e),
               Sees(t, CASE paused /\ s = "running" -> "retire"
                         [] paused /\ s = "absent" /\ state[e] = "paused" -> "lost"
                         [] OTHER -> "converged", e, s)
        PROVE  IInv'
    <3>1. (CASE paused /\ s = "running" -> "retire"
             [] paused /\ s = "absent" /\ state[e] = "paused" -> "lost"
             [] OTHER -> "converged") \in {"retire", "lost", "converged"}
      OBVIOUS
    <3> QED
      BY <1>4, <2>1, <2>2, <3>1
  <2> QED
    BY <1>3, <1>6, <2>2 DEF ConvergeControl
<1>7. CASE Retire(t)
  <2> DEFINE e == task[t].on
             to(s) == CASE s = "succeeded" /\ status # "error" -> "converged"
                        [] s \in Stopped /\ ~(s = "succeeded" /\ status # "error") -> "retired"
                        [] OTHER -> "retiring"
  <2>1. e \in Attempts /\ state[e] # "none"
    BY <1>7, TaskTyped, Prepared DEF Retire, IInv, Holds, StepOK, Unbound
  <2>2. ASSUME NEW s \in Seen(e), Sees(t, to(s), e, s) PROVE IInv'
    <3>1. to(s) \in {"converged", "retired", "retiring"}
      OBVIOUS
    <3> QED
      BY <1>4, <2>1, <2>2, <3>1
  <2> QED
    BY <1>3, <1>7, <2>2 DEF Retire
<1>8. CASE Reconcile(t)
  <2> DEFINE e == current
             to(s) == CASE s = "succeeded" /\ status = "error" -> "requeue"
                        [] s = "absent" /\ state[e] = "paused" /\ task[t].at = "resume" -> "lost"
                        [] s = "running" -> IF paused THEN "retire" ELSE "converged"
                        [] OTHER -> "reconciled"
  <2>1. e \in Attempts \cup {NoAttempt}
    BY DEF IInv, Typed, TypeOK
  <2>2. ASSUME e # NoAttempt, NEW s \in Seen(e), Sees(t, to(s), e, s) PROVE IInv'
    <3>1. to(s) \in {"requeue", "lost", "retire", "converged", "reconciled"}
      OBVIOUS
    <3> QED
      BY <1>4, <2>1, <2>2, <3>1, Prepared
  <2> QED
    BY <1>3, <1>5, <1>8, <2>1, <2>2 DEF Reconcile
<1> QED
  BY <1>6, <1>7, <1>8

\* Controls that move the pause intent, and steps that move the file's status.
LEMMA KeepIntent ==
    ASSUME IInv, Note, NEW t \in Tasks,
           Pause(t) \/ Resume(t) \/ Retry(t) \/ Commit(t) \/ Reject(t)
    PROVE  IInv'
<1>1. /\ UNCHANGED <<transfer, current, state, authorized, cleanup, native>>
      /\ paused' \in BOOLEAN /\ status' \in Statuses /\ JobsOnlyEnd
  <2>1. UNCHANGED <<transfer, current, state, authorized, cleanup, native>>
    BY DEF Pause, Resume, Retry, Commit, Reject, row
  <2>2. paused' \in BOOLEAN
    BY DEF Pause, Resume, Retry, Commit, Reject, row, IInv, Typed, TypeOK
  <2>3. "completed" \in Statuses /\ "error" \in Statuses
    BY DEF Statuses, StatusOf, Reported, Stopped
  <2>4. status' \in Statuses
    BY <2>3 DEF Pause, Resume, Retry, Commit, Reject, row, IInv, Typed, TypeOK
  <2> QED
    BY <2>1, <2>2, <2>4, SameJobs DEF IInv
<1>2. task[t].at \in {"idle", "commit", "reject"}
  BY DEF Pause, Resume, Retry, Commit, Reject
<1>3. CASE Done(t)
  BY <1>1, <1>2, <1>3, MoveDone, MoveKeeps
<1>4. ASSUME NEW e \in Attempts \cup {NoAttempt}, e \in Attempts => state[e] # "none",
             NEW step \in {"converge", "resume", "reconcile"}, GoOn(t, step, e),
             step = "converge" => e # NoAttempt
      PROVE  IInv'
  <2>1. Moves(t)
    BY <1>2, <1>4, MoveGoOn DEF Steps, Starting, Recording, Cleaning, Unbound
  <2> QED
    BY <1>1, <2>1, MoveKeeps
<1>5. CASE Pause(t)
  BY <1>3, <1>4, <1>5, Prepared DEF Pause, IInv, Typed, TypeOK
<1>6. CASE Resume(t) \/ Retry(t)
  BY <1>3, <1>4, <1>6, NoAttemptAssumption DEF Resume, Retry
<1>7. CASE Commit(t)
  BY <1>3, <1>7 DEF Commit
<1>8. CASE Reject(t)
  <2>1. task[t].on \in Attempts /\ state[task[t].on] # "none"
    BY <1>8, TaskTyped, Prepared DEF Reject, IInv, Holds, StepOK, Unbound
  <2> QED
    BY <1>4, <1>8, <2>1 DEF Reject
<1> QED
  BY <1>5, <1>6, <1>7, <1>8

\* One owed writer is claimed and observed; only of an ended transfer.
LEMMA KeepPass == ASSUME IInv, Note, NEW t \in Tasks, NEW e \in Attempts, Pass(t, e) PROVE IInv'
<1>1. /\ UNCHANGED row /\ native' = native /\ JobsOnlyEnd
      /\ task[t].at # "answered" /\ transfer \in Ended /\ state[e] # "none"
  BY SameJobs, Prepared DEF Pass, Owed, IInv
<1>2. PICK s \in Seen(e) : Sees(t, "clean", e, s)
  BY DEF Pass
<1>3. s \in Reported \ {"paused"} /\ (s \in Stopped => native'[e] # "running")
  BY <1>1, SeenTrue DEF IInv
<1>4. Moves(t)
  BY <1>1, <1>2, <1>3, MoveTo DEF Sees, Steps, Starting
<1> QED
  BY <1>1, <1>4, Moved

LEMMA KeepObserve == ASSUME IInv, Note, NEW e \in Attempts, Observe(e) PROVE IInv'
<1>1. /\ UNCHANGED row /\ native' = native /\ JobsOnlyEnd
      /\ task[Cycle].at # "answered" /\ state[e] # "none"
  BY SameJobs, Prepared DEF Observe, IInv
<1>2. PICK s \in Seen(e) : task' = [task EXCEPT ![Cycle] = At("observed", e, s, TRUE)]
  BY DEF Observe
<1>3. s \in Reported \ {"paused"} /\ (s \in Stopped => native'[e] # "running")
  BY <1>1, SeenTrue DEF IInv
<1>4. Moves(Cycle)
  BY <1>1, <1>2, <1>3, MoveTo, CycleAssumption DEF Steps, Starting, Cleaning
<1> QED
  BY <1>1, <1>4, Moved, CycleAssumption

LEMMA KeepWake == ASSUME IInv, Note, Wake PROVE IInv'
<1>1. UNCHANGED row /\ JobsOnlyEnd
  BY SameJobs DEF Wake, IInv
<1>2. Moves(Cycle)
  BY MoveGoOn, CycleAssumption, NoAttemptAssumption
     DEF Wake, Steps, Starting, Recording, Cleaning, Unbound
<1> QED
  BY <1>1, <1>2, Moved, CycleAssumption

-----------------------------------------------------------------------------
(* The steps of a start *)

LEMMA KeepCheckStart == ASSUME IInv, Note, NEW t \in Tasks, CheckStart(t) PROVE IInv'
<1>1. PICK e \in Attempts : e = task[t].on
  BY TaskTyped DEF CheckStart, IInv, Holds, StepOK, Unbound
<1>2. /\ task[t].at = "starting" /\ native[e] = "none" /\ state[e] # "none"
      /\ UNCHANGED row /\ native' = native
      /\ \A u \in Tasks \ {t} : ~(task[u].on = e /\ task[u].at \in Starting)
  BY <1>1, Prepared DEF CheckStart, IInv, Ownership, NoJobYet, OneStart, Starting
<1>3. PICK k : /\ task' = [task EXCEPT ![t] = k] /\ Holds(k) /\ k.on = e
               /\ k.at \in {"submitting", "answered"}
               /\ k.at = "submitting" => MayStart(e)
               /\ k.at = "answered" => k.seen \in {"paused", "unknown"}
               /\ k.at = "submitting" => k.seen = task[t].seen
  <2>1. CASE MayStart(e) /\ Go(t, "submitting")
    <3> DEFINE k == [task[t] EXCEPT !.at = "submitting"]
    <3>1. Holds(k) /\ task' = [task EXCEPT ![t] = k]
      BY <1>2, <2>1, PutGo DEF IInv, Steps, Unbound, Recording
    <3>2. k.on = e /\ k.at = "submitting" /\ k.seen = task[t].seen
      BY <1>1, TaskTyped DEF IInv, Holds, TaskType
    <3> QED
      BY <2>1, <3>1, <3>2
  <2>2. ASSUME NEW s \in {"paused", "unknown"}, Sees(t, "answered", e, s)
        PROVE  \E k : /\ task' = [task EXCEPT ![t] = k] /\ Holds(k) /\ k.on = e
                      /\ k.at = "answered" /\ k.seen = s
    <3> DEFINE k == At("answered", e, s, FALSE)
    <3>1. Holds(k)
      BY PutAt DEF Steps, Reported
    <3>2. k.on = e /\ k.at = "answered" /\ k.seen = s
      BY DEF At
    <3> QED
      BY <2>2, <3>1, <3>2 DEF Sees
  <2> QED
    BY <1>1, <2>1, <2>2 DEF CheckStart
<1>4. /\ task' \in [Tasks -> TaskType] /\ task'[t] = k
      /\ \A u \in Tasks : StepOK(task'[u])
      /\ \A u \in Tasks \ {t} : task'[u] = task[u]
  BY <1>3, PutTask DEF IInv, Typed, TypeOK
<1>5. Typed'
  BY <1>2, <1>4, NoteGrows DEF IInv, Typed, TypeOK, StepOK, row
<1>6. \A f \in Attempts \ {e} : Live(f)' => Live(f)
  BY <1>2, <1>3, <1>4 DEF Live
<1>7. Live(e)' => k.at = "submitting" /\ MayStart(e)
  BY <1>2, <1>3, <1>4 DEF Live, Starting
<1>8. \A f \in Attempts : Unused(f)'
  BY <1>2, <1>3, <1>4 DEF IInv, Ownership, Unused, row
<1>9. \A f \in Attempts : Deferred(f)'
  <2>1. \A u \in Tasks \ {t} : ~(task'[u].on = e /\ task'[u].at \in {"starting", "submitting"})
    BY <1>2, <1>4 DEF Starting
  <2>2. Deferred(e)'
    <3>1. CASE k.at = "answered"
      BY <1>2, <1>4, <2>1, <3>1 DEF Deferred, row
    <3>2. CASE k.at = "submitting"
      <4>1. state'[e] # "paused" /\ k.seen # "paused"
        BY <1>1, <1>2, <1>3, <3>2 DEF MayStart, row, IInv, Ownership, Deferred
      <4>2. \A u \in Tasks : task[u].on = e => task[u].seen # "paused"
        BY <1>1, <1>2 DEF IInv, Ownership, Deferred
      <4> QED
        BY <1>4, <4>1, <4>2 DEF Deferred
    <3> QED
      BY <1>3, <3>1, <3>2
  <2>3. ASSUME NEW f \in Attempts \ {e} PROVE Deferred(f)'
    BY <1>2, <1>3, <1>4, <2>3 DEF IInv, Ownership, Deferred, row
  <2> QED
    BY <2>2, <2>3
<1>10. \A f \in Attempts : Owner(f)'
  <2>1. Owner(e)'
    BY <1>2, <1>7, NoteGrows DEF IInv, Ownership, Owner, MayStart, Mutating, Ended, row
  <2>2. ASSUME NEW f \in Attempts \ {e} PROVE Owner(f)'
    BY <1>2, <1>6, <2>2, NoteGrows DEF IInv, Ownership, Owner, row
  <2> QED
    BY <2>1, <2>2
<1>11. \A u \in Tasks : OneStart(u)' /\ NoJobYet(u)'
  BY <1>1, <1>2, <1>3, <1>4 DEF IInv, Ownership, OneStart, NoJobYet, Starting
<1>12. \A u \in Tasks : TrueStop(u)'
  <2> SUFFICES ASSUME NEW u \in Tasks, NEW f \in Attempts \ overtaken', f = task'[u].on,
                      task'[u].at \notin Guarded, task'[u].seen \in Stopped, Live(f)'
               PROVE  FALSE
    BY DEF TrueStop
  <2>1. task[u].seen = task'[u].seen /\ task[u].on = f /\ task[u].at \notin Guarded
    BY <1>1, <1>2, <1>3, <1>4 DEF Stopped, Guarded
  <2>2. ~Live(f)
    BY <2>1, NoteGrows DEF IInv, Ownership, TrueStop
  <2>3. f = e /\ k.at = "submitting"
    BY <1>6, <1>7, <2>2
  <2>4. task'[u].at # "answered"
    BY <1>2, <1>4, <2>1, <2>3 DEF Starting
  <2>5. Overtaking(e)'
    BY <1>3, <1>4, <2>3, <2>4 DEF Overtaking, InFlight, HoldsStop, Guarded
  <2> QED
    BY <2>3, <2>5, NoteGrows DEF IInv
<1>13. \A u \in Tasks : FreshStop(u)'
  <2> SUFFICES ASSUME NEW u \in Tasks, task'[u].on \notin overtaken', task'[u].at \in Guarded,
                      task'[u].fresh, task'[u].seen \in Stopped, native[task'[u].on] = "running"
               PROVE  \E v \in Tasks : /\ task'[v].on = task'[u].on /\ task'[v].at = "answered"
                                       /\ task'[v].seen \notin Stopped
    BY <1>2 DEF FreshStop
  <2>1. u # t /\ task'[u] = task[u]
    BY <1>3, <1>4 DEF Guarded
  <2>2. PICK v \in Tasks : /\ task[v].on = task[u].on /\ task[v].at = "answered"
                           /\ task[v].seen \notin Stopped
    BY <2>1, NoteGrows DEF IInv, Ownership, FreshStop
  <2> QED
    BY <1>2, <1>4, <2>1, <2>2
<1>14. \A u \in Tasks : Settled(u)'
  <2> SUFFICES ASSUME NEW u \in Tasks, task'[u].at \in Cleaning PROVE Settled(u)'
    BY DEF Settled, Cleaning
  <2>1. u # t /\ task'[u] = task[u] /\ transfer \in Ended
    BY <1>3, <1>4 DEF IInv, Ownership, Settled, Cleaning
  <2>2. task[u].on \in Attempts
    BY <2>1, TaskTyped DEF IInv, Holds, StepOK, Unbound, Cleaning
  <2>3. ~MayStart(e)
    BY <2>1, <1>2 DEF MayStart, Ended
  <2> QED
    BY <1>2, <1>6, <1>7, <2>1, <2>2, <2>3, NoteGrows DEF IInv, Ownership, Settled, row
<1> QED
  BY <1>5, <1>8, <1>9, <1>10, <1>11, <1>12, <1>13, <1>14 DEF IInv, Ownership

LEMMA KeepLaunch == ASSUME IInv, Note, NEW t \in Tasks, Launch(t) PROVE IInv'
<1>1. PICK e \in Attempts : e = task[t].on
  BY TaskTyped DEF Launch, IInv, Holds, StepOK, Unbound
<1>2. /\ task[t].at = "submitting" /\ native[e] = "none" /\ UNCHANGED row /\ Live(e)
      /\ state[e] # "paused" /\ state[e] # "none"
      /\ \A u \in Tasks \ {t} : ~(task[u].on = e /\ task[u].at \in Starting)
      /\ \A u \in Tasks : task[u].on = e => task[u].seen # "paused"
  BY <1>1, Prepared DEF Launch, IInv, Ownership, NoJobYet, OneStart, Deferred, Starting, Live
<1>3. PICK s \in {"running", "failed", "unknown"} :
         /\ task' = [task EXCEPT ![t] = At("answered", e, s, FALSE)]
         /\ native' \in [Attempts -> {"none", "running", "succeeded", "failed", "gone"}]
         /\ \A f \in Attempts \ {e} : native'[f] = native[f]
         /\ s = "failed" => native'[e] # "running"
  BY <1>1, <1>2 DEF Launch, Sees, IInv, Typed, TypeOK
<1> DEFINE k == At("answered", e, s, FALSE)
<1>4. Holds(k) /\ k.on = e /\ k.at = "answered" /\ k.seen = s
  BY PutAt DEF At, Steps, Reported, Stopped
<1>5. /\ task' \in [Tasks -> TaskType] /\ task'[t] = k
      /\ \A u \in Tasks : StepOK(task'[u])
      /\ \A u \in Tasks \ {t} : task'[u] = task[u]
  BY <1>3, <1>4, PutTask DEF IInv, Typed, TypeOK
<1> HIDE DEF k
<1>6. Typed'
  BY <1>2, <1>3, <1>5, NoteGrows DEF IInv, Typed, TypeOK, StepOK, row
<1>7. \A f \in Attempts : Live(f)' => Live(f)
  BY <1>2, <1>3, <1>4, <1>5 DEF Live
<1>a. \A u \in Tasks : task'[u].on = task[u].on
  BY <1>1, <1>4, <1>5
<1>b. \A u \in Tasks : task'[u].at \in {"starting", "submitting"} => u # t /\ task'[u] = task[u]
  BY <1>4, <1>5
<1>8. \A f \in Attempts : Unused(f)'
  <2> SUFFICES ASSUME NEW f \in Attempts, state[f] = "none"
               PROVE  /\ native'[f] = "none" /\ ~authorized[f] /\ current # f
                      /\ cleanup[f] = "none" /\ \A u \in Tasks : task'[u].on # f
    BY <1>2 DEF Unused, row
  <2>1. /\ f # e /\ native[f] = "none" /\ ~authorized[f] /\ current # f
        /\ cleanup[f] = "none" /\ \A u \in Tasks : task[u].on # f
    BY <1>2 DEF IInv, Ownership, Unused
  <2> QED
    BY <1>3, <1>a, <2>1
<1>9. \A f \in Attempts : Deferred(f)'
  <2>1. Deferred(e)'
    BY <1>2, <1>4, <1>5 DEF Deferred, row
  <2>2. ASSUME NEW f \in Attempts \ {e} PROVE Deferred(f)'
    BY <1>2, <1>3, <1>4, <1>5, <2>2 DEF IInv, Ownership, Deferred, row
  <2> QED
    BY <2>1, <2>2
<1>10. \A f \in Attempts : Owner(f)'
  BY <1>2, <1>7, NoteGrows DEF IInv, Ownership, Owner, row
<1>11. \A u \in Tasks : OneStart(u)' /\ NoJobYet(u)'
  <2>1. \A u \in Tasks : OneStart(u)'
    BY <1>1, <1>2, <1>4, <1>5, <1>a DEF IInv, Ownership, OneStart, Starting
  <2>2. ASSUME NEW u \in Tasks, task'[u].at \in {"starting", "submitting"}
        PROVE  native'[task'[u].on] = "none"
    <3>1. /\ u # t /\ task'[u] = task[u] /\ task[u].on # e /\ native[task[u].on] = "none"
      BY <1>2, <1>b, <2>2 DEF IInv, Ownership, NoJobYet, Starting
    <3>2. task[u].on \in Attempts
      BY <2>2, <3>1, TaskTyped DEF IInv, Holds, StepOK, Unbound
    <3> QED
      BY <1>3, <3>1, <3>2
  <2> QED
    BY <2>1, <2>2 DEF NoJobYet
<1>12. \A u \in Tasks : TrueStop(u)'
  <2>1. TrueStop(t)'
    <3>1. \A u \in Tasks : ~(task'[u].on = e /\ task'[u].at = "submitting")
      BY <1>2, <1>b DEF Starting
    <3>2. k.seen \in Stopped => native'[e] # "running"
      BY <1>3, <1>4 DEF Stopped
    <3> QED
      BY <1>4, <1>5, <3>1, <3>2 DEF TrueStop, Live
  <2>2. ASSUME NEW u \in Tasks \ {t} PROVE TrueStop(u)'
    BY <1>5, <1>7, <2>2, NoteGrows DEF IInv, Ownership, TrueStop
  <2> QED
    BY <2>1, <2>2
<1>13. \A u \in Tasks : FreshStop(u)'
  <2> SUFFICES ASSUME NEW u \in Tasks, task'[u].on \notin overtaken', task'[u].at \in Guarded,
                      task'[u].fresh, task'[u].seen \in Stopped, native'[task'[u].on] = "running"
               PROVE  \E v \in Tasks : /\ task'[v].on = task'[u].on /\ task'[v].at = "answered"
                                       /\ task'[v].seen \notin Stopped
    BY DEF FreshStop
  <2>1. u # t /\ task'[u] = task[u] /\ task[u].on \in Attempts
    BY <1>4, <1>5, TaskTyped DEF Guarded, IInv, Holds, StepOK, Unbound
  <2>2. CASE task[u].on = e
    <3>1. k.seen \notin Stopped
      BY <1>3, <1>4, <2>1, <2>2 DEF Stopped
    <3> QED
      BY <1>4, <1>5, <2>1, <2>2, <3>1
  <2>3. CASE task[u].on # e
    <3>1. PICK v \in Tasks : /\ task[v].on = task[u].on /\ task[v].at = "answered"
                             /\ task[v].seen \notin Stopped
      BY <1>3, <2>1, <2>3, NoteGrows DEF IInv, Ownership, FreshStop
    <3> QED
      BY <1>2, <1>5, <2>1, <3>1
  <2> QED
    BY <2>2, <2>3
<1>14. \A u \in Tasks : Settled(u)'
  <2> SUFFICES ASSUME NEW u \in Tasks, task'[u].at \in Cleaning PROVE Settled(u)'
    BY DEF Settled, Cleaning
  <2>1. u # t /\ task'[u] = task[u] /\ task[u].on \in Attempts
    BY <1>4, <1>5, TaskTyped DEF IInv, Holds, StepOK, Unbound, Cleaning
  <2> QED
    BY <1>2, <1>7, <2>1, NoteGrows DEF IInv, Ownership, Settled, row
<1> QED
  BY <1>6, <1>8, <1>9, <1>10, <1>11, <1>12, <1>13, <1>14 DEF IInv, Ownership

LEMMA KeepPrepare ==
    ASSUME IInv, Note, NEW t \in Tasks, NEW e \in Attempts, Prepare(t, e) PROVE IInv'
<1> DEFINE k == At("starting", e, "none", FALSE)
<1>1. /\ task[t].at = "idle" /\ transfer = "live" /\ current = NoAttempt /\ state[e] = "none"
      /\ native[e] = "none" /\ \A u \in Tasks : task[u].on # e
      /\ UNCHANGED <<transfer, paused, status, cleanup, native>>
  BY DEF Prepare, IInv, Ownership, Unused
<1>2. /\ state' = [state EXCEPT ![e] = "prepared"]
      /\ authorized' = [authorized EXCEPT ![e] = TRUE] /\ current' = e
  BY DEF Prepare
<1>3. Holds(k) /\ k.on = e /\ k.at = "starting" /\ k.seen = "none"
  BY DEF Holds, StepOK, TaskType, At, Steps, Recording, Unbound
<1>4. /\ task' \in [Tasks -> TaskType] /\ task'[t] = k
      /\ \A u \in Tasks : StepOK(task'[u])
      /\ \A u \in Tasks \ {t} : task'[u] = task[u]
  BY <1>3, PutTask DEF Prepare, GoOn, IInv, Typed, TypeOK
<1> HIDE DEF k
<1>5. Typed'
  BY <1>1, <1>2, <1>4, NoteGrows DEF IInv, Typed, TypeOK, StepOK, Mutating
<1>6. \A f \in Attempts : Live(f)' => Live(f) /\ f # e
  BY <1>1, <1>3, <1>4 DEF Live
<1>7. \A f \in Attempts : ~authorized[f]
  BY <1>1, NoAttemptAssumption DEF IInv, Ownership, Owner
<1>8. \A f \in Attempts \ {e} : state'[f] = state[f] /\ authorized'[f] = authorized[f]
  BY <1>2 DEF IInv, Typed, TypeOK
<1>9. \A f \in Attempts : Unused(f)'
  <2>1. state'[e] = "prepared"
    BY <1>2 DEF IInv, Typed, TypeOK
  <2>2. ASSUME NEW f \in Attempts \ {e} PROVE Unused(f)'
    BY <1>1, <1>2, <1>3, <1>4, <1>8, <2>2 DEF IInv, Ownership, Unused
  <2> QED
    BY <2>1, <2>2 DEF Unused
<1>10. \A f \in Attempts : Deferred(f)'
  <2>1. Deferred(e)'
    <3>1. state'[e] = "prepared"
      BY <1>2 DEF IInv, Typed, TypeOK
    <3> QED
      BY <1>1, <1>3, <1>4, <3>1 DEF Deferred
  <2>2. ASSUME NEW f \in Attempts \ {e} PROVE Deferred(f)'
    BY <1>1, <1>3, <1>4, <1>8, <2>2 DEF IInv, Ownership, Deferred
  <2> QED
    BY <2>1, <2>2
<1>11. \A f \in Attempts : Owner(f)'
  BY <1>2, <1>6, <1>7, <1>8, NoteGrows DEF IInv, Ownership, Owner
<1>12. \A u \in Tasks : OneStart(u)' /\ NoJobYet(u)'
  BY <1>1, <1>3, <1>4 DEF IInv, Ownership, OneStart, NoJobYet, Starting
<1>13. \A u \in Tasks : TrueStop(u)'
  BY <1>3, <1>4, <1>6, NoteGrows DEF IInv, Ownership, TrueStop, Stopped
<1>14. \A u \in Tasks : FreshStop(u)'
  <2>1. ASSUME NEW v \in Tasks, task[v].at = "answered" PROVE task'[v] = task[v]
    BY <1>1, <1>4, <2>1
  <2> QED
    BY <1>1, <1>3, <1>4, <2>1, NoteGrows DEF IInv, Ownership, FreshStop, Guarded
<1>15. \A u \in Tasks : Settled(u)'
  BY <1>1, <1>3, <1>4, <1>6, NoteGrows
     DEF IInv, Ownership, Settled, Cleaning, Typed, StepOK, Unbound
<1> QED
  BY <1>5, <1>9, <1>10, <1>11, <1>12, <1>13, <1>14, <1>15 DEF IInv, Ownership

-----------------------------------------------------------------------------
(* The steps that withdraw authority, and the ends of a transfer *)

\* detach_retired_writer acts on a recorded stop, and a live writer has none.
LEMMA KeepDetach == ASSUME IInv, Note, NEW t \in Tasks, Detach(t) PROVE IInv'
<1>1. task[t].on \in Attempts /\ task[t].at # "answered"
  BY TaskTyped DEF Detach, IInv, Holds, StepOK, Unbound
<1>2. Moves(t) /\ JobsOnlyEnd
  BY <1>1, MoveDone, SameJobs DEF Detach, IInv
<1>3. RowsKeep
  <2>1. {"paused", "queued"} \subseteq Statuses
    BY DEF Statuses, StatusOf, Reported, Stopped
  <2>2. status' \in Statuses
    BY <2>1 DEF Detach, IInv, Typed, TypeOK
  <2>3. \A e \in Attempts \ overtaken : Live(e) => ~(e = task[t].on /\ state[e] \in Stopped)
    BY DEF IInv, Ownership, Owner, Mutating, Stopped
  <2>4. \A e \in Attempts : authorized'[e] => authorized[e] /\ current' = e
    BY <1>1, NoAttemptAssumption DEF Detach, IInv, Typed, TypeOK, Ownership, Owner
  <2> QED
    BY <1>1, <2>2, <2>3, <2>4 DEF RowsKeep, Detach, IInv, Typed, TypeOK, Ownership, Owner, Unused
<1> QED
  BY <1>2, <1>3, MoveRows

\* transition_recovery releases the current attempt only once it is terminal.
LEMMA KeepRequeue == ASSUME IInv, Note, NEW t \in Tasks, Requeue(t) PROVE IInv'
<1>1. Moves(t) /\ JobsOnlyEnd
  BY MoveDone, SameJobs DEF Requeue, IInv
<1>2. {"error", "queued"} \subseteq Statuses
  BY DEF Statuses, StatusOf, Reported, Stopped
<1>3. UNCHANGED <<transfer, paused, state, cleanup>> /\ status' \in Statuses
  BY <1>2 DEF Requeue, IInv, Typed, TypeOK
<1>4. CASE UNCHANGED <<current, authorized>>
  BY <1>1, <1>3, <1>4, MoveRows DEF RowsKeep, IInv, Typed, TypeOK, Ownership, Owner, Unused
<1>5. CASE /\ current # NoAttempt => state[current] \in Stopped
           /\ current' = NoAttempt
           /\ authorized' = [e \in Attempts |-> authorized[e] /\ e # current]
  <2>1. \A e \in Attempts : ~authorized'[e]
    BY <1>5 DEF IInv, Ownership, Owner
  <2>2. \A e \in Attempts \ overtaken : ~Live(e)
    <3> SUFFICES ASSUME NEW e \in Attempts \ overtaken, Live(e) PROVE FALSE
      OBVIOUS
    <3>1. current = e /\ state[e] \in Mutating
      BY DEF IInv, Ownership, Owner
    <3> QED
      BY <1>5, <3>1, NoAttemptAssumption DEF Mutating, Stopped
  <2>3. authorized' \in [Attempts -> BOOLEAN]
    BY <1>5 DEF IInv, Typed, TypeOK
  <2> QED
    BY <1>1, <1>3, <1>5, <2>1, <2>2, <2>3, MoveRows
       DEF RowsKeep, IInv, Typed, TypeOK, Ownership, Unused
<1> QED
  BY <1>4, <1>5 DEF Requeue

\* execution_cleanup_complete follows a stop that was true when it was recorded.
LEMMA KeepComplete == ASSUME IInv, Note, NEW t \in Tasks, Complete(t) PROVE IInv'
<1>1. task[t].on \in Attempts /\ state[task[t].on] # "none"
  BY TaskTyped, Prepared DEF Complete, IInv, Holds, StepOK, Unbound
<1>2. Moves(t) /\ JobsOnlyEnd
  BY <1>1, MoveDone, SameJobs DEF Complete, IInv
<1>3. RowsKeep
  <2>1. \A e \in Attempts \ overtaken : Live(e) => e # task[t].on
    BY DEF Complete, IInv, Ownership, Settled
  <2> QED
    BY <1>1, <2>1 DEF RowsKeep, Complete, IInv, Typed, TypeOK, Ownership, Owner, Unused
<1> QED
  BY <1>2, <1>3, MoveRows

\* Cancel and Delete leave every live writer owed cleanup.
LEMMA KeepEnd == ASSUME IInv, Note, NEW t \in Tasks, Cancel(t) \/ Delete(t) PROVE IInv'
<1>1. Moves(t) /\ JobsOnlyEnd
  BY MoveGo, SameJobs
     DEF Cancel, Delete, IInv, Starting, Guarded, Steps, Recording, Cleaning, Unbound
<1>2. CASE Cancel(t)
  <2>1. status' \in Statuses
    <3>1. "cancelled" \in Statuses
      BY DEF Statuses, StatusOf, Reported, Stopped
    <3> QED
      BY <1>2, <3>1 DEF Cancel, IInv, Typed, TypeOK
  <2>2. /\ cleanup' \in [Attempts -> {"none", "pending", "complete"}]
        /\ \A e \in Attempts \ overtaken : Live(e) => cleanup'[e] = "pending"
        /\ \A e \in Attempts : state[e] = "none" => cleanup'[e] = "none"
    <3>1. CASE transfer = "live"
      BY <1>2, <3>1 DEF Cancel, IInv, Typed, TypeOK, Ownership, Owner, Unused
    <3>2. CASE transfer # "live"
      BY <1>2, <3>2 DEF Cancel, IInv, Typed, TypeOK, Ownership, Owner, Unused, Ended
    <3> QED
      BY <3>1, <3>2
  <2>3. RowsKeep
    BY <1>2, <2>1, <2>2 DEF Cancel, RowsKeep, Ended, IInv, Typed, TypeOK, Ownership, Owner
  <2> QED
    BY <1>1, <2>3, MoveRows
<1>3. CASE Delete(t)
  <2>1. /\ cleanup' \in [Attempts -> {"none", "pending", "complete"}]
        /\ \A e \in Attempts \ overtaken : Live(e) => cleanup'[e] = "pending"
        /\ \A e \in Attempts : state[e] = "none" => cleanup'[e] = "none"
    BY <1>3 DEF Delete, IInv, Typed, TypeOK, Ownership, Owner, Unused
  <2>2. RowsKeep
    BY <1>3, <2>1 DEF Delete, RowsKeep, Ended, IInv, Typed, TypeOK, Ownership, Owner
  <2> QED
    BY <1>1, <2>2, MoveRows
<1> QED
  BY <1>2, <1>3

-----------------------------------------------------------------------------
(* The steps of nobody's task *)

LEMMA KeepAggregate == ASSUME IInv, Note, Aggregate PROVE IInv'
<1>1. /\ UNCHANGED <<paused, status, current, state, authorized, cleanup, native, task>>
      /\ transfer = "live" /\ transfer' = "completed"
  BY DEF Aggregate
<1>2. Typed'
  BY <1>1, NoteGrows DEF IInv, Typed, TypeOK, StepOK
<1>3. \A e \in Attempts : Unused(e)' /\ Deferred(e)' /\ Owner(e)'
  BY <1>1, NoteGrows DEF IInv, Ownership, Unused, Deferred, Owner, Live, Ended
<1>4. \A t \in Tasks : OneStart(t)' /\ NoJobYet(t)' /\ TrueStop(t)' /\ FreshStop(t)' /\ Settled(t)'
  BY <1>1, NoteGrows
     DEF IInv, Ownership, OneStart, NoJobYet, TrueStop, FreshStop, Settled, Live, Ended
<1> QED
  BY <1>2, <1>3, <1>4 DEF IInv, Ownership

LEMMA KeepNative == ASSUME IInv, Note, NEW e \in Attempts, NativeStep(e) PROVE IInv'
<1>1. /\ UNCHANGED row /\ task' = task
      /\ native' \in [Attempts -> {"none", "running", "succeeded", "failed", "gone"}]
      /\ \A f \in Attempts : native'[f] = "running" => native[f] = "running"
      /\ \A f \in Attempts : native[f] = "none" => native'[f] = "none"
  BY DEF NativeStep, IInv, Typed, TypeOK, row
<1>2. Typed'
  BY <1>1, NoteGrows DEF IInv, Typed, TypeOK, StepOK, row
<1>3. \A f \in Attempts : Live(f)' => Live(f)
  BY <1>1 DEF Live
<1>4. \A f \in Attempts : Unused(f)' /\ Deferred(f)'
  BY <1>1 DEF IInv, Ownership, Unused, Deferred, row
<1>5. \A f \in Attempts : Owner(f)'
  BY <1>1, <1>3, NoteGrows DEF IInv, Ownership, Owner, row
<1>6. \A t \in Tasks : task[t].at \notin Unbound => task[t].on \in Attempts
  BY TaskTyped DEF IInv, Holds, StepOK
<1>7. \A t \in Tasks : OneStart(t)' /\ NoJobYet(t)'
  BY <1>1, <1>6 DEF IInv, Ownership, OneStart, NoJobYet, Unbound
<1>8. \A t \in Tasks : TrueStop(t)'
  BY <1>1, <1>3, NoteGrows DEF IInv, Ownership, TrueStop
<1>9. \A t \in Tasks : FreshStop(t)'
  BY <1>1, <1>6, NoteGrows DEF IInv, Ownership, FreshStop, Guarded, Unbound
<1>10. \A t \in Tasks : Settled(t)'
  BY <1>1, <1>3, <1>6, NoteGrows DEF IInv, Ownership, Settled, Unbound, row
<1> QED
  BY <1>2, <1>4, <1>5, <1>7, <1>8, <1>9, <1>10 DEF IInv, Ownership

LEMMA KeepRestart == ASSUME IInv, Note, Restart PROVE IInv'
<1>1. Holds(Idle) /\ Idle.at = "idle" /\ Idle.on = NoAttempt /\ Idle.seen = "none"
  BY DEF Idle, At, Holds, StepOK, TaskType, Steps, Unbound, Recording
<1>2. /\ UNCHANGED row /\ native' = native
      /\ \A t \in Tasks : task'[t] = Idle
      /\ task' \in [Tasks -> TaskType] /\ \A t \in Tasks : StepOK(task'[t])
  BY <1>1 DEF Restart, Holds
<1>3. Typed'
  BY <1>2, NoteGrows DEF IInv, Typed, TypeOK, StepOK, row
<1>4. \A e \in Attempts : Live(e)' => Live(e)
  BY <1>1, <1>2 DEF Live
<1>5. \A e \in Attempts : Unused(e)' /\ Deferred(e)'
  BY <1>1, <1>2, NoAttemptAssumption DEF IInv, Ownership, Unused, Deferred, row
<1>6. \A e \in Attempts : Owner(e)'
  BY <1>2, <1>4, NoteGrows DEF IInv, Ownership, Owner, row
<1>7. \A t \in Tasks : OneStart(t)' /\ NoJobYet(t)' /\ TrueStop(t)' /\ FreshStop(t)' /\ Settled(t)'
  BY <1>1, <1>2
     DEF OneStart, NoJobYet, TrueStop, FreshStop, Settled, Starting, Guarded, Cleaning, Stopped
<1> QED
  BY <1>3, <1>5, <1>6, <1>7 DEF IInv, Ownership

LEMMA KeepStutter == ASSUME IInv, UNCHANGED vars PROVE IInv'
<1>1. Typed'
  BY DEF vars, IInv, Typed, TypeOK, StepOK
<1>2. \A e \in Attempts : Unused(e)' /\ Deferred(e)' /\ Owner(e)'
  BY DEF vars, IInv, Ownership, Unused, Deferred, Owner, Live, Overtaking, InFlight, HoldsStop
<1>3. \A t \in Tasks : OneStart(t)' /\ NoJobYet(t)' /\ TrueStop(t)' /\ FreshStop(t)' /\ Settled(t)'
  BY DEF vars, IInv, Ownership, OneStart, NoJobYet, TrueStop, FreshStop, Settled, Live
<1> QED
  BY <1>1, <1>2, <1>3 DEF IInv, Ownership

-----------------------------------------------------------------------------
(* The invariant and what follows from it *)

LEMMA InitIInv == Init => IInv
<1> SUFFICES ASSUME Init PROVE IInv
  OBVIOUS
<1>1. Holds(Idle) /\ Idle.at = "idle" /\ Idle.on = NoAttempt /\ Idle.seen = "none"
  BY DEF Idle, At, Holds, StepOK, TaskType, Steps, Unbound, Recording
<1>2. Typed
  <2>1. "queued" \in Statuses
    BY DEF Statuses
  <2> QED
    BY <1>1, <2>1 DEF Init, Typed, TypeOK, Holds
<1>3. \A t \in Tasks : task[t] = Idle
  BY DEF Init
<1>4. \A e \in Attempts : Unused(e) /\ Deferred(e) /\ Owner(e)
  BY <1>1, <1>3, NoAttemptAssumption
     DEF Init, Unused, Deferred, Owner, Live, Overtaking, InFlight
<1>5. \A t \in Tasks : OneStart(t) /\ NoJobYet(t) /\ TrueStop(t) /\ FreshStop(t) /\ Settled(t)
  BY <1>1, <1>3
     DEF OneStart, NoJobYet, TrueStop, FreshStop, Settled, Starting, Guarded, Cleaning, Stopped
<1> QED
  BY <1>2, <1>4, <1>5 DEF IInv, Ownership

LEMMA StepIInv == IInv /\ [Next]_vars => IInv'
<1> SUFFICES ASSUME IInv, [Next]_vars PROVE IInv'
  OBVIOUS
<1>1. CASE UNCHANGED vars
  BY <1>1, KeepStutter
<1>2. CASE Next
  <2>1. Note /\ Step
    BY <1>2 DEF Next
  <2>2. ASSUME NEW t \in Tasks, Continue(t) PROVE IInv'
    BY <2>1, <2>2, KeepCheckStart, KeepLaunch, KeepRecordStart, KeepConverge, KeepRecordObserved,
       KeepTurns, KeepCancel, KeepRecords, KeepLooks, KeepDetach, KeepRequeue, KeepIntent,
       KeepPass, KeepComplete
       DEF Continue
  <2>3. ASSUME NEW t \in Tasks, Control(t) PROVE IInv'
    BY <2>1, <2>3, KeepIntent, KeepEnd DEF Control
  <2>4. ASSUME NEW t \in Tasks, NEW e \in Attempts, Prepare(t, e) PROVE IInv'
    BY <2>1, <2>4, KeepPrepare
  <2>5. CASE CyclePass \/ CycleObserve \/ Wake
    BY <2>1, <2>5, KeepPass, KeepObserve, KeepWake, CycleAssumption DEF CyclePass, CycleObserve
  <2>6. CASE Aggregate \/ (\E e \in Attempts : NativeStep(e)) \/ Restart
    BY <2>1, <2>6, KeepAggregate, KeepNative, KeepRestart
  <2> QED
    BY <2>1, <2>2, <2>3, <2>4, <2>5, <2>6 DEF Step
<1> QED
  BY <1>1, <1>2

\* The inductive invariant of ExecutionLifecycle holds in every behaviour.
THEOREM Inductive == Spec => []IInv
BY InitIInv, StepIInv, PTL DEF Spec

\* Every variable keeps its type: in particular a task about to record an
\* observation has one, of an attempt that exists.
THEOREM TypeCorrect == Spec => []TypeOK
<1>1. IInv => TypeOK
  BY DEF IInv, Typed
<1> QED
  BY <1>1, Inductive, PTL

\* However many tasks dispatch, observe, pause, recover, cancel and clean up,
\* a native writer whose start did not lose its race is never orphaned.
THEOREM NeverOrphaned == Spec => []OwnedWriter
<1>1. IInv => OwnedWriter
  BY DEF IInv, Ownership, Owner, Live, OwnedWriter
<1> QED
  BY <1>1, Inductive, PTL

\* ... so at most one such writer runs on the file at a time.
THEOREM OneWriter == Spec => []SingleWriter
<1>1. IInv => SingleWriter
  BY DEF IInv, Ownership, Owner, Live, SingleWriter
<1> QED
  BY <1>1, Inductive, PTL

-----------------------------------------------------------------------------
(* Delivery after the end of the transfer *)

LEMMA RecordNotDelivering ==
    ASSUME NEW t \in Tasks, NEW next, Record(t, next), transfer \in Ended
    PROVE  status' = status
BY DEF Record

\* Of the steps that carry a task on, none completes the file of an ended transfer.
LEMMA ContinueNotDelivering ==
    ASSUME NEW t \in Tasks, Continue(t), transfer \in Ended, status' = "completed"
    PROVE  status = "completed"
<1>1. CASE \/ CheckStart(t) \/ Launch(t) \/ Converge(t) \/ Decide(t) \/ Fence(t)
           \/ ConvergeControl(t) \/ Retire(t) \/ StopWriter(t) \/ Reconcile(t)
           \/ Verify(t) \/ Accept(t) \/ PassDone(t) \/ Reclaim(t) \/ Complete(t)
           \/ \E e \in Attempts : Pass(t, e)
  BY <1>1 DEF CheckStart, Launch, Converge, Decide, Fence, ConvergeControl, Retire, StopWriter,
              Reconcile, Verify, Accept, PassDone, Reclaim, Complete, Pass, row
<1>2. CASE \/ RecordStart(t) \/ RecordObserved(t) \/ RecordFence(t) \/ RecordConverged(t)
           \/ RecordRetired(t) \/ RecordLost(t) \/ RecordReconciled(t)
           \/ RecordCleanup(t) \/ RecordReclaimed(t)
  BY <1>2, RecordNotDelivering
     DEF RecordStart, RecordObserved, RecordFence, RecordConverged, RecordRetired, RecordLost,
         RecordReconciled, RecordCleanup, RecordReclaimed
<1>3. CASE Detach(t) \/ Requeue(t) \/ Commit(t) \/ Reject(t)
  BY <1>3 DEF Detach, Requeue, Commit, Reject, Ended
<1> QED
  BY <1>1, <1>2, <1>3 DEF Continue

\* A late success is never delivered: no step completes the file of a
\* cancelled or deleted transfer.
THEOREM NeverDeliveredLate == Spec => NoLateDelivery
<1>1. [Next]_vars => [(transfer \in Ended /\ status' = "completed") => status = "completed"]_vars
  <2> SUFFICES ASSUME Next, transfer \in Ended, status' = "completed"
               PROVE  status = "completed"
    BY DEF vars
  <2>1. ASSUME NEW t \in Tasks, Control(t) PROVE status = "completed"
    BY <2>1 DEF Control, Pause, Resume, Retry, Cancel, Delete, row, Ended
  <2>2. ASSUME NEW t \in Tasks, NEW e \in Attempts, Prepare(t, e) PROVE status = "completed"
    BY <2>2 DEF Prepare
  <2>3. CASE CyclePass \/ CycleObserve \/ Wake
    BY <2>3 DEF CyclePass, CycleObserve, Wake, Pass, Observe, row
  <2>4. CASE Aggregate \/ (\E e \in Attempts : NativeStep(e)) \/ Restart
    BY <2>4 DEF Aggregate, NativeStep, Restart, row
  <2> QED
    BY <2>1, <2>2, <2>3, <2>4, ContinueNotDelivering DEF Next, Step
<1> QED
  BY <1>1, PTL DEF Spec, NoLateDelivery
=============================================================================
