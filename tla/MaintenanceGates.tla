--------------------------- MODULE MaintenanceGates ---------------------------
(***************************************************************************)
(* The two gates a restore and a database wipe close one inside the other:  *)
(* the application gate over operations (mutations, executions) and the      *)
(* database gate over sessions.  Both are conditions on counters; the code   *)
(* between two awaits of one task is one action.                            *)
(*                                                                         *)
(* What a task does as the holder of a gate is neither counted nor limited   *)
(* by it, and is left out.                                                  *)
(*                                                                         *)
(* The gates do not look at the sessions of the task that asks.  That nobody *)
(* asks for one with a session of its own open is a property of the callers, *)
(* taken over from them in AskMaintenance and AskDatabase: the gates' own    *)
(* actions (Claim, ClaimDatabase) have no such guard.                       *)
(***************************************************************************)
EXTENDS Naturals, FiniteSets

CONSTANTS
    Tasks,          \* asyncio tasks
    Sessions,       \* get_db() sessions that may be open at one time
    MaxDepth,       \* bound: how deep one task nests its operations
    NoTask

ASSUME TasksAssumption == IsFiniteSet(Tasks) /\ NoTask \notin Tasks
ASSUME SessionsAssumption == IsFiniteSet(Sessions)
ASSUME DepthAssumption == MaxDepth \in Nat \ {0}

VARIABLES
    depth,          \* _depths: operations of each task, nested ones included
    active,         \* _active_operations: the outermost ones, counted
    owner,          \* _owner of the application gate
    entered,        \* its maintenance has drained the operations
    opener,         \* the task of each open (counted) session
    open,           \* _active_sessions
    dbOwner,        \* _owner of the database gate
    dbEntered,      \* its maintenance has drained the sessions
    sealed          \* both gates sealed after an unresolved restore

vars == <<depth, active, owner, entered, opener, open, dbOwner, dbEntered, sealed>>

app == <<depth, active, owner, entered>>
db  == <<opener, open, dbOwner, dbEntered>>

Init ==
    /\ depth = [t \in Tasks |-> 0] /\ active = 0
    /\ owner = NoTask /\ entered = FALSE
    /\ opener = [s \in Sessions |-> NoTask] /\ open = 0
    /\ dbOwner = NoTask /\ dbEntered = FALSE
    /\ sealed = FALSE

\* t awaits a drain and does nothing else.
Waiting(t) == (owner = t /\ ~entered) \/ (dbOwner = t /\ ~dbEntered)

Idle(t) == \A s \in Sessions : opener[s] # t

-----------------------------------------------------------------------------
(* ApplicationMaintenanceGate *)

\* operation: admission is closed to new tasks from the claim on, never to one
\* that is already working.
Enter(t) ==
    /\ ~sealed /\ ~Waiting(t) /\ t # owner
    /\ owner = NoTask \/ depth[t] > 0
    /\ depth[t] < MaxDepth
    /\ depth' = [depth EXCEPT ![t] = @ + 1]
    /\ active' = IF depth[t] = 0 THEN active + 1 ELSE active
    /\ UNCHANGED <<owner, entered, db, sealed>>

\* Mutant: the end of a nested operation is taken for the end of the outer one.
LeaveEarly(t) ==
    /\ depth[t] > 0 /\ ~Waiting(t) /\ t # owner
    /\ depth[t] = 1 => Idle(t)
    /\ depth' = [depth EXCEPT ![t] = @ - 1]
    /\ active' = IF active > 0 THEN active - 1 ELSE active
    /\ UNCHANGED <<owner, entered, db, sealed>>

Leave(t) ==
    /\ depth[t] > 0 /\ ~Waiting(t) /\ t # owner
    /\ depth[t] = 1 => Idle(t)
    /\ depth' = [depth EXCEPT ![t] = @ - 1]
    /\ active' = IF depth[t] = 1 /\ active > 0 THEN active - 1 ELSE active
    /\ UNCHANGED <<owner, entered, db, sealed>>

\* maintenance: the claim closes admission at once, whoever is still working.
Claim(t) ==
    /\ ~sealed /\ ~Waiting(t)
    /\ owner = NoTask
    /\ owner' = t /\ entered' = FALSE
    /\ UNCHANGED <<depth, active, db, sealed>>

\* An operation of its own (a settings write that upgrades) is not waited for.
Own(t) == IF depth[t] > 0 THEN 1 ELSE 0

\* Mutant: the drain allows for an operation of its own that is not there.
DrainButOne(t) ==
    /\ owner = t /\ ~entered
    /\ active <= 1
    /\ entered' = TRUE
    /\ UNCHANGED <<depth, active, owner, db, sealed>>

Drain(t) ==
    /\ owner = t /\ ~entered
    /\ active <= Own(t)
    /\ entered' = TRUE
    /\ UNCHANGED <<depth, active, owner, db, sealed>>

\* MAINTENANCE_DRAIN_SECONDS ran out, or the task was cancelled.
GiveUp(t) ==
    /\ owner = t /\ ~entered
    /\ owner' = NoTask
    /\ UNCHANGED <<depth, active, entered, db, sealed>>

Release(t) ==
    /\ owner = t /\ entered /\ dbOwner # t /\ Idle(t)
    /\ owner' = NoTask /\ entered' = FALSE
    /\ UNCHANGED <<depth, active, db, sealed>>

-----------------------------------------------------------------------------
(* DatabaseMaintenanceGate *)

\* Mutant: a task that has a session may open others during the drain.
OpenSessionNested(t, s) ==
    /\ ~sealed /\ ~Waiting(t)
    /\ dbOwner = NoTask \/ ~Idle(t)
    /\ opener[s] = NoTask
    /\ opener' = [opener EXCEPT ![s] = t]
    /\ open' = open + 1
    /\ UNCHANGED <<app, dbOwner, dbEntered, sealed>>

\* session: refused to everybody but the owner from the claim on, a task that
\* already has one included.
OpenSession(t, s) ==
    /\ ~sealed /\ ~Waiting(t)
    /\ dbOwner = NoTask
    /\ opener[s] = NoTask
    /\ opener' = [opener EXCEPT ![s] = t]
    /\ open' = open + 1
    /\ UNCHANGED <<app, dbOwner, dbEntered, sealed>>

\* Mutant: a session is counted out twice, and the floor at zero is gone.
CloseSessionTwice(t, s) ==
    /\ opener[s] = t /\ ~Waiting(t)
    /\ opener' = [opener EXCEPT ![s] = NoTask]
    /\ open' = open - 2
    /\ UNCHANGED <<app, dbOwner, dbEntered, sealed>>

CloseSession(t, s) ==
    /\ opener[s] = t /\ ~Waiting(t)
    /\ opener' = [opener EXCEPT ![s] = NoTask]
    /\ open' = IF open > 0 THEN open - 1 ELSE 0
    /\ UNCHANGED <<app, dbOwner, dbEntered, sealed>>

\* maintenance: the claim refuses sessions at once, whoever has one open.
ClaimDatabase(t) ==
    /\ ~sealed /\ ~Waiting(t)
    /\ dbOwner = NoTask
    /\ dbOwner' = t /\ dbEntered' = FALSE
    /\ UNCHANGED <<app, opener, open, sealed>>

\* Mutant: the drain looks for the sessions of operations only.
DrainDatabaseIdle(t) ==
    /\ dbOwner = t /\ ~dbEntered
    /\ active = 0
    /\ dbEntered' = TRUE
    /\ UNCHANGED <<app, opener, open, dbOwner, sealed>>

DrainDatabase(t) ==
    /\ dbOwner = t /\ ~dbEntered
    /\ open = 0
    /\ dbEntered' = TRUE
    /\ UNCHANGED <<app, opener, open, dbOwner, sealed>>

\* There is no time limit here: only a cancellation ends the wait.
CancelDatabase(t) ==
    /\ dbOwner = t /\ ~dbEntered
    /\ dbOwner' = NoTask
    /\ UNCHANGED <<app, opener, open, dbEntered, sealed>>

ReleaseDatabase(t) ==
    /\ dbOwner = t /\ dbEntered
    /\ dbOwner' = NoTask /\ dbEntered' = FALSE
    /\ UNCHANGED <<app, opener, open, sealed>>

\* Mutant: the seal is set once database maintenance has been left.
SealLate(t) ==
    /\ owner = t /\ entered /\ dbOwner = NoTask
    /\ sealed' = TRUE
    /\ UNCHANGED <<app, db>>

\* _seal_unresolved, called while the restore still holds both gates.
Seal(t) ==
    /\ dbOwner = t /\ dbEntered
    /\ sealed' = TRUE
    /\ UNCHANGED <<app, db>>

-----------------------------------------------------------------------------
(* Who asks for the gates.  The guards that the gates lack are assumptions  *)
(* read off the call sites.                                                *)

\* The admissions of a restore, a wipe and a connection change, none of which is
\* asked for inside a get_db() block; an operation of the task's own may be open.
AskMaintenance(t) == Idle(t) /\ Claim(t)

\* restore_backup and the wipe: inside their application maintenance and outside
\* any get_db() block; their routes (exempt in main.py) enter no operation.
AskDatabase(t) ==
    /\ owner = t /\ entered
    /\ Idle(t) /\ depth[t] = 0
    /\ ClaimDatabase(t)

Work(t) ==
    \/ Enter(t) \/ AskMaintenance(t)
    \/ \E s \in Sessions : OpenSession(t, s)

\* What a task that has begun something does to end it.
Finish(t) ==
    \/ Leave(t)
    \/ \E s \in Sessions : CloseSession(t, s)

Maintain(t) ==
    \/ Drain(t) \/ GiveUp(t) \/ Release(t)
    \/ AskDatabase(t) \/ DrainDatabase(t) \/ CancelDatabase(t) \/ ReleaseDatabase(t)
    \/ Seal(t)

Next == \E t \in Tasks : Work(t) \/ Finish(t) \/ Maintain(t)

Spec == Init /\ [][Next]_vars

\* Every session is closed some time, and a drain whose condition holds is woken.
\* The first is an assumption about the callers as much as about the code of a
\* session: a task that waited for a gate with one open would not close it.
Fairness == \A t \in Tasks :
    /\ \A s \in Sessions : WF_vars(CloseSession(t, s))
    /\ WF_vars(DrainDatabase(t))

FairSpec == Spec /\ Fairness

-----------------------------------------------------------------------------
(* Properties *)

TypeOK ==
    /\ depth \in [Tasks -> 0 .. MaxDepth]
    /\ active \in Nat
    /\ owner \in Tasks \cup {NoTask}
    /\ entered \in BOOLEAN
    /\ opener \in [Sessions -> Tasks \cup {NoTask}]
    /\ open \in Nat
    /\ dbOwner \in Tasks \cup {NoTask}
    /\ dbEntered \in BOOLEAN
    /\ sealed \in BOOLEAN

Working == {t \in Tasks : depth[t] > 0}
InUse   == {s \in Sessions : opener[s] # NoTask}

\* The counters the drains trust: no nesting, upgrade or time-out leaks an
\* operation (maintenance would be Busy for ever) or forgets one.
Counted == active = Cardinality(Working) /\ open = Cardinality(InUse)

Application == INSTANCE ExclusiveAdmission WITH
    working <- Working,
    holder  <- IF entered /\ owner # NoTask THEN owner ELSE NoTask

Database == INSTANCE ExclusiveAdmission WITH
    working <- {t \in Tasks : \E s \in InUse : opener[s] = t},
    holder  <- IF dbEntered /\ dbOwner # NoTask THEN dbOwner ELSE NoTask

\* Whoever has drained the application gate works alone ...
ApplicationExclusive == Application!Spec

\* ... and files are replaced under the database gate with no session open.
DatabaseExclusive == Database!Spec

\* After the seal nothing works on the stored state: no session is open and no
\* operation is under way, for the rest of the process.
SealedIsClosed == sealed => InUse = {} /\ Working = {}

\* The drain of the database has no time limit, and needs none: whoever still
\* has a session open can close it, and can open no other.
DatabaseDrains == dbOwner # NoTask ~> (dbEntered \/ dbOwner = NoTask)
=============================================================================
