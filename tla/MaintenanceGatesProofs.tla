------------------------ MODULE MaintenanceGatesProofs ------------------------
(***************************************************************************)
(* For any number of tasks and sessions and any depth of nesting: the        *)
(* counters count what they should, and a gate that was drained is held      *)
(* alone.                                                                   *)
(***************************************************************************)
EXTENDS MaintenanceGates, FiniteSetTheorems, TLAPS

-----------------------------------------------------------------------------
(* Counting *)

LEMMA AddOne ==
    ASSUME NEW S, IsFiniteSet(S), NEW x, x \notin S
    PROVE  IsFiniteSet(S \cup {x}) /\ Cardinality(S \cup {x}) = Cardinality(S) + 1
BY FS_AddElement

LEMMA RemoveOne ==
    ASSUME NEW S, IsFiniteSet(S), NEW x \in S
    PROVE  IsFiniteSet(S \ {x}) /\ Cardinality(S \ {x}) = Cardinality(S) - 1
BY FS_RemoveElement

LEMMA AtMostItself ==
    ASSUME NEW S, IsFiniteSet(S), NEW x,
           Cardinality(S) <= (IF x \in S THEN 1 ELSE 0)
    PROVE  S \subseteq {x}
<1>1. Cardinality(S) \in Nat
    BY FS_CardinalityType
<1>2. CASE x \in S
    <2>1. Cardinality(S \ {x}) = Cardinality(S) - 1 /\ IsFiniteSet(S \ {x})
        BY <1>2, RemoveOne
    <2>2. Cardinality(S \ {x}) = 0
        BY <1>1, <1>2, <2>1, FS_CardinalityType
    <2>3. S \ {x} = {}
        BY <2>1, <2>2, FS_EmptySet
    <2> QED BY <2>3
<1>3. CASE x \notin S
    <2>1. Cardinality(S) = 0
        BY <1>1, <1>3
    <2> QED BY <2>1, FS_EmptySet
<1> QED BY <1>2, <1>3

LEMMA FiniteSets ==
    /\ IsFiniteSet(Working) /\ IsFiniteSet(InUse)
    /\ Cardinality(Working) \in Nat /\ Cardinality(InUse) \in Nat
<1>1. IsFiniteSet(Working) /\ IsFiniteSet(InUse)
    BY FS_Subset, TasksAssumption, SessionsAssumption DEF Working, InUse
<1> QED BY <1>1, FS_CardinalityType

-----------------------------------------------------------------------------
(* The inductive invariant *)

\* A drained gate has an owner, and nobody else works under it; the database
\* gate is only ever held by the holder of the application gate.
Drained ==
    /\ entered => owner # NoTask /\ Working \subseteq {owner}
    /\ dbEntered => dbOwner # NoTask /\ InUse = {}
    /\ dbOwner # NoTask => owner = dbOwner /\ entered /\ depth[dbOwner] = 0

IInv == TypeOK /\ Counted /\ Drained /\ SealedIsClosed

LEMMA InitIInv == Init => IInv
<1> SUFFICES ASSUME Init PROVE IInv
    OBVIOUS
<1>1. Working = {} /\ InUse = {}
    BY DEF Init, Working, InUse
<1>2. TypeOK
    <2>1. 0 \in 0 .. MaxDepth
        BY DepthAssumption
    <2>2. depth \in [Tasks -> 0 .. MaxDepth]
        BY <2>1, Zenon DEF Init
    <2> QED BY <2>2 DEF Init, TypeOK
<1>3. Counted
    BY <1>1, FS_EmptySet DEF Init, Counted
<1> QED BY <1>1, <1>2, <1>3 DEF Init, IInv, Drained, SealedIsClosed

-----------------------------------------------------------------------------
(* One lemma per action that changes a counter *)

LEMMA EnterStep ==
    ASSUME IInv, NEW t \in Tasks, Enter(t)
    PROVE  IInv'
<1> USE DEF Enter, db
<1>1. InUse' = InUse
    BY DEF InUse
<1>2. Working' = Working \cup {t}
    BY DepthAssumption DEF IInv, TypeOK, Working
<1>3. TypeOK'
    BY DepthAssumption DEF IInv, TypeOK
<1>4. Counted'
    <2>1. CASE depth[t] = 0
        <3>1. t \notin Working
            BY <2>1 DEF Working
        <3> QED BY <1>1, <1>2, <2>1, <3>1, AddOne, FiniteSets DEF IInv, Counted
    <2>2. CASE depth[t] # 0
        <3>1. Working' = Working
            BY <1>2, <2>2 DEF IInv, TypeOK, Working
        <3> QED BY <1>1, <2>2, <3>1 DEF IInv, Counted
    <2> QED BY <2>1, <2>2
<1>5. Drained'
    <2>1. entered => FALSE
        BY TasksAssumption DEF IInv, TypeOK, Drained, Working
    <2> QED BY <2>1, <1>1 DEF IInv, TypeOK, Drained
<1> QED BY <1>3, <1>4, <1>5 DEF IInv, SealedIsClosed

LEMMA LeaveStep ==
    ASSUME IInv, NEW t \in Tasks, Leave(t)
    PROVE  IInv'
<1> USE DEF Leave, db
<1>1. InUse' = InUse
    BY DEF InUse
<1>2. t \in Working
    BY DEF Working
<1>3. TypeOK'
    BY DepthAssumption, FiniteSets DEF IInv, TypeOK, Counted
<1>4. CASE depth[t] = 1
    <2>1. Working' = Working \ {t}
        BY <1>4 DEF IInv, TypeOK, Working
    <2>2. Cardinality(Working') = Cardinality(Working) - 1
        BY <1>2, <2>1, RemoveOne, FiniteSets
    <2>3. Cardinality(Working') \in Nat
        BY <1>2, <2>1, RemoveOne, FiniteSets, FS_CardinalityType
    <2>4. Counted'
        BY <1>1, <1>4, <2>2, <2>3, FiniteSets DEF IInv, Counted
    <2>5. Drained' /\ SealedIsClosed'
        BY <1>1, <1>2, <2>1 DEF IInv, TypeOK, Drained, SealedIsClosed
    <2> QED BY <1>3, <2>4, <2>5 DEF IInv
<1>5. CASE depth[t] # 1
    <2>1. Working' = Working
        BY <1>5 DEF IInv, TypeOK, Working
    <2>2. Counted'
        BY <1>1, <1>5, <2>1 DEF IInv, Counted
    <2>3. Drained' /\ SealedIsClosed'
        BY <1>1, <1>2, <2>1 DEF IInv, TypeOK, Drained, SealedIsClosed
    <2> QED BY <1>3, <2>2, <2>3 DEF IInv
<1> QED BY <1>4, <1>5

LEMMA DrainStep ==
    ASSUME IInv, NEW t \in Tasks, Drain(t)
    PROVE  IInv' /\ Working \subseteq {t}
<1> USE DEF Drain, db
<1>1. InUse' = InUse /\ Working' = Working
    BY DEF InUse, Working
<1>2. Own(t) = IF t \in Working THEN 1 ELSE 0
    BY DEF Own, Working
<1>3. Working \subseteq {t}
    BY <1>2, AtMostItself, FiniteSets DEF IInv, Counted
<1> QED
    BY <1>1, <1>3, TasksAssumption DEF IInv, TypeOK, Counted, Drained, SealedIsClosed

LEMMA OpenSessionStep ==
    ASSUME IInv, NEW t \in Tasks, NEW s \in Sessions, OpenSession(t, s)
    PROVE  IInv'
<1> USE DEF OpenSession, app
<1>1. Working' = Working
    BY DEF Working
<1>2. InUse' = InUse \cup {s} /\ s \notin InUse
    BY TasksAssumption DEF IInv, TypeOK, InUse
<1>3. TypeOK'
    BY DEF IInv, TypeOK
<1>4. Counted'
    BY <1>1, <1>2, AddOne, FiniteSets DEF IInv, Counted
<1> QED
    BY <1>1, <1>3, <1>4 DEF IInv, Drained, SealedIsClosed

LEMMA CloseSessionStep ==
    ASSUME IInv, NEW t \in Tasks, NEW s \in Sessions, CloseSession(t, s)
    PROVE  IInv'
<1> USE DEF CloseSession, app
<1>1. Working' = Working
    BY DEF Working
<1>2. InUse' = InUse \ {s} /\ s \in InUse
    BY TasksAssumption DEF IInv, TypeOK, InUse
<1>3. Cardinality(InUse') = Cardinality(InUse) - 1
    BY <1>2, RemoveOne, FiniteSets
<1>4. Cardinality(InUse') \in Nat
    BY <1>2, RemoveOne, FiniteSets, FS_CardinalityType
<1>5. open > 0
    BY <1>3, <1>4, FiniteSets DEF IInv, Counted
<1>6. TypeOK'
    BY <1>5 DEF IInv, TypeOK
<1>7. Counted'
    BY <1>1, <1>3, <1>5 DEF IInv, Counted
<1> QED
    BY <1>1, <1>2, <1>6, <1>7 DEF IInv, Drained, SealedIsClosed

LEMMA DrainDatabaseStep ==
    ASSUME IInv, NEW t \in Tasks, DrainDatabase(t)
    PROVE  IInv' /\ InUse = {}
<1> USE DEF DrainDatabase, app
<1>1. InUse' = InUse /\ Working' = Working
    BY DEF InUse, Working
<1>2. InUse = {}
    BY FiniteSets, FS_EmptySet DEF IInv, Counted
<1> QED
    BY <1>1, <1>2, TasksAssumption DEF IInv, TypeOK, Counted, Drained, SealedIsClosed

\* The actions that only change who holds a gate.
LEMMA HolderStep ==
    ASSUME IInv, NEW t \in Tasks,
           \/ AskMaintenance(t) \/ GiveUp(t) \/ Release(t)
           \/ AskDatabase(t) \/ CancelDatabase(t) \/ ReleaseDatabase(t) \/ Seal(t)
    PROVE  IInv' /\ InUse' = InUse /\ Working' = Working
<1> USE DEF AskMaintenance, Claim, GiveUp, Release, AskDatabase, ClaimDatabase, CancelDatabase,
           ReleaseDatabase, Seal, app, db
<1>1. InUse' = InUse /\ Working' = Working
    BY DEF InUse, Working
<1>2. TypeOK'
    BY DEF IInv, TypeOK
<1>3. Counted'
    BY <1>1 DEF IInv, Counted
<1>4. Drained'
    BY <1>1, TasksAssumption DEF IInv, TypeOK, Drained
<1>5. SealedIsClosed'
    <2>1. CASE Seal(t)
        <3>1. t \notin Working /\ Working \subseteq {t}
            BY <2>1, TasksAssumption DEF IInv, Drained, Working
        <3> QED BY <1>1, <2>1, <3>1 DEF IInv, Drained, SealedIsClosed
    <2>2. CASE ~Seal(t)
        BY <1>1, <2>2 DEF IInv, SealedIsClosed
    <2> QED BY <2>1, <2>2
<1> QED BY <1>1, <1>2, <1>3, <1>4, <1>5 DEF IInv

LEMMA StepIInv == IInv /\ [Next]_vars => IInv'
<1> SUFFICES ASSUME IInv, [Next]_vars PROVE IInv'
    OBVIOUS
<1>1. CASE UNCHANGED vars
    BY <1>1 DEF vars, IInv, TypeOK, Counted, Drained, SealedIsClosed, Working, InUse
<1>2. ASSUME NEW t \in Tasks, Work(t) PROVE IInv'
    BY <1>2, EnterStep, HolderStep, OpenSessionStep DEF Work
<1>3. ASSUME NEW t \in Tasks, Finish(t) PROVE IInv'
    BY <1>3, LeaveStep, CloseSessionStep DEF Finish
<1>4. ASSUME NEW t \in Tasks, Maintain(t) PROVE IInv'
    BY <1>4, DrainStep, DrainDatabaseStep, HolderStep DEF Maintain
<1> QED BY <1>1, <1>2, <1>3, <1>4 DEF Next

-----------------------------------------------------------------------------
(* The theorems *)

THEOREM Inductive == Spec => []IInv
BY InitIInv, StepIInv, PTL DEF Spec

\* No path through the two gates leaks an operation or a session, or forgets one.
THEOREM CountersCorrect == Spec => []Counted
<1>1. IInv => Counted
    BY DEF IInv
<1> QED BY <1>1, Inductive, PTL

\* Every variable of the gates keeps its type: no counter falls below zero and no task nests
\* deeper than it may.
THEOREM TypeCorrect == Spec => []TypeOK
<1>1. IInv => TypeOK
    BY DEF IInv
<1> QED BY <1>1, Inductive, PTL

\* Once a restore has sealed the process nothing works on the stored state.
THEOREM SealedForGood == Spec => []SealedIsClosed
<1>1. IInv => SealedIsClosed
    BY DEF IInv
<1> QED BY <1>1, Inductive, PTL

-----------------------------------------------------------------------------
(* Both gates implement exclusive admission *)

Holder   == IF entered /\ owner # NoTask THEN owner ELSE NoTask
DbHolder == IF dbEntered /\ dbOwner # NoTask THEN dbOwner ELSE NoTask
Openers  == {t \in Tasks : \E s \in InUse : opener[s] = t}

LEMMA ApplicationStep ==
    IInv /\ [Next]_vars => [Application!Next]_<<Working, Holder>>
<1> SUFFICES ASSUME IInv, [Next]_vars
             PROVE  Application!Next \/ (Working' = Working /\ Holder' = Holder)
    OBVIOUS
<1> USE DEF db, app
<1>1. CASE UNCHANGED vars
    BY <1>1 DEF vars, Working, Holder
<1>2. ASSUME NEW t \in Tasks, Enter(t)
      PROVE  Application!Next \/ (Working' = Working /\ Holder' = Holder)
    <2>1. Working' = Working \cup {t} /\ Holder' = Holder
        BY <1>2, DepthAssumption DEF Enter, IInv, TypeOK, Working, Holder
    <2>2. CASE owner = NoTask
        BY <2>1, <2>2 DEF Application!Next, Application!Enter, Holder
    <2>3. CASE owner # NoTask
        <3>1. t \in Working
            BY <1>2, <2>3 DEF Enter, IInv, TypeOK, Working
        <3> QED BY <2>1, <3>1
    <2> QED BY <2>2, <2>3
<1>3. ASSUME NEW t \in Tasks, Leave(t)
      PROVE  Application!Next \/ (Working' = Working /\ Holder' = Holder)
    <2>1. Holder' = Holder /\ (Working' = Working \/ Working' = Working \ {t})
        BY <1>3, DepthAssumption DEF Leave, IInv, TypeOK, Working, Holder
    <2> QED BY <2>1 DEF Application!Next, Application!Leave, Holder
<1>4. ASSUME NEW t \in Tasks, Drain(t)
      PROVE  Application!Next \/ (Working' = Working /\ Holder' = Holder)
    <2>1. Holder = NoTask /\ Holder' = t /\ Working' = Working /\ Working \subseteq {t}
        BY <1>4, DrainStep, TasksAssumption DEF Drain, Holder, Working
    <2> QED BY <2>1 DEF Application!Next, Application!Take, Holder
<1>5. ASSUME NEW t \in Tasks, AskMaintenance(t) \/ GiveUp(t) \/ Release(t)
      PROVE  Application!Next \/ (Working' = Working /\ Holder' = Holder)
    <2>1. Working' = Working /\ (Holder' = Holder \/ Holder' = NoTask)
        BY <1>5
        DEF AskMaintenance, Claim, GiveUp, Release, Holder, Working, IInv, TypeOK, Drained
    <2> QED BY <2>1 DEF Application!Next, Application!Drop, Holder
<1>6. ASSUME NEW t \in Tasks,
             \/ \E s \in Sessions : OpenSession(t, s) \/ CloseSession(t, s)
             \/ AskDatabase(t) \/ DrainDatabase(t) \/ CancelDatabase(t)
             \/ ReleaseDatabase(t) \/ Seal(t)
      PROVE  Working' = Working /\ Holder' = Holder
    BY <1>6 DEF OpenSession, CloseSession, AskDatabase, ClaimDatabase, DrainDatabase,
                CancelDatabase, ReleaseDatabase, Seal, Working, Holder
<1> QED BY <1>1, <1>2, <1>3, <1>4, <1>5, <1>6 DEF Next, Work, Finish, Maintain

LEMMA DatabaseStep ==
    IInv /\ [Next]_vars => [Database!Next]_<<Openers, DbHolder>>
<1> SUFFICES ASSUME IInv, [Next]_vars
             PROVE  Database!Next \/ (Openers' = Openers /\ DbHolder' = DbHolder)
    OBVIOUS
<1> USE DEF db, app
<1>1. CASE UNCHANGED vars
    BY <1>1 DEF vars, Openers, InUse, DbHolder
<1>2. ASSUME NEW t \in Tasks, NEW s \in Sessions, OpenSession(t, s)
      PROVE  Database!Next
    <2>1. Openers' = Openers \cup {t}
        BY <1>2, TasksAssumption DEF OpenSession, IInv, TypeOK, Openers, InUse
    <2>2. DbHolder = NoTask /\ DbHolder' = DbHolder
        BY <1>2 DEF OpenSession, DbHolder
    <2> QED BY <2>1, <2>2 DEF Database!Next, Database!Enter, Openers, DbHolder
<1>3. ASSUME NEW t \in Tasks, NEW s \in Sessions, CloseSession(t, s)
      PROVE  Database!Next \/ (Openers' = Openers /\ DbHolder' = DbHolder)
    <2>1. Openers' = Openers \/ Openers' = Openers \ {t}
        BY <1>3, TasksAssumption DEF CloseSession, IInv, TypeOK, Openers, InUse
    <2>2. DbHolder' = DbHolder
        BY <1>3 DEF CloseSession, DbHolder
    <2> QED BY <2>1, <2>2 DEF Database!Next, Database!Leave, Openers, DbHolder
<1>4. ASSUME NEW t \in Tasks, DrainDatabase(t)
      PROVE  Database!Next
    <2>1. Openers = {} /\ Openers' = Openers
        BY <1>4, DrainDatabaseStep DEF DrainDatabase, Openers, InUse
    <2>2. DbHolder = NoTask /\ DbHolder' = t
        BY <1>4, TasksAssumption DEF DrainDatabase, DbHolder
    <2> QED BY <2>1, <2>2 DEF Database!Next, Database!Take, Openers, DbHolder
<1>5. ASSUME NEW t \in Tasks, AskDatabase(t) \/ CancelDatabase(t) \/ ReleaseDatabase(t)
      PROVE  Database!Next \/ (Openers' = Openers /\ DbHolder' = DbHolder)
    <2>1. Openers' = Openers /\ (DbHolder' = DbHolder \/ DbHolder' = NoTask)
        BY <1>5 DEF AskDatabase, ClaimDatabase, CancelDatabase, ReleaseDatabase, DbHolder,
                    Openers, InUse, IInv, TypeOK, Drained
    <2> QED BY <2>1 DEF Database!Next, Database!Drop, Openers, DbHolder
<1>6. ASSUME NEW t \in Tasks,
             \/ Enter(t) \/ Leave(t) \/ AskMaintenance(t) \/ Drain(t) \/ GiveUp(t)
             \/ Release(t) \/ Seal(t)
      PROVE  Openers' = Openers /\ DbHolder' = DbHolder
    BY <1>6 DEF Enter, Leave, AskMaintenance, Claim, Drain, GiveUp, Release, Seal, Openers,
                InUse, DbHolder
<1> QED BY <1>1, <1>2, <1>3, <1>4, <1>5, <1>6 DEF Next, Work, Finish, Maintain

\* Whoever has drained the application gate works alone: a restore, a wipe or a
\* connection change never overlaps an operation of another task.
THEOREM ApplicationGateExclusive == Spec => ApplicationExclusive
<1>1. Init => Application!Init
    BY DEF Init, Application!Init, Working
<1>2. <<Working, Holder>> = Application!vars
    BY DEF Application!vars, Holder
<1> QED
    BY <1>1, <1>2, Inductive, ApplicationStep, PTL
       DEF Spec, ApplicationExclusive, Application!Spec, Application!vars, Holder

\* No session of any other task is open while the database gate is held, and
\* none is opened: the database file may be moved.
THEOREM DatabaseGateExclusive == Spec => DatabaseExclusive
<1>1. Init => Database!Init
    BY DEF Init, Database!Init, InUse
<1>2. <<Openers, DbHolder>> = Database!vars
    BY DEF Database!vars, Openers, DbHolder
<1> QED
    BY <1>1, <1>2, Inductive, DatabaseStep, PTL
       DEF Spec, DatabaseExclusive, Database!Spec, Database!vars, Openers, DbHolder

-----------------------------------------------------------------------------
(* What DatabaseDrains rests on: a drain that has begun is never set back.     *)

\* From its claim on, the sessions (the working tasks) a drain waits for only become fewer:
\* a task that has a session already, or works already, adds none.
DrainsShrink ==
    [][/\ dbOwner # NoTask /\ dbOwner' = dbOwner => InUse' \subseteq InUse
       /\ owner # NoTask /\ owner' = owner => Working' \subseteq Working]_vars

\* No drain is set back by the tasks it waits for.
THEOREM DrainsOnlyShrink == Spec => DrainsShrink
<1> DEFINE Shrinks ==
       /\ dbOwner # NoTask /\ dbOwner' = dbOwner => InUse' \subseteq InUse
       /\ owner # NoTask /\ owner' = owner => Working' \subseteq Working
<1>1. IInv /\ [Next]_vars => Shrinks
  <2> SUFFICES ASSUME IInv, [Next]_vars PROVE Shrinks
    OBVIOUS
  <2>0. TypeOK /\ NoTask \notin Tasks
    BY TasksAssumption DEF IInv
  <2>1. CASE UNCHANGED vars
    BY <2>1 DEF vars, InUse, Working
  <2>2. ASSUME NEW t \in Tasks, Enter(t) \/ Leave(t)
        PROVE  Shrinks
    BY <2>0, <2>2, DepthAssumption DEF Enter, Leave, db, TypeOK, InUse, Working
  <2>3. ASSUME NEW t \in Tasks, NEW s \in Sessions, OpenSession(t, s) \/ CloseSession(t, s)
        PROVE  Shrinks
    BY <2>0, <2>3 DEF OpenSession, CloseSession, app, TypeOK, InUse, Working
  <2>4. ASSUME NEW t \in Tasks, AskMaintenance(t) \/ Maintain(t)
        PROVE  UNCHANGED <<depth, opener>>
    BY <2>4 DEF AskMaintenance, Claim, Maintain, Drain, GiveUp, Release, AskDatabase,
                ClaimDatabase, DrainDatabase, CancelDatabase, ReleaseDatabase, Seal, app, db
  <2>5. CASE UNCHANGED <<depth, opener>>
    BY <2>5 DEF InUse, Working
  <2> QED
    BY <2>1, <2>2, <2>3, <2>4, <2>5 DEF Next, Work, Finish
<1>2. [][Shrinks]_vars => DrainsShrink
    BY PTL DEF DrainsShrink
<1>3. IInv /\ [Next]_vars => [Shrinks]_vars
    BY <1>1
<1> QED
    BY <1>2, <1>3, Inductive, PTL DEF Spec
=============================================================================
