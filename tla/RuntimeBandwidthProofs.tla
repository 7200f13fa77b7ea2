------------------------ MODULE RuntimeBandwidthProofs ------------------------
(***************************************************************************)
(* RuntimeBandwidth for every set of executors and every cap: its types,   *)
(* the bound on the shares, and that nothing acquires without a ceiling.   *)
(***************************************************************************)
EXTENDS RuntimeBandwidth, FiniteSums, FiniteSetTheorems, TLAPS

-----------------------------------------------------------------------------
(* The equal share *)

LEMMA ShareValue ==
    ASSUME NEW n \in Nat, configured \in Nat
    PROVE  /\ Share(n) \in Nat \cup {None}
           /\ configured = 0 => Share(n) = 0
           /\ configured > 0 /\ Share(n) # None => Share(n) > 0 /\ Share(n) * n <= configured
<1> DEFINE d == IF n = 0 THEN 1 ELSE n
           q == configured \div d
<1>1. d \in Nat \ {0} /\ n <= d
    OBVIOUS
<1>2. q \in Nat /\ q * d <= configured
    BY <1>1, SMT
<1>3. configured = 0 => q = 0
    BY <1>1, SMT
<1>4. Share(n) = IF configured = 0 \/ q >= 1 THEN q ELSE None
    BY DEF Share
<1>5. q * n <= q * d
    BY <1>1, <1>2
<1> QED BY <1>1, <1>2, <1>3, <1>4, <1>5, CeilingAssumption

-----------------------------------------------------------------------------
(* The inductive invariant *)

Quiet == ~overlapped /\ ~patched

\* What a step in progress holds.
OpOK(k) ==
    /\ k.at = "idle" => k = Idle
    /\ k.at \in Converging => k.share \in Nat
    /\ k.at \in {"own", "newcomer"} => k.share \in Nat /\ k.share > 0 /\ k.who \in Executors

Typed ==
    /\ TypeOK
    /\ \A p \in {Lock, Cycle} : OpOK(op[p])
    /\ op[Cycle].at \notin {"own", "newcomer"}

\* A ceiling that counts as confirmed is the one enforced.
Confirmed == \A e \in Executors : assigned[e] \in Nat => ceiling[e] = assigned[e]

\* Nothing was assigned before the reservations were seeded.
Unseeded == ~seeded => \A e \in Executors : assigned[e] = Unassigned

\* Nor was anything admitted, or begun.
Seeding == ~seeded => /\ op = [p \in {Lock, Cycle} |-> Idle]
                      /\ \A e \in Executors : starting[e] = 0

Apart == ~overlapped => op[Lock] = Idle \/ op[Cycle] = Idle

\* While cap and reservations stand still, a step in progress hands out the
\* share they give, and a newcomer's comes to those told so far.
Splitting(p) ==
    /\ op[p].at \in Converging => op[p].share = Share(Cardinality(reserved))
    /\ op[p].at = "own" =>
          /\ configured > 0 /\ op[p].who \in reserved
          /\ op[p].share = Share(Cardinality(reserved))
    /\ op[p].at = "newcomer" =>
          /\ configured > 0 /\ op[p].who \notin reserved
          /\ op[p].share = Share(Cardinality(reserved) + 1)
          /\ \A f \in reserved \ op[p].todo : assigned[f] = op[p].share

Split == Quiet => \A p \in {Lock, Cycle} : Splitting(p)

\* What was admitted and may begin at any time on a reserved executor: a finite
\* cap that something has converged to is proved there, or being told, or
\* reported unproven.
Covered ==
    ~patched /\ configured > 0 =>
        \A e \in reserved :
            starting[e] > 0 => error \/ Pending(e) \/ (assigned[e] \in Nat /\ assigned[e] > 0)

IInv == /\ Typed /\ Confirmed /\ Unseeded /\ Seeding /\ Apart /\ Split
        /\ SharesBounded /\ LiftedWhenUnlimited /\ Covered

-----------------------------------------------------------------------------
(* Counting reservations *)

LEMMA Counting ==
    ASSUME NEW R \in SUBSET Executors
    PROVE  /\ IsFiniteSet(R) /\ Cardinality(R) \in Nat
           /\ \A e : Cardinality(R \cup {e}) =
                        IF e \in R THEN Cardinality(R) ELSE Cardinality(R) + 1
<1>1. IsFiniteSet(R) /\ Cardinality(R) \in Nat
    BY ExecutorsAssumption, FS_Subset, FS_CardinalityType
<1>2. ASSUME NEW e, e \in R PROVE R \cup {e} = R
    BY <1>2
<1>3. ASSUME NEW e, e \notin R PROVE Cardinality(R \cup {e}) = Cardinality(R) + 1
    BY <1>1, <1>3, FS_AddElement
<1> QED BY <1>1, <1>2, <1>3

LEMMA Names ==
    /\ Lock # Cycle /\ Idle \in OpType /\ OpOK(Idle)
    /\ Idle.at = "idle" /\ Idle.at \notin Converging \cup {"own", "newcomer"}
BY DEF Lock, Cycle, Idle, Op, OpType, OpOK, Converging

LEMMA NothingStarts == [e \in Executors |-> 0] \in [Executors -> 0 .. StartLimit]
BY StartLimitAssumption

LEMMA InitIInv == Init => IInv
<1> SUFFICES ASSUME Init PROVE IInv
    OBVIOUS
<1>1. Typed
    BY Names, CapsAssumption, NothingStarts DEF Init, Typed, TypeOK, NoFacts, Ceilings
<1>2. Confirmed /\ Unseeded /\ Seeding /\ Apart
    BY CeilingAssumption DEF Init, Confirmed, Unseeded, Seeding, Apart
<1>3. Split
    BY Names DEF Init, Split, Splitting
<1>4. SharesBounded /\ LiftedWhenUnlimited /\ Covered
    BY DEF Init, SharesBounded, LiftedWhenUnlimited, Covered
<1> QED BY <1>1, <1>2, <1>3, <1>4 DEF IInv

-----------------------------------------------------------------------------
(* A convergence begins: whatever was before, its share is everybody's *)

LEMMA StartConvergeStep ==
    ASSUME Typed, configured' = configured,
           NEW p \in {Lock, Cycle}, NEW at \in Converging,
           NEW R \in SUBSET Executors, NEW A \in [Executors -> Ceilings],
           StartConverge(p, at, R, A), assigned' = A,
           ceiling' \in [Executors -> Nat], Confirmed',
           starting' \in [Executors -> 0 .. StartLimit],
           job' \in [Executors -> {"none", "live", "ended"}],
           facts' \in [Executors -> {"none", "required", "free", "uncertain"}],
           overlapped' \in BOOLEAN,
           \A q \in {Lock, Cycle} \ {p} : ~overlapped' => op[q] = Idle
    PROVE  IInv'
<1> DEFINE share == Share(Cardinality(R))
           todo  == IF configured = 0 THEN {e \in Executors : A[e] \notin {0, Unassigned}}
                                      ELSE IF share = None THEN {} ELSE R
           next  == IF todo = {} THEN Idle ELSE Op(at, share, todo, None)
<1>0. /\ reserved' = R /\ seeded' = TRUE /\ patched' = FALSE
      /\ unproven' = (IF share = None THEN R ELSE {}) /\ error' = (share = None)
      /\ op' = [op EXCEPT ![p] = next]
    BY DEF StartConverge
<1>1. configured \in Nat /\ Cardinality(R) \in Nat
    BY Counting, CapsAssumption DEF Typed, TypeOK
<1>2. /\ share \in Nat \cup {None}
      /\ configured = 0 => share = 0
      /\ configured > 0 /\ share # None => share > 0 /\ share * Cardinality(R) <= configured
    BY <1>1, ShareValue
<1>3. todo \subseteq Executors /\ (todo # {} => share \in Nat)
    BY <1>2
<1> HIDE DEF share, todo
<1>4. next \in OpType /\ OpOK(next) /\ next.at \notin {"own", "newcomer"}
    BY <1>3, Names DEF OpType, OpOK, Op, Converging
<1>5. op' \in [{Lock, Cycle} -> OpType] /\ op'[p] = next
      /\ \A q \in {Lock, Cycle} \ {p} : op'[q] = op[q]
    BY <1>0, <1>4 DEF Typed, TypeOK
<1>6. Typed'
    <2>1. TypeOK'
        BY <1>0, <1>5 DEF Typed, TypeOK
    <2>2. \A q \in {Lock, Cycle} : OpOK(op'[q])
        BY <1>4, <1>5 DEF Typed
    <2>3. op'[Cycle].at \notin {"own", "newcomer"}
        BY <1>4, <1>5 DEF Typed
    <2> QED BY <2>1, <2>2, <2>3 DEF Typed, OpOK
<1>7. (Unseeded /\ Seeding /\ Apart)'
    BY <1>0, <1>5, Names DEF Unseeded, Seeding, Apart
<1>8. Split'
    <2> SUFFICES ASSUME ~overlapped', NEW q \in {Lock, Cycle} PROVE Splitting(q)'
        BY DEF Split, Quiet
    <2>1. CASE q # p
        BY <2>1, <1>5, Names DEF Splitting
    <2>2. CASE q = p
        <3>1. op'[q].at \in Converging => op'[q].share = share
            BY <2>2, <1>5, Names DEF Op
        <3>2. share = Share(Cardinality(reserved))'
            BY <1>0 DEF share, Share
        <3> QED BY <2>2, <3>1, <3>2, <1>4, <1>5 DEF Splitting
    <2> QED BY <2>1, <2>2
<1>9. \A e \in todo : Pending(e)'
    BY <1>5 DEF Pending, Op
<1>10. SharesBounded'
    <2> SUFFICES ASSUME configured > 0, NEW e \in R, e \notin unproven'
                 PROVE  Pending(e)'
        BY <1>0 DEF SharesBounded
    <2>1. e \in todo
        BY <1>0, <1>1 DEF todo
    <2> QED BY <2>1, <1>9
<1>11. LiftedWhenUnlimited'
    <2> SUFFICES ASSUME configured = 0, NEW e \in Executors, A[e] \notin {0, Unassigned}
                 PROVE  Pending(e)'
        BY DEF LiftedWhenUnlimited
    <2>1. e \in todo
        BY DEF todo
    <2> QED BY <2>1, <1>9
<1>12. Covered'
    <2> SUFFICES ASSUME configured > 0, NEW e \in R, ~error' PROVE Pending(e)'
        BY <1>0 DEF Covered
    <2>1. share # None
        BY <1>0, Zenon
    <2>2. e \in todo
        BY <2>1, <1>1 DEF todo
    <2> QED BY <2>2, <1>9
<1> QED BY <1>6, <1>7, <1>8, <1>10, <1>11, <1>12 DEF IInv

LEMMA SeededValue ==
    ASSUME Typed
    PROVE  Seeded \in SUBSET Executors /\ (seeded => Seeded = reserved)
BY DEF Typed, TypeOK, Seeded, LiveWork

LEMMA ReadStep == ASSUME IInv, Read PROVE IInv'
<1>1. StartConverge(Lock, "read", Seeded, assigned) /\ Lock \in {Lock, Cycle} /\ "read" \in Converging
    BY DEF Read, Converging
<1>2. assigned' = assigned /\ ceiling' = ceiling /\ Confirmed'
    BY DEF Read, IInv, Confirmed
<1>3. assigned \in [Executors -> Ceilings] /\ ceiling' \in [Executors -> Nat]
    BY <1>2 DEF IInv, Typed, TypeOK
<1>4. /\ job' \in [Executors -> {"none", "live", "ended"}]
      /\ starting' \in [Executors -> 0 .. StartLimit]
      /\ facts' \in [Executors -> {"none", "required", "free", "uncertain"}]
    BY DEF Read, work, IInv, Typed, TypeOK
<1>5. overlapped' \in BOOLEAN /\ (~overlapped' => op[Cycle] = Idle)
    BY DEF Read, Meeting, IInv, Typed, TypeOK
<1>6. configured' = configured /\ Typed /\ Seeded \in SUBSET Executors
    BY SeededValue DEF Read, IInv
<1> QED BY <1>1, <1>2, <1>3, <1>4, <1>5, <1>6, StartConvergeStep

-----------------------------------------------------------------------------
(* Steps that at most seed the reservations *)

\* Reservations taken up after a restart have no ceiling yet.
LEMMA SharesSeeded ==
    ASSUME IInv, reserved' = Seeded,
           configured' = configured, patched' = patched, unproven' = unproven,
           assigned' = assigned, ceiling' = ceiling,
           overlapped' \in BOOLEAN, overlapped => overlapped',
           \A e \in Executors : Pending(e) => Pending(e)'
    PROVE  SharesBounded' /\ LiftedWhenUnlimited'
<1>1. LiftedWhenUnlimited'
    BY DEF IInv, LiftedWhenUnlimited
<1>2. CASE seeded
    <2>1. reserved' = reserved /\ reserved \subseteq Executors
        BY <1>2, SeededValue DEF IInv
    <2>2. SharesBounded'
        BY <2>1 DEF IInv, SharesBounded
    <2> QED BY <1>1, <2>2
<1>3. CASE ~seeded
    <2>1. \A e \in reserved' : assigned'[e] \notin Nat
        BY <1>3, CeilingAssumption, SeededValue DEF IInv, Unseeded
    <2>2. SharesBounded'
        BY <2>1 DEF SharesBounded
    <2> QED BY <1>1, <2>2
<1> QED BY <1>2, <1>3

LEMMA SeedStep ==
    ASSUME IInv, reserved' = Seeded, seeded' = TRUE, op' = op, error' \in BOOLEAN,
           configured' = configured, patched' = patched, unproven' = unproven,
           assigned' = assigned, ceiling' = ceiling,
           starting' \in [Executors -> 0 .. StartLimit],
           job' \in [Executors -> {"none", "live", "ended"}],
           facts' \in [Executors -> {"none", "required", "free", "uncertain"}],
           overlapped' \in BOOLEAN, overlapped => overlapped',
           error => error',
           \A e \in Executors : starting'[e] > 0 =>
                starting[e] > 0 \/ error' \/ configured = 0
                    \/ (assigned[e] \in Nat /\ assigned[e] > 0)
    PROVE  IInv'
<1>1. Typed'
    BY SeededValue DEF IInv, Typed, TypeOK, OpOK
<1>2. (Confirmed /\ Unseeded /\ Seeding /\ Apart)'
    BY DEF IInv, Confirmed, Unseeded, Seeding, Apart
<1>3. \A e \in Executors : Pending(e) => Pending(e)'
    BY DEF Pending
<1>4. SharesBounded' /\ LiftedWhenUnlimited'
    BY <1>3, SharesSeeded
<1>5. Split'
    <2>1. CASE seeded
        <3>1. reserved' = reserved
            BY <2>1, SeededValue DEF IInv
        <3>2. ASSUME NEW p \in {Lock, Cycle}, Splitting(p) PROVE Splitting(p)'
            BY <3>1, <3>2 DEF Splitting, Share
        <3> QED BY <3>2 DEF IInv, Split, Quiet
    <2>2. CASE ~seeded
        <3>1. \A p \in {Lock, Cycle} : op'[p] = Idle
            BY <2>2 DEF IInv, Seeding
        <3> QED BY <3>1, Names DEF Split, Splitting
    <2> QED BY <2>1, <2>2
<1>6. Covered'
    <2> SUFFICES ASSUME ~patched, configured > 0, NEW e \in Executors, e \in reserved',
                        starting'[e] > 0, ~error'
                 PROVE  Pending(e) \/ (assigned[e] \in Nat /\ assigned[e] > 0)
        BY <1>1, <1>3 DEF Covered, Typed, TypeOK
    <2>1. CASE seeded
        BY <2>1, SeededValue DEF IInv, Covered
    <2>2. CASE ~seeded
        BY <2>2 DEF IInv, Seeding
    <2> QED BY <2>1, <2>2
<1> QED BY <1>1, <1>2, <1>4, <1>5, <1>6 DEF IInv

LEMMA ReleaseAbsentStep == ASSUME IInv, ReleaseAbsent PROVE IInv'
<1>1. /\ configured' = configured /\ assigned' = assigned /\ ceiling' = ceiling
      /\ starting' = starting
      /\ overlapped' = overlapped /\ op[Cycle] = Idle /\ Confirmed'
    BY DEF ReleaseAbsent, work, IInv, Confirmed
<1>2. /\ job' \in [Executors -> {"none", "live", "ended"}]
      /\ starting' \in [Executors -> 0 .. StartLimit]
      /\ facts' \in [Executors -> {"none", "required", "free", "uncertain"}]
    BY DEF ReleaseAbsent, work, IInv, Typed, TypeOK
<1>3. CASE Seeded \subseteq LiveWork
    <2>1. /\ reserved' = Seeded /\ seeded' = TRUE /\ op' = op /\ patched' = patched
          /\ error' = error /\ unproven' = unproven
        BY <1>3 DEF ReleaseAbsent
    <2>2. error' \in BOOLEAN /\ overlapped' \in BOOLEAN
        BY <1>1, <2>1 DEF IInv, Typed, TypeOK
    <2> QED BY <1>1, <1>2, <2>1, <2>2, SeedStep
<1>4. CASE ~(Seeded \subseteq LiveWork)
    <2>1. StartConverge(Lock, "release", Seeded \cap LiveWork, assigned)
        BY <1>4 DEF ReleaseAbsent
    <2>2. /\ Typed /\ Lock \in {Lock, Cycle} /\ "release" \in Converging
          /\ Seeded \cap LiveWork \in SUBSET Executors /\ assigned \in [Executors -> Ceilings]
          /\ ceiling' \in [Executors -> Nat] /\ overlapped' \in BOOLEAN
        BY <1>1, SeededValue DEF IInv, Typed, TypeOK, Converging
    <2> QED BY <1>1, <1>2, <2>1, <2>2, StartConvergeStep
<1> QED BY <1>3, <1>4

LEMMA ObserveStep == ASSUME IInv, Observe PROVE IInv'
<1> DEFINE freed    == {e \in Seeded : facts[e] = "free"}
           acquirer == {e \in Executors \ Seeded : facts[e] = "required"}
           changed  == freed \cup acquirer # {}
           R        == (Seeded \ freed) \cup acquirer
<1>1. /\ configured' = configured /\ assigned' = assigned /\ ceiling' = ceiling
      /\ job' = job /\ starting' = starting /\ Confirmed'
    BY DEF Observe, IInv, Confirmed
<1>2. /\ job' \in [Executors -> {"none", "live", "ended"}]
      /\ starting' \in [Executors -> 0 .. StartLimit]
      /\ facts' \in [Executors -> {"none", "required", "free", "uncertain"}]
    BY <1>1 DEF Observe, NoFacts, IInv, Typed, TypeOK
<1>3. /\ overlapped' \in BOOLEAN /\ (overlapped => overlapped')
      /\ changed /\ ~overlapped' => op[Lock] = Idle
    BY DEF Observe, Meeting, IInv, Typed, TypeOK
<1>4. CASE ~changed
    <2>1. /\ reserved' = Seeded /\ seeded' = TRUE /\ op' = op /\ patched' = patched
          /\ error' = error /\ unproven' = unproven
        BY <1>4 DEF Observe
    <2>2. error' \in BOOLEAN
        BY <2>1 DEF IInv, Typed, TypeOK
    <2> QED BY <1>1, <1>2, <1>3, <2>1, <2>2, SeedStep
<1>5. CASE changed
    <2>1. StartConverge(Cycle, "observe", R, assigned)
        BY <1>5 DEF Observe
    <2>2. /\ Typed /\ Cycle \in {Lock, Cycle} /\ "observe" \in Converging
          /\ R \in SUBSET Executors /\ assigned \in [Executors -> Ceilings]
          /\ ceiling' \in [Executors -> Nat]
        BY <1>1, SeededValue DEF IInv, Typed, TypeOK, Converging
    <2>3. \A q \in {Lock, Cycle} \ {Cycle} : ~overlapped' => op[q] = Idle
        BY <1>3, <1>5
    <2> HIDE DEF R, changed
    <2> QED BY <1>1, <1>2, <1>3, <2>1, <2>2, <2>3, StartConvergeStep
<1> QED BY <1>4, <1>5

-----------------------------------------------------------------------------
(* Work, the cap and the process *)

LEMMA WorkStep ==
    ASSUME IInv, UNCHANGED <<policy, ceiling, op, overlapped>>,
           \A e \in Executors : starting'[e] > 0 => starting[e] > 0,
           starting' \in [Executors -> 0 .. StartLimit],
           job' \in [Executors -> {"none", "live", "ended"}],
           facts' \in [Executors -> {"none", "required", "free", "uncertain"}]
    PROVE  IInv'
<1>0. /\ configured' = configured /\ patched' = patched /\ reserved' = reserved
      /\ seeded' = seeded /\ assigned' = assigned /\ error' = error
      /\ unproven' = unproven /\ ceiling' = ceiling /\ op' = op /\ overlapped' = overlapped
    BY DEF policy
<1>1. Typed'
    BY <1>0 DEF IInv, Typed, TypeOK, OpOK
<1>2. (Confirmed /\ Unseeded /\ Seeding /\ Apart)'
    BY <1>0 DEF IInv, Confirmed, Unseeded, Seeding, Apart
<1>3. Split'
    BY <1>0 DEF IInv, Split, Quiet, Splitting, Share
<1>4. SharesBounded' /\ LiftedWhenUnlimited'
    BY <1>0 DEF IInv, SharesBounded, LiftedWhenUnlimited, Pending
<1>5. Covered'
    BY <1>0 DEF IInv, Typed, TypeOK, Covered, Pending
<1> QED BY <1>1, <1>2, <1>3, <1>4, <1>5 DEF IInv

LEMMA ConfigureStep == ASSUME IInv, NEW c \in Caps, Configure(c) PROVE IInv'
<1>1. Typed'
    BY DEF Configure, work, IInv, Typed, TypeOK, OpOK
<1>2. (Confirmed /\ Unseeded /\ Seeding /\ Apart)'
    BY DEF Configure, work, IInv, Confirmed, Unseeded, Seeding, Apart
<1>3. (Split /\ SharesBounded /\ LiftedWhenUnlimited /\ Covered)'
    BY DEF Configure, Split, Quiet, SharesBounded, LiftedWhenUnlimited, Covered
<1> QED BY <1>1, <1>2, <1>3 DEF IInv

LEMMA RestartStep == ASSUME IInv, Restart PROVE IInv'
<1>1. /\ reserved' = {} /\ patched' = FALSE /\ unproven' = {} /\ overlapped' = FALSE
      /\ assigned' = [e \in Executors |-> Unassigned]
      /\ op' = [p \in {Lock, Cycle} |-> Idle]
    BY DEF Restart
<1>2. ceiling' \in [Executors -> Nat]
    BY DEF Restart, IInv, Typed, TypeOK
<1>3. Typed'
    BY <1>1, <1>2, Names, NothingStarts
       DEF Restart, NoFacts, IInv, Typed, TypeOK, Ceilings, OpOK
<1>4. (Confirmed /\ Unseeded /\ Seeding /\ Apart)'
    BY <1>1, CeilingAssumption DEF Restart, Confirmed, Unseeded, Seeding, Apart
<1>5. Split'
    BY <1>1, Names DEF Split, Splitting
<1>6. (SharesBounded /\ LiftedWhenUnlimited /\ Covered)'
    BY <1>1 DEF SharesBounded, LiftedWhenUnlimited, Covered
<1> QED BY <1>3, <1>4, <1>5, <1>6 DEF IInv

-----------------------------------------------------------------------------
(* One executor is told its ceiling *)

\* Whatever the answer, what counts as confirmed is enforced, and a share that
\* counts as confirmed is the one that was told.
LEMMA Told ==
    ASSUME IInv, NEW e \in Executors, NEW c \in Nat, Confirm(e, c) \/ FailToConfirm(e, c)
    PROVE  /\ assigned' \in [Executors -> Ceilings] /\ ceiling' \in [Executors -> Nat]
           /\ Confirmed'
           /\ assigned'[e] \in {c, None}
           /\ \A f \in Executors \ {e} : assigned'[f] = assigned[f] /\ ceiling'[f] = ceiling[f]
BY CeilingAssumption
   DEF Confirm, FailToConfirm, IInv, Typed, TypeOK, Ceilings, Confirmed

\* A told executor bears the equal share, or one of a split with more in it.
LEMMA SharesTold ==
    ASSUME IInv, NEW e \in Executors, NEW c \in Nat, Confirm(e, c) \/ FailToConfirm(e, c),
           configured' = configured, patched' = patched, overlapped' = overlapped,
           reserved' = reserved, unproven \subseteq unproven',
           Quiet /\ configured > 0 => c > 0 /\ c * Cardinality(reserved) <= configured,
           \A f \in Executors \ {e} : Pending(f) => Pending(f)'
    PROVE  SharesBounded'
<1> SUFFICES ASSUME Quiet, configured > 0, NEW f \in reserved \ unproven',
                    assigned'[f] \in Nat, ~Pending(f)'
             PROVE  0 < ceiling'[f] /\ ceiling'[f] * Cardinality(reserved) <= configured
    BY DEF SharesBounded, Quiet
<1>1. f \in Executors /\ f \in reserved \ unproven
    BY DEF IInv, Typed, TypeOK
<1>2. CASE f = e
    <2>1. assigned'[f] = c /\ ceiling'[f] = c
        BY <1>2, Told, CeilingAssumption DEF Confirmed
    <2> QED BY <2>1
<1>3. CASE f # e
    <2>1. assigned'[f] = assigned[f] /\ ceiling'[f] = ceiling[f] /\ ~Pending(f)
        BY <1>1, <1>3, Told
    <2> QED BY <1>1, <2>1 DEF IInv, SharesBounded, Quiet
<1> QED BY <1>2, <1>3

LEMMA ConvergeStep == ASSUME IInv, NEW p \in {Lock, Cycle}, Converge(p) PROVE IInv'
<1>1. PICK e \in op[p].todo :
          /\ \/ Confirm(e, op[p].share) /\ UNCHANGED <<error, unproven>>
             \/ FailToConfirm(e, op[p].share) /\ error' = TRUE /\ unproven' = unproven \cup {e}
          /\ op' = [op EXCEPT ![p] = IF op[p].todo = {e} THEN Idle
                                     ELSE [op[p] EXCEPT !.todo = @ \ {e}]]
    BY DEF Converge
<1>2. /\ op[p].at \in Converging /\ configured' = configured /\ patched' = patched
      /\ reserved' = reserved /\ seeded' = seeded /\ job' = job /\ facts' = facts
      /\ overlapped' = overlapped /\ starting' = starting
    BY DEF Converge, work
<1> DEFINE c == op[p].share
           next == IF op[p].todo = {e} THEN Idle ELSE [op[p] EXCEPT !.todo = @ \ {e}]
<1>3. /\ op[p] \in OpType /\ e \in Executors /\ c \in Nat /\ OpOK(op[p])
      /\ op \in [{Lock, Cycle} -> OpType]
    BY <1>1, <1>2 DEF IInv, Typed, TypeOK, OpType, OpOK
<1>4. Confirm(e, c) \/ FailToConfirm(e, c)
    BY <1>1
<1>5. /\ next \in OpType /\ OpOK(next) /\ next.at \notin {"own", "newcomer"}
      /\ next.at \in Converging => next = [op[p] EXCEPT !.todo = @ \ {e}]
    BY <1>2, <1>3, Names DEF OpType, OpOK, Converging
<1>6. /\ op'[p] = next /\ op' \in [{Lock, Cycle} -> OpType]
      /\ \A q \in {Lock, Cycle} \ {p} : op'[q] = op[q]
    BY <1>1, <1>3, <1>5
<1>7. /\ error' \in BOOLEAN /\ unproven' \in SUBSET Executors /\ unproven \subseteq unproven'
      /\ assigned'[e] \in Nat \/ e \in unproven'
    <2>1. CASE Confirm(e, c) /\ UNCHANGED <<error, unproven>>
        BY <2>1, <1>3 DEF IInv, Typed, TypeOK, Confirm
    <2>2. CASE error' = TRUE /\ unproven' = unproven \cup {e}
        BY <2>2, <1>3 DEF IInv, Typed, TypeOK
    <2> QED BY <1>1, <2>1, <2>2
<1>8. \A f \in Executors \ {e} : Pending(f) => Pending(f)'
    <2> SUFFICES ASSUME NEW f \in Executors \ {e}, NEW q \in {Lock, Cycle},
                        op[q].at \in Converging, f \in op[q].todo
                 PROVE  op'[q].at \in Converging /\ f \in op'[q].todo
        BY DEF Pending
    <2>1. CASE q # p
        BY <2>1, <1>6
    <2>2. CASE q = p
        <3>1. next = [op[p] EXCEPT !.todo = @ \ {e}]
            BY <2>2
        <3> QED BY <2>2, <3>1, <1>2, <1>3, <1>6 DEF OpType
    <2> QED BY <2>1, <2>2
<1>9. Quiet => c = Share(Cardinality(reserved))
    BY <1>2 DEF IInv, Split, Splitting
<1>10. /\ configured \in Nat /\ Cardinality(reserved) \in Nat
    BY Counting, CapsAssumption DEF IInv, Typed, TypeOK
<1>11. Quiet /\ configured > 0 => c > 0 /\ c * Cardinality(reserved) <= configured
    BY <1>3, <1>9, <1>10, ShareValue, CeilingAssumption
<1> HIDE DEF c, next
<1>12. SharesBounded'
    BY <1>2, <1>3, <1>4, <1>7, <1>8, <1>11, SharesTold
<1>13. LiftedWhenUnlimited'
    <2> SUFFICES ASSUME Quiet, configured = 0, NEW f \in Executors, f \notin unproven'
                 PROVE  assigned'[f] \in {0, Unassigned} \/ Pending(f)'
        BY <1>2 DEF LiftedWhenUnlimited, Quiet
    <2>1. CASE f = e
        <3>1. c = 0
            BY <1>9, <1>10, ShareValue
        <3> QED BY <2>1, <3>1, <1>3, <1>4, <1>7, Told, CeilingAssumption
    <2>2. CASE f # e
        <3>1. assigned'[f] = assigned[f]
            BY <2>2, <1>3, <1>4, Told
        <3>2. assigned[f] \in {0, Unassigned} \/ Pending(f)
            BY <1>7 DEF IInv, LiftedWhenUnlimited, Quiet
        <3> QED BY <2>2, <3>1, <3>2, <1>8
    <2> QED BY <2>1, <2>2
<1>14. Typed'
    <2>1. assigned' \in [Executors -> Ceilings] /\ ceiling' \in [Executors -> Nat]
        BY <1>3, <1>4, Told
    <2>2. TypeOK'
        BY <1>2, <1>6, <1>7, <2>1 DEF IInv, Typed, TypeOK
    <2>3. \A q \in {Lock, Cycle} : OpOK(op'[q])
        BY <1>5, <1>6 DEF IInv, Typed
    <2>4. op'[Cycle].at \notin {"own", "newcomer"}
        BY <1>5, <1>6 DEF IInv, Typed
    <2> QED BY <2>2, <2>3, <2>4 DEF Typed, OpOK
<1>15. (Confirmed /\ Unseeded /\ Seeding /\ Apart)'
    <2>1. Confirmed'
        BY <1>3, <1>4, Told
    <2>2. op[p] # Idle
        BY <1>2, Names
    <2>3. (Unseeded /\ Seeding)'
        BY <1>2, <2>2 DEF IInv, Unseeded, Seeding
    <2>4. Apart'
        BY <1>2, <1>6, <2>2, Names DEF IInv, Apart
    <2> QED BY <2>1, <2>3, <2>4
<1>16. Split'
    <2> SUFFICES ASSUME Quiet, NEW q \in {Lock, Cycle} PROVE Splitting(q)'
        BY <1>2 DEF Split, Quiet
    <2>1. op[p] # Idle /\ Splitting(p)
        BY <1>2, Names DEF IInv, Split
    <2>2. CASE q # p
        <3>1. op'[q] = Idle
            BY <1>6, <2>1, <2>2 DEF IInv, Apart, Quiet
        <3> QED BY <3>1, Names DEF Splitting
    <2>3. CASE q = p
        <3>1. op'[p].at \in Converging => op'[p].share = c
            BY <1>3, <1>5, <1>6 DEF OpType, c
        <3>2. Share(Cardinality(reserved))' = Share(Cardinality(reserved))
            BY <1>2 DEF Share
        <3> QED BY <2>3, <3>1, <3>2, <1>5, <1>6, <1>9 DEF Splitting
    <2> QED BY <2>2, <2>3
<1>17. Covered'
    <2> SUFFICES ASSUME ~patched, configured > 0, NEW f \in reserved, starting[f] > 0, ~error'
                 PROVE  Pending(f)' \/ (assigned'[f] \in Nat /\ assigned'[f] > 0)
        BY <1>2 DEF Covered
    <2>1. Confirm(e, c) /\ error' = error /\ f \in Executors
        BY <1>1 DEF c, IInv, Typed, TypeOK
    <2>2. CASE f = e
        BY <2>1, <2>2, <1>3 DEF Confirm, IInv, Typed, TypeOK
    <2>3. CASE f # e
        <3>1. assigned'[f] = assigned[f]
            BY <2>1, <2>3, <1>3, <1>4, Told
        <3> QED BY <2>1, <2>3, <3>1, <1>8 DEF IInv, Covered
    <2> QED BY <2>2, <2>3
<1> QED BY <1>12, <1>13, <1>14, <1>15, <1>16, <1>17 DEF IInv

-----------------------------------------------------------------------------
(* Admission *)

\* What an admission does to the attempts that wait to be started.
LEMMA StartingTyped ==
    ASSUME Typed, NEW e \in Executors, starting' = starting \/ Admitted(e)
    PROVE  /\ starting' \in [Executors -> 0 .. StartLimit]
           /\ \A f \in Executors \ {e} : starting'[f] = starting[f]
BY StartLimitAssumption DEF Admitted, Typed, TypeOK

\* An admitted executor is covered by the ceiling it was just told.
LEMMA CoveredTold ==
    ASSUME IInv, NEW e \in Executors, NEW c \in Nat, c > 0,
           \/ Confirm(e, c) /\ error' = error
           \/ FailToConfirm(e, c) /\ error' = TRUE,
           configured' = configured, patched' = patched, reserved' \subseteq reserved \cup {e},
           starting' = starting \/ Admitted(e),
           \A f \in Executors : Pending(f) => Pending(f)'
    PROVE  Covered'
<1> SUFFICES ASSUME ~patched, configured > 0, NEW f \in reserved', starting'[f] > 0, ~error'
             PROVE  Pending(f)' \/ (assigned'[f] \in Nat /\ assigned'[f] > 0)
    BY DEF Covered
<1>1. Confirm(e, c) /\ error' = error /\ f \in Executors
    BY DEF IInv, Typed, TypeOK
<1>2. CASE f = e
    BY <1>1, <1>2 DEF Confirm, IInv, Typed, TypeOK
<1>3. CASE f # e
    <2>1. assigned'[f] = assigned[f] /\ starting'[f] = starting[f]
        BY <1>1, <1>3, Told, StartingTyped DEF IInv
    <2> QED BY <1>1, <1>3, <2>1 DEF IInv, Covered
<1> QED BY <1>2, <1>3

LEMMA AdmitOwnStep == ASSUME IInv, AdmitOwn PROVE IInv'
<1> DEFINE e == op[Lock].who
           c == op[Lock].share
<1>1. /\ op[Lock].at = "own" /\ op' = [op EXCEPT ![Lock] = Idle]
      /\ configured' = configured /\ patched' = patched /\ reserved' = reserved
      /\ seeded' = seeded /\ unproven' = unproven /\ facts' = facts /\ overlapped' = overlapped
      /\ job' = job
    BY DEF AdmitOwn
<1>2. e \in Executors /\ c \in Nat /\ c > 0 /\ op \in [{Lock, Cycle} -> OpType]
    BY <1>1 DEF IInv, Typed, TypeOK, OpOK
<1>3. /\ Confirm(e, c) \/ FailToConfirm(e, c)
      /\ starting' = starting \/ Admitted(e)
      /\ error' \in {error, TRUE}
      /\ (FailToConfirm(e, c) /\ error' = TRUE) \/ (Confirm(e, c) /\ error' = error)
    BY DEF AdmitOwn
<1>4. op'[Lock] = Idle /\ op'[Cycle] = op[Cycle] /\ op' \in [{Lock, Cycle} -> OpType]
    BY <1>1, <1>2, Names
<1>5. op[Lock] # Idle
    BY <1>1, Names
<1>6. /\ configured \in Nat /\ Cardinality(reserved) \in Nat
    BY Counting, CapsAssumption DEF IInv, Typed, TypeOK
<1>7. Quiet => configured > 0 /\ c = Share(Cardinality(reserved))
    BY <1>1 DEF IInv, Split, Splitting
<1>8. Quiet /\ configured > 0 => c > 0 /\ c * Cardinality(reserved) <= configured
    BY <1>2, <1>6, <1>7, ShareValue, CeilingAssumption
<1>9. \A f \in Executors : Pending(f) => Pending(f)'
    BY <1>1, <1>4, Names DEF Pending, Converging
<1> HIDE DEF e, c
<1>10. SharesBounded'
    BY <1>1, <1>2, <1>3, <1>8, <1>9, SharesTold
<1>11. LiftedWhenUnlimited'
    BY <1>1, <1>6, <1>7 DEF LiftedWhenUnlimited, Quiet
<1>12. Typed'
    <2>1. assigned' \in [Executors -> Ceilings] /\ ceiling' \in [Executors -> Nat]
        BY <1>2, <1>3, Told
    <2>2. starting' \in [Executors -> 0 .. StartLimit]
        BY <1>2, <1>3, StartingTyped DEF IInv
    <2>3. TypeOK'
        BY <1>1, <1>3, <1>4, <2>1, <2>2 DEF IInv, Typed, TypeOK
    <2>4. \A q \in {Lock, Cycle} : OpOK(op'[q])
        BY <1>4, Names DEF IInv, Typed
    <2> QED BY <1>4, <2>3, <2>4 DEF IInv, Typed, OpOK
<1>13. (Confirmed /\ Unseeded /\ Seeding /\ Apart)'
    <2>1. Confirmed'
        BY <1>2, <1>3, Told
    <2>2. (Unseeded /\ Seeding)'
        BY <1>1, <1>5 DEF IInv, Unseeded, Seeding
    <2> QED BY <2>1, <2>2, <1>4 DEF Apart
<1>14. Split'
    <2>1. Quiet' => \A q \in {Lock, Cycle} : op'[q] = Idle
        BY <1>1, <1>4, <1>5 DEF IInv, Apart, Quiet
    <2> QED BY <2>1, Names DEF Split, Splitting
<1>15. Covered'
    BY <1>1, <1>2, <1>3, <1>9, CoveredTold
<1> QED BY <1>10, <1>11, <1>12, <1>13, <1>14, <1>15 DEF IInv

\* An executor already reserved is told the smaller share.
LEMMA ShrinkStep ==
    ASSUME IInv, op[Lock].at = "newcomer",
           NEW f \in op[Lock].todo, Confirm(f, op[Lock].share),
           op' = [op EXCEPT ![Lock].todo = @ \ {f}],
           UNCHANGED <<configured, patched, reserved, seeded, error, unproven, starting, job, facts, overlapped>>
    PROVE  IInv'
<1> DEFINE c == op[Lock].share
           e == op[Lock].who
<1>1. /\ op \in [{Lock, Cycle} -> OpType] /\ f \in Executors
      /\ c \in Nat /\ c > 0 /\ e \in Executors
    BY DEF IInv, Typed, TypeOK, OpType, OpOK
<1>2. /\ op'[Lock] = [op[Lock] EXCEPT !.todo = @ \ {f}] /\ op'[Cycle] = op[Cycle]
      /\ op' \in [{Lock, Cycle} -> OpType]
      /\ op'[Lock].at = "newcomer" /\ op'[Lock].share = c /\ op'[Lock].who = e
      /\ op'[Lock].todo = op[Lock].todo \ {f}
    BY <1>1, Names DEF OpType
<1>3. op[Lock] # Idle
    BY Names
<1>4. /\ configured \in Nat /\ Cardinality(reserved) \in Nat
    BY Counting, CapsAssumption DEF IInv, Typed, TypeOK
<1>5. Quiet => /\ configured > 0 /\ e \notin reserved /\ c = Share(Cardinality(reserved) + 1)
               /\ \A g \in reserved \ op[Lock].todo : assigned[g] = c
    BY DEF IInv, Split, Splitting
<1>6. Quiet /\ configured > 0 => c > 0 /\ c * Cardinality(reserved) <= configured
    <2> SUFFICES ASSUME Quiet, configured > 0 PROVE c * Cardinality(reserved) <= configured
        BY <1>1
    <2>1. c * (Cardinality(reserved) + 1) <= configured
        BY <1>1, <1>4, <1>5, ShareValue, CeilingAssumption
    <2> QED BY <2>1, <1>1, <1>4
<1>7. \A g \in Executors : Pending(g) => Pending(g)'
    BY <1>2, Names DEF Pending, Converging
<1> HIDE DEF c
<1>8. SharesBounded'
    BY <1>1, <1>6, <1>7, SharesTold DEF c
<1>9. LiftedWhenUnlimited'
    BY <1>4, <1>5 DEF LiftedWhenUnlimited, Quiet
<1>10. /\ assigned' \in [Executors -> Ceilings] /\ ceiling' \in [Executors -> Nat] /\ Confirmed'
       /\ assigned'[f] = c /\ \A g \in Executors \ {f} : assigned'[g] = assigned[g]
    BY <1>1, Told DEF c, Confirm, IInv, Typed, TypeOK
<1>11. Typed'
    <2>1. TypeOK'
        BY <1>2, <1>10 DEF IInv, Typed, TypeOK
    <2>2. \A q \in {Lock, Cycle} : OpOK(op'[q])
        BY <1>1, <1>2, Names DEF IInv, Typed, OpOK, Converging, c
    <2> QED BY <1>2, <2>1, <2>2 DEF IInv, Typed, OpOK
<1>12. (Unseeded /\ Seeding /\ Apart)'
    BY <1>2, <1>3 DEF IInv, Unseeded, Seeding, Apart
<1>13. Split'
    <2> SUFFICES ASSUME Quiet PROVE Splitting(Lock)' /\ Splitting(Cycle)'
        BY DEF Split, Quiet
    <2>1. op'[Cycle] = Idle
        BY <1>2, <1>3 DEF IInv, Apart, Quiet
    <2>2. Splitting(Cycle)'
        BY <2>1, Names DEF Splitting
    <2>3. Share(Cardinality(reserved) + 1)' = Share(Cardinality(reserved) + 1)
        BY DEF Share
    <2>4. \A g \in reserved \ op'[Lock].todo : assigned'[g] = c
        BY <1>2, <1>5, <1>10 DEF IInv, Typed, TypeOK
    <2>5. Splitting(Lock)'
        BY <1>2, <1>5, <2>3, <2>4, Names DEF Splitting, Converging, c
    <2> QED BY <2>2, <2>5
<1>14. Covered'
    BY <1>1, <1>7, CoveredTold DEF c
<1> QED BY <1>8, <1>9, <1>10, <1>11, <1>12, <1>13, <1>14 DEF IInv

\* Everybody has the smaller share: the newcomer gets it too, and counts.
LEMMA JoinStep ==
    ASSUME IInv, op[Lock].at = "newcomer",
           \A f \in op[Lock].todo : assigned[f] = op[Lock].share,
           Confirm(op[Lock].who, op[Lock].share), Admitted(op[Lock].who),
           reserved' = reserved \cup {op[Lock].who},
           op' = [op EXCEPT ![Lock] = Idle],
           UNCHANGED <<configured, patched, seeded, error, unproven, job, facts, overlapped>>
    PROVE  IInv'
<1> DEFINE c == op[Lock].share
           e == op[Lock].who
<1>1. e \in Executors /\ c \in Nat /\ c > 0 /\ op \in [{Lock, Cycle} -> OpType]
    BY DEF IInv, Typed, TypeOK, OpOK
<1>2. op'[Lock] = Idle /\ op'[Cycle] = op[Cycle] /\ op' \in [{Lock, Cycle} -> OpType]
    BY <1>1, Names
<1>3. op[Lock] # Idle
    BY Names
<1>4. /\ configured \in Nat /\ Cardinality(reserved) \in Nat /\ reserved \in SUBSET Executors
    BY Counting, CapsAssumption DEF IInv, Typed, TypeOK
<1>5. /\ assigned' \in [Executors -> Ceilings] /\ ceiling' \in [Executors -> Nat] /\ Confirmed'
      /\ assigned'[e] = c /\ \A g \in Executors \ {e} : assigned'[g] = assigned[g]
    BY <1>1, Told, ZenonT(60) DEF Confirm, IInv, Typed, TypeOK
<1>6. Typed'
    <2>1. starting' \in [Executors -> 0 .. StartLimit]
        BY <1>1, StartingTyped DEF IInv
    <2>2. TypeOK'
        BY <1>1, <1>2, <1>5, <2>1 DEF IInv, Typed, TypeOK
    <2>3. \A q \in {Lock, Cycle} : OpOK(op'[q])
        BY <1>2, Names DEF IInv, Typed
    <2> QED BY <1>2, <2>2, <2>3 DEF IInv, Typed, OpOK
<1>7. (Unseeded /\ Seeding /\ Apart)'
    BY <1>2, <1>3 DEF IInv, Unseeded, Seeding, Apart
<1>8. Split'
    <2>1. Quiet' => \A q \in {Lock, Cycle} : op'[q] = Idle
        BY <1>2, <1>3 DEF IInv, Apart, Quiet
    <2> QED BY <2>1, Names DEF Split, Splitting
<1>9. Quiet => /\ configured > 0 /\ e \notin reserved /\ c = Share(Cardinality(reserved) + 1)
               /\ \A g \in reserved : assigned[g] = c
    BY DEF IInv, Split, Splitting
<1>10. LiftedWhenUnlimited'
    BY <1>4, <1>9 DEF LiftedWhenUnlimited, Quiet
<1>11. SharesBounded'
    <2> SUFFICES ASSUME Quiet, NEW f \in reserved \cup {e}
                 PROVE  0 < ceiling'[f] /\ ceiling'[f] * Cardinality(reserved \cup {e}) <= configured
        BY DEF SharesBounded, Quiet
    <2>1. assigned'[f] = c
        BY <1>4, <1>5, <1>9
    <2>2. ceiling'[f] = c
        BY <1>1, <1>4, <1>5, <2>1 DEF Confirmed
    <2>3. Cardinality(reserved \cup {e}) = Cardinality(reserved) + 1
        BY <1>4, <1>9, Counting
    <2>4. c * (Cardinality(reserved) + 1) <= configured
        BY <1>1, <1>4, <1>9, ShareValue, CeilingAssumption
    <2> QED BY <1>1, <2>2, <2>3, <2>4
<1>12. \A g \in Executors : Pending(g) => Pending(g)'
    BY <1>2, Names DEF Pending, Converging
<1>13. Covered'
    BY <1>1, <1>12, CoveredTold
<1> QED BY <1>5, <1>6, <1>7, <1>8, <1>10, <1>11, <1>13 DEF IInv

LEMMA AdmitNewcomerStep == ASSUME IInv, AdmitNewcomer PROVE IInv'
<1> DEFINE e     == op[Lock].who
           share == op[Lock].share
           left  == {f \in op[Lock].todo : assigned[f] # share}
<1>1. /\ op[Lock].at = "newcomer" /\ configured' = configured
      /\ job' = job /\ facts' = facts /\ overlapped' = overlapped
    BY DEF AdmitNewcomer
<1>2. CASE \E f \in left :
             /\ Confirm(f, share)
             /\ op' = [op EXCEPT ![Lock].todo = @ \ {f}]
             /\ UNCHANGED <<starting, patched, reserved, seeded, error, unproven>>
    BY <1>1, <1>2, ShrinkStep
<1>3. CASE /\ left = {}
           /\ Confirm(e, share) /\ Admitted(e)
           /\ reserved' = reserved \cup {e}
           /\ op' = [op EXCEPT ![Lock] = Idle]
           /\ UNCHANGED <<patched, seeded, error, unproven>>
    BY <1>1, <1>3, JoinStep
<1>4. CASE /\ \E f \in IF left = {} THEN {e} ELSE left : FailToConfirm(f, share)
           /\ StartConverge(Lock, "abandon", reserved, assigned')
           /\ starting' = starting
    <2>1. PICK f \in IF left = {} THEN {e} ELSE left : FailToConfirm(f, share)
        BY <1>4
    <2>2. f \in Executors /\ share \in Nat
        BY <1>1, <2>1 DEF IInv, Typed, TypeOK, OpType, OpOK
    <2>3. assigned' \in [Executors -> Ceilings] /\ ceiling' \in [Executors -> Nat] /\ Confirmed'
        BY <2>1, <2>2, Told
    <2>4. /\ Typed /\ reserved \in SUBSET Executors /\ overlapped' \in BOOLEAN
          /\ job' \in [Executors -> {"none", "live", "ended"}]
          /\ starting' \in [Executors -> 0 .. StartLimit]
          /\ facts' \in [Executors -> {"none", "required", "free", "uncertain"}]
          /\ Lock \in {Lock, Cycle} /\ "abandon" \in Converging
        BY <1>1, <1>4 DEF IInv, Typed, TypeOK, Converging
    <2>5. \A q \in {Lock, Cycle} \ {Lock} : ~overlapped' => op[q] = Idle
        BY <1>1, Names DEF IInv, Apart
    <2> QED BY <1>1, <1>4, <2>3, <2>4, <2>5, StartConvergeStep
<1> QED BY <1>2, <1>3, <1>4 DEF AdmitNewcomer

LEMMA AdmitStep == ASSUME IInv, NEW e \in Executors, Admit(e) PROVE IInv'
<1> DEFINE R     == Seeded
           share == Share(Cardinality(R \cup {e}))
<1>1. /\ op[Lock] = Idle /\ seeded' = TRUE /\ configured' = configured /\ patched' = patched
      /\ assigned' = assigned /\ unproven' = unproven /\ ceiling' = ceiling
      /\ job' = job /\ facts' = facts
      /\ Meeting(op[Cycle] # Idle)
    BY DEF Admit
<1>2. /\ overlapped' \in BOOLEAN /\ (overlapped => overlapped')
      /\ ~overlapped' => op[Cycle] = Idle
    BY <1>1 DEF Meeting, IInv, Typed, TypeOK
<1>3. facts' \in [Executors -> {"none", "required", "free", "uncertain"}]
    BY <1>1 DEF IInv, Typed, TypeOK
<1>4. R \in SUBSET Executors /\ Cardinality(R) \in Nat /\ configured \in Nat
      /\ Cardinality(R \cup {e}) = IF e \in R THEN Cardinality(R) ELSE Cardinality(R) + 1
    BY SeededValue, Counting, CapsAssumption DEF IInv, Typed, TypeOK
<1>5. (Confirmed /\ Unseeded /\ Seeding)' /\ job' \in [Executors -> {"none", "live", "ended"}]
    BY <1>1 DEF IInv, Typed, TypeOK, Confirmed, Unseeded, Seeding
<1>6. error \in BOOLEAN
    BY DEF IInv, Typed, TypeOK
<1>7. CASE error' = TRUE /\ reserved' = R /\ UNCHANGED <<starting, op>>
    <2>1. starting' \in [Executors -> 0 .. StartLimit]
        BY <1>7 DEF IInv, Typed, TypeOK
    <2> QED BY <1>1, <1>2, <1>3, <1>5, <1>7, <2>1, SeedStep
<1>8. CASE configured = 0 /\ reserved' = R \cup {e} /\ Admitted(e) /\ UNCHANGED <<error, op>>
    <2>1. starting' \in [Executors -> 0 .. StartLimit]
        BY <1>8, StartingTyped DEF IInv
    <2>2. Typed'
        BY <1>1, <1>2, <1>3, <1>4, <1>5, <1>8, <2>1 DEF IInv, Typed, TypeOK, OpOK
    <2>3. Apart'
        BY <1>1, <1>8 DEF Apart
    <2>4. Split'
        <3>1. Quiet' => \A q \in {Lock, Cycle} : op'[q] = Idle
            BY <1>1, <1>2, <1>8 DEF Quiet
        <3> QED BY <3>1, Names DEF Split, Splitting
    <2>5. SharesBounded'
        BY <1>1, <1>8 DEF SharesBounded
    <2>6. LiftedWhenUnlimited'
        BY <1>1, <1>2, <1>8 DEF IInv, LiftedWhenUnlimited, Pending
    <2>7. Covered'
        BY <1>1, <1>8 DEF Covered
    <2> QED BY <1>5, <2>2, <2>3, <2>4, <2>5, <2>6, <2>7 DEF IInv
<1>9. CASE /\ configured > 0 /\ share # None /\ reserved' = R /\ error' = error
           /\ e \in R /\ assigned[e] = share /\ Admitted(e) /\ op' = op
    <2>1. /\ starting' \in [Executors -> 0 .. StartLimit]
          /\ \A f \in Executors \ {e} : starting'[f] = starting[f]
        BY <1>9, StartingTyped DEF IInv
    <2>2. assigned[e] \in Nat /\ assigned[e] > 0
        BY <1>4, <1>9, ShareValue
    <2>3. \A f \in Executors : starting'[f] > 0 =>
                starting[f] > 0 \/ (assigned[f] \in Nat /\ assigned[f] > 0)
        BY <2>1, <2>2
    <2> HIDE DEF share, R
    <2> QED BY <1>1, <1>2, <1>3, <1>5, <1>6, <1>9, <2>1, <2>3, SeedStep DEF R
<1>10. CASE /\ configured > 0 /\ share # None /\ reserved' = R /\ error' = error /\ starting' = starting
            /\ op' = [op EXCEPT ![Lock] = IF e \in R THEN Op("own", share, {}, e)
                                          ELSE Op("newcomer", share, R, e)]
    <2> DEFINE next == IF e \in R THEN Op("own", share, {}, e) ELSE Op("newcomer", share, R, e)
    <2>1. share \in Nat /\ share > 0
        BY <1>4, <1>10, ShareValue
    <2>2. share = Share(IF e \in R THEN Cardinality(R) ELSE Cardinality(R) + 1)
        BY <1>4
    <2> HIDE DEF share, R
    <2>3. /\ next \in OpType /\ OpOK(next) /\ next.at \in {"own", "newcomer"}
          /\ next.at = "own" => e \in R
          /\ next.at = "newcomer" => e \notin R /\ next.todo = R
          /\ next.share = share /\ next.who = e
        BY <1>4, <2>1, Names DEF OpType, OpOK, Op, Converging
    <2>4. /\ op'[Lock] = next /\ op'[Cycle] = op[Cycle] /\ op' \in [{Lock, Cycle} -> OpType]
        BY <1>10, <2>3, Names DEF IInv, Typed, TypeOK
    <2> HIDE DEF next
    <2>5. Typed'
        <3>1. TypeOK'
            BY <1>1, <1>2, <1>3, <1>4, <1>5, <1>10, <2>4 DEF IInv, Typed, TypeOK
        <3>2. \A q \in {Lock, Cycle} : OpOK(op'[q])
            BY <2>3, <2>4 DEF IInv, Typed
        <3> QED BY <2>4, <3>1, <3>2 DEF IInv, Typed, OpOK
    <2>6. Apart'
        BY <1>2, <2>4 DEF Apart
    <2>7. \A f \in Executors : Pending(f) => Pending(f)'
        BY <1>1, <2>4, Names DEF Pending
    <2>8. SharesBounded' /\ LiftedWhenUnlimited'
        BY <1>1, <1>2, <1>10, <2>7, SharesSeeded DEF R
    <2>9. Split'
        <3> SUFFICES ASSUME ~overlapped' PROVE Splitting(Lock)' /\ Splitting(Cycle)'
            BY DEF Split, Quiet
        <3>1. Splitting(Cycle)'
            BY <1>2, <2>4, Names DEF Splitting
        <3>2. next.at \notin Converging
            BY <2>3 DEF Converging
        <3>3. /\ e \in R => share = Share(Cardinality(reserved))'
              /\ e \notin R => share = Share(Cardinality(reserved) + 1)'
            BY <1>1, <1>10, <2>2 DEF Share
        <3>4. Splitting(Lock)'
            BY <1>1, <1>10, <2>3, <2>4, <3>2, <3>3 DEF Splitting
        <3> QED BY <3>1, <3>4
    <2>10. Covered'
        <3>1. seeded => reserved' = reserved
            BY <1>10, SeededValue DEF IInv, R
        <3>2. reserved' \in SUBSET Executors
            BY <1>4, <1>10
        <3> QED BY <1>1, <1>10, <2>7, <3>1, <3>2 DEF IInv, Seeding, Covered
    <2> QED BY <1>5, <2>5, <2>6, <2>8, <2>9, <2>10 DEF IInv
<1> QED BY <1>7, <1>8, <1>9, <1>10 DEF Admit

-----------------------------------------------------------------------------
(* Every step *)

LEMMA StepIInv == IInv /\ [Next]_vars => IInv'
<1> SUFFICES ASSUME IInv, [Next]_vars PROVE IInv'
    OBVIOUS
<1>1. ASSUME Gather \/ (\E e \in Executors : Start(e) \/ JobEnds(e) \/ RecordEnd(e)) \/ UNCHANGED vars
      PROVE  IInv'
    <2>1. /\ UNCHANGED <<policy, ceiling, op, overlapped>>
          /\ \A e \in Executors : starting'[e] > 0 => starting[e] > 0
        BY <1>1 DEF Gather, Start, JobEnds, RecordEnd, vars, policy, IInv, Typed, TypeOK
    <2>2. starting' \in [Executors -> 0 .. StartLimit]
        <3>1. CASE \E e \in Executors : Start(e)
            BY <3>1, StartLimitAssumption DEF Start, IInv, Typed, TypeOK
        <3>2. CASE Gather \/ (\E e \in Executors : JobEnds(e) \/ RecordEnd(e)) \/ UNCHANGED vars
            BY <3>2 DEF Gather, JobEnds, RecordEnd, vars, IInv, Typed, TypeOK
        <3> QED BY <1>1, <3>1, <3>2
    <2>3. /\ job' \in [Executors -> {"none", "live", "ended"}]
          /\ facts' \in [Executors -> {"none", "required", "free", "uncertain"}]
        BY <1>1 DEF Gather, Start, JobEnds, RecordEnd, vars, IInv, Typed, TypeOK
    <2> QED BY <2>1, <2>2, <2>3, WorkStep
<1>2. ASSUME NEW c \in Caps, Configure(c) PROVE IInv'
    BY <1>2, ConfigureStep
<1>3. ASSUME NEW p \in {Lock, Cycle}, Converge(p) PROVE IInv'
    BY <1>3, ConvergeStep
<1>4. ASSUME NEW e \in Executors, Admit(e) PROVE IInv'
    BY <1>4, AdmitStep
<1>5. CASE Read \/ AdmitOwn \/ AdmitNewcomer \/ Observe \/ ReleaseAbsent \/ Restart
    BY <1>5, ReadStep, AdmitOwnStep, AdmitNewcomerStep, ObserveStep, ReleaseAbsentStep, RestartStep
<1> QED BY <1>1, <1>2, <1>3, <1>4, <1>5 DEF Next

THEOREM Inductive == Spec => []IInv
BY InitIInv, StepIInv, PTL DEF Spec

\* Every variable of the allocator keeps its type, the shares included.
THEOREM TypeCorrect == Spec => []TypeOK
<1>1. IInv => TypeOK
    BY DEF IInv, Typed
<1> QED BY <1>1, Inductive, PTL

\* The confirmed shares of _converge and _admit never exceed the cap while lock
\* and cycle keep apart, for any executors and any cap.
THEOREM SharesAlwaysBounded == Spec => []SharesBounded
<1>1. IInv => SharesBounded
    BY DEF IInv
<1> QED BY <1>1, Inductive, PTL

-----------------------------------------------------------------------------
(* The cap itself: what bounds each share bounds their sum *)

\* The reserved executors whose ceiling counts as confirmed.
Proven == {e \in reserved \ unproven : assigned[e] \in Nat /\ ~Pending(e)}

\* While lock and cycle keep out of each other's way, all that is confirmed
\* together stays within a finite cap, in the middle of a step as well.
ProvenWithinCap ==
    ~overlapped /\ ~patched /\ configured > 0 => Sum(ceiling, Proven) <= configured

LEMMA TotalOfShares == IInv => ProvenWithinCap
<1> SUFFICES ASSUME IInv, ~overlapped, ~patched, configured > 0
             PROVE  Sum(ceiling, Proven) <= configured
    BY DEF ProvenWithinCap
<1> DEFINE n == Cardinality(reserved)
<1>1. /\ reserved \in SUBSET Executors /\ Proven \in SUBSET reserved
      /\ configured \in Nat /\ ceiling \in [Executors -> Nat]
    BY CapsAssumption DEF IInv, Typed, TypeOK, Proven
<1>2. IsFiniteSet(reserved) /\ n \in Nat /\ IsFiniteSet(Proven) /\ Cardinality(Proven) \in Nat
    BY <1>1, Counting, FS_Subset, FS_CardinalityType
<1>3. Cardinality(Proven) <= n
    BY <1>1, <1>2, FS_Subset
<1>4. \A e \in Proven : ceiling[e] \in Nat /\ ceiling[e] * n <= configured
    BY <1>1 DEF IInv, SharesBounded, Proven
<1>5. CASE n = 0
    <2>1. Cardinality(Proven) = 0 /\ \A e \in Proven : FALSE
        BY <1>1, <1>2, <1>3, <1>5, FS_EmptySet
    <2>2. Sum(ceiling, Proven) <= 0 * Cardinality(Proven) /\ Sum(ceiling, Proven) \in Nat
        BY <1>2, <2>1, SumBound
    <2> QED BY <1>1, <2>1, <2>2
<1>6. CASE n > 0
    <2> DEFINE q == configured \div n
    <2> HIDE DEF n
    <2>1. q \in Nat /\ q * n <= configured
        BY <1>1, <1>2, <1>6
    <2>2. \A k \in Nat : k * n <= configured => k <= q
        BY <1>1, <1>2, <1>6
    <2>3. \A e \in Proven : ceiling[e] \in Nat /\ ceiling[e] <= q
        BY <1>4, <2>2
    <2> HIDE DEF q
    <2>4. Sum(ceiling, Proven) \in Nat /\ Sum(ceiling, Proven) <= q * Cardinality(Proven)
        BY <1>2, <2>1, <2>3, SumBound
    <2>5. q * Cardinality(Proven) <= q * n
        BY <1>2, <1>3, <2>1
    <2>6. q * Cardinality(Proven) \in Nat /\ q * n \in Nat
        BY <1>2, <2>1
    <2> QED BY <1>1, <2>1, <2>4, <2>5, <2>6
<1> QED BY <1>2, <1>5, <1>6

\* The ceilings _converge and _admit have confirmed never add up to more than
\* the cap, for any executors, while lock and cycle keep apart.
THEOREM ProvenNeverExceed == Spec => []ProvenWithinCap
BY Inductive, TotalOfShares, PTL

\* What status() reports as proven is proven unless lock and cycle have met:
\* the overlap of _reconcile_runtime_limits with the lock is the only thing
\* that breaks WithinCapAtRest.
THEOREM CapHoldsApart == Spec => [](~overlapped => WithinCapAtRest)
<1>1. IInv /\ ProvenWithinCap => (~overlapped => WithinCapAtRest)
    <2> SUFFICES ASSUME IInv, ProvenWithinCap, ~overlapped,
                        \A p \in {Lock, Cycle} : op[p] = Idle,
                        configured > 0, ~patched, unproven = {},
                        \A e \in reserved : assigned[e] \in Nat
                 PROVE  Sum(ceiling, reserved) <= configured
        BY DEF WithinCapAtRest, Sum
    <2>1. \A e \in Executors : ~Pending(e)
        BY Names DEF Pending
    <2>2. Proven = reserved
        BY <2>1 DEF Proven, IInv, Typed, TypeOK
    <2> QED BY <2>2 DEF ProvenWithinCap
<1> QED BY <1>1, Inductive, TotalOfShares, PTL

\* A lifted cap leaves no executor throttled in silence.
THEOREM LiftedForAll == Spec => []LiftedWhenUnlimited
<1>1. IInv => LiftedWhenUnlimited
    BY DEF IInv
<1> QED BY <1>1, Inductive, PTL

\* Only an admission prepares an attempt, and its executor has a ceiling by
\* then: for every behaviour, those in which lock and cycle overlap included.
LEMMA AdmissionProved ==
    ASSUME IInv, [Next]_vars, NEW e \in Executors, starting'[e] > starting[e], configured > 0
    PROVE  Proved(e)'
<1>0. starting \in [Executors -> 0 .. StartLimit] /\ StartLimit \in Nat
    BY StartLimitAssumption DEF IInv, Typed, TypeOK
<1>1. ASSUME NEW f \in Executors, Admit(f) PROVE Proved(e)'
    <2> DEFINE share == Share(Cardinality(Seeded \cup {f}))
    <2>1. /\ Admitted(f) /\ f \in Seeded /\ assigned[f] = share /\ share # None
          /\ assigned' = assigned /\ ceiling' = ceiling
        BY <1>0, <1>1 DEF Admit
    <2>2. e = f
        BY <1>0, <2>1 DEF Admitted
    <2>3. Cardinality(Seeded \cup {f}) \in Nat /\ configured \in Nat
        BY <2>1, SeededValue, Counting, CapsAssumption DEF IInv, Typed, TypeOK
    <2>4. share \in Nat /\ share > 0
        BY <2>1, <2>3, ShareValue
    <2>5. ceiling[f] = assigned[f]
        BY <2>1, <2>4 DEF IInv, Confirmed
    <2> QED BY <2>1, <2>2, <2>4, <2>5 DEF Proved
<1>2. CASE AdmitOwn \/ AdmitNewcomer
    <2> DEFINE w == op[Lock].who
    <2>1. Confirm(w, op[Lock].share) /\ Admitted(w) /\ op[Lock].at \in {"own", "newcomer"}
        BY <1>0, <1>2 DEF AdmitOwn, AdmitNewcomer
    <2>2. w \in Executors /\ op[Lock].share \in Nat /\ op[Lock].share > 0
        BY <2>1 DEF IInv, Typed, OpOK
    <2>3. e = w
        BY <1>0, <2>1, <2>2 DEF Admitted
    <2> QED BY <2>1, <2>2, <2>3 DEF Confirm, IInv, Typed, TypeOK, Proved
<1>3. ASSUME \/ \E c \in Caps : Configure(c)
             \/ Read
             \/ \E p \in {Lock, Cycle} : Converge(p)
             \/ Gather \/ Observe \/ ReleaseAbsent
             \/ \E f \in Executors : Start(f) \/ JobEnds(f) \/ RecordEnd(f)
             \/ Restart \/ UNCHANGED vars
      PROVE FALSE
    BY <1>0, <1>3 DEF Configure, Read, Converge, Gather, Observe, ReleaseAbsent,
                      Start, JobEnds, RecordEnd, Restart, work, vars
<1> QED BY <1>1, <1>2, <1>3 DEF Next

\* What was admitted begins later: by then Covered holds of it still.
LEMMA BeginningProved ==
    ASSUME IInv, [Next]_vars, NEW e \in Executors, starting'[e] < starting[e],
           job'[e] = "live", configured > 0, ~patched, e \in reserved
    PROVE  Proved(e) \/ Pending(e) \/ error
<1>1. starting[e] \in Nat /\ starting'[e] \in Nat
    BY StartLimitAssumption, StepIInv DEF IInv, Typed, TypeOK
<1>2. starting[e] > 0
    BY <1>1, StartLimitAssumption DEF IInv, Typed, TypeOK
<1> QED BY <1>2 DEF IInv, Covered, Confirmed, Proved, Typed, TypeOK

\* "Proven before its native acquisition may begin": under a finite cap nothing
\* is admitted without a confirmed ceiling, and nothing begins without one that
\* is confirmed, being told or reported unproven, whatever changed in between.
THEOREM AcquiresOnlyUnderCeiling == Spec => AcquiresUnderCeiling
<1>1. IInv /\ [Next]_vars =>
        [\A e \in Executors : configured > 0 =>
            /\ starting'[e] > starting[e] => Proved(e)'
            /\ (starting'[e] < starting[e] /\ job'[e] = "live" /\ ~patched /\ e \in reserved)
                  => Proved(e) \/ Pending(e) \/ error]_vars
    BY AdmissionProved, BeginningProved
<1> QED BY <1>1, Inductive, PTL DEF Spec, AcquiresUnderCeiling
=============================================================================
