--------------------------- MODULE RestoreSwapProofs ---------------------------
(***************************************************************************)
(* For any files and any number of restores: the stored state can always be *)
(* put back whole, and (when a commit can remove its journal) a restore is   *)
(* atomic.  The argument is one sentence: whatever has been moved so far,    *)
(* reversing the journal yields the state the last application was composed  *)
(* over.                                                                    *)
(***************************************************************************)
EXTENDS RestoreSwap, TLAPS

-----------------------------------------------------------------------------
(* The inductive invariant *)

Typed == TypeOK /\ Core \subseteq members[application]

\* The three places file f can be in while the journal of restore j stands.
Unmoved(j, f) ==
    /\ live[f] = Whole(application)[f]
    /\ displaced[j][f] = Nothing
    /\ restored[j][f] = Whole(j)[f]

MovedAway(j, f) ==
    /\ f \in members[application]
    /\ live[f] \in {Nothing, Foreign}
    /\ displaced[j][f] = application
    /\ restored[j][f] = Whole(j)[f]

Installed(j, f) ==
    /\ f \in members[j]
    /\ live[f] = j
    /\ displaced[j][f] = Whole(application)[f]
    /\ restored[j][f] = Nothing

Place(f) == LET j == journal.of IN Unmoved(j, f) \/ MovedAway(j, f) \/ Installed(j, f)

Journaled ==
    IF journal = NoJournal
    THEN live = Whole(application)
    ELSE /\ journal \in Moves
         /\ journal.out = members[application]
         /\ journal.in = members[journal.of]
         /\ Core \subseteq members[journal.of]
         /\ \A f \in Files : Place(f)

Swapping == pc \in {"swap", "undo", "starting", "revert", "rollback", "sealing", "commit"}

AllIn == \A f \in Files : (f \in journal.out => displaced[job][f] # Nothing)
                            /\ (f \in journal.in => restored[job][f] = Nothing)

Stands ==
    /\ Swapping => journal # NoJournal /\ journal.of = job
    /\ pc = "recover" => journal # NoJournal
    /\ pc \in {"drop", "sweep"} => journal = NoJournal
    /\ pc \in {"starting", "revert", "sealing", "commit"} => AllIn
    /\ pc # "down" => \A f \in Files : live[f] # Foreign
    /\ pc \in {"serving", "closing", "staged"} => \A f \in Core : live[f] # Nothing

Fresh ==
    /\ \A r \in Restores : members[r] = {} => displaced[r] = Empty
    /\ pc = "staged" =>
          /\ job \in Restores
          /\ Core \subseteq members[job]
          /\ restored[job] = Whole(job)
          /\ displaced[job] = Empty
          /\ journal # NoJournal => journal.of # job

IInv == Typed /\ Journaled /\ Stands /\ Fresh

-----------------------------------------------------------------------------
(* What the invariant gives *)

\* Reversing the journal yields the state the application was composed over.
LEMMA SettledState == IInv => Settled = Whole(application)
<1> SUFFICES ASSUME IInv PROVE Settled = Whole(application)
    OBVIOUS
<1> USE DEF IInv, Typed, TypeOK, Generations
<1>1. CASE journal = NoJournal
    BY <1>1, SMT DEF Settled, Journaled, Whole, Contents
<1>2. CASE journal # NoJournal
    <2>1. ASSUME NEW f \in Files PROVE Settled[f] = Whole(application)[f]
        <3>1. Unmoved(journal.of, f) \/ MovedAway(journal.of, f) \/ Installed(journal.of, f)
            BY <1>2 DEF Journaled, Place
        <3>2. journal.of \in Restores /\ journal.out = members[application]
              /\ journal.in = members[journal.of]
            BY <1>2 DEF Journaled, Moves
        <3> QED
            BY <1>2, <3>1, <3>2, NameAssumption
               DEF Settled, Unmoved, MovedAway, Installed, Whole, InPlace
    <2> QED
        BY <2>1, Zenon DEF Settled, Whole
<1> QED BY <1>1, <1>2

\* The same, for any generation the files of which are all in place.
LEMMA Names ==
    ASSUME NEW g \in Generations
    PROVE  g # Nothing /\ g # Foreign
BY NameAssumption

LEMMA InitIInv == Init => IInv
<1> SUFFICES ASSUME Init PROVE IInv
    OBVIOUS
<1> USE DEF Init
<1>1. Typed
    BY NameAssumption DEF Typed, TypeOK, Contents, Generations, Whole, Empty, Steps
<1>2. Journaled
    BY DEF Journaled
<1>3. Stands
    BY DEF Stands, Swapping
<1>4. Fresh
    BY DEF Fresh
<1> QED BY <1>1, <1>2, <1>3, <1>4 DEF IInv

-----------------------------------------------------------------------------
(* Steps that leave the disk alone *)

\* Whatever the process does, the journal still describes the disk.
LEMMA KeepJournaled ==
    ASSUME Journaled, UNCHANGED disk, UNCHANGED <<members, application>>
    PROVE  Journaled'
BY DEF Journaled, disk, Place, Unmoved, MovedAway, Installed, Whole

LEMMA KeepTyped ==
    ASSUME Typed, UNCHANGED disk, UNCHANGED <<members, application>>,
           sessions' \in [Sessions -> Contents], pc' \in Steps, job' \in Restores \cup {NoRestore}
    PROVE  Typed'
BY DEF Typed, TypeOK, disk

LEMMA KeepFresh ==
    ASSUME Fresh, UNCHANGED <<displaced, members>>, pc' # "staged"
    PROVE  Fresh'
BY DEF Fresh

\* Steps of the process that move no file and serve nothing yet.
LEMMA ControlStep ==
    ASSUME IInv,
           Swapped \/ SwapFails \/ StartRestored \/ ReversalFails \/ Crash \/ Start
             \/ Close
    PROVE  IInv'
<1>0. /\ live' = live /\ restored' = restored /\ displaced' = displaced
      /\ journal' = journal /\ members' = members /\ application' = application
    BY DEF Swapped, SwapFails, StartRestored, ReversalFails, Crash, Start, Close, disk
<1>1. Journaled'
    BY <1>0, KeepJournaled DEF IInv, disk
<1>2. pc' \in Steps /\ job' \in Restores \cup {NoRestore} /\ pc' \notin {"staged", "serving"}
    BY DEF IInv, Typed, TypeOK, Steps, Swapped, SwapFails, StartRestored, ReversalFails,
           Crash, Start, Close, Reversing
<1>3. Typed'
    <2>1. sessions' \in [Sessions -> Contents]
        BY DEF IInv, Typed, TypeOK, Contents, Swapped, SwapFails, StartRestored, ReversalFails,
               Crash, Start, Close
    <2> QED BY <1>0, <1>2, <2>1, KeepTyped DEF IInv, disk
<1>4. Fresh'
    BY <1>0, <1>2, KeepFresh DEF IInv
<1>5. ASSUME Swapped PROVE Stands'
    <2>1. AllIn
        BY <1>5 DEF Swapped, Displaced, AllIn, IInv, Journaled, Stands, Swapping, Moves
    <2> QED
        BY <1>0, <1>5, <2>1 DEF Swapped, Stands, IInv, Swapping, AllIn
<1>6. ASSUME SwapFails PROVE Stands'
    BY <1>0, <1>6 DEF SwapFails, Stands, IInv, Swapping
<1>7. ASSUME StartRestored PROVE Stands'
    BY <1>0, <1>7 DEF StartRestored, Stands, IInv, Swapping, AllIn
<1>8. ASSUME ReversalFails PROVE Stands'
    BY <1>0, <1>8 DEF ReversalFails, Reversing, Stands, IInv, Swapping
<1>9. ASSUME Crash PROVE Stands'
    BY <1>0, <1>9 DEF Crash, Stands, IInv, Swapping
<1>10. ASSUME Start PROVE Stands'
    <2>1. ASSUME NEW f \in Files, live[f] = Foreign PROVE FALSE
        <3>1. journal # NoJournal
            BY <2>1, Names, NameAssumption DEF IInv, Journaled, Whole, Typed, TypeOK
        <3>2. journal.of \in Restores /\ journal.in = members[journal.of]
              /\ journal.out = members[application]
            BY <3>1 DEF IInv, Journaled, Moves
        <3>3. MovedAway(journal.of, f)
            BY <2>1, <3>1, <3>2, Names, NameAssumption
               DEF IInv, Journaled, Place, Unmoved, Installed, Whole, Typed, TypeOK, Generations
        <3>4. f \in Conflicts
            BY <2>1, <3>1, <3>2, <3>3, Names, NameAssumption
               DEF Conflicts, MovedAway, InPlace, Whole, IInv, Typed, TypeOK, Generations
        <3> QED BY <1>10, <3>4 DEF Start
    <2> QED
        BY <1>0, <1>10, <2>1 DEF Start, Stands, IInv, Swapping
<1>11. ASSUME Close PROVE Stands'
    BY <1>0, <1>11 DEF Close, Stands, IInv, Swapping
<1> QED
    BY <1>1, <1>3, <1>4, <1>5, <1>6, <1>7, <1>8, <1>9, <1>10, <1>11 DEF IInv

-----------------------------------------------------------------------------
(* Staging *)

LEMMA StageStep ==
    ASSUME IInv, NEW r \in Restores, NEW S \in SUBSET Files, Stage(r, S)
    PROVE  IInv'
<1> USE DEF Stage
<1>0. r # application /\ S # {}
    BY CoreAssumption DEF IInv, Typed
<1>1. journal # NoJournal => journal.of # r /\ journal.of \in Restores
    BY CoreAssumption DEF IInv, Journaled, Moves
<1>2. \A g \in Generations \ {r} : members'[g] = members[g]
    BY DEF IInv, Typed, TypeOK
<1>3. Typed'
    BY <1>0, <1>2, CoreAssumption DEF IInv, Typed, TypeOK, Steps, Contents, Generations
<1>4. Journaled'
    <2>1. Whole(application)' = Whole(application)
        BY <1>0, <1>2 DEF Whole, IInv, Typed, TypeOK
    <2>2. CASE journal = NoJournal
        BY <2>1, <2>2 DEF Journaled, IInv
    <2>3. CASE journal # NoJournal
        <3>1. Whole(journal.of)' = Whole(journal.of)
            BY <1>1, <1>2, <2>3 DEF Whole, Generations
        <3>2. members'[application] = members[application]
              /\ members'[journal.of] = members[journal.of]
              /\ restored'[journal.of] = restored[journal.of]
            BY <1>0, <1>1, <1>2, <2>3 DEF IInv, Typed, TypeOK, Generations
        <3>3. ASSUME NEW f \in Files PROVE Place(f)'
            <4>1. Place(f)
                BY <2>3 DEF IInv, Journaled
            <4> QED
                BY <2>1, <3>1, <3>2, <4>1 DEF Place, Unmoved, MovedAway, Installed
        <3> QED
            BY <2>3, <3>2, <3>3 DEF IInv, Journaled
    <2> QED BY <2>2, <2>3
<1>5. Stands'
    BY DEF IInv, Stands, Swapping
<1>6. Fresh'
    <2>1. \A q \in Restores : members'[q] = {} => displaced'[q] = Empty
        BY <1>0 DEF IInv, Fresh, Typed, TypeOK, Generations
    <2>2. restored'[job'] = Whole(job)'
        <3>1. members'[r] = S
            BY DEF IInv, Typed, TypeOK, Generations
        <3>2. restored'[r] = [f \in Files |-> IF f \in S THEN r ELSE Nothing]
            BY DEF IInv, Typed, TypeOK
        <3> QED BY <3>1, <3>2 DEF Whole
    <2>3. displaced'[job'] = Empty
        BY DEF IInv, Fresh
    <2>4. Core \subseteq members'[job']
        BY DEF IInv, Typed, TypeOK, Generations
    <2> QED
        BY <1>1, <2>1, <2>2, <2>3, <2>4 DEF Fresh
<1> QED BY <1>3, <1>4, <1>5, <1>6 DEF IInv

\* Only the staging of a restore without a journal is ever removed.
LEMMA DiscardStep ==
    ASSUME IInv, Refuse \/ Drop
    PROVE  IInv'
<1> USE DEF Refuse, Drop
<1>0. UNCHANGED <<live, journal, members, application>> /\ pc' = "serving"
      /\ job' = NoRestore /\ Discarding
    OBVIOUS
<1>1. journal # NoJournal => journal.of # job
    BY DEF IInv, Stands, Fresh
<1>2. \A r \in Restores : r # job => restored'[r] = restored[r] /\ displaced'[r] = displaced[r]
    BY <1>0 DEF Discarding, IInv, Typed, TypeOK
<1>3. Typed'
    <2>1. Empty \in [Files -> Contents]
        BY DEF Empty, Contents
    <2>2. restored' \in [Restores -> [Files -> Contents]]
        BY <1>0, <2>1 DEF Discarding, IInv, Typed, TypeOK
    <2>3. displaced' \in [Restores -> [Files -> Contents]]
        BY <1>0, <2>1 DEF Discarding, IInv, Typed, TypeOK
    <2> QED
        BY <1>0, <2>2, <2>3 DEF IInv, Typed, TypeOK, Steps
<1>4. Journaled'
    <2>1. CASE journal = NoJournal
        BY <1>0, <2>1 DEF IInv, Journaled, Whole
    <2>2. CASE journal # NoJournal
        <3>1. journal.of \in Restores /\ restored'[journal.of] = restored[journal.of]
              /\ displaced'[journal.of] = displaced[journal.of]
            BY <1>1, <1>2, <2>2 DEF IInv, Journaled, Moves
        <3> QED
            BY <1>0, <2>2, <3>1
               DEF IInv, Journaled, Place, Unmoved, MovedAway, Installed, Whole
    <2> QED BY <2>1, <2>2
<1>5. Stands'
    <2>1. \A f \in Core : live[f] # Nothing
        <3>1. CASE pc = "staged"
            BY <3>1 DEF IInv, Stands
        <3>2. CASE pc = "drop"
            BY <3>2, Names, CoreAssumption DEF IInv, Stands, Journaled, Whole, Typed, TypeOK
        <3> QED BY <3>1, <3>2
    <2> QED
        BY <1>0, <2>1 DEF IInv, Stands, Swapping
<1>6. Fresh'
    BY <1>0, <1>2 DEF IInv, Fresh, Discarding, Typed, TypeOK
<1> QED BY <1>3, <1>4, <1>5, <1>6 DEF IInv

LEMMA ActivateStep ==
    ASSUME IInv, Activate
    PROVE  IInv'
<1> USE DEF Activate
<1>0. job \in Restores /\ Core \subseteq members[job] /\ live = Whole(application)
      /\ restored[job] = Whole(job) /\ displaced[job] = Empty
    BY DEF IInv, Journaled, Fresh
<1>1. members[application] \subseteq Files /\ members[job] \subseteq Files
    BY <1>0 DEF IInv, Typed, TypeOK, Generations
<1>2. {f \in Files : live[f] # Nothing} = members[application]
    BY <1>0, <1>1, Names DEF Whole, IInv, Typed, TypeOK
<1>3. journal' \in Moves /\ journal'.of = job /\ journal'.out = members[application]
      /\ journal'.in = members[job]
    BY <1>0, <1>1, <1>2 DEF Moves
<1>4. Typed'
    BY <1>3 DEF IInv, Typed, TypeOK, Steps
<1>5. Journaled'
    <2>1. \A f \in Files : Unmoved(job, f)'
        BY <1>0 DEF Unmoved, Whole, Empty
    <2> QED
        BY <1>0, <1>3, <2>1, JournalAssumption DEF Journaled, Place
<1>6. Stands'
    BY <1>3, JournalAssumption DEF IInv, Stands, Swapping
<1>7. Fresh'
    BY DEF IInv, Fresh
<1> QED BY <1>4, <1>5, <1>6, <1>7 DEF IInv

-----------------------------------------------------------------------------
(* The renames *)

\* A rename touches one file of the restore that is journaled, whose place is
\* known again afterwards; every other file stays where it was.
LEMMA RenameStep ==
    ASSUME IInv, journal # NoJournal, NEW f \in Files,
           journal' = journal, members' = members, application' = application,
           pc' = pc, job' = job, sessions' = sessions,
           pc \notin {"starting", "revert", "sealing", "commit", "serving", "closing", "staged"},
           NEW l \in Contents, NEW s \in Contents, NEW d \in Contents,
           live' = [live EXCEPT ![f] = l],
           restored' = [restored EXCEPT ![journal.of][f] = s],
           displaced' = [displaced EXCEPT ![journal.of][f] = d],
           pc # "down" => l # Foreign,
           Place(f)'
    PROVE  IInv'
<1> DEFINE j == journal.of
<1>0. j \in Restores /\ members[j] # {}
    BY CoreAssumption DEF IInv, Journaled, Moves
<1>1. Typed'
    BY <1>0 DEF IInv, Typed, TypeOK
<1>2. \A g \in Files \ {f} : /\ live'[g] = live[g]
                             /\ restored'[j][g] = restored[j][g]
                             /\ displaced'[j][g] = displaced[j][g]
    BY <1>0 DEF IInv, Typed, TypeOK
<1>3. \A g \in Files \ {f} : Place(g)'
    <2>1. ASSUME NEW g \in Files \ {f} PROVE Place(g)'
        <3>1. Place(g)
            BY DEF IInv, Journaled
        <3> QED
            BY <1>2, <2>1, <3>1 DEF Place, Unmoved, MovedAway, Installed, Whole
    <2> QED BY <2>1
<1>4. Journaled'
    BY <1>3 DEF IInv, Journaled
<1>5. Stands'
    BY <1>2 DEF IInv, Stands, Swapping, Typed, TypeOK
<1>6. Fresh'
    <2>1. \A r \in Restores : r # j => displaced'[r] = displaced[r]
        BY <1>0 DEF IInv, Typed, TypeOK
    <2> QED
        BY <1>0, <2>1 DEF IInv, Fresh
<1> QED BY <1>1, <1>4, <1>5, <1>6 DEF IInv

LEMMA DisplaceStep ==
    ASSUME IInv, NEW f \in Files, Displace(f)
    PROVE  IInv'
<1> DEFINE j == journal.of
<1>0. journal # NoJournal /\ j = job /\ j \in Restores
      /\ journal.out = members[application] /\ journal.in = members[j]
    BY DEF Displace, IInv, Stands, Swapping, Journaled, Moves
<1>1. Unmoved(j, f)
    BY <1>0, Names DEF Displace, IInv, Journaled, Place, MovedAway, Installed, Whole, Typed, TypeOK
<1>2. live[f] = application
    BY <1>0, <1>1 DEF Displace, Unmoved, Whole
<1>3. /\ live'[f] = Nothing
      /\ displaced'[j][f] = application
      /\ restored' = restored
    BY <1>0, <1>2 DEF Displace, IInv, Typed, TypeOK
<1>4. Place(f)'
    BY <1>0, <1>1, <1>3 DEF Displace, Place, Unmoved, MovedAway, Whole
<1>5. restored' = [restored EXCEPT ![j][f] = restored[j][f]]
    BY <1>0, <1>3 DEF IInv, Typed, TypeOK
<1>6. displaced' = [displaced EXCEPT ![j][f] = live[f]]
    BY <1>0 DEF Displace
<1>7. live[f] \in Contents /\ restored[j][f] \in Contents /\ Nothing \in Contents /\ Nothing # Foreign
    BY <1>0, NameAssumption DEF IInv, Typed, TypeOK, Contents
<1> QED
    BY <1>0, <1>4, <1>5, <1>6, <1>7, RenameStep DEF Displace

LEMMA InstallStep ==
    ASSUME IInv, NEW f \in Files, Install(f)
    PROVE  IInv'
<1> DEFINE j == journal.of
<1>0. journal # NoJournal /\ j = job /\ j \in Restores
      /\ journal.out = members[application] /\ journal.in = members[j]
    BY DEF Install, IInv, Stands, Swapping, Journaled, Moves
<1>1. restored[j][f] = j /\ (Unmoved(j, f) \/ MovedAway(j, f))
    BY <1>0 DEF Install, IInv, Journaled, Place, Unmoved, MovedAway, Installed, Whole
<1>2. displaced[j][f] = Whole(application)[f]
    BY <1>0, <1>1 DEF Install, Displaced, Unmoved, MovedAway, Whole
<1>3. /\ live'[f] = j
      /\ restored'[j][f] = Nothing
      /\ displaced' = displaced
    BY <1>0, <1>1 DEF Install, IInv, Typed, TypeOK
<1>4. Place(f)'
    BY <1>0, <1>2, <1>3 DEF Install, Place, Installed, Whole
<1>5. displaced' = [displaced EXCEPT ![j][f] = displaced[j][f]]
    BY <1>0, <1>3 DEF IInv, Typed, TypeOK
<1>6. restored' = [restored EXCEPT ![j][f] = Nothing]
    BY <1>0 DEF Install
<1>7. restored[j][f] \in Contents /\ displaced[j][f] \in Contents /\ Nothing \in Contents
      /\ restored[j][f] # Foreign
    BY <1>0, <1>1, Names DEF IInv, Typed, TypeOK, Contents, Generations
<1>8. live' = [live EXCEPT ![f] = restored[j][f]]
    BY <1>0 DEF Install
<1>9. /\ journal' = journal /\ members' = members /\ application' = application
      /\ pc' = pc /\ job' = job /\ sessions' = sessions /\ pc = "swap"
    BY DEF Install
<1> HIDE DEF j
<1> QED
    BY <1>0, <1>4, <1>5, <1>6, <1>7, <1>8, <1>9, RenameStep DEF j

LEMMA UninstallStep ==
    ASSUME IInv, NEW f \in Files, Uninstall(f)
    PROVE  IInv'
<1> DEFINE j == journal.of
<1>0. journal # NoJournal /\ j \in Restores
      /\ journal.out = members[application] /\ journal.in = members[j]
    BY DEF Uninstall, Reversing, IInv, Stands, Swapping, Journaled, Moves
<1>1. Installed(j, f)
    BY <1>0, Names
       DEF Uninstall, InPlace, IInv, Journaled, Place, Unmoved, MovedAway, Whole, Generations
<1>3. /\ live'[f] = Nothing
      /\ restored'[j][f] = j
      /\ displaced' = displaced
    BY <1>0, <1>1 DEF Uninstall, Installed, IInv, Typed, TypeOK
<1>4. Place(f)'
    BY <1>0, <1>1, <1>3 DEF Uninstall, Place, Unmoved, MovedAway, Installed, Whole
<1>5. displaced' = [displaced EXCEPT ![j][f] = displaced[j][f]]
    BY <1>0, <1>3 DEF IInv, Typed, TypeOK
<1>7. live[f] \in Contents /\ displaced[j][f] \in Contents /\ Nothing \in Contents
      /\ Nothing # Foreign
    BY <1>0, NameAssumption DEF IInv, Typed, TypeOK, Contents
<1> QED
    BY <1>0, <1>4, <1>5, <1>7, RenameStep DEF Uninstall, Reversing

LEMMA PutBackStep ==
    ASSUME IInv, NEW f \in Files, PutBack(f)
    PROVE  IInv'
<1> DEFINE j == journal.of
<1>0. journal # NoJournal /\ j \in Restores
      /\ journal.out = members[application] /\ journal.in = members[j]
    BY DEF PutBack, Reversing, IInv, Stands, Swapping, Journaled, Moves
<1>1. MovedAway(j, f)
    BY <1>0, Names
       DEF PutBack, Away, IInv, Journaled, Place, Unmoved, Installed, Whole, Generations
<1>3. /\ live'[f] = application
      /\ displaced'[j][f] = Nothing
      /\ restored' = restored
    BY <1>0, <1>1 DEF PutBack, MovedAway, IInv, Typed, TypeOK
<1>4. Place(f)'
    BY <1>0, <1>1, <1>3 DEF PutBack, Place, Unmoved, MovedAway, Whole
<1>5. restored' = [restored EXCEPT ![j][f] = restored[j][f]]
    BY <1>0, <1>3 DEF IInv, Typed, TypeOK
<1>7. displaced[j][f] \in Contents /\ restored[j][f] \in Contents /\ Nothing \in Contents
      /\ displaced[j][f] # Foreign
    BY <1>0, <1>1, Names DEF IInv, Typed, TypeOK, Contents, MovedAway
<1> QED
    BY <1>0, <1>4, <1>5, <1>7, RenameStep DEF PutBack, Reversing

\* Only where a file was moved away can another one appear.
LEMMA RecreateStep ==
    ASSUME IInv, NEW f \in Files, Recreate(f) \/ Remove(f)
    PROVE  IInv'
<1> DEFINE j == journal.of
<1>0. (f \in Core /\ Recreate(f)) \/ Remove(f)
    BY DEF Recreate
<1>1. pc = "down" /\ live[f] \in {Nothing, Foreign} /\ (Recreate(f) => f \in Core)
    BY DEF Recreate, Remove, IInv, Stands
<1>2. journal # NoJournal
    BY <1>0, <1>1, Names, NameAssumption
       DEF IInv, Journaled, Whole, Typed, TypeOK, Remove
<1>3. j \in Restores /\ journal.out = members[application] /\ journal.in = members[j]
    BY <1>2 DEF IInv, Journaled, Moves
<1>4. MovedAway(j, f)
    BY <1>0, <1>1, <1>2, <1>3, Names, NameAssumption
       DEF IInv, Journaled, Place, Unmoved, Installed, Whole, Typed, TypeOK, Generations, Remove
<1>5. PICK l \in {Nothing, Foreign} : live' = [live EXCEPT ![f] = l]
    BY DEF Recreate, Remove
<1>6. /\ journal' = journal /\ members' = members /\ application' = application
      /\ pc' = pc /\ job' = job /\ restored' = restored /\ displaced' = displaced
      /\ sessions' = sessions
    BY DEF Recreate, Remove
<1>7. live'[f] = l
    BY <1>5 DEF IInv, Typed, TypeOK
<1>8. Place(f)'
    BY <1>3, <1>4, <1>6, <1>7 DEF Place, MovedAway, Whole
<1>9. restored' = [restored EXCEPT ![j][f] = restored[j][f]]
      /\ displaced' = [displaced EXCEPT ![j][f] = displaced[j][f]]
    BY <1>3, <1>6 DEF IInv, Typed, TypeOK
<1>10. restored[j][f] \in Contents /\ displaced[j][f] \in Contents /\ l \in Contents
    BY <1>3 DEF IInv, Typed, TypeOK, Contents
<1> HIDE DEF j
<1> QED
    BY <1>1, <1>2, <1>5, <1>6, <1>8, <1>9, <1>10, RenameStep DEF j

-----------------------------------------------------------------------------
(* The journal goes *)

\* With no move standing the live paths hold the state put back ...
LEMMA PutBackWhole ==
    ASSUME IInv, Reversing, \A f \in Files : ~InPlace(f) /\ ~Away(f)
    PROVE  live = Whole(application)
<1> DEFINE j == journal.of
<1>0. journal # NoJournal /\ j \in Restores
      /\ journal.out = members[application] /\ journal.in = members[j]
    BY DEF Reversing, IInv, Stands, Swapping, Journaled, Moves
<1>1. ASSUME NEW f \in Files PROVE live[f] = Whole(application)[f]
    <2>1. live[f] # Foreign
        BY DEF IInv, Stands, Reversing
    <2>2. Unmoved(j, f)
        BY <1>0, <2>1, Names
           DEF IInv, Journaled, Place, MovedAway, Installed, InPlace, Away, Whole, Typed, TypeOK,
               Generations
    <2> QED BY <2>2 DEF Unmoved
<1>2. live = [f \in Files |-> live[f]] /\ Whole(application) = [f \in Files |-> Whole(application)[f]]
    BY DEF IInv, Typed, TypeOK, Whole
<1> QED BY <1>1, <1>2

\* ... and with every move standing, the restored one.
LEMMA SwappedWhole ==
    ASSUME IInv, pc \in {"starting", "revert", "sealing", "commit"}
    PROVE  live = Whole(job) /\ job \in Restores /\ Core \subseteq members[job]
<1>0. journal # NoJournal /\ job = journal.of /\ job \in Restores /\ Core \subseteq members[job]
      /\ journal.out = members[application] /\ journal.in = members[job]
    BY DEF IInv, Stands, Swapping, Journaled, Moves
<1>1. ASSUME NEW f \in Files PROVE live[f] = Whole(job)[f]
    <2>1. live[f] # Foreign
        BY DEF IInv, Stands
    <2>2. (f \in members[application] => displaced[job][f] # Nothing)
          /\ (f \in members[job] => restored[job][f] = Nothing)
        BY <1>0 DEF IInv, Stands, AllIn
    <2> QED
        BY <1>0, <2>1, <2>2, Names
           DEF IInv, Journaled, Place, Unmoved, MovedAway, Installed, Whole, Generations
<1>2. live = [f \in Files |-> live[f]] /\ Whole(job) = [f \in Files |-> Whole(job)[f]]
    BY DEF IInv, Typed, TypeOK, Whole
<1> QED BY <1>0, <1>1, <1>2

LEMMA ReversedStep ==
    ASSUME IInv, Reversed
    PROVE  IInv'
<1> USE DEF Reversed
<1>1. live = Whole(application)
    BY PutBackWhole
<1>2. Typed'
    BY DEF IInv, Typed, TypeOK, Steps
<1>3. Journaled'
    BY <1>1 DEF Journaled, Whole
<1>4. Stands'
    BY DEF IInv, Stands, Swapping, Reversing
<1>5. Fresh'
    BY DEF IInv, Fresh
<1> QED BY <1>2, <1>3, <1>4, <1>5 DEF IInv

LEMMA CommitStep ==
    ASSUME IInv, Commit
    PROVE  IInv'
<1> USE DEF Commit
<1>1. live = Whole(job) /\ job \in Restores /\ Core \subseteq members[job]
    BY SwappedWhole
<1>2. Typed'
    BY <1>1 DEF IInv, Typed, TypeOK, Steps, Generations
<1>3. Journaled'
    BY <1>1 DEF Journaled, Whole
<1>4. Stands'
    BY DEF IInv, Stands, Swapping
<1>5. Fresh'
    BY DEF IInv, Fresh
<1> QED BY <1>2, <1>3, <1>4, <1>5 DEF IInv

LEMMA UnlinkRaisesStep ==
    ASSUME IInv, UnlinkRaises
    PROVE  IInv'
<1>0. /\ live' = live /\ restored' = restored /\ displaced' = displaced
      /\ journal' = journal /\ members' = members /\ application' = application
      /\ job' = NoRestore
    BY DEF UnlinkRaises, disk
<1>1. pc' \in {"serving", "sealed", "down"} /\ pc \in {"commit", "undo", "rollback", "recover"}
    BY DEF UnlinkRaises, Reversing
<1>2. \A f \in Core : live[f] # Nothing
    <2>1. CASE pc = "commit"
        BY <2>1, SwappedWhole, CoreAssumption, Names DEF Whole, Generations
    <2>2. CASE pc # "commit"
        <3>1. live = Whole(application)
            BY <2>2, PutBackWhole DEF UnlinkRaises
        <3> QED BY <3>1, CoreAssumption, Names DEF Whole, IInv, Typed, TypeOK
    <2> QED BY <2>1, <2>2
<1>3. Typed'
    BY <1>0, <1>1, KeepTyped DEF UnlinkRaises, IInv, Typed, TypeOK, disk, Steps
<1>4. Journaled'
    BY <1>0, KeepJournaled DEF IInv, disk
<1>5. Stands'
    BY <1>0, <1>1, <1>2 DEF IInv, Stands, Swapping
<1>6. Fresh'
    BY <1>0, <1>1, KeepFresh DEF IInv
<1> QED BY <1>3, <1>4, <1>5, <1>6 DEF IInv

\* Maintenance that waits for sessions in vain, or in time.
LEMMA RevertStep ==
    ASSUME IInv, Revert
    PROVE  IInv'
<1>0. /\ live' = live /\ restored' = restored /\ displaced' = displaced
      /\ journal' = journal /\ members' = members /\ application' = application
      /\ sessions' = sessions
    BY DEF Revert, disk
<1>1. /\ pc \in {"revert", "sealing"} /\ pc' \in {"serving", "rollback", "sealed"}
      /\ pc' = "rollback" => job' = job
      /\ job' \in Restores \cup {NoRestore}
    BY DEF Revert, IInv, Typed, TypeOK
<1>2. \A f \in Core : live[f] # Nothing
    BY <1>1, SwappedWhole, CoreAssumption, Names DEF Whole, Generations
<1>3. Typed'
    BY <1>0, <1>1, KeepTyped DEF IInv, Typed, TypeOK, disk, Steps
<1>4. Journaled'
    BY <1>0, KeepJournaled DEF IInv, disk
<1>5. Stands'
    BY <1>0, <1>1, <1>2 DEF IInv, Stands, Swapping
<1>6. Fresh'
    BY <1>0, <1>1, KeepFresh DEF IInv
<1> QED BY <1>3, <1>4, <1>5, <1>6 DEF IInv

LEMMA ReopenStep ==
    ASSUME IInv, Reopen
    PROVE  IInv'
<1>1. Typed'
    BY KeepTyped DEF Reopen, IInv, Typed, TypeOK, disk, Steps
<1>2. Journaled'
    BY KeepJournaled DEF Reopen, IInv, disk
<1>3. Stands'
    BY DEF Reopen, IInv, Stands, Swapping, disk
<1>4. Fresh'
    BY KeepFresh DEF Reopen, IInv, disk
<1> QED BY <1>1, <1>2, <1>3, <1>4 DEF IInv

LEMMA SessionStep ==
    ASSUME IInv, NEW s \in Sessions, OpenSession(s) \/ CloseSession(s)
    PROVE  IInv'
<1>0. UNCHANGED <<disk, members, pc, job, application>>
    BY DEF OpenSession, CloseSession
<1>1. Typed'
    <2>1. sessions' \in [Sessions -> Contents]
        BY CoreAssumption DEF OpenSession, CloseSession, IInv, Typed, TypeOK, Contents
    <2> QED BY <1>0, <2>1, KeepTyped DEF IInv, Typed, TypeOK, disk
<1>2. Journaled'
    BY <1>0, KeepJournaled DEF IInv
<1>3. Stands'
    BY <1>0 DEF IInv, Stands, Swapping, AllIn, disk
<1>4. Fresh'
    BY <1>0 DEF IInv, Fresh, Whole, disk
<1> QED BY <1>1, <1>2, <1>3, <1>4 DEF IInv

LEMMA SweepStep ==
    ASSUME IInv, Sweep
    PROVE  IInv' /\ application' = application /\ live = Whole(application)
<1> USE DEF Sweep
<1>1. journal = NoJournal /\ live = Whole(application)
    BY DEF IInv, Stands, Journaled
<1>2. application' = application
    BY <1>1, CoreAssumption DEF IInv, Typed, Whole
<1>3. PICK left \in SUBSET Restores :
        /\ restored' = [r \in Restores |-> IF r \in left THEN restored[r] ELSE Empty]
        /\ displaced' = [r \in Restores |-> IF r \in left THEN displaced[r] ELSE Empty]
    OBVIOUS
<1>4. Typed'
    <2>1. Empty \in [Files -> Contents]
        BY DEF Empty, Contents
    <2>2. restored' \in [Restores -> [Files -> Contents]]
        BY <1>3, <2>1 DEF IInv, Typed, TypeOK
    <2>3. displaced' \in [Restores -> [Files -> Contents]]
        BY <1>3, <2>1 DEF IInv, Typed, TypeOK
    <2> QED
        BY <1>2, <2>2, <2>3 DEF IInv, Typed, TypeOK, Steps
<1>5. Journaled'
    BY <1>1, <1>2 DEF Journaled, Whole
<1>6. Stands'
    BY <1>1, Names, CoreAssumption DEF IInv, Stands, Swapping, Whole, Typed, TypeOK
<1>7. Fresh'
    BY <1>3 DEF IInv, Fresh
<1> QED BY <1>1, <1>2, <1>4, <1>5, <1>6, <1>7 DEF IInv

-----------------------------------------------------------------------------
(* The theorems *)

LEMMA StepIInv == IInv /\ [Next]_vars => IInv'
<1> SUFFICES ASSUME IInv, [Next]_vars PROVE IInv'
    OBVIOUS
<1>1. CASE UNCHANGED vars
    BY <1>1 DEF vars, IInv, Typed, TypeOK, Journaled, Place, Unmoved, MovedAway, Installed, Whole,
                Stands, Swapping, AllIn, Fresh
<1>2. CASE \E r \in Restores, S \in SUBSET Files : Stage(r, S)
    BY <1>2, StageStep
<1>3. CASE Restore
    <2>1. CASE Refuse \/ Drop
        BY <2>1, DiscardStep
    <2>2. CASE Activate
        BY <2>2, ActivateStep
    <2>3. CASE Swapped \/ StartRestored \/ Revert
        BY <2>3, ControlStep, RevertStep
    <2>4. CASE \E f \in Files : Displace(f) \/ Install(f)
        BY <2>4, DisplaceStep, InstallStep
    <2>5. CASE Commit
        BY <2>5, CommitStep
    <2> QED BY <1>3, <2>1, <2>2, <2>3, <2>4, <2>5 DEF Restore
<1>4. CASE Reverse
    BY <1>4, ReversedStep, UninstallStep, PutBackStep DEF Reverse
<1>5. CASE SwapFails \/ ReversalFails \/ Crash \/ Start \/ Close
    BY <1>5, ControlStep
<1>6. CASE UnlinkRaises
    BY <1>6, UnlinkRaisesStep
<1>7. CASE Sweep
    BY <1>7, SweepStep
<1>8. CASE \E f \in Files : Recreate(f) \/ Remove(f)
    BY <1>8, RecreateStep
<1>9. CASE Reopen \/ \E s \in Sessions : OpenSession(s) \/ CloseSession(s)
    BY <1>9, ReopenStep, SessionStep
<1> QED BY <1>1, <1>2, <1>3, <1>4, <1>5, <1>6, <1>7, <1>8, <1>9 DEF Next

THEOREM Inductive == Spec => []IInv
BY InitIInv, StepIInv, PTL DEF Spec

\* The disk, the journal and the process stay what the model says they are.
THEOREM TypeCorrect == Spec => []TypeOK
<1>1. IInv => TypeOK
    BY DEF IInv, Typed
<1> QED BY <1>1, Inductive, PTL

\* Whatever fails in the swap, in its reversal or in its commit, and wherever
\* the process ends, reversing the journal yields one complete generation.
THEOREM AlwaysRecoverable == Spec => []Recoverable
<1>1. IInv => Recoverable
    BY SettledState DEF Recoverable, IInv, Typed, TypeOK
<1> QED BY <1>1, Inductive, PTL

-----------------------------------------------------------------------------
(* The sessions of other tasks *)

Shut == pc \in {"staged", "swap", "undo", "rollback", "sealed", "down", "recover", "sweep"}

Quiet == SessionsStand /\ (Shut => Drained)

LEMMA InitQuiet == Init => Quiet
BY DEF Init, Quiet, SessionsStand, Shut, Drained

\* Files move, and places are taken, only while no session is open.
LEMMA StepQuiet ==
    ASSUME IInv, Quiet, [Next]_vars
    PROVE  Quiet'
<1> USE DEF Quiet, Shut
<1>1. CASE UNCHANGED vars
    BY <1>1 DEF vars, SessionsStand, Drained
<1>2. ASSUME NEW s \in Sessions, OpenSession(s) \/ CloseSession(s) PROVE Quiet'
    <2>1. live' = live /\ pc' = pc /\ (CloseSession(s) \/ ~Shut)
        BY <1>2 DEF OpenSession, CloseSession, DatabaseOpen, disk
    <2>2. SessionsStand'
        BY <1>2, <2>1 DEF OpenSession, CloseSession, SessionsStand, IInv, Typed, TypeOK
    <2>3. (Shut => Drained)'
        BY <1>2, <2>1 DEF CloseSession, Drained, IInv, Typed, TypeOK
    <2> QED BY <2>2, <2>3
<1>3. CASE Close \/ Reopen \/ Swapped \/ StartRestored \/ Revert \/ SwapFails \/ ReversalFails
           \/ Start \/ UnlinkRaises
    BY <1>3 DEF Close, Reopen, Swapped, StartRestored, Revert, SwapFails, ReversalFails, Start,
                UnlinkRaises, Reversing, SessionsStand, Drained, disk
<1>4. CASE Refuse \/ Activate \/ Commit \/ Drop \/ Reversed \/ Sweep
           \/ \E r \in Restores, S \in SUBSET Files : Stage(r, S)
    BY <1>4 DEF Refuse, Activate, Commit, Drop, Reversed, Sweep, Stage, Reversing, SessionsStand,
                Drained
<1>5. CASE Crash
    BY <1>5 DEF Crash, SessionsStand, Drained
<1>6. ASSUME NEW f \in Files, Displace(f) \/ Install(f) \/ Uninstall(f) \/ PutBack(f)
                               \/ Recreate(f) \/ Remove(f)
      PROVE  Quiet'
    <2>1. Shut /\ pc' = pc /\ sessions' = sessions
        BY <1>6 DEF Displace, Install, Uninstall, PutBack, Recreate, Remove, Reversing, IInv, Stands
    <2> QED BY <2>1 DEF SessionsStand, Drained
<1> QED BY <1>1, <1>2, <1>3, <1>4, <1>5, <1>6 DEF Next, Restore, Reverse

\* No file a session has open is renamed away, put back or overwritten, whatever fails and
\* however often the gate is taken in one restore.
THEOREM SessionsUndisturbed == Spec => []SessionsStand
<1>1. Quiet => SessionsStand
    BY DEF Quiet
<1>2. IInv /\ Quiet /\ [Next]_vars => Quiet'
    BY StepQuiet
<1> QED BY <1>1, <1>2, InitQuiet, Inductive, PTL DEF Spec

-----------------------------------------------------------------------------
(* What is served, and the abstract specification *)

\* Admission is open over the state the application was composed over.
Faithful == pc \in {"serving", "closing", "staged"} => live = Whole(application)

LEMMA InitFaithful == Init => Faithful
BY DEF Init, Faithful

\* The two ways out of restore_backup that release admission over the restored
\* files with the application of the state before: its commit cannot remove the
\* journal, or it is cancelled while it waits for the sessions opened since.
JournalStays  == UnlinkRaises /\ pc = "commit"
WaitIsCut     == Revert /\ pc' = "serving"

LEMMA StepFaithfulUnless ==
    ASSUME IInv, Faithful, [Next]_vars, ~JournalStays, ~WaitIsCut
    PROVE  Faithful'
<1>1. CASE UNCHANGED vars
    BY <1>1 DEF vars, Faithful, Whole
<1>2. ASSUME NEW r \in Restores, NEW S \in SUBSET Files, Stage(r, S) PROVE Faithful'
    <2>1. application # r /\ live = Whole(application)
        BY <1>2, CoreAssumption DEF Stage, Faithful, IInv, Typed
    <2>2. Whole(application)' = Whole(application)
        BY <1>2, <2>1 DEF Stage, Whole, IInv, Typed, TypeOK
    <2> QED BY <1>2, <2>1, <2>2 DEF Stage, Faithful
<1>3. CASE Restore
    <2>1. CASE Refuse
        BY <2>1 DEF Refuse, Faithful, Whole
    <2>2. CASE Drop
        BY <2>2 DEF Drop, Faithful, Whole, IInv, Stands, Journaled
    <2>3. CASE \/ Activate \/ Swapped \/ StartRestored \/ Commit
               \/ \E f \in Files : Displace(f) \/ Install(f)
        BY <2>3 DEF Activate, Swapped, StartRestored, Commit, Displace, Install, Faithful
    <2>4. CASE Revert
        BY <2>4 DEF Revert, WaitIsCut, Faithful
    <2> QED BY <1>3, <2>1, <2>2, <2>3, <2>4 DEF Restore
<1>4. CASE Reverse
    BY <1>4 DEF Reverse, Reversed, Uninstall, PutBack, Reversing, Faithful
<1>5. CASE SwapFails \/ ReversalFails \/ Crash \/ Start
    BY <1>5 DEF SwapFails, ReversalFails, Crash, Start, Reversing, Faithful
<1>6. CASE UnlinkRaises
    <2>1. live = Whole(application)
        BY <1>6, PutBackWhole DEF UnlinkRaises, JournalStays
    <2> QED BY <1>6, <2>1 DEF UnlinkRaises, Faithful, Whole, disk
<1>7. CASE Sweep
    BY <1>7, SweepStep DEF Sweep, Faithful, Whole
<1>8. ASSUME NEW f \in Files, Recreate(f) \/ Remove(f) PROVE Faithful'
    <2>1. pc = "down"
        BY <1>8 DEF Recreate, Remove, IInv, Stands
    <2> QED BY <1>8, <2>1 DEF Recreate, Remove, Faithful
<1>9. CASE Close \/ Reopen \/ \E s \in Sessions : OpenSession(s) \/ CloseSession(s)
    BY <1>9 DEF Close, Reopen, OpenSession, CloseSession, Faithful, Whole, disk
<1> QED BY <1>1, <1>2, <1>3, <1>4, <1>5, <1>6, <1>7, <1>8, <1>9 DEF Next

LEMMA StepFaithful ==
    ASSUME ~CommitFails, ~CutShort, IInv, Faithful, [Next]_vars
    PROVE  Faithful'
<1>1. ~JournalStays
    BY DEF JournalStays, UnlinkRaises, Reversing
<1>2. ~WaitIsCut
    BY DEF WaitIsCut, Revert
<1> QED BY <1>1, <1>2, StepFaithfulUnless

\* What is served leaves its own application in two steps only: a commit whose unlink
\* of the journal raises, the journal staying, or a restore cut short while it waits
\* for the sessions opened since its swap.
TwoWaysOnly == [][Faithful => Faithful' \/ JournalStays \/ WaitIsCut]_vars

\* Whatever fails, there is no third way: every other step of a restore, of its
\* reversal and of the start leaves what is served with its own application.
THEOREM NoThirdWay == Spec => TwoWaysOnly
<1>1. IInv /\ [Next]_vars => [Faithful => Faithful' \/ JournalStays \/ WaitIsCut]_vars
    BY StepFaithfulUnless
<1> QED BY <1>1, Inductive, PTL DEF Spec, TwoWaysOnly

THEOREM FaithfulAlways ==
    ASSUME ~CommitFails, ~CutShort
    PROVE  Spec => []Faithful
<1>1. IInv /\ Faithful /\ [Next]_vars => Faithful'
    BY StepFaithful
<1> QED BY <1>1, InitFaithful, Inductive, PTL DEF Spec

\* Admission is open over one whole generation only, and the application that
\* serves it was composed over it.
THEOREM OnlyItsOwn ==
    ASSUME ~CommitFails, ~CutShort
    PROVE  Spec => []ServesItsOwn
<1>1. Faithful => ServesItsOwn
    BY DEF Faithful, ServesItsOwn
<1> QED BY <1>1, FaithfulAlways, PTL

\* Whatever fails: what is served is one generation, whole and never mixed; and
\* if it is not the application's, the journal is there that has the next start
\* put the application's back.
ServedWhole ==
    pc \in {"serving", "closing", "staged"} =>
        \/ live = Whole(application)
        \/ journal # NoJournal /\ live = Whole(journal.of)

LEMMA StepServedWhole ==
    ASSUME IInv, ServedWhole, [Next]_vars
    PROVE  ServedWhole'
<1>1. CASE UNCHANGED vars
    BY <1>1 DEF vars, ServedWhole, Whole
<1>2. ASSUME NEW r \in Restores, NEW S \in SUBSET Files, Stage(r, S) PROVE ServedWhole'
    <2>1. Core # {} /\ members[r] = {} /\ Core \subseteq members[application]
        BY <1>2, CoreAssumption DEF Stage, IInv, Typed
    <2>2. Whole(application)' = Whole(application)
        BY <1>2, <2>1 DEF Stage, Whole, IInv, Typed, TypeOK
    <2>3. journal # NoJournal => Whole(journal.of)' = Whole(journal.of)
        BY <1>2, <2>1 DEF Stage, Whole, IInv, Typed, TypeOK, Journaled
    <2> QED BY <1>2, <2>2, <2>3 DEF Stage, ServedWhole
<1>3. CASE JournalStays \/ WaitIsCut
    <2>1. live = Whole(job) /\ journal # NoJournal /\ journal.of = job
        BY <1>3, SwappedWhole DEF JournalStays, WaitIsCut, Revert, IInv, Stands, Swapping
    <2> QED BY <1>3, <2>1 DEF JournalStays, UnlinkRaises, WaitIsCut, Revert, disk, ServedWhole, Whole
<1>4. CASE Faithful /\ ~JournalStays /\ ~WaitIsCut
    BY <1>4, StepFaithfulUnless DEF Faithful, ServedWhole
<1>5. CASE ~Faithful /\ ~(\E r \in Restores, S \in SUBSET Files : Stage(r, S))
    <2>1. /\ pc \in {"serving", "closing", "staged"}
          /\ journal # NoJournal /\ live = Whole(journal.of)
          /\ \A f \in Core : live[f] # Nothing
        BY <1>5 DEF Faithful, ServedWhole, IInv, Stands
    <2>2. ASSUME \/ Close \/ Reopen \/ Refuse \/ Crash
                 \/ \E s \in Sessions : OpenSession(s) \/ CloseSession(s)
          PROVE  ServedWhole'
        BY <2>1, <2>2 DEF Close, Reopen, Refuse, Crash, OpenSession, CloseSession, disk,
                          ServedWhole, Whole
    <2>3. ASSUME \/ Activate \/ Swapped \/ StartRestored \/ Revert \/ Commit \/ Drop
                 \/ Reverse \/ SwapFails \/ ReversalFails \/ UnlinkRaises \/ Start \/ Sweep
                 \/ \E f \in Files : Displace(f) \/ Install(f) \/ Recreate(f) \/ Remove(f)
          PROVE  FALSE
        BY <2>1, <2>3 DEF Activate, Swapped, StartRestored, Revert, Commit, Drop,
                          Reverse, Reversed, Uninstall, PutBack, Reversing, SwapFails,
                          ReversalFails, UnlinkRaises, Start, Sweep, Displace, Install,
                          Recreate, Remove
    <2> QED BY <1>1, <1>5, <2>2, <2>3 DEF Next, Restore
<1> QED BY <1>1, <1>2, <1>3, <1>4, <1>5

\* A restore that went wrong in one of the two ways still serves one generation whole, and
\* the next start puts the application's own back (recover_interrupted_restore).
THEOREM ServesOneGeneration == Spec => []ServedWhole
<1>1. Init => ServedWhole
    BY DEF Init, ServedWhole
<1>2. IInv /\ ServedWhole /\ [Next]_vars => ServedWhole'
    BY StepServedWhole
<1> QED BY <1>1, <1>2, Inductive, PTL DEF Spec

LEMMA CompleteStates == IInv => Settled \in Atomic!States
<1> SUFFICES ASSUME IInv PROVE Whole(application) \in Atomic!States
    BY SettledState
<1>1. Whole(application) \in [Files -> Generations \cup {Nothing}]
    BY DEF Whole, IInv, Typed, TypeOK
<1>2. \A f \in Files : \/ Whole(application)[f] = application
                       \/ Whole(application)[f] = Nothing /\ f \notin Core
    BY DEF Whole, IInv, Typed
<1> QED BY <1>1, <1>2 DEF Atomic!States, Atomic!Complete, IInv, Typed, TypeOK

Served == IF pc = "serving" THEN live ELSE Empty

\* Only a commit replaces what the disk holds, and it does so while nothing is
\* served.
LEMMA AtomicStep ==
    ASSUME ~CommitFails, ~CutShort, IInv, IInv', Faithful, Faithful', [Next]_vars
    PROVE  Atomic!Next \/ (Settled' = Settled /\ Served' = Served)
<1>0. (Settled = Whole(application))' /\ (Settled \in Atomic!States)'
    BY SettledState, CompleteStates, PTL
<1>1. Settled = Whole(application) /\ Settled' = Whole(application)'
    BY <1>0, SettledState
<1>2. CASE Commit
    <2>1. Served = Atomic!Closed /\ Served' = Served
        BY <1>2 DEF Commit, Served, Empty, Atomic!Closed
    <2>2. Settled' \in Atomic!States
        BY <1>0 DEF Atomic!States, Atomic!Complete
    <2> QED BY <2>1, <2>2 DEF Atomic!Next, Atomic!Replace, Served
<1>3. CASE ~Commit
    <2>1. Settled' = Settled
        <3>1. CASE \E r \in Restores, S \in SUBSET Files : Stage(r, S)
            <4>1. PICK r \in Restores, S \in SUBSET Files : Stage(r, S)
                BY <3>1
            <4>2. application # r
                BY <4>1, CoreAssumption DEF Stage, IInv, Typed
            <4> QED BY <1>1, <4>1, <4>2 DEF Stage, Whole, IInv, Typed, TypeOK
        <3>2. CASE Sweep
            BY <1>1, <3>2, SweepStep DEF Sweep, Whole
        <3>3. CASE ~(\E r \in Restores, S \in SUBSET Files : Stage(r, S)) /\ ~Sweep
            <4>1. members' = members /\ application' = application
                BY <1>3, <3>3 DEF Next, vars, Restore, Reverse, Refuse, Activate, Swapped, Displace,
                    Install, StartRestored, Revert, Drop, Reversed, Uninstall, PutBack, SwapFails,
                    ReversalFails, UnlinkRaises, Crash, Start, Recreate, Remove, Close, Reopen,
                    OpenSession, CloseSession
            <4> QED BY <1>1, <4>1 DEF Whole
        <3> QED BY <3>1, <3>2, <3>3
    <2>2. pc = "serving" => Served = Settled
        BY <1>1 DEF Served, Faithful
    <2>3. (pc = "serving" => Served = Settled)'
        BY <1>1 DEF Served, Faithful
    <2>4. CASE pc = "serving" /\ pc' = "serving"
        BY <2>1, <2>2, <2>3, <2>4
    <2>5. CASE pc # "serving" /\ pc' = "serving"
        BY <2>1, <2>3, <2>5 DEF Served, Empty, Atomic!Next, Atomic!Open, Atomic!Closed
    <2>6. CASE pc' # "serving"
        BY <2>1, <2>6 DEF Served, Empty, Atomic!Next, Atomic!Close, Atomic!Closed
    <2> QED BY <2>4, <2>5, <2>6
<1> QED BY <1>2, <1>3

\* A restore is atomic: on the disk, as a reversal would leave it, one step
\* replaces the whole state, and nothing but that state is ever served.
THEOREM RestoreIsAtomic ==
    ASSUME ~CommitFails, ~CutShort
    PROVE  Spec => ReplacedAtomically
<1>1. Init => Atomic!Init
    <2> SUFFICES ASSUME Init PROVE Atomic!Init
        OBVIOUS
    <2>1. Settled \in Atomic!States
        BY InitIInv, CompleteStates
    <2>2. Served = Atomic!Closed
        BY DEF Init, Served, Empty, Atomic!Closed
    <2> QED BY <2>1, <2>2 DEF Atomic!Init, Served
<1>2. IInv /\ IInv' /\ Faithful /\ Faithful' /\ [Next]_vars
        => [Atomic!Next]_<<Settled, Served>>
    BY AtomicStep
<1>3. <<Settled, Served>> = Atomic!vars
    BY DEF Atomic!vars, Served
<1> QED
    BY <1>1, <1>2, <1>3, Inductive, FaithfulAlways, PTL
       DEF Spec, ReplacedAtomically, Atomic!Spec, Atomic!vars, Served
=============================================================================
