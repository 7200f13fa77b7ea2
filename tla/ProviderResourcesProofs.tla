------------------------ MODULE ProviderResourcesProofs ------------------------
(***************************************************************************)
(* ProviderResources for every set of transfers, sources and native ids,   *)
(* and every budget: its types, who holds an object, the fence, what is    *)
(* owed for a creation, and what a cleanup may remove.                     *)
(***************************************************************************)
EXTENDS ProviderResources, TLAPS

-----------------------------------------------------------------------------
(* The inductive invariant *)

\* A row that does not exist yet has no trace.
Unborn(t) ==
    status[t] = "unborn" =>
      /\ ~retired[t] /\ pc[t] = "idle" /\ root[t] = "pending"
      /\ spent[t] = 0 /\ bound[t] = None /\ (\A c \in Closers : closing[t][c] = None)
      /\ \A n \in AttemptIds : ~attempt[t][n].owed
      /\ \A o \in Objects : ~Bound(t, o)
Born == \A t \in Transfers : Unborn(t)

\* Who is bound to an object: the last to be bound to it, and whoever's root refers to it.
Lately ==
    \A o \in Objects : /\ latest[o] = None => \A t \in Transfers : ~Bound(t, o)
                       /\ latest[o] # None => Bound(latest[o], o)
Bonds ==
    /\ Lately
    /\ \A t \in Transfers, o \in Objects : bound[t] = o => Bound(t, o)
    /\ \A t \in Transfers : root[t] = "waiting" => bound[t] # None

\* A cleanup is owed for a binding; a call under way is of one that is owed.
Duties ==
    \A t \in Transfers, o \in Objects :
      /\ Owed(t, o) => Bound(t, o)
      /\ binding[t][o].call # "none" => Owed(t, o) /\ ~binding[t][o].abandoned

\* The user's authority comes from the user's Delete.
AskedFor(t) == status[t] = "deleted" /\ mode[t] = "user"
Asked ==
    /\ \A t \in Transfers, c \in Closers : closing[t][c] = "user" => AskedFor(t)
    /\ \A t \in Transfers, o \in Objects : "user" \in scanned[t][o] => AskedFor(t)
    /\ \A t \in Transfers, o \in Objects :
         binding[t][o].owed = "user" \/ binding[t][o].call = "user" => AskedFor(t)
    /\ \A t \in Transfers : settler.t = t /\ settler.due = "user" => AskedFor(t)

\* What a pass has in its hands.
Pass(t) ==
    /\ pc[t] \in {"opened", "calling", "created", "refused", "uncertain", "erring", "failing",
                  "settling"} => spent[t] > 0
    /\ pc[t] = "created" => ans[t] \in Objects
    /\ pc[t] = "settling" => ans[t] \in Objects \cup {"absent", "unsettled"}
    /\ pc[t] = "draining" => ans[t] \in Objects /\ Bound(t, ans[t])
                             /\ (spent[t] > 0 \/ bound[t] # None)
Passes == \A t \in Transfers : Pass(t)

\* What the inventory pass and the reconciliation have in theirs.
Scans ==
    /\ inv.at \in {"known", "rearm"} =>
         inv.of \in Transfers /\ inv.obj \in Objects /\ Bound(inv.of, inv.obj)
    /\ settler.t # None =>
         /\ status[settler.t] # "unborn" /\ settler.n \in 1..spent[settler.t]
         /\ settler.saw \in Objects \cup {"absent", "unsettled"}

\* A source has one generation that is not retired; a live one is not.
Generations ==
    /\ \A t \in Transfers : (Live(t) => ~retired[t]) /\ (status[t] = "deleted" => retired[t])
    /\ \A t, u \in Transfers :
         status[t] # "unborn" /\ status[u] # "unborn" /\ ~retired[t] /\ ~retired[u]
           => source[t] # source[u] \/ t = u

\* A root whose transfer never had a resource: what it may have created holds it back.
Clean(t) ==
    (\A o \in Objects : ~Bound(t, o)) =>
      /\ \A n \in 1..(spent[t] - 1) : ~(attempt[t][n].state = "started" /\ attempt[t][n].owed)
      /\ root[t] = "pending" /\ Open(t) /\ Current(t).owed =>
           Current(t).uncertain /\ pc[t] # "routed"
      /\ pc[t] = "opened" => ~(root[t] = "pending" /\ Open(t))
      /\ root[t] = "failed" => ~Open(t)
Cleanly == \A t \in Transfers : Clean(t)

\* The attempts that owe a reconciliation have been opened, and before they are armed owe none.
Opened(t) ==
    /\ \A n \in AttemptIds : attempt[t][n].owed => n <= spent[t]
    /\ pc[t] = "opened" => ~Current(t).owed
Openly == \A t \in Transfers : Opened(t)

\* What was made and is bound to nobody is owed by an attempt that nothing is about to clear.
Free(o) == \A u \in Transfers : ~Bound(u, o)
Settling(t, n) == settler.t = t /\ settler.n = n /\ settler.saw # "unsettled"
Witness(t, o, n) ==
    /\ n \in 1..spent[t] /\ attempt[t][n].owed
    /\ pc[t] \in {"opened", "calling", "refused"} \/ (pc[t] = "created" /\ ans[t] # o)
         => n < spent[t]
    /\ Settling(t, n) => settler.saw = o
Track(t) ==
    t \notin blind =>
      /\ \A o \in Objects : <<t, o>> \in made /\ Free(o) =>
           /\ o \in remote
           /\ pc[t] = "settling" => ans[t] \in {o, "unsettled"}
           /\ \E n \in AttemptIds : Witness(t, o, n)
      /\ pc[t] = "calling" => Current(t).owed
      /\ pc[t] \in {"opened", "calling"} => ~Settling(t, spent[t])
Tracking == \A t \in Transfers : Track(t)

IInv ==
    /\ TypeOK /\ Born /\ Bonds /\ Duties /\ Asked /\ Passes /\ Scans /\ Generations
    /\ SoleOwner /\ FenceBound /\ Cleanly /\ Openly /\ Tracking

-----------------------------------------------------------------------------
(* Types, and what the updates of a row do. *)

Roots    == {"pending", "resolving", "waiting", "failed"}
Phases   == {"idle", "routed", "draining", "unrouted", "opened", "calling", "created", "refused",
             "uncertain", "erring", "failing", "settling"}
States   == {"none", "started", "succeeded", "failed", "ended"}
Attempts == [state : States, owed : BOOLEAN, uncertain : BOOLEAN]
Calls    == {"none", "owned", "user", "removed", "skipped"}
Rows     == [state : {"none", "available", "absent"}, owned : BOOLEAN, owed : Authorities,
             abandoned : BOOLEAN, call : Calls]

LEMMA Types ==
    ASSUME TypeOK
    PROVE  /\ attempt \in [Transfers -> [AttemptIds -> Attempts]]
           /\ binding \in [Transfers -> [Objects -> Rows]]
           /\ spent \in [Transfers -> 0..MaxAttempts] /\ MaxAttempts \in Nat
           /\ \A t \in Transfers : Authority(t) \in Authorities
           /\ \A t \in Transfers : spent[t] > 0 => spent[t] \in AttemptIds
  BY BudgetsAssumption
  DEF TypeOK, Attempts, States, Rows, Calls, Authority, Authorities, Modes, AttemptIds

\* One attempt is written.
LEMMA SetEffect ==
    ASSUME TypeOK, NEW t \in Transfers, spent[t] > 0, NEW r \in Attempts, Set(t, r)
    PROVE  /\ attempt' \in [Transfers -> [AttemptIds -> Attempts]]
           /\ spent[t] \in AttemptIds
           /\ attempt'[t][spent[t]] = r
           /\ \A x \in Transfers, n \in AttemptIds :
                x # t \/ n # spent[t] => attempt'[x][n] = attempt[x][n]
  BY Types DEF Set

\* One binding is written.
LEMMA RowEffect ==
    ASSUME TypeOK, NEW t \in Transfers, NEW o \in Objects, NEW b \in Rows,
           binding' = [binding EXCEPT ![t][o] = b]
    PROVE  /\ binding' \in [Transfers -> [Objects -> Rows]]
           /\ binding'[t][o] = b
           /\ \A x \in Transfers, y \in Objects :
                x # t \/ y # o => binding'[x][y] = binding[x][y]
  BY Types

\* A resource is bound, or seen again: what is owed for it stays.
LEMMA UpsertEffect ==
    ASSUME TypeOK, Duties, NEW t \in Transfers, NEW o \in Objects, NEW owned \in BOOLEAN
    PROVE  /\ Upsert(t, o, owned) \in [Transfers -> [Objects -> Rows]]
           /\ LET b == Upsert(t, o, owned)[t][o] IN
                /\ b.state = "available" /\ b.owed = binding[t][o].owed
                /\ b.call = binding[t][o].call
                /\ Owed(t, o) => b.abandoned = binding[t][o].abandoned
           /\ \A x \in Transfers, y \in Objects :
                x # t \/ y # o => Upsert(t, o, owned)[x][y] = binding[x][y]
<1> DEFINE b == IF binding[t][o].state = "none" THEN FreshBinding(owned)
                ELSE [binding[t][o] EXCEPT !.state = "available"]
<1>1. binding \in [Transfers -> [Objects -> Rows]]
  BY Types
<1>2. Upsert(t, o, owned) = [binding EXCEPT ![t][o] = b]
  BY <1>1 DEF Upsert
<1>3. /\ b \in Rows /\ b.state = "available" /\ b.owed = binding[t][o].owed
      /\ b.call = binding[t][o].call /\ (Owed(t, o) => b.abandoned = binding[t][o].abandoned)
  <2>0. binding[t][o] \in Rows
    BY <1>1
  <2>1. CASE binding[t][o].state = "none"
    BY <2>0, <2>1 DEF Duties, Owed, Bound, FreshBinding, Rows, Calls, Authorities
  <2>2. CASE binding[t][o].state # "none"
    BY <2>0, <2>2 DEF Rows, Bound
  <2> QED
    BY <2>1, <2>2
<1> HIDE DEF b
<1> QED
  BY <1>1, <1>2, <1>3

\* A cleanup is owed for some bindings of a transfer.
LEMMA IntendEffect ==
    ASSUME NEW B \in [Transfers -> [Objects -> Rows]], NEW t \in Transfers, NEW S,
           NEW a \in Authorities
    PROVE  /\ Intend(B, t, S, a) \in [Transfers -> [Objects -> Rows]]
           /\ \A x \in Transfers, y \in Objects :
                x # t \/ y \notin S => Intend(B, t, S, a)[x][y] = B[x][y]
           /\ \A y \in Objects \cap S :
                /\ Intend(B, t, S, a)[t][y].owed = a
                /\ ~Intend(B, t, S, a)[t][y].abandoned
                /\ Intend(B, t, S, a)[t][y].state = B[t][y].state
                /\ Intend(B, t, S, a)[t][y].owned = B[t][y].owned
                /\ Intend(B, t, S, a)[t][y].call = B[t][y].call
<1> DEFINE G == [o \in Objects |->
                    IF o \in S THEN [B[t][o] EXCEPT !.owed = a, !.abandoned = FALSE] ELSE B[t][o]]
<1>1. Intend(B, t, S, a) = [B EXCEPT ![t] = G]
  BY DEF Intend
<1>2. ASSUME NEW y \in Objects
      PROVE  /\ G[y] \in Rows
             /\ y \in S => /\ G[y].owed = a /\ ~G[y].abandoned
                            /\ G[y].state = B[t][y].state /\ G[y].owned = B[t][y].owned
                            /\ G[y].call = B[t][y].call
  <2>1. B[t][y] \in Rows
    OBVIOUS
  <2>2. CASE y \in S
    <3>1. G[y] = [B[t][y] EXCEPT !.owed = a, !.abandoned = FALSE]
      BY <2>2
    <3> HIDE DEF G
    <3> QED
      BY <2>1, <3>1 DEF Rows
  <2>3. CASE y \notin S
    BY <2>1, <2>3
  <2> QED
    BY <2>2, <2>3
<1>3. G \in [Objects -> Rows]
  BY <1>2
<1>4. \A y \in Objects : y \notin S => G[y] = B[t][y]
  OBVIOUS
<1> HIDE DEF G
<1> QED
  BY <1>1, <1>2, <1>3, <1>4

-----------------------------------------------------------------------------
(* Steps that leave the variables of a conjunct alone. *)

LEMMA BornFrame ==
    Born /\ UNCHANGED <<status, retired, pc, spent, bound, closing, root, binding, attempt>>
      => Born'
  BY DEF Born, Unborn, Bound
LEMMA BondsFrame == Bonds /\ UNCHANGED <<latest, binding, bound, root>> => Bonds'
  BY DEF Bonds, Lately, Bound
LEMMA DutiesFrame == Duties /\ UNCHANGED <<binding>> => Duties'
  BY DEF Duties, Owed, Bound
LEMMA AskedFrame ==
    Asked /\ UNCHANGED <<closing, scanned, settler, binding, status, mode>> => Asked'
  BY DEF Asked, AskedFor
LEMMA PassesFrame == Passes /\ UNCHANGED <<pc, spent, ans, binding, bound>> => Passes'
  BY DEF Passes, Pass, Bound
LEMMA ScansFrame == Scans /\ UNCHANGED <<inv, settler, status, spent, binding>> => Scans'
  BY DEF Scans, Bound
LEMMA GenerationsFrame == Generations /\ UNCHANGED <<status, retired, source>> => Generations'
  BY DEF Generations, Live
LEMMA SoleOwnerFrame == SoleOwner /\ UNCHANGED <<status, binding>> => SoleOwner'
  BY DEF SoleOwner, Live, Bound
LEMMA FenceBoundFrame ==
    FenceBound /\ UNCHANGED <<status, spent, pc, bound, retired, source, binding, postdated>>
      => FenceBound'
  BY DEF FenceBound, FenceRead, Live, Precedes, Outstanding, Owed
LEMMA CleanlyFrame == Cleanly /\ UNCHANGED <<binding, spent, attempt, root, pc>> => Cleanly'
  BY DEF Cleanly, Clean, Open, Current, Bound
LEMMA OpenlyFrame == Openly /\ UNCHANGED <<attempt, spent, pc>> => Openly'
  BY DEF Openly, Opened, Current
LEMMA TrackingFrame ==
    Tracking /\ UNCHANGED <<made, blind, binding, spent, attempt, pc, settler, remote, ans>>
      => Tracking'
  BY DEF Tracking, Track, Witness, Settling, Free, Current, Bound

\* Steps that write bindings, but neither bind nor unbind.
SameBonds == \A x \in Transfers, y \in Objects : Bound(x, y)' <=> Bound(x, y)

\* Steps after which every binding is still there.
MoreBonds == \A x \in Transfers, y \in Objects : Bound(x, y) => Bound(x, y)'

LEMMA BornSame ==
    Born /\ SameBonds /\ UNCHANGED <<status, retired, pc, spent, bound, closing, root, attempt>>
      => Born'
  BY DEF Born, Unborn, SameBonds
LEMMA BondsSame ==
    ASSUME TypeOK, Bonds, SameBonds, UNCHANGED <<latest, bound, root>>
    PROVE  Bonds'
<1>1. \A o \in Objects : latest[o] # None => latest[o] \in Transfers
  BY DEF TypeOK
<1> QED
  BY <1>1 DEF Bonds, Lately, SameBonds
LEMMA SoleOwnerSame == SoleOwner /\ SameBonds /\ UNCHANGED status => SoleOwner'
  BY DEF SoleOwner, SameBonds, Live
LEMMA PassesMore == Passes /\ MoreBonds /\ UNCHANGED <<pc, spent, ans, bound>> => Passes'
  BY DEF Passes, Pass, MoreBonds
LEMMA ScansMore == Scans /\ MoreBonds /\ UNCHANGED <<inv, settler, status, spent>> => Scans'
  BY DEF Scans, MoreBonds
LEMMA CleanlyMore == Cleanly /\ MoreBonds /\ UNCHANGED <<spent, attempt, root, pc>> => Cleanly'
  BY DEF Cleanly, Clean, Open, Current, MoreBonds
LEMMA TrackingMore ==
    ASSUME Tracking, MoreBonds,
           UNCHANGED <<made, blind, spent, attempt, pc, settler, remote, ans>>
    PROVE  Tracking'
<1>1. \A o \in Objects : Free(o)' => Free(o)
  BY DEF Free, MoreBonds
<1>2. \A t \in Transfers, o \in Objects, n \in AttemptIds : Witness(t, o, n) => Witness(t, o, n)'
  BY DEF Witness, Settling
<1> QED
  BY <1>1, <1>2 DEF Tracking, Track, Settling, Current
LEMMA MoreOfSame == SameBonds => MoreBonds
  BY DEF SameBonds, MoreBonds

\* A binding that was allowed makes no second owner.
LEMMA SoleOwnerMore ==
    ASSUME SoleOwner, Generations, UNCHANGED status,
           NEW t \in Transfers, NEW o \in Objects, Bindable(t, o),
           \A x \in Transfers, y \in Objects : x # t \/ y # o => (Bound(x, y)' <=> Bound(x, y))
    PROVE  SoleOwner'
  BY DEF SoleOwner, Generations, Bindable, Live

\* A cleanup that is recorded is noted for the roots past the fence.
LEMMA PostdateEffect ==
    ASSUME TypeOK, NEW t \in Transfers, NEW S \in SUBSET Objects, Postdate(t, S)
    PROVE  /\ postdated' \in [Transfers -> SUBSET Bindings]
           /\ \A x \in Transfers : postdated[x] \subseteq postdated'[x]
           /\ \A x \in Transfers, o \in S :
                x # t /\ FenceRead(x) => <<t, o>> \in postdated'[x]
<1>1. \A x \in Transfers : postdated[x] \in SUBSET Bindings
  BY DEF TypeOK
<1>2. {t} \X S \subseteq Bindings
  BY DEF Bindings
<1> QED
  BY <1>1, <1>2 DEF Postdate

LEMMA FenceKept ==
    ASSUME FenceBound, UNCHANGED <<source, retired>>,
           \A x \in Transfers : postdated[x] \subseteq postdated'[x],
           \A x \in Transfers : FenceRead(x)' => FenceRead(x),
           \A x, p \in Transfers, o \in Objects :
             p # x /\ FenceRead(x) /\ Outstanding(p, o)' =>
               Outstanding(p, o) \/ <<p, o>> \in postdated'[x]
    PROVE  FenceBound'
<1> SUFFICES ASSUME NEW x \in Transfers, NEW p \in Transfers, NEW o \in Objects,
                    FenceRead(x)', Precedes(p, x)', Outstanding(p, o)'
             PROVE  <<p, o>> \in postdated'[x]
  BY DEF FenceBound
<1>1. FenceRead(x) /\ Precedes(p, x) /\ p # x
  BY DEF Precedes
<1> QED
  BY <1>1 DEF FenceBound

\* A resource is bound or seen again, and its cleanup owed.
LEMMA RenewEffect ==
    ASSUME TypeOK, Duties, NEW t \in Transfers, NEW o \in Objects, NEW owned \in BOOLEAN,
           NEW a \in Authorities, binding' = Intend(Upsert(t, o, owned), t, {o}, a)
    PROVE  /\ binding' \in [Transfers -> [Objects -> Rows]]
           /\ binding'[t][o].state = "available" /\ binding'[t][o].owed = a
           /\ ~binding'[t][o].abandoned /\ binding'[t][o].call = binding[t][o].call
           /\ \A x \in Transfers, y \in Objects :
                x # t \/ y # o => binding'[x][y] = binding[x][y]
<1> DEFINE U == Upsert(t, o, owned)
<1>1. /\ U \in [Transfers -> [Objects -> Rows]]
      /\ U[t][o].state = "available" /\ U[t][o].call = binding[t][o].call
      /\ \A x \in Transfers, y \in Objects : x # t \/ y # o => U[x][y] = binding[x][y]
  BY UpsertEffect
<1> HIDE DEF U
<1> DEFINE S == {o}
<1>2. U \in [Transfers -> [Objects -> Rows]]
  BY <1>1
<1>3. o \in Objects \cap S /\ \A y : y # o => y \notin S
  OBVIOUS
<1> DEFINE W == Intend(U, t, S, a)
<1>4. binding' = W
  BY DEF U
<1> HIDE DEF S
<1>5. /\ W \in [Transfers -> [Objects -> Rows]]
      /\ \A x \in Transfers, y \in Objects : x # t \/ y \notin S => W[x][y] = U[x][y]
      /\ \A y \in Objects \cap S :
           /\ W[t][y].owed = a /\ ~W[t][y].abandoned
           /\ W[t][y].state = U[t][y].state /\ W[t][y].call = U[t][y].call
  BY ONLY <1>2, IntendEffect, t \in Transfers, a \in Authorities
<1> HIDE DEF W
<1> QED
  BY <1>1, <1>3, <1>4, <1>5, ZenonT(60)

\* A step after which an obligation is new only where it was noted.
LEMMA FencePostdated ==
    ASSUME TypeOK, FenceBound, UNCHANGED <<source, retired>>,
           NEW t \in Transfers, NEW S \in SUBSET Objects, Postdate(t, S),
           \A x \in Transfers : FenceRead(x)' => FenceRead(x),
           \A p \in Transfers, y \in Objects :
             Outstanding(p, y)' => Outstanding(p, y) \/ (p = t /\ y \in S)
    PROVE  FenceBound'
<1>1. /\ \A x \in Transfers : postdated[x] \subseteq postdated'[x]
      /\ \A x \in Transfers, y \in S :
           x # t /\ FenceRead(x) => <<t, y>> \in postdated'[x]
  BY PostdateEffect
<1> QED
  BY <1>1, FenceKept

\* The last to be bound to an object, after a binding.
LEMMA BindEffect ==
    ASSUME TypeOK, Bonds, NEW t \in Transfers, NEW o \in Objects, BindLatest(t, o), Bound(t, o)',
           \A x \in Transfers, y \in Objects : x # t \/ y # o => (Bound(x, y)' <=> Bound(x, y))
    PROVE  latest' \in [Objects -> Transfers \cup {None}] /\ Lately'
<1>1. latest \in [Objects -> Transfers \cup {None}] /\ t # None
  BY NoneAssumption DEF TypeOK
<1>2. CASE Bound(t, o)
  <2>1. \A x \in Transfers, y \in Objects : Bound(x, y)' <=> Bound(x, y)
    BY <1>2
  <2> QED
    BY <1>1, <1>2, <2>1 DEF BindLatest, Bonds, Lately
<1>3. CASE ~Bound(t, o)
  <2>1. latest' = [latest EXCEPT ![o] = t]
    BY <1>3 DEF BindLatest
  <2> QED
    BY <1>1, <2>1 DEF Bonds, Lately
<1> QED
  BY <1>2, <1>3

\* A root that has just read the fence, while everybody else's obligations stay.
LEMMA FenceReadNow ==
    ASSUME TypeOK, FenceBound, Generations, NEW t \in Transfers, ~FencedAs(t, source'[t]),
           \A x \in Transfers \ {t} :
             /\ source'[x] = source[x] /\ (FenceRead(x)' => FenceRead(x))
             /\ postdated[x] \subseteq postdated'[x],
           \A x \in Transfers : retired'[x] = retired[x],
           ~retired[t],
           \A p \in Transfers, y \in Objects :
             p # t /\ Outstanding(p, y)' => Outstanding(p, y)
    PROVE  FenceBound'
<1> SUFFICES ASSUME NEW x \in Transfers, NEW p \in Transfers, NEW y \in Objects,
                    FenceRead(x)', Precedes(p, x)', Outstanding(p, y)'
             PROVE  <<p, y>> \in postdated'[x]
  BY DEF FenceBound
<1>1. p # x /\ retired[p] /\ p # t /\ source'[p] = source'[x] /\ Outstanding(p, y)
  BY DEF Precedes
<1>2. CASE x = t
  BY <1>1, <1>2 DEF FencedAs
<1>3. CASE x # t
  BY <1>1, <1>3 DEF FenceBound, Precedes
<1> QED
  BY <1>2, <1>3

-----------------------------------------------------------------------------
(* Admission and the ends of a transfer. *)

LEMMA SubmitStep ==
    ASSUME IInv, NEW t \in Transfers, NEW s \in Sources, Submit(t, s)
    PROVE  IInv'
<1>0. TypeOK /\ Born /\ Bonds /\ Duties /\ Asked /\ Passes /\ Scans /\ Generations /\
      SoleOwner /\ FenceBound /\ Cleanly /\ Openly /\ Tracking
  BY DEF IInv
<1>1. /\ UNCHANGED <<imported, mode, closing>>
      /\ UNCHANGED <<root, bound, spent, pin, attempt, pc, ans>>
      /\ UNCHANGED <<binding, latest, remote, made, blind, postdated>>
      /\ UNCHANGED <<inv, settler, scanned, upsets, budget>>
  BY DEF Submit, NextId, Holders, vars, work, torrents, requests, passes, resources, history,
         scans, tally
<1>2. /\ status[t] = "unborn"
      /\ status' = [status EXCEPT ![t] = "live"]
      /\ source' = [source EXCEPT ![t] = s]
      /\ retired' = [h \in Transfers |->
                     retired[h] \/ (status[h] # "unborn" /\ source[h] = s /\ ~retired[h])]
      /\ \A h \in Transfers : status[h] # "unborn" /\ source[h] = s /\ ~retired[h] => Ended(h)
  BY DEF Submit, NextId, Holders
<1>3. ~retired'[t] /\ ~retired[t]
  BY <1>0, <1>2 DEF Born, Unborn
<1>4. \A h \in Transfers \ {t} : status'[h] = status[h] /\ source'[h] = source[h]
  BY <1>0, <1>2 DEF TypeOK
<1>5. status'[t] = "live" /\ source'[t] = s
  BY <1>0, <1>2 DEF TypeOK
<1>6. \A h \in Transfers \ {t} : status[h] # "unborn" /\ ~retired'[h] =>
        ~retired[h] /\ source[h] # s
  BY <1>2
<1>7. \A h \in Transfers \ {t} : Live(h) => ~retired'[h]
  BY <1>0, <1>2 DEF Generations, Live, Ended
<1>10. TypeOK'
  BY <1>0, <1>1, <1>2 DEF TypeOK, Authorities
<1>11. Bonds' /\ Duties' /\ Passes' /\ Cleanly' /\ Openly' /\ Tracking'
  BY <1>0, <1>1, BondsFrame, DutiesFrame, PassesFrame, CleanlyFrame, OpenlyFrame,
  TrackingFrame
<1>12. Born'
  BY <1>0, <1>1, <1>2 DEF Born, Unborn, Bound, TypeOK
<1>13. Asked'
  BY <1>0, <1>1, <1>2 DEF Asked, AskedFor, TypeOK
<1>14. Scans'
  BY <1>0, <1>1, <1>2 DEF Scans, Bound, TypeOK
<1>15. Generations'
  <2>1. \A x \in Transfers : (Live(x)' => ~retired'[x]) /\ (status'[x] = "deleted" => retired'[x])
    BY <1>0, <1>2, <1>3, <1>4, <1>5, <1>7 DEF Generations, Live
  <2>2. ASSUME NEW x \in Transfers, NEW y \in Transfers, x # y,
               status'[x] # "unborn", status'[y] # "unborn", ~retired'[x], ~retired'[y]
        PROVE  source'[x] # source'[y]
    BY <1>0, <1>4, <1>5, <1>6, <2>2 DEF Generations
  <2> QED
    BY <2>1, <2>2 DEF Generations
<1>16. SoleOwner'
  BY <1>0, <1>1, <1>2 DEF SoleOwner, Live, Bound, TypeOK, Born, Unborn
<1>17. FenceBound'
  BY <1>0, <1>1, <1>2
  DEF FenceBound, FenceRead, Live, Precedes, Outstanding, Owed, TypeOK, Born, Unborn,
      Generations, Ended
<1> QED
  BY <1>10, <1>11, <1>12, <1>13, <1>14, <1>15, <1>16, <1>17 DEF IInv

LEMMA CompleteStep ==
    ASSUME IInv, NEW t \in Transfers, Complete(t)
    PROVE  IInv'
<1>0. TypeOK /\ Born /\ Bonds /\ Duties /\ Asked /\ Passes /\ Scans /\ Generations /\
      SoleOwner /\ FenceBound /\ Cleanly /\ Openly /\ Tracking
  BY DEF IInv
<1>1. /\ UNCHANGED <<source, retired, imported, mode>>
      /\ UNCHANGED <<root, bound, spent, pin, attempt, pc, ans>>
      /\ UNCHANGED <<binding, latest, remote, made, blind>>
      /\ UNCHANGED <<inv, settler, scanned, upsets, budget>>
  BY DEF Complete, Forget, Live, vars, work, torrents, requests, passes, resources, history,
         scans, tally
<1>2. /\ status[t] = "live"
      /\ status' = [status EXCEPT ![t] = "completed"]
      /\ \E a \in {None, "owned"} : closing' = [closing EXCEPT ![t]["completed"] = a]
      /\ postdated' = [postdated EXCEPT ![t] = {}]
  BY DEF Complete, Forget, Live
<1>3. /\ closing' \in [Transfers -> [Closers -> Authorities]]
      /\ \A x \in Transfers, c \in Closers : closing'[x][c] \in {closing[x][c], None, "owned"}
      /\ \A x \in Transfers \ {t} : closing'[x] = closing[x]
  <2>1. PICK a \in {None, "owned"} : closing' = [closing EXCEPT ![t]["completed"] = a]
    BY <1>2
  <2>2. closing \in [Transfers -> [Closers -> Authorities]] /\ a \in Authorities
    BY <1>0 DEF TypeOK, Authorities
  <2> QED
    BY <2>1, <2>2
<1>10. TypeOK'
  BY <1>0, <1>1, <1>2, <1>3 DEF TypeOK, Authorities
<1>11. Bonds' /\ Duties' /\ Passes' /\ Cleanly' /\ Openly' /\ Tracking'
  BY <1>0, <1>1, BondsFrame, DutiesFrame, PassesFrame, CleanlyFrame, OpenlyFrame,
  TrackingFrame
<1>12. Born'
  BY <1>0, <1>1, <1>2, <1>3 DEF Born, Unborn, Bound, TypeOK
<1>13. Asked'
  BY <1>0, <1>1, <1>2, <1>3, NoneAssumption DEF Asked, AskedFor, TypeOK
<1>14. Scans'
  BY <1>0, <1>1, <1>2 DEF Scans, Bound, TypeOK
<1>15. Generations'
  BY <1>0, <1>1, <1>2 DEF Generations, Live, TypeOK
<1>16. SoleOwner'
  BY <1>0, <1>1, <1>2 DEF SoleOwner, Live, Bound, TypeOK
<1>17. FenceBound'
  BY <1>0, <1>1, <1>2 DEF FenceBound, FenceRead, Live, Precedes, Outstanding, Owed, TypeOK
<1> QED
  BY <1>10, <1>11, <1>12, <1>13, <1>14, <1>15, <1>16, <1>17 DEF IInv

LEMMA CancelStep ==
    ASSUME IInv, NEW t \in Transfers, Cancel(t)
    PROVE  IInv'
<1>0. TypeOK /\ Born /\ Bonds /\ Duties /\ Asked /\ Passes /\ Scans /\ Generations /\
      SoleOwner /\ FenceBound /\ Cleanly /\ Openly /\ Tracking
  BY DEF IInv
<1>1. /\ UNCHANGED <<source, retired, imported, mode, closing>>
      /\ UNCHANGED <<root, bound, spent, pin, attempt, pc, ans>>
      /\ UNCHANGED <<binding, latest, remote, made, blind>>
      /\ UNCHANGED <<inv, settler, scanned, budget>>
  BY DEF Cancel, Upset, Forget, Live, vars, work, torrents, requests, passes, resources,
         history, scans, tally
<1>2. /\ status[t] = "live"
      /\ status' = [status EXCEPT ![t] = "cancelled"]
      /\ upsets' = upsets + 1
      /\ postdated' = [postdated EXCEPT ![t] = {}]
  BY DEF Cancel, Upset, Forget, Live
<1>10. TypeOK'
  BY <1>0, <1>1, <1>2 DEF TypeOK, Authorities
<1>11. Bonds' /\ Duties' /\ Passes' /\ Cleanly' /\ Openly' /\ Tracking'
  BY <1>0, <1>1, BondsFrame, DutiesFrame, PassesFrame, CleanlyFrame, OpenlyFrame,
  TrackingFrame
<1>12. Born'
  BY <1>0, <1>1, <1>2 DEF Born, Unborn, Bound, TypeOK
<1>13. Asked'
  BY <1>0, <1>1, <1>2, NoneAssumption DEF Asked, AskedFor, TypeOK
<1>14. Scans'
  BY <1>0, <1>1, <1>2 DEF Scans, Bound, TypeOK
<1>15. Generations'
  BY <1>0, <1>1, <1>2 DEF Generations, Live, TypeOK
<1>16. SoleOwner'
  BY <1>0, <1>1, <1>2 DEF SoleOwner, Live, Bound, TypeOK
<1>17. FenceBound'
  BY <1>0, <1>1, <1>2 DEF FenceBound, FenceRead, Live, Precedes, Outstanding, Owed, TypeOK
<1> QED
  BY <1>10, <1>11, <1>12, <1>13, <1>14, <1>15, <1>16, <1>17 DEF IInv

LEMMA DeleteStep ==
    ASSUME IInv, NEW t \in Transfers, NEW m \in Modes, Delete(t, m)
    PROVE  IInv'
<1>0. TypeOK /\ Born /\ Bonds /\ Duties /\ Asked /\ Passes /\ Scans /\ Generations /\
      SoleOwner /\ FenceBound /\ Cleanly /\ Openly /\ Tracking
  BY DEF IInv
<1>1. /\ UNCHANGED <<source, imported>>
      /\ UNCHANGED <<root, bound, spent, pin, attempt, pc, ans>>
      /\ UNCHANGED <<binding, latest, remote, made, blind>>
      /\ UNCHANGED <<inv, settler, scanned, upsets, budget>>
  BY DEF Delete, Forget, vars, work, torrents, requests, passes, resources, history, scans,
         tally
<1>2. /\ status[t] \notin {"unborn", "deleted"}
      /\ status' = [status EXCEPT ![t] = "deleted"]
      /\ retired' = [retired EXCEPT ![t] = TRUE]
      /\ mode' = [mode EXCEPT ![t] = m]
      /\ closing' = [closing EXCEPT ![t]["deleted"] = IF m = "keep" THEN None ELSE m]
      /\ postdated' = [postdated EXCEPT ![t] = {}]
  BY DEF Delete, Forget
<1>3. /\ closing' \in [Transfers -> [Closers -> Authorities]]
      /\ \A c \in Closers : closing'[t][c] = "user" => closing[t][c] = "user" \/ m = "user"
      /\ \A x \in Transfers \ {t} : closing'[x] = closing[x]
  <2>1. PICK a \in Authorities : a = IF m = "keep" THEN None ELSE m
    BY DEF Authorities, Modes
  <2>2. closing \in [Transfers -> [Closers -> Authorities]]
    BY <1>0 DEF TypeOK
  <2>3. closing' = [closing EXCEPT ![t]["deleted"] = a] /\ (a = "user" => m = "user")
    BY <1>2, <2>1, NoneAssumption
  <2> QED
    BY <2>2, <2>3
<1>10. TypeOK'
  BY <1>0, <1>1, <1>2, <1>3 DEF TypeOK, Authorities, Modes
<1>11. Bonds' /\ Duties' /\ Passes' /\ Cleanly' /\ Openly' /\ Tracking'
  BY <1>0, <1>1, BondsFrame, DutiesFrame, PassesFrame, CleanlyFrame, OpenlyFrame,
  TrackingFrame
<1>12. Born'
  BY <1>0, <1>1, <1>2, <1>3 DEF Born, Unborn, Bound, TypeOK
<1>13. Asked'
  BY <1>0, <1>1, <1>2, <1>3, NoneAssumption DEF Asked, AskedFor, TypeOK, Modes
<1>14. Scans'
  BY <1>0, <1>1, <1>2 DEF Scans, Bound, TypeOK
<1>15. Generations'
  BY <1>0, <1>1, <1>2 DEF Generations, Live, TypeOK
<1>16. SoleOwner'
  BY <1>0, <1>1, <1>2 DEF SoleOwner, Live, Bound, TypeOK
<1>17. FenceBound'
  BY <1>0, <1>1, <1>2
  DEF FenceBound, FenceRead, Live, Precedes, Outstanding, Owed, TypeOK, Generations
<1> QED
  BY <1>10, <1>11, <1>12, <1>13, <1>14, <1>15, <1>16, <1>17 DEF IInv

-----------------------------------------------------------------------------
(* The cleanup cadence. *)

LEMMA CleanupScanStep ==
    ASSUME IInv, NEW t \in Transfers, NEW o \in Objects, CleanupScan(t, o)
    PROVE  IInv'
<1>0. TypeOK /\ Born /\ Bonds /\ Duties /\ Asked /\ Passes /\ Scans /\ Generations /\
      SoleOwner /\ FenceBound /\ Cleanly /\ Openly /\ Tracking
  BY DEF IInv
<1>1. /\ UNCHANGED <<status, source, retired, imported, mode, closing>>
      /\ UNCHANGED <<root, bound, spent, pin, attempt, pc, ans>>
      /\ UNCHANGED <<binding, latest, remote, made, blind, postdated>>
      /\ UNCHANGED <<inv, settler, upsets, budget>>
  BY DEF CleanupScan, vars, work, torrents, requests, passes, resources, history, scans, tally
<1>2. /\ binding[t][o].owed \in {"owned", "user"}
      /\ scanned' = [scanned EXCEPT ![t][o] = scanned[t][o] \cup {binding[t][o].owed}]
  <2>1. binding[t][o] \in Rows
    BY <1>0, Types
  <2> QED
    BY <2>1 DEF CleanupScan, Claimable, Owed, Rows, Authorities
<1>3. /\ scanned' \in [Transfers -> [Objects -> SUBSET {"owned", "user"}]]
      /\ \A x \in Transfers, y \in Objects :
           "user" \in scanned'[x][y] => "user" \in scanned[x][y] \/ binding[x][y].owed = "user"
  <2>1. scanned \in [Transfers -> [Objects -> SUBSET {"owned", "user"}]]
    BY <1>0 DEF TypeOK
  <2> QED
    BY <1>2, <2>1
<1>10. TypeOK'
  BY <1>0, <1>1, <1>3 DEF TypeOK, Authorities
<1>11. Born' /\ Bonds' /\ Duties' /\ Passes' /\ Generations' /\ SoleOwner' /\
       FenceBound' /\ Cleanly' /\ Openly' /\ Tracking' /\ Scans'
  BY <1>0, <1>1, BornFrame, BondsFrame, DutiesFrame, PassesFrame, ScansFrame,
  GenerationsFrame, SoleOwnerFrame, FenceBoundFrame, CleanlyFrame, OpenlyFrame, TrackingFrame
<1>12. Asked'
  BY <1>0, <1>1, <1>3 DEF Asked, AskedFor
<1> QED
  BY <1>10, <1>11, <1>12 DEF IInv

LEMMA CleanupStartStep ==
    ASSUME IInv, NEW t \in Transfers, NEW o \in Objects, CleanupStart(t, o)
    PROVE  IInv'
<1>0. TypeOK /\ Born /\ Bonds /\ Duties /\ Asked /\ Passes /\ Scans /\ Generations /\
      SoleOwner /\ FenceBound /\ Cleanly /\ Openly /\ Tracking
  BY DEF IInv
<1>1. /\ UNCHANGED <<status, source, retired, imported, mode, closing>>
      /\ UNCHANGED <<root, bound, spent, pin, attempt, pc, ans>>
      /\ UNCHANGED <<latest, remote, made, blind, postdated>>
      /\ UNCHANGED <<inv, settler, upsets, budget>>
  BY DEF CleanupStart, Cleaning, vars, work, torrents, requests, passes, resources, history,
         scans, tally
<1>2. PICK a \in scanned[t][o] :
        /\ scanned' = [scanned EXCEPT ![t][o] = scanned[t][o] \ {a}]
        /\ IF Claimable(t, o)
           THEN binding' = [binding EXCEPT ![t][o] = [binding[t][o] EXCEPT !.call = a]]
           ELSE UNCHANGED binding
  BY DEF CleanupStart, Cleaning
<1>3. /\ scanned \in [Transfers -> [Objects -> SUBSET {"owned", "user"}]]
      /\ binding \in [Transfers -> [Objects -> Rows]] /\ a \in {"owned", "user"}
  BY <1>0, <1>2, Types DEF TypeOK
<1>7. /\ scanned' \in [Transfers -> [Objects -> SUBSET {"owned", "user"}]]
      /\ \A x \in Transfers, y \in Objects : scanned'[x][y] \subseteq scanned[x][y]
  BY <1>2, <1>3
<1> DEFINE b == IF Claimable(t, o) THEN [binding[t][o] EXCEPT !.call = a] ELSE binding[t][o]
<1>4. /\ b \in Rows /\ b.state = binding[t][o].state /\ b.owed = binding[t][o].owed
      /\ b.abandoned = binding[t][o].abandoned
      /\ b.call = binding[t][o].call
           \/ (b.call = a /\ Owed(t, o) /\ ~binding[t][o].abandoned)
  <2>1. binding[t][o] \in Rows
    BY <1>3
  <2>2. CASE Claimable(t, o)
    <3>1. b = [binding[t][o] EXCEPT !.call = a]
      BY <2>2
    <3> HIDE DEF b
    <3> QED
      BY <1>3, <2>1, <2>2, <3>1 DEF Claimable, Rows, Calls
  <2>3. CASE ~Claimable(t, o)
    BY <2>1, <2>3
  <2> QED
    BY <2>2, <2>3
<1>6. binding' = [binding EXCEPT ![t][o] = b]
  BY <1>2, <1>3
<1> HIDE DEF b
<1>5. /\ binding' \in [Transfers -> [Objects -> Rows]]
      /\ binding'[t][o] = b
      /\ \A x \in Transfers, y \in Objects :
           x # t \/ y # o => binding'[x][y] = binding[x][y]
  BY <1>0, <1>4, <1>6, RowEffect, ZenonT(60)
<1>9. SameBonds
  BY <1>4, <1>5 DEF SameBonds, Bound
<1>10. TypeOK'
  BY <1>0, <1>1, <1>5, <1>7 DEF TypeOK, Authorities, Rows, Calls
<1>11. Generations' /\ Openly'
  BY <1>0, <1>1, GenerationsFrame, OpenlyFrame
<1>12. Born'
  BY <1>0, <1>1, <1>9, BornSame
<1>13. Bonds'
  BY <1>0, <1>1, <1>9, BondsSame
<1>14. Duties'
  BY <1>0, <1>4, <1>5 DEF Duties, Owed, Bound
<1>15. Asked'
  BY <1>0, <1>1, <1>2, <1>4, <1>5, <1>7 DEF Asked, AskedFor
<1>16. Passes'
  BY <1>0, <1>1, <1>9, PassesMore, MoreOfSame
<1>17. Scans'
  BY <1>0, <1>1, <1>9, ScansMore, MoreOfSame
<1>18. SoleOwner'
  BY <1>0, <1>1, <1>9, SoleOwnerSame
<1>19. FenceBound'
  <2>1. \A x, p \in Transfers, y \in Objects :
          p # x /\ FenceRead(x) /\ Outstanding(p, y)' => Outstanding(p, y)
    BY <1>0, <1>4, <1>5 DEF Outstanding, Owed, Duties
  <2>2. \A x \in Transfers : FenceRead(x)' = FenceRead(x)
    BY <1>1 DEF FenceRead, Live
  <2> QED
    BY <1>0, <1>1, <2>1, <2>2, FenceKept
<1>20. Cleanly'
  BY <1>0, <1>1, <1>9, CleanlyMore, MoreOfSame
<1>21. Tracking'
  BY <1>0, <1>1, <1>9, TrackingMore, MoreOfSame
<1> QED
  BY <1>10, <1>11, <1>12, <1>13, <1>14, <1>15, <1>16, <1>17, <1>18, <1>19, <1>20, <1>21
  DEF IInv

LEMMA CleanupActsStep ==
    ASSUME IInv, NEW t \in Transfers, NEW o \in Objects, CleanupActs(t, o)
    PROVE  IInv'
<1>0. TypeOK /\ Born /\ Bonds /\ Duties /\ Asked /\ Passes /\ Scans /\ Generations /\
      SoleOwner /\ FenceBound /\ Cleanly /\ Openly /\ Tracking
  BY DEF IInv
<1>1. /\ UNCHANGED <<status, source, retired, imported, mode, closing>>
      /\ UNCHANGED <<root, bound, spent, pin, attempt, pc, ans>>
      /\ UNCHANGED <<latest, made, blind, postdated>>
      /\ UNCHANGED <<inv, settler, scanned, upsets, budget>>
  BY DEF CleanupActs, Cleaning, vars, work, torrents, requests, passes, resources, history,
         scans, tally
<1>2. /\ binding[t][o].call \in {"owned", "user"}
      /\ remote' = remote \/ remote' = remote \ {o}
      /\ binding' = [binding EXCEPT ![t][o] =
           IF binding[t][o].call = "user" \/ binding[t][o].owned
           THEN [binding[t][o] EXCEPT !.call = "removed"]
           ELSE [binding[t][o] EXCEPT !.call = "skipped"]]
  BY DEF CleanupActs, Cleaning
<1> DEFINE b == IF binding[t][o].call = "user" \/ binding[t][o].owned
                THEN [binding[t][o] EXCEPT !.call = "removed"]
                ELSE [binding[t][o] EXCEPT !.call = "skipped"]
<1>3. binding[t][o] \in Rows /\ binding' = [binding EXCEPT ![t][o] = b]
  BY <1>0, <1>2, Types
<1>4. /\ b.state = binding[t][o].state /\ b.owed = binding[t][o].owed
      /\ b.abandoned = binding[t][o].abandoned /\ b.call \in {"removed", "skipped"}
  BY <1>0, <1>2, <1>3, NoneAssumption DEF Rows, Calls
<1>6. b \in Rows
  BY <1>0, <1>2, <1>3, NoneAssumption DEF Rows, Calls
<1> HIDE DEF b
<1>5. /\ binding' \in [Transfers -> [Objects -> Rows]]
      /\ binding'[t][o] = b
      /\ \A x \in Transfers, y \in Objects :
           x # t \/ y # o => binding'[x][y] = binding[x][y]
  BY <1>0, <1>3, <1>6, RowEffect, ZenonT(60)
<1>9. SameBonds
  BY <1>4, <1>5 DEF SameBonds, Bound
<1>10. TypeOK'
  BY <1>0, <1>1, <1>2, <1>5 DEF TypeOK, Authorities, Rows, Calls
<1>11. Generations' /\ Openly'
  BY <1>0, <1>1, GenerationsFrame, OpenlyFrame
<1>12. Born'
  BY <1>0, <1>1, <1>9, BornSame
<1>13. Bonds'
  BY <1>0, <1>1, <1>9, BondsSame
<1>14. Duties'
  BY <1>0, <1>1, <1>2, <1>4, <1>5 DEF Duties, Owed, Bound
<1>15. Asked'
  BY <1>0, <1>1, <1>2, <1>4, <1>5 DEF Asked, AskedFor
<1>16. Passes'
  BY <1>0, <1>1, <1>9, PassesMore, MoreOfSame
<1>17. Scans'
  BY <1>0, <1>1, <1>9, ScansMore, MoreOfSame
<1>18. SoleOwner'
  BY <1>0, <1>1, <1>9, SoleOwnerSame
<1>19. FenceBound'
  <2>1. \A x, p \in Transfers, y \in Objects :
          p # x /\ FenceRead(x) /\ Outstanding(p, y)' => Outstanding(p, y)
    BY <1>0, <1>2, <1>4, <1>5 DEF Outstanding, Owed, Duties
  <2>2. \A x \in Transfers : FenceRead(x)' = FenceRead(x)
    BY <1>1 DEF FenceRead, Live
  <2> QED
    BY <1>0, <1>1, <2>1, <2>2, FenceKept
<1>20. Cleanly'
  BY <1>0, <1>1, <1>9, CleanlyMore, MoreOfSame
<1>21. Tracking'
  <2>1. ~Free(o)
    BY <1>0, <1>2 DEF Duties, Free
  <2>2. \A y \in Objects : Free(y)' => Free(y)
    BY <1>9 DEF Free, SameBonds
  <2>3. \A x \in Transfers, y \in Objects, n \in AttemptIds : Witness(x, y, n) => Witness(x, y, n)'
    BY <1>1 DEF Witness, Settling
  <2> QED
    BY <1>0, <1>1, <1>2, <2>1, <2>2, <2>3 DEF Tracking, Track, Settling, Current
<1> QED
  BY <1>10, <1>11, <1>12, <1>13, <1>14, <1>15, <1>16, <1>17, <1>18, <1>19, <1>20, <1>21
  DEF IInv

LEMMA CleanupCompletesStep ==
    ASSUME IInv, NEW t \in Transfers, NEW o \in Objects, CleanupCompletes(t, o)
    PROVE  IInv'
<1>0. TypeOK /\ Born /\ Bonds /\ Duties /\ Asked /\ Passes /\ Scans /\ Generations /\
      SoleOwner /\ FenceBound /\ Cleanly /\ Openly /\ Tracking
  BY DEF IInv
<1>1. /\ UNCHANGED <<status, source, retired, imported, mode, closing>>
      /\ UNCHANGED <<root, bound, spent, pin, attempt, pc, ans>>
      /\ UNCHANGED <<latest, remote, made, blind, postdated>>
      /\ UNCHANGED <<inv, settler, scanned, upsets, budget>>
  BY DEF CleanupCompletes, Cleaning, vars, work, torrents, requests, passes, resources,
         history, scans, tally
<1>2. /\ binding[t][o].call \in {"removed", "skipped"}
      /\ binding' = [binding EXCEPT ![t][o] =
           [binding[t][o] EXCEPT !.owed = None, !.call = "none",
                    !.state = IF binding[t][o].call = "removed"
                              THEN "absent" ELSE binding[t][o].state]]
  BY DEF CleanupCompletes, Cleaning
<1> DEFINE b == [binding[t][o] EXCEPT !.owed = None, !.call = "none",
                         !.state = IF binding[t][o].call = "removed" THEN "absent"
                                                                         ELSE binding[t][o].state]
<1>3. binding[t][o] \in Rows /\ binding' = [binding EXCEPT ![t][o] = b]
  BY <1>0, <1>2, Types
<1>4. /\ b.owed = None /\ b.call = "none" /\ b.state \in {"absent", binding[t][o].state}
      /\ Bound(t, o)
  BY <1>0, <1>2, <1>3, NoneAssumption DEF Rows, Calls, Authorities, Duties, Owed
<1>6. b \in Rows
  BY <1>0, <1>2, <1>3, NoneAssumption DEF Rows, Calls, Authorities, Duties, Owed
<1> HIDE DEF b
<1>5. /\ binding' \in [Transfers -> [Objects -> Rows]]
      /\ binding'[t][o] = b
      /\ \A x \in Transfers, y \in Objects :
           x # t \/ y # o => binding'[x][y] = binding[x][y]
  BY <1>0, <1>3, <1>6, RowEffect, ZenonT(60)
<1>9. SameBonds
  BY <1>4, <1>5 DEF SameBonds, Bound
<1>10. TypeOK'
  BY <1>0, <1>1, <1>2, <1>5 DEF TypeOK, Authorities, Rows, Calls
<1>11. Generations' /\ Openly'
  BY <1>0, <1>1, GenerationsFrame, OpenlyFrame
<1>12. Born'
  BY <1>0, <1>1, <1>9, BornSame
<1>13. Bonds'
  BY <1>0, <1>1, <1>9, BondsSame
<1>14. Duties'
  BY <1>0, <1>1, <1>2, <1>4, <1>5 DEF Duties, Owed, Bound
<1>15. Asked'
  BY <1>0, <1>1, <1>2, <1>4, <1>5, NoneAssumption DEF Asked, AskedFor
<1>16. Passes'
  BY <1>0, <1>1, <1>9, PassesMore, MoreOfSame
<1>17. Scans'
  BY <1>0, <1>1, <1>9, ScansMore, MoreOfSame
<1>18. SoleOwner'
  BY <1>0, <1>1, <1>9, SoleOwnerSame
<1>19. FenceBound'
  <2>1. \A x, p \in Transfers, y \in Objects :
          p # x /\ FenceRead(x) /\ Outstanding(p, y)' => Outstanding(p, y)
    BY <1>0, <1>2, <1>4, <1>5 DEF Outstanding, Owed, Duties
  <2>2. \A x \in Transfers : FenceRead(x)' = FenceRead(x)
    BY <1>1 DEF FenceRead, Live
  <2> QED
    BY <1>0, <1>1, <2>1, <2>2, FenceKept
<1>20. Cleanly'
  BY <1>0, <1>1, <1>9, CleanlyMore, MoreOfSame
<1>21. Tracking'
  BY <1>0, <1>1, <1>9, TrackingMore, MoreOfSame
<1> QED
  BY <1>10, <1>11, <1>12, <1>13, <1>14, <1>15, <1>16, <1>17, <1>18, <1>19, <1>20, <1>21
  DEF IInv

LEMMA CleanupFailsStep ==
    ASSUME IInv, NEW t \in Transfers, NEW o \in Objects, CleanupFails(t, o)
    PROVE  IInv'
<1>0. TypeOK /\ Born /\ Bonds /\ Duties /\ Asked /\ Passes /\ Scans /\ Generations /\
      SoleOwner /\ FenceBound /\ Cleanly /\ Openly /\ Tracking
  BY DEF IInv
<1>1. /\ UNCHANGED <<status, source, retired, imported, mode, closing>>
      /\ UNCHANGED <<root, bound, spent, pin, attempt, pc, ans>>
      /\ UNCHANGED <<latest, remote, made, blind, postdated>>
      /\ UNCHANGED <<inv, settler, scanned, budget>>
  BY DEF CleanupFails, Cleaning, Upset, vars, work, torrents, requests, passes, resources,
         history, scans, tally
<1>2. /\ binding[t][o].call # "none"
      /\ upsets' = upsets + 1
      /\ \E gone \in BOOLEAN : binding' = [binding EXCEPT ![t][o] =
           [binding[t][o] EXCEPT !.call = "none", !.abandoned = gone]]
  BY DEF CleanupFails, Cleaning, Upset
<1>3. PICK gone \in BOOLEAN :
        binding' = [binding EXCEPT ![t][o] =
                     [binding[t][o] EXCEPT !.call = "none", !.abandoned = gone]]
  BY <1>2
<1> DEFINE b == [binding[t][o] EXCEPT !.call = "none", !.abandoned = gone]
<1>4. /\ b \in Rows /\ b.call = "none" /\ b.owed = binding[t][o].owed
      /\ b.state = binding[t][o].state
  <2>1. binding[t][o] \in Rows
    BY <1>0, Types
  <2> QED
    BY <2>1 DEF Rows, Calls
<1>6. binding' = [binding EXCEPT ![t][o] = b]
  BY <1>3
<1> HIDE DEF b
<1>5. /\ binding' \in [Transfers -> [Objects -> Rows]]
      /\ binding'[t][o] = b
      /\ \A x \in Transfers, y \in Objects :
           x # t \/ y # o => binding'[x][y] = binding[x][y]
  BY <1>0, <1>6, <1>4, RowEffect, ZenonT(60)
<1>9. SameBonds
  BY <1>4, <1>5 DEF SameBonds, Bound
<1>10. TypeOK'
  BY <1>0, <1>1, <1>2, <1>5 DEF TypeOK, Authorities, Rows, Calls
<1>11. Generations' /\ Openly'
  BY <1>0, <1>1, GenerationsFrame, OpenlyFrame
<1>12. Born'
  BY <1>0, <1>1, <1>9, BornSame
<1>13. Bonds'
  BY <1>0, <1>1, <1>9, BondsSame
<1>14. Duties'
  BY <1>0, <1>1, <1>2, <1>4, <1>5 DEF Duties, Owed, Bound
<1>15. Asked'
  BY <1>0, <1>1, <1>2, <1>4, <1>5, NoneAssumption DEF Asked, AskedFor
<1>16. Passes'
  BY <1>0, <1>1, <1>9, PassesMore, MoreOfSame
<1>17. Scans'
  BY <1>0, <1>1, <1>9, ScansMore, MoreOfSame
<1>18. SoleOwner'
  BY <1>0, <1>1, <1>9, SoleOwnerSame
<1>19. FenceBound'
  <2>1. \A x, p \in Transfers, y \in Objects :
          p # x /\ FenceRead(x) /\ Outstanding(p, y)' => Outstanding(p, y)
    BY <1>0, <1>2, <1>4, <1>5 DEF Outstanding, Owed, Duties
  <2>2. \A x \in Transfers : FenceRead(x)' = FenceRead(x)
    BY <1>1 DEF FenceRead, Live
  <2> QED
    BY <1>0, <1>1, <2>1, <2>2, FenceKept
<1>20. Cleanly'
  BY <1>0, <1>1, <1>9, CleanlyMore, MoreOfSame
<1>21. Tracking'
  BY <1>0, <1>1, <1>9, TrackingMore, MoreOfSame
<1> QED
  BY <1>10, <1>11, <1>12, <1>13, <1>14, <1>15, <1>16, <1>17, <1>18, <1>19, <1>20, <1>21
  DEF IInv

LEMMA CrashStep ==
    ASSUME IInv, Crash
    PROVE  IInv'
<1>0. TypeOK /\ Born /\ Bonds /\ Duties /\ Asked /\ Passes /\ Scans /\ Generations /\
      SoleOwner /\ FenceBound /\ Cleanly /\ Openly /\ Tracking
  BY DEF IInv
<1>1. /\ UNCHANGED <<status, source, retired, imported, mode>>
      /\ UNCHANGED <<root, bound, spent, pin, attempt>>
      /\ UNCHANGED <<latest, remote, made, blind, postdated>>
      /\ UNCHANGED <<budget>>
  BY DEF Crash, Upset, vars, work, torrents, requests, passes, resources, history, scans,
         tally
<1>2. /\ upsets' = upsets + 1
      /\ closing' = [t \in Transfers |-> [c \in Closers |-> None]]
      /\ scanned' = [t \in Transfers |-> [o \in Objects |-> {}]]
      /\ pc' = [t \in Transfers |-> "idle"]
      /\ ans' = [t \in Transfers |-> None]
      /\ binding' = [t \in Transfers |->
                     [o \in Objects |-> [binding[t][o] EXCEPT !.call = "none"]]]
      /\ inv' = NoItem /\ settler' = NoSettlement
  BY DEF Crash, Upset
<1>3. ASSUME NEW t \in Transfers, NEW o \in Objects
      PROVE  /\ binding'[t][o] \in Rows /\ binding'[t][o].call = "none"
             /\ binding'[t][o].state = binding[t][o].state
             /\ binding'[t][o].owed = binding[t][o].owed
             /\ binding'[t][o].abandoned = binding[t][o].abandoned
  <2>1. binding[t][o] \in Rows
    BY <1>0, Types
  <2>2. binding'[t][o] = [binding[t][o] EXCEPT !.call = "none"]
    BY <1>2
  <2> QED
    BY <2>1, <2>2 DEF Rows, Calls
<1>5. binding' \in [Transfers -> [Objects -> Rows]]
  BY <1>2, <1>3
<1>9. SameBonds
  BY <1>3 DEF SameBonds, Bound
<1>10. TypeOK'
  BY <1>0, <1>1, <1>2, <1>5 DEF TypeOK, Authorities, Rows, Calls, NoItem, NoSettlement
<1>11. Generations'
  BY <1>0, <1>1, GenerationsFrame
<1>12. Born'
  BY <1>0, <1>1, <1>2, <1>9 DEF Born, Unborn, Bound, SameBonds
<1>13. Bonds'
  BY <1>0, <1>1, <1>9, BondsSame
<1>14. Duties'
  BY <1>0, <1>1, <1>2, <1>3 DEF Duties, Owed, Bound
<1>15. Asked'
  BY <1>0, <1>1, <1>2, <1>3, NoneAssumption DEF Asked, AskedFor, NoSettlement
<1>16. Passes'
  BY <1>0, <1>1, <1>2 DEF Passes, Pass, Bound
<1>17. Scans'
  BY <1>0, <1>1, <1>2 DEF Scans, Bound, NoItem, NoSettlement
<1>18. SoleOwner'
  BY <1>0, <1>1, <1>9, SoleOwnerSame
<1>19. FenceBound'
  <2>1. \A x, p \in Transfers, y \in Objects :
          p # x /\ FenceRead(x) /\ Outstanding(p, y)' => Outstanding(p, y)
    BY <1>3 DEF Outstanding, Owed
  <2>2. \A x \in Transfers : FenceRead(x)' => FenceRead(x)
    BY <1>1, <1>2 DEF FenceRead, Live
  <2> QED
    BY <1>0, <1>1, <2>1, <2>2, FenceKept
<1>20. Cleanly'
  BY <1>0, <1>1, <1>2, <1>9 DEF Cleanly, Clean, Open, Current, Bound, SameBonds
<1>21. Openly'
  BY <1>0, <1>1, <1>2 DEF Openly, Opened, Current
<1>22. Tracking'
  <2>1. \A o \in Objects : Free(o)' => Free(o)
    BY <1>9 DEF Free, SameBonds
  <2>2. \A t \in Transfers : settler'.t # t /\ pc'[t] = "idle"
    BY <1>2, NoneAssumption DEF NoSettlement
  <2>3. \A t \in Transfers, o \in Objects, n \in AttemptIds : Witness(t, o, n) => Witness(t, o, n)'
    BY <1>1, <2>2 DEF Witness, Settling
  <2> QED
    BY <1>0, <1>1, <2>1, <2>2, <2>3 DEF Tracking, Track
<1> QED
  BY <1>10, <1>11, <1>12, <1>13, <1>14, <1>15, <1>16, <1>17, <1>18, <1>19, <1>20, <1>21,
  <1>22
  DEF IInv

-----------------------------------------------------------------------------
(* The inventory pass. *)

Items == [at : {"idle", "listed", "known", "unknown", "new", "rearm"},
          obj : Objects \cup {None}, of : Transfers \cup {None}]

LEMMA InventoryListStep ==
    ASSUME IInv, NEW o \in Objects, InventoryList(o)
    PROVE  IInv'
<1>0. TypeOK /\ Born /\ Bonds /\ Duties /\ Asked /\ Passes /\ Scans /\ Generations /\
      SoleOwner /\ FenceBound /\ Cleanly /\ Openly /\ Tracking
  BY DEF IInv
<1>1. /\ UNCHANGED <<status, source, retired, imported, mode, closing>>
      /\ UNCHANGED <<root, bound, spent, pin, attempt, pc, ans>>
      /\ UNCHANGED <<binding, latest, remote, made, blind, postdated>>
      /\ UNCHANGED <<settler, scanned, budget>>
  BY DEF InventoryList, Step, Upset, vars, work, torrents, requests, passes, resources,
         history, scans, tally
<1>2. /\ upsets' = upsets + 1
      /\ inv' = [NoItem EXCEPT !.at = "listed", !.obj = o]
  BY DEF InventoryList, Step, Upset
<1>10. TypeOK'
  <2>1. inv' \in Items
    BY <1>2 DEF Items, NoItem
  <2> QED
    BY <1>0, <1>1, <1>2, <2>1 DEF TypeOK, Authorities, Items
<1>11. Born' /\ Bonds' /\ Duties' /\ Asked' /\ Passes' /\ Generations' /\ SoleOwner' /\
       FenceBound' /\ Cleanly' /\ Openly' /\ Tracking'
  BY <1>0, <1>1, BornFrame, BondsFrame, DutiesFrame, AskedFrame, PassesFrame,
  GenerationsFrame, SoleOwnerFrame, FenceBoundFrame, CleanlyFrame, OpenlyFrame, TrackingFrame
<1>12. Scans'
  BY <1>0, <1>1, <1>2 DEF Scans, Bound, NoItem
<1> QED
  BY <1>10, <1>11, <1>12 DEF IInv

LEMMA InventoryKnownStep ==
    ASSUME IInv, NEW o \in Objects, InventoryKnown(o)
    PROVE  IInv'
<1>0. TypeOK /\ Born /\ Bonds /\ Duties /\ Asked /\ Passes /\ Scans /\ Generations /\
      SoleOwner /\ FenceBound /\ Cleanly /\ Openly /\ Tracking
  BY DEF IInv
<1>1. /\ UNCHANGED <<status, source, retired, imported, mode, closing>>
      /\ UNCHANGED <<root, bound, spent, pin, attempt, pc, ans>>
      /\ UNCHANGED <<binding, latest, remote, made, blind, postdated>>
      /\ UNCHANGED <<settler, scanned, upsets, budget>>
  BY DEF InventoryKnown, Looking, Step, vars, work, torrents, requests, passes, resources,
         history, scans, tally
<1>2. /\ inv.obj = o
      /\ \/ inv' = [inv EXCEPT !.at = "unknown"]
         \/ \E t \in Transfers : /\ Bound(t, o)
                                  /\ inv' = [inv EXCEPT !.at = "known", !.of = t]
  BY DEF InventoryKnown, Looking, Step
<1>3. inv \in Items
  BY <1>0 DEF TypeOK, Items
<1>10. TypeOK'
  <2>1. inv' \in Items
    BY <1>2, <1>3 DEF Items
  <2> QED
    BY <1>0, <1>1, <1>2, <2>1 DEF TypeOK, Authorities, Items
<1>11. Born' /\ Bonds' /\ Duties' /\ Asked' /\ Passes' /\ Generations' /\ SoleOwner' /\
       FenceBound' /\ Cleanly' /\ Openly' /\ Tracking'
  BY <1>0, <1>1, BornFrame, BondsFrame, DutiesFrame, AskedFrame, PassesFrame,
  GenerationsFrame, SoleOwnerFrame, FenceBoundFrame, CleanlyFrame, OpenlyFrame, TrackingFrame
<1>12. Scans'
  BY <1>0, <1>1, <1>2, <1>3 DEF Scans, Bound, Items
<1> QED
  BY <1>10, <1>11, <1>12 DEF IInv

LEMMA InventoryHistoryStep ==
    ASSUME IInv, NEW o \in Objects, InventoryHistory(o)
    PROVE  IInv'
<1>0. TypeOK /\ Born /\ Bonds /\ Duties /\ Asked /\ Passes /\ Scans /\ Generations /\
      SoleOwner /\ FenceBound /\ Cleanly /\ Openly /\ Tracking
  BY DEF IInv
<1>1. /\ UNCHANGED <<status, source, retired, imported, mode, closing>>
      /\ UNCHANGED <<root, bound, spent, pin, attempt, pc, ans>>
      /\ UNCHANGED <<binding, latest, remote, made, blind, postdated>>
      /\ UNCHANGED <<settler, scanned, upsets, budget>>
  BY DEF InventoryHistory, Looking, Step, vars, work, torrents, requests, passes, resources,
         history, scans, tally
<1>2. /\ inv.obj = o
      /\ \/ inv' \in {[inv EXCEPT !.at = "new"], NoItem}
         \/ latest[o] # None /\ inv' = [inv EXCEPT !.at = "rearm", !.of = latest[o]]
  BY DEF InventoryHistory, Looking, Step
<1>3. inv \in Items /\ latest[o] \in Transfers \cup {None}
  BY <1>0 DEF TypeOK, Items
<1>4. /\ inv' \in Items
      /\ inv'.at \in {"known", "rearm"} =>
           inv'.obj = o /\ inv'.of = latest[o] /\ latest[o] # None
  <2>1. CASE inv' = [inv EXCEPT !.at = "new"]
    BY <1>3, <2>1 DEF Items
  <2>2. CASE inv' = NoItem
    BY <2>2 DEF Items, NoItem
  <2>3. CASE latest[o] # None /\ inv' = [inv EXCEPT !.at = "rearm", !.of = latest[o]]
    BY <1>2, <1>3, <2>3 DEF Items
  <2> QED
    BY <1>2, <2>1, <2>2, <2>3
<1>5. latest[o] # None => Bound(latest[o], o)
  BY <1>0 DEF Bonds, Lately
<1>10. TypeOK'
  <2>1. inv' \in Items
    BY <1>4 DEF Items
  <2> QED
    BY <1>0, <1>1, <1>2, <2>1 DEF TypeOK, Authorities, Items
<1>11. Born' /\ Bonds' /\ Duties' /\ Asked' /\ Passes' /\ Generations' /\ SoleOwner' /\
       FenceBound' /\ Cleanly' /\ Openly' /\ Tracking'
  BY <1>0, <1>1, BornFrame, BondsFrame, DutiesFrame, AskedFrame, PassesFrame,
  GenerationsFrame, SoleOwnerFrame, FenceBoundFrame, CleanlyFrame, OpenlyFrame, TrackingFrame
<1>12. Scans'
  <2>1. inv'.at \in {"known", "rearm"} =>
          inv'.of \in Transfers /\ inv'.obj \in Objects /\ Bound(inv'.of, inv'.obj)
    BY <1>3, <1>4, <1>5
  <2> QED
    BY <1>0, <1>1, <2>1 DEF Scans, Bound
<1> QED
  BY <1>10, <1>11, <1>12 DEF IInv

LEMMA InventoryDropStep ==
    ASSUME IInv, NEW o \in Objects, InventoryDrop(o)
    PROVE  IInv'
<1>0. TypeOK /\ Born /\ Bonds /\ Duties /\ Asked /\ Passes /\ Scans /\ Generations /\
      SoleOwner /\ FenceBound /\ Cleanly /\ Openly /\ Tracking
  BY DEF IInv
<1>1. /\ UNCHANGED <<status, source, retired, imported, mode, closing>>
      /\ UNCHANGED <<root, bound, spent, pin, attempt, pc, ans>>
      /\ UNCHANGED <<binding, latest, remote, made, blind, postdated>>
      /\ UNCHANGED <<settler, scanned, upsets, budget>>
  BY DEF InventoryDrop, Step, vars, work, torrents, requests, passes, resources, history,
         scans, tally
<1>2. inv' = NoItem
  BY DEF InventoryDrop, Step
<1>10. TypeOK'
  BY <1>0, <1>1, <1>2 DEF TypeOK, Authorities, NoItem
<1>11. Born' /\ Bonds' /\ Duties' /\ Asked' /\ Passes' /\ Generations' /\ SoleOwner' /\
       FenceBound' /\ Cleanly' /\ Openly' /\ Tracking'
  BY <1>0, <1>1, BornFrame, BondsFrame, DutiesFrame, AskedFrame, PassesFrame,
  GenerationsFrame, SoleOwnerFrame, FenceBoundFrame, CleanlyFrame, OpenlyFrame, TrackingFrame
<1>12. Scans'
  BY <1>0, <1>1, <1>2 DEF Scans, Bound, NoItem
<1> QED
  BY <1>10, <1>11, <1>12 DEF IInv

LEMMA InventoryObserveStep ==
    ASSUME IInv, NEW o \in Objects, InventoryObserve(o)
    PROVE  IInv'
<1>0. TypeOK /\ Born /\ Bonds /\ Duties /\ Asked /\ Passes /\ Scans /\ Generations /\
      SoleOwner /\ FenceBound /\ Cleanly /\ Openly /\ Tracking
  BY DEF IInv
<1>1. /\ UNCHANGED <<status, source, retired, imported, mode, closing>>
      /\ UNCHANGED <<root, bound, spent, pin, attempt, pc, ans>>
      /\ UNCHANGED <<latest, remote, made, blind>>
      /\ UNCHANGED <<settler, scanned, upsets, budget>>
  BY DEF InventoryObserve, Looking, Step, vars, work, torrents, requests, passes, resources,
         history, scans, tally
<1>2. /\ inv.at = "known" /\ inv.obj = o /\ inv' = NoItem
      /\ binding' = Upsert(inv.of, o, FALSE)
      /\ Postdate(inv.of, {o})
  BY DEF InventoryObserve, Looking, Step
<1>3. inv.of \in Transfers /\ Bound(inv.of, o)
  BY <1>0, <1>2 DEF Scans
<1>4. PICK t \in Transfers : t = inv.of
  BY <1>3
<1>5. /\ binding' \in [Transfers -> [Objects -> Rows]]
      /\ binding'[t][o].state = "available" /\ binding'[t][o].owed = binding[t][o].owed
      /\ binding'[t][o].call = binding[t][o].call
      /\ Owed(t, o) => binding'[t][o].abandoned = binding[t][o].abandoned
      /\ \A x \in Transfers, y \in Objects :
           x # t \/ y # o => binding'[x][y] = binding[x][y]
  <2>1. binding' = Upsert(t, o, FALSE) /\ FALSE \in BOOLEAN
    BY <1>2, <1>4
  <2> QED
    BY <1>0, <2>1, UpsertEffect, ZenonT(60)
<1>6. Postdate(t, {o}) /\ Bound(t, o)
  BY <1>2, <1>3, <1>4
<1>7. \A x \in Transfers, y \in Objects :
        /\ binding'[x][y].owed = binding[x][y].owed /\ binding'[x][y].call = binding[x][y].call
        /\ Owed(x, y) => binding'[x][y].abandoned = binding[x][y].abandoned
  BY <1>5
<1>9. SameBonds
  BY <1>5, <1>6 DEF SameBonds, Bound
<1>10. TypeOK'
  <2>1. postdated' \in [Transfers -> SUBSET Bindings]
    BY <1>0, <1>6, PostdateEffect
  <2> QED
    BY <1>0, <1>1, <1>2, <1>5, <2>1
    DEF TypeOK, Authorities, Rows, Calls, NoItem
<1>11. Generations' /\ Openly'
  BY <1>0, <1>1, GenerationsFrame, OpenlyFrame
<1>12. Born'
  BY <1>0, <1>1, <1>9, BornSame
<1>13. Bonds'
  BY <1>0, <1>1, <1>9, BondsSame
<1>14. Duties'
  BY <1>0, <1>7, <1>9 DEF Duties, SameBonds, Owed
<1>15. Asked'
  BY <1>0, <1>1, <1>7 DEF Asked, AskedFor
<1>16. Passes'
  BY <1>0, <1>1, <1>9, PassesMore, MoreOfSame
<1>17. Scans'
  BY <1>0, <1>1, <1>2, <1>9 DEF Scans, Bound, SameBonds, NoItem
<1>18. SoleOwner'
  BY <1>0, <1>1, <1>9, SoleOwnerSame
<1>19. FenceBound'
  <2>1. \A x \in Transfers : FenceRead(x)' = FenceRead(x)
    BY <1>1 DEF FenceRead, Live
  <2>2. \A p \in Transfers, y \in Objects :
          Outstanding(p, y)' => Outstanding(p, y) \/ (p = t /\ y \in {o})
    BY <1>5 DEF Outstanding, Owed
  <2> QED
    BY <1>0, <1>1, <1>6, <2>1, <2>2, FencePostdated
<1>20. Cleanly'
  BY <1>0, <1>1, <1>9, CleanlyMore, MoreOfSame
<1>21. Tracking'
  BY <1>0, <1>1, <1>9, TrackingMore, MoreOfSame
<1> QED
  BY <1>10, <1>11, <1>12, <1>13, <1>14, <1>15, <1>16, <1>17, <1>18, <1>19, <1>20, <1>21
  DEF IInv

LEMMA InventoryRearmStep ==
    ASSUME IInv, NEW o \in Objects, InventoryRearm(o)
    PROVE  IInv'
<1>0. TypeOK /\ Born /\ Bonds /\ Duties /\ Asked /\ Passes /\ Scans /\ Generations /\
      SoleOwner /\ FenceBound /\ Cleanly /\ Openly /\ Tracking
  BY DEF IInv
<1>1. /\ UNCHANGED <<status, source, retired, imported, mode, closing>>
      /\ UNCHANGED <<root, bound, spent, pin, attempt, pc, ans>>
      /\ UNCHANGED <<latest, remote, made, blind>>
      /\ UNCHANGED <<settler, scanned, upsets, budget>>
  BY DEF InventoryRearm, Looking, Step, vars, work, torrents, requests, passes, resources,
         history, scans, tally
<1>2. inv.at = "rearm" /\ inv.obj = o /\ inv' = NoItem
  BY DEF InventoryRearm, Looking, Step
<1>3. inv.of \in Transfers /\ Bound(inv.of, o)
  BY <1>0, <1>2 DEF Scans
<1>4. PICK t \in Transfers : t = inv.of
  BY <1>3
<1>5. \/ /\ binding[t][o].call = "none" /\ Postdate(t, {o})
         /\ binding' = Intend(Upsert(t, o, FALSE), t, {o}, Authority(t))
      \/ UNCHANGED <<binding, postdated>>
  BY <1>4 DEF InventoryRearm
<1>6. /\ binding' \in [Transfers -> [Objects -> Rows]]
      /\ \/ binding'[t][o] = binding[t][o]
         \/ /\ binding'[t][o].state = "available" /\ binding'[t][o].owed = Authority(t)
            /\ binding'[t][o].call = "none" /\ Postdate(t, {o})
      /\ \A x \in Transfers, y \in Objects :
           x # t \/ y # o => binding'[x][y] = binding[x][y]
  <2>1. Authority(t) \in Authorities /\ binding \in [Transfers -> [Objects -> Rows]]
    BY <1>0, Types
  <2>2. CASE UNCHANGED <<binding, postdated>>
    BY <2>1, <2>2
  <2>3. CASE ~UNCHANGED <<binding, postdated>>
    <3>1. PICK a \in Authorities : a = Authority(t)
      BY <2>1
    <3>2. binding' = Intend(Upsert(t, o, FALSE), t, {o}, a) /\ FALSE \in BOOLEAN
      BY <1>5, <2>3, <3>1
    <3>3. binding[t][o].call = "none" /\ Postdate(t, {o})
      BY <1>5, <2>3
    <3>4. /\ binding' \in [Transfers -> [Objects -> Rows]]
          /\ binding'[t][o].state = "available" /\ binding'[t][o].owed = a
          /\ binding'[t][o].call = binding[t][o].call
          /\ \A x \in Transfers, y \in Objects :
               x # t \/ y # o => binding'[x][y] = binding[x][y]
      BY <1>0, <3>2, RenewEffect
    <3> QED
      BY <3>1, <3>3, <3>4
  <2> QED
    BY <2>2, <2>3
<1>7. Bound(t, o)
  BY <1>3, <1>4
<1>9. SameBonds
  BY <1>6, <1>7 DEF SameBonds, Bound
<1>10. TypeOK'
  <2>1. postdated' \in [Transfers -> SUBSET Bindings]
    BY <1>0, <1>5, PostdateEffect DEF TypeOK
  <2> QED
    BY <1>0, <1>1, <1>2, <1>6, <2>1
    DEF TypeOK, Authorities, Rows, Calls, NoItem
<1>11. Generations' /\ Openly'
  BY <1>0, <1>1, GenerationsFrame, OpenlyFrame
<1>12. Born'
  BY <1>0, <1>1, <1>9, BornSame
<1>13. Bonds'
  BY <1>0, <1>1, <1>9, BondsSame
<1>14. Duties'
  BY <1>0, <1>1, <1>2, <1>6, <1>7 DEF Duties, Owed, Bound
<1>15. Asked'
  BY <1>0, <1>1, <1>6, NoneAssumption DEF Asked, AskedFor, Authority
<1>16. Passes'
  BY <1>0, <1>1, <1>9, PassesMore, MoreOfSame
<1>17. Scans'
  BY <1>0, <1>1, <1>2, <1>9 DEF Scans, Bound, SameBonds, NoItem
<1>18. SoleOwner'
  BY <1>0, <1>1, <1>9, SoleOwnerSame
<1>19. FenceBound'
  <2>1. \A x \in Transfers : FenceRead(x)' = FenceRead(x)
    BY <1>1 DEF FenceRead, Live
  <2>2. CASE UNCHANGED <<binding, postdated>>
    BY <1>0, <1>1, <2>2, FenceBoundFrame
  <2>3. CASE Postdate(t, {o})
    <3>1. \A p \in Transfers, y \in Objects :
            Outstanding(p, y)' => Outstanding(p, y) \/ (p = t /\ y \in {o})
      BY <1>6 DEF Outstanding, Owed
    <3> QED
      BY <1>0, <1>1, <2>1, <2>3, <3>1, FencePostdated
  <2> QED
    BY <1>5, <2>2, <2>3
<1>20. Cleanly'
  BY <1>0, <1>1, <1>9, CleanlyMore, MoreOfSame
<1>21. Tracking'
  BY <1>0, <1>1, <1>9, TrackingMore, MoreOfSame
<1> QED
  BY <1>10, <1>11, <1>12, <1>13, <1>14, <1>15, <1>16, <1>17, <1>18, <1>19, <1>20, <1>21
  DEF IInv

LEMMA CloseCleanupStep ==
    ASSUME IInv, NEW t \in Transfers, NEW c \in Closers, CloseCleanup(t, c)
    PROVE  IInv'
<1>0. TypeOK /\ Born /\ Bonds /\ Duties /\ Asked /\ Passes /\ Scans /\ Generations /\
      SoleOwner /\ FenceBound /\ Cleanly /\ Openly /\ Tracking
  BY DEF IInv
<1>1. /\ UNCHANGED <<status, source, retired, imported, mode>>
      /\ UNCHANGED <<root, bound, spent, pin, attempt, pc, ans>>
      /\ UNCHANGED <<latest, remote, made, blind>>
      /\ UNCHANGED <<inv, settler, scanned, upsets, budget>>
  BY DEF CloseCleanup, vars, work, torrents, requests, passes, resources, history, scans,
         tally
<1> DEFINE S == Closable(t, closing[t][c])
<1>2. /\ closing[t][c] # None /\ closing' = [closing EXCEPT ![t][c] = None]
      /\ binding' = Intend(binding, t, S, closing[t][c]) /\ Postdate(t, S)
  BY DEF CloseCleanup
<1>4. S \subseteq Objects /\ \A y \in S : Bound(t, y)
  BY DEF Bound, Closable
<1>3. closing[t][c] \in Authorities /\ binding \in [Transfers -> [Objects -> Rows]]
  BY <1>0, Types DEF TypeOK, Authorities
<1> HIDE DEF S
<1>5. /\ binding' \in [Transfers -> [Objects -> Rows]]
      /\ \A x \in Transfers, y \in Objects : x # t \/ y \notin S => binding'[x][y] = binding[x][y]
      /\ \A y \in Objects \cap S :
           /\ binding'[t][y].owed = closing[t][c] /\ ~binding'[t][y].abandoned
           /\ binding'[t][y].state = binding[t][y].state
           /\ binding'[t][y].owned = binding[t][y].owned
           /\ binding'[t][y].call = binding[t][y].call
  BY <1>2, <1>3, IntendEffect
<1>9. SameBonds
  BY <1>5 DEF SameBonds, Bound
<1>10. TypeOK'
  <2>1. postdated' \in [Transfers -> SUBSET Bindings]
    BY <1>0, <1>2, <1>4, PostdateEffect
  <2>2. closing' \in [Transfers -> [Closers -> Authorities]]
    BY <1>0, <1>2 DEF TypeOK, Authorities
  <2> QED
    BY <1>0, <1>1, <1>5, <2>1, <2>2 DEF TypeOK, Authorities, Rows, Calls
<1>11. Generations' /\ Openly'
  BY <1>0, <1>1, GenerationsFrame, OpenlyFrame
<1>12. Born'
  BY <1>0, <1>1, <1>2, <1>9 DEF Born, Unborn, Bound, SameBonds
<1>13. Bonds'
  BY <1>0, <1>1, <1>9, BondsSame
<1>14. Duties'
  BY <1>0, <1>1, <1>2, <1>4, <1>5, <1>9 DEF Duties, Owed, Bound, SameBonds
<1>15. Asked'
  <2>1. \A x \in Transfers, d \in Closers : closing'[x][d] = "user" => closing[x][d] = "user"
    BY <1>0, <1>2, NoneAssumption DEF TypeOK
  <2>2. closing[t][c] = "user" => AskedFor(t)
    BY <1>0 DEF Asked
  <2>3. \A x \in Transfers, y \in Objects :
          binding'[x][y].owed = "user" \/ binding'[x][y].call = "user" => AskedFor(x)
    BY <1>0, <1>5, <2>2 DEF Asked
  <2> QED
    BY <1>0, <1>1, <2>1, <2>3 DEF Asked, AskedFor
<1>16. Passes'
  BY <1>0, <1>1, <1>9, PassesMore, MoreOfSame
<1>17. Scans'
  BY <1>0, <1>1, <1>9, ScansMore, MoreOfSame
<1>18. SoleOwner'
  BY <1>0, <1>1, <1>9, SoleOwnerSame
<1>19. FenceBound'
  <2>1. \A x \in Transfers : FenceRead(x)' = FenceRead(x)
    BY <1>1 DEF FenceRead, Live
  <2>2. \A p \in Transfers, y \in Objects :
          Outstanding(p, y)' => Outstanding(p, y) \/ (p = t /\ y \in S)
    BY <1>5 DEF Outstanding, Owed
  <2> QED
    BY <1>0, <1>1, <1>2, <1>4, <2>1, <2>2, FencePostdated
<1>20. Cleanly'
  BY <1>0, <1>1, <1>9, CleanlyMore, MoreOfSame
<1>21. Tracking'
  BY <1>0, <1>1, <1>9, TrackingMore, MoreOfSame
<1> QED
  BY <1>10, <1>11, <1>12, <1>13, <1>14, <1>15, <1>16, <1>17, <1>18, <1>19, <1>20, <1>21
  DEF IInv

LEMMA AdmitFencedStep ==
    ASSUME IInv, NEW t \in Transfers, NEW o \in Objects, InventoryAdmit(t, o), FencedAs(t, Listed)
    PROVE  IInv'
<1>0. TypeOK /\ Born /\ Bonds /\ Duties /\ Asked /\ Passes /\ Scans /\ Generations /\
      SoleOwner /\ FenceBound /\ Cleanly /\ Openly /\ Tracking
  BY DEF IInv
<1>1. /\ UNCHANGED <<retired, mode, closing>>
      /\ UNCHANGED <<root, bound, spent, pin, attempt, pc, ans>>
      /\ UNCHANGED <<binding, latest, remote, made, blind, postdated>>
      /\ UNCHANGED <<settler, scanned, upsets, budget>>
  BY DEF InventoryAdmit, Looking, Step, NextId, Holders, vars, work, torrents, requests,
         passes, resources, history, scans, tally
<1>2. /\ status[t] = "unborn" /\ latest[o] = None
      /\ status' = [status EXCEPT ![t] = "live"]
      /\ source' = [source EXCEPT ![t] = Listed]
      /\ imported' = [imported EXCEPT ![t] = TRUE]
      /\ inv' = NoItem
      /\ \A h \in Transfers : status[h] # "unborn" /\ ~retired[h] => source[h] # Listed
  BY DEF InventoryAdmit, Looking, Step, NextId, Holders
<1>3. /\ bound[t] = None /\ spent[t] = 0 /\ pc[t] = "idle" /\ root[t] = "pending" /\ ~retired[t]
      /\ \A y \in Objects : ~Bound(t, y)
  BY <1>0, <1>2 DEF Born, Unborn
<1>4. /\ status' = [status EXCEPT ![t] = "live"] /\ source' = [source EXCEPT ![t] = Listed]
      /\ \A x \in Transfers \ {t} : status'[x] = status[x] /\ source'[x] = source[x]
      /\ status'[t] = "live" /\ source'[t] = Listed
  BY <1>0, <1>2 DEF TypeOK
<1>5. settler.t # t
  BY <1>0, <1>2, NoneAssumption DEF Scans
<1>10. TypeOK'
  BY <1>0, <1>1, <1>2, ListedAssumption DEF TypeOK, Authorities, NoItem
<1>11. Bonds' /\ Duties' /\ Passes' /\ Cleanly' /\ Openly' /\ Tracking'
  BY <1>0, <1>1, BondsFrame, DutiesFrame, PassesFrame, CleanlyFrame, OpenlyFrame,
  TrackingFrame
<1>12. Born'
  BY <1>0, <1>1, <1>4 DEF Born, Unborn, Bound
<1>13. Asked'
  BY <1>0, <1>1, <1>2, <1>4 DEF Asked, AskedFor
<1>14. Scans'
  BY <1>0, <1>1, <1>2, <1>4, <1>5 DEF Scans, NoItem, Bound
<1>15. Generations'
  <2>1. \A x \in Transfers : (Live(x)' => ~retired'[x]) /\ (status'[x] = "deleted" => retired'[x])
    BY <1>0, <1>1, <1>3, <1>4 DEF Generations, Live
  <2>2. \A x \in Transfers \ {t} : status'[x] # "unborn" /\ ~retired'[x] => source'[x] # Listed
    BY <1>1, <1>2, <1>4
  <2> QED
    BY <1>0, <1>1, <1>4, <2>1, <2>2 DEF Generations
<1>16. SoleOwner'
  BY <1>0, <1>1, <1>3, <1>4 DEF SoleOwner, Live, Bound
<1>17. FenceBound'
  <2>1. ~FenceRead(t)'
    BY <1>1, <1>3 DEF FenceRead
  <2>2. \A x \in Transfers \ {t} : FenceRead(x)' = FenceRead(x)
    BY <1>1, <1>4 DEF FenceRead, Live
  <2>3. \A x, p \in Transfers : x # t /\ Precedes(p, x)' => Precedes(p, x)
    BY <1>1, <1>3, <1>4 DEF Precedes
  <2>4. \A p \in Transfers, y \in Objects : Outstanding(p, y)' = Outstanding(p, y)
    BY <1>1 DEF Outstanding, Owed
  <2> QED
    BY <1>0, <1>1, <2>1, <2>2, <2>3, <2>4 DEF FenceBound
<1> QED
  BY <1>10, <1>11, <1>12, <1>13, <1>14, <1>15, <1>16, <1>17 DEF IInv

LEMMA AdmitBoundStep ==
    ASSUME IInv, NEW t \in Transfers, NEW o \in Objects, InventoryAdmit(t, o), ~FencedAs(t, Listed)
    PROVE  IInv'
<1>0. TypeOK /\ Born /\ Bonds /\ Duties /\ Asked /\ Passes /\ Scans /\ Generations /\
      SoleOwner /\ FenceBound /\ Cleanly /\ Openly /\ Tracking
  BY DEF IInv
<1>1. /\ UNCHANGED <<retired, mode, closing>>
      /\ UNCHANGED <<spent, pin, attempt, pc, ans>>
      /\ UNCHANGED <<remote, made, blind>>
      /\ UNCHANGED <<settler, scanned, upsets, budget>>
  BY DEF InventoryAdmit, Looking, Step, NextId, Holders, vars, work, torrents, requests,
         passes, resources, history, scans, tally
<1>2. /\ status[t] = "unborn" /\ latest[o] = None
      /\ status' = [status EXCEPT ![t] = "live"]
      /\ source' = [source EXCEPT ![t] = Listed]
      /\ imported' = [imported EXCEPT ![t] = TRUE]
      /\ inv' = NoItem
      /\ \A h \in Transfers : status[h] # "unborn" /\ ~retired[h] => source[h] # Listed
  BY DEF InventoryAdmit, Looking, Step, NextId, Holders
<1>3. /\ bound[t] = None /\ spent[t] = 0 /\ pc[t] = "idle" /\ root[t] = "pending" /\ ~retired[t]
      /\ \A y \in Objects : ~Bound(t, y)
  BY <1>0, <1>2 DEF Born, Unborn
<1>4. /\ status' = [status EXCEPT ![t] = "live"] /\ source' = [source EXCEPT ![t] = Listed]
      /\ \A x \in Transfers \ {t} : status'[x] = status[x] /\ source'[x] = source[x]
      /\ status'[t] = "live" /\ source'[t] = Listed
  BY <1>0, <1>2 DEF TypeOK
<1>5. settler.t # t
  BY <1>0, <1>2, NoneAssumption DEF Scans
<1>6. /\ binding' = Upsert(t, o, FALSE) /\ BindLatest(t, o) /\ Forget(t)
      /\ root' = [root EXCEPT ![t] = "waiting"] /\ bound' = [bound EXCEPT ![t] = o]
  BY DEF InventoryAdmit, Import
<1>7. /\ binding' \in [Transfers -> [Objects -> Rows]]
      /\ binding'[t][o].state = "available" /\ binding'[t][o].owed = binding[t][o].owed
      /\ binding'[t][o].call = binding[t][o].call
      /\ Owed(t, o) => binding'[t][o].abandoned = binding[t][o].abandoned
      /\ \A x \in Transfers, y \in Objects :
           x # t \/ y # o => binding'[x][y] = binding[x][y]
  <2>1. binding' = Upsert(t, o, FALSE) /\ FALSE \in BOOLEAN
    BY <1>6
  <2> QED
    BY <1>0, <2>1, UpsertEffect, ZenonT(60)
<1>8. \A x \in Transfers, y \in Objects :
        /\ binding'[x][y].owed = binding[x][y].owed /\ binding'[x][y].call = binding[x][y].call
        /\ Owed(x, y) => binding'[x][y].abandoned = binding[x][y].abandoned
        /\ x # t \/ y # o => (Bound(x, y)' <=> Bound(x, y))
  BY <1>7 DEF Bound
<1>9. MoreBonds /\ Bound(t, o)'
  BY <1>7, <1>8 DEF MoreBonds, Bound
<1>9a. latest' \in [Objects -> Transfers \cup {None}] /\ Lately'
  BY <1>0, <1>6, <1>8, <1>9, BindEffect
<1>9b. /\ \A x \in Transfers \ {t} : /\ root'[x] = root[x] /\ bound'[x] = bound[x]
                                     /\ postdated'[x] = postdated[x]
       /\ root'[t] = "waiting" /\ bound'[t] = o
       /\ root' \in [Transfers -> {"pending", "resolving", "waiting", "failed"}]
       /\ bound' \in [Transfers -> Objects \cup {None}]
       /\ postdated' \in [Transfers -> SUBSET Bindings]
  BY <1>0, <1>6 DEF TypeOK, Forget
<1>10. TypeOK'
  BY <1>0, <1>1, <1>2, <1>7, <1>9a, <1>9b, ListedAssumption
  DEF TypeOK, Authorities, NoItem, Rows, Calls
<1>11. Openly'
  BY <1>0, <1>1, OpenlyFrame
<1>12. Born'
  <2>1. \A x \in Transfers \ {t}, y \in Objects : Bound(x, y)' <=> Bound(x, y)
    BY <1>8
  <2> QED
    BY <1>0, <1>1, <1>4, <1>9b, <2>1 DEF Born, Unborn
<1>13. Bonds'
  <2>1. \A x \in Transfers, y \in Objects : bound'[x] = y => Bound(x, y)'
    BY <1>0, <1>9, <1>9b DEF Bonds, MoreBonds
  <2>2. \A x \in Transfers : root'[x] = "waiting" => bound'[x] # None
    BY <1>0, <1>9b, ObjectsAssumption DEF Bonds
  <2> QED
    BY <1>9a, <2>1, <2>2 DEF Bonds
<1>14. Duties'
  BY <1>0, <1>8, <1>9 DEF Duties, MoreBonds, Owed
<1>15. Asked'
  BY <1>0, <1>1, <1>2, <1>4, <1>8 DEF Asked, AskedFor
<1>16. Passes'
  BY <1>0, <1>1, <1>3, <1>9, <1>9b DEF Passes, Pass, MoreBonds
<1>17. Scans'
  BY <1>0, <1>1, <1>2, <1>4, <1>5 DEF Scans, NoItem
<1>18. Generations'
  <2>1. \A x \in Transfers : (Live(x)' => ~retired'[x]) /\ (status'[x] = "deleted" => retired'[x])
    BY <1>0, <1>1, <1>3, <1>4 DEF Generations, Live
  <2>2. \A x \in Transfers \ {t} : status'[x] # "unborn" /\ ~retired'[x] => source'[x] # Listed
    BY <1>1, <1>2, <1>4
  <2> QED
    BY <1>0, <1>1, <1>4, <2>1, <2>2 DEF Generations
<1>19. SoleOwner'
  <2>1. \A x \in Transfers : ~Bound(x, o)
    BY <1>0, <1>2 DEF Bonds, Lately
  <2> QED
    BY <1>0, <1>3, <1>4, <1>8, <2>1 DEF SoleOwner, Live
<1>20. FenceBound'
  <2>1. \A x \in Transfers \ {t} :
          /\ source'[x] = source[x] /\ (FenceRead(x)' => FenceRead(x))
          /\ postdated[x] \subseteq postdated'[x]
    BY <1>1, <1>4, <1>9b DEF FenceRead, Live
  <2>2. \A p \in Transfers, y \in Objects : Outstanding(p, y)' => Outstanding(p, y)
    BY <1>0, <1>3, <1>7, <1>8 DEF Outstanding, Owed, Duties
  <2>3. ~FencedAs(t, source'[t]) /\ \A x \in Transfers : retired'[x] = retired[x]
    BY <1>1, <1>4
  <2> QED
    BY <1>0, <1>3, <2>1, <2>2, <2>3, FenceReadNow
<1>21. Cleanly'
  <2>1. ~Open(t)'
    BY <1>1, <1>3 DEF Open
  <2> QED
    BY <1>0, <1>1, <1>9, <1>9b, <2>1 DEF Cleanly, Clean, Open, Current, MoreBonds
<1>22. Tracking'
  BY <1>0, <1>1, <1>9, TrackingMore
<1> QED
  BY <1>10, <1>11, <1>12, <1>13, <1>14, <1>15, <1>16, <1>17, <1>18, <1>19, <1>20, <1>21,
  <1>22
  DEF IInv

LEMMA InventoryAdoptStep ==
    ASSUME IInv, NEW t \in Transfers, NEW o \in Objects, InventoryAdopt(t, o)
    PROVE  IInv'
<1>0. TypeOK /\ Born /\ Bonds /\ Duties /\ Asked /\ Passes /\ Scans /\ Generations /\
      SoleOwner /\ FenceBound /\ Cleanly /\ Openly /\ Tracking
  BY DEF IInv
<1>1. /\ UNCHANGED <<status, source, retired, imported, mode, closing>>
      /\ UNCHANGED <<spent, pin, attempt, pc, ans>>
      /\ UNCHANGED <<remote, made, blind>>
      /\ UNCHANGED <<settler, scanned, upsets, budget>>
  BY DEF InventoryAdopt, Looking, Step, Live, Fenced, vars, work, torrents, requests, passes,
         resources, history, scans, tally
<1>2. /\ status[t] = "live" /\ inv' = NoItem
      /\ \A u \in Transfers \ {t} : ~Bound(u, o)
      /\ ~FencedAs(t, source[t])
  BY DEF InventoryAdopt, Looking, Step, Live, Fenced
<1>6. /\ binding' = Upsert(t, o, FALSE) /\ BindLatest(t, o) /\ Forget(t)
      /\ root' = [root EXCEPT ![t] = "waiting"] /\ bound' = [bound EXCEPT ![t] = o]
  BY DEF InventoryAdopt, Import
<1>7. /\ binding' \in [Transfers -> [Objects -> Rows]]
      /\ binding'[t][o].state = "available" /\ binding'[t][o].owed = binding[t][o].owed
      /\ binding'[t][o].call = binding[t][o].call
      /\ Owed(t, o) => binding'[t][o].abandoned = binding[t][o].abandoned
      /\ \A x \in Transfers, y \in Objects :
           x # t \/ y # o => binding'[x][y] = binding[x][y]
  <2>1. binding' = Upsert(t, o, FALSE) /\ FALSE \in BOOLEAN
    BY <1>6
  <2> QED
    BY <1>0, <2>1, UpsertEffect, ZenonT(60)
<1>8. \A x \in Transfers, y \in Objects :
        /\ binding'[x][y].owed = binding[x][y].owed /\ binding'[x][y].call = binding[x][y].call
        /\ Owed(x, y) => binding'[x][y].abandoned = binding[x][y].abandoned
        /\ x # t \/ y # o => (Bound(x, y)' <=> Bound(x, y))
  BY <1>7 DEF Bound
<1>9. MoreBonds /\ Bound(t, o)'
  BY <1>7, <1>8 DEF MoreBonds, Bound
<1>9a. latest' \in [Objects -> Transfers \cup {None}] /\ Lately'
  BY <1>0, <1>6, <1>8, <1>9, BindEffect
<1>9b. /\ \A x \in Transfers \ {t} : /\ root'[x] = root[x] /\ bound'[x] = bound[x]
                                     /\ postdated'[x] = postdated[x]
       /\ root'[t] = "waiting" /\ bound'[t] = o
       /\ root' \in [Transfers -> {"pending", "resolving", "waiting", "failed"}]
       /\ bound' \in [Transfers -> Objects \cup {None}]
       /\ postdated' \in [Transfers -> SUBSET Bindings]
  BY <1>0, <1>6 DEF TypeOK, Forget
<1>10. TypeOK'
  BY <1>0, <1>1, <1>2, <1>7, <1>9a, <1>9b DEF TypeOK, Authorities, NoItem, Rows, Calls
<1>11. Generations' /\ Openly'
  BY <1>0, <1>1, GenerationsFrame, OpenlyFrame
<1>12. Born'
  <2>1. \A x \in Transfers \ {t}, y \in Objects : Bound(x, y)' <=> Bound(x, y)
    BY <1>8
  <2> QED
    BY <1>0, <1>1, <1>2, <1>9b, <2>1 DEF Born, Unborn
<1>13. Bonds'
  <2>1. \A x \in Transfers, y \in Objects : bound'[x] = y => Bound(x, y)'
    BY <1>0, <1>9, <1>9b DEF Bonds, MoreBonds
  <2>2. \A x \in Transfers : root'[x] = "waiting" => bound'[x] # None
    BY <1>0, <1>9b, ObjectsAssumption DEF Bonds
  <2> QED
    BY <1>9a, <2>1, <2>2 DEF Bonds
<1>14. Duties'
  BY <1>0, <1>8, <1>9 DEF Duties, MoreBonds, Owed
<1>15. Asked'
  BY <1>0, <1>1, <1>2, <1>8 DEF Asked, AskedFor
<1>16. Passes'
  BY <1>0, <1>1, <1>9, <1>9b, ObjectsAssumption DEF Passes, Pass, MoreBonds
<1>17. Scans'
  BY <1>0, <1>1, <1>2 DEF Scans, NoItem
<1>18. SoleOwner'
  BY <1>0, <1>1, <1>2, <1>8 DEF SoleOwner, Live
<1>19. FenceBound'
  <2>1. \A x \in Transfers \ {t} :
          /\ source'[x] = source[x] /\ (FenceRead(x)' => FenceRead(x))
          /\ postdated[x] \subseteq postdated'[x]
    BY <1>1, <1>9b DEF FenceRead, Live
  <2>2. \A p \in Transfers, y \in Objects : p # t /\ Outstanding(p, y)' => Outstanding(p, y)
    BY <1>7 DEF Outstanding, Owed
  <2>3. /\ ~FencedAs(t, source'[t]) /\ \A x \in Transfers : retired'[x] = retired[x]
        /\ ~retired[t]
    BY <1>0, <1>1, <1>2 DEF Generations, Live
  <2> QED
    BY <1>0, <2>1, <2>2, <2>3, FenceReadNow
<1>20. Cleanly'
  BY <1>0, <1>1, <1>9, <1>9b DEF Cleanly, Clean, Open, Current, MoreBonds
<1>21. Tracking'
  BY <1>0, <1>1, <1>9, TrackingMore
<1> QED
  BY <1>10, <1>11, <1>12, <1>13, <1>14, <1>15, <1>16, <1>17, <1>18, <1>19, <1>20, <1>21
  DEF IInv

-----------------------------------------------------------------------------
(* The resolution pass: a step of one root. *)

\* What the step of a root leaves alone: everybody else's, and what the provider holds.
Others(t) ==
    /\ UNCHANGED <<status, source, retired, mode, settler, scanned>>
    /\ remote \subseteq remote'
    /\ \A x \in Transfers \ {t} :
         /\ root'[x] = root[x] /\ bound'[x] = bound[x] /\ spent'[x] = spent[x]
         /\ attempt'[x] = attempt[x] /\ pc'[x] = pc[x] /\ ans'[x] = ans[x]
         /\ closing'[x] = closing[x] /\ (x \in blind => x \in blind')
         /\ \A o \in Objects : /\ Bound(x, o)' <=> Bound(x, o)
                               /\ <<x, o>> \in made' => <<x, o>> \in made

LEMMA BornOf ==
    ASSUME Born, NEW t \in Transfers, Others(t), status[t] # "unborn"
    PROVE  Born'
<1> SUFFICES ASSUME NEW x \in Transfers, status'[x] = "unborn" PROVE Unborn(x)'
  BY DEF Born, Unborn
<1>1. x # t /\ status[x] = "unborn" /\ Unborn(x)
  BY DEF Born, Others
<1>2. \A o \in Objects : ~Bound(x, o)'
  BY <1>1 DEF Unborn, Others
<1>3. /\ retired'[x] = retired[x] /\ pc'[x] = pc[x] /\ root'[x] = root[x] /\ spent'[x] = spent[x]
      /\ bound'[x] = bound[x] /\ closing'[x] = closing[x] /\ attempt'[x] = attempt[x]
  BY <1>1 DEF Others
<1> QED
  BY <1>1, <1>2, <1>3 DEF Unborn

LEMMA PassesOf ==
    ASSUME Passes, NEW t \in Transfers, Others(t), MoreBonds, Pass(t)'
    PROVE  Passes'
  BY DEF Passes, Pass, Others, MoreBonds
LEMMA CleanlyOf ==
    ASSUME Cleanly, NEW t \in Transfers, Others(t), Clean(t)'
    PROVE  Cleanly'
<1> SUFFICES ASSUME NEW x \in Transfers, x # t PROVE Clean(x)'
  BY DEF Cleanly
<1> QED
  BY ZenonT(60) DEF Cleanly, Clean, Open, Current, Others
LEMMA OpenlyOf ==
    ASSUME Openly, NEW t \in Transfers, Others(t), Opened(t)'
    PROVE  Openly'
  BY DEF Openly, Opened, Current, Others
LEMMA ScansOf ==
    ASSUME TypeOK, Scans, NEW t \in Transfers, Others(t), MoreBonds, UNCHANGED inv,
           spent[t] \in Nat, spent'[t] \in Nat, spent[t] <= spent'[t]
    PROVE  Scans'
<1>1. settler.t \in Transfers \cup {None} /\ settler.n \in Nat
  BY DEF TypeOK, AttemptIds
<1>2. CASE settler.t = t
  BY <1>1, <1>2 DEF Scans, Others, MoreBonds
<1>3. CASE settler.t # t
  BY <1>1, <1>3 DEF Scans, Others, MoreBonds
<1> QED
  BY <1>2, <1>3
LEMMA TrackingOf ==
    ASSUME Tracking, NEW t \in Transfers, Others(t), MoreBonds, Track(t)'
    PROVE  Tracking'
<1> SUFFICES ASSUME NEW x \in Transfers, x # t, x \notin blind' PROVE Track(x)'
  BY DEF Tracking, Track
<1>1. Track(x) /\ x \notin blind
  BY DEF Tracking, Others
<1>2. \A o \in Objects : Free(o)' => Free(o)
  BY DEF Free, MoreBonds
<1>3. \A o \in Objects, n \in AttemptIds : Witness(x, o, n) => Witness(x, o, n)'
  BY DEF Witness, Settling, Others
<1>4. \A n : Settling(x, n)' <=> Settling(x, n)
  BY DEF Settling, Others
<1> QED
  BY <1>1, <1>2, <1>3, <1>4 DEF Track, Current, Others

\* A root past the fence stays past it, and nobody owes more.
LEMMA FenceOf ==
    ASSUME FenceBound, NEW t \in Transfers, Others(t), UNCHANGED <<binding, postdated>>,
           FenceRead(t)' => FenceRead(t)
    PROVE  FenceBound'
<1>1. \A x \in Transfers : FenceRead(x)' => FenceRead(x)
  BY DEF FenceRead, Live, Others
<1>2. \A p \in Transfers, o \in Objects : Outstanding(p, o)' = Outstanding(p, o)
  BY DEF Outstanding, Owed
<1> QED
  BY <1>1, <1>2, FenceKept DEF Others

\* An attempt of a root that has one.
LEMMA CurrentType ==
    ASSUME TypeOK, NEW t \in Transfers, spent[t] > 0
    PROVE  /\ spent[t] \in AttemptIds /\ Current(t) \in Attempts
           /\ Current(t).state \in States /\ Current(t).owed \in BOOLEAN
           /\ Current(t).uncertain \in BOOLEAN
  BY Types DEF Current, Attempts

\* No attempt of the root is left open.
LEMMA FailStartedEffect ==
    ASSUME TypeOK, NEW t \in Transfers
    PROVE  /\ FailStarted(t) \in [AttemptIds -> Attempts]
           /\ \A n \in AttemptIds : /\ FailStarted(t)[n].state # "started"
                                    /\ FailStarted(t)[n].owed = attempt[t][n].owed
<1> DEFINE F == FailStarted(t)
<1>1. attempt \in [Transfers -> [AttemptIds -> Attempts]]
  BY Types
<1>2. F = [n \in AttemptIds |->
            [attempt[t][n] EXCEPT !.state =
               IF attempt[t][n].state = "started" THEN "failed" ELSE attempt[t][n].state]]
  BY <1>1 DEF FailStarted
<1> HIDE DEF F
<1>3. ASSUME NEW n \in AttemptIds
      PROVE  F[n] \in Attempts /\ F[n].state # "started" /\ F[n].owed = attempt[t][n].owed
  <2>1. attempt[t][n] \in Attempts
    BY <1>1
  <2>2. CASE attempt[t][n].state = "started"
    <3>1. F[n] = [attempt[t][n] EXCEPT !.state = "failed"]
      BY <1>2, <2>2
    <3> QED
      BY <2>1, <3>1 DEF Attempts, States
  <2>3. CASE attempt[t][n].state # "started"
    <3>1. F[n] = [attempt[t][n] EXCEPT !.state = attempt[t][n].state]
      BY <1>2, <2>3
    <3> QED
      BY <2>1, <2>3, <3>1 DEF Attempts, States
  <2> QED
    BY <2>2, <2>3
<1>4. F \in [AttemptIds -> Attempts]
  BY <1>2, <1>3
<1> QED
  BY <1>3, <1>4 DEF F

\* The request fails, and every open attempt of it.
LEMMA FailRequestEffect ==
    ASSUME TypeOK, NEW t \in Transfers, FailRequest(t)
    PROVE  /\ attempt' \in [Transfers -> [AttemptIds -> Attempts]]
           /\ pin' \in [Transfers -> {"none", "open", "failed"}]
           /\ \A x \in Transfers \ {t} : attempt'[x] = attempt[x]
           /\ \A n \in AttemptIds : /\ attempt'[t][n].state # "started"
                                    /\ attempt'[t][n].owed = attempt[t][n].owed
<1>1. attempt \in [Transfers -> [AttemptIds -> Attempts]]
  BY Types
<1>2. attempt' = [attempt EXCEPT ![t] = FailStarted(t)]
  BY DEF FailRequest
<1>3. pin' \in [Transfers -> {"none", "open", "failed"}]
  BY DEF FailRequest, TypeOK
<1> QED
  BY <1>1, <1>2, <1>3, FailStartedEffect

LEMMA PassFenceStep ==
    ASSUME IInv, NEW t \in Transfers, PassFence(t)
    PROVE  IInv'
<1>0. TypeOK /\ Born /\ Bonds /\ Duties /\ Asked /\ Passes /\ Scans /\ Generations /\
      SoleOwner /\ FenceBound /\ Cleanly /\ Openly /\ Tracking
  BY DEF IInv
<1>1. /\ UNCHANGED <<status, source, retired, imported, mode, closing>>
      /\ UNCHANGED <<root, bound, spent, pin, attempt, ans>>
      /\ UNCHANGED <<binding, latest, remote, made, blind>>
      /\ UNCHANGED <<inv, settler, scanned, upsets, budget>>
  BY DEF PassFence, Runnable, Live, Goto, Forget, Fenced, vars, work, torrents, requests,
         passes, resources, history, scans, tally
<1>2. /\ pc[t] = "idle" /\ status[t] = "live" /\ root[t] = "pending"
      /\ bound[t] = None /\ ~Held(t) /\ ~FencedAs(t, source[t])
      /\ pc' = [pc EXCEPT ![t] = "routed"]
      /\ postdated' = [postdated EXCEPT ![t] = {}]
  BY DEF PassFence, Runnable, Live, Goto, Forget, Fenced
<1>5a. \A x \in Transfers \ {t} :
        pc'[x] = pc[x]
  BY <1>0, <1>2 DEF TypeOK
<1>5. Others(t)
  BY <1>1, <1>2, <1>5a DEF Others, Bound
<1>9. MoreBonds
  BY <1>1 DEF MoreBonds, Bound
<1>6. /\ pc[t] = "idle" /\ status[t] = "live" /\ root[t] = "pending"
      /\ bound[t] = None /\ ~Held(t) /\ ~FencedAs(t, source[t])
      /\ pc'[t] = "routed" /\ \A x \in Transfers \ {t} : postdated'[x] = postdated[x]
  BY <1>0, <1>1, <1>2 DEF TypeOK
<1>10. TypeOK'
  BY <1>0, <1>1, <1>2, <1>6 DEF TypeOK, Authorities
<1>11. Bonds' /\ Duties' /\ Asked' /\ Scans' /\ Generations' /\ SoleOwner'
  BY <1>0, <1>1, BondsFrame, DutiesFrame, AskedFrame, ScansFrame, GenerationsFrame,
  SoleOwnerFrame
<1>12. Born'
  <2>1. status[t] # "unborn"
    BY <1>0, <1>2 DEF Born, Unborn
  <2> QED
    BY <1>0, <1>5, <2>1, BornOf
<1>13. Passes'
  <2>1. Pass(t)'
    BY <1>0, <1>1, <1>6 DEF Passes, Pass, Bound
  <2> QED
    BY <1>0, <1>5, <1>9, <2>1, PassesOf
<1>14. FenceBound'
  <2>1. \A x \in Transfers \ {t} :
          /\ source'[x] = source[x] /\ (FenceRead(x)' => FenceRead(x))
          /\ postdated[x] \subseteq postdated'[x]
    BY <1>1, <1>5, <1>6 DEF FenceRead, Live, Others
  <2>2. \A p \in Transfers, y \in Objects : p # t /\ Outstanding(p, y)' => Outstanding(p, y)
    BY <1>1 DEF Outstanding, Owed
  <2>3. /\ ~FencedAs(t, source'[t]) /\ \A x \in Transfers : retired'[x] = retired[x]
        /\ ~retired[t]
    BY <1>0, <1>1, <1>2 DEF Generations, Live
  <2> QED
    BY <1>0, <2>1, <2>2, <2>3, FenceReadNow
<1>15. Cleanly'
  <2>1. Clean(t)'
    BY <1>0, <1>1, <1>6 DEF Cleanly, Clean, Open, Current, Held, Bound
  <2> QED
    BY <1>0, <1>5, <2>1, CleanlyOf
<1>16. Openly'
  <2>1. Opened(t)'
    BY <1>0, <1>1, <1>6 DEF Openly, Opened, Current
  <2> QED
    BY <1>0, <1>5, <2>1, OpenlyOf
<1>17. Tracking'
  <2>1. Track(t)'
    <3>1. \A y \in Objects : Free(y)' => Free(y)
      BY <1>9 DEF Free, MoreBonds
    <3>2. \A y \in Objects, n \in AttemptIds : Witness(t, y, n) => Witness(t, y, n)'
      BY <1>1, <1>6 DEF Witness, Settling, Current
    <3> QED
      BY <1>0, <1>1, <1>6, <3>1, <3>2 DEF Tracking, Track, Settling, Current
  <2> QED
    BY <1>0, <1>5, <1>9, <2>1, TrackingOf
<1> QED
  BY <1>10, <1>11, <1>12, <1>13, <1>14, <1>15, <1>16, <1>17 DEF IInv

LEMMA ReobserveStep ==
    ASSUME IInv, NEW t \in Transfers, NEW o \in Objects, Reobserve(t, o)
    PROVE  IInv'
<1>0. TypeOK /\ Born /\ Bonds /\ Duties /\ Asked /\ Passes /\ Scans /\ Generations /\
      SoleOwner /\ FenceBound /\ Cleanly /\ Openly /\ Tracking
  BY DEF IInv
<1>1. /\ UNCHANGED <<status, source, retired, imported, mode, closing>>
      /\ UNCHANGED <<bound, spent, pin, attempt, pc, ans>>
      /\ UNCHANGED <<latest, remote, made, blind>>
      /\ UNCHANGED <<inv, settler, scanned, upsets, budget>>
  BY DEF Reobserve, Runnable, Live, vars, work, torrents, requests, passes, resources,
         history, scans, tally
<1>2. /\ status[t] = "live" /\ pc[t] = "idle" /\ bound[t] = o
      /\ root' = [root EXCEPT ![t] = "waiting"]
      /\ binding' = Upsert(t, o, TRUE) /\ Postdate(t, {o})
  BY DEF Reobserve, Runnable, Live
<1>7. /\ binding' \in [Transfers -> [Objects -> Rows]]
      /\ binding'[t][o].state = "available" /\ binding'[t][o].owed = binding[t][o].owed
      /\ binding'[t][o].call = binding[t][o].call
      /\ Owed(t, o) => binding'[t][o].abandoned = binding[t][o].abandoned
      /\ \A x \in Transfers, y \in Objects :
           x # t \/ y # o => binding'[x][y] = binding[x][y]
  <2>1. binding' = Upsert(t, o, TRUE) /\ TRUE \in BOOLEAN
    BY <1>2
  <2> QED
    BY <1>0, <2>1, UpsertEffect, ZenonT(60)
<1>7a. \A x \in Transfers, y \in Objects :
        /\ binding'[x][y].owed = binding[x][y].owed /\ binding'[x][y].call = binding[x][y].call
        /\ Owed(x, y) => binding'[x][y].abandoned = binding[x][y].abandoned
  BY <1>7
<1>7b. postdated' \in [Transfers -> SUBSET Bindings]
  BY <1>0, <1>2, PostdateEffect
<1>8. Bound(t, o)
  BY <1>0, <1>2 DEF Bonds
<1>9. SameBonds /\ MoreBonds
  BY <1>7, <1>8, MoreOfSame DEF SameBonds, Bound
<1>5a. \A x \in Transfers \ {t} :
        root'[x] = root[x]
  BY <1>0, <1>2 DEF TypeOK
<1>5b. \A x \in Transfers \ {t}, y \in Objects : Bound(x, y)' <=> Bound(x, y)
  BY <1>7 DEF Bound
<1>5. Others(t)
  BY <1>1, <1>2, <1>5a, <1>5b DEF Others
<1>6. /\ status[t] = "live" /\ pc[t] = "idle" /\ bound[t] = o
      /\ root'[t] = "waiting"
  BY <1>0, <1>1, <1>2 DEF TypeOK
<1>10. TypeOK'
  <2>1. /\ root' \in [Transfers -> {"pending", "resolving", "waiting", "failed"}]
    BY <1>0, <1>2 DEF TypeOK
  <2> QED
    BY <1>0, <1>1, <2>1, <1>7, <1>7b DEF TypeOK, Authorities, Rows, Calls
<1>11. Generations' /\ Openly'
  BY <1>0, <1>1, GenerationsFrame, OpenlyFrame
<1>12. Born'
  <2>1. status[t] # "unborn"
    BY <1>0, <1>2 DEF Born, Unborn
  <2> QED
    BY <1>0, <1>5, <2>1, BornOf
<1>13. Bonds'
  BY <1>0, <1>1, <1>2, <1>5, <1>9, NoneAssumption, ObjectsAssumption
  DEF Bonds, Lately, SameBonds, Others, TypeOK
<1>14. Duties'
  BY <1>0, <1>7a, <1>9 DEF Duties, MoreBonds, Owed
<1>15. Asked'
  BY <1>0, <1>1, <1>7a DEF Asked, AskedFor
<1>16. Passes'
  BY <1>0, <1>1, <1>9, PassesMore
<1>17. Scans'
  BY <1>0, <1>1, <1>9, ScansMore
<1>18. SoleOwner'
  BY <1>0, <1>1, <1>9, SoleOwnerSame
<1>19. FenceBound'
  <2>1. \A x \in Transfers : FenceRead(x)' => FenceRead(x)
    BY <1>1, <1>2, <1>6 DEF FenceRead, Live, Others
  <2>2. \A p \in Transfers, y \in Objects :
          Outstanding(p, y)' => Outstanding(p, y) \/ (p = t /\ y \in {o})
    BY <1>7 DEF Outstanding, Owed
  <2> QED
    BY <1>0, <1>1, <1>2, <2>1, <2>2, FencePostdated
<1>20. Cleanly'
  <2>1. Clean(t)'
    BY <1>2, <1>8, <1>9 DEF Clean, MoreBonds
  <2> QED
    BY <1>0, <1>5, <2>1, CleanlyOf
<1>21. Tracking'
  BY <1>0, <1>1, <1>9, TrackingMore
<1> QED
  BY <1>10, <1>11, <1>12, <1>13, <1>14, <1>15, <1>16, <1>17, <1>18, <1>19, <1>20, <1>21
  DEF IInv

LEMMA GoneStep ==
    ASSUME IInv, NEW t \in Transfers, NEW o \in Objects, Gone(t, o)
    PROVE  IInv'
<1>0. TypeOK /\ Born /\ Bonds /\ Duties /\ Asked /\ Passes /\ Scans /\ Generations /\
      SoleOwner /\ FenceBound /\ Cleanly /\ Openly /\ Tracking
  BY DEF IInv
<1>1. /\ UNCHANGED <<status, source, retired, imported, mode, closing>>
      /\ UNCHANGED <<root, bound, spent, pin, attempt, ans>>
      /\ UNCHANGED <<latest, remote, made, blind>>
      /\ UNCHANGED <<inv, settler, scanned, upsets, budget>>
  BY DEF Gone, Runnable, Live, Goto, vars, work, torrents, requests, passes, resources,
         history, scans, tally
<1>2. /\ status[t] = "live" /\ pc[t] = "idle" /\ bound[t] = o
      /\ pc' = [pc EXCEPT ![t] = "routed"]
      /\ binding' = [binding EXCEPT ![t][o].state = IF o \in remote THEN "available"
                                                             ELSE "absent"]
      /\ Postdate(t, {o} \cap remote)
  BY DEF Gone, Runnable, Live, Goto
<1> DEFINE b == [binding[t][o] EXCEPT !.state = IF o \in remote THEN "available" ELSE "absent"]
<1>3. /\ b \in Rows /\ b.state = (IF o \in remote THEN "available" ELSE "absent")
      /\ b.owed = binding[t][o].owed
      /\ b.call = binding[t][o].call /\ b.abandoned = binding[t][o].abandoned
  <2>1. binding[t][o] \in Rows
    BY <1>0, Types
  <2> QED
    BY <2>1 DEF Rows
<1>4. binding' = [binding EXCEPT ![t][o] = b]
  BY <1>2
<1> HIDE DEF b
<1>7. /\ binding' \in [Transfers -> [Objects -> Rows]] /\ binding'[t][o] = b
      /\ \A x \in Transfers, y \in Objects :
           x # t \/ y # o => binding'[x][y] = binding[x][y]
  <2>1. b \in Rows
    BY <1>3
  <2> QED
    BY <1>0, <1>4, <2>1, RowEffect, ZenonT(60)
<1>7a. \A x \in Transfers, y \in Objects :
        /\ binding'[x][y].owed = binding[x][y].owed /\ binding'[x][y].call = binding[x][y].call
        /\ binding'[x][y].abandoned = binding[x][y].abandoned
  BY <1>3, <1>7
<1>7b. postdated' \in [Transfers -> SUBSET Bindings]
  <2>1. {o} \cap remote \in SUBSET Objects
    OBVIOUS
  <2> QED
    BY <1>0, <1>2, <2>1, PostdateEffect
<1>8. Bound(t, o)
  BY <1>0, <1>2 DEF Bonds
<1>9. SameBonds /\ MoreBonds
  BY <1>7, <1>3, <1>8, MoreOfSame DEF SameBonds, Bound
<1>5a. \A x \in Transfers \ {t} :
        pc'[x] = pc[x]
  BY <1>0, <1>2 DEF TypeOK
<1>5b. \A x \in Transfers \ {t}, y \in Objects : Bound(x, y)' <=> Bound(x, y)
  BY <1>7 DEF Bound
<1>5. Others(t)
  BY <1>1, <1>2, <1>5a, <1>5b DEF Others
<1>6. /\ status[t] = "live" /\ pc[t] = "idle" /\ bound[t] = o
      /\ Postdate(t, {o} \cap remote)
      /\ pc'[t] = "routed"
  BY <1>0, <1>1, <1>2 DEF TypeOK
<1>10. TypeOK'
  <2>1. /\ pc' \in [Transfers -> {"idle", "routed", "draining", "unrouted", "opened",
                              "calling", "created", "refused", "uncertain", "erring",
                              "failing", "settling"}]
    BY <1>0, <1>2 DEF TypeOK
  <2> QED
    BY <1>0, <1>1, <2>1, <1>7, <1>7b DEF TypeOK, Authorities, Rows, Calls
<1>11. Generations'
  BY <1>0, <1>1, GenerationsFrame
<1>12. Born'
  <2>1. status[t] # "unborn"
    BY <1>0, <1>2 DEF Born, Unborn
  <2> QED
    BY <1>0, <1>5, <2>1, BornOf
<1>13. Bonds'
  BY <1>0, <1>1, <1>9, BondsSame
<1>14. Duties'
  BY <1>0, <1>7a, <1>9 DEF Duties, MoreBonds, Owed
<1>15. Asked'
  BY <1>0, <1>1, <1>7a DEF Asked, AskedFor
<1>16. Passes'
  <2>1. Pass(t)'
    BY <1>0, <1>1, <1>6 DEF Passes, Pass, Bound
  <2> QED
    BY <1>0, <1>5, <1>9, <2>1, PassesOf
<1>17. Scans'
  BY <1>0, <1>1, <1>9, ScansMore
<1>18. SoleOwner'
  BY <1>0, <1>1, <1>9, SoleOwnerSame
<1>19. FenceBound'
  <2>1. \A x \in Transfers : FenceRead(x)' => FenceRead(x)
    BY <1>1, <1>2, <1>5, ObjectsAssumption DEF FenceRead, Live, Others
  <2>2. \A p \in Transfers, y \in Objects :
          Outstanding(p, y)' => Outstanding(p, y) \/ (p = t /\ y \in {o} \cap remote)
    BY <1>3, <1>7 DEF Outstanding, Owed
  <2>3. {o} \cap remote \in SUBSET Objects
    OBVIOUS
  <2> QED
    BY <1>0, <1>1, <1>2, <2>1, <2>2, <2>3, FencePostdated
<1>20. Cleanly'
  <2>1. Clean(t)'
    BY <1>2, <1>8, <1>9 DEF Clean, MoreBonds
  <2> QED
    BY <1>0, <1>5, <2>1, CleanlyOf
<1>21. Openly'
  <2>1. Opened(t)'
    BY <1>0, <1>1, <1>6 DEF Openly, Opened, Current
  <2> QED
    BY <1>0, <1>5, <2>1, OpenlyOf
<1>22. Tracking'
  <2>1. Track(t)'
    <3>1. \A y \in Objects : Free(y)' => Free(y)
      BY <1>9 DEF Free, MoreBonds
    <3>2. \A y \in Objects, n \in AttemptIds : Witness(t, y, n) => Witness(t, y, n)'
      BY <1>1, <1>6 DEF Witness, Settling, Current
    <3> QED
      BY <1>0, <1>1, <1>6, <3>1, <3>2 DEF Tracking, Track, Settling, Current
  <2> QED
    BY <1>0, <1>5, <1>9, <2>1, TrackingOf
<1> QED
  BY <1>10, <1>11, <1>12, <1>13, <1>14, <1>15, <1>16, <1>17, <1>18, <1>19, <1>20, <1>21,
  <1>22
  DEF IInv

LEMMA ExpiredStep ==
    ASSUME IInv, NEW t \in Transfers, NEW o \in Objects, Expired(t, o)
    PROVE  IInv'
<1>0. TypeOK /\ Born /\ Bonds /\ Duties /\ Asked /\ Passes /\ Scans /\ Generations /\
      SoleOwner /\ FenceBound /\ Cleanly /\ Openly /\ Tracking
  BY DEF IInv
<1>1. /\ UNCHANGED <<status, source, retired, imported, mode, closing>>
      /\ UNCHANGED <<root, bound, spent, pin, attempt>>
      /\ UNCHANGED <<latest, remote, made, blind>>
      /\ UNCHANGED <<inv, settler, scanned, upsets, budget>>
  BY DEF Expired, Runnable, Live, Goto, vars, work, torrents, requests, passes, resources,
         history, scans, tally
<1>2. /\ status[t] = "live" /\ pc[t] = "idle" /\ bound[t] = o
      /\ pc' = [pc EXCEPT ![t] = "draining"]
      /\ ans' = [ans EXCEPT ![t] = o] /\ Postdate(t, {o})
      /\ binding' = Intend(Upsert(t, o, TRUE), t, {o}, "owned")
  BY DEF Expired, Runnable, Live, Goto
<1>7. /\ binding' \in [Transfers -> [Objects -> Rows]]
      /\ binding'[t][o].state = "available" /\ binding'[t][o].owed = "owned"
      /\ ~binding'[t][o].abandoned /\ binding'[t][o].call = binding[t][o].call
      /\ \A x \in Transfers, y \in Objects :
           x # t \/ y # o => binding'[x][y] = binding[x][y]
  <2>1. PICK a \in Authorities : a = "owned"
    BY DEF Authorities
  <2>3. binding' = Intend(Upsert(t, o, TRUE), t, {o}, a) /\ TRUE \in BOOLEAN
    BY <1>2, <2>1
  <2> QED
    BY <1>0, <2>1, <2>3, RenewEffect
<1>7b. postdated' \in [Transfers -> SUBSET Bindings]
  BY <1>0, <1>2, PostdateEffect
<1>8. Bound(t, o)
  BY <1>0, <1>2 DEF Bonds
<1>9. SameBonds /\ MoreBonds
  BY <1>7, <1>8, MoreOfSame DEF SameBonds, Bound
<1>5a. \A x \in Transfers \ {t} :
        pc'[x] = pc[x] /\ ans'[x] = ans[x]
  BY <1>0, <1>2 DEF TypeOK
<1>5b. \A x \in Transfers \ {t}, y \in Objects : Bound(x, y)' <=> Bound(x, y)
  BY <1>7 DEF Bound
<1>5. Others(t)
  BY <1>1, <1>2, <1>5a, <1>5b DEF Others
<1>6. /\ status[t] = "live" /\ pc[t] = "idle" /\ bound[t] = o
      /\ pc'[t] = "draining" /\ ans'[t] = o
  BY <1>0, <1>1, <1>2 DEF TypeOK
<1>10. TypeOK'
  <2>1. /\ pc' \in [Transfers -> {"idle", "routed", "draining", "unrouted", "opened",
                              "calling", "created", "refused", "uncertain", "erring",
                              "failing", "settling"}]
        /\ ans' \in [Transfers -> Objects \cup {None, "absent", "unsettled"}]
    BY <1>0, <1>2 DEF TypeOK
  <2> QED
    BY <1>0, <1>1, <2>1, <1>7, <1>7b DEF TypeOK, Authorities, Rows, Calls
<1>11. Generations'
  BY <1>0, <1>1, GenerationsFrame
<1>12. Born'
  <2>1. status[t] # "unborn"
    BY <1>0, <1>2 DEF Born, Unborn
  <2> QED
    BY <1>0, <1>5, <2>1, BornOf
<1>13. Bonds'
  BY <1>0, <1>1, <1>9, BondsSame
<1>14. Duties'
  <2>1. \A x \in Transfers, y \in Objects : x # t \/ y # o =>
          /\ binding'[x][y].owed = binding[x][y].owed /\ binding'[x][y].call = binding[x][y].call
          /\ binding'[x][y].abandoned = binding[x][y].abandoned
    BY <1>7
  <2>2. Owed(t, o)' /\ ~binding'[t][o].abandoned /\ Bound(t, o)'
    BY <1>7, NoneAssumption DEF Owed, Bound
  <2> QED
    BY <1>0, <1>9, <2>1, <2>2 DEF Duties, MoreBonds, Owed
<1>15. Asked'
  BY <1>0, <1>1, <1>7 DEF Asked, AskedFor
<1>16. Passes'
  <2>1. Pass(t)'
    BY <1>0, <1>1, <1>6, <1>7, <1>8, ObjectsAssumption DEF Passes, Pass, Bound
  <2> QED
    BY <1>0, <1>5, <1>9, <2>1, PassesOf
<1>17. Scans'
  BY <1>0, <1>1, <1>9, ScansMore
<1>18. SoleOwner'
  BY <1>0, <1>1, <1>9, SoleOwnerSame
<1>19. FenceBound'
  <2>1. \A x \in Transfers : FenceRead(x)' => FenceRead(x)
    BY <1>1, <1>2, <1>6 DEF FenceRead, Live, Others
  <2>2. \A p \in Transfers, y \in Objects :
          Outstanding(p, y)' => Outstanding(p, y) \/ (p = t /\ y \in {o})
    BY <1>7 DEF Outstanding, Owed
  <2> QED
    BY <1>0, <1>1, <1>2, <2>1, <2>2, FencePostdated
<1>20. Cleanly'
  <2>1. Clean(t)'
    BY <1>2, <1>8, <1>9 DEF Clean, MoreBonds
  <2> QED
    BY <1>0, <1>5, <2>1, CleanlyOf
<1>21. Openly'
  <2>1. Opened(t)'
    BY <1>0, <1>1, <1>6 DEF Openly, Opened, Current
  <2> QED
    BY <1>0, <1>5, <2>1, OpenlyOf
<1>22. Tracking'
  <2>1. Track(t)'
    <3>1. \A y \in Objects : Free(y)' => Free(y)
      BY <1>9 DEF Free, MoreBonds
    <3>2. \A y \in Objects, n \in AttemptIds : Witness(t, y, n) => Witness(t, y, n)'
      BY <1>1, <1>6 DEF Witness, Settling, Current
    <3> QED
      BY <1>0, <1>1, <1>6, <3>1, <3>2 DEF Tracking, Track, Settling, Current
  <2> QED
    BY <1>0, <1>5, <1>9, <2>1, TrackingOf
<1> QED
  BY <1>10, <1>11, <1>12, <1>13, <1>14, <1>15, <1>16, <1>17, <1>18, <1>19, <1>20, <1>21,
  <1>22
  DEF IInv

LEMMA DrainedStep ==
    ASSUME IInv, NEW t \in Transfers, Drained(t)
    PROVE  IInv'
<1>0. TypeOK /\ Born /\ Bonds /\ Duties /\ Asked /\ Passes /\ Scans /\ Generations /\
      SoleOwner /\ FenceBound /\ Cleanly /\ Openly /\ Tracking
  BY DEF IInv
<1>1. /\ UNCHANGED <<status, source, retired, imported, mode, closing>>
      /\ UNCHANGED <<root, bound, spent, pin, attempt>>
      /\ UNCHANGED <<binding, latest, remote, made, blind, postdated>>
      /\ UNCHANGED <<inv, settler, scanned, upsets, budget>>
  BY DEF Drained, Goto, vars, work, torrents, requests, passes, resources, history, scans,
         tally
<1>2. /\ pc[t] = "draining"
      /\ pc' = [pc EXCEPT ![t] = IF Owed(t, ans[t]) THEN "unrouted" ELSE "routed"]
      /\ ans' = [ans EXCEPT ![t] = None]
  BY DEF Drained, Goto
<1>5a. \A x \in Transfers \ {t} :
        pc'[x] = pc[x] /\ ans'[x] = ans[x]
  BY <1>0, <1>2 DEF TypeOK
<1>5. Others(t)
  BY <1>1, <1>2, <1>5a DEF Others, Bound
<1>9. MoreBonds
  BY <1>1 DEF MoreBonds, Bound
<1>6. /\ pc[t] = "draining"
      /\ pc'[t] \in {"unrouted", "routed"}
  BY <1>0, <1>1, <1>2 DEF TypeOK
<1>10. TypeOK'
  BY <1>0, <1>1, <1>2, <1>6 DEF TypeOK, Authorities
<1>11. Bonds' /\ Duties' /\ Asked' /\ Scans' /\ Generations' /\ SoleOwner'
  BY <1>0, <1>1, BondsFrame, DutiesFrame, AskedFrame, ScansFrame, GenerationsFrame,
  SoleOwnerFrame
<1>12. Born'
  <2>1. status[t] # "unborn"
    BY <1>0, <1>2 DEF Born, Unborn
  <2> QED
    BY <1>0, <1>5, <2>1, BornOf
<1>13. Passes'
  <2>1. Pass(t)'
    BY <1>0, <1>1, <1>6 DEF Passes, Pass, Bound
  <2> QED
    BY <1>0, <1>5, <1>9, <2>1, PassesOf
<1>14. FenceBound'
  <2>1. FenceRead(t)' => FenceRead(t)
    BY <1>0, <1>1, <1>6 DEF FenceRead, Live, Passes, Pass
  <2> QED
    BY <1>0, <1>1, <1>5, <2>1, FenceOf
<1>15. Cleanly'
  <2>1. Clean(t)'
    BY <1>0, <1>1, <1>6 DEF Passes, Pass, Clean, Bound
  <2> QED
    BY <1>0, <1>5, <2>1, CleanlyOf
<1>16. Openly'
  <2>1. Opened(t)'
    BY <1>0, <1>1, <1>6 DEF Openly, Opened, Current
  <2> QED
    BY <1>0, <1>5, <2>1, OpenlyOf
<1>17. Tracking'
  <2>1. Track(t)'
    <3>1. \A y \in Objects : Free(y)' => Free(y)
      BY <1>9 DEF Free, MoreBonds
    <3>2. \A y \in Objects, n \in AttemptIds : Witness(t, y, n) => Witness(t, y, n)'
      BY <1>1, <1>6 DEF Witness, Settling, Current
    <3> QED
      BY <1>0, <1>1, <1>6, <3>1, <3>2 DEF Tracking, Track, Settling, Current
  <2> QED
    BY <1>0, <1>5, <1>9, <2>1, TrackingOf
<1> QED
  BY <1>10, <1>11, <1>12, <1>13, <1>14, <1>15, <1>16, <1>17 DEF IInv

LEMMA BeginOpensStep ==
    ASSUME IInv, NEW t \in Transfers, Begin(t), pc'[t] = "opened"
    PROVE  IInv'
<1>0. TypeOK /\ Born /\ Bonds /\ Duties /\ Asked /\ Passes /\ Scans /\ Generations /\
      SoleOwner /\ FenceBound /\ Cleanly /\ Openly /\ Tracking
  BY DEF IInv
<1>1. /\ UNCHANGED <<status, source, retired, imported, mode, closing>>
      /\ UNCHANGED <<bound, ans>>
      /\ UNCHANGED <<binding, latest, remote, made, blind, postdated>>
      /\ UNCHANGED <<inv, settler, scanned, upsets, budget>>
  BY DEF Begin, Goto, vars, work, torrents, requests, passes, resources, history, scans,
         tally
<1>2. /\ pc[t] = "routed" /\ root[t] = "pending" /\ spent[t] < budget.attempts
      /\ spent' = [spent EXCEPT ![t] = spent[t] + 1]
      /\ attempt' = [attempt EXCEPT ![t][spent[t] + 1].state = "started"]
      /\ pin' = [pin EXCEPT ![t] = "none"]
      /\ root' = [root EXCEPT ![t] = "resolving"]
      /\ pc' = [pc EXCEPT ![t] = "opened"]
  <2>1. pc \in [Transfers -> {"idle", "routed", "draining", "unrouted", "opened", "calling",
                             "created", "refused", "uncertain", "erring", "failing",
                             "settling"}]
    BY <1>0 DEF TypeOK
  <2>2. pc' # [pc EXCEPT ![t] = "idle"]
    BY <2>1
  <2> QED
    BY <2>2 DEF Begin, Goto
<1> DEFINE k == spent[t] + 1
<1>3a. spent[t] \in 0..MaxAttempts /\ k \in AttemptIds /\ MaxAttempts \in Nat
  <2>1. budget.attempts \in 0..MaxAttempts /\ MaxAttempts \in Nat
    BY <1>0, BudgetsAssumption DEF TypeOK
  <2> QED
    BY <1>0, <1>2, <2>1 DEF TypeOK, AttemptIds
<1> DEFINE r == [attempt[t][k] EXCEPT !.state = "started"]
<1>3b. r \in Attempts /\ r.owed = attempt[t][k].owed
  <2>1. attempt[t][k] \in Attempts
    BY <1>0, <1>3a, Types
  <2> QED
    BY <2>1 DEF Attempts, States
<1>3c. attempt' = [attempt EXCEPT ![t][k] = r]
  BY <1>2
<1> HIDE DEF r
<1>3d. ~attempt[t][k].owed
  <2> HIDE DEF k
  <2>1. k > spent[t]
    BY <1>3a DEF k
  <2> QED
    BY <1>0, <1>3a, <2>1 DEF Openly, Opened, AttemptIds
<1>3. /\ attempt' \in [Transfers -> [AttemptIds -> Attempts]]
      /\ attempt'[t][k] = r
      /\ \A n \in AttemptIds : n # k => attempt'[t][n] = attempt[t][n]
  BY <1>0, <1>3a, <1>3b, <1>3c, Types
<1>5a. \A x \in Transfers \ {t} :
        root'[x] = root[x] /\ spent'[x] = spent[x] /\ attempt'[x] = attempt[x] /\ pc'[x] =
        pc[x]
  BY <1>0, <1>2 DEF TypeOK
<1>5. Others(t)
  BY <1>1, <1>2, <1>5a DEF Others, Bound
<1>9. MoreBonds
  BY <1>1 DEF MoreBonds, Bound
<1>6. /\ pc[t] = "routed" /\ root[t] = "pending" /\ spent[t] < budget.attempts
      /\ pc'[t] = "opened" /\ root'[t] = "resolving" /\ spent'[t] = spent[t] + 1
      /\ spent[t] \in Nat /\ spent'[t] \in Nat /\ spent[t] <= spent'[t]
  BY <1>0, <1>1, <1>2, <1>3a DEF TypeOK
<1>10. TypeOK'
  BY <1>0, <1>1, <1>2, <1>6, <1>3, <1>3a
  DEF TypeOK, Authorities, Attempts, States, AttemptIds
<1>11. Duties' /\ Asked' /\ Generations' /\ SoleOwner'
  BY <1>0, <1>1, DutiesFrame, AskedFrame, GenerationsFrame, SoleOwnerFrame
<1>12. Born'
  <2>1. status[t] # "unborn"
    BY <1>0, <1>2 DEF Born, Unborn
  <2> QED
    BY <1>0, <1>5, <2>1, BornOf
<1>13. Bonds'
  BY <1>0, <1>1, <1>2, <1>5, <1>6 DEF Bonds, Lately, Bound, Others
<1>14. Passes'
  <2>1. Pass(t)'
    BY <1>0, <1>1, <1>6 DEF Passes, Pass, Bound
  <2> QED
    BY <1>0, <1>5, <1>9, <2>1, PassesOf
<1>15. Scans'
  BY <1>0, <1>1, <1>5, <1>6, <1>9, ScansOf
<1>16. FenceBound'
  <2>1. FenceRead(t)' => FenceRead(t)
    BY <1>0, <1>1, <1>6 DEF FenceRead, Live, Passes, Pass
  <2> QED
    BY <1>0, <1>1, <1>5, <2>1, FenceOf
<1>17. Cleanly'
  <2>1. Clean(t)'
    <3>0. \A n \in 1..spent[t] : n \in AttemptIds /\ n # k
      BY <1>3a DEF AttemptIds
    <3>1. \A n \in 1..spent[t] : attempt'[t][n] = attempt[t][n]
      BY <1>3, <3>0
    <3>2. ASSUME \A y \in Objects : ~Bound(t, y), NEW n \in 1..spent[t]
          PROVE  ~(attempt[t][n].state = "started" /\ attempt[t][n].owed)
      <4>1. CASE n = spent[t]
        BY <1>0, <1>2, <1>3a, <3>2, <4>1 DEF Cleanly, Clean, Open, Current
      <4>2. CASE n # spent[t]
        BY <1>0, <1>3a, <3>2, <4>2 DEF Cleanly, Clean
      <4> QED
        BY <4>1, <4>2
    <3> QED
      BY <1>1, <1>3a, <1>6, <3>1, <3>2 DEF Clean, Bound
  <2> QED
    BY <1>0, <1>5, <2>1, CleanlyOf
<1>18. Openly'
  <2>1. Opened(t)'
    BY <1>0, <1>3, <1>3a, <1>3b, <1>3d, <1>6 DEF Openly, Opened, Current, AttemptIds
  <2> QED
    BY <1>0, <1>5, <2>1, OpenlyOf
<1>19. Tracking'
  <2>1. Track(t)'
    <3>1. ~Settling(t, spent[t] + 1)
      BY <1>0, <1>3a, NoneAssumption DEF Settling, Scans
    <3>2. \A y \in Objects, n \in AttemptIds : Witness(t, y, n) => Witness(t, y, n)'
      BY <1>1, <1>3, <1>3a, <1>6 DEF Witness, Settling
    <3>9. \A y \in Objects : Free(y)' => Free(y)
      BY <1>9 DEF Free, MoreBonds
    <3> QED
      BY <1>0, <1>1, <1>6, <3>1, <3>2, <3>9 DEF Tracking, Track, Settling, Current
  <2> QED
    BY <1>0, <1>5, <1>9, <2>1, TrackingOf
<1> QED
  BY <1>10, <1>11, <1>12, <1>13, <1>14, <1>15, <1>16, <1>17, <1>18, <1>19 DEF IInv

LEMMA BeginStopsStep ==
    ASSUME IInv, NEW t \in Transfers, Begin(t), pc'[t] # "opened"
    PROVE  IInv'
<1>0. TypeOK /\ Born /\ Bonds /\ Duties /\ Asked /\ Passes /\ Scans /\ Generations /\
      SoleOwner /\ FenceBound /\ Cleanly /\ Openly /\ Tracking
  BY DEF IInv
<1>2. /\ pc[t] = "routed"
      /\ pc' = [pc EXCEPT ![t] = "idle"]
      /\ UNCHANGED <<root, spent, pin, attempt>>
  <2>1. pc \in [Transfers -> {"idle", "routed", "draining", "unrouted", "opened", "calling",
                             "created", "refused", "uncertain", "erring", "failing",
                             "settling"}]
    BY <1>0 DEF TypeOK
  <2>2. pc' # [pc EXCEPT ![t] = "opened"]
    BY <2>1
  <2> QED
    BY <2>2 DEF Begin, Goto
<1>1. /\ UNCHANGED <<status, source, retired, imported, mode, closing>>
      /\ UNCHANGED <<root, bound, spent, pin, attempt, ans>>
      /\ UNCHANGED <<binding, latest, remote, made, blind, postdated>>
      /\ UNCHANGED <<inv, settler, scanned, upsets, budget>>
  BY <1>2
  DEF Begin, vars, work, torrents, requests, passes, resources, history, scans, tally
<1>5a. \A x \in Transfers \ {t} :
        pc'[x] = pc[x]
  BY <1>0, <1>2 DEF TypeOK
<1>5. Others(t)
  BY <1>1, <1>2, <1>5a DEF Others, Bound
<1>9. MoreBonds
  BY <1>1 DEF MoreBonds, Bound
<1>6. /\ pc[t] = "routed"
      /\ pc'[t] = "idle"
  BY <1>0, <1>1, <1>2 DEF TypeOK
<1>10. TypeOK'
  BY <1>0, <1>1, <1>2, <1>6 DEF TypeOK, Authorities
<1>11. Bonds' /\ Duties' /\ Asked' /\ Scans' /\ Generations' /\ SoleOwner'
  BY <1>0, <1>1, BondsFrame, DutiesFrame, AskedFrame, ScansFrame, GenerationsFrame,
  SoleOwnerFrame
<1>12. Born'
  <2>1. status[t] # "unborn"
    BY <1>0, <1>2 DEF Born, Unborn
  <2> QED
    BY <1>0, <1>5, <2>1, BornOf
<1>13. Passes'
  <2>1. Pass(t)'
    BY <1>0, <1>1, <1>6 DEF Passes, Pass, Bound
  <2> QED
    BY <1>0, <1>5, <1>9, <2>1, PassesOf
<1>14. FenceBound'
  <2>1. FenceRead(t)' => FenceRead(t)
    BY <1>0, <1>1, <1>6 DEF FenceRead, Live, Passes, Pass
  <2> QED
    BY <1>0, <1>1, <1>5, <2>1, FenceOf
<1>15. Cleanly'
  <2>1. Clean(t)'
    BY <1>0, <1>1, <1>6 DEF Cleanly, Clean, Open, Current, Bound
  <2> QED
    BY <1>0, <1>5, <2>1, CleanlyOf
<1>16. Openly'
  <2>1. Opened(t)'
    BY <1>0, <1>1, <1>6 DEF Openly, Opened, Current
  <2> QED
    BY <1>0, <1>5, <2>1, OpenlyOf
<1>17. Tracking'
  <2>1. Track(t)'
    <3>1. \A y \in Objects : Free(y)' => Free(y)
      BY <1>9 DEF Free, MoreBonds
    <3>2. \A y \in Objects, n \in AttemptIds : Witness(t, y, n) => Witness(t, y, n)'
      BY <1>1, <1>6 DEF Witness, Settling, Current
    <3> QED
      BY <1>0, <1>1, <1>6, <3>1, <3>2 DEF Tracking, Track, Settling, Current
  <2> QED
    BY <1>0, <1>5, <1>9, <2>1, TrackingOf
<1> QED
  BY <1>10, <1>11, <1>12, <1>13, <1>14, <1>15, <1>16, <1>17 DEF IInv

LEMMA BeginStep ==
    ASSUME IInv, NEW t \in Transfers, Begin(t)
    PROVE  IInv'
  BY BeginOpensStep, BeginStopsStep

LEMMA ArmStep ==
    ASSUME IInv, NEW t \in Transfers, Arm(t)
    PROVE  IInv'
<1>0. TypeOK /\ Born /\ Bonds /\ Duties /\ Asked /\ Passes /\ Scans /\ Generations /\
      SoleOwner /\ FenceBound /\ Cleanly /\ Openly /\ Tracking
  BY DEF IInv
<1>1. /\ UNCHANGED <<status, source, retired, imported, mode, closing>>
      /\ UNCHANGED <<root, bound, spent, pin, ans>>
      /\ UNCHANGED <<binding, latest, remote, made, postdated>>
      /\ UNCHANGED <<inv, settler, scanned, upsets, budget>>
  BY DEF Arm, Set, Goto, vars, work, torrents, requests, passes, resources, history, scans,
         tally
<1>2. /\ pc[t] = "opened"
      /\ attempt' = [attempt EXCEPT ![t][spent[t]] =
                     [Current(t) EXCEPT !.owed = Current(t).owed \/ Open(t)]]
      /\ blind' = IF Open(t) THEN blind ELSE blind \cup {t}
      /\ pc' = [pc EXCEPT ![t] = "calling"]
  BY DEF Arm, Set, Goto
<1>3a. spent[t] > 0
  BY <1>0, <1>2 DEF Passes, Pass, Open
<1> DEFINE r == [Current(t) EXCEPT !.owed = Current(t).owed \/ Open(t)]
<1>3b. r \in Attempts /\ r.state = Current(t).state /\ r.uncertain = Current(t).uncertain
       /\ (r.owed <=> Current(t).owed \/ Open(t))
  BY <1>0, <1>3a, CurrentType DEF Attempts, States, Open
<1>3c. attempt' = [attempt EXCEPT ![t][spent[t]] = r]
  BY <1>2
<1> HIDE DEF r
<1>3d. r \in Attempts /\ Set(t, r)
  BY <1>3b, <1>3c DEF Set
<1>3. /\ attempt' \in [Transfers -> [AttemptIds -> Attempts]]
      /\ spent[t] \in AttemptIds /\ attempt'[t][spent[t]] = r
      /\ \A n \in AttemptIds : n # spent[t] => attempt'[t][n] = attempt[t][n]
  BY <1>0, <1>3a, <1>3d, SetEffect
<1>3e. spent'[t] = spent[t]
  BY <1>1
<1>4. /\ spent[t] \in 1..spent[t] /\ Current(t)' = r /\ spent'[t] = spent[t]
      /\ \A n \in 1..(spent[t] - 1) : n \in AttemptIds /\ attempt'[t][n] = attempt[t][n]
      /\ Open(t)' <=> r.state = "started"
  <2>1. Current(t)' = r
    BY <1>3, <1>3e DEF Current
  <2>2. \A n \in 1..(spent[t] - 1) : n \in AttemptIds /\ n # spent[t]
    BY <1>0, <1>3, Types DEF AttemptIds
  <2>3. spent[t] \in 1..spent[t] /\ spent'[t] > 0
    BY <1>0, <1>3a, <1>3e, Types
  <2>4. Open(t)' <=> r.state = "started"
    BY <2>1, <2>3 DEF Open
  <2> QED
    BY <1>3, <1>3e, <2>1, <2>2, <2>3, <2>4
<1>5a. \A x \in Transfers \ {t} :
        attempt'[x] = attempt[x] /\ pc'[x] = pc[x]
  BY <1>0, <1>2 DEF TypeOK
<1>5. Others(t)
  BY <1>1, <1>2, <1>5a DEF Others, Bound
<1>9. MoreBonds
  BY <1>1 DEF MoreBonds, Bound
<1>6. /\ pc[t] = "opened"
      /\ pc'[t] = "calling" /\ (t \notin blind' => Open(t) /\ t \notin blind)
  BY <1>0, <1>1, <1>2 DEF TypeOK
<1>10. TypeOK'
  BY <1>0, <1>1, <1>2, <1>6, <1>3 DEF TypeOK, Authorities, Attempts, States
<1>11. Bonds' /\ Duties' /\ Asked' /\ Scans' /\ Generations' /\ SoleOwner'
  BY <1>0, <1>1, BondsFrame, DutiesFrame, AskedFrame, ScansFrame, GenerationsFrame,
  SoleOwnerFrame
<1>12. Born'
  <2>1. status[t] # "unborn"
    BY <1>0, <1>2 DEF Born, Unborn
  <2> QED
    BY <1>0, <1>5, <2>1, BornOf
<1>13. Passes'
  <2>1. Pass(t)'
    BY <1>0, <1>1, <1>6 DEF Passes, Pass, Bound
  <2> QED
    BY <1>0, <1>5, <1>9, <2>1, PassesOf
<1>14. FenceBound'
  <2>1. FenceRead(t)' => FenceRead(t)
    BY <1>0, <1>1, <1>6 DEF FenceRead, Live, Passes, Pass
  <2> QED
    BY <1>0, <1>1, <1>5, <2>1, FenceOf
<1>15. Cleanly'
  <2>1. Clean(t)'
    BY <1>0, <1>1, <1>3, <1>3b, <1>4, <1>6 DEF Cleanly, Clean, Open, Bound
  <2> QED
    BY <1>0, <1>5, <2>1, CleanlyOf
<1>16. Openly'
  <2>1. Opened(t)'
    BY <1>0, <1>1, <1>3, <1>3b, <1>4, <1>6 DEF Openly, Opened, Current
  <2> QED
    BY <1>0, <1>5, <2>1, OpenlyOf
<1>17. Tracking'
  <2>1. Track(t)'
    <3>1. \A y \in Objects : Free(y)' => Free(y)
      BY <1>9 DEF Free, MoreBonds
    <3>2. \A y \in Objects, n \in AttemptIds : Witness(t, y, n) => Witness(t, y, n)'
      BY <1>1, <1>6, <1>3, <1>3b, <1>4 DEF Witness, Settling, Current
    <3> QED
      BY <1>0, <1>1, <1>6, <1>3, <1>3b, <1>4, <3>1, <3>2
      DEF Tracking, Track, Settling, Current
  <2> QED
    BY <1>0, <1>5, <1>9, <2>1, TrackingOf
<1> QED
  BY <1>10, <1>11, <1>12, <1>13, <1>14, <1>15, <1>16, <1>17 DEF IInv

LEMMA ProviderCreatesStep ==
    ASSUME IInv, NEW t \in Transfers, NEW o \in Objects, ProviderCreates(t, o)
    PROVE  IInv'
<1>0. TypeOK /\ Born /\ Bonds /\ Duties /\ Asked /\ Passes /\ Scans /\ Generations /\
      SoleOwner /\ FenceBound /\ Cleanly /\ Openly /\ Tracking
  BY DEF IInv
<1>1. /\ UNCHANGED <<status, source, retired, imported, mode, closing>>
      /\ UNCHANGED <<root, bound, spent, pin, attempt>>
      /\ UNCHANGED <<binding, latest, blind, postdated>>
      /\ UNCHANGED <<inv, settler, scanned, upsets, budget>>
  BY DEF ProviderCreates, Goto, vars, work, torrents, requests, passes, resources, history,
         scans, tally
<1>2. /\ pc[t] = "calling"
      /\ remote' = remote \cup {o} /\ made' = made \cup {<<t, o>>}
      /\ ans' = [ans EXCEPT ![t] = o]
      /\ pc' = [pc EXCEPT ![t] = "created"]
  BY DEF ProviderCreates, Goto
<1>5a. \A x \in Transfers \ {t} :
        pc'[x] = pc[x] /\ ans'[x] = ans[x]
  BY <1>0, <1>2 DEF TypeOK
<1>5. Others(t)
  BY <1>1, <1>2, <1>5a DEF Others, Bound
<1>9. MoreBonds
  BY <1>1 DEF MoreBonds, Bound
<1>6. /\ pc[t] = "calling"
      /\ pc'[t] = "created" /\ ans'[t] = o
  BY <1>0, <1>1, <1>2 DEF TypeOK
<1>10. TypeOK'
  BY <1>0, <1>1, <1>2, <1>6 DEF TypeOK, Authorities, Bindings
<1>11. Bonds' /\ Duties' /\ Asked' /\ Scans' /\ Generations' /\ SoleOwner'
  BY <1>0, <1>1, BondsFrame, DutiesFrame, AskedFrame, ScansFrame, GenerationsFrame,
  SoleOwnerFrame
<1>12. Born'
  <2>1. status[t] # "unborn"
    BY <1>0, <1>2 DEF Born, Unborn
  <2> QED
    BY <1>0, <1>5, <2>1, BornOf
<1>13. Passes'
  <2>1. Pass(t)'
    BY <1>0, <1>1, <1>6 DEF Passes, Pass, Bound
  <2> QED
    BY <1>0, <1>5, <1>9, <2>1, PassesOf
<1>14. FenceBound'
  <2>1. FenceRead(t)' => FenceRead(t)
    BY <1>0, <1>1, <1>6 DEF FenceRead, Live, Passes, Pass
  <2> QED
    BY <1>0, <1>1, <1>5, <2>1, FenceOf
<1>15. Cleanly'
  <2>1. Clean(t)'
    BY <1>0, <1>1, <1>6 DEF Cleanly, Clean, Open, Current, Bound
  <2> QED
    BY <1>0, <1>5, <2>1, CleanlyOf
<1>16. Openly'
  <2>1. Opened(t)'
    BY <1>0, <1>1, <1>6 DEF Openly, Opened, Current
  <2> QED
    BY <1>0, <1>5, <2>1, OpenlyOf
<1>17. Tracking'
  <2>1. Track(t)'
    <3>1. spent[t] \in AttemptIds /\ spent[t] \in 1..spent[t]
      BY <1>0, <1>2, CurrentType DEF Passes, Pass, AttemptIds
    <3>2. t \notin blind => Current(t).owed /\ ~Settling(t, spent[t])
      BY <1>0, <1>2 DEF Tracking, Track
    <3>3. t \notin blind => Witness(t, o, spent[t])'
      BY <1>1, <1>6, <3>1, <3>2 DEF Witness, Settling, Current
    <3>4. \A y \in Objects, n \in AttemptIds : Witness(t, y, n) => Witness(t, y, n)'
      BY <1>1, <1>2, <1>6 DEF Witness, Settling
    <3>5. \A y \in Objects : Free(y)' => Free(y)
      BY <1>9 DEF Free, MoreBonds
    <3>6. \A y \in Objects : <<t, y>> \in made' => <<t, y>> \in made \/ y = o
      BY <1>2
    <3> QED
      BY <1>0, <1>1, <1>2, <1>6, <3>1, <3>3, <3>4, <3>5, <3>6 DEF Tracking, Track
  <2> QED
    BY <1>0, <1>5, <1>9, <2>1, TrackingOf
<1> QED
  BY <1>10, <1>11, <1>12, <1>13, <1>14, <1>15, <1>16, <1>17 DEF IInv

LEMMA ProviderFailsStep ==
    ASSUME IInv, NEW t \in Transfers, ProviderFails(t)
    PROVE  IInv'
<1>0. TypeOK /\ Born /\ Bonds /\ Duties /\ Asked /\ Passes /\ Scans /\ Generations /\
      SoleOwner /\ FenceBound /\ Cleanly /\ Openly /\ Tracking
  BY DEF IInv
<1>1. /\ UNCHANGED <<status, source, retired, imported, mode, closing>>
      /\ UNCHANGED <<root, bound, spent, pin, attempt>>
      /\ UNCHANGED <<binding, latest, remote, made, blind, postdated>>
      /\ UNCHANGED <<inv, settler, scanned, budget>>
  BY DEF ProviderFails, Upset, Goto, vars, work, torrents, requests, passes, resources,
         history, scans, tally
<1>2. /\ upsets' = upsets + 1
      /\ pc[t] \in {"calling", "created"}
      /\ \E w \in {"refused", "uncertain"} :
           pc' = [pc EXCEPT ![t] = w] /\ (w = "refused" => pc[t] = "calling")
      /\ ans' = [ans EXCEPT ![t] = None]
  BY DEF ProviderFails, Upset, Goto
<1>3. PICK w \in {"refused", "uncertain"} :
        pc' = [pc EXCEPT ![t] = w] /\ (w = "refused" => pc[t] = "calling")
  BY <1>2
<1>5a. \A x \in Transfers \ {t} :
        pc'[x] = pc[x] /\ ans'[x] = ans[x]
  BY <1>0, <1>2 DEF TypeOK
<1>5. Others(t)
  BY <1>1, <1>2, <1>5a DEF Others, Bound
<1>9. MoreBonds
  BY <1>1 DEF MoreBonds, Bound
<1>6. /\ pc[t] \in {"calling", "created"}
      /\ pc'[t] \in {"uncertain", "refused"} /\ (pc'[t] = "refused" => pc[t] = "calling")
  BY <1>0, <1>1, <1>2, <1>3 DEF TypeOK
<1>10. TypeOK'
  BY <1>0, <1>1, <1>2, <1>6, <1>3 DEF TypeOK, Authorities
<1>11. Bonds' /\ Duties' /\ Asked' /\ Scans' /\ Generations' /\ SoleOwner'
  BY <1>0, <1>1, BondsFrame, DutiesFrame, AskedFrame, ScansFrame, GenerationsFrame,
  SoleOwnerFrame
<1>12. Born'
  <2>1. status[t] # "unborn"
    BY <1>0, <1>2 DEF Born, Unborn
  <2> QED
    BY <1>0, <1>5, <2>1, BornOf
<1>13. Passes'
  <2>1. Pass(t)'
    BY <1>0, <1>1, <1>6 DEF Passes, Pass, Bound
  <2> QED
    BY <1>0, <1>5, <1>9, <2>1, PassesOf
<1>14. FenceBound'
  <2>1. FenceRead(t)' => FenceRead(t)
    BY <1>0, <1>1, <1>6 DEF FenceRead, Live, Passes, Pass
  <2> QED
    BY <1>0, <1>1, <1>5, <2>1, FenceOf
<1>15. Cleanly'
  <2>1. Clean(t)'
    BY <1>0, <1>1, <1>6 DEF Cleanly, Clean, Open, Current, Bound
  <2> QED
    BY <1>0, <1>5, <2>1, CleanlyOf
<1>16. Openly'
  <2>1. Opened(t)'
    BY <1>0, <1>1, <1>6 DEF Openly, Opened, Current
  <2> QED
    BY <1>0, <1>5, <2>1, OpenlyOf
<1>17. Tracking'
  <2>1. Track(t)'
    <3>1. \A y \in Objects : Free(y)' => Free(y)
      BY <1>9 DEF Free, MoreBonds
    <3>2. \A y \in Objects, n \in AttemptIds : Witness(t, y, n) => Witness(t, y, n)'
      BY <1>1, <1>6 DEF Witness, Settling, Current
    <3> QED
      BY <1>0, <1>1, <1>6, <3>1, <3>2 DEF Tracking, Track, Settling, Current
  <2> QED
    BY <1>0, <1>5, <1>9, <2>1, TrackingOf
<1> QED
  BY <1>10, <1>11, <1>12, <1>13, <1>14, <1>15, <1>16, <1>17 DEF IInv

LEMMA RefusedStep ==
    ASSUME IInv, NEW t \in Transfers, Refused(t)
    PROVE  IInv'
<1>0. TypeOK /\ Born /\ Bonds /\ Duties /\ Asked /\ Passes /\ Scans /\ Generations /\
      SoleOwner /\ FenceBound /\ Cleanly /\ Openly /\ Tracking
  BY DEF IInv
<1>1. /\ UNCHANGED <<status, source, retired, imported, mode, closing>>
      /\ UNCHANGED <<root, bound, spent, pin, ans>>
      /\ UNCHANGED <<binding, latest, remote, made, blind, postdated>>
      /\ UNCHANGED <<inv, settler, scanned, upsets, budget>>
  BY DEF Refused, Set, Goto, vars, work, torrents, requests, passes, resources, history,
         scans, tally
<1>2. /\ pc[t] = "refused"
      /\ attempt' = [attempt EXCEPT ![t][spent[t]] = [Current(t) EXCEPT !.owed = FALSE]]
      /\ pc' = [pc EXCEPT ![t] = "erring"]
  BY DEF Refused, Set, Goto
<1>3a. spent[t] > 0
  BY <1>0, <1>2 DEF Passes, Pass, Open
<1> DEFINE r == [Current(t) EXCEPT !.owed = FALSE]
<1>3b. r \in Attempts /\ r.state = Current(t).state /\ ~r.owed
  BY <1>0, <1>3a, CurrentType DEF Attempts, States, Open
<1>3c. attempt' = [attempt EXCEPT ![t][spent[t]] = r]
  BY <1>2
<1> HIDE DEF r
<1>3d. r \in Attempts /\ Set(t, r)
  BY <1>3b, <1>3c DEF Set
<1>3. /\ attempt' \in [Transfers -> [AttemptIds -> Attempts]]
      /\ spent[t] \in AttemptIds /\ attempt'[t][spent[t]] = r
      /\ \A n \in AttemptIds : n # spent[t] => attempt'[t][n] = attempt[t][n]
  BY <1>0, <1>3a, <1>3d, SetEffect
<1>3e. spent'[t] = spent[t]
  BY <1>1
<1>4. /\ spent[t] \in 1..spent[t] /\ Current(t)' = r /\ spent'[t] = spent[t]
      /\ \A n \in 1..(spent[t] - 1) : n \in AttemptIds /\ attempt'[t][n] = attempt[t][n]
      /\ Open(t)' <=> r.state = "started"
  <2>1. Current(t)' = r
    BY <1>3, <1>3e DEF Current
  <2>2. \A n \in 1..(spent[t] - 1) : n \in AttemptIds /\ n # spent[t]
    BY <1>0, <1>3, Types DEF AttemptIds
  <2>3. spent[t] \in 1..spent[t] /\ spent'[t] > 0
    BY <1>0, <1>3a, <1>3e, Types
  <2>4. Open(t)' <=> r.state = "started"
    BY <2>1, <2>3 DEF Open
  <2> QED
    BY <1>3, <1>3e, <2>1, <2>2, <2>3, <2>4
<1>5a. \A x \in Transfers \ {t} :
        attempt'[x] = attempt[x] /\ pc'[x] = pc[x]
  BY <1>0, <1>2 DEF TypeOK
<1>5. Others(t)
  BY <1>1, <1>2, <1>5a DEF Others, Bound
<1>9. MoreBonds
  BY <1>1 DEF MoreBonds, Bound
<1>6. /\ pc[t] = "refused"
      /\ pc'[t] = "erring"
  BY <1>0, <1>1, <1>2 DEF TypeOK
<1>10. TypeOK'
  BY <1>0, <1>1, <1>2, <1>6, <1>3 DEF TypeOK, Authorities, Attempts, States
<1>11. Bonds' /\ Duties' /\ Asked' /\ Scans' /\ Generations' /\ SoleOwner'
  BY <1>0, <1>1, BondsFrame, DutiesFrame, AskedFrame, ScansFrame, GenerationsFrame,
  SoleOwnerFrame
<1>12. Born'
  <2>1. status[t] # "unborn"
    BY <1>0, <1>2 DEF Born, Unborn
  <2> QED
    BY <1>0, <1>5, <2>1, BornOf
<1>13. Passes'
  <2>1. Pass(t)'
    BY <1>0, <1>1, <1>6 DEF Passes, Pass, Bound
  <2> QED
    BY <1>0, <1>5, <1>9, <2>1, PassesOf
<1>14. FenceBound'
  <2>1. FenceRead(t)' => FenceRead(t)
    BY <1>0, <1>1, <1>6 DEF FenceRead, Live, Passes, Pass
  <2> QED
    BY <1>0, <1>1, <1>5, <2>1, FenceOf
<1>15. Cleanly'
  <2>1. Clean(t)'
    BY <1>0, <1>1, <1>3, <1>3b, <1>4, <1>6 DEF Cleanly, Clean, Open, Bound
  <2> QED
    BY <1>0, <1>5, <2>1, CleanlyOf
<1>16. Openly'
  <2>1. Opened(t)'
    BY <1>0, <1>1, <1>3, <1>3b, <1>4, <1>6 DEF Openly, Opened, Current
  <2> QED
    BY <1>0, <1>5, <2>1, OpenlyOf
<1>17. Tracking'
  <2>1. Track(t)'
    <3>1. \A y \in Objects : Free(y)' => Free(y)
      BY <1>9 DEF Free, MoreBonds
    <3>2. \A y \in Objects, n \in AttemptIds : Witness(t, y, n) => Witness(t, y, n)'
      BY <1>1, <1>6, <1>3, <1>3b, <1>4 DEF Witness, Settling, Current
    <3> QED
      BY <1>0, <1>1, <1>6, <1>3, <1>3b, <1>4, <3>1, <3>2
      DEF Tracking, Track, Settling, Current
  <2> QED
    BY <1>0, <1>5, <1>9, <2>1, TrackingOf
<1> QED
  BY <1>10, <1>11, <1>12, <1>13, <1>14, <1>15, <1>16, <1>17 DEF IInv

LEMMA HoldOpenStep ==
    ASSUME IInv, NEW t \in Transfers, Hold(t), Open(t)
    PROVE  IInv'
<1>0. TypeOK /\ Born /\ Bonds /\ Duties /\ Asked /\ Passes /\ Scans /\ Generations /\
      SoleOwner /\ FenceBound /\ Cleanly /\ Openly /\ Tracking
  BY DEF IInv
<1>1. /\ UNCHANGED <<status, source, retired, imported, mode, closing>>
      /\ UNCHANGED <<bound, spent, pin, ans>>
      /\ UNCHANGED <<binding, latest, remote, made, blind, postdated>>
      /\ UNCHANGED <<inv, settler, scanned, upsets, budget>>
  BY DEF Hold, Set, Goto, vars, work, torrents, requests, passes, resources, history, scans,
         tally
<1>2. /\ pc[t] = "uncertain"
      /\ attempt' = [attempt EXCEPT ![t][spent[t]] =
                     [Current(t) EXCEPT !.owed = TRUE, !.uncertain = TRUE]]
      /\ root' \in {root, [root EXCEPT ![t] = "pending"]}
      /\ pc' \in {[pc EXCEPT ![t] = "idle"], [pc EXCEPT ![t] = "erring"]}
  BY DEF Hold, Set, Goto
<1>3a. spent[t] > 0
  BY <1>0, <1>2 DEF Passes, Pass, Open
<1> DEFINE r == [Current(t) EXCEPT !.owed = TRUE, !.uncertain = TRUE]
<1>3b. r \in Attempts /\ r.state = Current(t).state /\ r.owed /\ r.uncertain
  BY <1>0, <1>3a, CurrentType DEF Attempts, States, Open
<1>3c. attempt' = [attempt EXCEPT ![t][spent[t]] = r]
  BY <1>2
<1> HIDE DEF r
<1>3d. r \in Attempts /\ Set(t, r)
  BY <1>3b, <1>3c DEF Set
<1>3. /\ attempt' \in [Transfers -> [AttemptIds -> Attempts]]
      /\ spent[t] \in AttemptIds /\ attempt'[t][spent[t]] = r
      /\ \A n \in AttemptIds : n # spent[t] => attempt'[t][n] = attempt[t][n]
  BY <1>0, <1>3a, <1>3d, SetEffect
<1>3e. spent'[t] = spent[t]
  BY <1>1
<1>4. /\ spent[t] \in 1..spent[t] /\ Current(t)' = r /\ spent'[t] = spent[t]
      /\ \A n \in 1..(spent[t] - 1) : n \in AttemptIds /\ attempt'[t][n] = attempt[t][n]
      /\ Open(t)' <=> r.state = "started"
  <2>1. Current(t)' = r
    BY <1>3, <1>3e DEF Current
  <2>2. \A n \in 1..(spent[t] - 1) : n \in AttemptIds /\ n # spent[t]
    BY <1>0, <1>3, Types DEF AttemptIds
  <2>3. spent[t] \in 1..spent[t] /\ spent'[t] > 0
    BY <1>0, <1>3a, <1>3e, Types
  <2>4. Open(t)' <=> r.state = "started"
    BY <2>1, <2>3 DEF Open
  <2> QED
    BY <1>3, <1>3e, <2>1, <2>2, <2>3, <2>4
<1>5r. /\ pc' = [pc EXCEPT ![t] = "idle"] \/ pc' = [pc EXCEPT ![t] = "erring"]
       /\ root' = [root EXCEPT ![t] = "pending"] \/ root' = root
  BY <1>2
<1>5p. /\ pc \in [Transfers -> Phases] /\ root \in [Transfers -> Roots]
       /\ "idle" \in Phases /\ "erring" \in Phases /\ "pending" \in Roots
  BY <1>0 DEF TypeOK, Phases, Roots
<1>5a. \A x \in Transfers \ {t} :
        root'[x] = root[x] /\ attempt'[x] = attempt[x] /\ pc'[x] = pc[x]
  <2>1. \A x \in Transfers \ {t} : attempt'[x] = attempt[x]
    BY <1>0, <1>3c DEF TypeOK
  <2> QED
    BY <1>5r, <1>5p, <2>1
<1>5. Others(t)
  BY <1>1, <1>2, <1>5a DEF Others, Bound
<1>9. MoreBonds
  BY <1>1 DEF MoreBonds, Bound
<1>6. /\ pc[t] = "uncertain"
      /\ pc'[t] \in {"idle", "erring"} /\ root'[t] \in {"pending", root[t]}
  BY <1>0, <1>1, <1>2, <1>5r, <1>5p
<1>10. TypeOK'
  <2>1. root' \in [Transfers -> Roots] /\ pc' \in [Transfers -> Phases]
    BY <1>5r, <1>5p
  <2> QED
    BY <1>0, <1>1, <1>3, <2>1 DEF TypeOK, Phases, Roots, Authorities, Attempts, States
<1>11. Duties' /\ Asked' /\ Scans' /\ Generations' /\ SoleOwner'
  BY <1>0, <1>1, DutiesFrame, AskedFrame, ScansFrame, GenerationsFrame, SoleOwnerFrame
<1>12. Born'
  <2>1. status[t] # "unborn"
    BY <1>0, <1>2 DEF Born, Unborn
  <2> QED
    BY <1>0, <1>5, <2>1, BornOf
<1>13. Bonds'
  BY <1>0, <1>1, <1>5, <1>6 DEF Bonds, Lately, Bound, Others
<1>14. Passes'
  <2>1. Pass(t)'
    BY <1>0, <1>1, <1>6 DEF Passes, Pass, Bound
  <2> QED
    BY <1>0, <1>5, <1>9, <2>1, PassesOf
<1>15. FenceBound'
  <2>1. FenceRead(t)' => FenceRead(t)
    BY <1>0, <1>1, <1>6 DEF FenceRead, Live, Passes, Pass
  <2> QED
    BY <1>0, <1>1, <1>5, <2>1, FenceOf
<1>16. Cleanly'
  <2>1. Clean(t)'
    BY <1>0, <1>1, <1>3, <1>3b, <1>4, <1>6 DEF Cleanly, Clean, Open, Bound
  <2> QED
    BY <1>0, <1>5, <2>1, CleanlyOf
<1>17. Openly'
  <2>1. Opened(t)'
    BY <1>0, <1>1, <1>3, <1>3b, <1>4, <1>6 DEF Openly, Opened, Current
  <2> QED
    BY <1>0, <1>5, <2>1, OpenlyOf
<1>18. Tracking'
  <2>1. Track(t)'
    <3>1. \A y \in Objects : Free(y)' => Free(y)
      BY <1>9 DEF Free, MoreBonds
    <3>2. \A y \in Objects, n \in AttemptIds : Witness(t, y, n) => Witness(t, y, n)'
      BY <1>1, <1>6, <1>3, <1>3b, <1>4 DEF Witness, Settling, Current
    <3> QED
      BY <1>0, <1>1, <1>6, <1>3, <1>3b, <1>4, <3>1, <3>2
      DEF Tracking, Track, Settling, Current
  <2> QED
    BY <1>0, <1>5, <1>9, <2>1, TrackingOf
<1> QED
  BY <1>10, <1>11, <1>12, <1>13, <1>14, <1>15, <1>16, <1>17, <1>18 DEF IInv

LEMMA HoldClosedStep ==
    ASSUME IInv, NEW t \in Transfers, Hold(t), ~Open(t)
    PROVE  IInv'
<1>0. TypeOK /\ Born /\ Bonds /\ Duties /\ Asked /\ Passes /\ Scans /\ Generations /\
      SoleOwner /\ FenceBound /\ Cleanly /\ Openly /\ Tracking
  BY DEF IInv
<1>1. /\ UNCHANGED <<status, source, retired, imported, mode, closing>>
      /\ UNCHANGED <<root, bound, spent, pin, attempt, ans>>
      /\ UNCHANGED <<binding, latest, remote, made, blind, postdated>>
      /\ UNCHANGED <<inv, settler, scanned, upsets, budget>>
  BY DEF Hold, Goto, vars, work, torrents, requests, passes, resources, history, scans, tally
<1>2. /\ pc[t] = "uncertain" /\ ~Open(t)
      /\ pc' = [pc EXCEPT ![t] = "erring"]
  BY DEF Hold, Goto
<1>5a. \A x \in Transfers \ {t} :
        pc'[x] = pc[x]
  BY <1>0, <1>2 DEF TypeOK
<1>5. Others(t)
  BY <1>1, <1>2, <1>5a DEF Others, Bound
<1>9. MoreBonds
  BY <1>1 DEF MoreBonds, Bound
<1>6. /\ pc[t] = "uncertain" /\ ~Open(t)
      /\ pc'[t] = "erring"
  BY <1>0, <1>1, <1>2 DEF TypeOK
<1>10. TypeOK'
  BY <1>0, <1>1, <1>2, <1>6 DEF TypeOK, Authorities
<1>11. Bonds' /\ Duties' /\ Asked' /\ Scans' /\ Generations' /\ SoleOwner'
  BY <1>0, <1>1, BondsFrame, DutiesFrame, AskedFrame, ScansFrame, GenerationsFrame,
  SoleOwnerFrame
<1>12. Born'
  <2>1. status[t] # "unborn"
    BY <1>0, <1>2 DEF Born, Unborn
  <2> QED
    BY <1>0, <1>5, <2>1, BornOf
<1>13. Passes'
  <2>1. Pass(t)'
    BY <1>0, <1>1, <1>6 DEF Passes, Pass, Bound
  <2> QED
    BY <1>0, <1>5, <1>9, <2>1, PassesOf
<1>14. FenceBound'
  <2>1. FenceRead(t)' => FenceRead(t)
    BY <1>0, <1>1, <1>6 DEF FenceRead, Live, Passes, Pass
  <2> QED
    BY <1>0, <1>1, <1>5, <2>1, FenceOf
<1>15. Cleanly'
  <2>1. Clean(t)'
    BY <1>0, <1>1, <1>6 DEF Cleanly, Clean, Open, Current, Bound
  <2> QED
    BY <1>0, <1>5, <2>1, CleanlyOf
<1>16. Openly'
  <2>1. Opened(t)'
    BY <1>0, <1>1, <1>6 DEF Openly, Opened, Current
  <2> QED
    BY <1>0, <1>5, <2>1, OpenlyOf
<1>17. Tracking'
  <2>1. Track(t)'
    <3>1. \A y \in Objects : Free(y)' => Free(y)
      BY <1>9 DEF Free, MoreBonds
    <3>2. \A y \in Objects, n \in AttemptIds : Witness(t, y, n) => Witness(t, y, n)'
      BY <1>1, <1>6 DEF Witness, Settling, Current
    <3> QED
      BY <1>0, <1>1, <1>6, <3>1, <3>2 DEF Tracking, Track, Settling, Current
  <2> QED
    BY <1>0, <1>5, <1>9, <2>1, TrackingOf
<1> QED
  BY <1>10, <1>11, <1>12, <1>13, <1>14, <1>15, <1>16, <1>17 DEF IInv

LEMMA HoldStep ==
    ASSUME IInv, NEW t \in Transfers, Hold(t)
    PROVE  IInv'
  BY HoldOpenStep, HoldClosedStep

LEMMA ErringOpenStep ==
    ASSUME IInv, NEW t \in Transfers, Erring(t), Open(t)
    PROVE  IInv'
<1>0. TypeOK /\ Born /\ Bonds /\ Duties /\ Asked /\ Passes /\ Scans /\ Generations /\
      SoleOwner /\ FenceBound /\ Cleanly /\ Openly /\ Tracking
  BY DEF IInv
<1>1. /\ UNCHANGED <<status, source, retired, imported, mode, closing>>
      /\ UNCHANGED <<bound, spent, pin, ans>>
      /\ UNCHANGED <<binding, latest, remote, made, blind, postdated>>
      /\ UNCHANGED <<inv, settler, scanned, upsets, budget>>
  BY DEF Erring, Set, Goto, vars, work, torrents, requests, passes, resources, history,
         scans, tally
<1>2. /\ pc[t] = "erring"
      /\ attempt' = [attempt EXCEPT ![t][spent[t]] = [Current(t) EXCEPT !.state = "failed"]]
      /\ root' = IF Live(t) THEN [root EXCEPT ![t] = "failed"] ELSE root
      /\ pc' = [pc EXCEPT ![t] = "failing"]
  BY DEF Erring, Set, Goto
<1>3a. spent[t] > 0
  BY <1>0, <1>2 DEF Passes, Pass, Open
<1> DEFINE r == [Current(t) EXCEPT !.state = "failed"]
<1>3b. r \in Attempts /\ r.state = "failed" /\ r.owed = Current(t).owed
  BY <1>0, <1>3a, CurrentType DEF Attempts, States, Open
<1>3c. attempt' = [attempt EXCEPT ![t][spent[t]] = r]
  BY <1>2
<1> HIDE DEF r
<1>3d. r \in Attempts /\ Set(t, r)
  BY <1>3b, <1>3c DEF Set
<1>3. /\ attempt' \in [Transfers -> [AttemptIds -> Attempts]]
      /\ spent[t] \in AttemptIds /\ attempt'[t][spent[t]] = r
      /\ \A n \in AttemptIds : n # spent[t] => attempt'[t][n] = attempt[t][n]
  BY <1>0, <1>3a, <1>3d, SetEffect
<1>3e. spent'[t] = spent[t]
  BY <1>1
<1>4. /\ spent[t] \in 1..spent[t] /\ Current(t)' = r /\ spent'[t] = spent[t]
      /\ \A n \in 1..(spent[t] - 1) : n \in AttemptIds /\ attempt'[t][n] = attempt[t][n]
      /\ Open(t)' <=> r.state = "started"
  <2>1. Current(t)' = r
    BY <1>3, <1>3e DEF Current
  <2>2. \A n \in 1..(spent[t] - 1) : n \in AttemptIds /\ n # spent[t]
    BY <1>0, <1>3, Types DEF AttemptIds
  <2>3. spent[t] \in 1..spent[t] /\ spent'[t] > 0
    BY <1>0, <1>3a, <1>3e, Types
  <2>4. Open(t)' <=> r.state = "started"
    BY <2>1, <2>3 DEF Open
  <2> QED
    BY <1>3, <1>3e, <2>1, <2>2, <2>3, <2>4
<1>5a. \A x \in Transfers \ {t} :
        root'[x] = root[x] /\ attempt'[x] = attempt[x] /\ pc'[x] = pc[x]
  BY <1>0, <1>2 DEF TypeOK
<1>5. Others(t)
  BY <1>1, <1>2, <1>5a DEF Others, Bound
<1>9. MoreBonds
  BY <1>1 DEF MoreBonds, Bound
<1>6. /\ pc[t] = "erring"
      /\ pc'[t] = "failing" /\ root'[t] \in {"failed", root[t]}
  BY <1>0, <1>1, <1>2 DEF TypeOK
<1>10. TypeOK'
  BY <1>0, <1>1, <1>2, <1>6, <1>3 DEF TypeOK, Authorities, Attempts, States
<1>11. Duties' /\ Asked' /\ Scans' /\ Generations' /\ SoleOwner'
  BY <1>0, <1>1, DutiesFrame, AskedFrame, ScansFrame, GenerationsFrame, SoleOwnerFrame
<1>12. Born'
  <2>1. status[t] # "unborn"
    BY <1>0, <1>2 DEF Born, Unborn
  <2> QED
    BY <1>0, <1>5, <2>1, BornOf
<1>13. Bonds'
  BY <1>0, <1>1, <1>5, <1>6 DEF Bonds, Lately, Bound, Others
<1>14. Passes'
  <2>1. Pass(t)'
    BY <1>0, <1>1, <1>6 DEF Passes, Pass, Bound
  <2> QED
    BY <1>0, <1>5, <1>9, <2>1, PassesOf
<1>15. FenceBound'
  <2>1. FenceRead(t)' => FenceRead(t)
    BY <1>0, <1>1, <1>6 DEF FenceRead, Live, Passes, Pass
  <2> QED
    BY <1>0, <1>1, <1>5, <2>1, FenceOf
<1>16. Cleanly'
  <2>1. Clean(t)'
    BY <1>0, <1>1, <1>3, <1>3b, <1>4, <1>6 DEF Cleanly, Clean, Open, Bound
  <2> QED
    BY <1>0, <1>5, <2>1, CleanlyOf
<1>17. Openly'
  <2>1. Opened(t)'
    BY <1>0, <1>1, <1>3, <1>3b, <1>4, <1>6 DEF Openly, Opened, Current
  <2> QED
    BY <1>0, <1>5, <2>1, OpenlyOf
<1>18. Tracking'
  <2>1. Track(t)'
    <3>1. \A y \in Objects : Free(y)' => Free(y)
      BY <1>9 DEF Free, MoreBonds
    <3>2. \A y \in Objects, n \in AttemptIds : Witness(t, y, n) => Witness(t, y, n)'
      BY <1>1, <1>6, <1>3, <1>3b, <1>4 DEF Witness, Settling, Current
    <3> QED
      BY <1>0, <1>1, <1>6, <1>3, <1>3b, <1>4, <3>1, <3>2
      DEF Tracking, Track, Settling, Current
  <2> QED
    BY <1>0, <1>5, <1>9, <2>1, TrackingOf
<1> QED
  BY <1>10, <1>11, <1>12, <1>13, <1>14, <1>15, <1>16, <1>17, <1>18 DEF IInv

LEMMA ErringClosedStep ==
    ASSUME IInv, NEW t \in Transfers, Erring(t), ~Open(t)
    PROVE  IInv'
<1>0. TypeOK /\ Born /\ Bonds /\ Duties /\ Asked /\ Passes /\ Scans /\ Generations /\
      SoleOwner /\ FenceBound /\ Cleanly /\ Openly /\ Tracking
  BY DEF IInv
<1>1. /\ UNCHANGED <<status, source, retired, imported, mode, closing>>
      /\ UNCHANGED <<root, bound, spent, pin, attempt, ans>>
      /\ UNCHANGED <<binding, latest, remote, made, blind, postdated>>
      /\ UNCHANGED <<inv, settler, scanned, upsets, budget>>
  BY DEF Erring, Goto, vars, work, torrents, requests, passes, resources, history, scans,
         tally
<1>2. /\ pc[t] = "erring"
      /\ pc' = [pc EXCEPT ![t] = "idle"]
  BY DEF Erring, Goto
<1>5a. \A x \in Transfers \ {t} :
        pc'[x] = pc[x]
  BY <1>0, <1>2 DEF TypeOK
<1>5. Others(t)
  BY <1>1, <1>2, <1>5a DEF Others, Bound
<1>9. MoreBonds
  BY <1>1 DEF MoreBonds, Bound
<1>6. /\ pc[t] = "erring"
      /\ pc'[t] = "idle"
  BY <1>0, <1>1, <1>2 DEF TypeOK
<1>10. TypeOK'
  BY <1>0, <1>1, <1>2, <1>6 DEF TypeOK, Authorities
<1>11. Bonds' /\ Duties' /\ Asked' /\ Scans' /\ Generations' /\ SoleOwner'
  BY <1>0, <1>1, BondsFrame, DutiesFrame, AskedFrame, ScansFrame, GenerationsFrame,
  SoleOwnerFrame
<1>12. Born'
  <2>1. status[t] # "unborn"
    BY <1>0, <1>2 DEF Born, Unborn
  <2> QED
    BY <1>0, <1>5, <2>1, BornOf
<1>13. Passes'
  <2>1. Pass(t)'
    BY <1>0, <1>1, <1>6 DEF Passes, Pass, Bound
  <2> QED
    BY <1>0, <1>5, <1>9, <2>1, PassesOf
<1>14. FenceBound'
  <2>1. FenceRead(t)' => FenceRead(t)
    BY <1>0, <1>1, <1>6 DEF FenceRead, Live, Passes, Pass
  <2> QED
    BY <1>0, <1>1, <1>5, <2>1, FenceOf
<1>15. Cleanly'
  <2>1. Clean(t)'
    BY <1>0, <1>1, <1>6 DEF Cleanly, Clean, Open, Current, Bound
  <2> QED
    BY <1>0, <1>5, <2>1, CleanlyOf
<1>16. Openly'
  <2>1. Opened(t)'
    BY <1>0, <1>1, <1>6 DEF Openly, Opened, Current
  <2> QED
    BY <1>0, <1>5, <2>1, OpenlyOf
<1>17. Tracking'
  <2>1. Track(t)'
    <3>1. \A y \in Objects : Free(y)' => Free(y)
      BY <1>9 DEF Free, MoreBonds
    <3>2. \A y \in Objects, n \in AttemptIds : Witness(t, y, n) => Witness(t, y, n)'
      BY <1>1, <1>6 DEF Witness, Settling, Current
    <3> QED
      BY <1>0, <1>1, <1>6, <3>1, <3>2 DEF Tracking, Track, Settling, Current
  <2> QED
    BY <1>0, <1>5, <1>9, <2>1, TrackingOf
<1> QED
  BY <1>10, <1>11, <1>12, <1>13, <1>14, <1>15, <1>16, <1>17 DEF IInv

LEMMA ErringStep ==
    ASSUME IInv, NEW t \in Transfers, Erring(t)
    PROVE  IInv'
  BY ErringOpenStep, ErringClosedStep

LEMMA RequestFailureStep ==
    ASSUME IInv, NEW t \in Transfers, RequestFailure(t)
    PROVE  IInv'
<1>0. TypeOK /\ Born /\ Bonds /\ Duties /\ Asked /\ Passes /\ Scans /\ Generations /\
      SoleOwner /\ FenceBound /\ Cleanly /\ Openly /\ Tracking
  BY DEF IInv
<1>1. /\ UNCHANGED <<status, source, retired, imported, mode, closing>>
      /\ UNCHANGED <<bound, spent, ans>>
      /\ UNCHANGED <<binding, latest, remote, made, blind, postdated>>
      /\ UNCHANGED <<inv, settler, scanned, upsets, budget>>
  BY DEF RequestFailure, Goto, vars, work, torrents, requests, passes, resources, history,
         scans, tally
<1>2. /\ pc[t] \in {"failing", "unrouted"}
      /\ FailRequest(t)
      /\ root' \in {root, [root EXCEPT ![t] = "pending"], [root EXCEPT ![t] = "failed"]}
      /\ pc' = [pc EXCEPT ![t] = "idle"]
  BY DEF RequestFailure, Goto
<1>3. /\ attempt' \in [Transfers -> [AttemptIds -> Attempts]]
      /\ pin' \in [Transfers -> {"none", "open", "failed"}]
      /\ \A x \in Transfers \ {t} : attempt'[x] = attempt[x]
      /\ \A n \in AttemptIds : /\ attempt'[t][n].state # "started"
                               /\ attempt'[t][n].owed = attempt[t][n].owed
  BY <1>0, <1>2, FailRequestEffect
<1>3a. spent[t] \in 0..MaxAttempts /\ MaxAttempts \in Nat /\ 1..spent[t] \subseteq AttemptIds
  BY <1>0, Types DEF AttemptIds
<1>5a. \A x \in Transfers \ {t} :
        root'[x] = root[x] /\ attempt'[x] = attempt[x] /\ pc'[x] = pc[x]
  BY <1>0, <1>2, <1>3 DEF TypeOK
<1>5. Others(t)
  BY <1>1, <1>2, <1>5a DEF Others, Bound
<1>9. MoreBonds
  BY <1>1 DEF MoreBonds, Bound
<1>6. /\ pc[t] \in {"failing", "unrouted"}
      /\ pc'[t] = "idle" /\ root'[t] \in {"pending", "failed", root[t]}
  BY <1>0, <1>1, <1>2 DEF TypeOK
<1>10. TypeOK'
  <2>1. root' \in [Transfers -> {"pending", "resolving", "waiting", "failed"}]
        /\ pc' \in [Transfers -> {"idle", "routed", "draining", "unrouted", "opened",
                                 "calling", "created", "refused", "uncertain", "erring",
                                 "failing", "settling"}]
    BY <1>0, <1>2 DEF TypeOK
  <2>2. /\ attempt' \in [Transfers -> [AttemptIds -> Attempts]]
        /\ pin' \in [Transfers -> {"none", "open", "failed"}]
    BY <1>3
  <2> QED
    BY <1>0, <1>1, <2>1, <2>2 DEF TypeOK, Authorities, Attempts, States
<1>11. Duties' /\ Asked' /\ Scans' /\ Generations' /\ SoleOwner'
  BY <1>0, <1>1, DutiesFrame, AskedFrame, ScansFrame, GenerationsFrame, SoleOwnerFrame
<1>12. Born'
  <2>1. status[t] # "unborn"
    BY <1>0, <1>2 DEF Born, Unborn
  <2> QED
    BY <1>0, <1>5, <2>1, BornOf
<1>13. Bonds'
  BY <1>0, <1>1, <1>5, <1>6 DEF Bonds, Lately, Bound, Others
<1>14. Passes'
  <2>1. Pass(t)'
    BY <1>0, <1>1, <1>6 DEF Passes, Pass, Bound
  <2> QED
    BY <1>0, <1>5, <1>9, <2>1, PassesOf
<1>15. FenceBound'
  <2>1. FenceRead(t)' => FenceRead(t)
    BY <1>0, <1>1, <1>6 DEF FenceRead, Live, Passes, Pass
  <2> QED
    BY <1>0, <1>1, <1>5, <2>1, FenceOf
<1>16. Cleanly'
  <2>1. Clean(t)'
    <3>1. \A n \in 1..spent[t] : attempt'[t][n].state # "started"
      BY <1>3, <1>3a
    <3>2. ~Open(t)'
      BY <1>1, <1>3a, <3>1 DEF Open, Current
    <3> QED
      BY <1>1, <1>3a, <1>6, <3>1, <3>2 DEF Clean, Open
  <2> QED
    BY <1>0, <1>5, <2>1, CleanlyOf
<1>17. Openly'
  <2>1. Opened(t)'
    BY <1>0, <1>1, <1>2, <1>3, <1>3a, <1>6 DEF Openly, Opened, Current
  <2> QED
    BY <1>0, <1>5, <2>1, OpenlyOf
<1>18. Tracking'
  <2>1. Track(t)'
    <3>1. \A y \in Objects, n \in AttemptIds : Witness(t, y, n) => Witness(t, y, n)'
      BY <1>1, <1>3, <1>6 DEF Witness, Settling
    <3>9. \A y \in Objects : Free(y)' => Free(y)
      BY <1>9 DEF Free, MoreBonds
    <3> QED
      BY <1>0, <1>1, <1>6, <3>1, <3>9 DEF Tracking, Track, Settling, Current
  <2> QED
    BY <1>0, <1>5, <1>9, <2>1, TrackingOf
<1> QED
  BY <1>10, <1>11, <1>12, <1>13, <1>14, <1>15, <1>16, <1>17, <1>18 DEF IInv

LEMMA ReadUncertainStep ==
    ASSUME IInv, NEW t \in Transfers, ReadUncertain(t)
    PROVE  IInv'
<1>0. TypeOK /\ Born /\ Bonds /\ Duties /\ Asked /\ Passes /\ Scans /\ Generations /\
      SoleOwner /\ FenceBound /\ Cleanly /\ Openly /\ Tracking
  BY DEF IInv
<1>1. /\ UNCHANGED <<status, source, retired, imported, mode, closing>>
      /\ UNCHANGED <<root, bound, spent, pin, attempt>>
      /\ UNCHANGED <<binding, latest, remote, made, blind, postdated>>
      /\ UNCHANGED <<inv, settler, scanned, upsets, budget>>
  BY DEF ReadUncertain, Live, Goto, vars, work, torrents, requests, passes, resources,
         history, scans, tally
<1>2. /\ pc[t] = "idle" /\ status[t] = "live" /\ root[t] = "pending" /\ Held(t)
      /\ \E saw \in Readings : ans' = [ans EXCEPT ![t] = saw]
      /\ pc' = [pc EXCEPT ![t] = "settling"]
  BY DEF ReadUncertain, Live, Goto
<1>5a. \A x \in Transfers \ {t} :
        pc'[x] = pc[x] /\ ans'[x] = ans[x]
  BY <1>0, <1>2 DEF TypeOK
<1>5. Others(t)
  BY <1>1, <1>2, <1>5a DEF Others, Bound
<1>9. MoreBonds
  BY <1>1 DEF MoreBonds, Bound
<1>6. /\ pc[t] = "idle" /\ status[t] = "live" /\ root[t] = "pending" /\ Held(t)
      /\ pc'[t] = "settling" /\ ans'[t] \in Readings
  BY <1>0, <1>1, <1>2 DEF TypeOK, Readings
<1>10. TypeOK'
  BY <1>0, <1>1, <1>2, <1>6 DEF TypeOK, Authorities, Readings
<1>11. Bonds' /\ Duties' /\ Asked' /\ Scans' /\ Generations' /\ SoleOwner'
  BY <1>0, <1>1, BondsFrame, DutiesFrame, AskedFrame, ScansFrame, GenerationsFrame,
  SoleOwnerFrame
<1>12. Born'
  <2>1. status[t] # "unborn"
    BY <1>0, <1>2 DEF Born, Unborn
  <2> QED
    BY <1>0, <1>5, <2>1, BornOf
<1>13. Passes'
  <2>1. Pass(t)'
    BY <1>0, <1>1, <1>6 DEF Passes, Pass, Held, Open, Readings
  <2> QED
    BY <1>0, <1>5, <1>9, <2>1, PassesOf
<1>14. FenceBound'
  <2>1. FenceRead(t)' => FenceRead(t)
    BY <1>0, <1>1, <1>6 DEF FenceRead, Live, Passes, Pass
  <2> QED
    BY <1>0, <1>1, <1>5, <2>1, FenceOf
<1>15. Cleanly'
  <2>1. Clean(t)'
    BY <1>0, <1>1, <1>6 DEF Cleanly, Clean, Open, Current, Bound
  <2> QED
    BY <1>0, <1>5, <2>1, CleanlyOf
<1>16. Openly'
  <2>1. Opened(t)'
    BY <1>0, <1>1, <1>6 DEF Openly, Opened, Current
  <2> QED
    BY <1>0, <1>5, <2>1, OpenlyOf
<1>17. Tracking'
  <2>1. Track(t)'
    <3>1. \A y \in Objects : Free(y)' => Free(y)
      BY <1>9 DEF Free, MoreBonds
    <3>2. \A y \in Objects, n \in AttemptIds : Witness(t, y, n) => Witness(t, y, n)'
      BY <1>1, <1>6 DEF Witness, Settling, Current
    <3> QED
      BY <1>0, <1>1, <1>6, <3>1, <3>2 DEF Tracking, Track, Settling, Current, Readings
  <2> QED
    BY <1>0, <1>5, <1>9, <2>1, TrackingOf
<1> QED
  BY <1>10, <1>11, <1>12, <1>13, <1>14, <1>15, <1>16, <1>17 DEF IInv

LEMMA InterruptedOwedStep ==
    ASSUME IInv, NEW t \in Transfers, Interrupted(t), Open(t) /\ Current(t).owed
    PROVE  IInv'
<1>0. TypeOK /\ Born /\ Bonds /\ Duties /\ Asked /\ Passes /\ Scans /\ Generations /\
      SoleOwner /\ FenceBound /\ Cleanly /\ Openly /\ Tracking
  BY DEF IInv
<1>1. /\ UNCHANGED <<status, source, retired, imported, mode, closing>>
      /\ UNCHANGED <<bound, spent, pin, pc, ans>>
      /\ UNCHANGED <<binding, latest, remote, made, blind, postdated>>
      /\ UNCHANGED <<inv, settler, scanned, upsets, budget>>
  BY DEF Interrupted, Set, Live, vars, work, torrents, requests, passes, resources, history,
         scans, tally
<1>2. /\ pc[t] = "idle" /\ status[t] = "live" /\ root[t] = "resolving" /\ Open(t)
      /\ attempt' = [attempt EXCEPT ![t][spent[t]] = [Current(t) EXCEPT !.uncertain = TRUE]]
      /\ root' = [root EXCEPT ![t] = "pending"]
  BY DEF Interrupted, Set, Live
<1>3a. spent[t] > 0
  BY <1>0, <1>2 DEF Passes, Pass, Open
<1> DEFINE r == [Current(t) EXCEPT !.uncertain = TRUE]
<1>3b. r \in Attempts /\ r.state = Current(t).state /\ r.owed = Current(t).owed /\ r.uncertain
  BY <1>0, <1>3a, CurrentType DEF Attempts, States, Open
<1>3c. attempt' = [attempt EXCEPT ![t][spent[t]] = r]
  BY <1>2
<1> HIDE DEF r
<1>3d. r \in Attempts /\ Set(t, r)
  BY <1>3b, <1>3c DEF Set
<1>3. /\ attempt' \in [Transfers -> [AttemptIds -> Attempts]]
      /\ spent[t] \in AttemptIds /\ attempt'[t][spent[t]] = r
      /\ \A n \in AttemptIds : n # spent[t] => attempt'[t][n] = attempt[t][n]
  BY <1>0, <1>3a, <1>3d, SetEffect
<1>3e. spent'[t] = spent[t]
  BY <1>1
<1>4. /\ spent[t] \in 1..spent[t] /\ Current(t)' = r /\ spent'[t] = spent[t]
      /\ \A n \in 1..(spent[t] - 1) : n \in AttemptIds /\ attempt'[t][n] = attempt[t][n]
      /\ Open(t)' <=> r.state = "started"
  <2>1. Current(t)' = r
    BY <1>3, <1>3e DEF Current
  <2>2. \A n \in 1..(spent[t] - 1) : n \in AttemptIds /\ n # spent[t]
    BY <1>0, <1>3, Types DEF AttemptIds
  <2>3. spent[t] \in 1..spent[t] /\ spent'[t] > 0
    BY <1>0, <1>3a, <1>3e, Types
  <2>4. Open(t)' <=> r.state = "started"
    BY <2>1, <2>3 DEF Open
  <2> QED
    BY <1>3, <1>3e, <2>1, <2>2, <2>3, <2>4
<1>5a. \A x \in Transfers \ {t} :
        root'[x] = root[x] /\ attempt'[x] = attempt[x]
  BY <1>0, <1>2 DEF TypeOK
<1>5. Others(t)
  BY <1>1, <1>2, <1>5a DEF Others, Bound
<1>9. MoreBonds
  BY <1>1 DEF MoreBonds, Bound
<1>6. /\ pc[t] = "idle" /\ status[t] = "live" /\ root[t] = "resolving" /\ Open(t)
      /\ root'[t] = "pending"
  BY <1>0, <1>1, <1>2 DEF TypeOK
<1>10. TypeOK'
  BY <1>0, <1>1, <1>2, <1>6, <1>3 DEF TypeOK, Authorities, Attempts, States
<1>11. Duties' /\ Asked' /\ Passes' /\ Scans' /\ Generations' /\ SoleOwner' /\ FenceBound'
  BY <1>0, <1>1, DutiesFrame, AskedFrame, PassesFrame, ScansFrame, GenerationsFrame,
  SoleOwnerFrame, FenceBoundFrame
<1>12. Born'
  <2>1. status[t] # "unborn"
    BY <1>0, <1>2 DEF Born, Unborn
  <2> QED
    BY <1>0, <1>5, <2>1, BornOf
<1>13. Bonds'
  BY <1>0, <1>1, <1>5, <1>6 DEF Bonds, Lately, Bound, Others
<1>14. Cleanly'
  <2>1. Clean(t)'
    BY <1>0, <1>1, <1>3, <1>3b, <1>4, <1>6 DEF Cleanly, Clean, Open, Bound
  <2> QED
    BY <1>0, <1>5, <2>1, CleanlyOf
<1>15. Openly'
  <2>1. Opened(t)'
    BY <1>0, <1>1, <1>3, <1>3b, <1>4, <1>6 DEF Openly, Opened, Current
  <2> QED
    BY <1>0, <1>5, <2>1, OpenlyOf
<1>16. Tracking'
  <2>1. Track(t)'
    <3>1. \A y \in Objects : Free(y)' => Free(y)
      BY <1>9 DEF Free, MoreBonds
    <3>2. \A y \in Objects, n \in AttemptIds : Witness(t, y, n) => Witness(t, y, n)'
      BY <1>1, <1>6, <1>3, <1>3b, <1>4 DEF Witness, Settling, Current
    <3> QED
      BY <1>0, <1>1, <1>6, <1>3, <1>3b, <1>4, <3>1, <3>2
      DEF Tracking, Track, Settling, Current
  <2> QED
    BY <1>0, <1>5, <1>9, <2>1, TrackingOf
<1> QED
  BY <1>10, <1>11, <1>12, <1>13, <1>14, <1>15, <1>16 DEF IInv

LEMMA InterruptedFailsStep ==
    ASSUME IInv, NEW t \in Transfers, Interrupted(t), ~(Open(t) /\ Current(t).owed)
    PROVE  IInv'
<1>0. TypeOK /\ Born /\ Bonds /\ Duties /\ Asked /\ Passes /\ Scans /\ Generations /\
      SoleOwner /\ FenceBound /\ Cleanly /\ Openly /\ Tracking
  BY DEF IInv
<1>1. /\ UNCHANGED <<status, source, retired, imported, mode, closing>>
      /\ UNCHANGED <<bound, spent, pc, ans>>
      /\ UNCHANGED <<binding, latest, remote, made, blind, postdated>>
      /\ UNCHANGED <<inv, settler, scanned, upsets, budget>>
  BY DEF Interrupted, Live, vars, work, torrents, requests, passes, resources, history,
         scans, tally
<1>2. /\ pc[t] = "idle" /\ status[t] = "live"
      /\ FailRequest(t)
      /\ root' = [root EXCEPT ![t] = "failed"]
  BY DEF Interrupted, Live
<1>3. /\ attempt' \in [Transfers -> [AttemptIds -> Attempts]]
      /\ pin' \in [Transfers -> {"none", "open", "failed"}]
      /\ \A x \in Transfers \ {t} : attempt'[x] = attempt[x]
      /\ \A n \in AttemptIds : /\ attempt'[t][n].state # "started"
                               /\ attempt'[t][n].owed = attempt[t][n].owed
  BY <1>0, <1>2, FailRequestEffect
<1>3a. spent[t] \in 0..MaxAttempts /\ MaxAttempts \in Nat /\ 1..spent[t] \subseteq AttemptIds
  BY <1>0, Types DEF AttemptIds
<1>5a. \A x \in Transfers \ {t} :
        root'[x] = root[x] /\ attempt'[x] = attempt[x]
  BY <1>0, <1>2, <1>3 DEF TypeOK
<1>5. Others(t)
  BY <1>1, <1>2, <1>5a DEF Others, Bound
<1>9. MoreBonds
  BY <1>1 DEF MoreBonds, Bound
<1>6. /\ pc[t] = "idle" /\ status[t] = "live"
      /\ root'[t] = "failed"
  BY <1>0, <1>1, <1>2 DEF TypeOK
<1>10. TypeOK'
  <2>1. root' \in [Transfers -> {"pending", "resolving", "waiting", "failed"}]
    BY <1>0, <1>2 DEF TypeOK
  <2>2. /\ attempt' \in [Transfers -> [AttemptIds -> Attempts]]
        /\ pin' \in [Transfers -> {"none", "open", "failed"}]
    BY <1>3
  <2> QED
    BY <1>0, <1>1, <2>1, <2>2 DEF TypeOK, Authorities, Attempts, States
<1>11. Duties' /\ Asked' /\ Passes' /\ Scans' /\ Generations' /\ SoleOwner' /\ FenceBound'
  BY <1>0, <1>1, DutiesFrame, AskedFrame, PassesFrame, ScansFrame, GenerationsFrame,
  SoleOwnerFrame, FenceBoundFrame
<1>12. Born'
  <2>1. status[t] # "unborn"
    BY <1>0, <1>2 DEF Born, Unborn
  <2> QED
    BY <1>0, <1>5, <2>1, BornOf
<1>13. Bonds'
  BY <1>0, <1>1, <1>5, <1>6 DEF Bonds, Lately, Bound, Others
<1>14. Cleanly'
  <2>1. Clean(t)'
    <3>1. \A n \in 1..spent[t] : attempt'[t][n].state # "started"
      BY <1>3, <1>3a
    <3>2. ~Open(t)'
      BY <1>1, <1>3a, <3>1 DEF Open, Current
    <3> QED
      BY <1>1, <1>3a, <1>6, <3>1, <3>2 DEF Clean, Open
  <2> QED
    BY <1>0, <1>5, <2>1, CleanlyOf
<1>15. Openly'
  <2>1. Opened(t)'
    BY <1>0, <1>1, <1>2, <1>3, <1>3a, <1>6 DEF Openly, Opened, Current
  <2> QED
    BY <1>0, <1>5, <2>1, OpenlyOf
<1>16. Tracking'
  <2>1. Track(t)'
    <3>1. \A y \in Objects, n \in AttemptIds : Witness(t, y, n) => Witness(t, y, n)'
      BY <1>1, <1>3, <1>6 DEF Witness, Settling
    <3>9. \A y \in Objects : Free(y)' => Free(y)
      BY <1>9 DEF Free, MoreBonds
    <3> QED
      BY <1>0, <1>1, <1>6, <3>1, <3>9 DEF Tracking, Track, Settling, Current
  <2> QED
    BY <1>0, <1>5, <1>9, <2>1, TrackingOf
<1> QED
  BY <1>10, <1>11, <1>12, <1>13, <1>14, <1>15, <1>16 DEF IInv

LEMMA InterruptedStep ==
    ASSUME IInv, NEW t \in Transfers, Interrupted(t)
    PROVE  IInv'
  BY InterruptedOwedStep, InterruptedFailsStep

LEMMA ReresolveStep ==
    ASSUME IInv, NEW t \in Transfers, Reresolve(t)
    PROVE  IInv'
<1>0. TypeOK /\ Born /\ Bonds /\ Duties /\ Asked /\ Passes /\ Scans /\ Generations /\
      SoleOwner /\ FenceBound /\ Cleanly /\ Openly /\ Tracking
  BY DEF IInv
<1>1. /\ UNCHANGED <<status, source, retired, imported, mode, closing>>
      /\ UNCHANGED <<bound, spent, pin, attempt, pc, ans>>
      /\ UNCHANGED <<binding, latest, remote, made, blind, postdated>>
      /\ UNCHANGED <<inv, settler, scanned, budget>>
  BY DEF Reresolve, Upset, Live, vars, work, torrents, requests, passes, resources, history,
         scans, tally
<1>2. /\ upsets' = upsets + 1
      /\ status[t] = "live" /\ root[t] = "waiting"
      /\ root' = [root EXCEPT ![t] = "pending"]
  BY DEF Reresolve, Upset, Live
<1>5a. \A x \in Transfers \ {t} :
        root'[x] = root[x]
  BY <1>0, <1>2 DEF TypeOK
<1>5. Others(t)
  BY <1>1, <1>2, <1>5a DEF Others, Bound
<1>9. MoreBonds
  BY <1>1 DEF MoreBonds, Bound
<1>6. /\ status[t] = "live" /\ root[t] = "waiting"
      /\ root'[t] = "pending"
  BY <1>0, <1>1, <1>2 DEF TypeOK
<1>10. TypeOK'
  BY <1>0, <1>1, <1>2, <1>6 DEF TypeOK, Authorities
<1>11. Duties' /\ Asked' /\ Passes' /\ Scans' /\ Generations' /\ SoleOwner' /\ FenceBound' /\
       Openly' /\ Tracking'
  BY <1>0, <1>1, DutiesFrame, AskedFrame, PassesFrame, ScansFrame, GenerationsFrame,
  SoleOwnerFrame, FenceBoundFrame, OpenlyFrame, TrackingFrame
<1>12. Born'
  <2>1. status[t] # "unborn"
    BY <1>0, <1>2 DEF Born, Unborn
  <2> QED
    BY <1>0, <1>5, <2>1, BornOf
<1>13. Bonds'
  BY <1>0, <1>1, <1>5, <1>6 DEF Bonds, Lately, Bound, Others
<1>14. Cleanly'
  <2>1. Clean(t)'
    BY <1>0, <1>1, <1>2 DEF Bonds, Clean, Bound, TypeOK
  <2> QED
    BY <1>0, <1>5, <2>1, CleanlyOf
<1> QED
  BY <1>10, <1>11, <1>12, <1>13, <1>14 DEF IInv

LEMMA RetryStep ==
    ASSUME IInv, NEW t \in Transfers, Retry(t)
    PROVE  IInv'
<1>0. TypeOK /\ Born /\ Bonds /\ Duties /\ Asked /\ Passes /\ Scans /\ Generations /\
      SoleOwner /\ FenceBound /\ Cleanly /\ Openly /\ Tracking
  BY DEF IInv
<1>1. /\ UNCHANGED <<status, source, retired, imported, mode, closing>>
      /\ UNCHANGED <<bound, spent, pin, attempt, pc, ans>>
      /\ UNCHANGED <<binding, latest, remote, made, blind, postdated>>
      /\ UNCHANGED <<inv, settler, scanned, budget>>
  BY DEF Retry, Upset, Live, vars, work, torrents, requests, passes, resources, history,
         scans, tally
<1>2. /\ upsets' = upsets + 1
      /\ status[t] = "live" /\ root[t] = "failed"
      /\ root' = [root EXCEPT ![t] = "pending"]
  BY DEF Retry, Upset, Live
<1>5a. \A x \in Transfers \ {t} :
        root'[x] = root[x]
  BY <1>0, <1>2 DEF TypeOK
<1>5. Others(t)
  BY <1>1, <1>2, <1>5a DEF Others, Bound
<1>9. MoreBonds
  BY <1>1 DEF MoreBonds, Bound
<1>6. /\ status[t] = "live" /\ root[t] = "failed"
      /\ root'[t] = "pending"
  BY <1>0, <1>1, <1>2 DEF TypeOK
<1>10. TypeOK'
  BY <1>0, <1>1, <1>2, <1>6 DEF TypeOK, Authorities
<1>11. Duties' /\ Asked' /\ Passes' /\ Scans' /\ Generations' /\ SoleOwner' /\ FenceBound' /\
       Openly' /\ Tracking'
  BY <1>0, <1>1, DutiesFrame, AskedFrame, PassesFrame, ScansFrame, GenerationsFrame,
  SoleOwnerFrame, FenceBoundFrame, OpenlyFrame, TrackingFrame
<1>12. Born'
  <2>1. status[t] # "unborn"
    BY <1>0, <1>2 DEF Born, Unborn
  <2> QED
    BY <1>0, <1>5, <2>1, BornOf
<1>13. Bonds'
  BY <1>0, <1>1, <1>5, <1>6 DEF Bonds, Lately, Bound, Others
<1>14. Cleanly'
  <2>1. Clean(t)'
    BY <1>0, <1>1, <1>6 DEF Cleanly, Clean, Open, Current, Bound
  <2> QED
    BY <1>0, <1>5, <2>1, CleanlyOf
<1> QED
  BY <1>10, <1>11, <1>12, <1>13, <1>14 DEF IInv

\* What binding an object to a transfer leaves behind, whoever owed and held what before.
BoundTo(t, o) ==
    /\ binding' \in [Transfers -> [Objects -> Rows]]
    /\ latest' \in [Objects -> Transfers \cup {None}]
    /\ postdated' \in [Transfers -> SUBSET Bindings]
    /\ Lately' /\ Duties' /\ SoleOwner' /\ MoreBonds /\ ~Free(o)'
    /\ \A x \in Transfers \ {t}, y \in Objects : Bound(x, y)' <=> Bound(x, y)
    /\ \A x \in Transfers, y \in Objects :
         binding'[x][y].owed = "user" \/ binding'[x][y].call = "user" => AskedFor(x)
    /\ \A x \in Transfers : postdated[x] \subseteq postdated'[x]
    /\ \A x, p \in Transfers, y \in Objects :
         p # x /\ FenceRead(x) /\ Outstanding(p, y)' =>
           Outstanding(p, y) \/ <<p, y>> \in postdated'[x]

\* A route's answer is bound.
LEMMA RoutedEffect ==
    ASSUME TypeOK, Bonds, Duties, Asked, SoleOwner, Generations, UNCHANGED status,
           NEW t \in Transfers, NEW o \in Objects, Bindable(t, o),
           binding' = Upsert(t, o, TRUE), BindLatest(t, o), Postdate(t, {o})
    PROVE  BoundTo(t, o) /\ Bound(t, o)'
<1>1. /\ binding' \in [Transfers -> [Objects -> Rows]]
      /\ binding'[t][o].state = "available" /\ binding'[t][o].owed = binding[t][o].owed
      /\ binding'[t][o].call = binding[t][o].call
      /\ Owed(t, o) => binding'[t][o].abandoned = binding[t][o].abandoned
      /\ \A x \in Transfers, y \in Objects :
           x # t \/ y # o => binding'[x][y] = binding[x][y]
  <2>1. TRUE \in BOOLEAN
    OBVIOUS
  <2> QED
    BY <2>1, UpsertEffect, ZenonT(60)
<1>2. \A x \in Transfers, y \in Objects :
        /\ binding'[x][y].owed = binding[x][y].owed /\ binding'[x][y].call = binding[x][y].call
        /\ Owed(x, y) => binding'[x][y].abandoned = binding[x][y].abandoned
        /\ x # t \/ y # o => (Bound(x, y)' <=> Bound(x, y))
  BY <1>1 DEF Bound
<1>3. MoreBonds /\ Bound(t, o)' /\ ~Free(o)'
  BY <1>1, <1>2 DEF MoreBonds, Bound, Free
<1>4. latest' \in [Objects -> Transfers \cup {None}] /\ Lately'
  BY <1>2, <1>3, BindEffect
<1>5. /\ postdated' \in [Transfers -> SUBSET Bindings]
      /\ \A x \in Transfers : postdated[x] \subseteq postdated'[x]
      /\ \A x \in Transfers, y \in {o} :
           x # t /\ FenceRead(x) => <<t, y>> \in postdated'[x]
  <2>1. {o} \in SUBSET Objects
    OBVIOUS
  <2> QED
    BY <2>1, PostdateEffect
<1>6. Duties'
  <2>1. ASSUME NEW x \in Transfers, NEW y \in Objects
        PROVE  /\ Owed(x, y)' => Bound(x, y)'
               /\ binding'[x][y].call # "none" => Owed(x, y)' /\ ~binding'[x][y].abandoned
    <3>1. /\ Owed(x, y) => Bound(x, y)
          /\ binding[x][y].call # "none" => Owed(x, y) /\ ~binding[x][y].abandoned
      BY DEF Duties
    <3>2. (Owed(x, y)' <=> Owed(x, y)) /\ (Bound(x, y) => Bound(x, y)')
      BY <1>2, <1>3 DEF Owed, MoreBonds
    <3> QED
      BY <1>2, <3>1, <3>2
  <2> QED
    BY <2>1 DEF Duties
<1>7. SoleOwner'
  BY <1>2, SoleOwnerMore
<1>8. \A x \in Transfers, y \in Objects :
        binding'[x][y].owed = "user" \/ binding'[x][y].call = "user" => AskedFor(x)
  BY <1>2 DEF Asked
<1>9. \A p \in Transfers, y \in Objects :
        Outstanding(p, y)' => Outstanding(p, y) \/ (p = t /\ y = o)
  BY <1>1 DEF Outstanding, Owed
<1>10. \A x, p \in Transfers, y \in Objects :
         p # x /\ FenceRead(x) /\ Outstanding(p, y)' =>
           Outstanding(p, y) \/ <<p, y>> \in postdated'[x]
  BY <1>5, <1>9
<1>11. \A x \in Transfers \ {t}, y \in Objects : Bound(x, y)' <=> Bound(x, y)
  BY <1>2
<1> QED
  BY <1>1, <1>3, <1>4, <1>5, <1>6, <1>7, <1>8, <1>10, <1>11 DEF BoundTo

\* A created object no route binds is recorded, unless somebody holds it.
LEMMA UnroutedEffect ==
    ASSUME TypeOK, Bonds, Duties, Asked, SoleOwner, Generations, UNCHANGED status,
           NEW t \in Transfers, NEW o \in Objects, NEW a \in Authorities,
           a = "user" => AskedFor(t), RecordUnrouted(t, o, a)
    PROVE  BoundTo(t, o)
<1>1. CASE Bound(t, o) \/ ~Bindable(t, o)
  <2>1. UNCHANGED <<binding, latest, postdated>>
    BY <1>1 DEF RecordUnrouted
  <2>2. ~Free(o)'
    BY <1>1, <2>1 DEF Free, Bindable, Bound
  <2>3. /\ binding \in [Transfers -> [Objects -> Rows]]
        /\ latest \in [Objects -> Transfers \cup {None}]
        /\ postdated \in [Transfers -> SUBSET Bindings]
    BY Types DEF TypeOK
  <2>4. Lately'
    BY <2>1 DEF Bonds, Lately, Bound
  <2>5. Duties' /\ SoleOwner'
    BY <2>1, DutiesFrame, SoleOwnerFrame
  <2>6. /\ MoreBonds /\ \A x \in Transfers \ {t}, y \in Objects : Bound(x, y)' <=> Bound(x, y)
        /\ \A x \in Transfers, y \in Objects : Outstanding(x, y)' => Outstanding(x, y)
    BY <2>1 DEF MoreBonds, Bound, Outstanding, Owed
  <2>7. \A x \in Transfers, y \in Objects :
          binding'[x][y].owed = "user" \/ binding'[x][y].call = "user" => AskedFor(x)
    BY <2>1 DEF Asked
  <2> QED
    BY <2>1, <2>2, <2>3, <2>4, <2>5, <2>6, <2>7 DEF BoundTo
<1>2. CASE ~Bound(t, o) /\ Bindable(t, o)
  <2>1. binding' = Intend(Upsert(t, o, TRUE), t, {o}, a) /\ TRUE \in BOOLEAN
    BY <1>2 DEF RecordUnrouted
  <2>2. BindLatest(t, o) /\ Postdate(t, {o})
    BY <1>2 DEF RecordUnrouted
  <2>3. /\ binding' \in [Transfers -> [Objects -> Rows]]
        /\ binding'[t][o].state = "available" /\ binding'[t][o].owed = a
        /\ ~binding'[t][o].abandoned /\ binding'[t][o].call = binding[t][o].call
        /\ \A x \in Transfers, y \in Objects :
             x # t \/ y # o => binding'[x][y] = binding[x][y]
    BY <2>1, RenewEffect
  <2>4. binding'[t][o].call = "none"
    BY <1>2, <2>3 DEF Duties
  <2>5. \A x \in Transfers, y \in Objects : x # t \/ y # o => (Bound(x, y)' <=> Bound(x, y))
    BY <2>3 DEF Bound
  <2>6. MoreBonds /\ Bound(t, o)' /\ ~Free(o)'
    BY <2>3, <2>5 DEF MoreBonds, Bound, Free
  <2>7. latest' \in [Objects -> Transfers \cup {None}] /\ Lately'
    BY <2>2, <2>5, <2>6, BindEffect
  <2>8. /\ postdated' \in [Transfers -> SUBSET Bindings]
        /\ \A x \in Transfers : postdated[x] \subseteq postdated'[x]
        /\ \A x \in Transfers, y \in {o} :
             x # t /\ FenceRead(x) => <<t, y>> \in postdated'[x]
    <3>1. {o} \in SUBSET Objects
      OBVIOUS
    <3> QED
      BY <2>2, <3>1, PostdateEffect
  <2>9. Duties'
    <3>1. ASSUME NEW x \in Transfers, NEW y \in Objects, x # t \/ y # o
          PROVE  /\ Owed(x, y)' => Bound(x, y)'
                 /\ binding'[x][y].call # "none" => Owed(x, y)' /\ ~binding'[x][y].abandoned
      BY <2>3, <2>5, <3>1 DEF Duties, Owed
    <3> QED
      BY <2>4, <2>6, <3>1 DEF Duties
  <2>10. SoleOwner'
    BY <1>2, <2>5, SoleOwnerMore
  <2>11. \A x \in Transfers, y \in Objects :
           binding'[x][y].owed = "user" \/ binding'[x][y].call = "user" => AskedFor(x)
    BY <2>3, <2>4 DEF Asked
  <2>12. \A p \in Transfers, y \in Objects :
           Outstanding(p, y)' => Outstanding(p, y) \/ (p = t /\ y = o)
    BY <2>3 DEF Outstanding, Owed
  <2>13. \A x, p \in Transfers, y \in Objects :
           p # x /\ FenceRead(x) /\ Outstanding(p, y)' =>
             Outstanding(p, y) \/ <<p, y>> \in postdated'[x]
    BY <2>8, <2>12
  <2>14. \A x \in Transfers \ {t}, y \in Objects : Bound(x, y)' <=> Bound(x, y)
    BY <2>5
  <2> QED
    BY <2>3, <2>6, <2>7, <2>8, <2>9, <2>10, <2>11, <2>13, <2>14 DEF BoundTo
<1> QED
  BY <1>1, <1>2

LEMMA ExhaustRouteStep ==
    ASSUME IInv, NEW t \in Transfers, ExhaustRoute(t)
    PROVE  IInv'
<1>0. TypeOK /\ Born /\ Bonds /\ Duties /\ Asked /\ Passes /\ Scans /\ Generations /\
      SoleOwner /\ FenceBound /\ Cleanly /\ Openly /\ Tracking
  BY DEF IInv
<1>1. /\ UNCHANGED <<status, source, retired, imported, mode, closing>>
      /\ UNCHANGED <<spent, pin, ans>>
      /\ UNCHANGED <<latest, remote, made, blind>>
      /\ UNCHANGED <<inv, settler, scanned, upsets, budget>>
  BY DEF ExhaustRoute, Goto, Live, vars, work, torrents, requests, passes, resources,
         history, scans, tally
<1>2. /\ pc[t] = "failing" /\ status[t] = "live" /\ spent[t] > 0
      /\ attempt' = [attempt EXCEPT ![t] =
                        [FailStarted(t) EXCEPT ![spent[t]].state = "ended"]]
      /\ binding' = Intend(binding, t, Surplus(t), "owned") /\ Postdate(t, Surplus(t))
      /\ bound' = [bound EXCEPT ![t] = None]
      /\ root' \in {[root EXCEPT ![t] = "pending"], [root EXCEPT ![t] = "failed"]}
      /\ pc' = [pc EXCEPT ![t] = "idle"]
  BY DEF ExhaustRoute, Goto, Live
<1>3a. spent[t] > 0
  BY <1>0, <1>2 DEF Passes, Pass, Open
<1> DEFINE F == FailStarted(t)
           k == spent[t]
           r == [F[k] EXCEPT !.state = "ended"]
<1>3b. /\ F \in [AttemptIds -> Attempts] /\ k \in AttemptIds
       /\ \A n \in AttemptIds : F[n].state # "started" /\ F[n].owed = attempt[t][n].owed
  BY <1>0, <1>3a, FailStartedEffect, Types
<1>3c. attempt' = [attempt EXCEPT ![t] = [F EXCEPT ![k] = r]]
  BY <1>2
<1> HIDE DEF F
<1>3d. r \in Attempts /\ r.state = "ended" /\ r.owed = Current(t).owed
  BY <1>3b DEF Attempts, States, Current
<1> HIDE DEF r
<1>3. /\ attempt' \in [Transfers -> [AttemptIds -> Attempts]]
      /\ spent[t] \in AttemptIds /\ attempt'[t][spent[t]] = r
      /\ \A n \in AttemptIds : /\ attempt'[t][n].state # "started"
                               /\ attempt'[t][n].owed = attempt[t][n].owed
      /\ \A x \in Transfers \ {t} : attempt'[x] = attempt[x]
  BY <1>0, <1>3b, <1>3c, <1>3d, Types DEF Current
<1>4. /\ spent[t] \in 1..spent[t] /\ Current(t)' = r /\ spent'[t] = spent[t]
      /\ \A n \in 1..spent[t] : n \in AttemptIds
      /\ ~Open(t)'
  <2>1. spent'[t] = spent[t] /\ spent[t] \in 1..spent[t]
        /\ \A n \in 1..spent[t] : n \in AttemptIds
    BY <1>0, <1>1, <1>3a, Types DEF AttemptIds
  <2>2. Current(t)' = r
    BY <1>3, <2>1 DEF Current
  <2> QED
    BY <1>3d, <2>1, <2>2 DEF Open
<1> DEFINE S == Surplus(t)
<1>7c. /\ binding' = Intend(binding, t, S, "owned") /\ Postdate(t, S)
       /\ S \in SUBSET Objects /\ "owned" \in Authorities
       /\ binding \in [Transfers -> [Objects -> Rows]]
  BY <1>0, <1>2, Types DEF Surplus, Authorities
<1>7d. \A y \in S : Bound(t, y)
  BY <1>0 DEF Surplus, Bonds
<1> HIDE DEF S
<1>7. /\ binding' \in [Transfers -> [Objects -> Rows]]
      /\ \A x \in Transfers, y \in Objects : x # t \/ y \notin S => binding'[x][y] = binding[x][y]
      /\ \A y \in Objects \cap S :
           /\ binding'[t][y].owed = "owned" /\ ~binding'[t][y].abandoned
           /\ binding'[t][y].state = binding[t][y].state
           /\ binding'[t][y].owned = binding[t][y].owned
           /\ binding'[t][y].call = binding[t][y].call
  BY <1>7c, IntendEffect
<1>7b. postdated' \in [Transfers -> SUBSET Bindings]
  BY <1>0, <1>7c, PostdateEffect
<1>9. SameBonds /\ MoreBonds
  BY <1>7, MoreOfSame DEF SameBonds, Bound
<1>5a. \A x \in Transfers \ {t} :
        root'[x] = root[x] /\ bound'[x] = bound[x] /\ attempt'[x] = attempt[x] /\ pc'[x] =
        pc[x]
  BY <1>0, <1>2, <1>3 DEF TypeOK
<1>5b. \A x \in Transfers \ {t}, y \in Objects : Bound(x, y)' <=> Bound(x, y)
  BY <1>7 DEF Bound
<1>5. Others(t)
  BY <1>1, <1>2, <1>5a, <1>5b DEF Others
<1>6. /\ pc[t] = "failing" /\ status[t] = "live" /\ spent[t] > 0
      /\ pc'[t] = "idle" /\ bound'[t] = None /\ root'[t] \in {"pending", "failed"}
  BY <1>0, <1>1, <1>2 DEF TypeOK
<1>10. TypeOK'
  <2>1. /\ root' \in [Transfers -> {"pending", "resolving", "waiting", "failed"}]
        /\ bound' \in [Transfers -> Objects \cup {None}]
        /\ pc' \in [Transfers -> {"idle", "routed", "draining", "unrouted", "opened",
                                 "calling", "created", "refused", "uncertain", "erring",
                                 "failing", "settling"}]
        /\ upsets' \in Nat
    BY <1>0, <1>1, <1>2 DEF TypeOK
  <2> QED
    BY <1>0, <1>1, <1>3, <1>7, <1>7b, <2>1
    DEF TypeOK, Authorities, Rows, Calls, Attempts, States
<1>11. Generations'
  BY <1>0, <1>1, GenerationsFrame
<1>12. Born'
  <2>1. status[t] # "unborn"
    BY <1>0, <1>2 DEF Born, Unborn
  <2> QED
    BY <1>0, <1>5, <2>1, BornOf
<1>13. Bonds'
  <2>1. \A x \in Transfers, y \in Objects : bound'[x] = y => bound[x] = y
    BY <1>5, <1>6, ObjectsAssumption DEF Others
  <2>2. \A x \in Transfers : root'[x] = "waiting" => root[x] = "waiting" /\ bound'[x] = bound[x]
    BY <1>5, <1>6 DEF Others
  <2>3. Lately'
    BY <1>0, <1>1, <1>9 DEF Bonds, Lately, SameBonds, TypeOK
  <2> QED
    BY <1>0, <1>9, <2>1, <2>2, <2>3 DEF Bonds, SameBonds
<1>14. Duties'
  <2>1. \A y \in S : y \in Objects => Owed(t, y)' /\ ~binding'[t][y].abandoned /\ Bound(t, y)'
    BY <1>7, <1>7d, <1>9, NoneAssumption DEF Owed, SameBonds
  <2>2. ASSUME NEW x \in Transfers, NEW y \in Objects, x # t \/ y \notin S
        PROVE  /\ Owed(x, y)' => Bound(x, y)'
               /\ binding'[x][y].call # "none" => Owed(x, y)' /\ ~binding'[x][y].abandoned
    BY <1>0, <1>7, <1>9, <2>2 DEF Duties, Owed, SameBonds
  <2> QED
    BY <2>1, <2>2 DEF Duties
<1>15. Asked'
  <2>1. \A x \in Transfers, y \in Objects :
          binding'[x][y].owed = "user" \/ binding'[x][y].call = "user" =>
            binding[x][y].owed = "user" \/ binding[x][y].call = "user"
    BY <1>7
  <2> QED
    BY <1>0, <1>1, <2>1 DEF Asked, AskedFor
<1>16. Passes'
  <2>1. Pass(t)'
    BY <1>0, <1>1, <1>6, <1>3a, <1>9 DEF Passes, Pass, MoreBonds
  <2> QED
    BY <1>0, <1>5, <1>9, <2>1, PassesOf
<1>17. Scans'
  BY <1>0, <1>1, <1>9, ScansMore
<1>18. SoleOwner'
  BY <1>0, <1>1, <1>9, SoleOwnerSame
<1>19. FenceBound'
  <2>1. \A x \in Transfers : FenceRead(x)' => FenceRead(x)
    BY <1>1, <1>3a, <1>5, <1>6 DEF FenceRead, Live, Others
  <2>2. \A p \in Transfers, y \in Objects :
          Outstanding(p, y)' => Outstanding(p, y) \/ (p = t /\ y \in S)
    BY <1>7 DEF Outstanding, Owed
  <2> QED
    BY <1>0, <1>1, <1>7c, <2>1, <2>2, FencePostdated
<1>20. Cleanly'
  <2>1. Clean(t)'
    BY <1>0, <1>1, <1>3, <1>3d, <1>4, <1>6, <1>9 DEF Cleanly, Clean, Open, SameBonds
  <2> QED
    BY <1>0, <1>5, <2>1, CleanlyOf
<1>21. Openly'
  <2>1. Opened(t)'
    BY <1>0, <1>1, <1>3, <1>3d, <1>4, <1>6 DEF Openly, Opened, Current
  <2> QED
    BY <1>0, <1>5, <2>1, OpenlyOf
<1>22. Tracking'
  <2>1. Track(t)'
    <3>1. \A y \in Objects : Free(y)' => Free(y)
      BY <1>9 DEF Free, MoreBonds
    <3>2. \A y \in Objects, n \in AttemptIds : Witness(t, y, n) => Witness(t, y, n)'
      BY <1>1, <1>6, <1>3, <1>3d, <1>4 DEF Witness, Settling, Current
    <3> QED
      BY <1>0, <1>1, <1>6, <1>3, <1>3d, <1>4, <3>1, <3>2
      DEF Tracking, Track, Settling, Current
  <2> QED
    BY <1>0, <1>5, <1>9, <2>1, TrackingOf
<1> QED
  BY <1>10, <1>11, <1>12, <1>13, <1>14, <1>15, <1>16, <1>17, <1>18, <1>19, <1>20, <1>21,
  <1>22
  DEF IInv

LEMMA SwitchRouteStep ==
    ASSUME IInv, NEW t \in Transfers, SwitchRoute(t)
    PROVE  IInv'
<1>0. TypeOK /\ Born /\ Bonds /\ Duties /\ Asked /\ Passes /\ Scans /\ Generations /\
      SoleOwner /\ FenceBound /\ Cleanly /\ Openly /\ Tracking
  BY DEF IInv
<1>1. /\ UNCHANGED <<status, source, retired, imported, mode, closing>>
      /\ UNCHANGED <<spent, pc, ans>>
      /\ UNCHANGED <<latest, remote, made, blind>>
      /\ UNCHANGED <<inv, settler, scanned, budget>>
  BY DEF SwitchRoute, Upset, Set, Live, vars, work, torrents, requests, passes, resources,
         history, scans, tally
<1>2. /\ status[t] = "live" /\ spent[t] > 0
      /\ upsets' = upsets + 1
      /\ attempt' = [attempt EXCEPT ![t][spent[t]] = [Current(t) EXCEPT !.state = "ended"]]
      /\ binding' = Intend(binding, t, Surplus(t), "owned") /\ Postdate(t, Surplus(t))
      /\ bound' = [bound EXCEPT ![t] = None]
      /\ root' = [root EXCEPT ![t] = "pending"]
      /\ pin' = [pin EXCEPT ![t] = "open"]
  BY DEF SwitchRoute, Upset, Set, Live
<1>3a. spent[t] > 0
  BY <1>0, <1>2 DEF Passes, Pass, Open
<1> DEFINE r == [Current(t) EXCEPT !.state = "ended"]
<1>3b. r \in Attempts /\ r.state = "ended" /\ r.owed = Current(t).owed
  BY <1>0, <1>3a, CurrentType DEF Attempts, States, Open
<1>3c. attempt' = [attempt EXCEPT ![t][spent[t]] = r]
  BY <1>2
<1> HIDE DEF r
<1>3d. r \in Attempts /\ Set(t, r)
  BY <1>3b, <1>3c DEF Set
<1>3. /\ attempt' \in [Transfers -> [AttemptIds -> Attempts]]
      /\ spent[t] \in AttemptIds /\ attempt'[t][spent[t]] = r
      /\ \A n \in AttemptIds : n # spent[t] => attempt'[t][n] = attempt[t][n]
  BY <1>0, <1>3a, <1>3d, SetEffect
<1>3e. spent'[t] = spent[t]
  BY <1>1
<1>4. /\ spent[t] \in 1..spent[t] /\ Current(t)' = r /\ spent'[t] = spent[t]
      /\ \A n \in 1..(spent[t] - 1) : n \in AttemptIds /\ attempt'[t][n] = attempt[t][n]
      /\ Open(t)' <=> r.state = "started"
  <2>1. Current(t)' = r
    BY <1>3, <1>3e DEF Current
  <2>2. \A n \in 1..(spent[t] - 1) : n \in AttemptIds /\ n # spent[t]
    BY <1>0, <1>3, Types DEF AttemptIds
  <2>3. spent[t] \in 1..spent[t] /\ spent'[t] > 0
    BY <1>0, <1>3a, <1>3e, Types
  <2>4. Open(t)' <=> r.state = "started"
    BY <2>1, <2>3 DEF Open
  <2> QED
    BY <1>3, <1>3e, <2>1, <2>2, <2>3, <2>4
<1> DEFINE S == Surplus(t)
<1>7c. /\ binding' = Intend(binding, t, S, "owned") /\ Postdate(t, S)
       /\ S \in SUBSET Objects /\ "owned" \in Authorities
       /\ binding \in [Transfers -> [Objects -> Rows]]
  BY <1>0, <1>2, Types DEF Surplus, Authorities
<1>7d. \A y \in S : Bound(t, y)
  BY <1>0 DEF Surplus, Bonds
<1> HIDE DEF S
<1>7. /\ binding' \in [Transfers -> [Objects -> Rows]]
      /\ \A x \in Transfers, y \in Objects : x # t \/ y \notin S => binding'[x][y] = binding[x][y]
      /\ \A y \in Objects \cap S :
           /\ binding'[t][y].owed = "owned" /\ ~binding'[t][y].abandoned
           /\ binding'[t][y].state = binding[t][y].state
           /\ binding'[t][y].owned = binding[t][y].owned
           /\ binding'[t][y].call = binding[t][y].call
  BY <1>7c, IntendEffect
<1>7b. postdated' \in [Transfers -> SUBSET Bindings]
  BY <1>0, <1>7c, PostdateEffect
<1>9. SameBonds /\ MoreBonds
  BY <1>7, MoreOfSame DEF SameBonds, Bound
<1>5a. \A x \in Transfers \ {t} :
        root'[x] = root[x] /\ bound'[x] = bound[x] /\ attempt'[x] = attempt[x] /\ pc'[x] =
        pc[x]
  <2>1. \A x \in Transfers \ {t} : root'[x] = root[x] /\ bound'[x] = bound[x] /\ pc'[x] = pc[x]
    BY <1>0, <1>1, <1>2 DEF TypeOK
  <2>2. \A x \in Transfers \ {t} : attempt'[x] = attempt[x]
    BY <1>0, <1>3d DEF TypeOK, Set
  <2> QED
    BY <2>1, <2>2
<1>5b. \A x \in Transfers \ {t}, y \in Objects : Bound(x, y)' <=> Bound(x, y)
  BY <1>7 DEF Bound
<1>5. Others(t)
  BY <1>1, <1>2, <1>5a, <1>5b DEF Others
<1>6. /\ status[t] = "live" /\ spent[t] > 0
      /\ bound'[t] = None /\ root'[t] = "pending"
      /\ pc'[t] = pc[t]
  BY <1>0, <1>1, <1>2 DEF TypeOK
<1>10. TypeOK'
  <2>1. /\ root' \in [Transfers -> {"pending", "resolving", "waiting", "failed"}]
        /\ bound' \in [Transfers -> Objects \cup {None}]
        /\ pin' \in [Transfers -> {"none", "open", "failed"}]
        /\ upsets' \in Nat
    BY <1>0, <1>1, <1>2 DEF TypeOK
  <2> QED
    BY <1>0, <1>1, <1>3, <1>7, <1>7b, <2>1
    DEF TypeOK, Authorities, Rows, Calls, Attempts, States
<1>11. Generations'
  BY <1>0, <1>1, GenerationsFrame
<1>12. Born'
  <2>1. status[t] # "unborn"
    BY <1>0, <1>2 DEF Born, Unborn
  <2> QED
    BY <1>0, <1>5, <2>1, BornOf
<1>13. Bonds'
  <2>1. \A x \in Transfers, y \in Objects : bound'[x] = y => bound[x] = y
    BY <1>5, <1>6, ObjectsAssumption DEF Others
  <2>2. \A x \in Transfers : root'[x] = "waiting" => root[x] = "waiting" /\ bound'[x] = bound[x]
    BY <1>5, <1>6 DEF Others
  <2>3. Lately'
    BY <1>0, <1>1, <1>9 DEF Bonds, Lately, SameBonds, TypeOK
  <2> QED
    BY <1>0, <1>9, <2>1, <2>2, <2>3 DEF Bonds, SameBonds
<1>14. Duties'
  <2>1. \A y \in S : y \in Objects => Owed(t, y)' /\ ~binding'[t][y].abandoned /\ Bound(t, y)'
    BY <1>7, <1>7d, <1>9, NoneAssumption DEF Owed, SameBonds
  <2>2. ASSUME NEW x \in Transfers, NEW y \in Objects, x # t \/ y \notin S
        PROVE  /\ Owed(x, y)' => Bound(x, y)'
               /\ binding'[x][y].call # "none" => Owed(x, y)' /\ ~binding'[x][y].abandoned
    BY <1>0, <1>7, <1>9, <2>2 DEF Duties, Owed, SameBonds
  <2> QED
    BY <2>1, <2>2 DEF Duties
<1>15. Asked'
  <2>1. \A x \in Transfers, y \in Objects :
          binding'[x][y].owed = "user" \/ binding'[x][y].call = "user" =>
            binding[x][y].owed = "user" \/ binding[x][y].call = "user"
    BY <1>7
  <2> QED
    BY <1>0, <1>1, <2>1 DEF Asked, AskedFor
<1>16. Passes'
  <2>1. Pass(t)'
    BY <1>0, <1>1, <1>6, <1>3a, <1>9 DEF Passes, Pass, MoreBonds
  <2> QED
    BY <1>0, <1>5, <1>9, <2>1, PassesOf
<1>17. Scans'
  BY <1>0, <1>1, <1>9, ScansMore
<1>18. SoleOwner'
  BY <1>0, <1>1, <1>9, SoleOwnerSame
<1>19. FenceBound'
  <2>1. \A x \in Transfers : FenceRead(x)' => FenceRead(x)
    BY <1>1, <1>3a, <1>5, <1>6 DEF FenceRead, Live, Others
  <2>2. \A p \in Transfers, y \in Objects :
          Outstanding(p, y)' => Outstanding(p, y) \/ (p = t /\ y \in S)
    BY <1>7 DEF Outstanding, Owed
  <2> QED
    BY <1>0, <1>1, <1>7c, <2>1, <2>2, FencePostdated
<1>20. Cleanly'
  <2>1. Clean(t)'
    BY <1>0, <1>1, <1>3, <1>3b, <1>4, <1>6, <1>9 DEF Cleanly, Clean, Open, SameBonds
  <2> QED
    BY <1>0, <1>5, <2>1, CleanlyOf
<1>21. Openly'
  <2>1. Opened(t)'
    BY <1>0, <1>1, <1>3, <1>3b, <1>4, <1>6 DEF Openly, Opened, Current
  <2> QED
    BY <1>0, <1>5, <2>1, OpenlyOf
<1>22. Tracking'
  <2>1. Track(t)'
    <3>1. \A y \in Objects : Free(y)' => Free(y)
      BY <1>9 DEF Free, MoreBonds
    <3>2. \A y \in Objects, n \in AttemptIds : Witness(t, y, n) => Witness(t, y, n)'
      BY <1>1, <1>6, <1>3, <1>3b, <1>4 DEF Witness, Settling, Current
    <3> QED
      BY <1>0, <1>1, <1>6, <1>3, <1>3b, <1>4, <3>1, <3>2
      DEF Tracking, Track, Settling, Current
  <2> QED
    BY <1>0, <1>5, <1>9, <2>1, TrackingOf
<1> QED
  BY <1>10, <1>11, <1>12, <1>13, <1>14, <1>15, <1>16, <1>17, <1>18, <1>19, <1>20, <1>21,
  <1>22
  DEF IInv

-----------------------------------------------------------------------------
(* Creations no route owns any more. *)

LEMMA ReadUnownedStep ==
    ASSUME IInv, NEW t \in Transfers, NEW n \in AttemptIds, ReadUnowned(t, n)
    PROVE  IInv'
<1>0. TypeOK /\ Born /\ Bonds /\ Duties /\ Asked /\ Passes /\ Scans /\ Generations /\
      SoleOwner /\ FenceBound /\ Cleanly /\ Openly /\ Tracking
  BY DEF IInv
<1>1. /\ UNCHANGED <<status, source, retired, imported, mode, closing>>
      /\ UNCHANGED <<root, bound, spent, pin, attempt, pc, ans>>
      /\ UNCHANGED <<binding, latest, remote, made, postdated>>
      /\ UNCHANGED <<inv, scanned, upsets, budget>>
  BY DEF ReadUnowned, vars, work, torrents, requests, passes, resources, history, scans,
         tally
<1>2. /\ settler.t = None /\ attempt[t][n].owed
      /\ \E saw \in Readings :
           /\ settler' = [t |-> t, n |-> n, saw |-> saw, due |-> Authority(t)]
           /\ blind' = IF saw # "unsettled" /\ pc[t] = "calling" THEN blind \cup {t} ELSE blind
  BY DEF ReadUnowned
<1>3. PICK saw \in Readings :
        /\ settler' = [t |-> t, n |-> n, saw |-> saw, due |-> Authority(t)]
        /\ blind' = IF saw # "unsettled" /\ pc[t] = "calling" THEN blind \cup {t} ELSE blind
  BY <1>2
<1>4. /\ settler'.t = t /\ settler'.n = n /\ settler'.saw = saw /\ settler'.due = Authority(t)
      /\ saw \in Objects \cup {"absent", "unsettled"} /\ Authority(t) \in Authorities
      /\ saw \in Objects => remote = {saw}
      /\ saw = "absent" => remote = {}
      /\ blind' \subseteq Transfers /\ \A x : x \notin blind' => x \notin blind
      /\ saw # "unsettled" /\ pc[t] = "calling" => t \in blind'
  BY <1>0, <1>3, Types, ObjectsAssumption DEF Readings, TypeOK
<1>5. status[t] # "unborn" /\ n \in 1..spent[t]
  BY <1>0, <1>2, Types DEF Born, Unborn, Openly, Opened, AttemptIds
<1>10. TypeOK'
  BY <1>0, <1>1, <1>2, <1>3, <1>4 DEF TypeOK, Authorities
<1>11. Born' /\ Bonds' /\ Duties' /\ Passes' /\ Generations' /\ SoleOwner' /\ FenceBound' /\
       Cleanly' /\ Openly'
  BY <1>0, <1>1, BornFrame, BondsFrame, DutiesFrame, PassesFrame, GenerationsFrame,
  SoleOwnerFrame, FenceBoundFrame, CleanlyFrame, OpenlyFrame
<1>12. Asked'
  <2>1. Authority(t) = "user" => AskedFor(t)
    BY <1>0, NoneAssumption DEF Authority, AskedFor, TypeOK, Modes
  <2> QED
    BY <1>0, <1>1, <1>4, <2>1 DEF Asked, AskedFor
<1>13. Scans'
  BY <1>0, <1>1, <1>4, <1>5 DEF Scans, Bound
<1>14. Tracking'
  <2> SUFFICES ASSUME NEW x \in Transfers, x \notin blind' PROVE Track(x)'
    BY DEF Tracking, Track
  <2>1. Track(x) /\ x \notin blind
    BY <1>0, <1>4 DEF Tracking
  <2>2. \A y \in Objects : Free(y)' <=> Free(y)
    BY <1>1 DEF Free, Bound
  <2>3. \A y \in Objects, m \in AttemptIds : y \in remote /\ Witness(x, y, m) => Witness(x, y, m)'
    BY <1>1, <1>4, ObjectsAssumption DEF Witness, Settling
  <2>4. pc[x] \in {"opened", "calling"} => ~Settling(x, spent[x])'
    BY <1>0, <1>1, <1>2, <1>4 DEF Settling, Openly, Opened, Current
  <2> QED
    BY <1>1, <2>1, <2>2, <2>3, <2>4 DEF Track, Current
<1> QED
  BY <1>10, <1>11, <1>12, <1>13, <1>14 DEF IInv

LEMMA SettleUnsettledStep ==
    ASSUME IInv, SettleUnowned, settler.saw = "unsettled"
    PROVE  IInv'
<1>0. TypeOK /\ Born /\ Bonds /\ Duties /\ Asked /\ Passes /\ Scans /\ Generations /\
      SoleOwner /\ FenceBound /\ Cleanly /\ Openly /\ Tracking
  BY DEF IInv
<1>1. /\ UNCHANGED <<status, source, retired, imported, mode, closing>>
      /\ UNCHANGED <<root, bound, spent, pin, attempt, pc, ans>>
      /\ UNCHANGED <<binding, latest, remote, made, blind, postdated>>
      /\ UNCHANGED <<inv, scanned, upsets, budget>>
  BY DEF SettleUnowned, vars, work, torrents, requests, passes, resources, history, scans,
         tally
<1>2. settler.t # None /\ settler' = NoSettlement
  BY DEF SettleUnowned
<1>10. TypeOK'
  BY <1>0, <1>1, <1>2 DEF TypeOK, Authorities, NoSettlement
<1>11. Born' /\ Bonds' /\ Duties' /\ Passes' /\ Generations' /\ SoleOwner' /\ FenceBound' /\
       Cleanly' /\ Openly'
  BY <1>0, <1>1, BornFrame, BondsFrame, DutiesFrame, PassesFrame, GenerationsFrame,
  SoleOwnerFrame, FenceBoundFrame, CleanlyFrame, OpenlyFrame
<1>12. Asked'
  BY <1>0, <1>1, <1>2, NoneAssumption DEF Asked, AskedFor, NoSettlement
<1>13. Scans'
  BY <1>0, <1>1, <1>2 DEF Scans, Bound, NoSettlement
<1>14. Tracking'
  <2>1. \A x \in Transfers : \A m : ~Settling(x, m)'
    BY <1>2, NoneAssumption DEF Settling, NoSettlement
  <2>2. \A y \in Objects : Free(y)' <=> Free(y)
    BY <1>1 DEF Free, Bound
  <2>3. \A x \in Transfers, y \in Objects, m \in AttemptIds : Witness(x, y, m) => Witness(x, y, m)'
    BY <1>1, <2>1 DEF Witness
  <2> QED
    BY <1>0, <1>1, <2>1, <2>2, <2>3 DEF Tracking, Track, Current
<1> QED
  BY <1>10, <1>11, <1>12, <1>13, <1>14 DEF IInv

LEMMA SettleAbsentStep ==
    ASSUME IInv, SettleUnowned, settler.saw = "absent"
    PROVE  IInv'
<1>0. TypeOK /\ Born /\ Bonds /\ Duties /\ Asked /\ Passes /\ Scans /\ Generations /\
      SoleOwner /\ FenceBound /\ Cleanly /\ Openly /\ Tracking
  BY DEF IInv
<1>1. /\ UNCHANGED <<status, source, retired, imported, mode, closing>>
      /\ UNCHANGED <<root, bound, spent, pin, pc, ans>>
      /\ UNCHANGED <<binding, latest, remote, made, blind, postdated>>
      /\ UNCHANGED <<inv, scanned, upsets, budget>>
  BY ObjectsAssumption
  DEF SettleUnowned, vars, work, torrents, requests, passes, resources, history, scans,
         tally
<1>2. /\ settler.t # None /\ settler' = NoSettlement
      /\ attempt' = [attempt EXCEPT ![settler.t][settler.n].owed = FALSE]
  BY ObjectsAssumption DEF SettleUnowned
<1>2a. settler.saw # "unsettled"
  BY ObjectsAssumption
<1>3a. /\ settler.t \in Transfers /\ settler.n \in AttemptIds
       /\ settler.n \in 1..spent[settler.t] /\ status[settler.t] # "unborn"
       /\ settler.saw \in Objects \cup {"absent", "unsettled"} /\ settler.due \in Authorities
  <2>1. settler.t \in Transfers \cup {None} /\ settler.n \in AttemptIds \cup {0}
        /\ settler.due \in Authorities
    BY <1>0 DEF TypeOK
  <2>2. settler.n \in 1..spent[settler.t] /\ settler.t \in Transfers /\ spent[settler.t] \in Nat
    BY <1>0, <1>2, <2>1, Types DEF Scans
  <2> QED
    BY <1>0, <1>2, <2>1, <2>2 DEF Scans
<1>3. PICK t \in Transfers, n \in AttemptIds, o \in Objects \cup {"absent", "unsettled"},
           a \in Authorities :
        /\ settler.t = t /\ settler.n = n /\ settler.saw = o /\ settler.due = a
        /\ n \in 1..spent[t] /\ status[t] # "unborn"
  BY <1>3a
<1> DEFINE r == [attempt[t][n] EXCEPT !.owed = FALSE]
<1>4. /\ r \in Attempts /\ ~r.owed /\ r.state = attempt[t][n].state
      /\ r.uncertain = attempt[t][n].uncertain
  <2>1. attempt[t][n] \in Attempts
    BY <1>0, <1>3, Types
  <2> QED
    BY <2>1 DEF Attempts
<1>5. attempt' = [attempt EXCEPT ![t][n] = r]
  BY <1>2, <1>3
<1> HIDE DEF r
<1>6. /\ attempt' \in [Transfers -> [AttemptIds -> Attempts]] /\ attempt'[t][n] = r
      /\ \A x \in Transfers, m \in AttemptIds :
           x # t \/ m # n => attempt'[x][m] = attempt[x][m]
  BY <1>0, <1>3, <1>4, <1>5, Types
<1>7. \A x \in Transfers, m \in AttemptIds :
        /\ attempt'[x][m].state = attempt[x][m].state
        /\ attempt'[x][m].owed => attempt[x][m].owed
        /\ attempt'[x][m].uncertain = attempt[x][m].uncertain
        /\ x # t \/ m # n => attempt'[x][m].owed = attempt[x][m].owed
  BY <1>4, <1>6
<1>8. \A x \in Transfers : /\ 1..spent[x] \subseteq AttemptIds
                           /\ 1..(spent[x] - 1) \subseteq AttemptIds
                           /\ spent[x] > 0 => spent[x] \in AttemptIds
                           /\ Open(x)' <=> Open(x)
                           /\ spent[x] \in Nat
  <2>1. \A x \in Transfers : spent[x] \in 0..MaxAttempts /\ MaxAttempts \in Nat
    BY <1>0, Types
  <2>2. \A x \in Transfers : /\ 1..spent[x] \subseteq AttemptIds
                             /\ 1..(spent[x] - 1) \subseteq AttemptIds
                             /\ (spent[x] > 0 => spent[x] \in AttemptIds) /\ spent[x] \in Nat
    BY <2>1 DEF AttemptIds
  <2> QED
    BY <1>1, <1>7, <2>2 DEF Open, Current
<1>9. MoreBonds /\ SameBonds
  BY <1>1 DEF MoreBonds, SameBonds, Bound
<1>9a. \A y \in Objects : Free(y)' => Free(y) /\ y # o
  BY <1>3, <1>9, ObjectsAssumption DEF Free, SameBonds
<1>10. TypeOK'
  BY <1>0, <1>1, <1>2, <1>6
  DEF TypeOK, Authorities, Attempts, States, NoSettlement, Rows, Calls
<1>11. Bonds' /\ Duties' /\ Passes' /\ Generations' /\ SoleOwner' /\ FenceBound'
  BY <1>0, <1>1, BondsFrame, DutiesFrame, PassesFrame, GenerationsFrame, SoleOwnerFrame,
  FenceBoundFrame
<1>12. Born'
  BY <1>0, <1>1, <1>7 DEF Born, Unborn, Bound
<1>13. Asked'
  BY <1>0, <1>1, <1>2, NoneAssumption DEF Asked, AskedFor, NoSettlement
<1>14. Scans'
  BY <1>0, <1>1, <1>2 DEF Scans, Bound, NoSettlement
<1>15. Cleanly'
  <2>1. ASSUME NEW x \in Transfers PROVE Clean(x)'
    <3>1. \A m \in 1..(spent[x] - 1) :
            /\ attempt'[x][m].state = attempt[x][m].state
            /\ attempt'[x][m].owed => attempt[x][m].owed
      BY <1>7, <1>8
    <3>2. Open(x) => /\ Current(x)'.owed => Current(x).owed
                     /\ Current(x)'.uncertain = Current(x).uncertain
      BY <1>1, <1>7, <1>8 DEF Open, Current
    <3>3. (\A y \in Objects : ~Bound(x, y)') => \A y \in Objects : ~Bound(x, y)
      BY <1>9 DEF MoreBonds
    <3> QED
      BY <1>0, <1>1, <1>8, <3>1, <3>2, <3>3 DEF Cleanly, Clean
  <2> QED
    BY <2>1 DEF Cleanly
<1>16. Openly'
  <2>1. ASSUME NEW x \in Transfers PROVE Opened(x)'
    <3>1. pc[x] = "opened" => spent[x] > 0
      BY <1>0 DEF Passes, Pass
    <3> QED
      BY <1>0, <1>1, <1>7, <1>8, <3>1 DEF Openly, Opened, Current
  <2> QED
    BY <2>1 DEF Openly
<1>17. Tracking'
  <2>1. \A x \in Transfers : \A m : ~Settling(x, m)'
    BY <1>2, NoneAssumption DEF Settling, NoSettlement
  <2>2. \A y \in Objects : Free(y)' => Free(y) /\ y # o
    BY <1>9a
  <2>3. ASSUME NEW x \in Transfers, NEW y \in Objects, NEW m \in AttemptIds,
               Witness(x, y, m), y # o
        PROVE  Witness(x, y, m)'
    <3>1. x # t \/ m # n
      BY <1>2a, <1>3, <2>3 DEF Witness, Settling
    <3> QED
      BY <1>1, <1>7, <2>1, <2>3, <3>1 DEF Witness
  <2>4. ASSUME NEW x \in Transfers, x \notin blind, pc[x] = "calling"
        PROVE  Current(x)'.owed
    <3>1. spent[x] > 0 /\ ~Settling(x, spent[x]) /\ Current(x).owed
      BY <1>0, <2>4 DEF Tracking, Track, Passes, Pass
    <3>2. x # t \/ spent[x] # n
      BY <1>2a, <1>3, <3>1 DEF Settling
    <3> QED
      BY <1>1, <1>7, <1>8, <3>1, <3>2 DEF Current
  <2> QED
    BY <1>0, <1>1, <2>1, <2>2, <2>3, <2>4 DEF Tracking, Track
<1> QED
  BY <1>10, <1>11, <1>12, <1>13, <1>14, <1>15, <1>16, <1>17 DEF IInv

LEMMA SettleFoundStep ==
    ASSUME IInv, SettleUnowned, settler.saw \in Objects
    PROVE  IInv'
<1>0. TypeOK /\ Born /\ Bonds /\ Duties /\ Asked /\ Passes /\ Scans /\ Generations /\
      SoleOwner /\ FenceBound /\ Cleanly /\ Openly /\ Tracking
  BY DEF IInv
<1>1. /\ UNCHANGED <<status, source, retired, imported, mode, closing>>
      /\ UNCHANGED <<root, bound, spent, pin, pc, ans>>
      /\ UNCHANGED <<remote, made, blind>>
      /\ UNCHANGED <<inv, scanned, upsets, budget>>
  BY ObjectsAssumption
  DEF SettleUnowned, vars, work, torrents, requests, passes, resources, history, scans,
         tally
<1>2. /\ settler.t # None /\ settler' = NoSettlement
      /\ attempt' = [attempt EXCEPT ![settler.t][settler.n].owed = FALSE]
  BY ObjectsAssumption DEF SettleUnowned
<1>2a. settler.saw # "unsettled"
  BY ObjectsAssumption
<1>3a. /\ settler.t \in Transfers /\ settler.n \in AttemptIds
       /\ settler.n \in 1..spent[settler.t] /\ status[settler.t] # "unborn"
       /\ settler.saw \in Objects \cup {"absent", "unsettled"} /\ settler.due \in Authorities
  <2>1. settler.t \in Transfers \cup {None} /\ settler.n \in AttemptIds \cup {0}
        /\ settler.due \in Authorities
    BY <1>0 DEF TypeOK
  <2>2. settler.n \in 1..spent[settler.t] /\ settler.t \in Transfers /\ spent[settler.t] \in Nat
    BY <1>0, <1>2, <2>1, Types DEF Scans
  <2> QED
    BY <1>0, <1>2, <2>1, <2>2 DEF Scans
<1>3. PICK t \in Transfers, n \in AttemptIds, o \in Objects \cup {"absent", "unsettled"},
           a \in Authorities :
        /\ settler.t = t /\ settler.n = n /\ settler.saw = o /\ settler.due = a
        /\ n \in 1..spent[t] /\ status[t] # "unborn"
  BY <1>3a
<1> DEFINE r == [attempt[t][n] EXCEPT !.owed = FALSE]
<1>4. /\ r \in Attempts /\ ~r.owed /\ r.state = attempt[t][n].state
      /\ r.uncertain = attempt[t][n].uncertain
  <2>1. attempt[t][n] \in Attempts
    BY <1>0, <1>3, Types
  <2> QED
    BY <2>1 DEF Attempts
<1>5. attempt' = [attempt EXCEPT ![t][n] = r]
  BY <1>2, <1>3
<1> HIDE DEF r
<1>6. /\ attempt' \in [Transfers -> [AttemptIds -> Attempts]] /\ attempt'[t][n] = r
      /\ \A x \in Transfers, m \in AttemptIds :
           x # t \/ m # n => attempt'[x][m] = attempt[x][m]
  BY <1>0, <1>3, <1>4, <1>5, Types
<1>7. \A x \in Transfers, m \in AttemptIds :
        /\ attempt'[x][m].state = attempt[x][m].state
        /\ attempt'[x][m].owed => attempt[x][m].owed
        /\ attempt'[x][m].uncertain = attempt[x][m].uncertain
        /\ x # t \/ m # n => attempt'[x][m].owed = attempt[x][m].owed
  BY <1>4, <1>6
<1>8. \A x \in Transfers : /\ 1..spent[x] \subseteq AttemptIds
                           /\ 1..(spent[x] - 1) \subseteq AttemptIds
                           /\ spent[x] > 0 => spent[x] \in AttemptIds
                           /\ Open(x)' <=> Open(x)
                           /\ spent[x] \in Nat
  <2>1. \A x \in Transfers : spent[x] \in 0..MaxAttempts /\ MaxAttempts \in Nat
    BY <1>0, Types
  <2>2. \A x \in Transfers : /\ 1..spent[x] \subseteq AttemptIds
                             /\ 1..(spent[x] - 1) \subseteq AttemptIds
                             /\ (spent[x] > 0 => spent[x] \in AttemptIds) /\ spent[x] \in Nat
    BY <2>1 DEF AttemptIds
  <2> QED
    BY <1>1, <1>7, <2>2 DEF Open, Current
<1>9c. o \in Objects /\ RecordUnrouted(t, o, a)
  BY <1>3, ObjectsAssumption DEF SettleUnowned
<1>9d. a = "user" => AskedFor(t)
  BY <1>0, <1>3 DEF Asked
<1>9b. BoundTo(t, o)
  BY <1>0, <1>1, <1>9c, <1>9d, UnroutedEffect
<1>9. MoreBonds /\ ~Free(o)'
  BY <1>9b DEF BoundTo
<1>9a. \A y \in Objects : Free(y)' => Free(y) /\ y # o
  BY <1>9 DEF Free, MoreBonds
<1>10. TypeOK'
  BY <1>0, <1>1, <1>2, <1>6, <1>9b
  DEF TypeOK, Authorities, Attempts, States, NoSettlement, Rows, Calls, BoundTo
<1>11. Generations'
  BY <1>0, <1>1, GenerationsFrame
<1>12. Born'
  <2> SUFFICES ASSUME NEW x \in Transfers, status'[x] = "unborn" PROVE Unborn(x)'
    BY DEF Born, Unborn
  <2>1. x # t /\ status[x] = "unborn" /\ Unborn(x)
    BY <1>0, <1>1, <1>3 DEF Born
  <2>2. \A y \in Objects : ~Bound(x, y)'
    BY <1>9b, <2>1 DEF Unborn, BoundTo
  <2> QED
    BY <1>1, <1>7, <2>1, <2>2 DEF Unborn
<1>13. Bonds'
  BY <1>0, <1>1, <1>9b DEF Bonds, BoundTo, MoreBonds
<1>14. Duties'
  BY <1>9b DEF BoundTo
<1>15. Asked'
  BY <1>0, <1>1, <1>2, <1>9b, NoneAssumption DEF Asked, AskedFor, NoSettlement, BoundTo
<1>16. Passes'
  BY <1>0, <1>1, <1>9, PassesMore
<1>17. Scans'
  BY <1>0, <1>1, <1>2, <1>9 DEF Scans, MoreBonds, NoSettlement
<1>18. SoleOwner'
  BY <1>9b DEF BoundTo
<1>19. FenceBound'
  <2>1. \A x \in Transfers : FenceRead(x)' => FenceRead(x)
    BY <1>1 DEF FenceRead, Live
  <2> QED
    BY <1>0, <1>1, <1>9b, <2>1, FenceKept DEF BoundTo
<1>20. Cleanly'
  <2>1. ASSUME NEW x \in Transfers PROVE Clean(x)'
    <3>1. \A m \in 1..(spent[x] - 1) :
            /\ attempt'[x][m].state = attempt[x][m].state
            /\ attempt'[x][m].owed => attempt[x][m].owed
      BY <1>7, <1>8
    <3>2. Open(x) => /\ Current(x)'.owed => Current(x).owed
                     /\ Current(x)'.uncertain = Current(x).uncertain
      BY <1>1, <1>7, <1>8 DEF Open, Current
    <3>3. (\A y \in Objects : ~Bound(x, y)') => \A y \in Objects : ~Bound(x, y)
      BY <1>9 DEF MoreBonds
    <3> QED
      BY <1>0, <1>1, <1>8, <3>1, <3>2, <3>3 DEF Cleanly, Clean
  <2> QED
    BY <2>1 DEF Cleanly
<1>21. Openly'
  <2>1. ASSUME NEW x \in Transfers PROVE Opened(x)'
    <3>1. pc[x] = "opened" => spent[x] > 0
      BY <1>0 DEF Passes, Pass
    <3> QED
      BY <1>0, <1>1, <1>7, <1>8, <3>1 DEF Openly, Opened, Current
  <2> QED
    BY <2>1 DEF Openly
<1>22. Tracking'
  <2>1. \A x \in Transfers : \A m : ~Settling(x, m)'
    BY <1>2, NoneAssumption DEF Settling, NoSettlement
  <2>2. \A y \in Objects : Free(y)' => Free(y) /\ y # o
    BY <1>9a
  <2>3. ASSUME NEW x \in Transfers, NEW y \in Objects, NEW m \in AttemptIds,
               Witness(x, y, m), y # o
        PROVE  Witness(x, y, m)'
    <3>1. x # t \/ m # n
      BY <1>2a, <1>3, <2>3 DEF Witness, Settling
    <3> QED
      BY <1>1, <1>7, <2>1, <2>3, <3>1 DEF Witness
  <2>4. ASSUME NEW x \in Transfers, x \notin blind, pc[x] = "calling"
        PROVE  Current(x)'.owed
    <3>1. spent[x] > 0 /\ ~Settling(x, spent[x]) /\ Current(x).owed
      BY <1>0, <2>4 DEF Tracking, Track, Passes, Pass
    <3>2. x # t \/ spent[x] # n
      BY <1>2a, <1>3, <3>1 DEF Settling
    <3> QED
      BY <1>1, <1>7, <1>8, <3>1, <3>2 DEF Current
  <2> QED
    BY <1>0, <1>1, <2>1, <2>2, <2>3, <2>4 DEF Tracking, Track
<1> QED
  BY <1>10, <1>11, <1>12, <1>13, <1>14, <1>15, <1>16, <1>17, <1>18, <1>19, <1>20, <1>21,
  <1>22
  DEF IInv

LEMMA SettleUnownedStep ==
    ASSUME IInv, SettleUnowned
    PROVE  IInv'
<1>1. settler.saw \in Objects \cup {"absent", "unsettled"}
  BY DEF IInv, Scans, SettleUnowned
<1> QED
  BY <1>1, SettleUnsettledStep, SettleAbsentStep, SettleFoundStep

LEMMA InventoryAdmitStep ==
    ASSUME IInv, NEW t \in Transfers, NEW o \in Objects, InventoryAdmit(t, o)
    PROVE  IInv'
  BY AdmitFencedStep, AdmitBoundStep

-----------------------------------------------------------------------------
(* An answer, or a reconciliation, is taken. *)

\* The rest of an answer's step: the pass no longer has the object in its hands.
Told(t) == ans' = [ans EXCEPT ![t] = None]
           /\ UNCHANGED <<torrents, spent, pin, remote, made, blind, scans>>

LEMMA CloseLateEffect ==
    ASSUME TypeOK, Asked, NEW t \in Transfers, CloseLate(t)
    PROVE  /\ closing' \in [Transfers -> [Closers -> Authorities]]
           /\ \A x \in Transfers \ {t} : closing'[x] = closing[x]
           /\ \A x \in Transfers, c \in Closers : closing'[x][c] = "user" => AskedFor(x)
<1> DEFINE a == IF Live(t) \/ Authority(t) = None THEN closing[t]["answered"] ELSE Authority(t)
<1>1. closing' = [closing EXCEPT ![t]["answered"] = a]
  BY DEF CloseLate
<1>2. closing \in [Transfers -> [Closers -> Authorities]] /\ "answered" \in Closers
  BY DEF TypeOK, Closers
<1>3. a \in Authorities
  BY <1>2, Types
<1>4. a = "user" => AskedFor(t)
  <2>1. Authority(t) = "user" => AskedFor(t)
    BY NoneAssumption DEF Authority, AskedFor, TypeOK, Modes
  <2> QED
    BY <1>2, <2>1 DEF Asked
<1> HIDE DEF a
<1> QED
  BY <1>1, <1>2, <1>3, <1>4 DEF Asked

LEMMA LateStep ==
    ASSUME IInv, NEW t \in Transfers, NEW o \in Objects,
           pc[t] \in {"created", "settling"}, ans[t] = o,
           Late(t, o), Told(t)
    PROVE  IInv'
<1>0. TypeOK /\ Born /\ Bonds /\ Duties /\ Asked /\ Passes /\ Scans /\ Generations /\
      SoleOwner /\ FenceBound /\ Cleanly /\ Openly /\ Tracking
  BY DEF IInv
<1>1. /\ UNCHANGED <<status, source, retired, imported, mode>>
      /\ UNCHANGED <<root, bound, spent, pin>>
      /\ UNCHANGED <<remote, made, blind>>
      /\ UNCHANGED <<inv, settler, scanned, upsets, budget>>
  BY DEF Late, Told, CloseLate, Set, Goto, vars, work, torrents, requests, passes, resources,
         history, scans, tally
<1>2. /\ pc[t] \in {"created", "settling"} /\ ans[t] = o
      /\ ~Open(t)
      /\ attempt' = [attempt EXCEPT ![t][spent[t]] = [Current(t) EXCEPT !.owed = FALSE]]
      /\ pc' = [pc EXCEPT ![t] = "idle"]
      /\ ans' = [ans EXCEPT ![t] = None]
  BY DEF Late, Told, CloseLate, Set, Goto
<1>3a. spent[t] > 0
  BY <1>0, <1>2 DEF Passes, Pass, Open
<1> DEFINE r == [Current(t) EXCEPT !.owed = FALSE]
<1>3b. r \in Attempts /\ r.state = Current(t).state /\ ~r.owed
  BY <1>0, <1>3a, CurrentType DEF Attempts, States, Open
<1>3c. attempt' = [attempt EXCEPT ![t][spent[t]] = r]
  BY <1>2
<1> HIDE DEF r
<1>3d. r \in Attempts /\ Set(t, r)
  BY <1>3b, <1>3c DEF Set
<1>3. /\ attempt' \in [Transfers -> [AttemptIds -> Attempts]]
      /\ spent[t] \in AttemptIds /\ attempt'[t][spent[t]] = r
      /\ \A n \in AttemptIds : n # spent[t] => attempt'[t][n] = attempt[t][n]
  BY <1>0, <1>3a, <1>3d, SetEffect
<1>3e. spent'[t] = spent[t]
  BY <1>1
<1>4. /\ spent[t] \in 1..spent[t] /\ Current(t)' = r /\ spent'[t] = spent[t]
      /\ \A n \in 1..(spent[t] - 1) : n \in AttemptIds /\ attempt'[t][n] = attempt[t][n]
      /\ Open(t)' <=> r.state = "started"
  <2>1. Current(t)' = r
    BY <1>3, <1>3e DEF Current
  <2>2. \A n \in 1..(spent[t] - 1) : n \in AttemptIds /\ n # spent[t]
    BY <1>0, <1>3, Types DEF AttemptIds
  <2>3. spent[t] \in 1..spent[t] /\ spent'[t] > 0
    BY <1>0, <1>3a, <1>3e, Types
  <2>4. Open(t)' <=> r.state = "started"
    BY <2>1, <2>3 DEF Open
  <2> QED
    BY <1>3, <1>3e, <2>1, <2>2, <2>3, <2>4
<1> DEFINE a == IF Live(t) THEN "owned" ELSE None
<1>7b. /\ RecordUnrouted(t, o, a) /\ a \in Authorities /\ a # "user"
  BY NoneAssumption DEF Late, Authorities
<1> HIDE DEF a
<1>7a. BoundTo(t, o)
  BY <1>0, <1>1, <1>7b, UnroutedEffect
<1>7. /\ \A x \in Transfers \ {t}, y \in Objects : Bound(x, y)' <=> Bound(x, y)
      /\ MoreBonds /\ ~Free(o)'
  BY <1>7a DEF BoundTo
<1>9. MoreBonds
  BY <1>7
<1>5a. \A x \in Transfers \ {t} :
        attempt'[x] = attempt[x] /\ pc'[x] = pc[x] /\ ans'[x] = ans[x]
  BY <1>0, <1>2 DEF TypeOK
<1>5b. \A x \in Transfers \ {t}, y \in Objects : Bound(x, y)' <=> Bound(x, y)
  BY <1>7 DEF Bound
<1>5c. CloseLate(t)
  BY DEF Late
<1>5d. /\ closing' \in [Transfers -> [Closers -> Authorities]]
       /\ \A x \in Transfers \ {t} : closing'[x] = closing[x]
       /\ \A x \in Transfers, c \in Closers : closing'[x][c] = "user" => AskedFor(x)
  BY <1>0, <1>5c, CloseLateEffect
<1>5. Others(t)
  BY <1>1, <1>2, <1>5a, <1>5b, <1>5d DEF Others
<1>6. /\ pc[t] \in {"created", "settling"} /\ ans[t] = o
      /\ ~Open(t)
      /\ pc'[t] = "idle"
  BY <1>0, <1>1, <1>2 DEF TypeOK
<1>10. TypeOK'
  <2>1. /\ pc' \in [Transfers -> {"idle", "routed", "draining", "unrouted", "opened",
                                 "calling", "created", "refused", "uncertain", "erring",
                                 "failing", "settling"}]
        /\ ans' \in [Transfers -> Objects \cup {None, "absent", "unsettled"}]
    BY <1>0, <1>1, <1>2, Types DEF TypeOK, Authorities
  <2> QED
    BY <1>0, <1>1, <1>3, <1>5d, <1>7a, <2>1
    DEF TypeOK, Authorities, Attempts, States, Rows, Calls, BoundTo
<1>11. Generations'
  BY <1>0, <1>1, GenerationsFrame
<1>12. Born'
  <2>1. status[t] # "unborn"
    BY <1>0, <1>3a, Types DEF Born, Unborn
  <2> QED
    BY <1>0, <1>5, <2>1, BornOf
<1>13. Bonds'
  BY <1>0, <1>1, <1>7a, <1>9 DEF Bonds, BoundTo, MoreBonds
<1>14. Duties'
  BY <1>7a DEF BoundTo
<1>15. Asked'
  <2>1. \A x \in Transfers : AskedFor(x)' <=> AskedFor(x)
    BY <1>1 DEF AskedFor
  <2> QED
    BY <1>0, <1>1, <1>5d, <1>7a, <2>1 DEF Asked, BoundTo
<1>16. Passes'
  <2>1. Pass(t)'
    BY <1>0, <1>1, <1>6, <1>3a DEF Passes, Pass, MoreBonds
  <2> QED
    BY <1>0, <1>5, <1>9, <2>1, PassesOf
<1>17. Scans'
  BY <1>0, <1>1, <1>9, ScansMore
<1>18. SoleOwner'
  BY <1>7a DEF BoundTo
<1>19. FenceBound'
  <2>1. \A x \in Transfers : FenceRead(x)' => FenceRead(x)
    BY <1>1, <1>3a, <1>5, <1>6 DEF FenceRead, Live, Others
  <2> QED
    BY <1>0, <1>1, <1>7a, <2>1, FenceKept DEF BoundTo
<1>20. Cleanly'
  <2>1. Clean(t)'
    BY <1>0, <1>1, <1>3, <1>3b, <1>4, <1>6, <1>9 DEF Cleanly, Clean, Open, MoreBonds
  <2> QED
    BY <1>0, <1>5, <2>1, CleanlyOf
<1>21. Openly'
  <2>1. Opened(t)'
    BY <1>0, <1>1, <1>3, <1>3b, <1>4, <1>6 DEF Openly, Opened, Current
  <2> QED
    BY <1>0, <1>5, <2>1, OpenlyOf
<1>22. Tracking'
  <2>1. Track(t)'
    <3>1. \A y \in Objects : Free(y)' => Free(y) /\ y # o
      BY <1>7 DEF Free, MoreBonds
    <3>2. \A y \in Objects, n \in AttemptIds :
            y # o /\ pc[t] = "created" /\ Witness(t, y, n) => Witness(t, y, n)'
      BY <1>1, <1>3, <1>4, <1>6 DEF Witness, Settling
    <3> QED
      BY <1>0, <1>1, <1>6, <3>1, <3>2, ObjectsAssumption DEF Tracking, Track, Settling, Current
  <2> QED
    BY <1>0, <1>5, <1>9, <2>1, TrackingOf
<1> QED
  BY <1>10, <1>11, <1>12, <1>13, <1>14, <1>15, <1>16, <1>17, <1>18, <1>19, <1>20, <1>21,
  <1>22
  DEF IInv

LEMMA BindStep ==
    ASSUME IInv, NEW t \in Transfers, NEW o \in Objects,
           pc[t] \in {"created", "settling"}, ans[t] = o,
           Bind(t, o), Told(t)
    PROVE  IInv'
<1>0. TypeOK /\ Born /\ Bonds /\ Duties /\ Asked /\ Passes /\ Scans /\ Generations /\
      SoleOwner /\ FenceBound /\ Cleanly /\ Openly /\ Tracking
  BY DEF IInv
<1>1. /\ UNCHANGED <<status, source, retired, imported, mode>>
      /\ UNCHANGED <<spent, pin>>
      /\ UNCHANGED <<remote, made, blind>>
      /\ UNCHANGED <<inv, settler, scanned, budget>>
  BY DEF Bind, Upset, tally, Told, CloseLate, Set, Goto, vars, work, torrents, requests,
         passes, resources, history, scans, tally
<1>2. /\ pc[t] \in {"created", "settling"} /\ ans[t] = o
      /\ Open(t)
      /\ ans' = [ans EXCEPT ![t] = None]
      /\ bound' = IF Live(t) THEN [bound EXCEPT ![t] = o] ELSE bound
  BY DEF Bind, Upset, tally, Told, CloseLate, Set, Goto
<1>2b. \E s \in {"succeeded", "failed"}, w \in {"idle", "failing"}, q \in {"waiting", "failed"} :
         /\ attempt' = [attempt EXCEPT ![t][spent[t]] =
                            [Current(t) EXCEPT !.state = s, !.owed = FALSE]]
         /\ pc' = [pc EXCEPT ![t] = w]
         /\ root' = IF Live(t) THEN [root EXCEPT ![t] = q] ELSE root
         /\ upsets' \in {upsets, upsets + 1}
  <2>1. CASE /\ Set(t, [Current(t) EXCEPT !.state = "succeeded", !.owed = FALSE])
             /\ root' = IF Live(t) THEN [root EXCEPT ![t] = "waiting"] ELSE root
             /\ Goto(t, "idle") /\ UNCHANGED tally
    BY <2>1 DEF Set, Goto, tally
  <2>2. CASE /\ Set(t, [Current(t) EXCEPT !.state = "failed", !.owed = FALSE])
             /\ root' = IF Live(t) THEN [root EXCEPT ![t] = "failed"] ELSE root
             /\ Goto(t, IF Live(t) THEN "failing" ELSE "idle") /\ Upset
    <3>1. PICK w \in {"idle", "failing"} : Goto(t, w)
      BY <2>2
    <3> QED
      BY <2>2, <3>1 DEF Set, Goto, Upset
  <2> QED
    BY <2>1, <2>2 DEF Bind
<1>2a. PICK s \in {"succeeded", "failed"}, w \in {"idle", "failing"},
            q \in {"waiting", "failed"} :
         /\ attempt' = [attempt EXCEPT ![t][spent[t]] =
                            [Current(t) EXCEPT !.state = s, !.owed = FALSE]]
         /\ pc' = [pc EXCEPT ![t] = w]
         /\ root' = IF Live(t) THEN [root EXCEPT ![t] = q] ELSE root
         /\ upsets' \in {upsets, upsets + 1}
  BY <1>2b
<1>3a. spent[t] > 0
  BY <1>0, <1>2 DEF Passes, Pass, Open
<1> DEFINE r == [Current(t) EXCEPT !.state = s, !.owed = FALSE]
<1>3b. r \in Attempts /\ r.state = s /\ ~r.owed
  BY <1>0, <1>3a, CurrentType DEF Attempts, States, Open
<1>3c. attempt' = [attempt EXCEPT ![t][spent[t]] = r]
  BY <1>2a
<1> HIDE DEF r
<1>3d. r \in Attempts /\ Set(t, r)
  BY <1>3b, <1>3c DEF Set
<1>3. /\ attempt' \in [Transfers -> [AttemptIds -> Attempts]]
      /\ spent[t] \in AttemptIds /\ attempt'[t][spent[t]] = r
      /\ \A n \in AttemptIds : n # spent[t] => attempt'[t][n] = attempt[t][n]
  BY <1>0, <1>3a, <1>3d, SetEffect
<1>3e. spent'[t] = spent[t]
  BY <1>1
<1>4. /\ spent[t] \in 1..spent[t] /\ Current(t)' = r /\ spent'[t] = spent[t]
      /\ \A n \in 1..(spent[t] - 1) : n \in AttemptIds /\ attempt'[t][n] = attempt[t][n]
      /\ Open(t)' <=> r.state = "started"
  <2>1. Current(t)' = r
    BY <1>3, <1>3e DEF Current
  <2>2. \A n \in 1..(spent[t] - 1) : n \in AttemptIds /\ n # spent[t]
    BY <1>0, <1>3, Types DEF AttemptIds
  <2>3. spent[t] \in 1..spent[t] /\ spent'[t] > 0
    BY <1>0, <1>3a, <1>3e, Types
  <2>4. Open(t)' <=> r.state = "started"
    BY <2>1, <2>3 DEF Open
  <2> QED
    BY <1>3, <1>3e, <2>1, <2>2, <2>3, <2>4
<1>7a. BoundTo(t, o) /\ Bound(t, o)'
  <2>1. /\ Bindable(t, o) /\ binding' = Upsert(t, o, TRUE) /\ BindLatest(t, o)
        /\ Postdate(t, {o})
    BY DEF Bind
  <2> QED
    BY <1>0, <1>1, <2>1, RoutedEffect
<1>7. /\ \A x \in Transfers \ {t}, y \in Objects : Bound(x, y)' <=> Bound(x, y)
      /\ MoreBonds /\ ~Free(o)'
  BY <1>7a DEF BoundTo
<1>9. MoreBonds
  BY <1>7
<1>5a. \A x \in Transfers \ {t} :
        root'[x] = root[x] /\ bound'[x] = bound[x] /\ attempt'[x] = attempt[x] /\ pc'[x] =
        pc[x] /\ ans'[x] = ans[x]
  BY <1>0, <1>2, <1>2a DEF TypeOK
<1>5b. \A x \in Transfers \ {t}, y \in Objects : Bound(x, y)' <=> Bound(x, y)
  BY <1>7 DEF Bound
<1>5c. CloseLate(t)
  BY DEF Bind
<1>5d. /\ closing' \in [Transfers -> [Closers -> Authorities]]
       /\ \A x \in Transfers \ {t} : closing'[x] = closing[x]
       /\ \A x \in Transfers, c \in Closers : closing'[x][c] = "user" => AskedFor(x)
  BY <1>0, <1>5c, CloseLateEffect
<1>5. Others(t)
  BY <1>1, <1>2, <1>5a, <1>5b, <1>5d DEF Others
<1>6. /\ pc[t] \in {"created", "settling"} /\ ans[t] = o
      /\ Open(t)
      /\ /\ pc'[t] \in {"idle", "failing"}
      /\ IF Live(t) THEN bound'[t] = o ELSE bound'[t] = bound[t] /\ root'[t] = root[t]
  BY <1>0, <1>1, <1>2, <1>2a DEF TypeOK
<1>10. TypeOK'
  <2>1. /\ pc' \in [Transfers -> {"idle", "routed", "draining", "unrouted", "opened",
                                 "calling", "created", "refused", "uncertain", "erring",
                                 "failing", "settling"}]
        /\ ans' \in [Transfers -> Objects \cup {None, "absent", "unsettled"}]
        /\ root' \in [Transfers -> {"pending", "resolving", "waiting", "failed"}]
        /\ bound' \in [Transfers -> Objects \cup {None}]
        /\ upsets' \in Nat
    BY <1>0, <1>1, <1>2, <1>2a, Types DEF TypeOK, Authorities
  <2> QED
    BY <1>0, <1>1, <1>3, <1>5d, <1>7a, <2>1
    DEF TypeOK, Authorities, Attempts, States, Rows, Calls, BoundTo
<1>11. Generations'
  BY <1>0, <1>1, GenerationsFrame
<1>12. Born'
  <2>1. status[t] # "unborn"
    BY <1>0, <1>3a, Types DEF Born, Unborn
  <2> QED
    BY <1>0, <1>5, <2>1, BornOf
<1>13. Bonds'
  <2>1. \A x \in Transfers, y \in Objects : bound'[x] = y => Bound(x, y)'
    BY <1>0, <1>5, <1>6, <1>7a, <1>9 DEF Bonds, MoreBonds, Others
  <2>2. \A x \in Transfers : root'[x] = "waiting" => bound'[x] # None
    BY <1>0, <1>5, <1>6, ObjectsAssumption DEF Bonds, Others
  <2> QED
    BY <1>7a, <2>1, <2>2 DEF Bonds, BoundTo
<1>14. Duties'
  BY <1>7a DEF BoundTo
<1>15. Asked'
  <2>1. \A x \in Transfers : AskedFor(x)' <=> AskedFor(x)
    BY <1>1 DEF AskedFor
  <2> QED
    BY <1>0, <1>1, <1>5d, <1>7a, <2>1 DEF Asked, BoundTo
<1>16. Passes'
  <2>1. Pass(t)'
    BY <1>0, <1>1, <1>6, <1>3a DEF Passes, Pass, MoreBonds
  <2> QED
    BY <1>0, <1>5, <1>9, <2>1, PassesOf
<1>17. Scans'
  BY <1>0, <1>1, <1>9, ScansMore
<1>18. SoleOwner'
  BY <1>7a DEF BoundTo
<1>19. FenceBound'
  <2>1. \A x \in Transfers : FenceRead(x)' => FenceRead(x)
    BY <1>1, <1>3a, <1>5, <1>6 DEF FenceRead, Live, Others
  <2> QED
    BY <1>0, <1>1, <1>7a, <2>1, FenceKept DEF BoundTo
<1>20. Cleanly'
  <2>1. Clean(t)'
    BY <1>7a DEF Clean
  <2> QED
    BY <1>0, <1>5, <2>1, CleanlyOf
<1>21. Openly'
  <2>1. Opened(t)'
    BY <1>0, <1>1, <1>3, <1>3b, <1>4, <1>6 DEF Openly, Opened, Current
  <2> QED
    BY <1>0, <1>5, <2>1, OpenlyOf
<1>22. Tracking'
  <2>1. Track(t)'
    <3>1. \A y \in Objects : Free(y)' => Free(y) /\ y # o
      BY <1>7 DEF Free, MoreBonds
    <3>2. \A y \in Objects, n \in AttemptIds :
            y # o /\ pc[t] = "created" /\ Witness(t, y, n) => Witness(t, y, n)'
      BY <1>1, <1>3, <1>4, <1>6 DEF Witness, Settling
    <3> QED
      BY <1>0, <1>1, <1>6, <3>1, <3>2, ObjectsAssumption DEF Tracking, Track, Settling, Current
  <2> QED
    BY <1>0, <1>5, <1>9, <2>1, TrackingOf
<1> QED
  BY <1>10, <1>11, <1>12, <1>13, <1>14, <1>15, <1>16, <1>17, <1>18, <1>19, <1>20, <1>21,
  <1>22
  DEF IInv

LEMMA ConflictStep ==
    ASSUME IInv, NEW t \in Transfers, NEW o \in Objects, NEW where \in {"erring", "unrouted"},
           pc[t] \in {"created", "settling"}, ans[t] = o,
           Conflict(t, o, where), Told(t)
    PROVE  IInv'
<1>0. TypeOK /\ Born /\ Bonds /\ Duties /\ Asked /\ Passes /\ Scans /\ Generations /\
      SoleOwner /\ FenceBound /\ Cleanly /\ Openly /\ Tracking
  BY DEF IInv
<1>1. /\ UNCHANGED <<status, source, retired, imported, mode, closing>>
      /\ UNCHANGED <<root, bound, spent, pin, attempt>>
      /\ UNCHANGED <<binding, latest, remote, made, blind, postdated>>
      /\ UNCHANGED <<inv, settler, scanned, upsets, budget>>
  BY DEF Conflict, Told, Goto, tally, vars, work, torrents, requests, passes, resources,
         history, scans, tally
<1>2. /\ pc[t] \in {"created", "settling"} /\ ans[t] = o
      /\ ~Bindable(t, o)
      /\ pc' = [pc EXCEPT ![t] = where]
      /\ ans' = [ans EXCEPT ![t] = None]
  BY DEF Conflict, Told, Goto, tally
<1>5a. \A x \in Transfers \ {t} :
        pc'[x] = pc[x] /\ ans'[x] = ans[x]
  BY <1>0, <1>2 DEF TypeOK
<1>5. Others(t)
  BY <1>1, <1>2, <1>5a DEF Others, Bound
<1>9. MoreBonds
  BY <1>1 DEF MoreBonds, Bound
<1>6. /\ pc[t] \in {"created", "settling"} /\ ans[t] = o
      /\ ~Bindable(t, o)
      /\ pc'[t] \in {"erring", "unrouted"}
  BY <1>0, <1>1, <1>2 DEF TypeOK
<1>10. TypeOK'
  BY <1>0, <1>1, <1>2, <1>6 DEF TypeOK, Authorities
<1>11. Bonds' /\ Duties' /\ Asked' /\ Scans' /\ Generations' /\ SoleOwner'
  BY <1>0, <1>1, BondsFrame, DutiesFrame, AskedFrame, ScansFrame, GenerationsFrame,
  SoleOwnerFrame
<1>12. Born'
  <2>1. status[t] # "unborn"
    BY <1>0, <1>2 DEF Born, Unborn
  <2> QED
    BY <1>0, <1>5, <2>1, BornOf
<1>13. Passes'
  <2>1. Pass(t)'
    BY <1>0, <1>1, <1>6 DEF Passes, Pass, Bound
  <2> QED
    BY <1>0, <1>5, <1>9, <2>1, PassesOf
<1>14. FenceBound'
  <2>1. FenceRead(t)' => FenceRead(t)
    BY <1>0, <1>1, <1>6 DEF FenceRead, Live, Passes, Pass
  <2> QED
    BY <1>0, <1>1, <1>5, <2>1, FenceOf
<1>15. Cleanly'
  <2>1. Clean(t)'
    BY <1>0, <1>1, <1>6 DEF Cleanly, Clean, Open, Current, Bound
  <2> QED
    BY <1>0, <1>5, <2>1, CleanlyOf
<1>16. Openly'
  <2>1. Opened(t)'
    BY <1>0, <1>1, <1>6 DEF Openly, Opened, Current
  <2> QED
    BY <1>0, <1>5, <2>1, OpenlyOf
<1>17. Tracking'
  <2>1. Track(t)'
    <3>1. \A y \in Objects : Free(y)' => Free(y) /\ y # o
      BY <1>2, <1>9 DEF Free, MoreBonds, Bindable
    <3>2. \A y \in Objects, n \in AttemptIds :
            y # o /\ pc[t] = "created" /\ Witness(t, y, n) => Witness(t, y, n)'
      BY <1>1, <1>2, <1>6 DEF Witness, Settling
    <3> QED
      BY <1>0, <1>1, <1>2, <1>6, <3>1, <3>2, ObjectsAssumption
      DEF Tracking, Track, Settling, Current
  <2> QED
    BY <1>0, <1>5, <1>9, <2>1, TrackingOf
<1> QED
  BY <1>10, <1>11, <1>12, <1>13, <1>14, <1>15, <1>16, <1>17 DEF IInv

LEMMA AcceptStep ==
    ASSUME IInv, NEW t \in Transfers, pc[t] \in {"created", "settling"}, ans[t] \in Objects,
           NEW where \in {"erring", "unrouted"}, Accept(t, ans[t], where),
           UNCHANGED <<torrents, spent, pin, remote, made, blind, scans>>
    PROVE  IInv'
<1>1. PICK o \in Objects : ans[t] = o
  OBVIOUS
<1>2. Told(t) /\ (Late(t, o) \/ Conflict(t, o, where) \/ Bind(t, o))
  BY <1>1 DEF Accept, Told
<1> QED
  BY <1>1, <1>2, LateStep, ConflictStep, BindStep

LEMMA AnswerStep ==
    ASSUME IInv, NEW t \in Transfers, Answer(t)
    PROVE  IInv'
<1>1. ans[t] \in Objects
  BY DEF Answer, IInv, Passes, Pass
<1> QED
  BY <1>1, AcceptStep DEF Answer

LEMMA SettleAwayStep ==
    ASSUME IInv, NEW t \in Transfers, SettleUncertain(t), ans[t] = "absent"
    PROVE  IInv'
<1>0. TypeOK /\ Born /\ Bonds /\ Duties /\ Asked /\ Passes /\ Scans /\ Generations /\
      SoleOwner /\ FenceBound /\ Cleanly /\ Openly /\ Tracking
  BY DEF IInv
<1>1. /\ UNCHANGED <<status, source, retired, imported, mode, closing>>
      /\ UNCHANGED <<root, bound, spent, pin>>
      /\ UNCHANGED <<binding, latest, remote, made, blind, postdated>>
      /\ UNCHANGED <<inv, settler, scanned, upsets, budget>>
  BY ObjectsAssumption
  DEF SettleUncertain, Set, Goto, vars, work, torrents, requests, passes, resources,
         history, scans, tally
<1>2. /\ pc[t] = "settling" /\ ans[t] = "absent"
      /\ attempt' = [attempt EXCEPT ![t][spent[t]] = [Current(t) EXCEPT !.owed = FALSE]]
      /\ pc' = [pc EXCEPT ![t] = "erring"]
      /\ ans' = [ans EXCEPT ![t] = None]
  BY ObjectsAssumption DEF SettleUncertain, Set, Goto
<1>3a. spent[t] > 0
  BY <1>0, <1>2 DEF Passes, Pass, Open
<1> DEFINE r == [Current(t) EXCEPT !.owed = FALSE]
<1>3b. r \in Attempts /\ r.state = Current(t).state /\ ~r.owed
  BY <1>0, <1>3a, CurrentType DEF Attempts, States, Open
<1>3c. attempt' = [attempt EXCEPT ![t][spent[t]] = r]
  BY <1>2
<1> HIDE DEF r
<1>3d. r \in Attempts /\ Set(t, r)
  BY <1>3b, <1>3c DEF Set
<1>3. /\ attempt' \in [Transfers -> [AttemptIds -> Attempts]]
      /\ spent[t] \in AttemptIds /\ attempt'[t][spent[t]] = r
      /\ \A n \in AttemptIds : n # spent[t] => attempt'[t][n] = attempt[t][n]
  BY <1>0, <1>3a, <1>3d, SetEffect
<1>3e. spent'[t] = spent[t]
  BY <1>1
<1>4. /\ spent[t] \in 1..spent[t] /\ Current(t)' = r /\ spent'[t] = spent[t]
      /\ \A n \in 1..(spent[t] - 1) : n \in AttemptIds /\ attempt'[t][n] = attempt[t][n]
      /\ Open(t)' <=> r.state = "started"
  <2>1. Current(t)' = r
    BY <1>3, <1>3e DEF Current
  <2>2. \A n \in 1..(spent[t] - 1) : n \in AttemptIds /\ n # spent[t]
    BY <1>0, <1>3, Types DEF AttemptIds
  <2>3. spent[t] \in 1..spent[t] /\ spent'[t] > 0
    BY <1>0, <1>3a, <1>3e, Types
  <2>4. Open(t)' <=> r.state = "started"
    BY <2>1, <2>3 DEF Open
  <2> QED
    BY <1>3, <1>3e, <2>1, <2>2, <2>3, <2>4
<1>5a. \A x \in Transfers \ {t} :
        attempt'[x] = attempt[x] /\ pc'[x] = pc[x] /\ ans'[x] = ans[x]
  BY <1>0, <1>2 DEF TypeOK
<1>5. Others(t)
  BY <1>1, <1>2, <1>5a DEF Others, Bound
<1>9. MoreBonds
  BY <1>1 DEF MoreBonds, Bound
<1>6. /\ pc[t] = "settling" /\ ans[t] = "absent"
      /\ pc'[t] = "erring"
  BY <1>0, <1>1, <1>2 DEF TypeOK
<1>10. TypeOK'
  BY <1>0, <1>1, <1>2, <1>6, <1>3 DEF TypeOK, Authorities, Attempts, States
<1>11. Bonds' /\ Duties' /\ Asked' /\ Scans' /\ Generations' /\ SoleOwner'
  BY <1>0, <1>1, BondsFrame, DutiesFrame, AskedFrame, ScansFrame, GenerationsFrame,
  SoleOwnerFrame
<1>12. Born'
  <2>1. status[t] # "unborn"
    BY <1>0, <1>2 DEF Born, Unborn
  <2> QED
    BY <1>0, <1>5, <2>1, BornOf
<1>13. Passes'
  <2>1. Pass(t)'
    BY <1>0, <1>1, <1>6 DEF Passes, Pass, Bound
  <2> QED
    BY <1>0, <1>5, <1>9, <2>1, PassesOf
<1>14. FenceBound'
  <2>1. FenceRead(t)' => FenceRead(t)
    BY <1>0, <1>1, <1>6 DEF FenceRead, Live, Passes, Pass
  <2> QED
    BY <1>0, <1>1, <1>5, <2>1, FenceOf
<1>15. Cleanly'
  <2>1. Clean(t)'
    BY <1>0, <1>1, <1>3, <1>3b, <1>4, <1>6 DEF Cleanly, Clean, Open, Bound
  <2> QED
    BY <1>0, <1>5, <2>1, CleanlyOf
<1>16. Openly'
  <2>1. Opened(t)'
    BY <1>0, <1>1, <1>3, <1>3b, <1>4, <1>6 DEF Openly, Opened, Current
  <2> QED
    BY <1>0, <1>5, <2>1, OpenlyOf
<1>17. Tracking'
  <2>1. Track(t)'
    <3>1. \A y \in Objects : Free(y)' => Free(y)
      BY <1>9 DEF Free, MoreBonds
    <3> QED
      BY <1>0, <1>1, <1>2, <1>6, <3>1, ObjectsAssumption DEF Tracking, Track
  <2> QED
    BY <1>0, <1>5, <1>9, <2>1, TrackingOf
<1> QED
  BY <1>10, <1>11, <1>12, <1>13, <1>14, <1>15, <1>16, <1>17 DEF IInv

LEMMA SettleNothingStep ==
    ASSUME IInv, NEW t \in Transfers, SettleUncertain(t), ans[t] = "unsettled"
    PROVE  IInv'
<1>0. TypeOK /\ Born /\ Bonds /\ Duties /\ Asked /\ Passes /\ Scans /\ Generations /\
      SoleOwner /\ FenceBound /\ Cleanly /\ Openly /\ Tracking
  BY DEF IInv
<1>1. /\ UNCHANGED <<status, source, retired, imported, mode, closing>>
      /\ UNCHANGED <<root, bound, spent, pin, attempt>>
      /\ UNCHANGED <<binding, latest, remote, made, blind, postdated>>
      /\ UNCHANGED <<inv, settler, scanned, upsets, budget>>
  BY ObjectsAssumption
  DEF SettleUncertain, Goto, vars, work, torrents, requests, passes, resources, history,
         scans, tally
<1>2. /\ pc[t] = "settling" /\ ans[t] = "unsettled"
      /\ \E w \in {"idle", "erring"} : pc' = [pc EXCEPT ![t] = w]
      /\ ans' = [ans EXCEPT ![t] = None]
  BY ObjectsAssumption DEF SettleUncertain, Goto
<1>5a. \A x \in Transfers \ {t} :
        pc'[x] = pc[x] /\ ans'[x] = ans[x]
  BY <1>0, <1>2 DEF TypeOK
<1>5. Others(t)
  BY <1>1, <1>2, <1>5a DEF Others, Bound
<1>9. MoreBonds
  BY <1>1 DEF MoreBonds, Bound
<1>6. /\ pc[t] = "settling" /\ ans[t] = "unsettled"
      /\ pc'[t] \in {"idle", "erring"}
  BY <1>0, <1>1, <1>2 DEF TypeOK
<1>10. TypeOK'
  BY <1>0, <1>1, <1>2, <1>6 DEF TypeOK, Authorities
<1>11. Bonds' /\ Duties' /\ Asked' /\ Scans' /\ Generations' /\ SoleOwner'
  BY <1>0, <1>1, BondsFrame, DutiesFrame, AskedFrame, ScansFrame, GenerationsFrame,
  SoleOwnerFrame
<1>12. Born'
  <2>1. status[t] # "unborn"
    BY <1>0, <1>2 DEF Born, Unborn
  <2> QED
    BY <1>0, <1>5, <2>1, BornOf
<1>13. Passes'
  <2>1. Pass(t)'
    BY <1>0, <1>1, <1>6 DEF Passes, Pass, Bound
  <2> QED
    BY <1>0, <1>5, <1>9, <2>1, PassesOf
<1>14. FenceBound'
  <2>1. FenceRead(t)' => FenceRead(t)
    BY <1>0, <1>1, <1>6 DEF FenceRead, Live, Passes, Pass
  <2> QED
    BY <1>0, <1>1, <1>5, <2>1, FenceOf
<1>15. Cleanly'
  <2>1. Clean(t)'
    BY <1>0, <1>1, <1>6 DEF Cleanly, Clean, Open, Current, Bound
  <2> QED
    BY <1>0, <1>5, <2>1, CleanlyOf
<1>16. Openly'
  <2>1. Opened(t)'
    BY <1>0, <1>1, <1>6 DEF Openly, Opened, Current
  <2> QED
    BY <1>0, <1>5, <2>1, OpenlyOf
<1>17. Tracking'
  <2>1. Track(t)'
    <3>1. \A y \in Objects : Free(y)' => Free(y)
      BY <1>9 DEF Free, MoreBonds
    <3>2. \A y \in Objects, n \in AttemptIds : Witness(t, y, n) => Witness(t, y, n)'
      BY <1>1, <1>6 DEF Witness, Settling, Current
    <3> QED
      BY <1>0, <1>1, <1>6, <3>1, <3>2 DEF Tracking, Track, Settling, Current
  <2> QED
    BY <1>0, <1>5, <1>9, <2>1, TrackingOf
<1> QED
  BY <1>10, <1>11, <1>12, <1>13, <1>14, <1>15, <1>16, <1>17 DEF IInv

LEMMA SettleUncertainStep ==
    ASSUME IInv, NEW t \in Transfers, SettleUncertain(t)
    PROVE  IInv'
<1>1. CASE ans[t] \in Objects
  BY <1>1, AcceptStep, ObjectsAssumption DEF SettleUncertain
<1>2. CASE ans[t] = "absent"
  BY <1>2, SettleAwayStep
<1>3. CASE ans[t] = "unsettled"
  BY <1>3, SettleNothingStep
<1> QED
  BY <1>1, <1>2, <1>3 DEF SettleUncertain

-----------------------------------------------------------------------------
(* The invariant is inductive. *)

LEMMA InitIInv == Init => IInv
<1> SUFFICES ASSUME Init PROVE IInv
  OBVIOUS
<1>1. TypeOK
  <2>1. budget.foreign \subseteq Objects /\ None \in Authorities /\ "keep" \in Modes
    BY BudgetsAssumption DEF Init, Authorities, Modes
  <2>2. NoAttempt \in Attempts /\ NoBinding \in Rows
    BY DEF NoAttempt, NoBinding, FreshBinding, Attempts, States, Rows, Calls, Authorities
  <2>3. /\ attempt \in [Transfers -> [AttemptIds -> Attempts]]
        /\ binding \in [Transfers -> [Objects -> Rows]]
    BY <2>2 DEF Init
  <2>4. spent \in [Transfers -> 0..MaxAttempts]
    BY BudgetsAssumption DEF Init
  <2>5. postdated \in [Transfers -> SUBSET Bindings] /\ made \subseteq Bindings
    BY DEF Init
  <2>6. upsets \in Nat /\ budget \in Budgets /\ inv = NoItem /\ settler = NoSettlement
    BY DEF Init
  <2>7. /\ status \in [Transfers -> {"unborn", "live", "completed", "cancelled", "deleted"}]
        /\ source \in [Transfers -> Sources]
        /\ retired \in [Transfers -> BOOLEAN] /\ imported \in [Transfers -> BOOLEAN]
        /\ mode \in [Transfers -> Modes] /\ closing \in [Transfers -> [Closers -> Authorities]]
        /\ root \in [Transfers -> {"pending", "resolving", "waiting", "failed"}]
        /\ bound \in [Transfers -> Objects \cup {None}]
        /\ pin \in [Transfers -> {"none", "open", "failed"}]
        /\ ans \in [Transfers -> Objects \cup {None, "absent", "unsettled"}]
        /\ scanned \in [Transfers -> [Objects -> SUBSET {"owned", "user"}]]
        /\ latest \in [Objects -> Transfers \cup {None}]
        /\ remote \subseteq Objects /\ blind \subseteq Transfers
    BY <2>1, ListedAssumption DEF Init
  <2>8. pc \in [Transfers -> {"idle", "routed", "draining", "unrouted", "opened",
                             "calling", "created", "refused", "uncertain", "erring", "failing",
                             "settling"}]
    BY DEF Init
  <2> QED
    BY <2>1, <2>3, <2>4, <2>5, <2>6, <2>7, <2>8
    DEF TypeOK, Attempts, States, Rows, Calls, NoItem, NoSettlement
<1>2. /\ \A t \in Transfers, o \in Objects :
           ~Bound(t, o) /\ ~Owed(t, o) /\ binding[t][o].call = "none" /\ binding[t][o].owed = None
      /\ \A t \in Transfers, n \in AttemptIds : ~attempt[t][n].owed
  BY DEF Init, Bound, Owed, NoBinding, FreshBinding, NoAttempt
<1>3. /\ inv.at = "idle" /\ settler.t = None /\ made = {}
      /\ \A t \in Transfers : /\ status[t] = "unborn" /\ ~retired[t] /\ pc[t] = "idle"
                               /\ root[t] = "pending" /\ spent[t] = 0 /\ bound[t] = None
      /\ \A o \in Objects : latest[o] = None
  BY DEF Init, NoItem, NoSettlement
<1>3a. \A t \in Transfers : /\ \A c \in Closers : closing[t][c] = None
                            /\ \A o \in Objects : scanned[t][o] = {}
  BY DEF Init
<1>4. Born /\ Duties
  BY <1>2, <1>3, <1>3a DEF Born, Unborn, Duties
<1>5. Bonds
  BY <1>2, <1>3, ObjectsAssumption DEF Bonds, Lately
<1>6. Asked
  BY <1>2, <1>3, <1>3a, NoneAssumption DEF Asked
<1>7. Passes /\ Scans /\ Generations
  BY <1>3 DEF Passes, Pass, Scans, Generations, Live
<1>8. SoleOwner /\ FenceBound
  BY <1>3 DEF SoleOwner, FenceBound, FenceRead, Live
<1>9. Cleanly
  BY <1>3 DEF Cleanly, Clean, Open
<1>10. Openly /\ Tracking
  BY <1>2, <1>3 DEF Openly, Opened, Tracking, Track
<1> QED
  BY <1>1, <1>4, <1>5, <1>6, <1>7, <1>8, <1>9, <1>10 DEF IInv

LEMMA StutterStep ==
    ASSUME IInv, UNCHANGED vars
    PROVE  IInv'
<1>0. /\ TypeOK /\ Born /\ Bonds /\ Duties /\ Asked /\ Passes /\ Scans /\ Generations
      /\ SoleOwner /\ FenceBound /\ Cleanly /\ Openly /\ Tracking
  BY DEF IInv
<1>1. /\ UNCHANGED <<status, source, retired, imported, mode, closing>>
      /\ UNCHANGED <<root, bound, spent, pin, attempt, pc, ans>>
      /\ UNCHANGED <<binding, latest, remote, made, blind, postdated>>
      /\ UNCHANGED <<inv, settler, scanned, upsets, budget>>
  BY DEF vars, work, torrents, requests, passes, resources, history, scans, tally
<1>2. TypeOK'
  BY <1>0, <1>1 DEF TypeOK
<1> QED
  BY <1>0, <1>1, <1>2, BornFrame, BondsFrame, DutiesFrame, AskedFrame, PassesFrame, ScansFrame,
     GenerationsFrame, SoleOwnerFrame, FenceBoundFrame, CleanlyFrame, OpenlyFrame,
     TrackingFrame
  DEF IInv

LEMMA Inductive == IInv /\ [Next]_vars => IInv'
<1> SUFFICES ASSUME IInv, [Next]_vars PROVE IInv'
  OBVIOUS
<1>1. ASSUME NEW t \in Transfers, Transfer(t) PROVE IInv'
  <2>1. \A s \in Sources : Submit(t, s) => IInv'
    BY SubmitStep
  <2>2. \A m \in Modes : Delete(t, m) => IInv'
    BY DeleteStep
  <2>3. \A c \in Closers : CloseCleanup(t, c) => IInv'
    BY CloseCleanupStep
  <2> QED
    BY <1>1, <2>1, <2>2, <2>3, CompleteStep, CancelStep DEF Transfer
<1>2. ASSUME NEW t \in Transfers, Resolution(t) PROVE IInv'
  <2>1. \A o \in Objects :
          Reobserve(t, o) \/ Gone(t, o) \/ Expired(t, o) \/ ProviderCreates(t, o) => IInv'
    BY ReobserveStep, GoneStep, ExpiredStep, ProviderCreatesStep
  <2>2. \A n \in AttemptIds : ReadUnowned(t, n) => IInv'
    BY ReadUnownedStep
  <2>3. PassFence(t) \/ Drained(t) \/ Begin(t) \/ Arm(t) \/ ProviderFails(t) \/ Refused(t) => IInv'
    BY PassFenceStep, DrainedStep, BeginStep, ArmStep, ProviderFailsStep, RefusedStep
  <2>4. Answer(t) \/ Hold(t) \/ Erring(t) \/ ExhaustRoute(t) \/ RequestFailure(t) => IInv'
    BY AnswerStep, HoldStep, ErringStep, ExhaustRouteStep, RequestFailureStep
  <2>5. ReadUncertain(t) \/ SettleUncertain(t) \/ Interrupted(t) => IInv'
    BY ReadUncertainStep, SettleUncertainStep, InterruptedStep
  <2>6. Reresolve(t) \/ Retry(t) \/ SwitchRoute(t) => IInv'
    BY ReresolveStep, RetryStep, SwitchRouteStep
  <2> QED
    BY <1>2, <2>1, <2>2, <2>3, <2>4, <2>5, <2>6 DEF Resolution
<1>3. ASSUME NEW o \in Objects, Item(o) PROVE IInv'
  <2>1. \A t \in Transfers : InventoryAdmit(t, o) \/ InventoryAdopt(t, o) => IInv'
    BY InventoryAdmitStep, InventoryAdoptStep
  <2> QED
    BY <1>3, <2>1, InventoryListStep, InventoryKnownStep, InventoryObserveStep,
       InventoryHistoryStep, InventoryRearmStep, InventoryDropStep
    DEF Item
<1>4. ASSUME NEW t \in Transfers, NEW o \in Objects, Cleanup(t, o) PROVE IInv'
  BY <1>4, CleanupScanStep, CleanupStartStep, CleanupActsStep, CleanupCompletesStep,
     CleanupFailsStep
  DEF Cleanup
<1> QED
  BY <1>1, <1>2, <1>3, <1>4, SettleUnownedStep, CrashStep, StutterStep DEF Next

LEMMA Invariant == Spec => []IInv
<1>1. Init => IInv
  BY InitIInv
<1>2. IInv /\ [Next]_vars => IInv'
  BY Inductive
<1> QED
  BY <1>1, <1>2, PTL DEF Spec

-----------------------------------------------------------------------------
(* What a step that is no cleanup call does to a binding: it neither starts nor *)
(* advances a call, and withdraws nothing owed.                                 *)

Mild(x, y) ==
    LET b == binding[x][y]
        c == binding'[x][y]
    IN  /\ c.call \in {b.call, "none"}
        /\ b.owed # None => c.owed # None
Quiet == \A x \in Transfers, y \in Objects : Mild(x, y)

LEMMA QuietSame == UNCHANGED binding => Quiet
  BY DEF Quiet, Mild
LEMMA QuietUpsert ==
    ASSUME TypeOK, Duties, NEW t \in Transfers, NEW o \in Objects, NEW owned \in BOOLEAN,
           binding' = Upsert(t, o, owned)
    PROVE  Quiet
<1>1. /\ binding'[t][o].call = binding[t][o].call
      /\ binding'[t][o].owed = binding[t][o].owed
      /\ \A x \in Transfers, y \in Objects :
           x # t \/ y # o => binding'[x][y] = binding[x][y]
  BY UpsertEffect
<1> QED
  BY <1>1 DEF Quiet, Mild
LEMMA QuietIntend ==
    ASSUME TypeOK, NEW t \in Transfers, NEW S, NEW a \in Authorities,
           binding' = Intend(binding, t, S, a), a # None
    PROVE  Quiet
<1>1. binding \in [Transfers -> [Objects -> Rows]]
  BY Types
<1>2. /\ \A x \in Transfers, y \in Objects :
           x # t \/ y \notin S => binding'[x][y] = binding[x][y]
      /\ \A y \in Objects \cap S :
           /\ binding'[t][y].call = binding[t][y].call /\ binding'[t][y].owed = a
           /\ binding'[t][y].owned = binding[t][y].owned
  BY <1>1, IntendEffect
<1>3. ASSUME NEW y \in Objects \cap S PROVE Mild(t, y)
  BY <1>2 DEF Mild
<1> QED
  BY <1>2, <1>3 DEF Quiet, Mild
LEMMA QuietRenew ==
    ASSUME TypeOK, Duties, NEW t \in Transfers, NEW o \in Objects, NEW owned \in BOOLEAN,
           NEW a \in Authorities, binding' = Intend(Upsert(t, o, owned), t, {o}, a),
           a # None \/ binding[t][o].owed = None
    PROVE  Quiet
<1>1. /\ binding'[t][o].call = binding[t][o].call /\ binding'[t][o].owed = a
      /\ \A x \in Transfers, y \in Objects :
           x # t \/ y # o => binding'[x][y] = binding[x][y]
  BY RenewEffect
<1> QED
  BY <1>1 DEF Quiet, Mild
LEMMA QuietRecord ==
    ASSUME TypeOK, Duties, NEW t \in Transfers, NEW o \in Objects, NEW a \in Authorities,
           RecordUnrouted(t, o, a)
    PROVE  Quiet
<1>1. CASE UNCHANGED binding
  BY <1>1, QuietSame
<1>2. CASE ~Bound(t, o) /\ binding' = Intend(Upsert(t, o, TRUE), t, {o}, a)
  <2>1. TRUE \in BOOLEAN /\ binding[t][o].owed = None
    BY <1>2 DEF Duties, Owed
  <2> QED
    BY <1>2, <2>1, QuietRenew
<1> QED
  BY <1>1, <1>2 DEF RecordUnrouted
LEMMA QuietAccept ==
    ASSUME TypeOK, Duties, NEW t \in Transfers, NEW o \in Objects, NEW where,
           Accept(t, o, where)
    PROVE  Quiet
<1>1. CASE Late(t, o)
  <2>1. PICK a \in Authorities : RecordUnrouted(t, o, a)
    BY <1>1 DEF Late, Authorities
  <2> QED
    BY <2>1, QuietRecord
<1>2. CASE Conflict(t, o, where)
  BY <1>2, QuietSame DEF Conflict
<1>3. CASE Bind(t, o)
  <2>1. binding' = Upsert(t, o, TRUE) /\ TRUE \in BOOLEAN
    BY <1>3 DEF Bind
  <2> QED
    BY <2>1, QuietUpsert
<1> QED
  BY <1>1, <1>2, <1>3 DEF Accept

\* What a step does to the calls, action by action.
LEMMA QuietTransfer ==
    ASSUME TypeOK, NEW t \in Transfers, Transfer(t)
    PROVE  Quiet
<1>1. ASSUME NEW c \in Closers, CloseCleanup(t, c) PROVE Quiet
  <2>1. /\ closing[t][c] \in Authorities /\ closing[t][c] # None
        /\ binding' = Intend(binding, t, Closable(t, closing[t][c]), closing[t][c])
    BY <1>1 DEF CloseCleanup, TypeOK
  <2> QED
    BY <2>1, QuietIntend
<1>2. CASE \A c \in Closers : ~CloseCleanup(t, c)
  <2>1. UNCHANGED binding
    BY <1>2 DEF Transfer, Submit, Complete, Cancel, Delete, resources
  <2> QED
    BY <2>1, QuietSame
<1> QED
  BY <1>1, <1>2
LEMMA QuietResolution ==
    ASSUME TypeOK, Duties, Passes, NEW t \in Transfers, Resolution(t)
    PROVE  Quiet
<1>0. binding \in [Transfers -> [Objects -> Rows]] /\ "owned" \in Authorities
      /\ "owned" # None /\ TRUE \in BOOLEAN
  BY Types, NoneAssumption DEF Authorities
<1>1. ASSUME NEW o \in Objects, Reobserve(t, o) PROVE Quiet
  BY <1>0, <1>1, QuietUpsert DEF Reobserve
<1>2. ASSUME NEW o \in Objects, Gone(t, o) PROVE Quiet
  BY <1>0, <1>2 DEF Gone, Quiet, Mild, Rows
<1>3. ASSUME NEW o \in Objects, Expired(t, o) PROVE Quiet
  <2>1. binding' = Intend(Upsert(t, o, TRUE), t, {o}, "owned")
    BY <1>3 DEF Expired
  <2> QED
    BY <1>0, <2>1, QuietRenew
<1>4. CASE ExhaustRoute(t) \/ SwitchRoute(t)
  <2>1. binding' = Intend(binding, t, Surplus(t), "owned")
    BY <1>4 DEF ExhaustRoute, SwitchRoute
  <2> QED
    BY <1>0, <2>1, QuietIntend
<1>5. CASE Answer(t)
  BY <1>5, QuietAccept DEF Answer, Passes, Pass
<1>6. CASE SettleUncertain(t)
  <2>1. CASE ans[t] \in Objects /\ Accept(t, ans[t], "unrouted")
    BY <2>1, QuietAccept
  <2>2. CASE UNCHANGED binding
    BY <2>2, QuietSame
  <2> QED
    BY <1>6, <2>1, <2>2 DEF SettleUncertain
<1>7. CASE \/ PassFence(t) \/ Drained(t) \/ Begin(t) \/ Arm(t) \/ ProviderFails(t)
           \/ Refused(t) \/ Hold(t) \/ Erring(t)
  <2>1. UNCHANGED binding
    BY <1>7 DEF PassFence, Drained, Begin, Arm, ProviderFails, Refused, Hold, Erring, resources
  <2> QED
    BY <2>1, QuietSame
<1>8. CASE \/ RequestFailure(t) \/ ReadUncertain(t) \/ Interrupted(t) \/ Reresolve(t)
           \/ Retry(t) \/ \E o \in Objects : ProviderCreates(t, o)
           \/ \E n \in AttemptIds : ReadUnowned(t, n)
  <2>1. UNCHANGED binding
    BY <1>8
    DEF RequestFailure, ReadUncertain, Interrupted, Reresolve, Retry, ProviderCreates,
        ReadUnowned, resources
  <2> QED
    BY <2>1, QuietSame
<1> QED
  BY <1>1, <1>2, <1>3, <1>4, <1>5, <1>6, <1>7, <1>8 DEF Resolution
LEMMA QuietItem ==
    ASSUME TypeOK, Duties, Scans, NEW o \in Objects, Item(o)
    PROVE  Quiet
<1>0. FALSE \in BOOLEAN
  OBVIOUS
<1>1. CASE InventoryObserve(o)
  BY <1>0, <1>1, QuietUpsert DEF InventoryObserve, Scans, Looking
<1>2. CASE InventoryRearm(o)
  <2>1. PICK t \in Transfers : t = inv.of
    BY <1>2 DEF InventoryRearm, Scans, Looking
  <2>2. CASE UNCHANGED binding
    BY <2>2, QuietSame
  <2>3. CASE /\ binding[t][o].owed = None
             /\ binding' = Intend(Upsert(t, o, FALSE), t, {o}, Authority(t))
    <3>1. Authority(t) \in Authorities
      BY Types
    <3> QED
      BY <1>0, <2>3, <3>1, QuietRenew
  <2> QED
    BY <1>2, <2>1, <2>2, <2>3 DEF InventoryRearm
<1>3. ASSUME NEW t \in Transfers, InventoryAdmit(t, o) \/ InventoryAdopt(t, o) PROVE Quiet
  <2>1. UNCHANGED binding \/ binding' = Upsert(t, o, FALSE)
    BY <1>3 DEF InventoryAdmit, InventoryAdopt, Import
  <2>2. CASE UNCHANGED binding
    BY <2>2, QuietSame
  <2> QED
    BY <1>0, <2>1, <2>2, QuietUpsert
<1>4. CASE InventoryList(o) \/ InventoryKnown(o) \/ InventoryHistory(o) \/ InventoryDrop(o)
  <2>1. UNCHANGED binding
    BY <1>4 DEF InventoryList, InventoryKnown, InventoryHistory, InventoryDrop, resources
  <2> QED
    BY <2>1, QuietSame
<1> QED
  BY <1>1, <1>2, <1>3, <1>4 DEF Item

\* Whatever is no cleanup call is quiet.
LEMMA QuietStep ==
    ASSUME IInv, [Next]_vars,
           ~\E t \in Transfers, o \in Objects : Cleanup(t, o)
    PROVE  Quiet
<1>0. TypeOK /\ Duties /\ Passes /\ Scans
  BY DEF IInv
<1>1. CASE SettleUnowned
  <2>1. /\ settler.t \in Transfers /\ settler.due \in Authorities
        /\ settler.saw \in Objects \cup {"absent", "unsettled"}
    BY <1>0, <1>1, ObjectsAssumption DEF TypeOK, Scans, SettleUnowned
  <2>2. UNCHANGED binding \/ (settler.saw \in Objects
                              /\ RecordUnrouted(settler.t, settler.saw, settler.due))
    BY <1>1, <2>1 DEF SettleUnowned
  <2>3. CASE UNCHANGED binding
    BY <2>3, QuietSame
  <2>4. CASE settler.saw \in Objects /\ RecordUnrouted(settler.t, settler.saw, settler.due)
    <3>1. PICK t \in Transfers, o \in Objects, a \in Authorities :
            t = settler.t /\ o = settler.saw /\ a = settler.due
      BY <2>1, <2>4
    <3>2. RecordUnrouted(t, o, a)
      BY <2>4, <3>1
    <3> QED
      BY <1>0, <3>2, QuietRecord
  <2> QED
    BY <2>2, <2>3, <2>4
<1>2. CASE Crash
  <2>1. binding \in [Transfers -> [Objects -> Rows]]
    BY <1>0, Types
  <2>2. ASSUME NEW t \in Transfers, NEW o \in Objects PROVE Mild(t, o)
    <3>1. binding[t][o] \in Rows /\ binding'[t][o] = [binding[t][o] EXCEPT !.call = "none"]
      BY <1>2, <2>1 DEF Crash
    <3> QED
      BY <3>1 DEF Mild, Rows
  <2> QED
    BY <2>2 DEF Quiet
<1>3. CASE UNCHANGED vars
  BY <1>3, QuietSame DEF vars, resources
<1> QED
  BY <1>0, <1>1, <1>2, <1>3, QuietTransfer, QuietResolution, QuietItem DEF Next

\* What the calls of a cleanup do to its binding.
LEMMA CleanupRow ==
    ASSUME TypeOK, NEW t \in Transfers, NEW o \in Objects, Cleanup(t, o)
    PROVE  LET b == binding[t][o]
               c == binding'[t][o]
           IN  /\ \A x \in Transfers, y \in Objects :
                    x # t \/ y # o => binding'[x][y] = binding[x][y]
               /\ c.owed = b.owed \/ (c.owed = None /\ b.call \in {"removed", "skipped"})
<1> DEFINE b == binding[t][o]
<1>1. b \in Rows
  BY Types
<1>2. ASSUME NEW r \in Rows, Cleaning(t, o, r)
      PROVE  /\ binding'[t][o] = r
             /\ \A x \in Transfers, y \in Objects :
                  x # t \/ y # o => binding'[x][y] = binding[x][y]
  <2>1. binding' = [binding EXCEPT ![t][o] = r]
    BY <1>2 DEF Cleaning
  <2>2. binding \in [Transfers -> [Objects -> Rows]]
    BY Types
  <2> QED
    BY <2>1, <2>2
<1> HIDE DEF b
<1>3. CASE CleanupStart(t, o)
  <2>1. PICK a \in scanned[t][o] :
          Cleaning(t, o, [b EXCEPT !.call = a]) \/ UNCHANGED binding
    BY <1>3 DEF CleanupStart, b
  <2>2. a \in Calls
    BY <2>1 DEF TypeOK, Calls
  <2> DEFINE r == [b EXCEPT !.call = a]
  <2>3. r \in Rows /\ r.owed = b.owed
    BY <1>1, <2>2 DEF Rows
  <2> QED
    BY <1>2, <2>1, <2>3 DEF b
<1>4. CASE CleanupActs(t, o)
  <2>1. PICK called \in {"removed", "skipped"} : Cleaning(t, o, [b EXCEPT !.call = called])
    BY <1>4 DEF CleanupActs, b
  <2> DEFINE r == [b EXCEPT !.call = called]
  <2>2. r \in Rows /\ r.owed = b.owed
    BY <1>1 DEF Rows, Calls
  <2> QED
    BY <1>2, <2>1, <2>2 DEF b
<1>5. CASE CleanupCompletes(t, o)
  <2> DEFINE r == [b EXCEPT !.owed = None, !.call = "none",
                            !.state = IF b.call = "removed" THEN "absent" ELSE @]
  <2>1. r \in Rows /\ r.owed = None
    BY <1>1 DEF Rows, Calls, Authorities
  <2>2. Cleaning(t, o, r) /\ b.call \in {"removed", "skipped"}
    BY <1>5 DEF CleanupCompletes, b
  <2> QED
    BY <1>2, <2>1, <2>2 DEF b
<1>6. CASE CleanupFails(t, o)
  <2>1. PICK gone \in BOOLEAN :
          Cleaning(t, o, [b EXCEPT !.call = "none", !.abandoned = gone])
    BY <1>6 DEF CleanupFails, b
  <2> DEFINE r == [b EXCEPT !.call = "none", !.abandoned = gone]
  <2>2. r \in Rows /\ r.owed = b.owed
    BY <1>1 DEF Rows, Calls
  <2> QED
    BY <1>2, <2>1, <2>2 DEF b
<1>7. CASE CleanupScan(t, o)
  BY <1>7 DEF CleanupScan, resources
<1> QED
  BY <1>3, <1>4, <1>5, <1>6, <1>7 DEF Cleanup

\* A call's answer "removed" comes of CleanupActs alone.
LEMMA RemovedByActs ==
    ASSUME IInv, Next, NEW u \in Transfers, NEW y \in Objects, Removes(u, y)
    PROVE  CleanupActs(u, y)
<1>0. TypeOK
  BY DEF IInv
<1>1. ~Quiet
  BY DEF Quiet, Mild, Removes
<1>2. PICK t \in Transfers, o \in Objects : Cleanup(t, o)
  BY <1>1, QuietStep
<1>3. t = u /\ o = y
  BY <1>0, <1>2, CleanupRow DEF Removes
<1>4. binding \in [Transfers -> [Objects -> Rows]] /\ binding[u][y] \in Rows
  BY <1>0, Types
<1>5. ASSUME NEW c \in Calls, Cleaning(u, y, [binding[u][y] EXCEPT !.call = c])
      PROVE  binding'[u][y].call = c
  BY <1>4, <1>5 DEF Cleaning, Rows
<1>6. ~CleanupScan(u, y)
  BY DEF CleanupScan, resources, Removes
<1>7. ~CleanupStart(u, y)
  <2>1. scanned[u][y] \subseteq {"owned", "user"}
    BY <1>0 DEF TypeOK
  <2>2. UNCHANGED binding => ~Removes(u, y)
    BY DEF Removes
  <2> QED
    BY <1>5, <2>1, <2>2 DEF CleanupStart, Calls, Removes
<1>8. ~CleanupCompletes(u, y)
  BY DEF CleanupCompletes, Removes
<1>9. ~CleanupFails(u, y)
  <2> SUFFICES ASSUME NEW gone \in BOOLEAN,
                      Cleaning(u, y, [binding[u][y] EXCEPT !.call = "none", !.abandoned = gone])
               PROVE  FALSE
    BY DEF CleanupFails
  <2>1. binding'[u][y].call = "none"
    BY <1>4 DEF Cleaning, Rows
  <2> QED
    BY <2>1 DEF Removes
<1> QED
  BY <1>2, <1>3, <1>6, <1>7, <1>8, <1>9 DEF Cleanup

-----------------------------------------------------------------------------
(* What follows, for every set of transfers, sources and native ids. *)

\* The types of the database rows, of the passes under way and of the histories.
THEOREM TypeCorrect == Spec => []TypeOK
<1>1. IInv => TypeOK
  BY DEF IInv
<1> QED
  BY <1>1, Invariant, PTL

\* Two live transfers never bind the same native object, whichever of a resolution, a late
\* answer, an import, an adoption or a reconciliation bound it (_resource's refusal).
THEOREM OneOwner == Spec => []SoleOwner
<1>1. IInv => SoleOwner
  BY DEF IInv
<1> QED
  BY <1>1, Invariant, PTL

\* _predecessor_cleanup_blocks is read once and acted on later: whatever a retired generation
\* of the source still owes then, it came to owe after the root read the fence.
THEOREM FenceHolds == Spec => []FenceBound
<1>1. IInv => FenceBound
  BY DEF IInv
<1> QED
  BY <1>1, Invariant, PTL

\* No provider is asked to create for a transfer that never had a resource while an earlier
\* attempt of its root is open and owes a reconciliation (engine._resolve).
THEOREM NeverTwice == Spec => []NeverBlindly
<1>1. IInv => NeverBlindly
  BY DEF IInv, Cleanly, Clean, NeverBlindly
<1> QED
  BY <1>1, Invariant, PTL

\* An object a root's call made is bound, or an attempt of the root owes its reconciliation:
\* through crashes, lost and late answers, Delete and route switches.
THEOREM AlwaysTracked == Spec => []Tracked
<1>1. IInv => Tracked
  <2> SUFFICES ASSUME IInv, NEW t \in Transfers, NEW o \in remote,
                      <<t, o>> \in made, t \notin blind, Free(o)
               PROVE  \E n \in AttemptIds : attempt[t][n].owed
    BY DEF Tracked, Free
  <2>1. o \in Objects
    BY DEF IInv, TypeOK
  <2> QED
    BY <2>1 DEF IInv, Tracking, Track, Witness
<1> QED
  BY <1>1, Invariant, PTL

\* A cleanup of a retired generation takes the object of a live one of its source only when
\* it was recorded after that one read the fence (or for a binding seen absent).
THEOREM SparesSuccessor == Spec => Spared
<1> DEFINE Promise == \A t, u \in Transfers, o \in Objects :
                     Removes(u, o) /\ binding[u][o].state # "absent"
                       /\ Live(t) /\ bound[t] = o /\ Precedes(u, t)
                         => <<u, o>> \in postdated[t]
<1>1. IInv => Promise
  <2> SUFFICES ASSUME IInv, NEW t \in Transfers, NEW u \in Transfers, NEW o \in Objects,
                      Removes(u, o), binding[u][o].state # "absent",
                      Live(t), bound[t] = o, Precedes(u, t)
               PROVE  <<u, o>> \in postdated[t]
    OBVIOUS
  <2>1. FenceRead(t)
    BY ObjectsAssumption DEF FenceRead
  <2>2. Outstanding(u, o)
    BY DEF IInv, Duties, Removes, Outstanding
  <2> QED
    BY <2>1, <2>2 DEF IInv, FenceBound
<1>2. [][Promise]_vars => Spared
  BY PTL DEF Spared
<1>3. IInv /\ [Next]_vars => [Promise]_vars
  BY <1>1
<1> QED
  BY <1>2, <1>3, Invariant, PTL DEF Spec

\* An object the inventory merely listed is removed only where the user's Delete asked for it.
THEOREM KeepsObserved == Spec => ObservedKept
<1> DEFINE Promise == \A u \in Transfers, o \in Objects :
                     Removes(u, o) =>
                       binding[u][o].owned \/ (status[u] = "deleted" /\ mode[u] = "user")
<1>1. IInv /\ [Next]_vars => [Promise]_vars
  <2> SUFFICES ASSUME IInv, [Next]_vars, NEW u \in Transfers, NEW o \in Objects, Removes(u, o)
               PROVE  binding[u][o].owned \/ (status[u] = "deleted" /\ mode[u] = "user")
    OBVIOUS
  <2>1. CleanupActs(u, o) \/ UNCHANGED binding
    BY RemovedByActs DEF vars, resources
  <2>2. CASE UNCHANGED binding
    BY <2>2 DEF Removes
  <2>3. CASE CleanupActs(u, o)
    <3>1. binding[u][o].call = "user" \/ binding[u][o].owned
      <4>1. binding[u][o] \in Rows
        BY Types DEF IInv
      <4> QED
        BY <2>3, <4>1, Types DEF CleanupActs, Cleaning, Removes, Rows, IInv
    <3> QED
      BY <3>1 DEF IInv, Asked, AskedFor
  <2> QED
    BY <2>1, <2>2, <2>3
<1>2. [][Promise]_vars => ObservedKept
  BY PTL DEF ObservedKept
<1> QED
  BY <1>1, <1>2, Invariant, PTL DEF Spec


\* What the provider is owed for a resource is withdrawn by a cleanup call's answer alone: by
\* no Delete, completion, route switch, import, reconciliation or restart (cleanup_complete).
ObligationKept ==
    [][\A t \in Transfers, o \in Objects :
         Owed(t, o) /\ ~Owed(t, o)' => binding[t][o].call \in {"removed", "skipped"}]_vars

\* A cleanup decided on is carried out: nothing but its own answer takes it off the list.
THEOREM KeepsObligations == Spec => ObligationKept
<1> DEFINE Promise == \A t \in Transfers, o \in Objects :
                     Owed(t, o) /\ ~Owed(t, o)' => binding[t][o].call \in {"removed", "skipped"}
<1>1. IInv /\ [Next]_vars => Promise
  <2> SUFFICES ASSUME IInv, [Next]_vars, NEW t \in Transfers, NEW o \in Objects,
                      Owed(t, o), ~Owed(t, o)'
               PROVE  binding[t][o].call \in {"removed", "skipped"}
    OBVIOUS
  <2>1. ~Mild(t, o)
    BY DEF Mild, Owed
  <2>2. PICK x \in Transfers, y \in Objects : Cleanup(x, y)
    BY <2>1, QuietStep DEF Quiet
  <2>3. TypeOK
    BY DEF IInv
  <2>4. x = t /\ y = o
    BY <2>2, <2>3, CleanupRow DEF Owed
  <2> QED
    BY <2>2, <2>3, <2>4, CleanupRow DEF Owed
<1>2. [][Promise]_vars => ObligationKept
  BY PTL DEF ObligationKept
<1> QED
  BY <1>1, <1>2, Invariant, PTL DEF Spec
=============================================================================
