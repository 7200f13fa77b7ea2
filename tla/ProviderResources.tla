-------------------------- MODULE ProviderResources --------------------------
(***************************************************************************)
(* What DebridPulse creates at a provider and how it gives it back:        *)
(* admission of the generations of a submission (repository.admit,         *)
(* delete), the resolution of a root behind the predecessor-cleanup fence  *)
(* (engine._resolve), creations whose outcome is unknown and their         *)
(* reconciliation, inventory imports, and the cleanup of resources.        *)
(*                                                                         *)
(* One provider, which lists its inventory and names each object by a      *)
(* native id; every transfer asks it for the same content, and has the     *)
(* source (dedupe fingerprint) it was submitted under.  A transfer is      *)
(* reduced to its one root request.  Every database transaction is one     *)
(* action; between two of them, or between one and a provider call,        *)
(* anything else may happen.  At most one cleanup call is under way for a  *)
(* binding: the lease that keeps two apart is not modelled.  A root that   *)
(* is switched away from a provider is not switched back to it under the   *)
(* pass that is still failing there.                                       *)
(***************************************************************************)
EXTENDS Naturals, FiniteSets

CONSTANTS Transfers,    \* row ids, in the order of their admission
          Sources,      \* dedupe fingerprints of submissions
          Listed,       \* the one the provider's inventory is admitted under
          Objects,      \* native ids at the provider
          MaxAttempts,  \* bound: resolution attempts of one root
          Budgets,      \* bounds of a behaviour: the transfers, sources and native ids it uses,
                        \* the objects the user already has at the provider, the attempts of
                        \* a root, the kinds of Delete, and how many failures, detours and
                        \* inventory passes (Upset)
          None

\* torrents.delete_remote: what a Delete authorizes for the transfer's resources.
Modes == {"keep", "owned", "user"}
\* What a running cleanup of all of a transfer's resources was started by.
Closers == {"completed", "deleted", "answered"}

ASSUME TransfersAssumption == Transfers \subseteq Nat
ASSUME ListedAssumption == Listed \in Sources
ASSUME BudgetsAssumption ==
    /\ MaxAttempts \in Nat
    /\ Budgets \subseteq [transfers : SUBSET Transfers, sources : SUBSET Sources,
                          objects : SUBSET Objects,
                          foreign : SUBSET Objects, attempts : 0..MaxAttempts,
                          modes : SUBSET Modes, upsets : Nat]
ASSUME NoneAssumption == None \notin Transfers /\ None \notin {"owned", "user"}
ASSUME ObjectsAssumption == Objects \cap {None, "absent", "unsettled"} = {}

VARIABLES
    status, source, retired, imported, mode,  \* torrents: state, fingerprint, hash retired,
                                              \* source is inventory, delete_remote
    closing,    \* the cleanups a completion, a Delete and a late answer have still to record
    root, bound, spent,   \* transfer_requests: state, resource; attempts begun
    pin,        \* resolution_attempts: the one a switch inserted, until a pass begins it
    attempt,    \* resolution_attempts of each root that its passes began
    pc, ans,    \* the resolution pass of each root, and the object it is told of
    binding,    \* provider_resources
    latest,     \* the transfer that bound each object last (rowid order)
    remote,     \* what the provider holds
    made,       \* history: the objects each transfer's calls created or were answered with
    blind,      \* history: roots that were asked for without an obligation (their route was
                \* switched away), or settled by a reading taken while their call was running
    postdated,  \* history: cleanups recorded since a root last read the fence
    inv,        \* the inventory pass
    settler,    \* the pass over creations no route owns
    scanned,    \* the authorities the cleanup passes under way read for each binding
    upsets,     \* failures and detours so far
    budget      \* the bounds of this behaviour

torrents == <<status, source, retired, imported, mode>>
requests == <<root, bound, spent, pin>>
passes   == <<pc, ans>>
history  == <<made, blind, postdated>>
tally    == <<upsets, budget>>
work      == <<torrents, closing, requests, attempt, passes>>
resources == <<binding, latest, remote>>
scans     == <<inv, settler, scanned>>
vars == <<work, resources, history, scans, tally>>

AttemptIds == 1..MaxAttempts
Bindings   == Transfers \X Objects
Upset      == upsets < budget.upsets /\ upsets' = upsets + 1 /\ UNCHANGED budget
Live(t)    == status[t] = "live"
Ended(t)   == status[t] \in {"completed", "cancelled", "deleted"}
Bound(t, o) == binding[t][o].state # "none"
Owed(t, o)  == binding[t][o].owed # None

\* Mutant: Delete's record read as it stands, and every Delete read as the user's.
AuthorityAsRecorded(t) == IF status[t] = "deleted" THEN mode[t] ELSE "owned"
AuthorityOfUser(t) ==
    IF status[t] = "deleted" THEN IF mode[t] = "keep" THEN None ELSE "user" ELSE "owned"

\* terminal_cleanup_authority: the cleanup a resource of an ended transfer is owed.
Authority(t) ==
    IF status[t] = "deleted" THEN IF mode[t] = "keep" THEN None ELSE mode[t] ELSE "owned"

\* _predecessor_cleanup_blocks: a retired generation of the same source owes a cleanup.
Outstanding(t, o) == Owed(t, o) /\ ~binding[t][o].abandoned /\ binding[t][o].state # "absent"
Precedes(p, t)    == p # t /\ retired[p] /\ source[p] = source[t]
\* Mutant: the fence forgets the generations a submission retired, or the calls under way.
FencedByDeleted(t, s) ==
    \E p \in Transfers \ {t}, o \in Objects :
        status[p] = "deleted" /\ source[p] = s /\ Outstanding(p, o)
FencedByWaiting(t, s) ==
    \E p \in Transfers \ {t}, o \in Objects :
        retired[p] /\ source[p] = s /\ Outstanding(p, o) /\ binding[p][o].call = "none"
FencedAs(t, s) ==
    \E p \in Transfers \ {t}, o \in Objects : retired[p] /\ source[p] = s /\ Outstanding(p, o)
Fenced(t) == FencedAs(t, source[t])

\* Mutant: only the generations of one source are kept apart.
BindableBySource(t, o) ==
    Bound(t, o) \/ ~\E u \in Transfers \ {t} :
        /\ Bound(u, o) /\ source[u] = source[t]
        /\ status[u] \notin {"deleted", "cancelled"} /\ ~retired[u]

\* _resource: a first binding is refused while another unretired transfer holds the object.
Bindable(t, o) ==
    Bound(t, o) \/ ~\E u \in Transfers \ {t} :
        Bound(u, o) /\ status[u] \notin {"deleted", "cancelled"} /\ ~retired[u]
FreshBinding(owned) ==
    [state |-> "available", owned |-> owned, owed |-> None, abandoned |-> FALSE, call |-> "none"]
Upsert(t, o, owned) ==
    [binding EXCEPT ![t][o] =
        IF @.state = "none" THEN FreshBinding(owned) ELSE [@ EXCEPT !.state = "available"]]
BindLatest(t, o) == latest' = IF Bound(t, o) THEN latest ELSE [latest EXCEPT ![o] = t]

\* cleanup_intent, for a set of a transfer's objects: owed again, whatever was abandoned.
Intend(B, t, S, authority) ==
    [B EXCEPT ![t] = [o \in Objects |->
        IF o \in S THEN [@[o] EXCEPT !.owed = authority, !.abandoned = FALSE] ELSE @[o]]]

\* Whether t's root may already create or hold a resource behind the fence it read.
FenceRead(t) == Live(t) /\ (spent[t] > 0 \/ pc[t] = "routed" \/ bound[t] # None)
Postdate(t, S) ==
    postdated' = [x \in Transfers |->
        IF x # t /\ FenceRead(x) THEN postdated[x] \cup ({t} \X S) ELSE postdated[x]]
Forget(t) == postdated' = [postdated EXCEPT ![t] = {}]

\* The bound resource of a route that ends, when DebridPulse has to give it back.
Surplus(t) ==
    {o \in Objects : bound[t] = o /\ binding[t][o].owned /\ binding[t][o].state # "absent"}

NoAttempt    == [state |-> "none", owed |-> FALSE, uncertain |-> FALSE]
NoBinding    == [FreshBinding(FALSE) EXCEPT !.state = "none"]
NoItem       == [at |-> "idle", obj |-> None, of |-> None]
NoSettlement == [t |-> None, n |-> 0, saw |-> None, due |-> None]

Init ==
    /\ status = [t \in Transfers |-> "unborn"]
    /\ source = [t \in Transfers |-> Listed]
    /\ retired = [t \in Transfers |-> FALSE]
    /\ imported = [t \in Transfers |-> FALSE]
    /\ mode = [t \in Transfers |-> "keep"]
    /\ closing = [t \in Transfers |-> [c \in Closers |-> None]]
    /\ root = [t \in Transfers |-> "pending"]
    /\ bound = [t \in Transfers |-> None]
    /\ spent = [t \in Transfers |-> 0]
    /\ pin = [t \in Transfers |-> "none"]
    /\ attempt = [t \in Transfers |-> [n \in AttemptIds |-> NoAttempt]]
    /\ pc = [t \in Transfers |-> "idle"]
    /\ ans = [t \in Transfers |-> None]
    /\ binding = [t \in Transfers |-> [o \in Objects |-> NoBinding]]
    /\ latest = [o \in Objects |-> None]
    /\ made = {}
    /\ blind = {}
    /\ postdated = [t \in Transfers |-> {}]
    /\ inv = NoItem
    /\ settler = NoSettlement
    /\ scanned = [t \in Transfers |-> [o \in Objects |-> {}]]
    /\ upsets = 0
    /\ budget \in Budgets
    /\ remote = budget.foreign

-----------------------------------------------------------------------------
(* Admission and the ends of a transfer. *)

NextId(t) ==
    /\ t \in budget.transfers /\ status[t] = "unborn"
    /\ \A u \in Transfers : u < t => status[u] # "unborn"

\* The unretired generation of a source: it holds the active dedupe key.
Holders(s) == {h \in Transfers : status[h] # "unborn" /\ source[h] = s /\ ~retired[h]}

\* admit, independent: live work converges; a terminal holder of the key is retired.
Submit(t, s) ==
    /\ NextId(t) /\ s \in budget.sources
    /\ \A h \in Holders(s) : Ended(h)
    /\ status' = [status EXCEPT ![t] = "live"]
    /\ source' = [source EXCEPT ![t] = s]
    /\ retired' = [h \in Transfers |-> retired[h] \/ h \in Holders(s)]
    /\ UNCHANGED <<imported, mode, closing, requests, attempt, passes, resources, history,
                   scans, tally>>

\* _delivered: COMPLETED is committed; the owned cleanup, if policy wants it, comes after.
Complete(t) ==
    /\ Live(t) /\ root[t] = "waiting" /\ pc[t] = "idle"
    /\ status' = [status EXCEPT ![t] = "completed"]
    /\ \E a \in {None, "owned"} : closing' = [closing EXCEPT ![t]["completed"] = a]
    /\ Forget(t)
    /\ UNCHANGED <<source, retired, imported, mode, requests, attempt, passes, resources,
                   made, blind, scans, tally>>

\* cancel_with_execution_cleanup: nothing is owed to the provider.
Cancel(t) ==
    /\ Upset
    /\ Live(t)
    /\ status' = [status EXCEPT ![t] = "cancelled"]
    /\ Forget(t)
    /\ UNCHANGED <<source, retired, imported, mode, closing, requests, attempt, passes,
                   resources, made, blind, scans>>

\* engine.delete up to the tombstone's commit.
Delete(t, m) ==
    /\ status[t] \notin {"unborn", "deleted"} /\ m \in budget.modes
    /\ status' = [status EXCEPT ![t] = "deleted"]
    /\ retired' = [retired EXCEPT ![t] = TRUE]
    /\ mode' = [mode EXCEPT ![t] = m]
    /\ closing' = [closing EXCEPT ![t]["deleted"] = IF m = "keep" THEN None ELSE m]
    /\ Forget(t)
    /\ UNCHANGED <<source, imported, requests, attempt, passes, resources, made, blind,
                   scans, tally>>

\* _cleanup_resources: every resource not absent, or every owned one of them.
Closable(t, authority) ==
    {o \in Objects : /\ binding[t][o].state \notin {"none", "absent"}
                     /\ authority = "user" \/ binding[t][o].owned}
CloseCleanup(t, c) ==
    LET S == Closable(t, closing[t][c]) IN
    /\ closing[t][c] # None
    /\ closing' = [closing EXCEPT ![t][c] = None]
    /\ binding' = Intend(binding, t, S, closing[t][c])
    /\ Postdate(t, S)
    /\ UNCHANGED <<torrents, requests, attempt, passes, latest, remote, made, blind, scans,
                   tally>>

-----------------------------------------------------------------------------
(* The resolution pass of a root (engine._resolve). *)

Current(t)     == attempt[t][spent[t]]
Open(t)        == spent[t] > 0 /\ Current(t).state = "started"
Held(t)        == Open(t) /\ Current(t).owed /\ Current(t).uncertain   \* uncertain_resolution
Runnable(t)    == pc[t] = "idle" /\ Live(t) /\ root[t] = "pending" /\ spent[t] < budget.attempts
Set(t, r)      == attempt' = [attempt EXCEPT ![t][spent[t]] = r]
Goto(t, where) == pc' = [pc EXCEPT ![t] = where]

\* Mutant: a creation whose outcome is unknown does not hold the root back.
PassFenceUnheld(t) ==
    /\ Runnable(t) /\ bound[t] = None /\ ~Fenced(t)
    /\ Goto(t, "routed")
    /\ Forget(t)
    /\ UNCHANGED <<torrents, closing, requests, attempt, ans, resources, made, blind, scans, tally>>

\* A root not bound yet may create only behind the fence; the reading is not kept.
PassFence(t) ==
    /\ Runnable(t) /\ bound[t] = None /\ ~Held(t) /\ ~Fenced(t)
    /\ Goto(t, "routed")
    /\ Forget(t)
    /\ UNCHANGED <<torrents, closing, requests, attempt, ans, resources, made, blind, scans,
                   tally>>

\* A bound root is observed again: its resource is still there.
Reobserve(t, o) ==
    /\ Runnable(t) /\ bound[t] = o /\ o \in remote
    /\ root' = [root EXCEPT ![t] = "waiting"]
    /\ binding' = Upsert(t, o, TRUE)
    /\ Postdate(t, {o})
    /\ UNCHANGED <<torrents, closing, bound, spent, pin, attempt, passes, latest, remote, made,
                   blind, scans, tally>>

\* It is gone, or expired and not DebridPulse's to give back: another is made, without
\* looking for an uncertain attempt.
Gone(t, o) ==
    /\ Runnable(t) /\ bound[t] = o /\ (o \notin remote \/ ~binding[t][o].owned)
    /\ binding' =
         [binding EXCEPT ![t][o].state = IF o \in remote THEN "available" ELSE "absent"]
    /\ Postdate(t, {o} \cap remote)
    /\ Goto(t, "routed")
    /\ UNCHANGED <<torrents, closing, requests, attempt, ans, latest, remote, made, blind,
                   scans, tally>>

\* It has expired: the owned one is given back before another is made.
Expired(t, o) ==
    /\ Runnable(t) /\ bound[t] = o /\ o \in remote /\ binding[t][o].owned
    /\ binding' = Intend(Upsert(t, o, TRUE), t, {o}, "owned")
    /\ Postdate(t, {o})
    /\ Goto(t, "draining")
    /\ ans' = [ans EXCEPT ![t] = o]
    /\ UNCHANGED <<torrents, closing, requests, attempt, latest, remote, made, blind, scans,
                   tally>>

\* After the drain: still owed is REMOTE_CLEANUP_FAILED.
Drained(t) ==
    /\ pc[t] = "draining"
    /\ Goto(t, IF Owed(t, ans[t]) THEN "unrouted" ELSE "routed")
    /\ ans' = [ans EXCEPT ![t] = None]
    /\ UNCHANGED <<torrents, closing, requests, attempt, resources, history, scans, tally>>

\* begin_pinned_resolution, begin_resolution: live and pending still; the attempt a switch
\* opened is begun, never another beside it, and a pass routed before the switch begins none.
Begin(t) ==
    /\ pc[t] = "routed"
    /\ \/ /\ Live(t) /\ root[t] = "pending" /\ spent[t] < budget.attempts
          /\ spent' = [spent EXCEPT ![t] = @ + 1]
          /\ attempt' = [attempt EXCEPT ![t][spent[t] + 1].state = "started"]
          /\ pin' = [pin EXCEPT ![t] = "none"]
          /\ root' = [root EXCEPT ![t] = "resolving"]
          /\ Goto(t, "opened")
       \/ /\ ~(Live(t) /\ root[t] = "pending" /\ spent[t] < budget.attempts) \/ pin[t] = "open"
          /\ Goto(t, "idle")
          /\ UNCHANGED <<root, spent, pin, attempt>>
    /\ UNCHANGED <<torrents, closing, bound, ans, resources, history, scans, tally>>

\* Mutant: the provider is asked before anything is owed.
ArmLate(t) ==
    /\ pc[t] = "opened"
    /\ Goto(t, "calling")
    /\ UNCHANGED <<torrents, closing, requests, attempt, ans, resources, history, scans, tally>>

\* arm_creation: the reconciliation of an open attempt is owed before the provider is asked.
Arm(t) ==
    /\ pc[t] = "opened"
    /\ Set(t, [Current(t) EXCEPT !.owed = @ \/ Open(t)])
    /\ blind' = IF Open(t) THEN blind ELSE blind \cup {t}
    /\ Goto(t, "calling")
    /\ UNCHANGED <<torrents, closing, requests, ans, resources, made, postdated, scans, tally>>

\* provider.resolve: a fresh native object, or the one it already has for the content.
ProviderCreates(t, o) ==
    /\ pc[t] = "calling" /\ o \in budget.objects
    /\ remote' = remote \cup {o}
    /\ made' = made \cup {<<t, o>>}
    /\ ans' = [ans EXCEPT ![t] = o]
    /\ Goto(t, "created")
    /\ UNCHANGED <<torrents, closing, requests, attempt, binding, latest, blind, postdated,
                   scans, tally>>

\* The call ends without naming a resource: proven not created, or not known.
ProviderFails(t) ==
    /\ Upset
    /\ \/ pc[t] = "calling" /\ (Goto(t, "refused") \/ Goto(t, "uncertain"))
       \/ pc[t] = "created" /\ Goto(t, "uncertain")
    /\ ans' = [ans EXCEPT ![t] = None]
    /\ UNCHANGED <<torrents, closing, requests, attempt, resources, history, scans>>

\* settle_creation after a definite failure.
Refused(t) ==
    /\ pc[t] = "refused"
    /\ Set(t, [Current(t) EXCEPT !.owed = FALSE])
    /\ Goto(t, "erring")
    /\ UNCHANGED <<torrents, closing, requests, ans, resources, history, scans, tally>>

\* _record_unrouted_resource: a created object no route binds.
RecordUnrouted(t, o, authority) ==
    IF Bound(t, o) \/ ~Bindable(t, o)
    THEN UNCHANGED <<binding, latest, postdated>>
    ELSE /\ binding' = Intend(Upsert(t, o, TRUE), t, {o}, authority)
         /\ BindLatest(t, o)
         /\ Postdate(t, {o})

\* _apply_resolution of an answer whose transfer has ended: its cleanup comes next.
CloseLate(t) ==
    closing' = [closing EXCEPT ![t]["answered"] =
        IF Live(t) \/ Authority(t) = None THEN @ ELSE Authority(t)]

\* resolution: an answer naming o that comes when its attempt is no longer open is recorded
\* without a route.
Late(t, o) ==
    /\ ~Open(t)
    /\ RecordUnrouted(t, o, IF Live(t) THEN "owned" ELSE None)
    /\ Set(t, [Current(t) EXCEPT !.owed = FALSE])
    /\ CloseLate(t)
    /\ Goto(t, "idle")
    /\ UNCHANGED <<root, bound, tally>>

\* Another transfer holds o: the transaction rolls back.
Conflict(t, o, where) ==
    /\ Open(t) /\ ~Bindable(t, o)
    /\ Goto(t, where)
    /\ UNCHANGED <<root, bound, closing, attempt, binding, latest, postdated, tally>>

\* The answer of an open attempt is bound, even after Delete; the resource may be unusable.
Bind(t, o) ==
    /\ Open(t) /\ Bindable(t, o)
    /\ binding' = Upsert(t, o, TRUE)
    /\ BindLatest(t, o)
    /\ Postdate(t, {o})
    /\ CloseLate(t)
    /\ bound' = IF Live(t) THEN [bound EXCEPT ![t] = o] ELSE bound
    /\ \/ /\ Set(t, [Current(t) EXCEPT !.state = "succeeded", !.owed = FALSE])
          /\ root' = IF Live(t) THEN [root EXCEPT ![t] = "waiting"] ELSE root
          /\ Goto(t, "idle")
          /\ UNCHANGED tally
       \/ /\ Upset
          /\ Set(t, [Current(t) EXCEPT !.state = "failed", !.owed = FALSE])
          /\ root' = IF Live(t) THEN [root EXCEPT ![t] = "failed"] ELSE root
          /\ Goto(t, IF Live(t) THEN "failing" ELSE "idle")

Accept(t, o, conflict) ==
    /\ Late(t, o) \/ Conflict(t, o, conflict) \/ Bind(t, o)
    /\ ans' = [ans EXCEPT ![t] = None]

Answer(t) ==
    /\ pc[t] = "created"
    /\ Accept(t, ans[t], "erring")
    /\ UNCHANGED <<torrents, spent, pin, remote, made, blind, scans>>

\* hold_uncertain_resolution: the attempt stays open and owes; the root waits, unless its
\* transfer ended or an adoption gave it another resource.
Hold(t) ==
    LET holds == Open(t) /\ Live(t) /\ root[t] \in {"resolving", "pending"} IN
    /\ pc[t] = "uncertain"
    /\ IF Open(t) THEN Set(t, [Current(t) EXCEPT !.owed = TRUE, !.uncertain = TRUE])
                  ELSE UNCHANGED attempt
    /\ root' = IF holds THEN [root EXCEPT ![t] = "pending"] ELSE root
    /\ Goto(t, IF holds THEN "idle" ELSE "erring")
    /\ UNCHANGED <<torrents, closing, bound, spent, pin, ans, resources, history, scans,
                   tally>>

\* resolution(attempt, error): a route released meanwhile carries no failure.
Erring(t) ==
    /\ pc[t] = "erring"
    /\ IF Open(t)
       THEN /\ Set(t, [Current(t) EXCEPT !.state = "failed"])
            /\ root' = IF Live(t) THEN [root EXCEPT ![t] = "failed"] ELSE root
            /\ Goto(t, "failing")
       ELSE Goto(t, "idle") /\ UNCHANGED <<attempt, root>>
    /\ UNCHANGED <<torrents, closing, bound, spent, pin, ans, resources, history, scans,
                   tally>>

\* The attempts of a root that are open and never answered fail with it.
FailStarted(t) ==
    [n \in AttemptIds |->
        [attempt[t][n] EXCEPT !.state = IF @ = "started" THEN "failed" ELSE @]]

\* exhaust_route: the provider's route ends and its owned resource is given back.
ExhaustRoute(t) ==
    /\ pc[t] = "failing" /\ Live(t) /\ spent[t] > 0
    /\ Current(t).state # "ended" /\ pin[t] = "none"
    /\ attempt' = [attempt EXCEPT ![t] = [FailStarted(t) EXCEPT ![spent[t]].state = "ended"]]
    /\ binding' = Intend(binding, t, Surplus(t), "owned")
    /\ Postdate(t, Surplus(t))
    /\ bound' = [bound EXCEPT ![t] = None]
    /\ \E next \in {"pending", "failed"} : root' = [root EXCEPT ![t] = next]
    /\ Goto(t, "idle")
    /\ UNCHANGED <<torrents, closing, spent, pin, ans, latest, remote, made, blind, scans,
                   tally>>

\* request_failure: open attempts fail; the request retries or fails.
FailRequest(t) ==
    /\ attempt' = [attempt EXCEPT ![t] = FailStarted(t)]
    /\ pin' = [pin EXCEPT ![t] = IF @ = "open" THEN "failed" ELSE @]
RequestFailure(t) ==
    /\ pc[t] \in {"failing", "unrouted"}
    /\ FailRequest(t)
    /\ IF Live(t) THEN \E next \in {"pending", "failed"} : root' = [root EXCEPT ![t] = next]
                  ELSE UNCHANGED root
    /\ Goto(t, "idle")
    /\ UNCHANGED <<torrents, closing, bound, spent, ans, resources, history, scans, tally>>

\* _creation_reconciliation: what a reading of the inventory may conclude.
Readings ==
    {"unsettled"} \cup {o \in Objects : remote = {o}} \cup (IF remote = {} THEN {"absent"} ELSE {})

\* _settle_uncertain_resolution: the reading, and what it does to the held attempt.
ReadUncertain(t) ==
    /\ pc[t] = "idle" /\ Live(t) /\ root[t] = "pending" /\ bound[t] = None /\ Held(t)
    /\ \E saw \in Readings : ans' = [ans EXCEPT ![t] = saw]
    /\ Goto(t, "settling")
    /\ UNCHANGED <<torrents, closing, requests, attempt, resources, history, scans, tally>>

SettleUncertain(t) ==
    /\ pc[t] = "settling"
    /\ UNCHANGED <<torrents, spent, pin, remote, made, blind, scans>>
    /\ \/ ans[t] \in Objects /\ Accept(t, ans[t], "unrouted")
       \/ /\ ans[t] = "absent"
          /\ Set(t, [Current(t) EXCEPT !.owed = FALSE])
          /\ Goto(t, "erring")
          /\ ans' = [ans EXCEPT ![t] = None]
          /\ UNCHANGED <<closing, root, bound, binding, latest, postdated, tally>>
       \/ /\ ans[t] = "unsettled"
          /\ \/ Live(t) /\ Open(t) /\ root[t] = "pending" /\ Goto(t, "idle")
             \/ Goto(t, "erring")
          /\ ans' = [ans EXCEPT ![t] = None]
          /\ UNCHANGED <<closing, root, bound, attempt, binding, latest, postdated, tally>>

\* _process_request of a root left "resolving" by a process that ended.
Interrupted(t) ==
    /\ pc[t] = "idle" /\ Live(t) /\ root[t] = "resolving"
    /\ IF Open(t) /\ Current(t).owed
       THEN /\ Set(t, [Current(t) EXCEPT !.uncertain = TRUE])
            /\ root' = [root EXCEPT ![t] = "pending"]
            /\ UNCHANGED pin
       ELSE FailRequest(t) /\ root' = [root EXCEPT ![t] = "failed"]
    /\ UNCHANGED <<torrents, closing, bound, spent, passes, resources, history, scans, tally>>

\* _observe_resource: the held resource fails and its root resolves again, still bound.
Reresolve(t) ==
    /\ Upset
    /\ pc[t] = "idle" /\ Live(t) /\ root[t] = "waiting"
    /\ root' = [root EXCEPT ![t] = "pending"]
    /\ UNCHANGED <<torrents, closing, bound, spent, pin, attempt, passes, resources, history,
                   scans>>

\* The operator's retry: refused while any resource of the transfer owes cleanup.
Retry(t) ==
    /\ Upset
    /\ Live(t) /\ root[t] = "failed"
    /\ \A o \in Objects : ~Owed(t, o)
    /\ root' = [root EXCEPT ![t] = "pending"]
    /\ UNCHANGED <<torrents, closing, bound, spent, pin, attempt, passes, resources, history,
                   scans>>

\* replace_root_route without a kept backup: the latest route is released, its resource
\* given back, and an attempt of the new route opened for the next pass.
SwitchRoute(t) ==
    /\ Upset
    /\ Live(t) /\ root[t] \in {"pending", "waiting", "failed"}
    /\ spent[t] \in 1..(budget.attempts - 1) /\ (Current(t).state # "ended" \/ pin[t] # "none")
    /\ Set(t, [Current(t) EXCEPT !.state = "ended"])
    /\ pin' = [pin EXCEPT ![t] = "open"]
    /\ binding' = Intend(binding, t, Surplus(t), "owned")
    /\ Postdate(t, Surplus(t))
    /\ bound' = [bound EXCEPT ![t] = None]
    /\ root' = [root EXCEPT ![t] = "pending"]
    /\ UNCHANGED <<torrents, closing, spent, passes, latest, remote, made, blind, scans>>

-----------------------------------------------------------------------------
(* Creations no route owns any more (_settle_unowned_creations). *)

\* unowned_creations and the reading of the inventory.
ReadUnowned(t, n) ==
    /\ settler.t = None
    /\ attempt[t][n].owed
    /\ attempt[t][n].state # "started" \/ Ended(t)
    /\ \E saw \in Readings :
          /\ settler' = [t |-> t, n |-> n, saw |-> saw, due |-> Authority(t)]
          /\ blind' = IF saw # "unsettled" /\ pc[t] = "calling" THEN blind \cup {t} ELSE blind
    /\ UNCHANGED <<work, resources, made, postdated, inv, scanned, tally>>

\* settle_creation, or defer_creation_reconciliation: owed still.
SettleUnowned ==
    LET t == settler.t IN
    /\ t # None
    /\ IF settler.saw = "unsettled"
       THEN UNCHANGED <<attempt, binding, latest, postdated>>
       ELSE /\ attempt' = [attempt EXCEPT ![t][settler.n].owed = FALSE]
            /\ IF settler.saw = "absent" THEN UNCHANGED <<binding, latest, postdated>>
                                         ELSE RecordUnrouted(t, settler.saw, settler.due)
    /\ settler' = NoSettlement
    /\ UNCHANGED <<torrents, closing, requests, passes, remote, made, blind, inv, scanned,
                   tally>>

-----------------------------------------------------------------------------
(* The inventory pass (reconcile_inventory), one listed item at a time. *)

Looking(o, s) == inv.at = s /\ inv.obj = o
Step(i)       == inv' = i

\* provider.inventory: o is listed.
InventoryList(o) ==
    /\ inv = NoItem /\ o \in remote /\ Upset
    /\ Step([NoItem EXCEPT !.at = "listed", !.obj = o])
    /\ UNCHANGED <<work, resources, history, settler, scanned>>

\* The bindings of live transfers, read once for the whole listing.
InventoryKnown(o) ==
    LET H == {t \in Transfers : Live(t) /\ Bound(t, o)} IN
    /\ Looking(o, "listed")
    /\ IF H = {} THEN Step([inv EXCEPT !.at = "unknown"])
                 ELSE \E t \in H : Step([inv EXCEPT !.at = "known", !.of = t])
    /\ UNCHANGED <<work, resources, history, settler, scanned, tally>>

\* inventory_observation of a known item.
InventoryObserve(o) ==
    /\ Looking(o, "known")
    /\ binding' = Upsert(inv.of, o, FALSE)
    /\ Postdate(inv.of, {o})
    /\ Step(NoItem)
    /\ UNCHANGED <<work, latest, remote, made, blind, settler, scanned, tally>>

\* historical_binding: what its last owner's Delete authorized is owed again.
InventoryHistory(o) ==
    LET held == latest[o] IN
    /\ Looking(o, "unknown")
    /\ Step(IF held = None THEN [inv EXCEPT !.at = "new"]
            ELSE IF status[held] = "deleted" /\ Authority(held) # None
            THEN [inv EXCEPT !.at = "rearm", !.of = held] ELSE NoItem)
    /\ UNCHANGED <<work, resources, history, settler, scanned, tally>>

\* rearm_retired_cleanup.
InventoryRearm(o) ==
    LET t == inv.of
        b == binding[t][o]
    IN  /\ Looking(o, "rearm")
        /\ IF Ended(t) /\ b.owed = None /\ ~b.abandoned /\ b.call = "none"
           THEN binding' = Intend(Upsert(t, o, FALSE), t, {o}, Authority(t)) /\ Postdate(t, {o})
           ELSE UNCHANGED <<binding, postdated>>
        /\ Step(NoItem)
        /\ UNCHANGED <<work, latest, remote, made, blind, settler, scanned, tally>>

\* The binding an import is given: observed, never owned.
Import(t, o) ==
    /\ binding' = Upsert(t, o, FALSE)
    /\ BindLatest(t, o)
    /\ root' = [root EXCEPT ![t] = "waiting"]
    /\ bound' = [bound EXCEPT ![t] = o]
    /\ Forget(t)

\* admit of an observation: a new transfer, bound in the same commit unless it is fenced.
InventoryAdmit(t, o) ==
    /\ Looking(o, "new") /\ latest[o] = None
    /\ NextId(t) /\ Holders(Listed) = {}
    /\ status' = [status EXCEPT ![t] = "live"]
    /\ source' = [source EXCEPT ![t] = Listed]
    /\ imported' = [imported EXCEPT ![t] = TRUE]
    /\ IF FencedAs(t, Listed) THEN UNCHANGED <<binding, latest, root, bound, postdated>>
                              ELSE Import(t, o)
    /\ Step(NoItem)
    /\ UNCHANGED <<retired, mode, closing, spent, pin, attempt, passes, remote, made, blind,
                   settler, scanned, tally>>

\* admit converged on an import that is still unbound: adopt_inventory_resource.
InventoryAdopt(t, o) ==
    /\ Looking(o, "new")
    /\ t \in Holders(Listed) /\ Live(t) /\ imported[t]
    /\ root[t] \in {"pending", "resolving", "failed"}
    /\ \A u \in Transfers \ {t} : ~Bound(u, o)
    /\ ~Fenced(t)
    /\ Import(t, o)
    /\ Step(NoItem)
    /\ UNCHANGED <<torrents, closing, spent, pin, attempt, passes, remote, made, blind, settler,
                   scanned, tally>>

\* KnownProviderResource, or converged on a transfer that adopts nothing.
InventoryDrop(o) ==
    /\ Looking(o, "new")
    /\ latest[o] # None \/ Holders(Listed) # {} \/ \A t \in Transfers : ~NextId(t)
    /\ Step(NoItem)
    /\ UNCHANGED <<work, resources, history, settler, scanned, tally>>

-----------------------------------------------------------------------------
(* The cleanup cadence, one call at a time for a binding. *)

Cleaning(t, o, b) == binding' = [binding EXCEPT ![t][o] = b]
Claimable(t, o)   == Owed(t, o) /\ ~binding[t][o].abandoned /\ binding[t][o].call = "none"

\* pending_cleanup: a pass reads what is owed for the binding.
CleanupScan(t, o) ==
    /\ Claimable(t, o)
    /\ scanned' = [scanned EXCEPT ![t][o] = @ \cup {binding[t][o].owed}]
    /\ UNCHANGED <<work, resources, history, inv, settler, tally>>

\* claim_cleanup: anything may be owed by now; the provider is asked with what was read.
CleanupStart(t, o) ==
    \E a \in scanned[t][o] :
        /\ scanned' = [scanned EXCEPT ![t][o] = @ \ {a}]
        /\ IF Claimable(t, o) THEN Cleaning(t, o, [binding[t][o] EXCEPT !.call = a])
                              ELSE UNCHANGED binding
        /\ UNCHANGED <<work, latest, remote, history, inv, settler, tally>>

\* The provider removes the object, unless DebridPulse merely observed it and no user
\* asked; its answer is still under way.
CleanupActs(t, o) ==
    LET b == binding[t][o] IN
    /\ b.call \in {"owned", "user"}
    /\ IF b.call = "user" \/ b.owned
       THEN remote' = remote \ {o} /\ Cleaning(t, o, [b EXCEPT !.call = "removed"])
       ELSE UNCHANGED remote /\ Cleaning(t, o, [b EXCEPT !.call = "skipped"])
    /\ UNCHANGED <<work, latest, history, scans, tally>>

\* cleanup_complete: a removal records the binding absent, a skip only ends the obligation.
CleanupCompletes(t, o) ==
    LET b == binding[t][o] IN
    /\ b.call \in {"removed", "skipped"}
    /\ Cleaning(t, o, [b EXCEPT !.owed = None, !.call = "none",
                               !.state = IF b.call = "removed" THEN "absent" ELSE @])
    /\ UNCHANGED <<work, latest, remote, history, scans, tally>>

\* cleanup_retry: the call failed, or its answer was lost; policy retries or gives up.
CleanupFails(t, o) ==
    /\ Upset
    /\ binding[t][o].call # "none"
    /\ \E gone \in BOOLEAN :
          Cleaning(t, o, [binding[t][o] EXCEPT !.call = "none", !.abandoned = gone])
    /\ UNCHANGED <<work, latest, remote, history, scans>>

\* The process ends: what is not in the database is gone.
Crash ==
    /\ Upset
    /\ closing' = [t \in Transfers |-> [c \in Closers |-> None]]
    /\ pc' = [t \in Transfers |-> "idle"]
    /\ ans' = [t \in Transfers |-> None]
    /\ binding' = [t \in Transfers |-> [o \in Objects |-> [binding[t][o] EXCEPT !.call = "none"]]]
    /\ inv' = NoItem
    /\ settler' = NoSettlement
    /\ scanned' = [t \in Transfers |-> [o \in Objects |-> {}]]
    /\ UNCHANGED <<torrents, requests, attempt, latest, remote, history>>

-----------------------------------------------------------------------------
Transfer(t) ==
    \/ \E s \in Sources : Submit(t, s)
    \/ Complete(t) \/ Cancel(t)
    \/ \E c \in Closers : CloseCleanup(t, c)
    \/ \E m \in Modes : Delete(t, m)
Resolution(t) ==
    \/ PassFence(t) \/ Drained(t) \/ Begin(t) \/ Arm(t)
    \/ \E o \in Objects :
          Reobserve(t, o) \/ Gone(t, o) \/ Expired(t, o) \/ ProviderCreates(t, o)
    \/ ProviderFails(t) \/ Refused(t) \/ Answer(t) \/ Hold(t) \/ Erring(t)
    \/ ExhaustRoute(t) \/ RequestFailure(t) \/ ReadUncertain(t) \/ SettleUncertain(t)
    \/ Interrupted(t) \/ Reresolve(t) \/ Retry(t) \/ SwitchRoute(t)
    \/ \E n \in AttemptIds : ReadUnowned(t, n)
Item(o) ==
    \/ InventoryList(o) \/ InventoryKnown(o) \/ InventoryObserve(o) \/ InventoryHistory(o)
    \/ InventoryRearm(o) \/ InventoryDrop(o)
    \/ \E t \in Transfers : InventoryAdmit(t, o) \/ InventoryAdopt(t, o)
Cleanup(t, o) ==
    \/ CleanupScan(t, o) \/ CleanupStart(t, o)
    \/ CleanupActs(t, o) \/ CleanupCompletes(t, o) \/ CleanupFails(t, o)
Next ==
    \/ \E t \in Transfers : Transfer(t) \/ Resolution(t)
    \/ \E o \in Objects : Item(o)
    \/ SettleUnowned \/ Crash
    \/ \E t \in Transfers, o \in Objects : Cleanup(t, o)
Spec == Init /\ [][Next]_vars

-----------------------------------------------------------------------------
(* What must hold. *)

Authorities == {None, "owned", "user"}
TypeOK ==
    /\ status \in [Transfers -> {"unborn", "live", "completed", "cancelled", "deleted"}]
    /\ source \in [Transfers -> Sources]
    /\ retired \in [Transfers -> BOOLEAN]
    /\ imported \in [Transfers -> BOOLEAN]
    /\ mode \in [Transfers -> Modes]
    /\ closing \in [Transfers -> [Closers -> Authorities]]
    /\ root \in [Transfers -> {"pending", "resolving", "waiting", "failed"}]
    /\ bound \in [Transfers -> Objects \cup {None}]
    /\ spent \in [Transfers -> 0..MaxAttempts]
    /\ pin \in [Transfers -> {"none", "open", "failed"}]
    /\ attempt \in [Transfers -> [AttemptIds ->
            [state : {"none", "started", "succeeded", "failed", "ended"},
             owed : BOOLEAN, uncertain : BOOLEAN]]]
    /\ pc \in [Transfers -> {"idle", "routed", "draining", "unrouted", "opened",
                             "calling", "created", "refused", "uncertain", "erring", "failing",
                             "settling"}]
    /\ ans \in [Transfers -> Objects \cup {None, "absent", "unsettled"}]
    /\ binding \in [Transfers -> [Objects ->
            [state : {"none", "available", "absent"}, owned : BOOLEAN, owed : Authorities,
             abandoned : BOOLEAN, call : {"none", "owned", "user", "removed", "skipped"}]]]
    /\ latest \in [Objects -> Transfers \cup {None}]
    /\ remote \subseteq Objects
    /\ made \subseteq Bindings
    /\ blind \subseteq Transfers
    /\ postdated \in [Transfers -> SUBSET Bindings]
    /\ inv \in [at : {"idle", "listed", "known", "unknown", "new", "rearm"},
               obj : Objects \cup {None}, of : Transfers \cup {None}]
    /\ settler \in [t : Transfers \cup {None}, n : AttemptIds \cup {0},
                   saw : Objects \cup {None, "absent", "unsettled"}, due : Authorities]
    /\ scanned \in [Transfers -> [Objects -> SUBSET {"owned", "user"}]]
    /\ upsets \in Nat
    /\ budget \in Budgets

\* Nothing DebridPulse made at the provider is forgotten: the object of a root's call that
\* is still there is bound to some transfer, or an attempt of that root still owes the
\* reconciliation of it -- through crashes, lost answers, Delete and route switches.  (Not
\* when the reconciliation read the inventory while the call was still running, or the
\* attempt lost its route between begin_resolution and arm_creation: blind.)
Tracked ==
    \A t \in Transfers, o \in remote :
        <<t, o>> \in made /\ t \notin blind =>
            \/ \E u \in Transfers : Bound(u, o)
            \/ \E n \in AttemptIds : attempt[t][n].owed

\* The predecessor fence (_predecessor_cleanup_blocks): while a root may create or hold a
\* resource, every cleanup a retired generation of its source owes was recorded after the
\* root read the fence.
FenceBound ==
    \A t \in Transfers : FenceRead(t) =>
        \A p \in Transfers, o \in Objects :
            Precedes(p, t) /\ Outstanding(p, o) => <<p, o>> \in postdated[t]

\* Two live transfers never bind the same object (_resource), however they came by it: a
\* resolution, a late answer, an inventory import or adoption, a reconciliation.
SoleOwner ==
    \A t, u \in Transfers : t # u =>
        \A o \in Objects : ~(Live(t) /\ Live(u) /\ Bound(t, o) /\ Bound(u, o))

\* "Never a second one blindly" (engine.py:154): while the provider is asked to create for a
\* transfer that never had a resource, no earlier attempt of its root is still open and owes
\* a reconciliation.  (A root still bound to a resource that was lost is not covered:
\* _resolve looks for an uncertain attempt only while record.resource is None.)
NeverBlindly ==
    \A t \in Transfers : pc[t] = "calling" /\ (\A o \in Objects : ~Bound(t, o)) =>
        \A n \in 1..(spent[t] - 1) : ~(attempt[t][n].state = "started" /\ attempt[t][n].owed)

Removes(u, o) == binding[u][o].call \in {"owned", "user"} /\ binding'[u][o].call = "removed"

\* A cleanup of a retired generation never removes the object a live generation of the same
\* source holds -- except one recorded after the live root had read the fence, or one still
\* owed for a binding that was seen absent: the fence does not wait for that one, the cleanup
\* cadence carries it out.
Spared ==
    [][\A t, u \in Transfers, o \in Objects :
        Removes(u, o) /\ binding[u][o].state # "absent"
          /\ Live(t) /\ bound[t] = o /\ Precedes(u, t)
            => <<u, o>> \in postdated[t]]_vars

\* What DebridPulse merely observed at the provider is removed only for a transfer whose
\* Delete the user asked to remove it: not by a completion, a switch, a late answer or the
\* inventory's renewal of an old Delete.
ObservedKept ==
    [][\A u \in Transfers, o \in Objects :
        Removes(u, o) => binding[u][o].owned \/ (status[u] = "deleted" /\ mode[u] = "user")]_vars
=============================================================================
