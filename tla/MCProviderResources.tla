------------------------ MODULE MCProviderResources ------------------------
(* Small instances of ProviderResources for TLC: budgets that each reach what *)
(* the others cannot afford.                                                  *)
EXTENDS ProviderResources, TLC
CONSTANTS first, second, object, other

Bounds(transfers, sources, objects, foreign, attempts, modes, failures) ==
    [transfers |-> transfers, sources |-> sources, objects |-> objects, foreign |-> foreign,
     attempts |-> attempts, modes |-> modes, upsets |-> failures]

SmallBudgets == {
    \* failures, crashes and retries of one root, and fewer of them with its Delete
    Bounds({1}, {first}, {object}, {}, 2, {}, 3),
    Bounds({1}, {first}, {object}, {}, 2, {"owned"}, 2),
    \* imports of an object the user has: a second attempt, a second upset
    Bounds({1}, {first}, {object}, {object}, 2, {"owned", "user"}, 1),
    Bounds({1}, {first}, {object}, {object}, 1, {"owned", "user"}, 2),
    \* every kind of Delete
    Bounds({1}, {first}, {object}, {object}, 1, Modes, 1),
    \* an import that adopts a second object
    Bounds({1}, {first}, {}, {object, other}, 0, {"user"}, 3),
    \* generations of one source: completed or cancelled, deleted, imported
    Bounds({1, 2}, {first}, {object}, {}, 1, {}, 1),
    Bounds({1, 2}, {first}, {object}, {}, 1, {"owned"}, 1),
    Bounds({1, 2}, {first, second}, {}, {object}, 0, {"owned", "user"}, 2),
    \* two sources, one object
    Bounds({1, 2}, {first, second}, {object}, {object}, 1, {"keep"}, 0)}

\* Where a second generation resolves behind a Delete's cleanup, what goes wrong does so
\* before it is submitted.
EarlyUpsets ==
    upsets' > upsets =>
        budget.modes = {} \/ budget.attempts = 0 \/ \A t \in budget.transfers \ {1} : status[t] = "unborn"
=============================================================================
