SPECIFICATION Spec
CONSTANTS
    first = first
    second = second
    object = object
    other = other
    Transfers = {1, 2}
    Sources = {first, second}
    Listed = first
    Objects = {object, other}
    MaxAttempts = 2
    Budgets <- SmallBudgets
    None = none
ACTION_CONSTRAINT EarlyUpsets
INVARIANTS
    TypeOK
    Tracked
    FenceBound
    SoleOwner
    NeverBlindly
PROPERTIES
    Spared
    ObservedKept
CHECK_DEADLOCK FALSE
