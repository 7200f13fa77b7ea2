SPECIFICATION Spec
CONSTANTS
    Executors = {a1, a2}
    Caps = {0, 1, 2}
    StartLimit = 1
    Unassigned = unassigned
    None = none
SYMMETRY ExecutorSymmetry
CONSTRAINTS
    NoneOverlapped
    OneFact
INVARIANTS
    TypeOK
    SharesBounded
    LiftedWhenUnlimited
PROPERTIES
    AcquiresUnderCeiling
