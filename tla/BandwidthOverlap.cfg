SPECIFICATION Spec
CONSTANTS
    Executors = {a1, a2}
    Caps = {2}
    StartLimit = 1
    Unassigned = unassigned
    None = none
INVARIANTS
    WithinCapAtRest
