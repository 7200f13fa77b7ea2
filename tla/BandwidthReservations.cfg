SPECIFICATION FairSpec
CONSTANTS
    Executors = {a1}
    Caps = {0, 1, 2}
    StartLimit = 2
    Unassigned = unassigned
    None = none
PROPERTIES
    LiveIsReservedAgain
