SPECIFICATION FairSpec
CONSTANTS
    Tasks = {t1, t2, t3}
    Sessions = {s1, s2}
    MaxDepth = 2
    NoTask = noTask
INVARIANTS
    TypeOK
    Counted
    SealedIsClosed
PROPERTIES
    ApplicationExclusive
    DatabaseExclusive
    DatabaseDrains
\* A sealed process with its gates released does nothing more: it is to be restarted.
CHECK_DEADLOCK FALSE
