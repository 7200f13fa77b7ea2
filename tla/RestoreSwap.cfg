SPECIFICATION FairSpec
CONSTANTS
    Files = {database, config, avatar}
    Core = {database, config}
    Database = database
    Sessions = {s1, s2}
    Restores = {r1, r2}
    Original = original
    Nothing = nothing
    Foreign = foreign
    NoJournal = noJournal
    NoRestore = noRestore
    Faults = TRUE
    CommitFails = FALSE
    CutShort = FALSE
INVARIANTS
    TypeOK
    Recoverable
    ServesItsOwn
    SessionsStand
PROPERTIES
    ReplacedAtomically
    RecoveryCompletes
    RestoreEnds
