SPECIFICATION Spec
CONSTANTS
    Files = {database, config, avatar}
    Core = {database, config}
    Database = database
    Sessions = {s1}
    Restores = {r1}
    Original = original
    Nothing = nothing
    Foreign = foreign
    NoJournal = noJournal
    NoRestore = noRestore
    Faults = TRUE
    CommitFails = TRUE
    CutShort = FALSE
INVARIANT PreRestoreStaysClosed
