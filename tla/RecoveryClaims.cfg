SPECIFICATION FairSpec
CONSTANTS
    Tasks = {cycle, api}
    Cycle = cycle
    Candidates = {c1, c2}
    First = c1
    FailureLimit = 2
    RefreshLimit = 1
    WriterErrors = {"transient", "stillborn", "refused", "fatal", "interrupted", "conflict", "busy"}
    AnswerErrors = {"expired", "transient"}
    MaxTries = 2
    MaxEpoch = 1
    MaxFaults = 1
    MaxFailures = 1
    MaxCommands = 1
    None = none
    Lost = lost
INVARIANTS
    TypeOK
    OneCall
    RefreshBudget
PROPERTIES
    JudgedSwitch
    PauseFences
    ExhaustedRests
    WaitsEnd
    FailureDecided
CHECK_DEADLOCK FALSE
