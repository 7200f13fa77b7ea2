SPECIFICATION FairSpec
CONSTANTS
    Attempts = {e1}
    Tasks = {cycle, api}
    Cycle = cycle
    NoAttempt = none
    Faults = FALSE
PROPERTIES
    EndedWriterStops
    PausedWriterStops
