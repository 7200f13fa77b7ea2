SPECIFICATION Spec
CONSTANTS
    Attempts = {e1, e2}
    Tasks = {cycle, api}
    Cycle = cycle
    NoAttempt = none
    Faults = FALSE
PROPERTY CommitOfCurrentWriter
