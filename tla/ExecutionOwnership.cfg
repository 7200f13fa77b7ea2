SPECIFICATION Spec
CONSTANTS
    Attempts = {e1, e2}
    Tasks = {cycle, api}
    Cycle = cycle
    NoAttempt = none
    Faults = TRUE
SYMMETRY AttemptSymmetry
INVARIANTS
    TypeOK
    OwnedWriter
    SingleWriter
PROPERTIES
    NoLateDelivery
    ResponsibilityLedger
CONSTRAINT NoneOvertaken
