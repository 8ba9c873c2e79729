SPECIFICATION FairSpec
CONSTANTS
    MaxSteps = 3
    MaxFaults = 2
INVARIANTS
    TypeOK
    VerdictHasItsCause
    ReportIsComplete
PROPERTIES
    NoStepAfterIntervention
    ExecutionEnds
CHECK_DEADLOCK FALSE
