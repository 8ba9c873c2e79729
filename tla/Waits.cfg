\* Two runs of two waits, two messages, a cancel, claims that may overlap; a wait may be clamped by the run's deadline.
SPECIFICATION Spec
CONSTANTS
    Runs = {r1, r2}
    Messages = {m1, m2}
    Wanted <- MCWanted
    Steps = 2
    Declared = 2
    RunTimeout = 2
    PollInterval = 2
    None = None
    MaxTime = 4
    MaxCancelled = 1
SYMMETRY Symmetry
INVARIANTS TypeOK NoFalseTimeout SharingHasItsCause
PROPERTY MatchesAdvance
CHECK_DEADLOCK FALSE
