\* Three handlers in flight, limit 2, two evictions, one failure, one row of a
\* foreign workspace.
SPECIFICATION Spec
CONSTANTS
    Requests = {q1, q2, q3}
    Limit = 2
    Unrecorded = TRUE
    MaxForeign = 1
    MaxArrivals = 5
    MaxEvictions = 2
    MaxFailures = 1
INVARIANTS TypeOK AdmissionsAccountedFor NobodyIsRefusedEarly OneOverAtMost
CHECK_DEADLOCK FALSE
