\* Two requests in flight, sequences of up to three steps, an expiry, an edit, a failure.
SPECIFICATION Spec
CONSTANTS
    Handlers = {h1, h2}
    MaxSteps = 3
    MaxCalls = 5
    MaxExpiries = 1
    MaxEdits = 1
    MaxFailures = 1
INVARIANTS TypeOK NoStepSkipped SuccessiveCallsInOrder
CHECK_DEADLOCK FALSE
