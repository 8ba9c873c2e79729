SPECIFICATION FairSpec
CONSTANTS
    a = a
    b = b
    wsA = wsA
    wsB = wsB
    w1 = w1
    w2 = w2
    Runs = {1, 2}
    Scenarios = {a, b}
    Workspaces = {wsA, wsB}
    ScenarioOf <- MCScenarioOf
    WorkspaceOf <- SameWorkspace
    Workers = {w1, w2}
    Outcomes = {"passed"}
    Cancellable = {1}
    MaxFaults = 1
    NoRun = NoRun
PROPERTIES
    EventuallyFinished
