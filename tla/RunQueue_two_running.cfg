SPECIFICATION Spec
CONSTANTS
    a = a
    b = b
    wsA = wsA
    wsB = wsB
    w1 = w1
    w2 = w2
    Runs = {1, 2}
    Scenarios = {a, b}
    Workspaces = {wsA, wsB}
    ScenarioOf <- MCScenarioOf
    WorkspaceOf <- SameWorkspace
    Workers = {w1, w2}
    Outcomes = {"passed"}
    Cancellable = {}
    MaxFaults = 0
    NoRun = NoRun
VIEW LiveView
SYMMETRY WorkerSymmetry
INVARIANTS
    OneRunningPerWorkspace
