\* Two connections, a workspace and a sandbox under one quota, a stranger's address.
SPECIFICATION Spec
CONSTANTS
    u1 = u1
    u2 = u2
    ws = ws
    sa = sa
    Connections = {c1, c2}
    Workspaces = {ws}
    Sandboxes = {sa}
    Strangers = {nobody}
    Users = {u1, u2}
    Owner <- MCOwner
    Counted <- MCCounted
    Limit = 1
    None = None
    MaxTaken = 2
SYMMETRY ConnectionSymmetry
INVARIANTS TypeOK LoginMailStaysHome AnonymousMailWasAsked PauseStopsNewConnections QuotaHolds
CHECK_DEADLOCK FALSE
