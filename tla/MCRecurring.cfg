CONSTANTS
    c1 = c1
    c2 = c2
    j1 = j1
    j2 = j2
    g1 = g1
    g2 = g2
    p1 = p1
    p2 = p2
    Contexts = {c1, c2}
    Jobs = {j1, j2}
    Plugins = {g1, g2}
    Procs = {p1, p2}
    Nil = Nil
    MaxFaults = 2
    MaxEdits = 1
    MaxCalls = 2
SPECIFICATION MCSpec
ACTION_CONSTRAINT MCEdits
INVARIANT LocksHeld
PROPERTY SettledIsExact
PROPERTY OwnerChangesHands
PROPERTY OperationsEnd
CHECK_DEADLOCK FALSE
