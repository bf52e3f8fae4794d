CONSTANTS
    base = base
    left = left
    right = right
    current = current
    Tasks = {base, left, right, current}
    Dependencies <- MCDependencies
    Required = {base, left, right}
    p1 = p1
    p2 = p2
    Procs = {p1, p2}
    Nil = Nil
    MaxCapacity = 2
    MaxFaults = 1
SPECIFICATION FairSpec
INVARIANT DependenciesFirst
INVARIANT ClaimedOnce
PROPERTY ImplementsBoard
PROPERTY AuditEnds
