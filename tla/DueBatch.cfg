SPECIFICATION Spec
CONSTANTS
    c1 = c1
    c2 = c2
    c3 = c3
    w1 = w1
    w2 = w2
    v1 = v1
    v2 = v2
    Competitors = {c1, c2, c3}
    Workspaces = {w1, w2}
    Owner <- MCOwner
    BatchSize = 2
    Workers = {v1, v2}
    Idle = Idle
    Interval = 1
    JitterHours = 0
    ActiveWindow = 1
INVARIANTS
    EachRowOnce
    BoundedWait
    WeeklyCeiling
PROPERTY
    EveryDueReached
