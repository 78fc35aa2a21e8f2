SPECIFICATION FullyFairSpec
CONSTANTS
    Worker = {w1}
    None = None
    Vertex = {"t1", "p1"}
    Scope = {"s1"}
    Key = {"t1", "p1"}
    Tcc = {"t1"}
    Saga = {}
    Pivot = {"p1"}
    Barrier = {}
    StatusTool = {"p1"}
    ScopeOf <- OneScope
    KeyOf <- OwnKey
    Parents <- StrandParents
    MaxAttempts = 1
    MaxFaults = 1
PROPERTIES
    PassedPivotCloses
CHECK_DEADLOCK FALSE
