SPECIFICATION Spec
CONSTANTS
    Worker = {w1, w2}
    None = None
    Vertex = {"t1", "t2", "p1"}
    Scope = {"s1"}
    Key = {"t1", "t2", "p1"}
    Tcc = {"t1"}
    Saga = {"t2"}
    Pivot = {"p1"}
    Barrier = {}
    StatusTool = {"p1"}
    ScopeOf <- OneScope
    KeyOf <- OwnKey
    Parents <- ChainParents
    MaxAttempts = 1
    MaxFaults = 1
SYMMETRY Symmetry
INVARIANTS
    CancelledReturnsToSavepoint
CHECK_DEADLOCK FALSE
