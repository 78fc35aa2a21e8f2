SPECIFICATION Spec
CONSTANTS
    Worker = {w1, w2}
    None = None
    Vertex = {"t1", "t2"}
    Scope = {"s1"}
    Key = {"t1", "t2"}
    Tcc = {"t1"}
    Saga = {"t2"}
    Pivot = {}
    Barrier = {}
    StatusTool = {}
    ScopeOf <- OneScope
    KeyOf <- OwnKey
    Parents <- LineParents
    MaxAttempts = 1
    MaxFaults = 0
SYMMETRY Symmetry
INVARIANTS
    ReverseDependencyOrder
CHECK_DEADLOCK FALSE
