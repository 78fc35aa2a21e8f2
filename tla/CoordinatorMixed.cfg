SPECIFICATION Spec
CONSTANTS
    Worker = {w1, w2}
    None = None
    Vertex = {"t1", "t2", "b", "p1", "n", "q", "t3"}
    Scope = {"s1", "s2"}
    Key = {"t1", "t3", "b", "p1", "n", "q"}
    Tcc = {"t1", "t2"}
    Saga = {"t3"}
    Pivot = {"p1", "q"}
    Barrier = {"b"}
    StatusTool = {}
    ScopeOf <- MixedScopeOf
    KeyOf <- MixedKeyOf
    Parents <- MixedParents
    MaxAttempts = 2
    MaxFaults = 0
SYMMETRY Symmetry
INVARIANTS
    CancelledReturnsToSavepoint
CHECK_DEADLOCK FALSE
