CONSTANTS
    MaxReplansPerPlanner = 2
    MaxReplansPerEpisode = 2
    ItemRate = 2
    VertexRate = 1
    BudgetRemaining = {}
    ToolView <- View
    Seed <- Start
    Answers <- Orders
    Results <- Stock
    Templates <- Rules
    Fork = FALSE
    MaxTurns = 3
    MaxFaults = 1
SPECIFICATION Spec
INVARIANTS
    TypeOK
    CancelRequestDiscipline
    CancelBeforeReplan
    DecisionIsAccepted
    PassedPivotsStay
    OneLiveReservation
    ProjectionsAgree
    WaitsAreOwed
PROPERTIES
    KeepsLifecycle
CHECK_DEADLOCK FALSE
