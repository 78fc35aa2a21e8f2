CONSTANTS
    MaxReplansPerPlanner = 2
    MaxReplansPerEpisode = 2
    ItemRate = 2
    VertexRate = 1
    BudgetRemaining = {8}
    ToolView <- View
    Seed <- Start
    Answers <- Lookups
    Results <- Stock
    Templates <- Rules
    Fork = FALSE
    MaxTurns = 1
    MaxFaults = 1
SPECIFICATION Spec
INVARIANTS
    NothingRunsAfterDiscard
    OneBranchPerRouter
    ForksAreRuns
CHECK_DEADLOCK FALSE
