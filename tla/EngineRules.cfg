CONSTANTS
    MaxReplansPerPlanner = 2
    MaxReplansPerEpisode = 2
    ItemRate = 2
    VertexRate = 1
    BudgetRemaining = {}
    ToolView <- View
    Seed <- Start
    Answers <- Lookups
    Results <- Stock
    Templates <- Rules
    Fork = FALSE
    MaxTurns = 2
    MaxFaults = 0
SPECIFICATION Spec
INVARIANT NoModelAfterRuleFails
CHECK_DEADLOCK FALSE
