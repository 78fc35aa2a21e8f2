CONSTANTS
    Client = {c1}
    Scripts <- Histories
    BatchSize = 6
    BufferSize = 4
    MaxWire = 2
    MaxFaults = 0
    MaxRestarts = 0
SPECIFICATION Spec
INVARIANTS ResumedShowsWhatFreshShows
CHECK_DEADLOCK FALSE
