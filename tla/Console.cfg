CONSTANTS
    Client = {c1}
    Scripts <- Histories
    BatchSize = 6
    BufferSize = 4
    MaxWire = 2
    MaxFaults = 1
    MaxRestarts = 1
SPECIFICATION FairSpec
INVARIANTS TypeOK SplitInvariant NoGapWithinProcess EnclosureTellsTruth
PROPERTIES StablePlacement CatchesUp ImplementsResumeBuffer
CHECK_DEADLOCK FALSE
