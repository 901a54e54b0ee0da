SPECIFICATION FairSpec
CONSTANTS
    Layers = {l1}
    IdBlocks <- SameShapes
    OwnCols = 1
    PartCols = 2
    JobThreads = 2
    FaultyReads = TRUE
    MaxReads = 3
INVARIANTS TypeOK ServesAsked AwaitedFailuresRaised
PROPERTIES LookupsEnd ReadsAwaitedOnce NothingReadUnderCapture
