SPECIFICATION FairStepSpec
CONSTANTS
    Layers <- TwoLayers
    IdBlocks = {}
    OwnCols = 1
    PartCols = 1
    JobThreads = 2
    FaultyReads = TRUE
    MaxReads = 12
    Batches <- SmallBatches
    MaxTokens = 2
    GraphSizes = {2}
    VerifyCalls = 3
    MaxSteps = 3
INVARIANTS StepTypeOK PaddingFinite
PROPERTIES KeepsForwardContract StepsDecided
