SPECIFICATION ReplaySpec
CONSTANTS
    Requests = {1, 2, 3}
    PromptLengths = {1, 3}
    K = 1
    WindowSize = 2
    MaxBatch = 2
    MaxChunk = 2
    MaxLength = 5
    MayPreempt = TRUE
    QuietSteps = FALSE
INVARIANTS TypeOK WindowsRecent LanesOwn WindowsBounded HarnessFollows OldInStep
PROPERTY WindowsGrow
