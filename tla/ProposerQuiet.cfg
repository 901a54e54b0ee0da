SPECIFICATION ReplaySpec
CONSTANTS
    Requests = {1, 2}
    PromptLengths = {1, 3}
    K = 2
    WindowSize = 3
    MaxBatch = 2
    MaxChunk = 3
    MaxLength = 7
    MayPreempt = TRUE
    QuietSteps = TRUE
INVARIANT WindowsRecent
