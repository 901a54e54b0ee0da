SPECIFICATION DraftSpec
CONSTANTS
    NStages = 3
    Experts = {e1, e2}
    LocalExperts = {e1}
    MaxBatch = 2
    WindowSize = 2
    BlockSize = 3
    K = 2
    MaxCalls = 3
    e1 = e1
    e2 = e2
INVARIANTS DraftTypeOK TensorsInPlace DraftsFollowReference
