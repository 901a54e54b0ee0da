CONSTANTS
    c1 = c1
    c2 = c2
    w1 = w1
    w2 = w2
    NoCaller = NoCaller
    Callers = {c1, c2}
    Workers = {w1, w2}
    Requests <- MCOwnedRequests
    MaxGathers = 2
    Direct = FALSE
    FaultyThreads = {}
    MayClose = TRUE
SPECIFICATION FairSpec
PROPERTY WorkersLeave
CHECK_DEADLOCK FALSE
