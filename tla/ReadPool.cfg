CONSTANTS
    c1 = c1
    c2 = c2
    w1 = w1
    w2 = w2
    NoCaller = NoCaller
    Callers = {c1, c2}
    Workers = {w1, w2}
    Requests <- MCRequests
    MaxGathers = 2
    Direct = TRUE
    FaultyThreads <- MCWorkerFaults
    MayClose = FALSE
SPECIFICATION FairSpec
INVARIANTS TypeOK GatherComplete ErrorsAreOwn OneGatherAtATime RowsNotShared
PROPERTIES KeepsContract Settles
