SPECIFICATION PipeSpec
CONSTANTS
    Names = {"f"}
    StringParams = {"str"}
    ScalarParams = {"num"}
    ObjectParams = {"obj"}
    Wrappers = {"arguments"}
    Outputs <- MCOutputs
    MaxDelta = 40
    Thoughts <- MCThoughts
    MaxThink = 13
    MayCut = FALSE
INVARIANTS TypeOK StreamAgrees ArgumentsGrow HeadlessSame ContentClean ThoughtsWhole KeepsItsPlace
PROPERTY LoopEnds
