SPECIFICATION PipeSpec
CONSTANTS
    Names = {"f"}
    StringParams = {"str"}
    ScalarParams = {"num"}
    ObjectParams = {"obj"}
    Wrappers = {"arguments"}
    Outputs <- WholeOpeners
    MaxDelta = 40
    Thoughts <- MCThoughts
    MaxThink = 8
    MayCut = TRUE
INVARIANT StreamAgrees
