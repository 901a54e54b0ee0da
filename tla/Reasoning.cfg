SPECIFICATION Spec
CONSTANTS
    Tokens <- CallTokens
    MaxDelta = 3
    MaxText = 6
INVARIANTS TypeOK StreamsSplit MarkerWhole OneShotAgrees
\* A stream ends.
CHECK_DEADLOCK FALSE
