SPECIFICATION Spec
CONSTANTS
    Tokens <- CallTokens
    MaxDelta = 4
    MaxText = 6
INVARIANT ReasoningEnds
\* A stream ends.
CHECK_DEADLOCK FALSE
