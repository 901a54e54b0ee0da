------------------------- MODULE MC_ReasoningStream -------------------------
(* Instances of ReasoningStream for TLC. *)
EXTENDS ReasoningStream

CallTokens == {LT, DSML, CALLS, WORD, END}
=============================================================================
