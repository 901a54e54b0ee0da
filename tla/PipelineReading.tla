--------------------------- MODULE PipelineReading ---------------------------
(***************************************************************************)
(* What both parsers have read of an output: the inductive invariant of    *)
(* ParserPipeline for the outputs of ToolGrammar.  While reasoning goes on *)
(* the reasoning parser has the text so far, and no more than the front of *)
(* an opener of it is of the output; then the tool parser reads it, as     *)
(* ToolReading says.                                                       *)
(***************************************************************************)
EXTENDS ParserPipeline, ToolReading

\* In the block there is no text of a start tag's end or of </think>: the
\* first two end reasoning, the last is taken out of the delta that ends it.
Plain(d) == Range(InnerText(d)) \cap {CALLS, FUNCS, CLOSE, R!END} = {}

PlainOutputs == \A o \in Outputs : \E d : WellFormed(o, d) /\ Plain(d)

\* Reasoning goes on: its text is what has come, and its channel has the
\* words of it.
StillThinking ==
    /\ phase = "idle" /\ ~previous
    /\ ~tagSeen /\ ~closed /\ pending = <<>> /\ toContent = <<>>
    /\ text = Before(thoughts \o TextOf(output), ahead + fed)
    /\ reasoning = Before(thoughts, ahead)
    /\ fed = 0 \/ (ahead = Len(thoughts) /\ fed < Len(output.opener))
    /\ Closes(thoughts) => ahead < Len(thoughts)

\* Where both parsers are in an output that derives from d.
PipeReading(d) ==
    /\ WellFormed(output, d) /\ Plain(d)
    /\ thinking => thoughts \in Thoughts /\ Follows(output, thoughts)
    /\ IF thinking /\ ~over THEN StillThinking ELSE Reading(d) /\ Awaits(d)
    /\ thinking /\ over => ReasoningIsThoughts
=============================================================================
