--------------------------- MODULE ReasoningStream ---------------------------
(***************************************************************************)
(* The tool-aware reasoning parser of src/parsers/                         *)
(* dsv4_reasoning_tool_aware.py, in thinking mode, over the deltas of one  *)
(* stream, and its one-shot counterpart.                                   *)
(*                                                                         *)
(* Around it, vLLM's orchestrator gives the parser every delta until       *)
(* reasoning ends and the rest to the tool parser (orchestrated), or, when *)
(* there is no tool parser, every delta.  The parser it defers to is       *)
(* vLLM's DeepSeekR1ReasoningParser, which looks for the token of          *)
(* </think>.                                                               *)
(***************************************************************************)
EXTENDS DsmlSplit

CONSTANTS
    Tokens,        \* the tokens the model may emit
    MaxDelta,      \* bound on the tokens of a delta
    MaxText        \* bound on the pieces of a text

END == "end of thinking"   \* the special token whose text is </think>

ASSUME StreamAssumption ==
    /\ Tokens \subseteq {LT, DSML, CALLS, FUNCS, CLOSE, WORD, END}
    /\ MaxDelta \in Nat \ {0} /\ MaxText \in Nat

VARIABLES
    orchestrated, \* a tool parser takes over after reasoning
    text,      \* all the text so far: previous_text at the next delta
    closed,    \* END is among the tokens so far
    tagSeen,   \* _tool_tag_seen
    pending,   \* _content_pending
    over,      \* the orchestrator has left the reasoning phase
    reasoning, \* what went to the reasoning channel
    content    \* what went to the content channel, or to the tool parser

outputs == <<reasoning, content>>
vars == <<orchestrated, text, closed, tagSeen, pending, over, outputs>>

Init ==
    /\ orchestrated \in BOOLEAN
    /\ text = <<>>
    /\ closed = FALSE
    /\ tagSeen = FALSE
    /\ pending = <<>>
    /\ over = FALSE
    /\ reasoning = <<>>
    /\ content = <<>>

TextOf(token) == IF token = END THEN ThinkClose ELSE <<token>>

DeltaText(delta) == FlattenSeq([i \in DOMAIN delta |-> TextOf(delta[i])])

Deltas == UNION {[1 .. n -> Tokens] : n \in 1 .. MaxDelta}

Arrives(delta) == Len(text) + Len(DeltaText(delta)) =< MaxText

-----------------------------------------------------------------------------
(* The parser it defers to (external), by the tokens of the delta.         *)

Nothing == [reasoning |-> <<>>, content |-> <<>>]

Upstream(delta) ==
    LET new == DeltaText(delta)
        p == Find(new, ThinkClose)
    IN  CASE delta = <<END>> -> Nothing
          [] delta # <<END>> /\ (\E i \in DOMAIN delta : delta[i] = END) ->
               [reasoning |-> Before(new, p), content |-> From(new, p + Len(ThinkClose))]
          [] closed /\ (\A i \in DOMAIN delta : delta[i] # END) ->
               [reasoning |-> <<>>, content |-> new]
          [] OTHER -> [reasoning |-> new, content |-> <<>>]

-----------------------------------------------------------------------------
(* extract_reasoning_streaming and is_reasoning_end_streaming.             *)


PastBoundary == EarliestToolTagPos(text) >= 0

\* Content passes the filter of stray close tags; no content, no filter.
Emit(result) ==
    /\ reasoning' = reasoning \o result.reasoning
    /\ IF result.content = <<>> THEN UNCHANGED <<content, pending>>
       ELSE LET filtered == FilterThinkClose(pending, result.content)
            IN  /\ content' = content \o filtered.emit
                /\ pending' = filtered.pending

Took(delta) ==
    /\ UNCHANGED orchestrated
    /\ text' = text \o DeltaText(delta)
    /\ closed' = (closed \/ \E i \in DOMAIN delta : delta[i] = END)

\* The tag is latched, and ends reasoning as END does.
Latched ==
    /\ tagSeen' = (tagSeen \/ EarliestToolTagPos(text') >= 0)
    /\ over' = (tagSeen' \/ closed')

Reasons(delta) == ~(orchestrated /\ over) /\ Arrives(delta)

\* Case 1: the tag is in the text already.
AfterTag(delta) ==
    /\ Reasons(delta)
    /\ PastBoundary
    /\ Emit([reasoning |-> <<>>, content |-> DeltaText(delta)])
    /\ Took(delta)
    /\ Latched

\* Case 2: no tag, and none forming.
Defer(delta) ==
    /\ Reasons(delta)
    /\ ~PastBoundary
    /\ ~TagPresentOrForming(text \o DeltaText(delta))
    /\ Emit(Upstream(delta))
    /\ Took(delta)
    /\ Latched

\* Case 3: a tag is there or forming; the partial tag is withheld.
SplitDelta(delta) ==
    /\ Reasons(delta)
    /\ ~PastBoundary
    /\ TagPresentOrForming(text \o DeltaText(delta))
    /\ Emit(StreamDeltas(text, text \o DeltaText(delta)))
    /\ Took(delta)
    /\ Latched

\* Reasoning is over: the tool parser has the delta.
ToToolParser(delta) ==
    /\ orchestrated /\ over
    /\ Arrives(delta)
    /\ content' = content \o DeltaText(delta)
    /\ Took(delta)
    /\ UNCHANGED <<tagSeen, over, pending, reasoning>>

Next ==
    \E delta \in Deltas :
        AfterTag(delta) \/ Defer(delta) \/ SplitDelta(delta) \/ ToToolParser(delta)

Spec == Init /\ [][Next]_vars

-----------------------------------------------------------------------------
(* extract_reasoning, on a whole text.                                     *)

\* (Mutant) the text is only split at </think>.
OneShotUpstream(t) ==
    LET p == Find(t, ThinkClose)
    IN  IF p < 0 THEN [reasoning |-> t, content |-> <<>>]
        ELSE [reasoning |-> Before(t, p), content |-> WithoutClose(From(t, p + Len(ThinkClose)))]

OneShot(t) ==
    LET p == Find(t, ThinkClose)
    IN  IF p >= 0 /\ WithoutClose(From(t, p + Len(ThinkClose))) # <<>>
        THEN [reasoning |-> Before(t, p), content |-> WithoutClose(From(t, p + Len(ThinkClose)))]
        ELSE LET r == IF p >= 0 THEN Before(t, p) ELSE t
                 q == EarliestToolTagPos(r)
             IN  IF q < 0 THEN [reasoning |-> r, content |-> <<>>]
                 ELSE [reasoning |-> Before(r, q), content |-> From(r, q)]

-----------------------------------------------------------------------------
TypeOK ==
    /\ orchestrated \in BOOLEAN /\ closed \in BOOLEAN /\ tagSeen \in BOOLEAN /\ over \in BOOLEAN
    /\ pending \in {<<>>, <<LT>>}
    /\ Len(text) =< MaxText
    /\ tagSeen => over

\* In a clean text "<" and the DSML marker only open tags, there is at most
\* one start tag, and at most one </think>: it comes instead of a tag, or
\* strays behind one when the parser sees every delta.
Clean ==
    LET end == Find(text, ThinkClose)
        markers == Occurrences(<<DSML>>, text)
    IN  /\ \A i \in 1 .. Len(text) - 1 :
             /\ text[i] = LT => text[i + 1] \in {DSML, CLOSE}
             /\ (text[i] = DSML) <=> (text[i + 1] \in {CALLS, FUNCS})
        /\ text # <<>> => text[1] \notin {CALLS, FUNCS}
        /\ Cardinality(markers) =< 1
        /\ Cardinality(Occurrences(ThinkClose, text)) =< 1
        /\ end >= 0 => text[Len(text)] # LT
        /\ end >= 0 /\ markers # {} => EarliestToolTagPos(text) \in 0 .. end - 1 /\ ~orchestrated

Settled == TrailingPartialTagLen(text) = 0 /\ pending = <<>>

\* However a clean text is cut into deltas, the channels end up with the two
\* sides of its first terminator: the tag is whole and at the head of the
\* content, with its "<" put back if that was dropped
\* (dsv4_reasoning_tool_aware.py:15-17, dsv4_dsml_split.py:60-67).
StreamsSplit ==
    Clean /\ Settled =>
        LET p == Find(text, ThinkClose)
            tag == EarliestToolTagPos(text)
            ideal == IF p >= 0 /\ (tag < 0 \/ p < tag)
                     THEN [reasoning |-> Before(text, p),
                           content |-> WithoutClose(From(text, p + Len(ThinkClose)))]
                     ELSE [reasoning |-> Split(text).reasoning,
                           content |-> WithoutClose(Split(text).content)]
        IN  reasoning = ideal.reasoning /\ content = ideal.content

\* Once a start tag has been seen the content holds a whole one, however it
\* was cut and even if its "<" was dropped (dsv4_dsml_split.py:86-91).
MarkerWhole ==
    tagSeen => \E i \in DOMAIN ToolStartTags :
                   Occurrences(ToolStartTags[i], content \o pending) # {}

\* When </think> comes before any start tag, nothing from it on goes to the
\* reasoning channel (dsv4_reasoning_tool_aware.py:15-17).
ReasoningEnds ==
    LET end == Find(text, ThinkClose)
        tag == EarliestToolTagPos(text)
    IN  end >= 0 /\ (tag < 0 \/ end < tag) => Len(reasoning) =< end

\* With one terminator, whole, the streaming parser gives what the one-shot
\* parser gives for the whole text (dsv4_reasoning_tool_aware.py:13-17,
\* "in both extract_reasoning paths").
OneShotAgrees ==
    LET tag == EarliestToolTagPos(text)
    IN  Clean /\ Settled /\ (tag >= 0 => text[tag + 1] = LT /\ Find(text, ThinkClose) < 0) =>
            OneShot(text) = [reasoning |-> reasoning, content |-> content]
=============================================================================
