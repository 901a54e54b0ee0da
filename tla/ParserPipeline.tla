--------------------------- MODULE ParserPipeline ---------------------------
(***************************************************************************)
(* The two parsers on one stream.  In thinking mode the deltas go to the   *)
(* reasoning parser (ReasoningStream) until reasoning is over; the content *)
(* of the delta that ends it is the first the tool parser (ToolStream) is  *)
(* given, and the deltas after it go there alone (src/parsers/             *)
(* dsv4_reasoning_tool_aware.py:188-192, deepseekv32_tool_parser_patched   *)
(* .py:448-455).  Without thinking the tool parser is given all of them.   *)
(***************************************************************************)
EXTENDS ToolStream

CONSTANTS
    Thoughts,  \* tokens of the reasoning before an output
    MaxThink,  \* bound on the tokens of a delta before reasoning is over
    MayCut     \* TRUE when the delta that ends reasoning may be cut in a tag

VARIABLES
    thinking,  \* the mode of this stream
    thoughts,  \* its reasoning, which may end with </think>
    ahead,     \* how many tokens of the reasoning have come
    text, closed, tagSeen, pending, over, reasoning,  \* those of ReasoningStream
    toContent  \* its content

reasoner == <<text, closed, tagSeen, pending, over, reasoning, toContent>>
pipeVars == <<vars, thinking, thoughts, ahead, reasoner>>

R == INSTANCE ReasoningStream WITH
        Tokens <- {LT, DSML, CALLS, FUNCS, CLOSE, WORD},
        MaxText <- 100,
        orchestrated <- thinking,
        content <- toContent

ASSUME ThoughtsAssumption ==
    /\ MaxThink \in Nat \ {0} /\ MayCut \in BOOLEAN
    /\ \A t \in Thoughts : /\ t \in Seq({WORD, R!END}) /\ t # <<>>
                            /\ \A i \in 1 .. Len(t) - 1 : t[i] = WORD

Closes(t) == t # <<>> /\ Last(t) = R!END

\* Thinking goes straight into the tool calls, or is closed.  A start tag
\* that lost more than its "<" does not end it.
Follows(o, t) ==
    /\ o.before = <<>> /\ o.after = <<>>
    /\ Closes(t) \/ Len(o.opener) >= Len(Headless)

Begun ==
    \/ ~thinking' /\ thoughts' = <<>>
    \/ thinking' /\ thoughts' \in {t \in Thoughts : Follows(output', t)}

\* A reasoning parser is made for each request (line 108).
NewReasoner ==
    /\ thinking' \in BOOLEAN
    /\ Begun
    /\ ahead' = 0
    /\ text' = <<>> /\ closed' = FALSE /\ tagSeen' = FALSE /\ pending' = <<>>
    /\ over' = FALSE /\ reasoning' = <<>> /\ toContent' = <<>>

PipeInit ==
    /\ Init
    /\ thinking \in BOOLEAN
    /\ thoughts \in IF thinking THEN {t \in Thoughts : Follows(output, t)} ELSE {<<>>}
    /\ ahead = 0
    /\ R!Init

PipeNewStream == NewStream /\ NewReasoner

\* The filter or the split withholds a piece of the block, behind its opener.
BlockCut ==
    /\ fed' > Len(output.opener)
    /\ pending' # <<>> \/ (~tagSeen' /\ TrailingPartialTagLen(text') > 0)

\* The end tag is taken for a start tag that lost its "<", the opener having
\* lost more.
EndTaken == tagSeen' /\ Len(output.opener) < Len(Headless)

\* A delta of reasoning, or the one that ends it.
Think ==
    /\ phase = "idle" /\ thinking /\ ~over
    /\ \E n \in 1 .. MaxThink :
         LET tokens == thoughts \o TextOf(output)
             delta == SubSeq(tokens, ahead + fed + 1, ahead + fed + n)
             ofThoughts == Min({n, Len(thoughts) - ahead})
         IN  /\ ahead + fed + n =< Len(tokens)
             /\ R!Defer(delta) \/ R!SplitDelta(delta)
             /\ ahead' = ahead + ofThoughts
             /\ fed' = fed + n - ofThoughts
             /\ over' /\ ~MayCut => ~BlockCut /\ ~EndTaken
    /\ IF over' THEN TakeDelta(From(toContent', Len(toContent)))
       ELSE UNCHANGED <<output, previous, phase, parser, parts, content>>
    /\ UNCHANGED thoughts

PipeNext ==
    \/ PipeNewStream
    \/ Think
    \/ /\ (thinking => over) /\ Feed
       /\ UNCHANGED <<thinking, thoughts, ahead, reasoner>>
    \/ /\ ProcessStep \/ EndOfStream
       /\ UNCHANGED <<thinking, thoughts, ahead, reasoner>>

PipeSpec == PipeInit /\ [][PipeNext]_pipeVars

-----------------------------------------------------------------------------
\* The reasoning channel has the words of the thoughts.  A close tag that came
\* in one delta with a start tag is there too (case 3 of the parser).
ReasoningIsThoughts ==
    WithoutClose(reasoning) = IF Closes(thoughts) THEN Front(thoughts) ELSE thoughts

\* At the end of a stream the reasoning channel has had the thoughts and
\* nothing of the output behind them, however the end of one and the start
\* of the other came (dsv4_reasoning_tool_aware.py:15-17).
ThoughtsWhole == phase = "ended" /\ thinking => ReasoningIsThoughts
=============================================================================
