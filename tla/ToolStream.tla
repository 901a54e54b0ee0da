------------------------------ MODULE ToolStream ------------------------------
(***************************************************************************)
(* DeepSeekV32ToolParser (src/parsers/deepseekv32_tool_parser_patched.py): *)
(* tool calls read from the deltas of a stream, and from a whole output.   *)
(*                                                                         *)
(* The loop of _process_streaming_buffer is one action per branch; what it *)
(* returns at the end of a delta is sent to the client.  The text is in    *)
(* the pieces of DsmlSplit, with one piece for a name and one for the      *)
(* attributes of a parameter; the JSON of the arguments is in pieces too.  *)
(***************************************************************************)
EXTENDS DsmlSplit

SLASH == "/"                    \* "</" is two pieces: every tag opens with "<"
INVOKE == "invoke"
INVOKE_END == "invoke>"
PARAM_END == "parameter>"
WS == "whitespace"

CONSTANTS
    Names,         \* pieces: the attributes of an invoke
    StringParams,  \* pieces: the attributes of a parameter, string="true"
    ScalarParams,  \* those the schema makes a scalar or a union
    ObjectParams,  \* those it makes an object or an array
    Wrappers,      \* "arguments" and "input", not in the schema
    Outputs,       \* outputs the model may stream
    MaxDelta       \* bound on the pieces of a delta

Params == StringParams \cup ScalarParams \cup ObjectParams \cup Wrappers

StartToken == <<LT, DSML, CALLS>>
EndToken == <<LT, SLASH, DSML, CALLS>>
Headless == Tail(StartToken)
InvokeMarker == <<LT, DSML, INVOKE>>
InvokeEnd == <<LT, SLASH, DSML, INVOKE_END>>
ParamEnd == <<LT, SLASH, DSML, PARAM_END>>
InvokeStarts == {InvokeMarker \o <<f>> : f \in Names}
ParamStarts == {<<LT, DSML, p>> : p \in Params}

\* An output: text, a tool-calls block whose opener may have lost its head,
\* and text.  Nothing comes before an opener that lost more than its "<":
\* the reasoning parser has it (lines 451-455).
ASSUME OutputAssumption ==
    \A o \in Outputs :
        /\ DOMAIN o = {"before", "opener", "block", "after"}
        /\ \A part \in DOMAIN o : o[part] \in Seq(Range(o[part]))
        /\ IsSuffix(o.opener, StartToken)
        /\ Len(o.opener) < Len(Headless) => o.before = <<>>

ASSUME DeltaAssumption == MaxDelta \in Nat \ {0}

\* The schema says what a parameter is, and wrappers are not in it.
ASSUME ParamsAssumption ==
    /\ StringParams \cap (ScalarParams \cup ObjectParams) = {}
    /\ ScalarParams \cap ObjectParams = {}
    /\ Wrappers \cap (StringParams \cup ScalarParams \cup ObjectParams) = {}

TextOf(o) == o.before \o o.opener \o o.block \o o.after
Intact(o) == o.before \o StartToken \o o.block \o o.after

-----------------------------------------------------------------------------
(* JSON.  A key is the piece of its parameter.                             *)

QUOTE == "quote"
COERCED == "coerced"   \* what follows was converted to the schema's type
OBJECT == "object"     \* the text of a JSON object or array
INNER == "inner"       \* that of an object of schema fields: one, FIELD
FIELD == "field"

Quoted(text) == <<QUOTE>> \o text \o <<QUOTE>>

\* _convert_params_with_schema, for one parameter; an object that does not
\* parse falls back to its text.
Converted(p, text) ==
    CASE p \in ScalarParams -> <<COERCED>> \o text
      [] p \in ObjectParams /\ text = <<OBJECT>> -> text
      [] OTHER -> Quoted(text)

\* _repair_param_dict: a lone wrapper around schema fields is taken off.
Unwrapped(entries) ==
    IF Len(entries) = 1 /\ entries[1].key \in Wrappers /\ entries[1].text = <<INNER>>
    THEN <<[key |-> FIELD, json |-> <<WORD>>]>>
    ELSE [i \in DOMAIN entries |->
            [key |-> entries[i].key, json |-> Converted(entries[i].key, entries[i].text)]]

\* `{` before the first key, `,` before the others (line 352).
Prefix(args, key) == <<IF args = <<>> THEN "{" ELSE ",", key>>

WithEntries(args, entries) ==
    args \o FlattenSeq([i \in DOMAIN entries |->
        Prefix(IF i = 1 THEN args ELSE <<"{">>, entries[i].key) \o entries[i].json])

\* (Mutant) a call without parameters is closed like the others.
CloseBrace(args) == Append(args, "}")

Closed(args) == IF args = <<>> THEN <<"{", "}">> ELSE Append(args, "}")

-----------------------------------------------------------------------------
(* extract_tool_calls, on a whole output.                                  *)

\* The matches of a non-greedy open(.*?)close, from left to right.
FindAll(text, opens, close) ==
    LET from[p \in 0 .. Len(text)] ==
            LET starts == {q \in UNION {Occurrences(o, text) : o \in opens} : q >= p}
                start == Min(starts)
                open == CHOOSE o \in opens : start \in Occurrences(o, text)
                ends == {q \in Occurrences(close, text) : q >= start + Len(open)}
            IN  IF starts = {} \/ ends = {} THEN <<>>
                ELSE <<[open |-> open, body |-> SubSeq(text, start + Len(open) + 1, Min(ends))]>>
                        \o from[Min(ends) + Len(close)]
    IN  from[0]

\* param_dict[key] = text: a key given again keeps its place in the dict.
Assign(dict, entry) ==
    IF \E i \in DOMAIN dict : dict[i].key = entry.key
    THEN [i \in DOMAIN dict |-> IF dict[i].key = entry.key THEN entry ELSE dict[i]]
    ELSE Append(dict, entry)

DictOf(entries) ==
    LET dict[n \in 0 .. Len(entries)] ==
            IF n = 0 THEN <<>> ELSE Assign(dict[n - 1], entries[n])
    IN  dict[Len(entries)]

ParsedParams(body) ==
    LET found == FindAll(body, ParamStarts, ParamEnd)
    IN  DictOf([i \in DOMAIN found |-> [key |-> Last(found[i].open), text |-> found[i].body]])

CallsOf(block) ==
    LET found == FindAll(block, InvokeStarts, InvokeEnd)
    IN  [i \in DOMAIN found |->
           [name |-> Last(found[i].open),
            args |-> Closed(WithEntries(<<>>, Unwrapped(ParsedParams(found[i].body))))]]

\* (Mutant) a headless opener is not repaired.
NotSpliced(text) == text

\* The first headless opener of a text without a whole one gets its "<".
Spliced(text) ==
    LET h == Find(text, Headless)
    IN  IF Find(text, StartToken) < 0 /\ h >= 0 THEN Before(text, h) \o <<LT>> \o From(text, h)
        ELSE text

ExtractToolCalls(text) ==
    LET blocks == FindAll(Spliced(text), {StartToken}, EndToken)
    IN  FlattenSeq([i \in DOMAIN blocks |-> CallsOf(blocks[i].body)])

\* What the one-shot parser makes of an output whose opener is whole.
OneShotCalls == [o \in Outputs |-> ExtractToolCalls(Intact(o))]

-----------------------------------------------------------------------------
VARIABLES
    output,   \* what the model is streaming
    fed,      \* how many pieces of it have come
    previous, \* the parser has been given text of it: previous_text
    phase,    \* "idle" between deltas, "loop" in _process_streaming_buffer
    buffer,   \* _buffer
    inCalls,  \* _in_tool_calls
    calls,    \* the calls sent: names, and the arguments of each so far
    active,   \* _active_tool_index, counted from 1; 0 for None
    param,    \* _active_param_name, _mode and _parts
    parts,    \* content_parts of this delta
    held,     \* _think_pending
    content   \* the content sent

parser == <<buffer, inCalls, calls, active, param, held>>
stream == <<output, fed, previous>>
vars == <<stream, phase, parser, parts, content>>

NoParam == [name |-> "none", mode |-> "none", parts |-> <<>>]

Init ==
    /\ output \in Outputs
    /\ fed = 0
    /\ previous = FALSE
    /\ phase = "idle"
    /\ buffer = <<>>
    /\ inCalls = FALSE
    /\ calls = <<>>
    /\ active = 0
    /\ param = NoParam
    /\ parts = <<>>
    /\ held = <<>>
    /\ content = <<>>

\* The parser is given another stream; its state is as the last one left it.
NewStream ==
    /\ phase = "ended" \/ (phase = "idle" /\ fed > 0)
    /\ output' \in Outputs
    /\ fed' = 0
    /\ previous' = FALSE
    /\ phase' = "idle"
    /\ content' = <<>>
    /\ UNCHANGED <<parser, parts>>

\* (Mutant) the parameter under way is not reset.
KeepsParam == param

ResetParam == NoParam

\* The parser is given a delta; the first of a stream resets everything
\* (lines 644-653).
TakeDelta(delta) ==
    /\ IF previous
       THEN /\ buffer' = buffer \o delta
            /\ UNCHANGED <<inCalls, calls, active, param, held>>
       ELSE /\ buffer' = delta
            /\ inCalls' = FALSE
            /\ calls' = <<>>
            /\ active' = 0
            /\ param' = ResetParam
            /\ held' = <<>>
    /\ previous' = (previous \/ delta # <<>>)
    /\ phase' = "loop"
    /\ parts' = <<>>
    /\ UNCHANGED <<output, content>>

Feed ==
    /\ phase = "idle"
    /\ \E n \in 1 .. MaxDelta :
         /\ fed + n =< Len(TextOf(output))
         /\ fed' = fed + n
         /\ TakeDelta(SubSeq(TextOf(output), fed + 1, fed + n))

-----------------------------------------------------------------------------
(* The loop.  A branch goes on with another round, or returns.             *)

Loop == phase = "loop"
Continue == phase' = "loop" /\ UNCHANGED <<stream, held, content>>

\* What the delta returns: its content, through the filter of close tags.
Return(sent) ==
    /\ phase' = "idle"
    /\ IF sent = <<>> THEN UNCHANGED <<held, content>>
       ELSE LET filtered == FilterThinkClose(held, sent)
            IN  content' = content \o filtered.emit /\ held' = filtered.pending
    /\ UNCHANGED stream

Searching == Loop /\ ~inCalls
StartAt == Find(buffer, StartToken)
MarkerAt == Find(buffer, InvokeMarker)
HeadlessAt == Find(buffer, Headless)

\* Opener truncated: the block opens at its invoke (lines 462-466).
RecoverAtInvoke ==
    /\ Searching /\ StartAt < 0 /\ MarkerAt >= 0
    /\ buffer' = From(buffer, MarkerAt)
    /\ inCalls' = TRUE
    /\ UNCHANGED <<calls, active, param, parts>>
    /\ Continue

\* A headless opener; the end token is none (lines 477-483).
HeadlessOpener ==
    HeadlessAt >= 0 /\ (HeadlessAt > 0 => buffer[HeadlessAt] \notin {LT, SLASH})

RepairHeadless ==
    /\ Searching /\ StartAt < 0 /\ MarkerAt < 0 /\ HeadlessOpener
    /\ buffer' = Before(buffer, HeadlessAt) \o <<LT>> \o From(buffer, HeadlessAt)
    /\ UNCHANGED <<inCalls, calls, active, param, parts>>
    /\ Continue

NoOpener == Searching /\ StartAt < 0 /\ MarkerAt < 0 /\ ~HeadlessOpener

\* (Mutant) the tail of an opener is text like any other.
NoTail == FALSE

\* All of the buffer is the tail of an opener, spaces, and the beginning of
\* an invoke (lines 495-503).
OpenerTail ==
    LET beforeMarker == Before(buffer, Len(buffer) - TrailingPartial(buffer, <<InvokeMarker>>))
        words == SelectSeq(beforeMarker, LAMBDA piece : piece # WS)
    IN  words # <<>> /\ IsPrefix(words, beforeMarker) /\ IsStrictSuffix(words, StartToken)

HoldTail ==
    /\ NoOpener /\ OpenerTail
    /\ UNCHANGED <<buffer, inCalls, calls, active, param, parts>>
    /\ Return(parts)

\* (Mutant) what a tag may begin with is sent.
AllSendable == Len(buffer)

Sendable == Len(buffer) - TrailingPartial(buffer, <<StartToken, Headless, InvokeMarker>>)

SendText ==
    /\ NoOpener /\ ~OpenerTail
    /\ buffer' = From(buffer, Sendable)
    /\ parts' = <<>>
    /\ UNCHANGED <<inCalls, calls, active, param>>
    /\ Return(parts \o Before(buffer, Sendable))

TextBeforeBlock ==
    /\ Searching /\ StartAt > 0
    /\ parts' = parts \o Before(buffer, StartAt)
    /\ buffer' = From(buffer, StartAt)
    /\ UNCHANGED <<inCalls, calls, active, param>>
    /\ Continue

EnterCalls ==
    /\ Searching /\ StartAt = 0
    /\ buffer' = From(buffer, Len(StartToken))
    /\ inCalls' = TRUE
    /\ UNCHANGED <<calls, active, param, parts>>
    /\ Continue

\* Between invokes, or between the parameters of one.
BetweenTags == Loop /\ inCalls /\ param = NoParam
AtSpace == buffer # <<>> /\ Head(buffer) = WS

SkipSpace ==
    /\ BetweenTags /\ AtSpace
    /\ buffer' = Tail(buffer)
    /\ UNCHANGED <<inCalls, calls, active, param, parts>>
    /\ Continue

BetweenInvokes == BetweenTags /\ ~AtSpace /\ active = 0

\* (Mutant) the end token stays in the buffer.
KeepsEndToken ==
    /\ BetweenInvokes
    /\ IsPrefix(EndToken, buffer)
    /\ inCalls' = FALSE
    /\ UNCHANGED <<buffer, calls, active, param, parts>>
    /\ Continue

LeaveCalls ==
    /\ BetweenInvokes
    /\ IsPrefix(EndToken, buffer)
    /\ buffer' = From(buffer, Len(EndToken))
    /\ inCalls' = FALSE
    /\ UNCHANGED <<calls, active, param, parts>>
    /\ Continue

BeginCall ==
    /\ BetweenInvokes
    /\ \E start \in InvokeStarts :
         /\ IsPrefix(start, buffer)
         /\ buffer' = From(buffer, Len(start))
         /\ calls' = Append(calls, [name |-> Last(start), args |-> <<>>])
    /\ active' = Len(calls) + 1
    /\ UNCHANGED <<inCalls, param, parts>>
    /\ Continue

AwaitInvoke ==
    /\ BetweenInvokes
    /\ \A tag \in {EndToken} \cup InvokeStarts : ~IsPrefix(tag, buffer)
    /\ UNCHANGED <<buffer, inCalls, calls, active, param, parts>>
    /\ Return(parts)

InCall == BetweenTags /\ ~AtSpace /\ active # 0
Args == calls[active].args
SetArgs(args) == calls' = [calls EXCEPT ![active].args = args]

\* (Mutant) the call that has ended stays the one under way.
KeepsActive ==
    /\ InCall
    /\ IsPrefix(InvokeEnd, buffer)
    /\ buffer' = From(buffer, Len(InvokeEnd))
    /\ SetArgs(Closed(Args))
    /\ UNCHANGED <<inCalls, active, param, parts>>
    /\ Continue

CloseCall ==
    /\ InCall
    /\ IsPrefix(InvokeEnd, buffer)
    /\ buffer' = From(buffer, Len(InvokeEnd))
    /\ SetArgs(Closed(Args))
    /\ active' = 0
    /\ UNCHANGED <<inCalls, param, parts>>
    /\ Continue

\* How a parameter's value is sent (lines 611-626): a first wrapper and a
\* scalar when complete, a string and an object as they come.
ModeOf(p) ==
    CASE p \in Wrappers /\ Args = <<>> -> "wrapper"
      [] p \in ScalarParams -> "buffered"
      [] p \in ObjectParams -> "raw"
      [] OTHER -> "string"

BeginParam ==
    /\ InCall
    /\ \E start \in ParamStarts :
         LET p == Last(start)
         IN  /\ IsPrefix(start, buffer)
             /\ buffer' = From(buffer, Len(start))
             /\ param' = [name |-> p, mode |-> ModeOf(p), parts |-> <<>>]
             /\ CASE ModeOf(p) = "string" -> SetArgs(Args \o Prefix(Args, p) \o <<QUOTE>>)
                  [] ModeOf(p) = "raw"    -> SetArgs(Args \o Prefix(Args, p))
                  [] OTHER                -> UNCHANGED calls
    /\ UNCHANGED <<inCalls, active, parts>>
    /\ Continue

AwaitParam ==
    /\ InCall
    /\ \A tag \in {InvokeEnd} \cup ParamStarts : ~IsPrefix(tag, buffer)
    /\ UNCHANGED <<buffer, inCalls, calls, active, param, parts>>
    /\ Return(parts)

InParam == Loop /\ inCalls /\ param # NoParam
Whole == param.mode \in {"wrapper", "buffered"}

EndParam ==
    /\ InParam
    /\ Find(buffer, ParamEnd) >= 0
    /\ LET end == Find(buffer, ParamEnd)
           text == Before(buffer, end)
       IN  /\ buffer' = From(buffer, end + Len(ParamEnd))
           /\ IF Whole
              THEN SetArgs(WithEntries(Args,
                       Unwrapped(<<[key |-> param.name, text |-> param.parts \o text]>>)))
              ELSE SetArgs(Args \o text \o IF param.mode = "string" THEN <<QUOTE>> ELSE <<>>)
    /\ param' = NoParam
    /\ UNCHANGED <<inCalls, active, parts>>
    /\ Continue

\* (Mutant) the value is sent to the end of the buffer.
AllOfValue == Len(buffer)

\* A value is taken up to what may begin its end tag (lines 572-589).
SafeLen == Len(buffer) - TrailingPartial(buffer, <<ParamEnd>>)

StreamValue ==
    /\ InParam
    /\ Find(buffer, ParamEnd) < 0
    /\ buffer' = From(buffer, SafeLen)
    /\ IF Whole
       THEN /\ param' = [param EXCEPT !.parts = @ \o Before(buffer, SafeLen)]
            /\ UNCHANGED calls
       ELSE SetArgs(Args \o Before(buffer, SafeLen)) /\ UNCHANGED param
    /\ UNCHANGED <<inCalls, active, parts>>
    /\ Return(parts)

\* The empty delta at the end gives out what is still withheld outside a
\* block (lines 672-681).
EndOfStream ==
    /\ phase = "idle"
    /\ fed = Len(TextOf(output))
    /\ phase' = "ended"
    /\ IF ~inCalls /\ buffer # <<>>
       THEN LET filtered == FilterThinkClose(held, buffer)
            IN  /\ content' = content \o filtered.emit
                /\ held' = filtered.pending
                /\ buffer' = <<>>
       ELSE UNCHANGED <<content, held, buffer>>
    /\ UNCHANGED <<stream, inCalls, calls, active, param, parts>>

ProcessStep ==
    \/ RecoverAtInvoke \/ RepairHeadless \/ HoldTail \/ SendText
    \/ TextBeforeBlock \/ EnterCalls \/ SkipSpace \/ LeaveCalls
    \/ BeginCall \/ AwaitInvoke \/ CloseCall \/ BeginParam \/ AwaitParam
    \/ EndParam \/ StreamValue

Next == NewStream \/ Feed \/ ProcessStep \/ EndOfStream

Spec == Init /\ [][Next]_vars

-----------------------------------------------------------------------------
TypeOK ==
    /\ output \in Outputs
    /\ fed \in 0 .. Len(TextOf(output))
    /\ phase \in {"idle", "loop", "ended"}
    /\ inCalls \in BOOLEAN
    /\ active \in {0, Len(calls)}
    /\ param.mode \in {"none", "wrapper", "buffered", "raw", "string"}
    /\ previous /\ active = 0 => param = NoParam

\* At the end of a stream the calls are those of the one-shot parser for the
\* output with its opener intact, however it was cut and whatever the opener
\* had lost (lines 214-216 and 448-460).
StreamAgrees == phase = "ended" => calls = OneShotCalls[output]

\* The arguments a client has been sent are never taken back: at any time
\* they are a prefix of those of the whole output.
ArgumentsGrow ==
    (phase = "idle" /\ previous) =>
        LET whole == OneShotCalls[output]
        IN  /\ Len(calls) =< Len(whole)
            /\ \A i \in DOMAIN calls :
                 /\ calls[i].name = whole[i].name
                 /\ IsPrefix(calls[i].args, whole[i].args)

\* The one-shot parser reads an output whose opener lost its "<" as if it
\* had not (lines 214-216).
HeadlessSame ==
    fed = 0 /\ Len(output.opener) >= Len(Headless) =>
        ExtractToolCalls(TextOf(output)) = OneShotCalls[output]

Words(text) == SelectSeq(text, LAMBDA piece : piece # WS)

\* The content sent is the text around the block and nothing of its markup:
\* no tail of an opener, no stray close tag (lines 485-494 and 504-506).  Only
\* the recovery of a truncated opener may drop the end of the text before it,
\* what comes of that in one delta with the invoke (lines 462-464).
ContentClean ==
    phase = "ended" =>
        \E k \in 0 .. Len(output.before) :
            /\ output.opener = StartToken => k = Len(output.before)
            /\ Words(content) = Words(WithoutClose(Before(output.before, k) \o output.after))

\* Every round of the loop that goes on is nearer to its end, so that the
\* `while True` of line 444 returns for every delta: a repair adds a piece,
\* leaving a block opens the search for another, and the loop ends all the same.
Rank == Len(buffer) + IF inCalls THEN 0 ELSE IF StartAt >= 0 THEN 1 ELSE 3

LoopEnds == [][Loop /\ phase' = "loop" => Rank' < Rank]_vars
=============================================================================
