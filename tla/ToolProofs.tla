----------------------------- MODULE ToolProofs -----------------------------
(***************************************************************************)
(* Proofs about ToolStream: for any outputs, cut into deltas of any size,  *)
(* the parser's state keeps its shape and the loop over a delta ends.  And *)
(* about the outputs of ToolGrammar: where in their texts the tags are,    *)
(* what the one-shot parser finds between them, and how each branch of the *)
(* streaming parser reads on.                                              *)
(***************************************************************************)
EXTENDS ToolStream, ToolReading, DsmlFacts

\* What texts are made of.
Pieces == {LT, CLOSE, WORD} \cup (UNION {Range(TextOf(o)) : o \in Outputs})

IsSeq(s) == \E S : s \in Seq(S)

\* What a delta can hold, what is kept of it, and the call and the parameter
\* that are under way: while the parser is fed, there is no parameter without
\* a call.
ToolInv ==
    /\ output \in Outputs
    /\ fed \in 0 .. Len(TextOf(output))
    /\ phase \in {"idle", "loop", "ended"}
    /\ inCalls \in BOOLEAN
    /\ buffer \in Seq(Pieces)
    /\ IsSeq(calls)
    /\ active \in {0, Len(calls)}
    /\ param = [name |-> param.name, mode |-> param.mode, parts |-> param.parts]
    /\ param.mode \in {"none", "wrapper", "buffered", "raw", "string"}
    /\ (previous \/ phase = "loop") /\ active = 0 => param = NoParam

-----------------------------------------------------------------------------
LEMMA Tags ==
    /\ StartToken \in Seq({LT, DSML, CALLS}) /\ Len(StartToken) = 3
    /\ EndToken \in Seq({LT, SLASH, DSML, CALLS}) /\ Len(EndToken) = 4
    /\ Headless \in Seq({DSML, CALLS}) /\ Len(Headless) = 2
    /\ Headless[1] = StartToken[2] /\ Headless[2] = StartToken[3] /\ StartToken[1] = LT
    /\ InvokeMarker \in Seq({LT, DSML, INVOKE}) /\ Len(InvokeMarker) = 3
    /\ InvokeEnd \in Seq({LT, SLASH, DSML, INVOKE_END}) /\ Len(InvokeEnd) = 4
    /\ ParamEnd \in Seq({LT, SLASH, DSML, PARAM_END}) /\ Len(ParamEnd) = 4
    /\ \A start \in InvokeStarts : Len(start) = 4
    /\ \A start \in ParamStarts : Len(start) = 3
<1>1. /\ StartToken \in Seq({LT, DSML, CALLS}) /\ Len(StartToken) = 3
      /\ EndToken \in Seq({LT, SLASH, DSML, CALLS}) /\ Len(EndToken) = 4
      /\ InvokeMarker \in Seq({LT, DSML, INVOKE}) /\ Len(InvokeMarker) = 3
      /\ InvokeEnd \in Seq({LT, SLASH, DSML, INVOKE_END}) /\ Len(InvokeEnd) = 4
      /\ ParamEnd \in Seq({LT, SLASH, DSML, PARAM_END}) /\ Len(ParamEnd) = 4
      /\ StartToken[1] = LT /\ StartToken[2] = DSML /\ StartToken[3] = CALLS
  BY DEF StartToken, EndToken, InvokeMarker, InvokeEnd, ParamEnd
<1>2. /\ Headless \in Seq({DSML, CALLS}) /\ Len(Headless) = 2
      /\ Headless[1] = DSML /\ Headless[2] = CALLS
  <2>1. Headless = Tail(<<LT, DSML, CALLS>>)
    BY DEF Headless, StartToken
  <2> DEFINE tag == <<LT, DSML, CALLS>>
  <2>2. tag \in Seq({LT, DSML, CALLS}) /\ Len(tag) = 3 /\ tag[2] = DSML /\ tag[3] = CALLS
        /\ tag # <<>>
    OBVIOUS
  <2> HIDE DEF tag
  <2>3. Tail(tag) = SubSeq(tag, 2, Len(tag))
    BY <2>2, TailIsSubSeq
  <2> DEFINE rest == SubSeq(tag, 2, 3)
  <2>4. rest \in Seq({LT, DSML, CALLS}) /\ Len(rest) = 2 /\ rest[1] = DSML /\ rest[2] = CALLS
    BY <2>2
  <2>5. Headless = rest
    BY <2>1, <2>2, <2>3 DEF tag
  <2> HIDE DEF rest
  <2>6. rest = <<DSML, CALLS>>
    BY <2>4
  <2>7. QED  BY <2>5, <2>6
<1>3. \A start \in InvokeStarts : Len(start) = 4
  <2> SUFFICES ASSUME NEW f \in Names PROVE Len(InvokeMarker \o <<f>>) = 4
    BY DEF InvokeStarts
  <2> DEFINE S == {LT, DSML, INVOKE, f}
  <2>1. <<f>> \in Seq(S) /\ Len(<<f>>) = 1
    OBVIOUS
  <2>2. InvokeMarker \in Seq(S)
    BY DEF InvokeMarker
  <2> HIDE DEF S
  <2>3. Len(InvokeMarker \o <<f>>) = Len(InvokeMarker) + Len(<<f>>)
    BY <2>1, <2>2, ConcatProperties
  <2>4. QED  BY <1>1, <2>1, <2>3
<1>4. \A start \in ParamStarts : Len(start) = 3
  BY DEF ParamStarts
<1>5. QED  BY <1>1, <1>2, <1>3, <1>4

LEMMA OutputText ==
    ASSUME NEW o \in Outputs
    PROVE  TextOf(o) \in Seq(Range(TextOf(o))) /\ TextOf(o) \in Seq(Pieces)
<1> DEFINE S == Range(o.before) \cup Range(o.opener) \cup Range(o.block) \cup Range(o.after)
<1>1. /\ o.before \in Seq(Range(o.before)) /\ o.opener \in Seq(Range(o.opener))
      /\ o.block \in Seq(Range(o.block)) /\ o.after \in Seq(Range(o.after))
  BY OutputAssumption
<1>2. o.before \in Seq(S) /\ o.opener \in Seq(S) /\ o.block \in Seq(S) /\ o.after \in Seq(S)
  BY <1>1
<1> HIDE DEF S
<1>3. TextOf(o) \in Seq(S)
  BY <1>2 DEF TextOf
<1>4. TextOf(o) \in Seq(Range(TextOf(o)))
  BY <1>3 DEF Range
<1>5. Range(TextOf(o)) \subseteq Pieces
  BY DEF Pieces
<1>6. QED  BY <1>4, <1>5

\* The calls stay as many when one of them is given arguments.
LEMMA ArgsSet ==
    ASSUME ToolInv, active # 0, NEW args, SetArgs(args)
    PROVE  IsSeq(calls') /\ Len(calls') = Len(calls)
<1>1. PICK S : calls \in Seq(S)
  BY DEF ToolInv, IsSeq
<1>2. active \in 1 .. Len(calls)
  BY <1>1 DEF ToolInv
<1> DEFINE call == [calls[active] EXCEPT !.args = args]
<1>3. calls' = [calls EXCEPT ![active] = call]
  BY DEF SetArgs
<1> HIDE DEF call
<1>4. calls' \in Seq(S \cup {call}) /\ Len(calls') = Len(calls)
  BY <1>1, <1>2, <1>3
<1>5. QED  BY <1>4 DEF IsSeq

\* Finding the start token where it is.
LEMMA FoundAt ==
    ASSUME NEW S, NEW t \in Seq(S), NEW q \in Nat, q + 3 =< Len(t),
           t[q + 1] = StartToken[1], t[q + 2] = StartToken[2], t[q + 3] = StartToken[3]
    PROVE  Find(t, StartToken) >= 0
<1>1. q \in Occurrences(StartToken, t)
  <2>1. \A i \in 1 .. 3 : t[q + i] = StartToken[i]
    OBVIOUS
  <2>2. QED  BY <2>1, Tags, OccursAt
<1>2. Find(t, StartToken) \in Int
      /\ (Find(t, StartToken) < 0 <=> Occurrences(StartToken, t) = {})
  BY Tags, FindIs
<1>3. QED  BY <1>1, <1>2

-----------------------------------------------------------------------------
(* The state keeps its shape.                                              *)

LEMMA ToolInitInv == Init => ToolInv
<1> SUFFICES ASSUME Init PROVE ToolInv
  OBVIOUS
<1> USE DEF Init
<1>1. Len(TextOf(output)) \in Nat
  BY OutputText
<1>2. <<>> \in Seq(Pieces) /\ IsSeq(<<>>)
  <2>1. <<>> \in Seq(Pieces)
    OBVIOUS
  <2>2. QED  BY <2>1 DEF IsSeq
<1>3. fed \in 0 .. Len(TextOf(output))
  BY <1>1
<1>4. /\ param = [name |-> param.name, mode |-> param.mode, parts |-> param.parts]
      /\ param.mode = "none" /\ param = NoParam
  BY DEF NoParam
<1>5. QED  BY <1>2, <1>3, <1>4 DEF ToolInv

\* A round that leaves the call and the parameter alone.
LEMMA Stays ==
    ASSUME ToolInv, UNCHANGED <<output, fed, previous, calls, active, param>>, phase = "loop",
           phase' \in {"loop", "idle"}, buffer' \in Seq(Pieces), inCalls' \in BOOLEAN
    PROVE  ToolInv'
BY DEF ToolInv, IsSeq

LEMMA SearchInv ==
    ASSUME ToolInv, RecoverAtInvoke \/ RepairHeadless \/ HoldTail \/ SendText \/ TextBeforeBlock
                    \/ EnterCalls
    PROVE  ToolInv'
<1>1. /\ UNCHANGED <<output, fed, previous, calls, active, param>>
      /\ phase = "loop" /\ phase' \in {"loop", "idle"}
  BY DEF RecoverAtInvoke, RepairHeadless, HoldTail, SendText, TextBeforeBlock, EnterCalls,
         Searching, NoOpener, Loop, Continue, Return, stream
<1>2. buffer \in Seq(Pieces) /\ inCalls \in BOOLEAN /\ Len(buffer) \in Nat
  BY DEF ToolInv
<1>3. ASSUME NEW S, NEW tag \in Seq(S)
      PROVE  /\ Find(buffer, tag) \in Int
             /\ Find(buffer, tag) >= 0 => Find(buffer, tag) \in 0 .. Len(buffer)
  BY <1>2, <1>3, FindIs
<1>4. CASE RecoverAtInvoke
  <2>1. MarkerAt \in 0 .. Len(buffer)
    BY <1>3, <1>4, Tags DEF RecoverAtInvoke, MarkerAt
  <2>2. buffer' \in Seq(Pieces)
    BY <1>2, <1>4, <2>1, Slices DEF RecoverAtInvoke
  <2>3. QED  BY <1>1, <1>4, <2>2, Stays DEF RecoverAtInvoke
<1>5. CASE RepairHeadless
  <2>1. HeadlessAt \in 0 .. Len(buffer)
    BY <1>3, <1>5, Tags DEF RepairHeadless, HeadlessOpener, HeadlessAt
  <2>2. Before(buffer, HeadlessAt) \in Seq(Pieces) /\ From(buffer, HeadlessAt) \in Seq(Pieces)
    BY <1>2, <2>1, Slices
  <2>3. <<LT>> \in Seq(Pieces)
    BY DEF Pieces
  <2>4. buffer' \in Seq(Pieces)
    BY <1>5, <2>2, <2>3 DEF RepairHeadless
  <2>5. QED  BY <1>1, <1>2, <1>5, <2>4, Stays DEF RepairHeadless
<1>6. CASE HoldTail
  BY <1>1, <1>2, <1>6, Stays DEF HoldTail
<1>7. CASE SendText
  <2>1. TrailingPartial(buffer, <<StartToken, Headless, InvokeMarker>>) \in 0 .. Len(buffer)
    BY <1>2, PartialBounded
  <2>2. Sendable \in 0 .. Len(buffer)
    BY <1>2, <2>1 DEF Sendable
  <2>3. buffer' \in Seq(Pieces)
    BY <1>2, <1>7, <2>2, Slices DEF SendText
  <2>4. QED  BY <1>1, <1>2, <1>7, <2>3, Stays DEF SendText
<1>8. CASE TextBeforeBlock
  <2>1. StartAt \in 0 .. Len(buffer)
    <3>1. StartAt \in Int /\ (StartAt >= 0 => StartAt \in 0 .. Len(buffer))
      BY <1>3, Tags DEF StartAt
    <3>2. QED  BY <1>8, <3>1 DEF TextBeforeBlock
  <2>2. buffer' \in Seq(Pieces)
    BY <1>2, <1>8, <2>1, Slices DEF TextBeforeBlock
  <2>3. QED  BY <1>1, <1>2, <1>8, <2>2, Stays DEF TextBeforeBlock
<1>9. CASE EnterCalls
  <2>1. buffer' \in Seq(Pieces)
    BY <1>2, <1>9, SliceTyped, Tags DEF EnterCalls
  <2>2. QED  BY <1>1, <1>9, <2>1, Stays DEF EnterCalls
<1>10. QED  BY <1>4, <1>5, <1>6, <1>7, <1>8, <1>9

LEMMA CallsInv ==
    ASSUME ToolInv, SkipSpace \/ LeaveCalls \/ BeginCall \/ AwaitInvoke \/ CloseCall \/ AwaitParam
    PROVE  ToolInv'
<1>1. /\ UNCHANGED <<output, fed, previous, param>>
      /\ phase = "loop" /\ phase' \in {"loop", "idle"} /\ param = NoParam
  BY DEF SkipSpace, LeaveCalls, BeginCall, AwaitInvoke, CloseCall, AwaitParam, BetweenTags,
         BetweenInvokes, InCall, Loop, Continue, Return, stream
<1>2. buffer \in Seq(Pieces) /\ inCalls \in BOOLEAN /\ Len(buffer) \in Nat
  BY DEF ToolInv
<1>3. CASE SkipSpace
  <2>1. buffer' \in Seq(Pieces)
    BY <1>2, <1>3, HeadTailProperties DEF SkipSpace, AtSpace
  <2>2. QED  BY <1>1, <1>2, <1>3, <2>1, Stays DEF SkipSpace
<1>4. CASE LeaveCalls
  <2>1. buffer' \in Seq(Pieces)
    <3>1. Len(EndToken) \in Nat /\ buffer' = From(buffer, Len(EndToken))
      BY <1>4, Tags DEF LeaveCalls
    <3>2. QED  BY <1>2, <3>1, SliceTyped
  <2>2. QED  BY <1>1, <1>4, <2>1, Stays DEF LeaveCalls
<1>5. CASE BeginCall
  <2>1. PICK start \in InvokeStarts :
            /\ buffer' = From(buffer, Len(start))
            /\ calls' = Append(calls, [name |-> Last(start), args |-> <<>>])
    BY <1>5 DEF BeginCall
  <2> DEFINE call == [name |-> Last(start), args |-> <<>>]
  <2>2. PICK S : calls \in Seq(S)
    BY DEF ToolInv, IsSeq
  <2> HIDE DEF call
  <2>3. calls \in Seq(S \cup {call})
    BY <2>2
  <2>4. calls' \in Seq(S \cup {call}) /\ Len(calls') = Len(calls) + 1
    BY <2>1, <2>3 DEF call
  <2>5. buffer' \in Seq(Pieces)
    BY <1>2, <2>1, SliceTyped, Tags
  <2>6. active' = Len(calls') /\ active' # 0 /\ inCalls' = inCalls
    BY <1>5, <2>2, <2>4 DEF BeginCall
  <2>7. IsSeq(calls')
    BY <2>4 DEF IsSeq
  <2>8. QED  BY <1>1, <1>2, <2>5, <2>6, <2>7 DEF ToolInv
<1>6. CASE AwaitInvoke
  BY <1>1, <1>2, <1>6, Stays DEF AwaitInvoke
<1>7. CASE CloseCall
  <2>1. active # 0 /\ SetArgs(Closed(Args)) /\ active' = 0 /\ inCalls' = inCalls
    BY <1>7 DEF CloseCall, InCall
  <2>2. IsSeq(calls')
    BY <2>1, ArgsSet
  <2>3. buffer' \in Seq(Pieces)
    <3>1. Len(InvokeEnd) \in Nat /\ buffer' = From(buffer, Len(InvokeEnd))
      BY <1>7, Tags DEF CloseCall
    <3>2. QED  BY <1>2, <3>1, SliceTyped
  <2>4. QED  BY <1>1, <1>2, <2>1, <2>2, <2>3 DEF ToolInv
<1>8. CASE AwaitParam
  BY <1>1, <1>2, <1>8, Stays DEF AwaitParam
<1>9. QED  BY <1>3, <1>4, <1>5, <1>6, <1>7, <1>8

LEMMA ParamInv ==
    ASSUME ToolInv, BeginParam \/ EndParam \/ StreamValue
    PROVE  ToolInv'
<1>1. /\ UNCHANGED <<output, fed, previous, active, inCalls>>
      /\ phase = "loop" /\ phase' \in {"loop", "idle"}
  BY DEF BeginParam, EndParam, StreamValue, InParam, BetweenTags, InCall, Loop, Continue, Return,
         stream
<1>2. buffer \in Seq(Pieces) /\ Len(buffer) \in Nat
  BY DEF ToolInv
<1>3. active # 0
  BY <1>1 DEF ToolInv, BeginParam, EndParam, StreamValue, InParam, InCall
<1>4. ASSUME NEW args, SetArgs(args) PROVE IsSeq(calls') /\ active' \in {0, Len(calls')}
  <2>1. IsSeq(calls') /\ Len(calls') = Len(calls)
    BY <1>3, <1>4, ArgsSet
  <2>2. QED  BY <1>1, <2>1 DEF ToolInv
<1>5. ASSUME calls' = calls PROVE IsSeq(calls') /\ active' \in {0, Len(calls')}
  BY <1>1, <1>5 DEF ToolInv
<1>6. CASE BeginParam
  <2>1. PICK start \in ParamStarts :
            /\ buffer' = From(buffer, Len(start))
            /\ param' = [name |-> Last(start), mode |-> ModeOf(Last(start)), parts |-> <<>>]
            /\ \/ \E args : SetArgs(args)
               \/ calls' = calls
    BY <1>6 DEF BeginParam
  <2>2. ModeOf(Last(start)) \in {"wrapper", "buffered", "raw", "string"}
    BY DEF ModeOf
  <2>3. buffer' \in Seq(Pieces)
    <3>1. Len(start) \in Nat
      BY Tags
    <3>2. QED  BY <1>2, <2>1, <3>1, SliceTyped
  <2>4. IsSeq(calls') /\ active' \in {0, Len(calls')}
    BY <1>4, <1>5, <2>1
  <2>5. QED  BY <1>1, <1>3, <2>1, <2>2, <2>3, <2>4 DEF ToolInv
<1>7. CASE EndParam
  <2> DEFINE end == Find(buffer, ParamEnd)
  <2>1. end \in 0 .. Len(buffer)
    <3>1. ParamEnd \in Seq({LT, SLASH, DSML, PARAM_END}) /\ Len(ParamEnd) \in Nat
      BY Tags
    <3>2. end \in Int /\ (end >= 0 => end + Len(ParamEnd) \in 0 .. Len(buffer))
      BY <1>2, <3>1, FindIs
    <3>3. end >= 0
      BY <1>7 DEF EndParam
    <3> HIDE DEF end
    <3>4. QED  BY <1>2, <3>1, <3>2, <3>3
  <2>2. end + Len(ParamEnd) \in Nat
    BY <2>1, Tags
  <2>3. buffer' = From(buffer, end + Len(ParamEnd)) /\ param' = NoParam
        /\ \E args : SetArgs(args)
    BY <1>7 DEF EndParam
  <2> HIDE DEF end
  <2>4. buffer' \in Seq(Pieces)
    BY <1>2, <2>2, <2>3, SliceTyped
  <2>5. IsSeq(calls') /\ active' \in {0, Len(calls')}
    BY <1>4, <2>3
  <2>6. /\ param' = [name |-> param'.name, mode |-> param'.mode, parts |-> param'.parts]
        /\ param'.mode = "none"
    BY <2>3 DEF NoParam
  <2>7. QED  BY <1>1, <1>3, <2>4, <2>5, <2>6 DEF ToolInv
<1>8. CASE StreamValue
  <2>1. TrailingPartial(buffer, <<ParamEnd>>) \in 0 .. Len(buffer)
    BY <1>2, PartialBounded
  <2>2. SafeLen \in 0 .. Len(buffer)
    BY <1>2, <2>1 DEF SafeLen
  <2>3. buffer' \in Seq(Pieces)
    BY <1>2, <1>8, <2>2, Slices DEF StreamValue
  <2>4. IsSeq(calls') /\ active' \in {0, Len(calls')}
    BY <1>4, <1>5, <1>8 DEF StreamValue
  <2>5. param' = param \/ \E parts_ : param' = [param EXCEPT !.parts = parts_]
    BY <1>8 DEF StreamValue
  <2>6. /\ param' = [name |-> param'.name, mode |-> param'.mode, parts |-> param'.parts]
        /\ param'.mode = param.mode
    BY <2>5 DEF ToolInv
  <2>7. QED  BY <1>1, <1>3, <2>3, <2>4, <2>6 DEF ToolInv
<1>9. QED  BY <1>6, <1>7, <1>8

\* The first delta of a stream finds a parser without state.
LEMMA TakeDeltaInv ==
    ASSUME ToolInv, NEW delta \in Seq(Pieces), TakeDelta(delta),
           fed' \in 0 .. Len(TextOf(output))
    PROVE  ToolInv'
<1>1. output' = output /\ phase' = "loop"
  BY DEF TakeDelta
<1>2. CASE previous
  <2>1. buffer' = buffer \o delta /\ UNCHANGED <<inCalls, calls, active, param>>
    BY <1>2 DEF TakeDelta
  <2>2. buffer' \in Seq(Pieces)
    <3>1. buffer \in Seq(Pieces)
      BY DEF ToolInv
    <3>2. buffer \o delta \in Seq(Pieces)
      BY <3>1
    <3>3. QED  BY <2>1, <3>2
  <2>3. QED  BY <1>1, <1>2, <2>1, <2>2 DEF ToolInv, IsSeq
<1>3. CASE ~previous
  <2>1. /\ buffer' = delta /\ inCalls' = FALSE /\ calls' = <<>> /\ active' = 0
        /\ param' = NoParam
    BY <1>3 DEF TakeDelta, ResetParam
  <2>2. IsSeq(calls')
    <3>1. <<>> \in Seq(Pieces)
      OBVIOUS
    <3>2. QED  BY <2>1, <3>1 DEF IsSeq
  <2>3. /\ param' = [name |-> param'.name, mode |-> param'.mode, parts |-> param'.parts]
        /\ param'.mode = "none"
    BY <2>1 DEF NoParam
  <2>4. QED  BY <1>1, <2>1, <2>2, <2>3 DEF ToolInv
<1>4. QED  BY <1>2, <1>3

LEMMA FeedInv ==
    ASSUME ToolInv, Feed
    PROVE  ToolInv'
<1>1. PICK n \in 1 .. MaxDelta :
          /\ fed + n =< Len(TextOf(output)) /\ fed' = fed + n
          /\ TakeDelta(SubSeq(TextOf(output), fed + 1, fed + n))
  BY DEF Feed
<1>2. /\ TextOf(output) \in Seq(Pieces) /\ fed \in Nat /\ n \in Nat
      /\ Len(TextOf(output)) \in Nat
  BY OutputText, DeltaAssumption DEF ToolInv
<1>3. SubSeq(TextOf(output), fed + 1, fed + n) \in Seq(Pieces)
  BY <1>1, <1>2
<1>4. fed' \in 0 .. Len(TextOf(output))
  BY <1>1, <1>2
<1>5. QED  BY <1>1, <1>3, <1>4, TakeDeltaInv

LEMMA StreamsInv ==
    ASSUME ToolInv, NewStream \/ EndOfStream
    PROVE  ToolInv'
<1>1. CASE NewStream
  <2>1. Len(TextOf(output')) \in Nat
    BY <1>1, OutputText DEF NewStream
  <2>2. QED  BY <1>1, <2>1 DEF NewStream, parser, ToolInv, IsSeq
<1>2. CASE EndOfStream
  <2>1. UNCHANGED <<output, fed, previous, inCalls, calls, active, param>> /\ phase' = "ended"
        /\ phase = "idle" /\ (buffer' = <<>> \/ buffer' = buffer)
    BY <1>2 DEF EndOfStream, stream
  <2>2. buffer' \in Seq(Pieces)
    <3>1. <<>> \in Seq(Pieces)
      OBVIOUS
    <3>2. QED  BY <2>1, <3>1 DEF ToolInv
  <2>3. QED  BY <2>1, <2>2 DEF ToolInv, IsSeq
<1>3. QED  BY <1>1, <1>2

LEMMA ProcessInv ==
    ASSUME ToolInv, ProcessStep
    PROVE  ToolInv'
BY SearchInv, CallsInv, ParamInv DEF ProcessStep

LEMMA ToolTypes == ToolInv => TypeOK
BY DEF ToolInv, TypeOK

LEMMA NextInv ==
    ASSUME ToolInv, [Next]_vars
    PROVE  ToolInv'
<1>1. CASE Next
  BY <1>1, StreamsInv, FeedInv, ProcessInv DEF Next
<1>2. CASE UNCHANGED vars
  BY <1>2 DEF vars, stream, parser, ToolInv, IsSeq
<1>3. QED  BY <1>1, <1>2

-----------------------------------------------------------------------------
(* Every round is nearer to the end.                                       *)

LEMMA BufferCut ==
    ASSUME ToolInv, NEW n \in Nat, n =< Len(buffer), buffer' = From(buffer, n)
    PROVE  /\ Len(buffer') = Len(buffer) - n /\ Len(buffer) \in Nat
           /\ \A i \in 1 .. Len(buffer) - n : buffer'[i] = buffer[i + n]
<1>1. buffer \in Seq(Pieces) /\ n \in 0 .. Len(buffer) /\ Len(buffer) \in Nat
  BY DEF ToolInv
<1>2. QED  BY <1>1, Slices

LEMMA RankIs ==
    ASSUME ToolInv
    PROVE  /\ Len(buffer) \in Nat
           /\ inCalls => Rank = Len(buffer)
           /\ ~inCalls /\ StartAt >= 0 => Rank = Len(buffer) + 1
           /\ ~inCalls /\ ~(StartAt >= 0) => Rank = Len(buffer) + 3
BY DEF ToolInv, Rank

\* No round adds to the buffer but a repair; nothing that is cut off is empty.
LEMMA Nearer ==
    ASSUME ToolInv, ToolInv', ProcessStep, phase' = "loop"
    PROVE  Rank' < Rank
<1>1. /\ Len(buffer') \in Nat
      /\ inCalls' => Rank' = Len(buffer')
      /\ ~inCalls' /\ StartAt' >= 0 => Rank' = Len(buffer') + 1
      /\ ~inCalls' /\ ~(StartAt' >= 0) => Rank' = Len(buffer') + 3
      /\ inCalls' \in BOOLEAN
  <2> DEFINE n == Len(buffer)
  <2>1. n' \in Nat
    BY DEF ToolInv
  <2>2. Rank' = Len(buffer') + IF inCalls' THEN 0 ELSE IF StartAt' >= 0 THEN 1 ELSE 3
    BY DEF Rank
  <2>3. inCalls' \in BOOLEAN
    BY DEF ToolInv
  <2>4. QED  BY <2>1, <2>2, <2>3
<1>2. buffer \in Seq(Pieces) /\ buffer' \in Seq(Pieces) /\ Len(buffer) \in Nat
  BY DEF ToolInv
<1>3. ASSUME NEW S, NEW tag \in Seq(S)
      PROVE  /\ Find(buffer, tag) \in Int
             /\ Find(buffer, tag) >= 0 => Find(buffer, tag) + Len(tag) \in 0 .. Len(buffer)
             /\ Find(buffer, tag) >= 0 =>
                    \A i \in 1 .. Len(tag) : buffer[Find(buffer, tag) + i] = tag[i]
  <2>1. /\ Find(buffer, tag) \in Int
        /\ Find(buffer, tag) >= 0 => /\ Find(buffer, tag) + Len(tag) \in 0 .. Len(buffer)
                                     /\ Find(buffer, tag) \in Occurrences(tag, buffer)
    BY <1>2, <1>3, FindIs
  <2>2. CASE Find(buffer, tag) >= 0
    <3>1. Find(buffer, tag) \in Nat /\ Find(buffer, tag) + Len(tag) =< Len(buffer)
      BY <2>1, <2>2
    <3>2. QED  BY <1>2, <1>3, <2>1, <2>2, <3>1, OccursAt
  <2>3. QED  BY <2>1, <2>2
<1>4. CASE RecoverAtInvoke
  <2>1. MarkerAt \in Nat /\ MarkerAt =< Len(buffer)
    <3>1. MarkerAt \in Int /\ MarkerAt + 3 \in 0 .. Len(buffer)
      BY <1>3, <1>4, Tags DEF RecoverAtInvoke, MarkerAt
    <3>2. QED  BY <1>2, <1>4, <3>1 DEF RecoverAtInvoke
  <2>2. Len(buffer') = Len(buffer) - MarkerAt
    BY <1>4, <2>1, BufferCut DEF RecoverAtInvoke
  <2>3. Rank = Len(buffer) + 3
    <3>1. ~inCalls /\ ~(StartAt >= 0)
      <4>1. StartAt \in Int
        BY <1>3, Tags DEF StartAt
      <4>2. QED  BY <1>4, <4>1 DEF RecoverAtInvoke, Searching
    <3>2. QED  BY <3>1, RankIs
  <2>4. inCalls'
    BY <1>4 DEF RecoverAtInvoke
  <2>5. QED  BY <1>1, <1>2, <2>1, <2>2, <2>3, <2>4
<1>5. CASE RepairHeadless
  <2> DEFINE h == HeadlessAt
  <2>1. /\ h \in Int /\ h + 2 \in 0 .. Len(buffer) /\ h >= 0
        /\ \A i \in 1 .. 2 : buffer[h + i] = Headless[i]
    BY <1>3, <1>5, Tags, ZenonT(40) DEF RepairHeadless, HeadlessOpener, HeadlessAt
  <2>2. buffer' = (Before(buffer, h) \o <<LT>>) \o From(buffer, h)
    BY <1>5 DEF RepairHeadless
  <2> HIDE DEF h
  <2>3. h \in 0 .. Len(buffer) /\ h + 2 =< Len(buffer)
    BY <1>2, <2>1
  <2>4. /\ Before(buffer, h) \in Seq(Pieces) /\ Len(Before(buffer, h)) = h
        /\ From(buffer, h) \in Seq(Pieces) /\ Len(From(buffer, h)) = Len(buffer) - h
        /\ \A i \in 1 .. Len(buffer) - h : From(buffer, h)[i] = buffer[i + h]
    BY <1>2, <2>3, Slices
  <2>5. <<LT>> \in Seq(Pieces) /\ Len(<<LT>>) = 1 /\ <<LT>>[1] = LT
    BY DEF Pieces
  <2> DEFINE first == Before(buffer, h) \o <<LT>>
             rest == From(buffer, h)
  <2>6. first \in Seq(Pieces) /\ Len(first) = h + 1 /\ first[h + 1] = LT
    <3>1. /\ first \in Seq(Pieces) /\ Len(first) = h + 1
          /\ \A i \in 1 .. 1 : first[h + i] = <<LT>>[i]
      BY <2>4, <2>5, Joined
    <3>2. QED  BY <2>5, <3>1
  <2>7. /\ rest \in Seq(Pieces) /\ Len(rest) = Len(buffer) - h
        /\ rest[1] = DSML /\ rest[2] = CALLS
    <3>1. rest[1] = buffer[1 + h] /\ rest[2] = buffer[2 + h]
      BY <1>2, <2>3, <2>4
    <3>2. Headless[1] = DSML /\ Headless[2] = CALLS
      BY Tags DEF StartToken
    <3>3. buffer[h + 1] = Headless[1] /\ buffer[h + 2] = Headless[2] /\ h + 1 = 1 + h
          /\ h + 2 = 2 + h
      BY <2>1
    <3>4. QED  BY <2>4, <3>1, <3>2, <3>3
  <2>8. buffer' = first \o rest
    BY <2>2
  <2> HIDE DEF first, rest
  <2>9. /\ Len(buffer') = Len(buffer) + 1
        /\ buffer'[h + 1] = LT /\ buffer'[h + 2] = DSML /\ buffer'[h + 3] = CALLS
    <3>1. /\ Len(first \o rest) = Len(first) + Len(rest)
          /\ \A i \in 1 .. Len(first) : (first \o rest)[i] = first[i]
          /\ \A i \in 1 .. Len(rest) : (first \o rest)[Len(first) + i] = rest[i]
      <4>1. first \in Seq(Pieces) /\ rest \in Seq(Pieces)
        BY <2>6, <2>7
      <4>2. QED  BY <4>1, Joined
    <3>2. h + 1 \in 1 .. Len(first) /\ 1 \in 1 .. Len(rest) /\ 2 \in 1 .. Len(rest)
          /\ Len(first) + 1 = h + 2 /\ Len(first) + 2 = h + 3
          /\ Len(first) + Len(rest) = Len(buffer) + 1
      BY <1>2, <2>3, <2>6, <2>7
    <3> DEFINE whole == first \o rest
               m == Len(first)
               n == Len(rest)
    <3>3. /\ Len(whole) = m + n /\ buffer' = whole
          /\ \A i \in 1 .. m : whole[i] = first[i]
          /\ \A i \in 1 .. n : whole[m + i] = rest[i]
          /\ h + 1 \in 1 .. m /\ 1 \in 1 .. n /\ 2 \in 1 .. n
          /\ m + 1 = h + 2 /\ m + 2 = h + 3 /\ m + n = Len(buffer) + 1
      BY <2>8, <3>1, <3>2
    <3> HIDE DEF whole, m, n
    <3>4. whole[h + 1] = first[h + 1] /\ whole[h + 2] = rest[1] /\ whole[h + 3] = rest[2]
      BY <3>3
    <3>5. QED  BY <2>6, <2>7, <3>3, <3>4
  <2>10. StartAt' >= 0
    <3>1. h \in Nat /\ h + 3 =< Len(buffer')
      BY <1>2, <2>3, <2>9
    <3>2. StartToken[1] = LT /\ StartToken[2] = DSML /\ StartToken[3] = CALLS
      BY DEF StartToken
    <3>3. Find(buffer', StartToken) >= 0
      BY <1>2, <2>9, <3>1, <3>2, FoundAt
    <3>4. StartAt' = Find(buffer', StartToken)
      BY DEF StartAt, StartToken
    <3>5. QED  BY <3>3, <3>4
  <2>11. ~inCalls' /\ ~inCalls /\ ~(StartAt >= 0)
    <3>1. StartAt \in Int
      BY <1>3, Tags DEF StartAt
    <3>2. QED  BY <1>5, <3>1 DEF RepairHeadless, Searching
  <2>12. Rank = Len(buffer) + 3
    BY <2>11, RankIs
  <2>13. QED  BY <1>1, <1>2, <2>9, <2>10, <2>11, <2>12
<1>6. CASE HoldTail \/ SendText \/ AwaitInvoke \/ AwaitParam \/ StreamValue
  <2>1. phase' = "idle"
    BY <1>6 DEF HoldTail, SendText, AwaitInvoke, AwaitParam, StreamValue, Return
  <2>2. QED  BY <2>1
<1>7. CASE TextBeforeBlock
  <2> DEFINE p == StartAt
  <2>1. /\ p \in Int /\ p > 0 /\ p + 3 \in 0 .. Len(buffer)
        /\ \A i \in 1 .. 3 : buffer[p + i] = StartToken[i]
    <3>1. p \in Int /\ p > 0
      BY <1>3, <1>7, Tags DEF TextBeforeBlock, StartAt
    <3>2. p >= 0
      BY <3>1
    <3>3. QED  BY <1>3, <3>1, <3>2, Tags DEF StartAt
  <2>2. buffer' = From(buffer, p) /\ ~inCalls /\ ~inCalls'
    BY <1>7 DEF TextBeforeBlock, Searching
  <2>3. Rank = Len(buffer) + 1
    <3>1. StartAt >= 0
      BY <2>1
    <3>2. QED  BY <2>2, <3>1, RankIs
  <2> HIDE DEF p
  <2>4. p \in Nat /\ p + 3 =< Len(buffer)
    BY <1>2, <2>1
  <2>5. /\ Len(buffer') = Len(buffer) - p
        /\ \A i \in 1 .. Len(buffer) - p : buffer'[i] = buffer[i + p]
    <3>1. p =< Len(buffer)
      BY <1>2, <2>4
    <3>2. QED  BY <2>2, <2>4, <3>1, BufferCut
  <2>6. \A i \in 1 .. 3 : buffer'[i] = StartToken[i]
    <3> TAKE i \in 1 .. 3
    <3>1. i \in 1 .. Len(buffer) - p /\ i + p = p + i
      BY <1>2, <2>4
    <3>2. QED  BY <2>1, <2>5, <3>1
  <2>7. StartAt' >= 0
    <3>1. buffer'[0 + 1] = StartToken[1] /\ buffer'[0 + 2] = StartToken[2]
          /\ buffer'[0 + 3] = StartToken[3] /\ 0 + 3 =< Len(buffer')
      BY <1>2, <2>4, <2>5, <2>6
    <3>2. Find(buffer', StartToken) >= 0
      BY <1>2, <3>1, FoundAt
    <3>3. StartAt' = Find(buffer', StartToken)
      BY DEF StartAt, StartToken
    <3>4. QED  BY <3>2, <3>3
  <2>8. QED  BY <1>1, <1>2, <2>1, <2>2, <2>3, <2>5, <2>7
<1>8. CASE EnterCalls
  <2>1. StartAt = 0 /\ ~inCalls /\ inCalls' /\ buffer' = From(buffer, 3)
    BY <1>8, Tags DEF EnterCalls, Searching
  <2>2. 3 =< Len(buffer)
    <3>1. Find(buffer, StartToken) = 0 /\ Find(buffer, StartToken) >= 0
      BY <2>1 DEF StartAt
    <3>2. Find(buffer, StartToken) + 3 \in 0 .. Len(buffer)
      BY <1>3, <3>1, Tags
    <3>3. QED  BY <1>2, <3>1, <3>2
  <2>3. Len(buffer') = Len(buffer) - 3
    BY <2>1, <2>2, BufferCut
  <2>4. Rank = Len(buffer) + 1
    BY <2>1, RankIs
  <2>5. QED  BY <1>1, <1>2, <2>1, <2>3, <2>4
<1>9. CASE SkipSpace
  <2>1. buffer # <<>> /\ buffer' = Tail(buffer) /\ inCalls /\ inCalls'
    BY <1>9 DEF SkipSpace, AtSpace, BetweenTags
  <2>2. Len(buffer') = Len(buffer) - 1
    BY <1>2, <2>1
  <2>3. Rank = Len(buffer)
    BY <2>1, RankIs
  <2>4. QED  BY <1>1, <1>2, <2>1, <2>2, <2>3
<1>10. CASE LeaveCalls
  <2>1. IsPrefix(EndToken, buffer) /\ buffer' = From(buffer, 4) /\ inCalls
    BY <1>10, Tags DEF LeaveCalls, BetweenInvokes, BetweenTags
  <2>2. 4 =< Len(buffer)
    BY <2>1, PrefixShorter, Tags
  <2>3. Len(buffer') = Len(buffer) - 4
    BY <2>1, <2>2, BufferCut
  <2>4. Rank = Len(buffer)
    BY <2>1, RankIs
  <2>5. QED  BY <1>1, <1>2, <2>3, <2>4
<1>11. CASE BeginCall
  <2>1. PICK start \in InvokeStarts : IsPrefix(start, buffer) /\ buffer' = From(buffer, Len(start))
    BY <1>11 DEF BeginCall
  <2>2. Len(start) = 4 /\ 4 =< Len(buffer)
    BY <2>1, PrefixShorter, Tags
  <2>3. Len(buffer') = Len(buffer) - 4
    BY <2>1, <2>2, BufferCut
  <2>4. inCalls /\ inCalls'
    BY <1>11 DEF BeginCall, BetweenInvokes, BetweenTags
  <2>5. Rank = Len(buffer)
    BY <2>4, RankIs
  <2>6. QED  BY <1>1, <1>2, <2>3, <2>4, <2>5
<1>12. CASE CloseCall
  <2>1. IsPrefix(InvokeEnd, buffer) /\ buffer' = From(buffer, 4) /\ inCalls /\ inCalls'
    BY <1>12, Tags DEF CloseCall, InCall, BetweenTags
  <2>2. 4 =< Len(buffer)
    BY <2>1, PrefixShorter, Tags
  <2>3. Len(buffer') = Len(buffer) - 4
    BY <2>1, <2>2, BufferCut
  <2>4. Rank = Len(buffer)
    BY <2>1, RankIs
  <2>5. QED  BY <1>1, <1>2, <2>1, <2>3, <2>4
<1>13. CASE BeginParam
  <2>1. PICK start \in ParamStarts : IsPrefix(start, buffer) /\ buffer' = From(buffer, Len(start))
    BY <1>13 DEF BeginParam
  <2>2. Len(start) = 3 /\ 3 =< Len(buffer)
    BY <2>1, PrefixShorter, Tags
  <2>3. Len(buffer') = Len(buffer) - 3
    BY <2>1, <2>2, BufferCut
  <2>4. inCalls /\ inCalls'
    BY <1>13 DEF BeginParam, InCall, BetweenTags
  <2>5. Rank = Len(buffer)
    BY <2>4, RankIs
  <2>6. QED  BY <1>1, <1>2, <2>3, <2>4, <2>5
<1>14. CASE EndParam
  <2> DEFINE end == Find(buffer, ParamEnd)
  <2>1. end >= 0 /\ buffer' = From(buffer, end + 4) /\ inCalls /\ inCalls'
    BY <1>14, Tags DEF EndParam, InParam
  <2>2. end \in Int /\ end + 4 \in 0 .. Len(buffer)
    BY <1>3, <2>1, Tags
  <2> HIDE DEF end
  <2>3. end + 4 \in Nat /\ end + 4 =< Len(buffer) /\ end \in Nat
    BY <1>2, <2>1, <2>2
  <2>4. Len(buffer') = Len(buffer) - (end + 4)
    BY <2>1, <2>3, BufferCut
  <2>5. Rank = Len(buffer)
    BY <2>1, RankIs
  <2>6. QED  BY <1>1, <1>2, <2>1, <2>3, <2>4, <2>5
<1>15. QED  BY <1>4, <1>5, <1>6, <1>7, <1>8, <1>9, <1>10, <1>11, <1>12, <1>13, <1>14
            DEF ProcessStep

\* Only a round of the loop is a step from "loop".
LEMMA RoundsOnly ==
    ASSUME Next, phase = "loop"
    PROVE  ProcessStep
BY DEF Next, NewStream, Feed, EndOfStream

-----------------------------------------------------------------------------
(* The theorems.                                                           *)

\* The parser's state keeps its shape for any outputs and deltas of any size:
\* outside the loop there is no parameter without a call, and the call that
\* is under way is the last one (lines 443-460 and 644-653).
THEOREM ToolTypeCorrect == Spec => []TypeOK
<1>1. Init => ToolInv
  BY ToolInitInv
<1>2. ToolInv /\ [Next]_vars => ToolInv'
  BY NextInv
<1>3. ToolInv => TypeOK
  BY ToolTypes
<1>4. QED  BY <1>1, <1>2, <1>3, PTL DEF Spec

\* The `while True` of line 444 returns for every delta of every output, well
\* formed or not: each round that goes on brings it nearer to its end.
THEOREM ToolLoopEnds == Spec => LoopEnds
<1>1. ToolInv /\ [Next]_vars => ToolInv'
  BY NextInv
<1>2. ToolInv /\ ToolInv' /\ [Next]_vars => [Loop /\ phase' = "loop" => Rank' < Rank]_vars
  BY RoundsOnly, Nearer DEF Loop
<1>3. QED  BY <1>1, <1>2, ToolInitInv, PTL DEF Spec, LoopEnds

-----------------------------------------------------------------------------
(* What FindAll finds.                                                     *)

StartsFrom(txt, opens, p) == {q \in UNION {Occurrences(o, txt) : o \in opens} : q >= p}
OpenAt(txt, opens, p) == CHOOSE o \in opens : Min(StartsFrom(txt, opens, p)) \in Occurrences(o, txt)
EndsFrom(txt, opens, close, p) ==
    {q \in Occurrences(close, txt) :
        q >= Min(StartsFrom(txt, opens, p)) + Len(OpenAt(txt, opens, p))}

\* What is found from p on, when f says what is found behind.
Found(txt, opens, close, f, p) ==
    IF StartsFrom(txt, opens, p) = {} \/ EndsFrom(txt, opens, close, p) = {} THEN <<>>
    ELSE <<[open |-> OpenAt(txt, opens, p),
            body |-> SubSeq(txt, Min(StartsFrom(txt, opens, p)) + Len(OpenAt(txt, opens, p)) + 1,
                            Min(EndsFrom(txt, opens, close, p)))]>>
            \o f[Min(EndsFrom(txt, opens, close, p)) + Len(close)]

Matches(txt, opens, close) ==
    CHOOSE f : f = [p \in 0 .. Len(txt) |-> Found(txt, opens, close, f, p)]

\* FindAll is the search from the first piece on.
LEMMA FindAllMatches ==
    ASSUME NEW txt, NEW opens, NEW close
    PROVE  FindAll(txt, opens, close) = Matches(txt, opens, close)[0]
BY Zenon DEF FindAll, Matches, Found, StartsFrom, OpenAt, EndsFrom

\* The search goes on behind what it found.
LEMMA FurtherOn ==
    ASSUME NEW S, NEW txt \in Seq(S), NEW T, NEW close \in Seq(T), Len(close) > 0,
           NEW opens, \A o \in opens : Len(o) \in Nat, NEW p \in 0 .. Len(txt),
           StartsFrom(txt, opens, p) # {}, EndsFrom(txt, opens, close, p) # {}
    PROVE  Min(EndsFrom(txt, opens, close, p)) + Len(close) \in p + 1 .. Len(txt)
<1> DEFINE starts == StartsFrom(txt, opens, p)
           ends == EndsFrom(txt, opens, close, p)
           open == OpenAt(txt, opens, p)
<1>1. \A q \in starts : q \in Nat /\ q >= p /\ \E o \in opens : q \in Occurrences(o, txt)
  <2> SUFFICES ASSUME NEW q \in starts
               PROVE  q \in Nat /\ q >= p /\ \E o \in opens : q \in Occurrences(o, txt)
    OBVIOUS
  <2>1. q >= p /\ q \in UNION {Occurrences(o, txt) : o \in opens}
    BY DEF StartsFrom
  <2>2. PICK o \in opens : q \in Occurrences(o, txt)
    BY <2>1
  <2>3. q \in 0 .. Len(txt) - Len(o)
    BY <2>2 DEF Occurrences
  <2>4. QED  BY <2>1, <2>2, <2>3
<1>2. Min(starts) \in starts
  <2>1. starts \subseteq Nat
    BY <1>1
  <2> HIDE DEF starts
  <2>2. QED  BY <2>1, MinIs DEF starts
<1>3. open \in opens
  <2>1. \E o \in opens : Min(starts) \in Occurrences(o, txt)
    BY <1>1, <1>2
  <2>2. QED  BY <2>1 DEF OpenAt
<1>4. \A q \in ends : /\ q \in Occurrences(close, txt) /\ q >= Min(starts) + Len(open)
                      /\ q \in Nat /\ q + Len(close) =< Len(txt)
  <2>1. \A q \in ends : q \in Occurrences(close, txt) /\ q >= Min(starts) + Len(open)
    BY DEF EndsFrom
  <2>2. \A q \in Occurrences(close, txt) : q \in Nat /\ q + Len(close) =< Len(txt)
    BY OccursPieces
  <2>3. QED  BY <2>1, <2>2
<1>5. Min(ends) \in ends
  <2>1. ends \subseteq Nat
    BY <1>4
  <2> HIDE DEF ends
  <2>2. QED  BY <2>1, MinIs DEF ends
<1>6. Len(close) \in Nat /\ Len(txt) \in Nat /\ Len(open) \in Nat /\ p \in Nat
      /\ Min(starts) \in Nat /\ Min(starts) >= p
  BY <1>1, <1>2, <1>3
<1> HIDE DEF starts, ends, open
<1>7. Min(ends) \in Nat /\ Min(ends) >= Min(starts) + Len(open) /\ Min(ends) + Len(close) =< Len(txt)
  BY <1>4, <1>5
<1>8. Min(ends) + Len(close) \in p + 1 .. Len(txt)
  BY <1>6, <1>7
<1>9. QED  BY <1>8 DEF ends

\* There is such a function: what is found from the end of the txt on, and
\* from one position after another before it.
LEMMA MatchesFrom ==
    ASSUME NEW S, NEW txt \in Seq(S), NEW T, NEW close \in Seq(T), Len(close) > 0,
           NEW opens, \A o \in opens : Len(o) \in Nat, NEW p \in 0 .. Len(txt)
    PROVE  Matches(txt, opens, close)[p]
             = Found(txt, opens, close, Matches(txt, opens, close), p)
<1> DEFINE n == Len(txt)
           Is(f, m) == f = [q \in n - m .. n |-> Found(txt, opens, close, f, q)]
           Defined == {m \in Nat : \E f : Is(f, m)}
<1>1. n \in Nat
  OBVIOUS
<1>2. ASSUME NEW q \in 0 .. n, NEW f, NEW g, \A r \in q + 1 .. n : f[r] = g[r]
      PROVE  Found(txt, opens, close, f, q) = Found(txt, opens, close, g, q)
  <2>1. CASE StartsFrom(txt, opens, q) = {} \/ EndsFrom(txt, opens, close, q) = {}
    BY <2>1 DEF Found
  <2>2. CASE ~(StartsFrom(txt, opens, q) = {} \/ EndsFrom(txt, opens, close, q) = {})
    <3>1. Min(EndsFrom(txt, opens, close, q)) + Len(close) \in q + 1 .. n
      BY <2>2, FurtherOn
    <3>2. f[Min(EndsFrom(txt, opens, close, q)) + Len(close)]
            = g[Min(EndsFrom(txt, opens, close, q)) + Len(close)]
      BY <1>2, <3>1
    <3>3. QED  BY <2>2, <3>2, Zenon DEF Found
  <2>3. QED  BY <2>1, <2>2
<1>3. 0 \in Defined
  <2> DEFINE e == [q \in n .. n |-> <<>>]
             f == [q \in n .. n |-> Found(txt, opens, close, e, q)]
             h == [q \in n - 0 .. n |-> Found(txt, opens, close, f, q)]
  <2>1. \A q \in n .. n : Found(txt, opens, close, e, q) = Found(txt, opens, close, f, q)
    <3> TAKE q \in n .. n
    <3> HIDE DEF e, f
    <3>1. q \in 0 .. n /\ \A r \in q + 1 .. n : e[r] = f[r]
      BY <1>1
    <3>2. QED  BY <1>2, <3>1
  <2>2. f = h
    BY <1>1, <2>1
  <2>3. Is(f, 0)
    BY <2>2
  <2> HIDE DEF Is, f
  <2>4. QED  BY <2>3
<1>4. ASSUME NEW m \in 0 .. n - 1, m \in Defined PROVE m + 1 \in Defined
  <2>1. PICK f : Is(f, m)
    BY <1>4
  <2> DEFINE k == n - (m + 1)
             g == [q \in k .. n |-> IF q = k THEN Found(txt, opens, close, f, q) ELSE f[q]]
             h == [q \in k .. n |-> Found(txt, opens, close, g, q)]
  <2>2. k \in 0 .. n /\ n - m = k + 1
    BY <1>1
  <2>3. \A r \in k + 1 .. n : r \in k .. n /\ r # k /\ r \in n - m .. n /\ r \in 0 .. n
    <3> HIDE DEF k, n
    <3>1. k \in Nat /\ n \in Nat
      BY <1>1, <2>2
    <3>2. QED  BY <2>2, <3>1
  <2>4. \A r \in k + 1 .. n : f[r] = g[r]
    BY <2>3
  <2>5. ASSUME NEW q \in k .. n PROVE g[q] = h[q]
    <3>1. h[q] = Found(txt, opens, close, g, q)
      BY <2>5
    <3>2. CASE q = k
      <4>1. g[q] = Found(txt, opens, close, f, q)
        BY <2>5, <3>2
      <4> HIDE DEF g, h, k
      <4>2. QED  BY <1>2, <2>2, <2>4, <3>1, <3>2, <4>1
    <3>3. CASE q # k
      <4>1. q \in k + 1 .. n /\ q \in 0 .. n /\ q \in n - m .. n
        <5> HIDE DEF k, n, g, h
        <5>1. k \in Nat /\ n \in Nat
          BY <1>1, <2>2
        <5>2. QED  BY <2>2, <2>5, <3>3, <5>1
      <4>2. g[q] = f[q] /\ f[q] = Found(txt, opens, close, f, q)
        BY <2>1, <2>5, <3>3, <4>1
      <4>3. \A r \in q + 1 .. n : f[r] = g[r]
        <5> HIDE DEF g
        <5>1. \A r \in q + 1 .. n : r \in k + 1 .. n
          BY <1>1, <2>2, <4>1
        <5>2. QED  BY <2>4, <5>1
      <4> HIDE DEF g, h, k
      <4>4. QED  BY <1>2, <3>1, <4>1, <4>2, <4>3
    <3>4. QED  BY <3>2, <3>3
  <2>6. g = h
    BY <2>5
  <2>7. Is(g, m + 1)
    BY <2>6
  <2> HIDE DEF Is, g
  <2>8. QED  BY <2>7
<1>5. n \in Defined
  <2> HIDE DEF Defined
  <2>1. 0 .. n \subseteq Defined
    BY <1>1, <1>3, <1>4, UpToInduction
  <2>2. QED  BY <1>1, <2>1
<1>6. Is(Matches(txt, opens, close), n)
  <2>1. PICK f : f = [q \in n - n .. n |-> Found(txt, opens, close, f, q)]
    BY <1>5
  <2>2. n - n = 0
    BY <1>1
  <2>3. f = [q \in 0 .. Len(txt) |-> Found(txt, opens, close, f, q)]
    BY <2>1, <2>2
  <2>4. Matches(txt, opens, close)
          = [q \in 0 .. Len(txt) |-> Found(txt, opens, close, Matches(txt, opens, close), q)]
    BY <2>3, Zenon DEF Matches
  <2>5. QED  BY <2>2, <2>4
<1>7. n - n = 0
  BY <1>1
<1> DEFINE M == Matches(txt, opens, close)
<1>8. M = [q \in 0 .. n |-> Found(txt, opens, close, M, q)]
  BY <1>6, <1>7
<1> HIDE DEF M
<1>9. M[p] = Found(txt, opens, close, M, p)
  BY <1>8
<1>10. QED  BY <1>9 DEF M

\* Tags of one length that open like the tags of the DSML.
Openers(opens, S, L) ==
    /\ L \in Nat /\ L > 1
    /\ \A o \in opens : o \in Seq(S) /\ Len(o) = L /\ o[1] = LT /\ o[2] = DSML

\* Where one of them begins, there is a marker.
LEMMA StartsMarked ==
    ASSUME NEW S, NEW txt \in Seq(S), NEW L, NEW opens, Openers(opens, S, L),
           NEW p \in 0 .. Len(txt), NEW q \in StartsFrom(txt, opens, p)
    PROVE  /\ q \in Nat /\ q >= p /\ q + L =< Len(txt)
           /\ txt[q + 1] = LT /\ txt[q + 2] = DSML
           /\ \E o \in opens : q \in Occurrences(o, txt)
<1>1. q >= p /\ q \in UNION {Occurrences(o, txt) : o \in opens}
  BY DEF StartsFrom
<1>2. PICK o \in opens : q \in Occurrences(o, txt)
  BY <1>1
<1>3. o \in Seq(S) /\ Len(o) = L /\ o[1] = LT /\ o[2] = DSML /\ L \in Nat /\ L > 1
  BY <1>2 DEF Openers
<1>4. /\ q \in Nat /\ q + Len(o) =< Len(txt)
      /\ \A i \in 1 .. Len(o) : txt[q + i] = o[i]
  BY <1>2, <1>3, OccursPieces
<1>5. 1 \in 1 .. Len(o) /\ 2 \in 1 .. Len(o)
  BY <1>3
<1>6. QED  BY <1>1, <1>2, <1>3, <1>4, <1>5

\* Nothing is found in a rest without markers.
LEMMA NoneFound ==
    ASSUME NEW S, NEW u \in Seq(S), NEW g \in Seq(S), \A i \in 1 .. Len(g) : g[i] # DSML,
           NEW L, NEW opens, Openers(opens, S, L), NEW close \in Seq(S), Len(close) > 0
    PROVE  Matches(u \o g, opens, close)[Len(u)] = <<>>
<1> DEFINE txt == u \o g
           p == Len(u)
<1>1. /\ txt \in Seq(S) /\ Len(txt) = p + Len(g) /\ p \in Nat /\ Len(g) \in Nat
      /\ \A i \in 1 .. Len(g) : txt[p + i] = g[i]
  BY Joined
<1>2. p \in 0 .. Len(txt)
  BY <1>1
<1> HIDE DEF txt, p
<1>3. ASSUME NEW q \in StartsFrom(txt, opens, p) PROVE FALSE
  <2>4. txt \in Seq(S) /\ p \in 0 .. Len(txt) /\ q \in StartsFrom(txt, opens, p)
    BY <1>1, <1>2, <1>3
  <2>1. q \in Nat /\ q >= p /\ q + L =< Len(txt) /\ txt[q + 2] = DSML
    BY <2>4, StartsMarked
  <2>2. L \in Nat /\ L > 1
    BY DEF Openers
  <2> DEFINE i == q + 2 - p
  <2>3. i \in 1 .. Len(g) /\ p + i = q + 2
    BY <1>1, <2>1, <2>2
  <2> HIDE DEF i
  <2>5. QED  BY <1>1, <2>1, <2>3
<1>4. \A o \in opens : Len(o) \in Nat
  BY DEF Openers
<1>5. Matches(txt, opens, close)[p] = Found(txt, opens, close, Matches(txt, opens, close), p)
  BY <1>1, <1>2, <1>4, MatchesFrom, SMTT(40)
<1>6. StartsFrom(txt, opens, p) = {}
  BY <1>3
<1>7. QED  BY <1>5, <1>6 DEF Found, txt, p

\* A match whose tag begins at m, behind what has no marker from p on, and
\* whose end tag begins at e.
MatchAt(S, txt, opens, L, close, p, m, op, e) ==
    /\ txt \in Seq(S) /\ close \in Seq(S) /\ Openers(opens, S, L) /\ op \in opens
    /\ p \in Nat /\ m \in Nat /\ p =< m /\ \A i \in p + 1 .. m : txt[i] # DSML
    /\ m + Len(op) =< Len(txt) /\ \A i \in 1 .. Len(op) : txt[m + i] = op[i]
    /\ Len(close) > 0 /\ e \in Occurrences(close, txt) /\ e >= m + Len(op)
    /\ \A q \in Occurrences(close, txt) : q >= m + Len(op) => q >= e

\* What is found from p on, when a match is there.
LEMMA OneFoundAt ==
    ASSUME NEW S, NEW txt, NEW close, NEW L, NEW opens, NEW op, NEW p, NEW m, NEW e,
           MatchAt(S, txt, opens, L, close, p, m, op, e)
    PROVE  Matches(txt, opens, close)[p]
             = <<[open |-> op, body |-> SubSeq(txt, m + L + 1, e)]>>
               \o Matches(txt, opens, close)[e + Len(close)]
<1> DEFINE starts == StartsFrom(txt, opens, p)
           ends == EndsFrom(txt, opens, close, p)
<1>15. txt \in Seq(S) /\ close \in Seq(S) /\ Openers(opens, S, L) /\ op \in opens
  BY DEF MatchAt
<1>1. /\ op \in Seq(S) /\ Len(op) = L /\ op[1] = LT /\ op[2] = DSML /\ L \in Nat /\ L > 1
      /\ \A o \in opens : o \in Seq(S) /\ Len(o) = L
  BY <1>15 DEF Openers
<1>14. /\ p \in Nat /\ m \in Nat /\ p =< m /\ \A i \in p + 1 .. m : txt[i] # DSML
       /\ m + L =< Len(txt) /\ \A i \in 1 .. L : txt[m + i] = op[i]
       /\ Len(close) > 0 /\ e \in Occurrences(close, txt) /\ e >= m + L
       /\ \A q \in Occurrences(close, txt) : q >= m + L => q >= e
  BY <1>15, <1>1 DEF MatchAt
<1>2. p \in 0 .. Len(txt) /\ Len(txt) \in Nat
  BY <1>15, <1>1, <1>14
<1>3. ASSUME NEW q \in starts PROVE q \in Nat /\ q >= m
  <2>1. txt \in Seq(S) /\ p \in 0 .. Len(txt) /\ q \in StartsFrom(txt, opens, p)
    BY <1>15, <1>2, <1>3
  <2>2. q \in Nat /\ q >= p /\ q + L =< Len(txt) /\ txt[q + 2] = DSML
    BY <1>15, <2>1, StartsMarked
  <2>3. CASE q + 2 = m + 1
    <3>1. txt[m + 1] = LT
      BY <1>15, <1>1, <1>14
    <3>2. QED  BY <1>15, <2>2, <2>3, <3>1 DEF LT, DSML
  <2>4. CASE q + 2 =< m
    <3>1. q + 2 \in p + 1 .. m
      BY <1>15, <1>14, <2>2, <2>4
    <3>2. QED  BY <1>15, <1>14, <2>2, <3>1
  <2>5. QED  BY <1>15, <1>14, <2>2, <2>3, <2>4
<1>4. m \in starts
  <2>1. /\ op \in Seq(S) /\ m \in Nat /\ m + Len(op) =< Len(txt)
        /\ \A i \in 1 .. Len(op) : txt[m + i] = op[i]
    BY <1>15, <1>1, <1>14
  <2>2. m \in Occurrences(op, txt)
    BY <1>15, <2>1, OccursAt
  <2>3. QED  BY <1>15, <1>14, <2>2 DEF StartsFrom
<1>5. Min(starts) = m
  <2>1. starts \subseteq Nat /\ starts # {}
    BY <1>15, <1>3, <1>4
  <2> HIDE DEF starts
  <2>2. Min(starts) \in starts /\ Min(starts) =< m
    BY <1>15, <1>4, <2>1, MinIs
  <2>3. Min(starts) \in Nat /\ Min(starts) >= m
    BY <1>15, <1>3, <2>2 DEF starts
  <2> DEFINE x == Min(starts)
  <2> HIDE DEF x
  <2>4. x \in Nat /\ x >= m /\ x =< m
    BY <1>15, <1>14, <2>2, <2>3 DEF x
  <2>5. x = m
    BY <1>15, <1>14, <2>4
  <2>6. QED  BY <1>15, <2>5 DEF x
<1>6. OpenAt(txt, opens, p) = op
  <2>1. \E o \in opens : m \in Occurrences(o, txt)
    BY <1>15, <1>4 DEF StartsFrom
  <2> DEFINE o == OpenAt(txt, opens, p)
  <2>2. o \in opens /\ m \in Occurrences(o, txt)
    BY <1>15, <1>5, <2>1 DEF OpenAt
  <2> HIDE DEF o
  <2>3. o \in Seq(S) /\ Len(o) = L
    BY <1>15, <1>1, <2>2
  <2>4. \A i \in 1 .. Len(o) : txt[m + i] = o[i]
    BY <1>15, <2>2, <2>3, OccursPieces
  <2>5. Len(o) = Len(op) /\ \A i \in 1 .. Len(o) : o[i] = op[i]
    BY <1>15, <1>1, <1>14, <2>3, <2>4
  <2>6. o = op
    BY <1>15, <1>1, <2>3, <2>5, SameSequence
  <2>7. QED  BY <1>15, <2>6 DEF o
<1>7. \A q \in ends : q \in Nat /\ q >= e
  <2> TAKE q \in ends
  <2>1. q \in Occurrences(close, txt) /\ q >= m + L
    BY <1>15, <1>1, <1>5, <1>6 DEF EndsFrom
  <2>2. q \in Nat
    BY <1>15, <2>1, OccursPieces
  <2>3. QED  BY <1>15, <1>14, <2>1, <2>2
<1>8. e \in ends
  BY <1>15, <1>1, <1>5, <1>6, <1>14 DEF EndsFrom
<1>9. Min(ends) = e
  <2>1. ends \subseteq Nat /\ ends # {}
    BY <1>15, <1>7, <1>8
  <2> HIDE DEF ends
  <2>2. Min(ends) \in ends /\ Min(ends) =< e /\ e \in Nat
    BY <1>15, <1>7, <1>8, <2>1, MinIs
  <2>3. Min(ends) >= e /\ Min(ends) \in Nat
    BY <1>15, <1>7, <2>2
  <2>4. QED  BY <1>15, <2>2, <2>3
<1>10. Matches(txt, opens, close)[p] = Found(txt, opens, close, Matches(txt, opens, close), p)
  <2>1. \A o \in opens : Len(o) \in Nat
    BY <1>15, <1>1
  <2>2. QED  BY <1>15, <1>2, <1>14, <2>1, MatchesFrom
<1>11. starts # {} /\ ends # {}
  BY <1>15, <1>4, <1>8
<1> DEFINE M == Matches(txt, opens, close)
<1>12. Found(txt, opens, close, M, p)
         = <<[open |-> op, body |-> SubSeq(txt, m + L + 1, e)]>> \o M[e + Len(close)]
  <2> HIDE DEF M
  <2>1. Found(txt, opens, close, M, p)
          = <<[open |-> OpenAt(txt, opens, p),
               body |-> SubSeq(txt, Min(starts) + Len(OpenAt(txt, opens, p)) + 1, Min(ends))]>>
            \o M[Min(ends) + Len(close)]
    BY <1>15, <1>11, Zenon DEF Found
  <2>2. Len(op) = L
    BY <1>15, <1>1
  <2> HIDE DEF starts, ends
  <2>3. QED  BY <1>15, <1>5, <1>6, <1>9, <2>1, <2>2
<1>13. QED  BY <1>15, <1>10, <1>12

\* Behind a front of any length, a body is first ended where it ends.
LEMMA BodyEnds ==
    ASSUME NEW S, NEW front \in Seq(S), NEW b \in Seq(S), NEW close \in Seq(S), NEW w \in Seq(S),
           StartsOnce(close), Occurrences(close, b) = {}
    PROVE  LET txt == front \o (b \o (close \o w))
               e == Len(front) + Len(b)
           IN  /\ txt \in Seq(S) /\ e \in Occurrences(close, txt)
               /\ \A q \in Occurrences(close, txt) : q >= Len(front) => q >= e
               /\ SubSeq(txt, Len(front) + 1, e) = b
               /\ Len(txt) - Len(w) = e + Len(close)
<1> DEFINE rest == b \o (close \o w)
           txt == front \o rest
           k == Len(front)
           e == k + Len(b)
<1>1. close \o w \in Seq(S) /\ Len(close \o w) = Len(close) + Len(w)
  BY Joined
<1>2. /\ rest \in Seq(S) /\ Len(rest) = Len(b) + Len(close \o w)
      /\ \A i \in 1 .. Len(b) : rest[i] = b[i]
  BY <1>1, Joined
<1>3. /\ Len(b) \in Occurrences(close, rest)
      /\ \A q \in Occurrences(close, rest) : q >= Len(b)
  BY FoundAtEnd
<1>4. k \in Nat /\ e \in Nat /\ Len(b) \in Nat /\ Len(close) \in Nat /\ Len(w) \in Nat
  OBVIOUS
<1> HIDE DEF rest
<1>5. /\ txt \in Seq(S) /\ Len(txt) = k + Len(rest)
      /\ \A i \in 1 .. Len(rest) : txt[k + i] = rest[i]
  <2>1. rest \in Seq(S)
    BY <1>2
  <2>2. QED  BY <2>1, Joined
<1>6. ASSUME NEW q \in Nat, q >= k
      PROVE  q \in Occurrences(close, txt) <=> q - k \in Occurrences(close, rest)
  <2>1. rest \in Seq(S) /\ q >= Len(front)
    BY <1>2, <1>6
  <2>2. QED  BY <2>1, OccursBehind
<1> HIDE DEF txt, k
<1>7. e \in Occurrences(close, txt)
  <2>1. e >= k /\ e - k = Len(b)
    BY <1>4
  <2>2. QED  BY <1>3, <1>4, <1>6, <2>1
<1>8. ASSUME NEW q \in Occurrences(close, txt), q >= k PROVE q >= e
  <2>1. q \in Nat
    BY <1>5, OccursPieces
  <2>2. q - k >= Len(b)
    BY <1>3, <1>6, <1>8, <2>1
  <2>3. QED  BY <1>4, <2>1, <2>2
<1>9. SubSeq(txt, k + 1, e) = b
  <2> DEFINE s == SubSeq(txt, k + 1, e)
  <2>1. txt \in Seq(S) /\ Len(txt) \in Nat /\ e =< Len(txt) /\ e - k = Len(b)
    BY <1>1, <1>2, <1>4, <1>5
  <2>2. s \in Seq(S) /\ Len(s) = Len(b) /\ \A i \in 1 .. Len(b) : s[i] = txt[k + i]
    <3> HIDE DEF e
    <3>1. Len(b) \in Nat /\ e \in Nat /\ k \in Nat
      BY <1>4
    <3>2. QED  BY <2>1, <3>1
  <2> HIDE DEF s
  <2>3. \A i \in 1 .. Len(s) : s[i] = b[i]
    BY <1>1, <1>2, <1>4, <1>5, <2>2
  <2>4. s = b
    BY <2>2, <2>3, SameSequence
  <2>5. QED  BY <2>4 DEF s
<1>10. Len(txt) - Len(w) = e + Len(close)
  BY <1>1, <1>2, <1>4, <1>5
<1>11. QED  BY <1>5, <1>7, <1>8, <1>9, <1>10 DEF txt, rest, k

\* Behind what has been searched comes a gap without a marker, and a tag.
LEMMA TagBegins ==
    ASSUME NEW S, NEW u \in Seq(S), NEW g \in Seq(S), \A i \in 1 .. Len(g) : g[i] # DSML,
           NEW op \in Seq(S), NEW rest \in Seq(S)
    PROVE  LET txt == ((u \o g) \o op) \o rest
               m == Len(u) + Len(g)
           IN  /\ Len((u \o g) \o op) = m + Len(op) /\ (u \o g) \o op \in Seq(S)
               /\ m + Len(op) =< Len(txt)
               /\ \A i \in Len(u) + 1 .. m : txt[i] # DSML
               /\ \A i \in 1 .. Len(op) : txt[m + i] = op[i]
<1> DEFINE pre == u \o g
           front == pre \o op
           txt == front \o rest
           p == Len(u)
           m == p + Len(g)
<1>1. /\ pre \in Seq(S) /\ Len(pre) = m
      /\ \A i \in 1 .. Len(g) : pre[p + i] = g[i]
  BY Joined
<1>2. p \in Nat /\ Len(g) \in Nat /\ m \in Nat /\ Len(op) \in Nat /\ Len(rest) \in Nat
  OBVIOUS
<1> HIDE DEF pre
<1>3. /\ front \in Seq(S) /\ Len(front) = Len(pre) + Len(op)
      /\ \A i \in 1 .. Len(pre) : front[i] = pre[i]
      /\ \A i \in 1 .. Len(op) : front[Len(pre) + i] = op[i]
  <2>1. pre \in Seq(S)
    BY <1>1
  <2>2. QED  BY <2>1, Joined
<1> HIDE DEF front
<1>4. /\ Len(txt) = Len(front) + Len(rest)
      /\ \A i \in 1 .. Len(front) : txt[i] = front[i]
  <2>1. front \in Seq(S)
    BY <1>3
  <2>2. QED  BY <2>1, Joined
<1> HIDE DEF txt, p, m
<1>5. \A i \in p + 1 .. m : txt[i] # DSML
  <2> TAKE i \in p + 1 .. m
  <2> DEFINE j == i - p
  <2>1. j \in 1 .. Len(g) /\ p + j = i /\ i \in 1 .. m /\ i \in 1 .. Len(front)
    BY <1>1, <1>2, <1>3 DEF m
  <2> HIDE DEF j
  <2>2. txt[i] = g[j]
    BY <1>1, <1>3, <1>4, <2>1
  <2>3. QED  BY <2>1, <2>2
<1>6. \A i \in 1 .. Len(op) : txt[m + i] = op[i]
  <2> TAKE i \in 1 .. Len(op)
  <2>1. m + i \in 1 .. Len(front)
    BY <1>1, <1>2, <1>3
  <2>2. QED  BY <1>1, <1>3, <1>4, <2>1
<1>7. m + Len(op) =< Len(txt) /\ Len(front) = m + Len(op)
  BY <1>1, <1>2, <1>3, <1>4
<1>8. QED  BY <1>3, <1>5, <1>6, <1>7 DEF txt, front, pre, p, m

\* A match that may stand somewhere: a gap without a marker, a tag that opens,
\* and a body that does not hold the end tag.
AMatch(S, opens, L, close, g, op, b) ==
    /\ Openers(opens, S, L) /\ close \in Seq(S) /\ StartsOnce(close)
    /\ g \in Seq(S) /\ \A i \in 1 .. Len(g) : g[i] # DSML
    /\ op \in opens /\ b \in Seq(S) /\ Occurrences(close, b) = {}

\* It stands behind u, and w behind it.
Match(op, b) == <<[open |-> op, body |-> b]>>
GapThen(g, op, b, close, w) == g \o (op \o (b \o (close \o w)))
Passed(u, g, op, b, close) == ((u \o g) \o op) \o (b \o close)
Laid(u, g, op, b, close, w) == ((u \o g) \o op) \o (b \o (close \o w))

AMatchIn(S, opens, L, close, g, op, b, u, w) ==
    AMatch(S, opens, L, close, g, op, b) /\ u \in Seq(S) /\ w \in Seq(S)

\* One match is found at the gap before it, and the search goes on behind it.
LEMMA OneFound ==
    ASSUME NEW S, NEW opens, NEW L, NEW close, NEW g, NEW op, NEW b, NEW u, NEW w,
           AMatchIn(S, opens, L, close, g, op, b, u, w)
    PROVE  LET txt == Laid(u, g, op, b, close, w)
           IN  Matches(txt, opens, close)[Len(u)]
                 = Match(op, b)
                   \o Matches(txt, opens, close)[Len(txt) - Len(w)]
<1> DEFINE txt == Laid(u, g, op, b, close, w)
           p == Len(u)
           m == p + Len(g)
           front == (u \o g) \o op
           rest == b \o (close \o w)
           e == m + L + Len(b)
<1>0. /\ Openers(opens, S, L) /\ close \in Seq(S) /\ StartsOnce(close)
      /\ g \in Seq(S) /\ \A i \in 1 .. Len(g) : g[i] # DSML
      /\ op \in opens /\ b \in Seq(S) /\ Occurrences(close, b) = {}
      /\ u \in Seq(S) /\ w \in Seq(S)
  BY DEF AMatch, AMatchIn
<1>1. op \in Seq(S) /\ Len(op) = L /\ L \in Nat
  BY <1>0 DEF Openers
<1>2. Len(close) > 0
  BY <1>0 DEF StartsOnce
<1>3. rest \in Seq(S)
  BY <1>0
<1> HIDE DEF rest
<1>4. /\ Len(front) = m + L /\ front \in Seq(S)
      /\ m + L =< Len(front \o rest)
      /\ \A i \in p + 1 .. m : (front \o rest)[i] # DSML
      /\ \A i \in 1 .. L : (front \o rest)[m + i] = op[i]
  <2>1. op \in Seq(S) /\ rest \in Seq(S)
    BY <1>0, <1>1, <1>3
  <2>2. /\ Len(front) = m + Len(op) /\ front \in Seq(S)
        /\ m + Len(op) =< Len(front \o rest)
        /\ \A i \in p + 1 .. m : (front \o rest)[i] # DSML
        /\ \A i \in 1 .. Len(op) : (front \o rest)[m + i] = op[i]
    BY <1>0, <2>1, TagBegins
  <2> HIDE DEF front, m, p
  <2>3. QED  BY <1>0, <1>1, <2>2
<1>5. txt = front \o rest
  BY DEF rest, Laid
<1> HIDE DEF front, txt
<1>6. /\ txt \in Seq(S) /\ Len(front) + Len(b) \in Occurrences(close, txt)
      /\ \A q \in Occurrences(close, txt) : q >= Len(front) => q >= Len(front) + Len(b)
      /\ SubSeq(txt, Len(front) + 1, Len(front) + Len(b)) = b
      /\ Len(txt) - Len(w) = Len(front) + Len(b) + Len(close)
  <2>1. front \in Seq(S)
    BY <1>0, <1>4
  <2>2. QED  BY <1>0, <1>5, <2>1, BodyEnds DEF rest
<1>7. /\ txt \in Seq(S) /\ e \in Occurrences(close, txt)
      /\ \A q \in Occurrences(close, txt) : q >= m + L => q >= e
      /\ SubSeq(txt, m + L + 1, e) = b
      /\ Len(txt) - Len(w) = e + Len(close)
  BY <1>0, <1>4, <1>6
<1>8. /\ m + L =< Len(txt) /\ \A i \in p + 1 .. m : txt[i] # DSML
      /\ \A i \in 1 .. L : txt[m + i] = op[i]
  BY <1>0, <1>4, <1>5
<1>9. p \in Nat /\ m \in Nat /\ p =< m /\ e >= m + L
  BY <1>0, <1>1
<1> HIDE DEF p, m, e
<1>10. Matches(txt, opens, close)[p]
         = <<[open |-> op, body |-> SubSeq(txt, m + L + 1, e)]>>
           \o Matches(txt, opens, close)[e + Len(close)]
  <2>1. MatchAt(S, txt, opens, L, close, p, m, op, e)
    BY <1>0, <1>1, <1>2, <1>7, <1>8, <1>9 DEF MatchAt
  <2>2. QED  BY <1>0, <2>1, OneFoundAt, SMTT(30)
<1>11. QED  BY <1>0, <1>7, <1>10 DEF p, txt, Match

Joined6(T, u, g, op, b, c, w) ==
    /\ Joinable(T)
    /\ u \in T /\ g \in T /\ op \in T /\ b \in T /\ c \in T /\ w \in T

\* The parts of a txt with a match in it, however they are grouped.
LEMMA Regrouped ==
    ASSUME NEW T, NEW u, NEW g, NEW op, NEW b, NEW c, NEW w, Joined6(T, u, g, op, b, c, w)
    PROVE  /\ u \o GapThen(g, op, b, c, w) = Laid(u, g, op, b, c, w)
           /\ Laid(u, g, op, b, c, w) = Passed(u, g, op, b, c) \o w
           /\ Passed(u, g, op, b, c) \in T
           /\ GapThen(g, op, b, c, w) \in T
<1>0. /\ Joinable(T)
      /\ u \in T /\ g \in T /\ op \in T /\ b \in T /\ c \in T /\ w \in T
  BY DEF Joined6
<1> DEFINE tail == c \o w
           r == b \o tail
           next == op \o r
           pre == u \o g
           front == pre \o op
           last == b \o c
<1>1. tail \in T /\ r = last \o w /\ last \in T
  <2>1. Joined3(T, b, c, w)
    BY <1>0 DEF Joined3
  <2>2. QED  BY <2>1, JoinsThree
<1>2. r \in T
  <2> HIDE DEF tail
  <2>1. QED  BY <1>0, <1>1, Zenon DEF Joinable
<1>3. next \in T /\ pre \in T
  <2> HIDE DEF r
  <2>1. QED  BY <1>0, <1>2, Zenon DEF Joinable
<1>4. g \o next \in T /\ u \o (g \o next) = pre \o next
  <2> HIDE DEF next
  <2>1. Joined3(T, u, g, next)
    BY <1>0, <1>3 DEF Joined3
  <2>2. QED  BY <2>1, JoinsThree
<1>5. pre \o next = front \o r /\ front \in T
  <2> HIDE DEF pre, r
  <2>1. Joined3(T, pre, op, r)
    BY <1>0, <1>2, <1>3 DEF Joined3
  <2>2. QED  BY <2>1, JoinsThree
<1>6. front \o (last \o w) = (front \o last) \o w /\ front \o last \in T
  <2> HIDE DEF front, last
  <2>1. Joined3(T, front, last, w)
    BY <1>0, <1>1, <1>5 DEF Joined3
  <2>2. QED  BY <2>1, JoinsThree
<1> HIDE DEF tail, r, next, pre, front, last
<1>7. u \o (g \o next) = front \o r
  BY <1>4, <1>5, Zenon
<1>8. front \o r = (front \o last) \o w
  BY <1>1, <1>6, Zenon
<1>9. QED  BY <1>2, <1>4, <1>6, <1>7, <1>8, Zenon DEF next, front, pre, r, tail, last, Laid,
         GapThen, Passed

\* The same for a match, with the types of what it is made of.
LEMMA LaidOut ==
    ASSUME NEW S, NEW opens, NEW L, NEW close, NEW g, NEW op, NEW b, NEW u, NEW w,
           AMatchIn(S, opens, L, close, g, op, b, u, w)
    PROVE  /\ u \o GapThen(g, op, b, close, w) = Laid(u, g, op, b, close, w)
           /\ u \o GapThen(g, op, b, close, w) = Passed(u, g, op, b, close) \o w
           /\ Passed(u, g, op, b, close) \in Seq(S)
<1>1. /\ Openers(opens, S, L) /\ close \in Seq(S)
      /\ g \in Seq(S) /\ op \in opens /\ b \in Seq(S) /\ u \in Seq(S) /\ w \in Seq(S)
  BY DEF AMatch, AMatchIn
<1>2. op \in Seq(S)
  BY <1>1 DEF Openers
<1> DEFINE T == Seq(S)
           txt == Laid(u, g, op, b, close, w)
           v == Passed(u, g, op, b, close)
           r == GapThen(g, op, b, close, w)
<1>3. u \o r = txt /\ txt = v \o w /\ v \in Seq(S)
  <2>1. Joined6(T, u, g, op, b, close, w)
    BY <1>1, <1>2, SeqJoinable DEF Joined6
  <2> HIDE DEF T
  <2>2. u \o r = txt /\ txt = v \o w /\ v \in T
    BY <2>1, Regrouped
  <2>3. QED  BY <2>2 DEF T
<1> HIDE DEF txt, v, r
<1>4. QED  BY <1>3 DEF txt, v, r

\* The match is found first, and then what is found behind it.
LEMMA FoundNext ==
    ASSUME NEW S, NEW opens, NEW L, NEW close, NEW g, NEW op, NEW b, NEW u, NEW w,
           AMatchIn(S, opens, L, close, g, op, b, u, w)
    PROVE  LET txt == u \o GapThen(g, op, b, close, w)
           IN  Matches(txt, opens, close)[Len(u)]
                 = Match(op, b) \o Matches(txt, opens, close)[Len(txt) - Len(w)]
<1> DEFINE txt == Laid(u, g, op, b, close, w)
<1>1. u \o GapThen(g, op, b, close, w) = txt
  BY LaidOut
<1>2. Matches(txt, opens, close)[Len(u)]
        = Match(op, b) \o Matches(txt, opens, close)[Len(txt) - Len(w)]
  BY OneFound
<1> HIDE DEF txt
<1>3. QED  BY <1>1, <1>2

-----------------------------------------------------------------------------
(* A txt of matches: rest[i] is what is left of it behind the i-th.       *)

MatchesOf(S, txt, opens, L, close, n, gap, op, body, rest) ==
    /\ n \in Nat /\ txt = rest[0] /\ rest[n] = gap[n]
    /\ Openers(opens, S, L) /\ close \in Seq(S) /\ Len(close) > 0
    /\ \A i \in 0 .. n : rest[i] \in Seq(S)
    /\ gap[n] \in Seq(S) /\ \A k \in 1 .. Len(gap[n]) : gap[n][k] # DSML
    /\ \A i \in 0 .. n - 1 :
         /\ AMatch(S, opens, L, close, gap[i], op[i + 1], body[i + 1])
         /\ rest[i] = GapThen(gap[i], op[i + 1], body[i + 1], close, rest[i + 1])

\* All matches of such a txt are found, and no other.
LEMMA FindAllIs ==
    ASSUME NEW S, NEW txt, NEW opens, NEW L, NEW close, NEW n, NEW gap, NEW op, NEW body, NEW rest,
           MatchesOf(S, txt, opens, L, close, n, gap, op, body, rest)
    PROVE  FindAll(txt, opens, close) = [i \in 1 .. n |-> [open |-> op[i], body |-> body[i]]]
<1> DEFINE M == Matches(txt, opens, close)
           At(i) == Len(txt) - Len(rest[i])
           r(i) == [open |-> op[i], body |-> body[i]]
           Later(i) == [j \in 1 .. n - i |-> r(i + j)]
<1>1. /\ n \in Nat /\ txt = rest[0] /\ rest[n] = gap[n]
      /\ Openers(opens, S, L) /\ close \in Seq(S) /\ Len(close) > 0
      /\ \A i \in 0 .. n : rest[i] \in Seq(S)
      /\ gap[n] \in Seq(S) /\ \A k \in 1 .. Len(gap[n]) : gap[n][k] # DSML
  BY DEF MatchesOf
<1>2. ASSUME NEW i \in 0 .. n - 1
      PROVE  /\ AMatch(S, opens, L, close, gap[i], op[i + 1], body[i + 1])
             /\ rest[i] = GapThen(gap[i], op[i + 1], body[i + 1], close, rest[i + 1])
             /\ rest[i] \in Seq(S) /\ rest[i + 1] \in Seq(S)
  <2>1. i \in 0 .. n /\ i + 1 \in 0 .. n
    BY <1>1
  <2>2. /\ AMatch(S, opens, L, close, gap[i], op[i + 1], body[i + 1])
        /\ rest[i] = GapThen(gap[i], op[i + 1], body[i + 1], close, rest[i + 1])
    BY <1>2, Zenon DEF MatchesOf
  <2>3. QED  BY <1>1, <2>1, <2>2
<1> DEFINE Reached == {i \in Nat : \E u \in Seq(S) : txt = u \o rest[i]}
<1>3. 0 .. n \subseteq Reached
  <2>1. 0 \in Reached
    <3>1. <<>> \in Seq(S) /\ rest[0] \in Seq(S)
      BY <1>1
    <3>2. <<>> \o rest[0] = rest[0]
      BY <3>1, ConcatEmptySeq
    <3>3. QED  BY <1>1, <3>1, <3>2
  <2>2. ASSUME NEW i \in 0 .. n - 1, i \in Reached PROVE i + 1 \in Reached
    <3>1. PICK u \in Seq(S) : txt = u \o rest[i]
      BY <2>2
    <3> DEFINE w == rest[i + 1]
    <3>9. AMatchIn(S, opens, L, close, gap[i], op[i + 1], body[i + 1], u, w)
      BY <1>2 DEF AMatchIn
    <3>2. \E v \in Seq(S) : u \o rest[i] = v \o w
      <4>1. rest[i] = GapThen(gap[i], op[i + 1], body[i + 1], close, w)
        BY <1>2
      <4> HIDE DEF w
      <4> DEFINE v == Passed(u, gap[i], op[i + 1], body[i + 1], close)
                 g == gap[i]
                 o == op[i + 1]
                 b == body[i + 1]
      <4>5. AMatchIn(S, opens, L, close, g, o, b, u, w)
        BY <3>9
      <4> HIDE DEF g, o, b
      <4>6. /\ u \o GapThen(g, o, b, close, w) = Passed(u, g, o, b, close) \o w
            /\ Passed(u, g, o, b, close) \in Seq(S)
        BY <4>5, LaidOut, SMTT(30)
      <4>2. /\ u \o GapThen(gap[i], op[i + 1], body[i + 1], close, w) = v \o w
            /\ v \in Seq(S)
        BY <4>6, Zenon DEF g, o, b
      <4> HIDE DEF v
      <4>3. QED  BY <4>1, <4>2
    <3>3. i + 1 \in Nat
      BY <1>1
    <3>4. QED  BY <3>1, <3>2, <3>3
  <2> HIDE DEF Reached
  <2>4. n \in Nat
    BY <1>1
  <2>3. QED  BY <2>1, <2>4, <2>2, UpToInduction
<1>4. ASSUME NEW i \in 0 .. n PROVE \E u \in Seq(S) : txt = u \o rest[i] /\ At(i) = Len(u)
  <2>1. PICK u \in Seq(S) : txt = u \o rest[i]
    BY <1>3, <1>4
  <2>2. rest[i] \in Seq(S)
    BY <1>1
  <2>3. Len(u \o rest[i]) = Len(u) + Len(rest[i]) /\ Len(u) \in Nat /\ Len(rest[i]) \in Nat
    BY <2>2, ConcatProperties
  <2>4. At(i) = Len(u)
    BY <2>1, <2>3
  <2>5. QED  BY <2>1, <2>4
<1>5. ASSUME NEW i \in 0 .. n - 1
      PROVE  M[At(i)] = <<r(i + 1)>> \o M[At(i + 1)]
  <2>1. i \in 0 .. n
    BY <1>1
  <2>2. PICK u \in Seq(S) : txt = u \o rest[i] /\ At(i) = Len(u)
    BY <1>4, <2>1
  <2> DEFINE g == gap[i]
             o == op[i + 1]
             b == body[i + 1]
             w == rest[i + 1]
             t == u \o GapThen(g, o, b, close, w)
  <2>3. AMatchIn(S, opens, L, close, g, o, b, u, w)
    BY <1>2 DEF AMatchIn
  <2>4. t = txt
    BY <1>2, <2>2
  <2> HIDE DEF g, o, b, w
  <2>5. Matches(t, opens, close)[Len(u)]
          = Match(o, b) \o Matches(t, opens, close)[Len(t) - Len(w)]
    BY <2>3, FoundNext
  <2> HIDE DEF t
  <2>6. M[At(i)] = Match(o, b) \o M[At(i + 1)]
    BY <2>2, <2>4, <2>5 DEF w
  <2>7. QED  BY <2>6 DEF Match, o, b
<1>6. M[At(n)] = <<>>
  <2>1. n \in 0 .. n
    BY <1>1
  <2>2. PICK u \in Seq(S) : txt = u \o rest[n] /\ At(n) = Len(u)
    BY <1>4, <2>1
  <2>3. Matches(u \o gap[n], opens, close)[Len(u)] = <<>>
    BY <1>1, NoneFound
  <2>4. QED  BY <1>1, <2>2, <2>3
<1>7. At(0) = 0
  <2>1. txt \in Seq(S) /\ At(0) = Len(txt) - Len(txt)
    BY <1>1
  <2>2. QED  BY <2>1
<1> DEFINE Same == {k \in Nat : k =< n => M[At(n - k)] = Later(n - k)}
<1> HIDE DEF M, At
<1>8. 0 \in Same
  <2>1. n - 0 = n /\ n - n = 0
    BY <1>1
  <2>2. Later(n) = <<>>
    BY <2>1
  <2>3. QED  BY <1>6, <2>1, <2>2
<1>9. ASSUME NEW k \in 0 .. n - 1, k \in Same PROVE k + 1 \in Same
  <2> DEFINE i == n - (k + 1)
  <2>1. i \in 0 .. n - 1 /\ i + 1 = n - k /\ k + 1 \in Nat
    BY <1>1
  <2>2. M[At(i + 1)] = Later(i + 1)
    BY <1>1, <1>9, <2>1
  <2> HIDE DEF i
  <2>3. M[At(i)] = <<r(i + 1)>> \o Later(i + 1)
    BY <1>5, <2>1, <2>2
  <2>4. <<r(i + 1)>> \o Later(i + 1) = Later(i)
    <3> DEFINE U == {r(j) : j \in 1 .. n}
               one == <<r(i + 1)>>
               later == Later(i + 1)
               all == Later(i)
               both == one \o later
    <3>1. \A j \in 1 .. n : r(j) \in U
      OBVIOUS
    <3> HIDE DEF U, r
    <3>2. i + 1 \in 1 .. n /\ n - i \in Nat /\ n - (i + 1) \in Nat
      BY <1>1, <2>1
    <3>3. one \in Seq(U) /\ Len(one) = 1 /\ one[1] = r(i + 1)
      BY <3>1, <3>2
    <3>4. /\ later \in Seq(U) /\ Len(later) = n - (i + 1)
          /\ \A j \in 1 .. n - (i + 1) : later[j] = r((i + 1) + j)
      <4>1. \A j \in 1 .. n - (i + 1) : r((i + 1) + j) \in U
        BY <1>1, <2>1, <3>1
      <4>2. QED  BY <3>2, <4>1
    <3>5. /\ all \in Seq(U) /\ Len(all) = n - i
          /\ \A j \in 1 .. n - i : all[j] = r(i + j)
      <4>1. \A j \in 1 .. n - i : r(i + j) \in U
        BY <1>1, <2>1, <3>1
      <4>2. QED  BY <3>2, <4>1
    <3> HIDE DEF one, later, all, both
    <3>6. /\ both \in Seq(U) /\ Len(both) = Len(one) + Len(later)
          /\ \A j \in 1 .. Len(one) : both[j] = one[j]
          /\ \A j \in 1 .. Len(later) : both[Len(one) + j] = later[j]
      BY <3>3, <3>4, Joined, SMTT(30) DEF both
    <3>7. \A j \in 1 .. Len(both) : both[j] = all[j]
      <4> SUFFICES ASSUME NEW j \in 1 .. n - i PROVE both[j] = all[j]
        BY <1>1, <2>1, <3>3, <3>4, <3>6
      <4>1. CASE j = 1
        BY <1>1, <2>1, <3>3, <3>5, <3>6, <4>1
      <4>2. CASE j # 1
        <5> DEFINE m == j - 1
        <5>1. m \in 1 .. n - (i + 1) /\ 1 + m = j /\ (i + 1) + m = i + j
          BY <1>1, <2>1, <4>2
        <5> HIDE DEF m
        <5>2. both[1 + m] = later[m] /\ later[m] = r((i + 1) + m) /\ all[j] = r(i + j)
          BY <3>3, <3>4, <3>5, <3>6, <5>1
        <5>3. QED  BY <5>1, <5>2
      <4>3. QED  BY <4>1, <4>2
    <3>8. Len(both) = Len(all)
      BY <1>1, <2>1, <3>3, <3>4, <3>5, <3>6, SMTT(30)
    <3>9. both = all
      BY <3>5, <3>6, <3>7, <3>8, SameSequence
    <3>10. QED  BY <3>9 DEF both, one, later, all
  <2>5. M[At(i)] = Later(i)
    BY <2>3, <2>4
  <2>6. QED  BY <2>1, <2>5 DEF i
<1> HIDE DEF Same
<1>10. 0 .. n \subseteq Same
  BY <1>1, <1>8, <1>9, UpToInduction
<1>11. M[At(0)] = Later(0)
  <2>1. n \in 0 .. n /\ n - n = 0
    BY <1>1
  <2>2. QED  BY <1>1, <1>10, <2>1, SMTT(30) DEF Same
<1>12. Later(0) = [i \in 1 .. n |-> r(i)]
  <2>1. n - 0 = n
    BY <1>1
  <2>2. \A j \in 1 .. n : 0 + j = j
    OBVIOUS
  <2> HIDE DEF r
  <2>3. QED  BY <2>1, <2>2
<1>13. QED  BY <1>7, <1>11, <1>12, FindAllMatches DEF M

\* A txt of an opener, a body, its end and a gap, with a txt behind it.
LEMMA ListText ==
    ASSUME NEW T, NEW op, NEW b, NEW c, NEW g, NEW f, Joinable(T),
           op \in T, b \in T, c \in T, g \in T, f \in T
    PROVE  /\ (op \o (b \o (c \o g))) \o f = op \o (b \o (c \o (g \o f)))
           /\ op \o (b \o (c \o g)) \in T /\ g \o f \in T
<1> DEFINE x == c \o g
           y == b \o x
<1>1. x \in T /\ g \o f \in T /\ x \o f = c \o (g \o f)
  <2>1. Joined3(T, c, g, f)
    BY DEF Joined3
  <2>2. QED  BY <2>1, JoinsThree
<1> HIDE DEF x
<1>2. y \in T /\ y \o f = b \o (x \o f)
  <2>1. Joined3(T, b, x, f)
    BY <1>1 DEF Joined3
  <2>2. QED  BY <2>1, JoinsThree
<1> HIDE DEF y
<1>3. op \o y \in T /\ (op \o y) \o f = op \o (y \o f)
  <2>1. Joined3(T, op, y, f)
    BY <1>2 DEF Joined3
  <2>2. QED  BY <2>1, JoinsThree
<1>4. y \o f = b \o (c \o (g \o f))
  BY <1>1, <1>2
<1> DEFINE z == y \o f
<1> HIDE DEF z
<1>5. (op \o y) \o f = op \o z /\ z = b \o (c \o (g \o f))
  BY <1>3, <1>4 DEF z
<1>6. (op \o y) \o f = op \o (b \o (c \o (g \o f)))
  BY <1>5
<1>7. QED  BY <1>1, <1>3, <1>6 DEF x, y

\* A list of matches, each with the gap behind it.
Listed(S, opens, L, close, n, gap, op, body, texts) ==
    /\ n \in Nat /\ Openers(opens, S, L) /\ close \in Seq(S) /\ StartsOnce(close)
    /\ gap[n] \in Seq(S) /\ \A k \in 1 .. Len(gap[n]) : gap[n][k] # DSML
    /\ \A i \in 0 .. n - 1 : AMatch(S, opens, L, close, gap[i], op[i + 1], body[i + 1])
    /\ texts \in Seq(Seq(S)) /\ Len(texts) = n
    /\ \A i \in 1 .. n : texts[i] = op[i] \o (body[i] \o (close \o gap[i]))

\* FindAll finds the bodies of a list of such texts.
LEMMA ListFound ==
    ASSUME NEW S, NEW opens, NEW L, NEW close, NEW n, NEW gap, NEW op, NEW body, NEW texts,
           Listed(S, opens, L, close, n, gap, op, body, texts)
    PROVE  FindAll(gap[0] \o FlattenSeq(texts), opens, close)
             = [i \in 1 .. n |-> [open |-> op[i], body |-> body[i]]]
<1> DEFINE T == Seq(S)
           F(i) == FlattenSeq(From(texts, i))
           rest == [i \in 0 .. n |-> gap[i] \o F(i)]
           txt == gap[0] \o FlattenSeq(texts)
<1>1. /\ n \in Nat /\ Openers(opens, S, L) /\ close \in T /\ StartsOnce(close)
      /\ gap[n] \in T /\ \A k \in 1 .. Len(gap[n]) : gap[n][k] # DSML
      /\ \A i \in 0 .. n - 1 : AMatch(S, opens, L, close, gap[i], op[i + 1], body[i + 1])
      /\ texts \in Seq(Seq(S)) /\ Len(texts) = n
      /\ \A i \in 1 .. n : texts[i] = op[i] \o (body[i] \o (close \o gap[i]))
  BY DEF Listed
<1>2. \A i \in 0 .. n : gap[i] \in T
  <2> TAKE i \in 0 .. n
  <2>1. CASE i = n
    BY <1>1, <2>1
  <2>2. CASE i # n
    <3>1. i \in 0 .. n - 1
      BY <1>1, <2>2
    <3>2. QED  BY <1>1, <3>1 DEF AMatch
  <2>3. QED  BY <2>1, <2>2
<1>3. \A i \in 0 .. n - 1 : op[i + 1] \in T /\ body[i + 1] \in T
  <2> TAKE i \in 0 .. n - 1
  <2>1. op[i + 1] \in opens /\ body[i + 1] \in T
    BY <1>1 DEF AMatch
  <2>2. QED  BY <1>1, <2>1 DEF Openers
<1>4. Joinable(T)
  BY SeqJoinable
<1>5. ASSUME NEW i \in 0 .. n - 1
      PROVE  F(i) = texts[i + 1] \o F(i + 1) /\ F(i + 1) \in T
  <2>1. i \in 0 .. Len(texts) - 1 /\ texts \in Seq(Seq(S))
    BY <1>1
  <2>2. QED  BY <2>1, FlattenNext
<1>6. F(n) = <<>> /\ From(texts, 0) = texts
  BY <1>1, FlattenEnds
<1>7. \A i \in 0 .. n : F(i) \in T
  <2> TAKE i \in 0 .. n
  <2>1. CASE i = n
    BY <1>6, <2>1
  <2>2. CASE i # n
    <3>1. i \in 0 .. Len(texts) - 1 /\ texts \in Seq(Seq(S))
      BY <1>1, <2>2
    <3>2. QED  BY <3>1, FlattenNext
  <2>3. QED  BY <2>1, <2>2
<1> HIDE DEF F
<1>8. \A i \in 0 .. n : rest[i] = gap[i] \o F(i) /\ rest[i] \in T
  BY <1>2, <1>7
<1>9. ASSUME NEW i \in 0 .. n - 1
      PROVE  rest[i] = GapThen(gap[i], op[i + 1], body[i + 1], close, rest[i + 1])
  <2> DEFINE g == gap[i]
             h == gap[i + 1]
             o == op[i + 1]
             b == body[i + 1]
             f == F(i + 1)
  <2>1. i \in 0 .. n /\ i + 1 \in 0 .. n /\ i + 1 \in 1 .. n
    BY <1>1
  <2>2. h \in T /\ o \in T /\ b \in T /\ close \in T /\ f \in T
    BY <1>1, <1>2, <1>3, <1>7, <2>1
  <2>3. rest[i] = g \o (texts[i + 1] \o f) /\ rest[i + 1] = h \o f
    BY <1>5, <1>8, <2>1
  <2>4. texts[i + 1] = o \o (b \o (close \o h))
    BY <1>1, <2>1
  <2> HIDE DEF g, h, o, b, f, T
  <2>5. (o \o (b \o (close \o h))) \o f = o \o (b \o (close \o (h \o f)))
    BY <1>4, <2>2, ListText, SMTT(30)
  <2> HIDE DEF rest
  <2>6. rest[i] = g \o ((o \o (b \o (close \o h))) \o f)
    BY <2>3, <2>4
  <2>7. rest[i] = g \o (o \o (b \o (close \o (h \o f))))
    BY <2>5, <2>6
  <2>8. QED  BY <2>3, <2>7 DEF GapThen, g, h, o, b, f
<1>10. rest[n] = gap[n] /\ rest[0] = txt
  <2>1. n \in 0 .. n /\ 0 \in 0 .. n
    BY <1>1
  <2>2. gap[n] \o <<>> = gap[n]
    BY <1>1, ConcatEmptySeq
  <2>3. rest[n] = gap[n] \o <<>> /\ rest[0] = gap[0] \o F(0)
    BY <1>6, <1>8, <2>1
  <2>4. F(0) = FlattenSeq(texts)
    BY <1>6 DEF F
  <2>5. QED  BY <2>2, <2>3, <2>4
<1>11. Len(close) > 0
  BY <1>1 DEF StartsOnce
<1> HIDE DEF rest, txt
<1>12. MatchesOf(S, txt, opens, L, close, n, gap, op, body, rest)
  BY <1>1, <1>8, <1>9, <1>10, <1>11 DEF MatchesOf
<1>13. FindAll(txt, opens, close) = [i \in 1 .. n |-> [open |-> op[i], body |-> body[i]]]
  BY <1>12, FindAllIs
<1>14. QED  BY <1>13 DEF txt

Marks == {LT, SLASH, DSML, CALLS, INVOKE, INVOKE_END, PARAM_END, WS}
           \cup {QUOTE, COERCED, OBJECT, INNER, FIELD, WORD, "{", ",", "}"}

\* The tags, piece by piece; no two pieces of one are alike.
LEMMA TagPiecesAre ==
    /\ StartToken[1] = LT /\ StartToken[2] = DSML /\ StartToken[3] = CALLS
    /\ EndToken[1] = LT /\ EndToken[2] = SLASH /\ EndToken[3] = DSML /\ EndToken[4] = CALLS
    /\ Headless[1] = DSML /\ Headless[2] = CALLS
    /\ InvokeMarker[1] = LT /\ InvokeMarker[2] = DSML /\ InvokeMarker[3] = INVOKE
    /\ InvokeEnd[1] = LT /\ InvokeEnd[2] = SLASH /\ InvokeEnd[3] = DSML /\ InvokeEnd[4] = INVOKE_END
    /\ ParamEnd[1] = LT /\ ParamEnd[2] = SLASH /\ ParamEnd[3] = DSML /\ ParamEnd[4] = PARAM_END
<1>1. Headless[1] = DSML /\ Headless[2] = CALLS
  BY Tags DEF StartToken
<1>2. QED  BY <1>1 DEF StartToken, EndToken, InvokeMarker, InvokeEnd, ParamEnd

\* The pieces that markup is told by.
LEMMA MarksDiffer ==
    /\ LT # SLASH /\ LT # DSML /\ LT # CALLS /\ LT # INVOKE /\ LT # INVOKE_END /\ LT # PARAM_END
    /\ DSML # SLASH /\ DSML # CALLS /\ DSML # INVOKE /\ DSML # WS /\ LT # WS /\ SLASH # WS
    /\ INVOKE_END # PARAM_END /\ CALLS # INVOKE /\ CALLS # WS
BY DEF LT, SLASH, DSML, CALLS, INVOKE, INVOKE_END, PARAM_END, WS

\* A txt of pieces in A is one of pieces in B.
LEMMA SeqWider ==
    ASSUME NEW A, NEW B, A \subseteq B, NEW s \in Seq(A)
    PROVE  s \in Seq(B)
OBVIOUS

\* A sequence of one, two or three pieces.
LEMMA OnePiece ==
    ASSUME NEW S, NEW x \in S
    PROVE  <<x>> \in Seq(S) /\ Len(<<x>>) = 1 /\ <<x>>[1] = x
OBVIOUS

\* A txt of two pieces.
LEMMA TwoPieces ==
    ASSUME NEW S, NEW x \in S, NEW y \in S
    PROVE  <<x, y>> \in Seq(S) /\ Len(<<x, y>>) = 2 /\ <<x, y>>[1] = x /\ <<x, y>>[2] = y
OBVIOUS

\* A txt of three.
LEMMA ThreePieces ==
    ASSUME NEW S, NEW x \in S, NEW y \in S, NEW z \in S
    PROVE  /\ <<x, y, z>> \in Seq(S) /\ Len(<<x, y, z>>) = 3
           /\ <<x, y, z>>[1] = x /\ <<x, y, z>>[2] = y /\ <<x, y, z>>[3] = z
OBVIOUS

\* The tags are texts.
LEMMA TagsTyped ==
    ASSUME NEW S, Marks \subseteq S
    PROVE  /\ StartToken \in Seq(S) /\ EndToken \in Seq(S) /\ Headless \in Seq(S)
           /\ InvokeMarker \in Seq(S) /\ InvokeEnd \in Seq(S) /\ ParamEnd \in Seq(S)
<1>1. /\ {LT, DSML, CALLS} \subseteq S /\ {LT, SLASH, DSML, CALLS} \subseteq S
      /\ {DSML, CALLS} \subseteq S /\ {LT, DSML, INVOKE} \subseteq S
      /\ {LT, SLASH, DSML, INVOKE_END} \subseteq S /\ {LT, SLASH, DSML, PARAM_END} \subseteq S
  BY Zenon DEF Marks
<1>2. /\ StartToken \in Seq({LT, DSML, CALLS}) /\ EndToken \in Seq({LT, SLASH, DSML, CALLS})
      /\ Headless \in Seq({DSML, CALLS}) /\ InvokeMarker \in Seq({LT, DSML, INVOKE})
      /\ InvokeEnd \in Seq({LT, SLASH, DSML, INVOKE_END})
      /\ ParamEnd \in Seq({LT, SLASH, DSML, PARAM_END})
  BY Tags
<1>3. StartToken \in Seq(S) /\ EndToken \in Seq(S)
  BY <1>1, <1>2, SeqWider
<1>4. Headless \in Seq(S) /\ InvokeMarker \in Seq(S)
  BY <1>1, <1>2, SeqWider
<1>5. InvokeEnd \in Seq(S) /\ ParamEnd \in Seq(S)
  BY <1>1, <1>2, SeqWider
<1>6. QED  BY <1>3, <1>4, <1>5

\* A tag begins with a piece that it has nowhere else.
LEMMA TagsStartOnce ==
    /\ StartsOnce(StartToken) /\ StartsOnce(EndToken) /\ StartsOnce(Headless)
    /\ StartsOnce(InvokeMarker) /\ StartsOnce(InvokeEnd) /\ StartsOnce(ParamEnd)
<1>1. /\ Len(StartToken) = 3 /\ Len(EndToken) = 4 /\ Len(Headless) = 2
      /\ Len(InvokeMarker) = 3 /\ Len(InvokeEnd) = 4 /\ Len(ParamEnd) = 4
  BY Tags
<1>2. \A i \in 2 .. 4 : i = 2 \/ i = 3 \/ i = 4
  OBVIOUS
<1>3. \A i \in 2 .. 3 : i = 2 \/ i = 3
  OBVIOUS
<1>4. \A i \in 2 .. 2 : i = 2
  OBVIOUS
<1>5. QED  BY <1>1, <1>2, <1>3, <1>4, TagPiecesAre, MarksDiffer DEF StartsOnce

\* The tags that open an invoke, and those that open a parameter.
LEMMA OpenersAre ==
    ASSUME NEW S, Marks \cup Names \cup Params \subseteq S
    PROVE  /\ Openers(InvokeStarts, S, 4) /\ Openers(ParamStarts, S, 3)
           /\ Openers({StartToken}, S, 3)
           /\ \A f \in Names : Last(InvokeMarker \o <<f>>) = f
           /\ \A p \in Params : Last(<<LT, DSML, p>>) = p
<1>1. Marks \subseteq S /\ Names \subseteq S /\ Params \subseteq S
  OBVIOUS
<1>2. ASSUME NEW f \in Names
      PROVE  LET o == InvokeMarker \o <<f>>
             IN  /\ o \in Seq(S) /\ Len(o) = 4 /\ o[1] = LT /\ o[2] = DSML /\ o[4] = f
  <2> DEFINE o == InvokeMarker \o <<f>>
             one == <<f>>
  <2>1. one \in Seq(S) /\ Len(one) = 1 /\ one[1] = f
    BY <1>1
  <2>2. InvokeMarker \in Seq(S) /\ Len(InvokeMarker) = 3
    BY <1>1, Tags, TagsTyped
  <2> HIDE DEF one
  <2>3. /\ InvokeMarker \o one \in Seq(S)
        /\ Len(InvokeMarker \o one) = Len(InvokeMarker) + Len(one)
        /\ \A i \in 1 .. Len(InvokeMarker) : (InvokeMarker \o one)[i] = InvokeMarker[i]
        /\ \A i \in 1 .. Len(one) : (InvokeMarker \o one)[Len(InvokeMarker) + i] = one[i]
    <3>1. InvokeMarker \in Seq(S) /\ one \in Seq(S)
      BY <2>1, <2>2
    <3>2. QED  BY <3>1, Joined
  <2>4. o = InvokeMarker \o one
    BY DEF one
  <2> HIDE DEF o
  <2>5. 1 \in 1 .. 3 /\ 2 \in 1 .. 3 /\ 1 \in 1 .. 1
    OBVIOUS
  <2>6. o[1] = LT /\ o[2] = DSML /\ o[3 + 1] = f
    BY <2>1, <2>2, <2>3, <2>4, <2>5, TagPiecesAre
  <2>7. QED  BY <2>1, <2>2, <2>3, <2>4, <2>6 DEF o
<1>3. ASSUME NEW p \in Params
      PROVE  LET o == <<LT, DSML, p>>
             IN  /\ o \in Seq(S) /\ Len(o) = 3 /\ o[1] = LT /\ o[2] = DSML /\ o[3] = p
  <2>1. LT \in S /\ DSML \in S /\ p \in S
    BY <1>1, Zenon DEF Marks
  <2>2. QED  BY <2>1, ThreePieces
<1>4. \A f \in Names : Last(InvokeMarker \o <<f>>) = f
  BY <1>2 DEF Last
<1>5. \A p \in Params : Last(<<LT, DSML, p>>) = p
  BY <1>3 DEF Last
<1>6. Openers(InvokeStarts, S, 4)
  <2>1. ASSUME NEW o \in InvokeStarts
        PROVE  o \in Seq(S) /\ Len(o) = 4 /\ o[1] = LT /\ o[2] = DSML
    <3>1. PICK f \in Names : o = InvokeMarker \o <<f>>
      BY DEF InvokeStarts
    <3>2. QED  BY <1>2, <3>1, Zenon
  <2>2. QED  BY <2>1 DEF Openers
<1>7. Openers(ParamStarts, S, 3)
  <2>1. ASSUME NEW o \in ParamStarts
        PROVE  o \in Seq(S) /\ Len(o) = 3 /\ o[1] = LT /\ o[2] = DSML
    <3>1. PICK p \in Params : o = <<LT, DSML, p>>
      BY DEF ParamStarts
    <3>2. QED  BY <1>3, <3>1, Zenon
  <2>2. QED  BY <2>1 DEF Openers
<1>8. Openers({StartToken}, S, 3)
  BY <1>1, Tags, TagsTyped, TagPiecesAre DEF Openers
<1>9. QED  BY <1>4, <1>5, <1>6, <1>7, <1>8

-----------------------------------------------------------------------------
(* What the one-shot parser finds in an output that is well-formed.        *)

ParamTyped(S, p) == p.key \in S /\ p.text \in Seq(S) /\ p.gap \in Seq(S)
CallTyped(S, c) ==
    /\ c.name \in S /\ c.lead \in Seq(S) /\ c.gap \in Seq(S)
    /\ Len(c.params) \in Nat /\ DOMAIN c.params = 1 .. Len(c.params)
    /\ \A i \in 1 .. Len(c.params) : ParamTyped(S, c.params[i]) /\ IsParam(c.params[i])
AllTyped(S, d) ==
    /\ Marks \cup Names \cup Params \subseteq S
    /\ d.lead \in Seq(S)
    /\ Len(d.calls) \in Nat /\ Len(d.calls) > 0 /\ DOMAIN d.calls = 1 .. Len(d.calls)
    /\ \A j \in 1 .. Len(d.calls) : CallTyped(S, d.calls[j]) /\ IsCall(d.calls[j])

\* What a txt of well-formed outputs, or of the arguments in it, is made of.
OutputPieces ==
    UNION {Range(o.before) \cup Range(o.opener) \cup Range(o.block) \cup Range(o.after) :
             o \in Outputs}
ValuePieces(d) ==
    UNION {UNION {Range(d.calls[j].params[i].text) : i \in DOMAIN d.calls[j].params} :
             j \in DOMAIN d.calls}
Chars(d) == Pieces \cup Marks \cup Names \cup Params \cup OutputPieces \cup ValuePieces(d)

\* Spaces hold no marker.
LEMMA SpacesTyped ==
    ASSUME NEW S, WS \in S, NEW g \in Spaces
    PROVE  /\ g \in Seq(S) /\ \A i \in 1 .. Len(g) : g[i] = WS
           /\ \A i \in 1 .. Len(g) : g[i] # DSML
<1>1. g \in Seq({WS})
  BY DEF Spaces
<1>2. \A i \in 1 .. Len(g) : g[i] = WS
  BY <1>1
<1>3. {WS} \subseteq S
  OBVIOUS
<1>4. QED  BY <1>1, <1>2, <1>3, MarksDiffer

\* There is a set of pieces that a derivation is made of.
LEMMA DerivationTyped ==
    ASSUME NEW d, IsDerivation(d)
    PROVE  AllTyped(Chars(d), d)
<1> DEFINE S == Chars(d)
<1>1. Marks \cup Names \cup Params \subseteq S
  BY DEF Chars
<1>2. WS \in S
  BY <1>1, Zenon DEF Marks
<1> DEFINE U == Range(d.calls)
<1>3. d.calls \in Seq(U) /\ d.calls # <<>> /\ d.lead \in Spaces
      /\ \A j \in 1 .. Len(d.calls) : IsCall(d.calls[j])
  BY DEF IsDerivation
<1> HIDE DEF U
<1>4. Len(d.calls) \in Nat /\ Len(d.calls) > 0 /\ DOMAIN d.calls = 1 .. Len(d.calls)
  BY <1>3
<1>5. ASSUME NEW j \in 1 .. Len(d.calls) PROVE CallTyped(S, d.calls[j]) /\ IsCall(d.calls[j])
  <2> DEFINE c == d.calls[j]
             Q == Range(c.params)
  <2>1. IsCall(c)
    BY <1>3
  <2>2. /\ c.name \in Names /\ c.lead \in Spaces /\ c.gap \in Spaces /\ c.params \in Seq(Q)
        /\ \A i \in 1 .. Len(c.params) : IsParam(c.params[i])
    BY <2>1 DEF IsCall
  <2> HIDE DEF Q
  <2>3. Len(c.params) \in Nat /\ DOMAIN c.params = 1 .. Len(c.params)
    BY <2>2
  <2>4. ASSUME NEW i \in 1 .. Len(c.params) PROVE ParamTyped(S, c.params[i])
    <3> DEFINE p == c.params[i]
               X == Range(p.text)
    <3>1. p.key \in Params /\ p.gap \in Spaces /\ p.text \in Seq(X)
      BY <2>2 DEF IsParam
    <3>2. X \in {Range(d.calls[j].params[k].text) : k \in DOMAIN d.calls[j].params}
      BY <2>3
    <3>3. X \subseteq UNION {Range(d.calls[j].params[k].text) : k \in DOMAIN d.calls[j].params}
      BY <3>2
    <3> DEFINE Y(k) == UNION {Range(d.calls[k].params[m].text) : m \in DOMAIN d.calls[k].params}
    <3>9. Y(j) \in {Y(k) : k \in DOMAIN d.calls}
      BY <1>4
    <3>10. Y(j) \subseteq UNION {Y(k) : k \in DOMAIN d.calls}
      BY <3>9
    <3>11. UNION {Y(k) : k \in DOMAIN d.calls} \subseteq S
      <4>1. UNION {Y(k) : k \in DOMAIN d.calls} = ValuePieces(d)
        BY DEF ValuePieces
      <4>2. QED  BY <4>1 DEF Chars
    <3>4. X \subseteq S
      <4> HIDE DEF S
      <4>1. QED  BY <3>3, <3>10, <3>11
    <3> HIDE DEF X, p, S
    <3>5. p.text \in Seq(S)
      BY <3>1, <3>4
    <3>6. p.gap \in Seq(S)
      BY <1>2, <3>1, SpacesTyped
    <3>7. p.key \in S
      BY <1>1, <3>1
    <3>8. QED  BY <3>5, <3>6, <3>7 DEF ParamTyped, p
  <2> HIDE DEF S, c
  <2>5. c.lead \in Seq(S) /\ c.gap \in Seq(S)
    BY <1>2, <2>2, SpacesTyped
  <2>6. c.name \in S
    BY <1>1, <2>2
  <2>7. CallTyped(S, c)
    BY <2>2, <2>3, <2>4, <2>5, <2>6 DEF CallTyped
  <2>8. QED  BY <2>1, <2>7 DEF c
<1> HIDE DEF S
<1>6. d.lead \in Seq(S)
  BY <1>2, <1>3, SpacesTyped
<1>7. AllTyped(S, d)
  BY <1>1, <1>4, <1>5, <1>6 DEF AllTyped
<1>8. QED  BY <1>7 DEF S

ParamIn(S, p) == Marks \cup Names \cup Params \subseteq S /\ ParamTyped(S, p) /\ IsParam(p)
CallIn(S, c) == Marks \cup Names \cup Params \subseteq S /\ CallTyped(S, c) /\ IsCall(c)

\* The parts of the txt of a parameter.
LEMMA ParamTextTyped ==
    ASSUME NEW S, NEW p, ParamIn(S, p)
    PROVE  /\ ParamText(p) \in Seq(S)
           /\ <<LT, DSML, p.key>> \in Seq(S) /\ <<LT, DSML, p.key>> \in ParamStarts
           /\ p.text \in Seq(S) /\ p.gap \in Seq(S) /\ ParamEnd \in Seq(S)
           /\ Occurrences(ParamEnd, p.text) = {}
           /\ \A i \in 1 .. Len(p.gap) : p.gap[i] = WS /\ p.gap[i] # DSML
<1> DEFINE T == Seq(S)
           op == <<LT, DSML, p.key>>
           b == p.text
           g == p.gap
<1>1. p.key \in Params /\ p.gap \in Spaces /\ Occurrences(ParamEnd, p.text) = {}
  BY DEF ParamIn, IsParam
<1>2. op \in ParamStarts
  BY <1>1 DEF ParamStarts
<1>3. op \in T
  <2>1. LT \in S /\ DSML \in S /\ p.key \in S
    BY <1>1, Zenon DEF ParamIn, Marks
  <2>2. QED  BY <2>1, ThreePieces
<1>4. b \in T /\ g \in T
  BY DEF ParamIn, ParamTyped
<1>5. ParamEnd \in T
  BY TagsTyped DEF ParamIn
<1>6. \A i \in 1 .. Len(p.gap) : p.gap[i] = WS /\ p.gap[i] # DSML
  BY <1>1, SpacesTyped, Zenon DEF ParamIn, Marks
<1>7. Joinable(T)
  BY SeqJoinable
<1> HIDE DEF T, op, b, g
<1>8. op \o (b \o (ParamEnd \o g)) \in T
  BY <1>3, <1>4, <1>5, <1>7, ListText
<1>9. ParamText(p) \in T
  BY <1>8 DEF ParamText, op, b, g
<1>10. QED  BY <1>1, <1>2, <1>3, <1>4, <1>5, <1>6, <1>9 DEF T, op, b, g

\* The texts of the parameters of a call.
LEMMA ParamsTyped ==
    ASSUME NEW S, NEW c, CallIn(S, c)
    PROVE  /\ ParamTexts(c) \in Seq(Seq(S)) /\ Len(ParamTexts(c)) = Len(c.params)
           /\ \A i \in 1 .. Len(c.params) : ParamTexts(c)[i] = ParamText(c.params[i])
           /\ \A i \in 1 .. Len(c.params) : ParamIn(S, c.params[i])
           /\ Len(c.params) \in Nat
<1> DEFINE n == Len(c.params)
           t(i) == ParamText(c.params[i])
<1>1. n \in Nat /\ \A i \in 1 .. n : ParamIn(S, c.params[i])
  BY DEF CallIn, CallTyped, ParamIn
<1>2. \A i \in 1 .. n : t(i) \in Seq(S)
  BY <1>1, ParamTextTyped
<1>3. ParamTexts(c) = [i \in 1 .. n |-> t(i)]
  BY DEF ParamTexts
<1> DEFINE T == Seq(S)
<1> HIDE DEF t, T
<1>4. /\ ParamTexts(c) \in Seq(T) /\ Len(ParamTexts(c)) = n
      /\ \A i \in 1 .. n : ParamTexts(c)[i] = t(i)
  <2>1. \A i \in 1 .. n : t(i) \in T
    BY <1>2 DEF T
  <2>2. n \in Nat
    BY <1>1
  <2> HIDE DEF n
  <2>3. QED  BY <1>3, <2>1, <2>2
<1>5. QED  BY <1>1, <1>4 DEF t, T

\* A dict of entries whose keys differ is the entries, in their order.
LEMMA DictIs ==
    ASSUME NEW n \in Nat, NEW E, E = [i \in 1 .. n |-> E[i]],
           \A h, i \in 1 .. n : E[h].key = E[i].key => h = i
    PROVE  DictOf(E) = E
<1> DEFINE Is(d) == d = [m \in 0 .. n |-> IF m = 0 THEN <<>> ELSE Assign(d[m - 1], E[m])]
           front(m) == [i \in 1 .. m |-> E[i]]
           fronts == [m \in 0 .. n |-> front(m)]
           dict == CHOOSE d : Is(d)
<1>1. Len(E) = n
  OBVIOUS
<1>2. DictOf(E) = dict[n]
  BY <1>1, Zenon DEF DictOf
<1>3. ASSUME NEW m \in 1 .. n
      PROVE  Assign(front(m - 1), E[m]) = front(m)
  <2> DEFINE f == front(m - 1)
  <2>1. DOMAIN f = 1 .. m - 1 /\ Len(f) = m - 1 /\ m - 1 \in Nat
    OBVIOUS
  <2>2. \A i \in 1 .. m - 1 : f[i] = E[i] /\ i \in 1 .. n /\ i # m
    OBVIOUS
  <2>3. ~ \E i \in DOMAIN f : f[i].key = E[m].key
    BY <2>1, <2>2
  <2>4. Append(f, E[m]) = front(m)
    <3>1. Append(f, E[m]) = [i \in 1 .. m |-> IF i \in 1 .. m - 1 THEN f[i] ELSE E[m]]
      BY <2>1
    <3>2. \A i \in 1 .. m : (IF i \in 1 .. m - 1 THEN f[i] ELSE E[m]) = E[i]
      BY <2>2
    <3> HIDE DEF f
    <3>3. QED  BY <3>1, <3>2
  <2> HIDE DEF f
  <2>5. QED  BY <2>3, <2>4, Zenon DEF Assign, f
<1>4. front(0) = <<>>
  OBVIOUS
<1>5. front(n) = E
  OBVIOUS
<1>6. Is(fronts)
  <2> DEFINE g == [m \in 0 .. n |-> IF m = 0 THEN <<>> ELSE Assign(fronts[m - 1], E[m])]
  <2>1. ASSUME NEW m \in 0 .. n PROVE fronts[m] = g[m]
    <3>1. CASE m = 0
      BY <1>4, <3>1
    <3>2. CASE m # 0
      <4>1. m \in 1 .. n /\ m - 1 \in 0 .. n
        BY <3>2
      <4>2. fronts[m - 1] = front(m - 1) /\ fronts[m] = front(m)
        BY <4>1
      <4>3. Assign(front(m - 1), E[m]) = front(m)
        BY <1>3, <4>1
      <4> HIDE DEF front, fronts
      <4>4. QED  BY <3>2, <4>2, <4>3
    <3>3. QED  BY <3>1, <3>2
  <2>2. fronts = g
    BY <2>1
  <2>3. QED  BY <2>2
<1> HIDE DEF Is, fronts, front
<1>7. Is(dict)
  BY <1>6
<1> HIDE DEF dict
<1>8. dict[0] = <<>> /\ \A m \in 1 .. n : dict[m] = Assign(dict[m - 1], E[m])
  <2>1. dict = [m \in 0 .. n |-> IF m = 0 THEN <<>> ELSE Assign(dict[m - 1], E[m])]
    BY <1>7 DEF Is
  <2>2. 0 \in 0 .. n /\ \A m \in 1 .. n : m \in 0 .. n /\ m # 0
    OBVIOUS
  <2>3. QED  BY <2>1, <2>2
<1> DEFINE Same == {m \in Nat : dict[m] = front(m)}
<1>9. 0 \in Same
  BY <1>4, <1>8
<1>10. ASSUME NEW m \in 0 .. n - 1, m \in Same PROVE m + 1 \in Same
  <2>1. m + 1 \in 1 .. n /\ (m + 1) - 1 = m
    OBVIOUS
  <2>2. dict[m + 1] = Assign(dict[m], E[m + 1])
    BY <1>8, <2>1
  <2>3. Assign(front(m), E[m + 1]) = front(m + 1)
    BY <1>3, <2>1
  <2>4. QED  BY <1>10, <2>1, <2>2, <2>3
<1>11. 0 .. n \subseteq Same
  BY <1>9, <1>10, UpToInduction
<1>12. QED  BY <1>2, <1>5, <1>11

\* The one-shot parser finds the parameters of a call in its body.
LEMMA ParsedIs ==
    ASSUME NEW S, NEW c, CallIn(S, c)
    PROVE  /\ ParsedParams(BodyText(c)) =
                [i \in 1 .. Len(c.params) |-> [key |-> c.params[i].key, text |-> c.params[i].text]]
           /\ BodyText(c) \in Seq(S)
<1> DEFINE n == Len(c.params)
           texts == ParamTexts(c)
           gap == [i \in 0 .. n |-> IF i = 0 THEN c.lead ELSE c.params[i].gap]
           op == [i \in 1 .. n |-> <<LT, DSML, c.params[i].key>>]
           body == [i \in 1 .. n |-> c.params[i].text]
           g(i) == c.params[i].gap
<1>1. /\ texts \in Seq(Seq(S)) /\ Len(texts) = n /\ n \in Nat
      /\ \A i \in 1 .. n : texts[i] = ParamText(c.params[i])
      /\ \A i \in 1 .. n : ParamIn(S, c.params[i])
  BY ParamsTyped
<1>2. /\ Marks \cup Names \cup Params \subseteq S
      /\ c.lead \in Spaces /\ c.lead \in Seq(S) /\ WS \in S
  BY Zenon DEF CallIn, CallTyped, IsCall, Marks
<1>3. \A i \in 1 .. n : /\ op[i] \in ParamStarts /\ body[i] \in Seq(S)
                        /\ Occurrences(ParamEnd, body[i]) = {}
                        /\ texts[i] = op[i] \o (body[i] \o (ParamEnd \o gap[i]))
  <2> TAKE i \in 1 .. n
  <2>1. i # 0 /\ i \in 0 .. n
    BY <1>1
  <2>2. op[i] = <<LT, DSML, c.params[i].key>> /\ body[i] = c.params[i].text
        /\ gap[i] = c.params[i].gap
    BY <2>1
  <2>3. ParamIn(S, c.params[i])
    BY <1>1
  <2> DEFINE p == c.params[i]
  <2> HIDE DEF p, op, body, gap
  <2>4. /\ <<LT, DSML, p.key>> \in ParamStarts /\ p.text \in Seq(S)
        /\ Occurrences(ParamEnd, p.text) = {}
    BY <2>3, ParamTextTyped DEF p
  <2>5. texts[i] = <<LT, DSML, p.key>> \o (p.text \o (ParamEnd \o p.gap))
    BY <1>1, Zenon DEF ParamText, p
  <2>6. QED  BY <2>2, <2>4, <2>5, ZenonT(40) DEF p
<1>4. \A i \in 0 .. n : /\ gap[i] \in Seq(S)
                        /\ \A k \in 1 .. Len(gap[i]) : gap[i][k] # DSML
  <2> TAKE i \in 0 .. n
  <2>1. CASE i = 0
    BY <1>2, <2>1, SpacesTyped
  <2>2. CASE i # 0
    <3>1. i \in 1 .. n /\ gap[i] = c.params[i].gap
      BY <1>1, <2>2
    <3>2. ParamIn(S, c.params[i])
      BY <1>1, <3>1
    <3> DEFINE p == c.params[i]
    <3> HIDE DEF p, gap
    <3>3. p.gap \in Seq(S) /\ \A k \in 1 .. Len(p.gap) : p.gap[k] # DSML
      BY <3>2, ParamTextTyped DEF p
    <3>4. QED  BY <3>1, <3>3 DEF p
  <2>3. QED  BY <2>1, <2>2
<1>5. Openers(ParamStarts, S, 3) /\ \A p \in Params : Last(<<LT, DSML, p>>) = p
  BY <1>2, OpenersAre
<1>6. ParamEnd \in Seq(S) /\ StartsOnce(ParamEnd)
  BY <1>2, TagsTyped, TagsStartOnce
<1>7. \A i \in 0 .. n - 1 : AMatch(S, ParamStarts, 3, ParamEnd, gap[i], op[i + 1], body[i + 1])
  <2> TAKE i \in 0 .. n - 1
  <2>1. i \in 0 .. n /\ i + 1 \in 1 .. n
    BY <1>1
  <2> HIDE DEF gap, op, body
  <2>2. QED  BY <1>3, <1>4, <1>5, <1>6, <2>1 DEF AMatch
<1>8. Listed(S, ParamStarts, 3, ParamEnd, n, gap, op, body, texts)
  <2>1. n \in 0 .. n
    BY <1>1
  <2>2. gap[n] \in Seq(S) /\ \A k \in 1 .. Len(gap[n]) : gap[n][k] # DSML
    BY <1>4, <2>1
  <2> HIDE DEF gap, op, body, texts, n
  <2>3. QED  BY <1>1, <1>3, <1>5, <1>6, <1>7, <2>2 DEF Listed
<1>9. FindAll(gap[0] \o FlattenSeq(texts), ParamStarts, ParamEnd)
        = [i \in 1 .. n |-> [open |-> op[i], body |-> body[i]]]
  <2> HIDE DEF gap, op, body, texts, n
  <2>1. QED  BY <1>8, ListFound
<1>10. gap[0] \o FlattenSeq(texts) = BodyText(c)
  <2>1. gap[0] = c.lead
    BY <1>1
  <2>2. QED  BY <2>1 DEF BodyText
<1> DEFINE found == FindAll(BodyText(c), ParamStarts, ParamEnd)
<1>11. found = [i \in 1 .. n |-> [open |-> op[i], body |-> body[i]]]
  BY <1>9, <1>10
<1>12. \A i \in 1 .. n : Last(op[i]) = c.params[i].key /\ body[i] = c.params[i].text
  <2> TAKE i \in 1 .. n
  <2>1. c.params[i].key \in Params
    BY <1>1 DEF ParamIn, IsParam
  <2>2. QED  BY <1>5, <2>1
<1>13. BodyText(c) \in Seq(S)
  <2>1. FlattenSeq(texts) \in Seq(S)
    BY <1>1, FlattenTyped
  <2> DEFINE f == FlattenSeq(texts)
  <2> HIDE DEF f
  <2>2. c.lead \o f \in Seq(S)
    BY <1>2, <2>1 DEF f
  <2>3. QED  BY <2>2 DEF BodyText, f
<1> HIDE DEF op, body, gap, texts
<1>14. /\ DOMAIN found = 1 .. n
       /\ \A i \in 1 .. n : found[i].open = op[i] /\ found[i].body = body[i]
  BY <1>11
<1>15. ParsedParams(BodyText(c))
         = DictOf([i \in DOMAIN found |-> [key |-> Last(found[i].open), text |-> found[i].body]])
  BY DEF ParsedParams
<1> HIDE DEF found
<1> DEFINE entries == [i \in 1 .. n |-> [key |-> c.params[i].key, text |-> c.params[i].text]]
<1>16. [i \in DOMAIN found |-> [key |-> Last(found[i].open), text |-> found[i].body]] = entries
  BY <1>12, <1>14
<1>17. DictOf(entries) = entries
  <2>1. \A h, i \in 1 .. n : c.params[h].key = c.params[i].key => h = i
    BY DEF CallIn, IsCall
  <2>2. \A i \in 1 .. n : entries[i].key = c.params[i].key
    OBVIOUS
  <2>3. entries = [i \in 1 .. n |-> entries[i]]
    OBVIOUS
  <2>4. n \in Nat
    BY <1>1
  <2> HIDE DEF entries, n
  <2>5. QED  BY <2>1, <2>2, <2>3, <2>4, DictIs
<1>18. ParsedParams(BodyText(c)) = entries
  BY <1>15, <1>16, <1>17
<1>19. QED  BY <1>13, <1>18

\* The parts of the txt of a call.
LEMMA CallTextTyped ==
    ASSUME NEW S, NEW c, CallIn(S, c)
    PROVE  /\ CallText(c) \in Seq(S)
           /\ InvokeMarker \o <<c.name>> \in Seq(S) /\ InvokeMarker \o <<c.name>> \in InvokeStarts
           /\ BodyText(c) \in Seq(S) /\ c.gap \in Seq(S) /\ c.lead \in Seq(S) /\ InvokeEnd \in Seq(S)
           /\ Occurrences(InvokeEnd, BodyText(c)) = {}
           /\ \A i \in 1 .. Len(c.gap) : c.gap[i] = WS /\ c.gap[i] # DSML
           /\ \A i \in 1 .. Len(c.lead) : c.lead[i] = WS
<1> DEFINE T == Seq(S)
           op == InvokeMarker \o <<c.name>>
           b == BodyText(c)
           g == c.gap
<1>1. /\ c.name \in Names /\ c.gap \in Spaces /\ c.lead \in Spaces
      /\ Occurrences(InvokeEnd, BodyText(c)) = {}
  BY DEF CallIn, IsCall
<1>2. op \in InvokeStarts
  BY <1>1 DEF InvokeStarts
<1>3. op \in T
  <2>1. Openers(InvokeStarts, S, 4)
    BY OpenersAre DEF CallIn
  <2> HIDE DEF op
  <2>2. QED  BY <1>2, <2>1 DEF Openers
<1>4. b \in T /\ g \in T /\ c.lead \in T
  BY ParsedIs DEF CallIn, CallTyped
<1>5. InvokeEnd \in T
  BY TagsTyped DEF CallIn
<1>6. WS \in S
  BY Zenon DEF CallIn, Marks
<1>9. /\ \A i \in 1 .. Len(c.gap) : c.gap[i] = WS /\ c.gap[i] # DSML
      /\ \A i \in 1 .. Len(c.lead) : c.lead[i] = WS
  BY <1>1, <1>6, SpacesTyped
<1>7. Joinable(T)
  BY SeqJoinable
<1> HIDE DEF T, op, b, g
<1>8. op \o (b \o (InvokeEnd \o g)) \in T
  BY <1>3, <1>4, <1>5, <1>7, ListText
<1>10. CallText(c) \in T
  BY <1>8 DEF CallText, op, b, g
<1>11. QED  BY <1>1, <1>2, <1>3, <1>4, <1>5, <1>9, <1>10 DEF T, op, b, g

\* The texts of the calls of a derivation.
LEMMA CallsTyped ==
    ASSUME NEW S, NEW d, AllTyped(S, d)
    PROVE  /\ CallTexts(d) \in Seq(Seq(S)) /\ Len(CallTexts(d)) = Len(d.calls)
           /\ \A j \in 1 .. Len(d.calls) : CallTexts(d)[j] = CallText(d.calls[j])
           /\ \A j \in 1 .. Len(d.calls) : CallIn(S, d.calls[j])
           /\ Len(d.calls) \in Nat
<1> DEFINE n == Len(d.calls)
           t(j) == CallText(d.calls[j])
<1>1. n \in Nat /\ \A j \in 1 .. n : CallIn(S, d.calls[j])
  BY DEF AllTyped, CallIn
<1>2. \A j \in 1 .. n : t(j) \in Seq(S)
  BY <1>1, CallTextTyped
<1>3. CallTexts(d) = [j \in 1 .. n |-> t(j)]
  BY DEF CallTexts
<1> DEFINE T == Seq(S)
<1> HIDE DEF t, T
<1>4. /\ CallTexts(d) \in Seq(T) /\ Len(CallTexts(d)) = n
      /\ \A j \in 1 .. n : CallTexts(d)[j] = t(j)
  <2>1. \A j \in 1 .. n : t(j) \in T
    BY <1>2 DEF T
  <2>2. n \in Nat
    BY <1>1
  <2> HIDE DEF n
  <2>3. QED  BY <1>3, <2>1, <2>2
<1>5. QED  BY <1>1, <1>4 DEF t, T

\* The one-shot parser finds the invokes of a block.
LEMMA InvokesFound ==
    ASSUME NEW S, NEW d, AllTyped(S, d), d.lead \in Spaces
    PROVE  /\ FindAll(InnerText(d), InvokeStarts, InvokeEnd) =
                [j \in 1 .. Len(d.calls) |-> [open |-> InvokeMarker \o <<d.calls[j].name>>,
                                              body |-> BodyText(d.calls[j])]]
           /\ InnerText(d) \in Seq(S)
<1> DEFINE n == Len(d.calls)
           texts == CallTexts(d)
           gap == [j \in 0 .. n |-> IF j = 0 THEN d.lead ELSE d.calls[j].gap]
           op == [j \in 1 .. n |-> InvokeMarker \o <<d.calls[j].name>>]
           body == [j \in 1 .. n |-> BodyText(d.calls[j])]
<1>1. /\ texts \in Seq(Seq(S)) /\ Len(texts) = n /\ n \in Nat
      /\ \A j \in 1 .. n : texts[j] = CallText(d.calls[j])
      /\ \A j \in 1 .. n : CallIn(S, d.calls[j])
  BY CallsTyped
<1>2. /\ Marks \cup Names \cup Params \subseteq S
      /\ d.lead \in Spaces /\ d.lead \in Seq(S) /\ WS \in S
  BY Zenon DEF AllTyped, Marks
<1>3. \A j \in 1 .. n : /\ op[j] \in InvokeStarts /\ body[j] \in Seq(S)
                        /\ Occurrences(InvokeEnd, body[j]) = {}
                        /\ texts[j] = op[j] \o (body[j] \o (InvokeEnd \o gap[j]))
  <2> TAKE j \in 1 .. n
  <2>1. j # 0 /\ j \in 0 .. n
    BY <1>1
  <2>2. op[j] = InvokeMarker \o <<d.calls[j].name>> /\ body[j] = BodyText(d.calls[j])
        /\ gap[j] = d.calls[j].gap
    BY <2>1
  <2>3. CallIn(S, d.calls[j])
    BY <1>1
  <2> DEFINE c == d.calls[j]
  <2> HIDE DEF c, op, body, gap
  <2>4. /\ InvokeMarker \o <<c.name>> \in InvokeStarts /\ BodyText(c) \in Seq(S)
        /\ Occurrences(InvokeEnd, BodyText(c)) = {}
    BY <2>3, CallTextTyped DEF c
  <2>5. texts[j] = (InvokeMarker \o <<c.name>>) \o (BodyText(c) \o (InvokeEnd \o c.gap))
    BY <1>1, Zenon DEF CallText, c
  <2>6. QED  BY <2>2, <2>4, <2>5, Zenon DEF c
<1>4. \A j \in 0 .. n : /\ gap[j] \in Seq(S)
                        /\ \A k \in 1 .. Len(gap[j]) : gap[j][k] # DSML
  <2> TAKE j \in 0 .. n
  <2>1. CASE j = 0
    BY <1>2, <2>1, SpacesTyped
  <2>2. CASE j # 0
    <3>1. j \in 1 .. n /\ gap[j] = d.calls[j].gap
      BY <1>1, <2>2
    <3>2. CallIn(S, d.calls[j])
      BY <1>1, <3>1
    <3> DEFINE c == d.calls[j]
    <3> HIDE DEF c, gap
    <3>3. c.gap \in Seq(S) /\ \A k \in 1 .. Len(c.gap) : c.gap[k] # DSML
      BY <3>2, CallTextTyped DEF c
    <3>4. QED  BY <3>1, <3>3 DEF c
  <2>3. QED  BY <2>1, <2>2
<1>5. Openers(InvokeStarts, S, 4)
  BY <1>2, OpenersAre
<1>6. InvokeEnd \in Seq(S) /\ StartsOnce(InvokeEnd)
  BY <1>2, TagsTyped, TagsStartOnce
<1>7. \A j \in 0 .. n - 1 : AMatch(S, InvokeStarts, 4, InvokeEnd, gap[j], op[j + 1], body[j + 1])
  <2> TAKE j \in 0 .. n - 1
  <2>1. j \in 0 .. n /\ j + 1 \in 1 .. n
    BY <1>1
  <2> HIDE DEF gap, op, body
  <2>2. QED  BY <1>3, <1>4, <1>5, <1>6, <2>1 DEF AMatch
<1>8. Listed(S, InvokeStarts, 4, InvokeEnd, n, gap, op, body, texts)
  <2>1. n \in 0 .. n
    BY <1>1
  <2>2. gap[n] \in Seq(S) /\ \A k \in 1 .. Len(gap[n]) : gap[n][k] # DSML
    BY <1>4, <2>1
  <2> HIDE DEF gap, op, body, texts, n
  <2>3. QED  BY <1>1, <1>3, <1>5, <1>6, <1>7, <2>2 DEF Listed
<1>9. FindAll(gap[0] \o FlattenSeq(texts), InvokeStarts, InvokeEnd)
        = [j \in 1 .. n |-> [open |-> op[j], body |-> body[j]]]
  <2> HIDE DEF gap, op, body, texts, n
  <2>1. QED  BY <1>8, ListFound
<1>10. gap[0] \o FlattenSeq(texts) = InnerText(d)
  <2>1. gap[0] = d.lead
    BY <1>1
  <2>2. QED  BY <2>1 DEF InnerText
<1>11. InnerText(d) \in Seq(S)
  <2>1. FlattenSeq(texts) \in Seq(S)
    BY <1>1, FlattenTyped
  <2> DEFINE f == FlattenSeq(texts)
  <2> HIDE DEF f
  <2>2. d.lead \o f \in Seq(S)
    BY <1>2, <2>1 DEF f
  <2>3. QED  BY <2>2 DEF InnerText, f
<1>12. \A j \in 1 .. n : op[j] = InvokeMarker \o <<d.calls[j].name>>
                         /\ body[j] = BodyText(d.calls[j])
  OBVIOUS
<1> HIDE DEF op, body, gap, texts
<1>13. FindAll(InnerText(d), InvokeStarts, InvokeEnd) =
         [j \in 1 .. n |-> [open |-> op[j], body |-> body[j]]]
  BY <1>9, <1>10
<1>14. [j \in 1 .. n |-> [open |-> op[j], body |-> body[j]]] =
         [j \in 1 .. n |-> [open |-> InvokeMarker \o <<d.calls[j].name>>,
                            body |-> BodyText(d.calls[j])]]
  BY <1>12
<1>15. QED  BY <1>11, <1>13, <1>14

\* The arguments of a whole call are those of its entries.
LoneWrapper(c) ==
    Len(c.params) = 1 /\ c.params[1].key \in Wrappers /\ c.params[1].text = <<INNER>>
TextBefore(i) == IF i = 1 THEN <<>> ELSE <<"{">>

\* The entries of the arguments of a call, one by one and together.
LEMMA EntriesTyped ==
    ASSUME NEW S, NEW c, CallIn(S, c)
    PROVE  /\ DOMAIN Entries(c) = 1 .. Len(c.params)
           /\ EntryTexts(c) \in Seq(Seq(S)) /\ Len(EntryTexts(c)) = Len(c.params)
           /\ WithEntries(<<>>, Entries(c)) = ArgsAfter(c, Len(c.params))
           /\ \A i \in 1 .. Len(c.params) :
                /\ Prefix(TextBefore(i), c.params[i].key) \in Seq(S)
                /\ Converted(c.params[i].key, c.params[i].text) \in Seq(S)
                /\ Len(EntryTexts(c)[i]) > 0
                /\ ~LoneWrapper(c) =>
                     EntryTexts(c)[i] = Prefix(TextBefore(i), c.params[i].key)
                                          \o Converted(c.params[i].key, c.params[i].text)
<1> DEFINE n == Len(c.params)
           raw == [i \in 1 .. n |-> [key |-> c.params[i].key, text |-> c.params[i].text]]
           lone == n = 1 /\ raw[1].key \in Wrappers /\ raw[1].text = <<INNER>>
           E == Entries(c)
           head(i) == TextBefore(i)
           t(i) == Prefix(head(i), E[i].key) \o E[i].json
<1>1. /\ n \in Nat /\ Marks \cup Names \cup Params \subseteq S
      /\ \A i \in 1 .. n : c.params[i].key \in Params /\ c.params[i].key \in S
                           /\ c.params[i].text \in Seq(S)
  <2>1. n \in Nat /\ Marks \cup Names \cup Params \subseteq S
    BY DEF CallIn, CallTyped
  <2>2. \A i \in 1 .. n : ParamTyped(S, c.params[i]) /\ IsParam(c.params[i])
    BY DEF CallIn, CallTyped
  <2>3. QED  BY <2>1, <2>2 DEF ParamTyped, IsParam
<1>2. /\ QUOTE \in S /\ COERCED \in S /\ FIELD \in S /\ WORD \in S /\ "{" \in S /\ "," \in S
  BY <1>1, Zenon DEF Marks
<1>3. Len(raw) = n /\ DOMAIN raw = 1 .. n
      /\ \A i \in 1 .. n : raw[i].key = c.params[i].key /\ raw[i].text = c.params[i].text
  BY <1>1
<1>4. E = IF lone THEN <<[key |-> FIELD, json |-> <<WORD>>]>>
          ELSE [i \in DOMAIN raw |-> [key |-> raw[i].key, json |-> Converted(raw[i].key, raw[i].text)]]
  <2>1. E = Unwrapped(raw)
    BY DEF Entries
  <2> HIDE DEF raw, n, E
  <2>2. QED  BY <1>3, <2>1 DEF Unwrapped
<1> HIDE DEF raw, E
<1>5. ASSUME NEW p \in Params, p \in S, NEW txt \in Seq(S) PROVE Converted(p, txt) \in Seq(S)
  <2>1. <<COERCED>> \in Seq(S) /\ <<QUOTE>> \in Seq(S)
    <3>1. QUOTE \in S /\ COERCED \in S
      BY <1>2, Zenon
    <3>2. QED  BY <3>1, OnePiece
  <2>2. <<COERCED>> \o txt \in Seq(S) /\ <<QUOTE>> \o txt \in Seq(S)
    BY <2>1
  <2> DEFINE q == <<QUOTE>> \o txt
             r == <<QUOTE>>
  <2> HIDE DEF q, r
  <2>3. q \o r \in Seq(S)
    BY <2>1, <2>2 DEF q, r
  <2>4. Quoted(txt) \in Seq(S)
    BY <2>3 DEF Quoted, q, r
  <2>5. QED  BY <2>2, <2>4 DEF Converted
<1>6. /\ DOMAIN E = 1 .. n
      /\ \A i \in 1 .. n : E[i].key \in S /\ E[i].json \in Seq(S)
  <2>1. CASE lone
    <3>1. E = <<[key |-> FIELD, json |-> <<WORD>>]>> /\ n = 1
      BY <1>4, <2>1
    <3>2. <<WORD>> \in Seq(S)
      BY <1>2, OnePiece, Zenon
    <3> DEFINE e == [key |-> FIELD, json |-> <<WORD>>]
    <3>3. e.key \in S /\ e.json \in Seq(S)
      BY <1>2, <3>2, Zenon
    <3>4. E = <<e>>
      BY <3>1
    <3> HIDE DEF e
    <3>5. DOMAIN <<e>> = 1 .. 1 /\ <<e>>[1] = e /\ \A i \in 1 .. 1 : i = 1
      OBVIOUS
    <3>6. DOMAIN E = 1 .. n /\ E[1] = e /\ \A i \in 1 .. n : i = 1
      BY <3>1, <3>4, <3>5
    <3>7. QED  BY <3>3, <3>6
  <2>2. CASE ~lone
    <3>1. E = [i \in 1 .. n |-> [key |-> raw[i].key, json |-> Converted(raw[i].key, raw[i].text)]]
      BY <1>3, <1>4, <2>2
    <3>2. \A i \in 1 .. n : E[i].key = c.params[i].key
                            /\ E[i].json = Converted(c.params[i].key, c.params[i].text)
      BY <1>3, <3>1
    <3>3. QED  BY <1>1, <1>5, <3>1, <3>2
  <2>3. QED  BY <2>1, <2>2
<1>14. ASSUME NEW h, NEW k \in S PROVE Prefix(h, k) \in Seq(S) /\ Len(Prefix(h, k)) = 2
  <2> DEFINE x == Prefix(h, k)
  <2>1. k \in S /\ "{" \in S /\ "," \in S
    BY <1>2, <1>14, Zenon
  <2>2. /\ <<"{", k>> \in Seq(S) /\ Len(<<"{", k>>) = 2
        /\ <<",", k>> \in Seq(S) /\ Len(<<",", k>>) = 2
    BY <2>1, TwoPieces, Zenon
  <2>3. x = <<"{", k>> \/ x = <<",", k>>
    BY DEF Prefix
  <2> HIDE DEF x
  <2>4. x \in Seq(S) /\ Len(x) = 2
    BY <2>2, <2>3, Zenon
  <2>5. QED  BY <2>4 DEF x
<1>7. \A i \in 1 .. n : t(i) \in Seq(S) /\ Len(t(i)) > 0
  <2> TAKE i \in 1 .. n
  <2> DEFINE x == Prefix(head(i), E[i].key)
             y == E[i].json
  <2>1. x \in Seq(S) /\ Len(x) = 2
    BY <1>6, <1>14
  <2>2. y \in Seq(S)
    BY <1>6
  <2> HIDE DEF x, y
  <2>3. x \o y \in Seq(S) /\ Len(x \o y) = Len(x) + Len(y) /\ Len(y) \in Nat
    <3>1. x \in Seq(S) /\ y \in Seq(S)
      BY <2>1, <2>2
    <3>2. Len(y) \in Nat
      BY <3>1
    <3>3. x \o y \in Seq(S) /\ Len(x \o y) = Len(x) + Len(y)
      BY <3>1, Joined
    <3>4. QED  BY <3>2, <3>3
  <2>4. Len(x \o y) > 0
    <3> DEFINE z == x \o y
    <3> HIDE DEF z
    <3>1. Len(z) = Len(x) + Len(y)
      BY <2>3 DEF z
    <3>2. Len(z) > 0
      BY <2>1, <2>3, <3>1
    <3>3. QED  BY <3>2 DEF z
  <2>5. QED  BY <2>3, <2>4 DEF x, y
<1>8. EntryTexts(c) = [i \in 1 .. n |-> t(i)]
  BY DEF EntryTexts, E, TextBefore
<1>9. EntryTexts(c) \in Seq(Seq(S)) /\ Len(EntryTexts(c)) = n
  <2> DEFINE T == Seq(S)
  <2>1. \A i \in 1 .. n : t(i) \in T
    BY <1>7
  <2>2. n \in Nat
    BY <1>1
  <2> HIDE DEF n, t, T
  <2>3. EntryTexts(c) \in Seq(T) /\ Len(EntryTexts(c)) = n
    BY <1>8, <2>1, <2>2
  <2>4. QED  BY <2>3 DEF T
<1>10. WithEntries(<<>>, E) = FlattenSeq(EntryTexts(c))
  <2>1. WithEntries(<<>>, E) = <<>> \o FlattenSeq([i \in DOMAIN E |-> t(i)])
    BY DEF WithEntries, TextBefore
  <2>2. [i \in DOMAIN E |-> t(i)] = EntryTexts(c)
    BY <1>6, <1>8
  <2>3. FlattenSeq(EntryTexts(c)) \in Seq(S)
    BY <1>9, FlattenTyped
  <2> DEFINE f == FlattenSeq(EntryTexts(c))
  <2> HIDE DEF f
  <2>4. <<>> \o f = f
    BY <2>3, ConcatEmptySeq DEF f
  <2>5. QED  BY <2>1, <2>2, <2>4 DEF f
<1>11. Before(EntryTexts(c), n) = EntryTexts(c)
  <2> HIDE DEF n
  <2>1. QED  BY <1>9, FlattenEnds
<1>12. WithEntries(<<>>, E) = ArgsAfter(c, n)
  BY <1>10, <1>11 DEF ArgsAfter
<1>13. ASSUME NEW i \in 1 .. n
       PROVE  /\ Prefix(head(i), c.params[i].key) \in Seq(S)
              /\ Converted(c.params[i].key, c.params[i].text) \in Seq(S)
              /\ Len(EntryTexts(c)[i]) > 0
              /\ ~LoneWrapper(c) =>
                   EntryTexts(c)[i] = Prefix(head(i), c.params[i].key)
                                        \o Converted(c.params[i].key, c.params[i].text)
  <2>1. /\ Prefix(head(i), c.params[i].key) \in Seq(S)
        /\ Converted(c.params[i].key, c.params[i].text) \in Seq(S)
    BY <1>1, <1>5, <1>14
  <2>2. EntryTexts(c)[i] = t(i)
    <3> HIDE DEF t, n
    <3>1. QED  BY <1>8
  <2>3. ASSUME ~LoneWrapper(c)
        PROVE  E[i].key = c.params[i].key /\ E[i].json = Converted(c.params[i].key, c.params[i].text)
    <3>1. ~lone
      <4> SUFFICES ASSUME lone PROVE FALSE
        OBVIOUS
      <4>1. 1 \in 1 .. n
        BY <1>1
      <4>2. QED  BY <1>3, <2>3, <4>1 DEF LoneWrapper
    <3>2. E = [k \in 1 .. n |-> [key |-> raw[k].key, json |-> Converted(raw[k].key, raw[k].text)]]
      BY <1>3, <1>4, <3>1
    <3>3. QED  BY <1>3, <3>2
  <2>4. QED  BY <1>7, <2>1, <2>2, <2>3
<1>15. QED  BY <1>6, <1>9, <1>12, <1>13 DEF E, n, head

\* The same without the types of their parts.
LEMMA EntriesAre ==
    ASSUME NEW S, NEW c, CallIn(S, c)
    PROVE  /\ DOMAIN Entries(c) = 1 .. Len(c.params)
           /\ EntryTexts(c) \in Seq(Seq(S)) /\ Len(EntryTexts(c)) = Len(c.params)
           /\ WithEntries(<<>>, Entries(c)) = ArgsAfter(c, Len(c.params))
BY EntriesTyped

\* The one-shot parser reads the calls of a derivation in its txt.
LEMMA CallsOfInner ==
    ASSUME NEW S, NEW d, AllTyped(S, d), d.lead \in Spaces
    PROVE  CallsOf(InnerText(d)) = CallsIn(d)
<1> DEFINE n == Len(d.calls)
           found == FindAll(InnerText(d), InvokeStarts, InvokeEnd)
<1>1. found = [j \in 1 .. n |-> [open |-> InvokeMarker \o <<d.calls[j].name>>,
                                 body |-> BodyText(d.calls[j])]]
  BY InvokesFound
<1>2. /\ n \in Nat /\ \A j \in 1 .. n : CallIn(S, d.calls[j])
  BY CallsTyped
<1>3. CallsOf(InnerText(d)) =
        [j \in DOMAIN found |->
           [name |-> Last(found[j].open),
            args |-> Closed(WithEntries(<<>>, Unwrapped(ParsedParams(found[j].body))))]]
  BY DEF CallsOf
<1> HIDE DEF found
<1>4. \A f \in Names : Last(InvokeMarker \o <<f>>) = f
  BY OpenersAre, Zenon DEF AllTyped
<1>5. ASSUME NEW j \in 1 .. n
      PROVE  /\ Last(found[j].open) = d.calls[j].name
             /\ Closed(WithEntries(<<>>, Unwrapped(ParsedParams(found[j].body))))
                  = WholeCall(d.calls[j]).args
  <2> DEFINE c == d.calls[j]
  <2>1. CallIn(S, c) /\ c.name \in Names
    BY <1>2 DEF CallIn, IsCall
  <2>2. found[j].open = InvokeMarker \o <<c.name>> /\ found[j].body = BodyText(c)
    BY <1>1
  <2> HIDE DEF c
  <2>3. Last(found[j].open) = c.name
    BY <1>4, <2>1, <2>2
  <2>4. Unwrapped(ParsedParams(BodyText(c))) = Entries(c)
    BY <2>1, ParsedIs DEF Entries
  <2>5. WithEntries(<<>>, Entries(c)) = ArgsAfter(c, Len(c.params))
    BY <2>1, EntriesAre
  <2>6. QED  BY <2>2, <2>3, <2>4, <2>5 DEF WholeCall, c
<1>6. DOMAIN found = 1 .. n
  BY <1>1
<1>7. \A j \in 1 .. n : WholeCall(d.calls[j]) =
          [name |-> Last(found[j].open),
           args |-> Closed(WithEntries(<<>>, Unwrapped(ParsedParams(found[j].body))))]
  BY <1>5 DEF WholeCall
<1>8. QED  BY <1>3, <1>6, <1>7, Zenon DEF CallsIn

\* A txt with one match.
LEMMA OneBlock ==
    ASSUME NEW S, NEW opens, NEW L, NEW close, NEW g, NEW op, NEW b, NEW w,
           AMatch(S, opens, L, close, g, op, b), w \in Seq(S),
           \A i \in 1 .. Len(w) : w[i] # DSML
    PROVE  FindAll(GapThen(g, op, b, close, w), opens, close) = Match(op, b)
<1> DEFINE T == Seq(S)
           t == op \o (b \o (close \o w))
           gap == [i \in 0 .. 1 |-> IF i = 0 THEN g ELSE w]
           ops == [i \in 1 .. 1 |-> op]
           bodies == [i \in 1 .. 1 |-> b]
           texts == <<t>>
<1>1. Joinable(T)
  BY SeqJoinable
<1>2. op \in T /\ b \in T /\ close \in T /\ w \in T
  BY DEF AMatch, Openers
<1>3. t \in T
  <2> HIDE DEF T
  <2>1. QED  BY <1>1, <1>2, ListText
<1> HIDE DEF t
<1>4. texts \in Seq(T) /\ Len(texts) = 1 /\ texts[1] = t
  BY <1>3, OnePiece
<1>5. gap[0] = g /\ gap[1] = w /\ ops[1] = op /\ bodies[1] = b
  OBVIOUS
<1> HIDE DEF gap, ops, bodies, texts
<1>6. FlattenSeq(texts) = t
  BY <1>3, FlattenOne DEF texts
<1>7. (\A i \in 0 .. 1 - 1 : i = 0 /\ i + 1 = 1) /\ (\A i \in 1 .. 1 : i = 1) /\ 1 \in Nat
  OBVIOUS
<1>8. Openers(opens, S, L) /\ StartsOnce(close)
  BY DEF AMatch
<1>9. AMatch(S, opens, L, close, gap[0], ops[1], bodies[1])
  BY <1>5
<1>10. texts[1] = ops[1] \o (bodies[1] \o (close \o gap[1]))
  BY <1>4, <1>5 DEF t
<1>11. Listed(S, opens, L, close, 1, gap, ops, bodies, texts)
  <2>1. texts \in Seq(Seq(S)) /\ close \in Seq(S) /\ gap[1] \in Seq(S)
        /\ \A k \in 1 .. Len(gap[1]) : gap[1][k] # DSML
    BY <1>2, <1>4, <1>5
  <2>2. \A i \in 0 .. 1 - 1 : AMatch(S, opens, L, close, gap[i], ops[i + 1], bodies[i + 1])
    <3> TAKE i \in 0 .. 1 - 1
    <3>1. i = 0 /\ i + 1 = 1
      BY <1>7
    <3>2. QED  BY <1>9, <3>1
  <2>3. \A i \in 1 .. 1 : texts[i] = ops[i] \o (bodies[i] \o (close \o gap[i]))
    <3> TAKE i \in 1 .. 1
    <3>1. i = 1
      BY <1>7
    <3>2. QED  BY <1>10, <3>1
  <2> DEFINE one == 1
  <2>4. one \in Nat /\ Len(texts) = one
    BY <1>4
  <2>5. QED  BY <1>8, <2>1, <2>2, <2>3, <2>4, Zenon DEF Listed
<1>12. FindAll(gap[0] \o FlattenSeq(texts), opens, close)
         = [i \in 1 .. 1 |-> [open |-> ops[i], body |-> bodies[i]]]
  <2> DEFINE one == 1
  <2>1. Listed(S, opens, L, close, one, gap, ops, bodies, texts)
    BY <1>11
  <2> HIDE DEF one
  <2>2. FindAll(gap[0] \o FlattenSeq(texts), opens, close)
          = [i \in 1 .. one |-> [open |-> ops[i], body |-> bodies[i]]]
    BY <2>1, ListFound
  <2>3. QED  BY <2>2 DEF one
<1>13. gap[0] \o FlattenSeq(texts) = GapThen(g, op, b, close, w)
  BY <1>5, <1>6 DEF GapThen, t
<1> DEFINE m(i) == [open |-> ops[i], body |-> bodies[i]]
           r == [open |-> op, body |-> b]
<1>14. m(1) = r
  BY <1>5
<1> HIDE DEF m, r
<1>15. [i \in 1 .. 1 |-> m(i)] = <<r>>
  BY <1>14
<1>16. QED  BY <1>12, <1>13, <1>15 DEF Match, m, r

\* The parts of an output, and those of its block.
Laid3(T, o) == o.before \in T /\ o.opener \in T /\ o.block \in T /\ o.after \in T

\* The parts of an output are texts.
LEMMA PartsTyped ==
    ASSUME NEW o \in Outputs, NEW S, OutputPieces \subseteq S
    PROVE  Laid3(Seq(S), o)
<1> DEFINE X == Range(o.before) \cup Range(o.opener) \cup Range(o.block) \cup Range(o.after)
<1>1. X \subseteq OutputPieces
  BY DEF OutputPieces
<1>2. X \subseteq S
  BY <1>1
<1>3. /\ o.before \in Seq(Range(o.before)) /\ o.opener \in Seq(Range(o.opener))
      /\ o.block \in Seq(Range(o.block)) /\ o.after \in Seq(Range(o.after))
  BY OutputAssumption
<1>4. /\ Range(o.before) \subseteq S /\ Range(o.opener) \subseteq S
      /\ Range(o.block) \subseteq S /\ Range(o.after) \subseteq S
  BY <1>2
<1>5. /\ o.before \in Seq(S) /\ o.opener \in Seq(S)
      /\ o.block \in Seq(S) /\ o.after \in Seq(S)
  BY <1>3, <1>4, SeqWider
<1>6. QED  BY <1>5 DEF Laid3

Joined4(T, x, y, z, w) == Joinable(T) /\ x \in T /\ y \in T /\ z \in T /\ w \in T

\* Four texts, in either order.
LEMMA JoinsFour ==
    ASSUME NEW T, NEW x, NEW y, NEW z, NEW w, Joined4(T, x, y, z, w)
    PROVE  /\ ((x \o y) \o z) \o w = x \o (y \o (z \o w))
           /\ z \o w \in T /\ y \o (z \o w) \in T /\ x \o (y \o (z \o w)) \in T
<1>0. Joinable(T) /\ x \in T /\ y \in T /\ z \in T /\ w \in T
  BY DEF Joined4
<1> DEFINE v == z \o w
           u == x \o y
<1>1. v \in T /\ u \in T
  BY <1>0 DEF Joinable
<1>2. u \o v = (u \o z) \o w
  <2> HIDE DEF u
  <2>1. Joined3(T, u, z, w)
    BY <1>0, <1>1 DEF Joined3
  <2>2. QED  BY <2>1, JoinsThree
<1> HIDE DEF v
<1>3. y \o v \in T /\ x \o (y \o v) = u \o v
  <2>1. Joined3(T, x, y, v)
    BY <1>0, <1>1 DEF Joined3
  <2>2. QED  BY <2>1, JoinsThree
<1>4. x \o (y \o v) \in T
  <2> DEFINE t == y \o v
  <2>1. t \in T
    BY <1>3
  <2> HIDE DEF t
  <2>2. x \o t \in T
    BY <1>0, <2>1 DEF Joinable
  <2>3. QED  BY <2>2 DEF t
<1>5. QED  BY <1>1, <1>2, <1>3, <1>4 DEF u, v

\* The txt of an output from its parts, with its opener and with a whole one.
LEMMA TextIs ==
    ASSUME NEW T, NEW o, Joinable(T), Laid3(T, o), StartToken \in T
    PROVE  /\ TextOf(o) = o.before \o (o.opener \o (o.block \o o.after))
           /\ Intact(o) = o.before \o (StartToken \o (o.block \o o.after))
           /\ o.block \o o.after \in T /\ o.opener \o (o.block \o o.after) \in T
           /\ StartToken \o (o.block \o o.after) \in T
           /\ TextOf(o) \in T /\ Intact(o) \in T
<1> DEFINE x == o.before
           y == o.opener
           z == o.block
           w == o.after
           t == StartToken
<1>1. TextOf(o) = ((x \o y) \o z) \o w /\ Intact(o) = ((x \o t) \o z) \o w
  BY DEF TextOf, Intact
<1>2. Joined4(T, x, y, z, w) /\ Joined4(T, x, t, z, w)
  BY DEF Laid3, Joined4
<1> HIDE DEF x, y, z, w, t
<1>3. /\ ((x \o y) \o z) \o w = x \o (y \o (z \o w))
      /\ z \o w \in T /\ y \o (z \o w) \in T /\ x \o (y \o (z \o w)) \in T
  BY <1>2, JoinsFour
<1>4. /\ ((x \o t) \o z) \o w = x \o (t \o (z \o w))
      /\ t \o (z \o w) \in T /\ x \o (t \o (z \o w)) \in T
  BY <1>2, JoinsFour
<1>5. /\ TextOf(o) = x \o (y \o (z \o w)) /\ Intact(o) = x \o (t \o (z \o w))
      /\ TextOf(o) \in T /\ Intact(o) \in T
  <2> DEFINE a == ((x \o y) \o z) \o w
             b == ((x \o t) \o z) \o w
             p == x \o (y \o (z \o w))
             q == x \o (t \o (z \o w))
  <2>1. TextOf(o) = a /\ Intact(o) = b /\ a = p /\ b = q /\ p \in T /\ q \in T
    BY <1>1, <1>3, <1>4
  <2> HIDE DEF a, b, p, q
  <2>2. TextOf(o) = p /\ Intact(o) = q /\ TextOf(o) \in T /\ Intact(o) \in T
    BY <2>1
  <2>3. QED  BY <2>2 DEF p, q
<1>6. QED  BY <1>3, <1>4, <1>5 DEF x, y, z, w, t

\* A tag behind a txt without markup is the first of its kind.
LEMMA FirstTag ==
    ASSUME NEW S, NEW u \in Seq(S), NEW tag \in Seq(S), NEW w \in Seq(S),
           StartsOnce(tag), Occurrences(tag, u) = {}
    PROVE  LET txt == u \o (tag \o w)
           IN  /\ Find(txt, tag) = Len(u)
               /\ Before(txt, Len(u)) = u /\ From(txt, Len(u)) = tag \o w
<1> DEFINE v == tag \o w
           txt == u \o v
<1>1. v \in Seq(S) /\ txt \in Seq(S) /\ Len(u) \in Nat
  BY Joined
<1>2. Len(u) \in Occurrences(tag, txt) /\ \A q \in Occurrences(tag, txt) : q >= Len(u)
  BY FoundAtEnd
<1> HIDE DEF txt
<1>3. /\ Find(txt, tag) \in Int /\ (Find(txt, tag) < 0 <=> Occurrences(tag, txt) = {})
      /\ Find(txt, tag) >= 0 => /\ Find(txt, tag) \in Occurrences(tag, txt)
                                 /\ \A q \in Occurrences(tag, txt) : Find(txt, tag) =< q
  BY <1>1, FindIs
<1>4. Find(txt, tag) = Len(u)
  <2> DEFINE f == Find(txt, tag)
             n == Len(u)
             O == Occurrences(tag, txt)
  <2>1. f \in Int /\ (f < 0 <=> O = {}) /\ (f >= 0 => f \in O /\ \A q \in O : f =< q)
    BY <1>3
  <2>2. n \in O /\ (\A q \in O : q >= n) /\ n \in Nat
    BY <1>1, <1>2
  <2> HIDE DEF f, n, O
  <2>3. f >= 0
    BY <2>1, <2>2
  <2>4. f >= n /\ f =< n
    BY <2>1, <2>2, <2>3
  <2>5. f = n
    BY <2>1, <2>2, <2>4
  <2>6. QED  BY <2>5 DEF f, n
<1> HIDE DEF v
<1>5. Before(u \o v, Len(u)) = u /\ From(u \o v, Len(u)) = v
  <2>1. Len(u) \in 0 .. Len(u) /\ 0 \in 0 .. Len(v) /\ Len(u) + 0 = Len(u)
    BY <1>1
  <2>2. From(u \o v, Len(u) + 0) = From(v, 0) /\ Before(u \o v, Len(u)) = Before(u, Len(u))
    <3>1. 0 \in 0 .. Len(v) /\ Len(u) \in 0 .. Len(u)
      BY <1>1
    <3>2. QED  BY <1>1, <3>1, RestOfSecond, RestJoins
  <2>3. From(v, 0) = v /\ Before(u, Len(u)) = u
    <3>1. From(v, 0) = SubSeq(v, 1, Len(v)) /\ Before(u, Len(u)) = SubSeq(u, 1, Len(u))
      BY DEF From, Before
    <3>2. SubSeq(v, 1, Len(v)) = v /\ SubSeq(u, 1, Len(u)) = u
      BY <1>1
    <3>3. QED  BY <3>1, <3>2
  <2>4. QED  BY <2>1, <2>2, <2>3
<1>6. QED  BY <1>4, <1>5 DEF txt, v

\* A txt without a marker has no tag that is told by one.
LEMMA NoMarkerNoTag ==
    ASSUME NEW S, NEW u \in Seq(S), DSML \notin Range(u), NEW T, NEW tag \in Seq(T),
           NEW i \in 1 .. Len(tag), tag[i] = DSML
    PROVE  Occurrences(tag, u) = {}
<1> SUFFICES ASSUME NEW q \in Occurrences(tag, u) PROVE FALSE
  OBVIOUS
<1>1. q \in Nat /\ q + Len(tag) =< Len(u) /\ u[q + i] = tag[i]
  BY OccursPieces
<1>2. q + i \in 1 .. Len(u)
  BY <1>1
<1>3. u[q + i] \in Range(u)
  BY <1>2 DEF Range
<1>4. QED  BY <1>1, <1>3

\* An opener that lost no more than its "<".
LEMMA OpenerIs ==
    ASSUME NEW o \in Outputs, Len(o.opener) >= Len(Headless)
    PROVE  o.opener = StartToken \/ o.opener = Headless
<1> DEFINE s == o.opener
<1>1. s \in Seq(Range(s)) /\ IsSuffix(s, StartToken)
  BY OutputAssumption, Zenon
<1> DEFINE S == Range(s) \cup {LT, DSML, CALLS}
<1>2. Range(s) \subseteq S /\ {LT, DSML, CALLS} \subseteq S /\ {DSML, CALLS} \subseteq S
  OBVIOUS
<1> DEFINE U == Range(s)
<1> HIDE DEF S, U
<1>3. s \in Seq(S) /\ StartToken \in Seq(S) /\ Headless \in Seq(S)
  BY <1>1, <1>2, Tags, SeqWider DEF U
<1> HIDE DEF s
<1>4. Len(s) =< 3 /\ \A i \in 1 .. Len(s) : s[i] = StartToken[(3 - Len(s)) + i]
  <2> DEFINE t == StartToken
  <2>1. s \in Seq(S) /\ t \in Seq(S) /\ IsSuffix(s, t) /\ Len(t) = 3
    BY <1>1, <1>3, Tags DEF s
  <2> HIDE DEF t
  <2>2. Len(s) =< Len(t) /\ \A i \in 1 .. Len(s) : s[i] = t[(Len(t) - Len(s)) + i]
    BY <2>1, SuffixIs
  <2>3. QED  BY <2>1, <2>2 DEF t
<1>5. Len(s) \in Nat /\ Len(s) >= 2
  BY <1>3, Tags DEF s
<1>6. CASE Len(s) = 3
  <2>1. \A i \in 1 .. 3 : s[i] = StartToken[i]
    BY <1>4, <1>6
  <2>2. s = StartToken
    <3> DEFINE t == StartToken
    <3>1. t \in Seq(S) /\ Len(s) = Len(t) /\ \A i \in 1 .. Len(s) : s[i] = t[i]
      BY <1>3, <1>6, <2>1, Tags
    <3> HIDE DEF t
    <3>2. s = t
      BY <1>3, <3>1, SameSequence
    <3>3. QED  BY <3>2 DEF t
  <2>3. QED  BY <2>2 DEF s
<1>7. CASE Len(s) = 2
  <2>1. s[1] = StartToken[2] /\ s[2] = StartToken[3]
    BY <1>4, <1>7
  <2>2. \A i \in 1 .. 2 : i = 1 \/ i = 2
    OBVIOUS
  <2>3. \A i \in 1 .. 2 : s[i] = Headless[i]
    BY <2>1, <2>2, Tags
  <2>4. s = Headless
    <3> DEFINE t == Headless
    <3>1. t \in Seq(S) /\ Len(s) = Len(t) /\ \A i \in 1 .. Len(s) : s[i] = t[i]
      BY <1>3, <1>7, <2>3, Tags
    <3> HIDE DEF t
    <3>2. s = t
      BY <1>3, <3>1, SameSequence
    <3>3. QED  BY <3>2 DEF t
  <2>5. QED  BY <2>4 DEF s
<1>8. Len(s) = 3 \/ Len(s) = 2
  <2> DEFINE n == Len(s)
  <2>1. n =< 3 /\ n \in Nat /\ n >= 2
    BY <1>4, <1>5
  <2> HIDE DEF n
  <2>2. n = 3 \/ n = 2
    BY <2>1
  <2>3. QED  BY <2>2 DEF n
<1>9. QED  BY <1>6, <1>7, <1>8, Zenon

\* The "<" put back before a headless opener.
LEMMA OpenerWhole ==
    ASSUME NEW S, Marks \subseteq S, NEW u \in Seq(S), NEW w \in Seq(S)
    PROVE  /\ (u \o <<LT>>) \o (Headless \o w) = u \o (StartToken \o w)
           /\ <<LT>> \o Headless = StartToken
<1> DEFINE T == Seq(S)
           one == <<LT>>
<1>1. one \in T /\ Len(one) = 1 /\ one[1] = LT
  <2>1. LT \in S
    BY Zenon DEF Marks
  <2>2. QED  BY <2>1, OnePiece
<1>2. Headless \in T /\ StartToken \in T /\ Len(Headless) = 2 /\ Len(StartToken) = 3
  BY Tags, TagsTyped
<1>3. Joinable(T) /\ u \in T /\ w \in T
  BY SeqJoinable
<1> HIDE DEF one
<1>4. one \o Headless = StartToken
  <2>1. /\ one \o Headless \in Seq(S) /\ Len(one \o Headless) = Len(one) + Len(Headless)
        /\ \A i \in 1 .. Len(one) : (one \o Headless)[i] = one[i]
        /\ \A i \in 1 .. Len(Headless) : (one \o Headless)[Len(one) + i] = Headless[i]
    <3> DEFINE h == Headless
    <3>1. h \in Seq(S) /\ one \in Seq(S)
      BY <1>1, <1>2
    <3> HIDE DEF h
    <3>2. /\ one \o h \in Seq(S) /\ Len(one \o h) = Len(one) + Len(h)
          /\ \A i \in 1 .. Len(one) : (one \o h)[i] = one[i]
          /\ \A i \in 1 .. Len(h) : (one \o h)[Len(one) + i] = h[i]
      BY <3>1, Joined
    <3>3. QED  BY <3>2 DEF h
  <2> DEFINE r == one \o Headless
  <2> HIDE DEF r
  <2>2. r[1] = LT /\ r[2] = Headless[1] /\ r[3] = Headless[2] /\ Len(r) = 3
    <3>1. 1 \in 1 .. 1 /\ 1 \in 1 .. 2 /\ 2 \in 1 .. 2 /\ 1 + 1 = 2 /\ 1 + 2 = 3
      OBVIOUS
    <3>2. QED  BY <1>1, <1>2, <2>1, <3>1 DEF r
  <2>3. \A i \in 1 .. 3 : i = 1 \/ i = 2 \/ i = 3
    OBVIOUS
  <2>4. \A i \in 1 .. 3 : r[i] = StartToken[i]
    BY <2>2, <2>3, TagPiecesAre
  <2>5. r = StartToken
    <3>1. r \in Seq(S)
      BY <2>1 DEF r
    <3>2. QED  BY <1>2, <2>2, <2>4, <3>1, SameSequence
  <2>6. QED  BY <2>5 DEF r
<1> HIDE DEF T
<1>5. Joined4(T, u, one, Headless, w)
  BY <1>1, <1>2, <1>3 DEF Joined4
<1>6. ((u \o one) \o Headless) \o w = u \o (one \o (Headless \o w))
  <2> DEFINE h == Headless
  <2>1. Joined4(T, u, one, h, w)
    BY <1>5
  <2> HIDE DEF h
  <2>2. ((u \o one) \o h) \o w = u \o (one \o (h \o w))
    BY <2>1, JoinsFour, SMTT(30)
  <2>3. QED  BY <2>2 DEF h
<1>7. one \o (Headless \o w) = StartToken \o w
  <2>1. Joined3(T, one, Headless, w)
    BY <1>1, <1>2, <1>3 DEF Joined3
  <2>2. one \o (Headless \o w) = (one \o Headless) \o w
    BY <2>1, JoinsThree
  <2>3. QED  BY <1>4, <2>2
<1>8. (u \o one) \o (Headless \o w) = ((u \o one) \o Headless) \o w
  <2> DEFINE p == u \o one
  <2>1. p \in T
    BY <1>1, <1>3 DEF Joinable
  <2> HIDE DEF p
  <2>2. Joined3(T, p, Headless, w)
    BY <1>2, <1>3, <2>1 DEF Joined3
  <2>3. p \o (Headless \o w) = (p \o Headless) \o w
    BY <2>2, JoinsThree
  <2>4. QED  BY <2>3 DEF p
<1> DEFINE a == (u \o one) \o (Headless \o w)
           b == ((u \o one) \o Headless) \o w
           r == one \o (Headless \o w)
           q == StartToken \o w
<1>9. a = b /\ b = u \o r /\ r = q
  BY <1>6, <1>7, <1>8
<1> HIDE DEF a, b, r, q
<1>10. a = u \o q
  BY <1>9
<1>11. QED  BY <1>4, <1>10 DEF a, q, one

\* The one-shot parser makes of an output whose opener lost its "<" the
\* output whose opener is whole (lines 214-216).
LEMMA SplicedIs ==
    ASSUME NEW o \in Outputs, Opens(o), Len(o.opener) >= Len(Headless)
    PROVE  o.opener = StartToken \/ Spliced(TextOf(o)) = Intact(o)
<1> SUFFICES ASSUME o.opener # StartToken PROVE Spliced(TextOf(o)) = Intact(o)
  OBVIOUS
<1> DEFINE S == Pieces \cup Marks \cup OutputPieces
           u == o.before
           w == o.block \o o.after
           txt == TextOf(o)
<1>1. o.opener = Headless /\ DSML \notin Range(u) /\ Occurrences(StartToken, txt) = {}
  BY OpenerIs DEF Opens
<1>2. Marks \subseteq S /\ Laid3(Seq(S), o)
  <2>1. Marks \subseteq S /\ OutputPieces \subseteq S
    OBVIOUS
  <2> HIDE DEF S
  <2>2. QED  BY <2>1, PartsTyped
<1> HIDE DEF S
<1>3. /\ txt = u \o (Headless \o w) /\ Intact(o) = u \o (StartToken \o w)
      /\ w \in Seq(S) /\ u \in Seq(S) /\ txt \in Seq(S)
  <2> DEFINE T == Seq(S)
  <2>1. Joinable(T) /\ StartToken \in T /\ Laid3(T, o)
    BY <1>2, SeqJoinable, TagsTyped
  <2> HIDE DEF T
  <2>2. /\ TextOf(o) = o.before \o (o.opener \o (o.block \o o.after))
        /\ Intact(o) = o.before \o (StartToken \o (o.block \o o.after))
        /\ o.block \o o.after \in T /\ TextOf(o) \in T
    BY <2>1, TextIs
  <2>3. QED  BY <1>1, <2>1, <2>2 DEF Laid3, T
<1>4. StartsOnce(Headless) /\ Headless \in Seq(S) /\ Occurrences(Headless, u) = {}
  <2>1. StartsOnce(Headless) /\ Headless \in Seq(S)
    BY <1>2, TagsStartOnce, TagsTyped
  <2>2. 1 \in 1 .. Len(Headless) /\ Headless[1] = DSML
    BY Tags, TagPiecesAre
  <2>3. QED  BY <1>1, <1>3, <2>1, <2>2, NoMarkerNoTag
<1> HIDE DEF w
<1>5. Find(txt, Headless) = Len(u) /\ Before(txt, Len(u)) = u /\ From(txt, Len(u)) = Headless \o w
  <2> HIDE DEF txt, u
  <2> DEFINE t == u \o (Headless \o w)
  <2>1. Find(t, Headless) = Len(u) /\ Before(t, Len(u)) = u /\ From(t, Len(u)) = Headless \o w
    BY <1>3, <1>4, FirstTag
  <2>2. txt = t
    BY <1>3
  <2> HIDE DEF t
  <2>3. QED  BY <2>1, <2>2
<1>6. Find(txt, StartToken) < 0
  <2> HIDE DEF txt
  <2>1. QED  BY <1>1, <1>3, Tags, FindIs
<1>7. Len(u) >= 0
  BY <1>3
<1>8. Spliced(txt) = (u \o <<LT>>) \o (Headless \o w)
  <2> HIDE DEF txt, u
  <2> DEFINE v == Headless \o w
             p == u \o <<LT>>
  <2>1. Find(txt, StartToken) < 0 /\ Find(txt, Headless) >= 0
    BY <1>5, <1>6, <1>7
  <2>2. Spliced(txt) = (Before(txt, Find(txt, Headless)) \o <<LT>>)
                          \o From(txt, Find(txt, Headless))
    BY <2>1 DEF Spliced
  <2>3. QED  BY <1>5, <2>2
<1>9. (u \o <<LT>>) \o (Headless \o w) = u \o (StartToken \o w)
  BY <1>2, <1>3, OpenerWhole
<1> DEFINE a == (u \o <<LT>>) \o (Headless \o w)
           b == u \o (StartToken \o w)
<1>10. Spliced(txt) = a /\ a = b /\ Intact(o) = b
  BY <1>3, <1>8, <1>9
<1> HIDE DEF a, b
<1>11. QED  BY <1>10

\* Nothing is repaired in an output whose opener is whole.
LEMMA IntactStays ==
    ASSUME NEW o \in Outputs, Opens(o)
    PROVE  Spliced(Intact(o)) = Intact(o)
<1> DEFINE S == Pieces \cup Marks \cup OutputPieces
           T == Seq(S)
           u == o.before
           w == o.block \o o.after
           t == u \o (StartToken \o w)
<1>1. Marks \subseteq S /\ OutputPieces \subseteq S
  OBVIOUS
<1> HIDE DEF S
<1>2. Laid3(T, o) /\ StartToken \in T /\ Joinable(T) /\ StartsOnce(StartToken)
  BY <1>1, PartsTyped, TagsTyped, SeqJoinable, TagsStartOnce
<1>3. Intact(o) = t /\ w \in T /\ u \in T
  <2> HIDE DEF T
  <2>1. QED  BY <1>2, TextIs DEF Laid3
<1>4. Occurrences(StartToken, u) = {}
  <2>1. DSML \notin Range(u)
    BY DEF Opens
  <2>2. 2 \in 1 .. Len(StartToken) /\ StartToken[2] = DSML
    BY Tags, TagPiecesAre
  <2> HIDE DEF u
  <2>3. QED  BY <1>2, <1>3, <2>1, <2>2, NoMarkerNoTag
<1> HIDE DEF w, u
<1>5. Find(t, StartToken) = Len(u)
  BY <1>2, <1>3, <1>4, FirstTag
<1>6. Len(u) \in Nat
  BY <1>3
<1> HIDE DEF t
<1>7. Spliced(t) = t
  <2>1. ~(Find(t, StartToken) < 0)
    BY <1>5, <1>6
  <2>2. QED  BY <2>1 DEF Spliced
<1>8. QED  BY <1>3, <1>7

\* An output whose opener lost its "<" is read like the whole one.
LEMMA HeadlessRead ==
    ASSUME NEW o \in Outputs, Opens(o), Len(o.opener) >= Len(Headless)
    PROVE  ExtractToolCalls(TextOf(o)) = OneShotCalls[o]
<1>1. OneShotCalls[o] = ExtractToolCalls(Intact(o))
  BY DEF OneShotCalls
<1>2. CASE o.opener = StartToken
  <2>1. TextOf(o) = Intact(o)
    BY <1>2 DEF TextOf, Intact
  <2>2. QED  BY <1>1, <2>1
<1>3. CASE Spliced(TextOf(o)) = Intact(o)
  BY <1>1, <1>3, IntactStays DEF ExtractToolCalls
<1>4. QED  BY <1>2, <1>3, SplicedIs

\* The one-shot parser reads the calls of a well-formed output.
LEMMA OneShotIs ==
    ASSUME NEW o \in Outputs, NEW d, WellFormed(o, d)
    PROVE  OneShotCalls[o] = CallsIn(d)
<1> DEFINE S == Chars(d)
           T == Seq(S)
           g == o.before
           b == InnerText(d)
           w == o.after
           r == o.block \o o.after
<1>1. Opens(o) /\ IsDerivation(d) /\ o.block = b \o EndToken /\ DSML \notin Range(w)
  BY DEF WellFormed
<1>2. AllTyped(S, d) /\ d.lead \in Spaces /\ Occurrences(EndToken, b) = {}
  BY <1>1, DerivationTyped DEF IsDerivation
<1>3. Marks \subseteq S /\ OutputPieces \subseteq S
  BY DEF Chars
<1> HIDE DEF S
<1>4. Laid3(T, o) /\ StartToken \in T /\ EndToken \in T /\ Joinable(T) /\ StartsOnce(EndToken)
  BY <1>3, PartsTyped, TagsTyped, SeqJoinable, TagsStartOnce
<1>5. b \in T
  BY <1>2, InvokesFound
<1>6. Intact(o) = g \o (StartToken \o r) /\ r = b \o (EndToken \o w) /\ g \in T /\ w \in T
  <2>1. Intact(o) = g \o (StartToken \o r) /\ g \in T /\ w \in T
    <3> HIDE DEF T
    <3>1. QED  BY <1>4, TextIs DEF Laid3
  <2>2. r = (b \o EndToken) \o w
    BY <1>1
  <2> HIDE DEF T, b, w, g, r
  <2>3. Joined3(T, b, EndToken, w)
    BY <1>4, <1>5, <2>1 DEF Joined3
  <2>4. b \o (EndToken \o w) = (b \o EndToken) \o w
    BY <2>3, JoinsThree
  <2>5. QED  BY <2>1, <2>2, <2>4
<1>7. \A i \in 1 .. Len(g) : g[i] # DSML
  <2>1. DSML \notin Range(g)
    BY <1>1 DEF Opens
  <2> HIDE DEF g
  <2>2. QED  BY <1>6, <2>1 DEF Range
<1>8. \A i \in 1 .. Len(w) : w[i] # DSML
  <2> HIDE DEF w
  <2>2. QED  BY <1>1, <1>6 DEF Range
<1>9. Openers({StartToken}, S, 3)
  BY <1>4, Tags, TagPiecesAre DEF Openers
<1> HIDE DEF g, b, w, r
<1>10. AMatch(S, {StartToken}, 3, EndToken, g, StartToken, b)
  BY <1>2, <1>4, <1>5, <1>6, <1>7, <1>9 DEF AMatch
<1>11. Intact(o) = GapThen(g, StartToken, b, EndToken, w)
  BY <1>6 DEF GapThen
<1> DEFINE txt == Intact(o)
           blocks == FindAll(txt, {StartToken}, EndToken)
<1> HIDE DEF txt
<1>12. blocks = Match(StartToken, b)
  <2>1. FindAll(GapThen(g, StartToken, b, EndToken, w), {StartToken}, EndToken) = Match(StartToken, b)
    BY <1>6, <1>8, <1>10, OneBlock
  <2>2. QED  BY <1>11, <2>1 DEF txt
<1>13. DOMAIN blocks = 1 .. 1 /\ blocks[1].body = b
  BY <1>12 DEF Match
<1>14. Spliced(txt) = txt
  BY <1>1, IntactStays DEF txt
<1>15. ExtractToolCalls(txt) = FlattenSeq([i \in DOMAIN blocks |-> CallsOf(blocks[i].body)])
  BY <1>14 DEF ExtractToolCalls
<1> HIDE DEF blocks
<1> DEFINE c == CallsIn(d)
<1>16. CallsOf(b) = c
  BY <1>2, CallsOfInner DEF b
<1> HIDE DEF c
<1>17. [i \in DOMAIN blocks |-> CallsOf(blocks[i].body)] = <<c>>
  <2>1. \A i \in 1 .. 1 : i = 1
    OBVIOUS
  <2>2. \A i \in DOMAIN blocks : CallsOf(blocks[i].body) = c
    BY <1>13, <1>16, <2>1
  <2>3. QED  BY <1>13, <2>2
<1>18. FlattenSeq(<<c>>) = c
  <2>1. c \in Seq(Range(c))
    <3>1. Len(d.calls) \in Nat
      BY <1>2 DEF AllTyped
    <3> DEFINE n == Len(d.calls)
    <3> HIDE DEF n
    <3>2. c = [j \in 1 .. n |-> WholeCall(d.calls[j])] /\ n \in Nat
      BY <3>1 DEF CallsIn, c, n
    <3>3. QED  BY <3>2 DEF Range
  <2>2. QED  BY <2>1, FlattenOne
<1>19. QED  BY <1>15, <1>17, <1>18 DEF OneShotCalls, txt, c

\* An output of that derivation, of pieces in S.
OutputIn(S, o, d) ==
    /\ o \in Outputs /\ WellFormed(o, d) /\ AllTyped(S, d)
    /\ Marks \subseteq S /\ Pieces \subseteq S /\ Laid3(Seq(S), o)

\* A well-formed output and its derivation are made of the same pieces.
LEMMA OutputTyped ==
    ASSUME NEW o \in Outputs, NEW d, WellFormed(o, d)
    PROVE  OutputIn(Chars(d), o, d)
<1>1. AllTyped(Chars(d), d)
  BY DerivationTyped DEF WellFormed
<1>2. Marks \subseteq Chars(d) /\ Pieces \subseteq Chars(d) /\ OutputPieces \subseteq Chars(d)
  BY DEF Chars
<1>3. Laid3(Seq(Chars(d)), o)
  BY <1>2, PartsTyped
<1>4. QED  BY <1>1, <1>2, <1>3 DEF OutputIn

\* A tag, what it opens, the tag that closes it and the spaces behind.
Quad(op, b, c, g) == op \o (b \o (c \o g))
Joined5(T, op, b, c, g, f) ==
    Joinable(T) /\ op \in T /\ b \in T /\ c \in T /\ g \in T /\ f \in T

\* What follows the txt of a call or of a parameter is taken in behind its
\* gap.
LEMMA QuadJoins ==
    ASSUME NEW T, NEW op, NEW b, NEW c, NEW g, NEW f, Joined5(T, op, b, c, g, f)
    PROVE  Quad(op, b, c, g) \o f = Quad(op, b, c, g \o f) /\ g \o f \in T
<1>1. Joinable(T) /\ op \in T /\ b \in T /\ c \in T /\ g \in T /\ f \in T
  BY DEF Joined5
<1> DEFINE x == c \o g
           y == b \o x
           h == g \o f
           z == c \o h
           v == b \o z
<1>2. x \in T /\ h \in T /\ x \o f = z
  <2>1. Joined3(T, c, g, f)
    BY <1>1 DEF Joined3
  <2>2. QED  BY <2>1, JoinsThree
<1> HIDE DEF x, z
<1>3. y \in T /\ y \o f = v
  <2>1. Joined3(T, b, x, f)
    BY <1>1, <1>2 DEF Joined3
  <2>2. b \o x \in T /\ (b \o x) \o f = b \o (x \o f)
    BY <2>1, JoinsThree
  <2>3. QED  BY <1>2, <2>2
<1> HIDE DEF y, v
<1>4. (op \o y) \o f = op \o v
  <2>1. Joined3(T, op, y, f)
    BY <1>1, <1>3 DEF Joined3
  <2>2. (op \o y) \o f = op \o (y \o f)
    BY <2>1, JoinsThree
  <2>3. QED  BY <1>3, <2>2
<1>5. Quad(op, b, c, g) = op \o y /\ Quad(op, b, c, h) = op \o v
  BY DEF Quad, y, v, x, z
<1> HIDE DEF h
<1>6. Quad(op, b, c, g) \o f = Quad(op, b, c, h) /\ h \in T
  BY <1>2, <1>4, <1>5
<1>7. QED  BY <1>6 DEF h

\* A txt that continues a list, behind i elements of it.
Rest(texts, w, i) == FlattenSeq(From(texts, i)) \o w
AList(S, texts, w, i) ==
    texts \in Seq(Seq(S)) /\ w \in Seq(S) /\ i \in 0 .. Len(texts) - 1

\* The next txt of a list, and what is left behind it.
LEMMA RestNext ==
    ASSUME NEW S, NEW texts, NEW w, NEW i \in 0 .. Len(texts) - 1, AList(S, texts, w, i)
    PROVE  /\ Rest(texts, w, i) = texts[i + 1] \o Rest(texts, w, i + 1)
           /\ Rest(texts, w, i + 1) \in Seq(S) /\ texts[i + 1] \in Seq(S)
<1> DEFINE T == Seq(S)
           f == FlattenSeq(From(texts, i))
           g == FlattenSeq(From(texts, i + 1))
           x == texts[i + 1]
<1>1. f = x \o g /\ g \in T /\ x \in T
  BY FlattenNext DEF AList
<1>2. Joinable(T) /\ w \in T
  BY SeqJoinable DEF AList
<1> HIDE DEF T, f, g, x
<1>3. Joined3(T, x, g, w)
  BY <1>1, <1>2 DEF Joined3
<1>4. x \o (g \o w) = (x \o g) \o w /\ g \o w \in T
  BY <1>3, JoinsThree
<1>5. f \o w = x \o (g \o w)
  BY <1>1, <1>4
<1>6. Rest(texts, w, i) = f \o w /\ Rest(texts, w, i + 1) = g \o w
  BY DEF Rest, f, g
<1> DEFINE y == g \o w
<1>7. Rest(texts, w, i) = x \o y /\ Rest(texts, w, i + 1) = y /\ y \in T
  BY <1>4, <1>5, <1>6
<1> HIDE DEF y
<1>8. Rest(texts, w, i) = x \o Rest(texts, w, i + 1) /\ Rest(texts, w, i + 1) \in T
  BY <1>7
<1>9. QED  BY <1>1, <1>8 DEF x, T

\* What is left of a list is a txt.
LEMMA ListAllLeft ==
    ASSUME NEW S, NEW texts \in Seq(Seq(S)), NEW w \in Seq(S), NEW i \in 0 .. Len(texts)
    PROVE  FlattenSeq(From(texts, i)) \o w \in Seq(S)
<1> DEFINE f == FlattenSeq(From(texts, i))
<1>1. f \in Seq(S)
  <2>1. From(texts, i) \in Seq(Seq(S))
    BY Slices
  <2>2. QED  BY <2>1, FlattenTyped
<1> HIDE DEF f
<1>2. f \o w \in Seq(S)
  BY <1>1
<1>3. QED  BY <1>2 DEF f

\* Behind the last of a list is what follows it.
LEMMA ListOver ==
    ASSUME NEW S, NEW texts \in Seq(Seq(S)), NEW w \in Seq(S)
    PROVE  FlattenSeq(From(texts, Len(texts))) \o w = w
<1>1. FlattenSeq(From(texts, Len(texts))) = <<>>
  BY FlattenEnds
<1>2. <<>> \o w = w
  BY ConcatEmptySeq
<1>3. QED  BY <1>1, <1>2

\* What is left behind some of the calls is a txt.
LEMMA AfterCallsTyped ==
    ASSUME NEW S, NEW o, NEW d, OutputIn(S, o, d)
    PROVE  /\ EndToken \o o.after \in Seq(S)
           /\ \A j \in 0 .. Len(d.calls) : AfterCalls(o, d, j) \in Seq(S)
<1> DEFINE w == EndToken \o o.after
           texts == CallTexts(d)
<1>1. w \in Seq(S)
  <2>1. EndToken \in Seq(S) /\ o.after \in Seq(S)
    BY TagsTyped DEF OutputIn, Laid3
  <2>2. QED  BY <2>1, Joined
<1>2. texts \in Seq(Seq(S)) /\ Len(texts) = Len(d.calls)
  BY CallsTyped DEF OutputIn
<1> HIDE DEF w, texts
<1>3. ASSUME NEW j \in 0 .. Len(d.calls) PROVE FlattenSeq(From(texts, j)) \o w \in Seq(S)
  BY <1>1, <1>2, ListAllLeft
<1>4. QED  BY <1>1, <1>3 DEF AfterCalls, w, texts

\* What is left behind some of the parameters of a call is a txt.
LEMMA AfterParamsTyped ==
    ASSUME NEW S, NEW o, NEW d, OutputIn(S, o, d), NEW j \in 1 .. Len(d.calls)
    PROVE  /\ d.calls[j].gap \o AfterCalls(o, d, j) \in Seq(S)
           /\ InvokeEnd \o (d.calls[j].gap \o AfterCalls(o, d, j)) \in Seq(S)
           /\ \A i \in 0 .. Len(d.calls[j].params) : AfterParams(o, d, j, i) \in Seq(S)
<1> DEFINE a == AfterCalls(o, d, j)
           c == d.calls[j]
           g == c.gap
           x == g \o a
           w == InvokeEnd \o x
           texts == ParamTexts(c)
<1>0. CallIn(S, c)
  BY CallsTyped DEF OutputIn
<1>1. a \in Seq(S)
  <2>1. Len(d.calls) \in Nat
    BY DEF OutputIn, AllTyped
  <2>2. QED  BY <2>1, AfterCallsTyped
<1>2. texts \in Seq(Seq(S)) /\ Len(texts) = Len(c.params)
  BY <1>0, ParamsTyped
<1>3. g \in Seq(S) /\ InvokeEnd \in Seq(S)
  BY <1>0, CallTextTyped
<1> HIDE DEF a, g, texts
<1>4. x \in Seq(S)
  BY <1>1, <1>3, Joined
<1> HIDE DEF x
<1>5. w \in Seq(S)
  BY <1>3, <1>4, Joined
<1> HIDE DEF w
<1>6. ASSUME NEW i \in 0 .. Len(c.params) PROVE FlattenSeq(From(texts, i)) \o w \in Seq(S)
  BY <1>2, <1>5, ListAllLeft
<1>7. QED  BY <1>4, <1>5, <1>6 DEF AfterParams, w, x, g, a, texts

\* What follows the block's opener: the spaces, then the calls.
LEMMA BlockIs ==
    ASSUME NEW S, NEW o, NEW d, OutputIn(S, o, d)
    PROVE  /\ o.block \o o.after = d.lead \o AfterCalls(o, d, 0)
           /\ d.lead \in Seq(S) /\ o.after \in Seq(S)
<1> DEFINE T == Seq(S)
           f == FlattenSeq(CallTexts(d))
           w == o.after
           l == d.lead
<1>1. CallTexts(d) \in Seq(Seq(S)) /\ d.lead \in Seq(S) /\ o.after \in Seq(S) /\ EndToken \in Seq(S)
  BY CallsTyped, TagsTyped DEF OutputIn, AllTyped, Laid3
<1>2. f \in T
  BY <1>1, FlattenTyped
<1>3. o.block = (l \o f) \o EndToken
  BY DEF OutputIn, WellFormed, InnerText
<1>4. AfterCalls(o, d, 0) = f \o (EndToken \o w)
  BY <1>1, FlattenEnds DEF AfterCalls
<1>5. Joined4(T, l, f, EndToken, w)
  BY <1>1, <1>2, SeqJoinable DEF Joined4
<1> DEFINE e == EndToken
<1> HIDE DEF T, f, w, l, e
<1>6. ((l \o f) \o e) \o w = l \o (f \o (e \o w))
  <2>1. Joined4(T, l, f, e, w)
    BY <1>5 DEF e
  <2>2. QED  BY <2>1, JoinsFour
<1>7. o.block \o o.after = ((l \o f) \o e) \o w /\ AfterCalls(o, d, 0) = f \o (e \o w)
  BY <1>3, <1>4 DEF e, w
<1> DEFINE p == f \o (e \o w)
           q == ((l \o f) \o e) \o w
<1>8. q = l \o p /\ o.block \o o.after = q /\ AfterCalls(o, d, 0) = p
  BY <1>6, <1>7
<1> HIDE DEF p, q
<1>9. o.block \o o.after = l \o AfterCalls(o, d, 0)
  BY <1>8
<1>10. QED  BY <1>1, <1>9 DEF l

\* Behind the last call is the end token.
LEMMA CallsOver ==
    ASSUME NEW S, NEW o, NEW d, OutputIn(S, o, d)
    PROVE  AfterCalls(o, d, Len(d.calls)) = EndToken \o o.after
<1> DEFINE w == EndToken \o o.after
           texts == CallTexts(d)
<1>1. texts \in Seq(Seq(S)) /\ Len(texts) = Len(d.calls)
  BY CallsTyped DEF OutputIn
<1>2. w \in Seq(S)
  BY AfterCallsTyped
<1> HIDE DEF w, texts
<1>3. FlattenSeq(From(texts, Len(texts))) \o w = w
  BY <1>1, <1>2, ListOver, ZenonT(40)
<1>4. QED  BY <1>1, <1>3 DEF AfterCalls, w, texts

\* Behind the last parameter is the end of the invoke.
LEMMA ParamsOver ==
    ASSUME NEW S, NEW o, NEW d, OutputIn(S, o, d), NEW j \in 1 .. Len(d.calls)
    PROVE  AfterParams(o, d, j, Len(d.calls[j].params))
             = InvokeEnd \o (d.calls[j].gap \o AfterCalls(o, d, j))
<1> DEFINE c == d.calls[j]
           w == InvokeEnd \o (c.gap \o AfterCalls(o, d, j))
           texts == ParamTexts(c)
<1>1. CallIn(S, c)
  BY CallsTyped DEF OutputIn
<1>2. texts \in Seq(Seq(S)) /\ Len(texts) = Len(c.params)
  BY <1>1, ParamsTyped
<1>3. w \in Seq(S)
  BY AfterParamsTyped
<1> HIDE DEF w, texts
<1>4. FlattenSeq(From(texts, Len(texts))) \o w = w
  BY <1>2, <1>3, ListOver
<1>5. QED  BY <1>2, <1>4 DEF AfterParams, w, texts

\* The next call begins with its invoke, and its parameters follow.
LEMMA CallNext ==
    ASSUME NEW S, NEW o, NEW d, OutputIn(S, o, d), NEW j \in 0 .. Len(d.calls) - 1
    PROVE  AfterCalls(o, d, j)
             = (InvokeMarker \o <<d.calls[j + 1].name>>)
                 \o (d.calls[j + 1].lead \o AfterParams(o, d, j + 1, 0))
<1> DEFINE T == Seq(S)
           c == d.calls[j + 1]
           w == EndToken \o o.after
           texts == CallTexts(d)
           op == InvokeMarker \o <<c.name>>
           l == c.lead
           f == FlattenSeq(ParamTexts(c))
           g == c.gap
           e == InvokeEnd
           a == AfterCalls(o, d, j + 1)
           b == BodyText(c)
<1>1. /\ texts \in Seq(Seq(S)) /\ Len(texts) = Len(d.calls) /\ Len(d.calls) \in Nat
      /\ texts[j + 1] = CallText(c) /\ CallIn(S, c)
  <2>1. Len(d.calls) \in Nat
    BY CallsTyped DEF OutputIn
  <2>2. j + 1 \in 1 .. Len(d.calls)
    BY <2>1
  <2>3. QED  BY <2>1, <2>2, CallsTyped DEF OutputIn
<1>2. w \in T
  BY AfterCallsTyped
<1>3. AfterCalls(o, d, j) = texts[j + 1] \o a /\ a \in T
  <2> HIDE DEF w, texts
  <2>1. AList(S, texts, w, j) /\ j \in 0 .. Len(texts) - 1
    BY <1>1, <1>2 DEF AList
  <2>2. Rest(texts, w, j) = texts[j + 1] \o Rest(texts, w, j + 1)
        /\ Rest(texts, w, j + 1) \in Seq(S)
    BY <2>1, RestNext
  <2>3. AfterCalls(o, d, j) = Rest(texts, w, j) /\ a = Rest(texts, w, j + 1)
    BY DEF AfterCalls, Rest, w, texts
  <2> HIDE DEF a
  <2>4. QED  BY <2>2, <2>3
<1>4. op \in T /\ b \in T /\ e \in T /\ g \in T /\ l \in T
  BY <1>1, CallTextTyped
<1>5. f \in T /\ ParamTexts(c) \in Seq(Seq(S))
  BY <1>1, ParamsTyped, FlattenTyped
<1>6. b = l \o f /\ CallText(c) = op \o (b \o (e \o g))
  BY DEF BodyText, CallText
<1>7. AfterParams(o, d, j + 1, 0) = f \o (e \o (g \o a))
  BY <1>5, FlattenEnds DEF AfterParams
<1>8. Joinable(T)
  BY SeqJoinable
<1> HIDE DEF T, c, w, texts, op, l, f, g, e, a, b
<1>9. AfterCalls(o, d, j) = op \o (b \o (e \o (g \o a))) /\ g \o a \in T
  <2>1. Joined5(T, op, b, e, g, a)
    BY <1>3, <1>4, <1>8 DEF Joined5
  <2>2. Quad(op, b, e, g) \o a = Quad(op, b, e, g \o a) /\ g \o a \in T
    BY <2>1, QuadJoins
  <2>3. AfterCalls(o, d, j) = Quad(op, b, e, g) \o a
    BY <1>1, <1>3, <1>6 DEF Quad
  <2>4. AfterCalls(o, d, j) = Quad(op, b, e, g \o a)
    BY <2>2, <2>3
  <2>5. QED  BY <2>2, <2>4 DEF Quad
<1> DEFINE x == e \o (g \o a)
<1>10. x \in T
  <2> DEFINE y == g \o a
  <2>1. y \in T
    BY <1>9
  <2> HIDE DEF y
  <2>2. e \o y \in T
    BY <1>4, <1>8, <2>1 DEF Joinable
  <2>3. QED  BY <2>2 DEF y
<1>11. AfterCalls(o, d, j) = op \o (b \o x) /\ AfterParams(o, d, j + 1, 0) = f \o x
  BY <1>7, <1>9
<1> HIDE DEF x
<1>12. b \o x = l \o (f \o x)
  <2>1. Joined3(T, l, f, x)
    BY <1>4, <1>5, <1>8, <1>10 DEF Joined3
  <2>2. l \o (f \o x) = (l \o f) \o x
    BY <2>1, JoinsThree
  <2>3. QED  BY <1>6, <2>2
<1> DEFINE p == b \o x
           q == f \o x
<1>13. p = l \o q /\ AfterCalls(o, d, j) = op \o p /\ AfterParams(o, d, j + 1, 0) = q
  BY <1>11, <1>12
<1> HIDE DEF p, q
<1>14. AfterCalls(o, d, j) = op \o (l \o AfterParams(o, d, j + 1, 0))
  BY <1>13, Zenon
<1>15. QED  BY <1>14 DEF op, l, c

\* The next parameter begins with its tag, and its value follows.
LEMMA ParamNext ==
    ASSUME NEW S, NEW o, NEW d, OutputIn(S, o, d), NEW j \in 1 .. Len(d.calls),
           NEW i \in 0 .. Len(d.calls[j].params) - 1
    PROVE  /\ AfterParams(o, d, j, i)
                = <<LT, DSML, d.calls[j].params[i + 1].key>>
                    \o (d.calls[j].params[i + 1].text \o AfterValue(o, d, j, i + 1))
           /\ d.calls[j].params[i + 1].gap \o AfterParams(o, d, j, i + 1) \in Seq(S)
           /\ AfterValue(o, d, j, i + 1) \in Seq(S)
<1> DEFINE T == Seq(S)
           c == d.calls[j]
           p == c.params[i + 1]
           w == InvokeEnd \o (c.gap \o AfterCalls(o, d, j))
           texts == ParamTexts(c)
           op == <<LT, DSML, p.key>>
           b == p.text
           g == p.gap
           e == ParamEnd
           a == AfterParams(o, d, j, i + 1)
<1>1. /\ texts \in Seq(Seq(S)) /\ Len(texts) = Len(c.params) /\ Len(c.params) \in Nat
      /\ texts[i + 1] = ParamText(p) /\ ParamIn(S, p)
  <2>1. CallIn(S, c)
    BY CallsTyped DEF OutputIn
  <2> HIDE DEF c
  <2>2. Len(c.params) \in Nat
    BY <2>1, ParamsTyped
  <2>3. i + 1 \in 1 .. Len(c.params)
    BY <2>2 DEF c
  <2>4. QED  BY <2>1, <2>2, <2>3, ParamsTyped
<1>2. w \in T
  BY AfterParamsTyped
<1>3. AfterParams(o, d, j, i) = texts[i + 1] \o a /\ a \in T
  <2> HIDE DEF w, texts
  <2>1. AList(S, texts, w, i) /\ i \in 0 .. Len(texts) - 1
    BY <1>1, <1>2 DEF AList
  <2>2. Rest(texts, w, i) = texts[i + 1] \o Rest(texts, w, i + 1)
        /\ Rest(texts, w, i + 1) \in Seq(S)
    BY <2>1, RestNext
  <2>3. AfterParams(o, d, j, i) = Rest(texts, w, i) /\ a = Rest(texts, w, i + 1)
    BY DEF AfterParams, Rest, w, texts
  <2> HIDE DEF a
  <2>4. QED  BY <2>2, <2>3
<1>4. op \in T /\ b \in T /\ e \in T /\ g \in T
  <2> HIDE DEF p
  <2>1. QED  BY <1>1, ParamTextTyped
<1>6. ParamText(p) = op \o (b \o (e \o g))
  BY DEF ParamText
<1>7. AfterValue(o, d, j, i + 1) = e \o (g \o a)
  BY DEF AfterValue
<1>8. Joinable(T)
  BY SeqJoinable
<1> HIDE DEF T, c, w, texts, op, g, e, a, b, p
<1>9. AfterParams(o, d, j, i) = op \o (b \o (e \o (g \o a))) /\ g \o a \in T
  <2>1. Joined5(T, op, b, e, g, a)
    BY <1>3, <1>4, <1>8 DEF Joined5
  <2>2. Quad(op, b, e, g) \o a = Quad(op, b, e, g \o a) /\ g \o a \in T
    BY <2>1, QuadJoins
  <2>3. AfterParams(o, d, j, i) = Quad(op, b, e, g) \o a
    BY <1>1, <1>3, <1>6 DEF Quad
  <2>4. AfterParams(o, d, j, i) = Quad(op, b, e, g \o a)
    BY <2>2, <2>3
  <2>5. QED  BY <2>2, <2>4 DEF Quad
<1> DEFINE y == g \o a
<1>10. y \in T /\ AfterValue(o, d, j, i + 1) = e \o y
       /\ AfterParams(o, d, j, i) = op \o (b \o (e \o y))
  BY <1>7, <1>9
<1>11. e \o y \in T
  <2> HIDE DEF y
  <2>1. QED  BY <1>4, <1>8, <1>10 DEF Joinable
<1> HIDE DEF y
<1> DEFINE z == e \o y
<1>12. AfterValue(o, d, j, i + 1) = z /\ AfterParams(o, d, j, i) = op \o (b \o z) /\ z \in T
  BY <1>10, <1>11
<1> HIDE DEF z
<1>13. AfterParams(o, d, j, i) = op \o (b \o AfterValue(o, d, j, i + 1))
  BY <1>12
<1>14. QED  BY <1>9, <1>12, <1>13, Zenon DEF op, b, c, p, T, g, a

\* The front of a txt is a txt.
LEMMA FrontIs ==
    ASSUME NEW S, NEW txt \in Seq(S), NEW x \in Fronts(txt)
    PROVE  x \in Seq(S) /\ Len(x) \in 0 .. Len(txt)
<1>1. PICK k \in 0 .. Len(txt) : x = Before(txt, k)
  BY DEF Fronts
<1>2. Before(txt, k) \in Seq(S) /\ Len(Before(txt, k)) = k
  BY Slices
<1>3. QED  BY <1>1, <1>2

\* What a txt begins with is a front of it.
LEMMA FrontOf ==
    ASSUME NEW S, NEW x \in Seq(S), NEW y \in Seq(S)
    PROVE  x \in Fronts(x \o y)
<1> DEFINE txt == x \o y
<1>1. txt \in Seq(S) /\ Len(txt) = Len(x) + Len(y) /\ Len(x) \in Nat /\ Len(y) \in Nat
  BY Joined
<1>2. Before(txt, Len(x)) = x
  <2>1. Len(x) \in 0 .. Len(x)
    BY <1>1
  <2>2. Before(x \o y, Len(x)) = Before(x, Len(x))
    BY <2>1, RestJoins
  <2>3. Before(x, Len(x)) = x
    <3>1. Before(x, Len(x)) = SubSeq(x, 1, Len(x))
      BY DEF Before
    <3>2. SubSeq(x, 1, Len(x)) = x
      OBVIOUS
    <3>3. QED  BY <3>1, <3>2
  <2>4. QED  BY <2>2, <2>3
<1>3. Len(x) \in 0 .. Len(txt)
  <2> HIDE DEF txt
  <2>1. QED  BY <1>1
<1> HIDE DEF txt
<1>4. x \in Fronts(txt)
  BY <1>2, <1>3 DEF Fronts
<1>5. QED  BY <1>4 DEF txt

\* The pieces of a txt.
LEMMA RangeIs ==
    ASSUME NEW S, NEW s \in Seq(S)
    PROVE  Range(s) = {s[i] : i \in 1 .. Len(s)}
BY DEF Range

\* A txt of spaces, piece by piece.
LEMMA OnlySpaces ==
    ASSUME NEW S, WS \in S, NEW s \in Seq(S)
    PROVE  Range(s) \subseteq {WS} <=> \A i \in 1 .. Len(s) : s[i] = WS
<1>1. Range(s) = {s[i] : i \in 1 .. Len(s)}
  BY RangeIs
<1>2. QED  BY <1>1

\* Spaces and a rest are SpacesThen.
LEMMA ThenOf ==
    ASSUME NEW S, NEW s \in Seq(S), Range(s) \subseteq {WS}, NEW rest \in Seq(S)
    PROVE  SpacesThen(s \o rest, rest)
<1>1. s \in Fronts(s \o rest)
  BY FrontOf
<1> DEFINE txt == s \o rest
<1>2. txt = s \o rest /\ s \in Fronts(txt)
  BY <1>1
<1> HIDE DEF txt
<1>3. SpacesThen(txt, rest)
  BY <1>2 DEF SpacesThen
<1>4. QED  BY <1>3 DEF txt

\* So is the rest alone.
LEMMA ThenNone ==
    ASSUME NEW S, NEW rest \in Seq(S)
    PROVE  SpacesThen(rest, rest)
<1>1. <<>> \in Seq(S) /\ Range(<<>>) \subseteq {WS} /\ <<>> \o rest = rest
  BY ConcatEmptySeq DEF Range
<1>2. SpacesThen(<<>> \o rest, rest)
  BY <1>1, ThenOf
<1>3. QED  BY <1>1, <1>2

\* Behind the spaces there is a tag.
LEMMA ThenCases ==
    ASSUME NEW S, NEW b \in Seq(S), NEW t \in Seq(S), NEW rest \in Seq(S), WS \in S,
           Len(rest) > 0, rest[1] # WS, SpacesThen(b \o t, rest)
    PROVE  /\ b = <<>> => Len(t) > 0
           /\ b # <<>> /\ Head(b) # WS => b \o t = rest
           /\ b # <<>> /\ Head(b) = WS =>
                Tail(b) \in Seq(S) /\ SpacesThen(Tail(b) \o t, rest)
<1> DEFINE L == b \o t
<1>1. L \in Seq(S) /\ Len(L) = Len(b) + Len(t) /\ Len(b) \in Nat /\ Len(t) \in Nat
      /\ \A i \in 1 .. Len(b) : L[i] = b[i]
  BY Joined
<1>2. PICK s \in Fronts(L) : Range(s) \subseteq {WS} /\ L = s \o rest
  BY DEF SpacesThen
<1>3. s \in Seq(S) /\ Len(s) \in Nat
  <2> HIDE DEF L
  <2>1. s \in Seq(S)
    BY <1>1, FrontIs
  <2>2. QED  BY <2>1
<1>4. /\ Len(L) = Len(s) + Len(rest)
      /\ \A i \in 1 .. Len(s) : L[i] = s[i]
      /\ \A i \in 1 .. Len(rest) : L[Len(s) + i] = rest[i]
  BY <1>2, <1>3, Joined
<1>5. Len(rest) \in Nat
  OBVIOUS
<1>6. ASSUME b = <<>> PROVE Len(t) > 0
  <2>1. Len(b) = 0
    BY <1>6, Zenon
  <2> DEFINE lb == Len(b)
             lt == Len(t)
             ls == Len(s)
             lr == Len(rest)
             ll == Len(L)
  <2>2. ll = lb + lt /\ ll = ls + lr /\ lb = 0 /\ ls \in Nat /\ lr \in Nat /\ lr > 0 /\ lt \in Nat
    BY <1>1, <1>3, <1>4, <1>5, <2>1, Zenon
  <2> HIDE DEF lb, lt, ls, lr, ll
  <2>3. lt > 0
    BY <2>2
  <2>4. QED  BY <2>3 DEF lt
<1>7. ASSUME b # <<>> PROVE Len(b) > 0 /\ Head(b) = b[1] /\ L[1] = b[1]
  <2>1. Len(b) > 0 /\ Head(b) = b[1]
    BY <1>7
  <2> HIDE DEF L
  <2>2. QED  BY <1>1, <2>1
<1>8. ASSUME b # <<>>, Head(b) # WS PROVE L = rest
  <2>1. s = <<>>
    <3> SUFFICES ASSUME s # <<>> PROVE FALSE
      OBVIOUS
    <3>1. Len(s) > 0
      BY <1>3
    <3>2. 1 \in 1 .. Len(s)
      BY <1>3, <3>1
    <3>3. s[1] = WS
      BY <1>2, <3>2, <1>3, OnlySpaces
    <3> HIDE DEF L
    <3>4. L[1] = s[1]
      BY <1>4, <3>2
    <3>5. QED  BY <1>7, <1>8, <3>3, <3>4
  <2>2. <<>> \o rest = rest
    BY ConcatEmptySeq
  <2> HIDE DEF L
  <2>3. QED  BY <1>2, <2>1, <2>2
<1>9. ASSUME b # <<>>, Head(b) = WS
      PROVE  Tail(b) \in Seq(S) /\ SpacesThen(Tail(b) \o t, rest)
  <2>1. s # <<>>
    <3> SUFFICES ASSUME s = <<>> PROVE FALSE
      OBVIOUS
    <3>1. Len(s) = 0
      OBVIOUS
    <3>4. 1 \in 1 .. Len(rest)
      BY <1>5
    <3> HIDE DEF L
    <3>5. L[Len(s) + 1] = rest[1]
      BY <1>4, <3>4
    <3>2. L[1] = rest[1]
      BY <3>1, <3>5
    <3>3. QED  BY <1>7, <1>9, <3>2
  <2>2. Len(s) > 0 /\ Tail(s) = From(s, 1) /\ Tail(b) = From(b, 1)
    <3>1. Len(s) > 0 /\ Len(b) > 0
      BY <1>3, <1>9, <2>1
    <3>2. Tail(s) = SubSeq(s, 2, Len(s)) /\ Tail(b) = SubSeq(b, 2, Len(b))
      BY <1>3, <1>9, <2>1, TailIsSubSeq
    <3>3. QED  BY <3>1, <3>2 DEF From
  <2>3. From(b, 1) \o t = From(s, 1) \o rest
    <3>1. 1 \in 0 .. Len(b) /\ 1 \in 0 .. Len(s)
      BY <1>1, <1>3, <1>7, <1>9, <2>2
    <3>2. From(b \o t, 1) = From(b, 1) \o t
      BY <3>1, RestJoins
    <3>3. From(s \o rest, 1) = From(s, 1) \o rest
      BY <1>3, <3>1, RestJoins
    <3> DEFINE q == From(b, 1) \o t
               r == From(s, 1) \o rest
               u == s \o rest
    <3>4. L = u /\ From(L, 1) = q /\ From(u, 1) = r
      BY <1>2, <3>2, <3>3
    <3> HIDE DEF L, q, r, u
    <3>5. q = r
      BY <3>4
    <3>6. QED  BY <3>5 DEF q, r
  <2>4. From(s, 1) \in Seq(S) /\ From(b, 1) \in Seq(S) /\ Range(From(s, 1)) \subseteq {WS}
    <3>1. 1 \in 0 .. Len(s) /\ 1 \in 0 .. Len(b)
      BY <1>1, <1>3, <1>7, <1>9, <2>2
    <3>2. /\ From(s, 1) \in Seq(S) /\ Len(From(s, 1)) = Len(s) - 1
          /\ \A i \in 1 .. Len(s) - 1 : From(s, 1)[i] = s[i + 1]
          /\ From(b, 1) \in Seq(S)
      BY <1>3, <3>1, Slices
    <3>3. \A i \in 1 .. Len(s) : s[i] = WS
      BY <1>2, <1>3, OnlySpaces
    <3> DEFINE f == From(s, 1)
    <3> HIDE DEF f
    <3>4. \A i \in 1 .. Len(f) : f[i] = WS
      <4> TAKE i \in 1 .. Len(f)
      <4>1. i \in 1 .. Len(s) - 1 /\ i + 1 \in 1 .. Len(s)
        BY <1>3, <3>2 DEF f
      <4>2. QED  BY <3>2, <3>3, <4>1 DEF f
    <3>5. QED  BY <3>2, <3>4, OnlySpaces DEF f
  <2> DEFINE f == From(s, 1)
  <2>5. SpacesThen(f \o rest, rest)
    <3> HIDE DEF f
    <3>1. QED  BY <2>4, ThenOf DEF f
  <2>6. QED  BY <2>2, <2>3, <2>4, <2>5
<1>10. QED  BY <1>6, <1>8, <1>9

\* A tag at the front of the buffer begins what is left.
TwoTagsAt(S, b, t, tag, other, w) ==
    /\ b \in Seq(S) /\ t \in Seq(S) /\ tag \in Seq(S) /\ IsPrefix(tag, b)
    /\ other \in Seq(S) /\ w \in Seq(S) /\ b \o t = other \o w

\* Two tags that begin at the same place agree as far as both go.
LEMMA TwoTags ==
    ASSUME NEW S, NEW b, NEW t, NEW tag, NEW other, NEW w, TwoTagsAt(S, b, t, tag, other, w)
    PROVE  \A i \in 1 .. Len(tag) : i =< Len(other) => tag[i] = other[i]
<1>0. /\ b \in Seq(S) /\ t \in Seq(S) /\ tag \in Seq(S) /\ IsPrefix(tag, b)
      /\ other \in Seq(S) /\ w \in Seq(S) /\ b \o t = other \o w
  BY DEF TwoTagsAt
<1> DEFINE L == b \o t
<1>1. L \in Seq(S) /\ \A i \in 1 .. Len(b) : L[i] = b[i]
  BY <1>0, Joined
<1>2. \A i \in 1 .. Len(other) : L[i] = other[i]
  <2>1. \A i \in 1 .. Len(other) : (other \o w)[i] = other[i]
    BY <1>0, Joined
  <2>2. QED  BY <1>0, <2>1
<1>3. Len(tag) =< Len(b) /\ SubSeq(b, 1, Len(tag)) = tag
  BY <1>0 DEF IsPrefix
<1>4. Len(tag) \in Nat /\ Len(b) \in Nat /\ Len(other) \in Nat
  BY <1>0
<1>5. \A i \in 1 .. Len(tag) : tag[i] = b[i]
  <2>1. \A i \in 1 .. Len(tag) : SubSeq(b, 1, Len(tag))[i] = b[i]
    BY <1>0, <1>3, <1>4
  <2>2. QED  BY <1>3, <2>1
<1> HIDE DEF L
<1>6. ASSUME NEW i \in 1 .. Len(tag), i =< Len(other) PROVE tag[i] = other[i]
  <2>1. i \in 1 .. Len(b) /\ i \in 1 .. Len(other)
    BY <1>3, <1>4, <1>6
  <2>2. QED  BY <1>1, <1>2, <1>5, <2>1
<1>7. QED  BY <1>3, <1>6

\* A txt that begins with a tag has it as a prefix.
LEMMA TagAhead ==
    ASSUME NEW S, NEW tag \in Seq(S), NEW w \in Seq(S)
    PROVE  IsPrefix(tag, tag \o w)
<1> DEFINE txt == tag \o w
<1>1. Before(txt, Len(tag)) = tag /\ Len(txt) = Len(tag) + Len(w)
      /\ Len(tag) \in Nat /\ Len(w) \in Nat
  <2>1. Len(tag) \in Nat /\ Len(w) \in Nat /\ Len(txt) = Len(tag) + Len(w)
    BY Joined
  <2>2. Before(txt, Len(tag)) = Before(tag, Len(tag))
    <3>1. Len(tag) \in 0 .. Len(tag)
      BY <2>1
    <3>2. QED  BY <3>1, RestJoins
  <2>3. Before(tag, Len(tag)) = tag
    <3>1. Before(tag, Len(tag)) = SubSeq(tag, 1, Len(tag))
      BY DEF Before
    <3>2. SubSeq(tag, 1, Len(tag)) = tag
      OBVIOUS
    <3>3. QED  BY <3>1, <3>2
  <2>4. QED  BY <2>1, <2>2, <2>3
<1> HIDE DEF txt
<1>2. IsPrefix(tag, txt)
  BY <1>1 DEF IsPrefix, Before
<1>3. QED  BY <1>2 DEF txt

\* The tag is taken off, and what follows it is left.
LEMMA TagTaken ==
    ASSUME NEW S, NEW b \in Seq(S), NEW t \in Seq(S), NEW tag \in Seq(S), NEW w \in Seq(S),
           b \o t = tag \o w, Len(tag) =< Len(b)
    PROVE  From(b, Len(tag)) \o t = w /\ From(b, Len(tag)) \in Seq(S)
<1>1. From(b, Len(tag)) \o t = w
  BY CutFront
<1>2. Len(tag) \in 0 .. Len(b)
  OBVIOUS
<1>3. QED  BY <1>1, <1>2, Slices

\* x without markup, a tag, and w.
Kind(S, left, x, tag, w) ==
    /\ x \in Seq(S) /\ tag \in Seq(S) /\ w \in Seq(S)
    /\ left = x \o (tag \o w)
    /\ DSML \notin Range(x) /\ StartsOnce(tag) /\ Occurrences(tag, x) = {}

FirstCall(o, d) == <<d.calls[1].name>> \o (d.calls[1].lead \o AfterParams(o, d, 1, 0))
WholeAhead(S, left, x, o) == Kind(S, left, x, StartToken, o.block \o o.after)
HeadlessAhead(S, left, x, o) ==
    /\ Occurrences(StartToken, left) = {}
    /\ x # <<>> => Last(x) \notin {LT, SLASH}
    /\ Kind(S, left, x, Headless, o.block \o o.after)
MarkerAhead(S, left, x, o, d) ==
    /\ Occurrences(StartToken, left) = {} /\ LT \notin Range(x)
    /\ Kind(S, left, x, InvokeMarker, FirstCall(o, d))

\* The block of an output begins with its first invoke, behind its spaces.
LEMMA FirstCallIs ==
    ASSUME NEW S, NEW o, NEW d, OutputIn(S, o, d)
    PROVE  /\ AfterCalls(o, d, 0) = InvokeMarker \o FirstCall(o, d)
           /\ FirstCall(o, d) \in Seq(S) /\ AfterCalls(o, d, 0) \in Seq(S)
           /\ o.block \o o.after \in Seq(S)
<1> DEFINE T == Seq(S)
           c == d.calls[1]
           m == InvokeMarker
           one == <<c.name>>
           l == c.lead
           a == AfterParams(o, d, 1, 0)
           r == l \o a
<1>1. Len(d.calls) \in Nat /\ Len(d.calls) > 0
  BY DEF OutputIn, AllTyped
<1>2. 1 \in 1 .. Len(d.calls) /\ 0 \in 0 .. Len(d.calls) - 1 /\ 0 \in 0 .. Len(d.calls) /\ 0 + 1 = 1
  BY <1>1
<1>3. CallIn(S, c)
  BY <1>2, CallsTyped DEF OutputIn
<1>4. AfterCalls(o, d, 0) = (m \o one) \o r
  <2>1. AfterCalls(o, d, 0)
          = (InvokeMarker \o <<d.calls[0 + 1].name>>)
              \o (d.calls[0 + 1].lead \o AfterParams(o, d, 0 + 1, 0))
    BY <1>2, CallNext
  <2>2. QED  BY <1>2, <2>1
<1>5. l \in T /\ m \in T /\ one \in T
  <2>1. l \in T
    <3> HIDE DEF c
    <3>1. QED  BY <1>3, CallTextTyped
  <2>2. c.name \in S
    BY <1>3 DEF CallIn, CallTyped
  <2>3. m \in T
    BY TagsTyped DEF OutputIn
  <2>4. QED  BY <2>1, <2>2, <2>3, OnePiece
<1>6. a \in T
  <2>1. Len(c.params) \in Nat
    BY <1>3 DEF CallIn, CallTyped
  <2>2. 0 \in 0 .. Len(c.params)
    BY <2>1
  <2>3. QED  BY <1>2, <2>2, AfterParamsTyped
<1>7. Joinable(T)
  BY SeqJoinable
<1>8. AfterCalls(o, d, 0) \in T
  BY <1>2, AfterCallsTyped
<1>9. o.block \o o.after \in T
  <2>1. o.block \in T /\ o.after \in T
    BY DEF OutputIn, Laid3
  <2> DEFINE x == o.block
             y == o.after
  <2> HIDE DEF T, x, y
  <2>2. x \o y \in T
    BY <1>7, <2>1 DEF Joinable, x, y
  <2>3. QED  BY <2>2 DEF x, y
<1>10. FirstCall(o, d) = one \o r
  BY DEF FirstCall
<1> HIDE DEF T, c, m, one, l, a
<1>11. r \in T
  BY <1>5, <1>6, <1>7 DEF Joinable
<1> HIDE DEF r
<1>12. Joined3(T, m, one, r)
  BY <1>5, <1>7, <1>11 DEF Joined3
<1>13. m \o (one \o r) = (m \o one) \o r /\ one \o r \in T
  BY <1>12, JoinsThree
<1>14. AfterCalls(o, d, 0) = m \o FirstCall(o, d) /\ FirstCall(o, d) \in T
  BY <1>4, <1>10, <1>13
<1>15. QED  BY <1>8, <1>9, <1>14 DEF m, T

\* What is ahead is one of the three.
LEMMA AheadIs ==
    ASSUME NEW S, NEW o, NEW d, OutputIn(S, o, d), NEW left \in Seq(S), OpenerAhead(left, o, d)
    PROVE  \E x \in Seq(S) : WholeAhead(S, left, x, o) \/ HeadlessAhead(S, left, x, o)
                             \/ MarkerAhead(S, left, x, o, d)
<1>1. PICK x \in Fronts(left) :
        /\ DSML \notin Range(x)
        /\ \/ left = x \o (StartToken \o (o.block \o o.after))
           \/ /\ Occurrences(StartToken, left) = {}
              /\ x # <<>> => Last(x) \notin {LT, SLASH}
              /\ left = x \o (Headless \o (o.block \o o.after))
           \/ /\ Occurrences(StartToken, left) = {} /\ LT \notin Range(x)
              /\ left = x \o AfterCalls(o, d, 0)
  BY Zenon DEF OpenerAhead
<1>2. x \in Seq(S)
  BY FrontIs
<1>3. /\ AfterCalls(o, d, 0) = InvokeMarker \o FirstCall(o, d)
      /\ FirstCall(o, d) \in Seq(S) /\ o.block \o o.after \in Seq(S)
  BY FirstCallIs
<1>4. /\ StartToken \in Seq(S) /\ Headless \in Seq(S) /\ InvokeMarker \in Seq(S)
      /\ StartsOnce(StartToken) /\ StartsOnce(Headless) /\ StartsOnce(InvokeMarker)
  BY TagsTyped, TagsStartOnce DEF OutputIn
<1>5. ASSUME NEW tag \in Seq(S), NEW i \in 1 .. Len(tag), tag[i] = DSML
      PROVE  Occurrences(tag, x) = {}
  BY <1>1, <1>2, <1>5, NoMarkerNoTag
<1>6. /\ Occurrences(StartToken, x) = {} /\ Occurrences(Headless, x) = {}
      /\ Occurrences(InvokeMarker, x) = {}
  <2>1. /\ 2 \in 1 .. Len(StartToken) /\ 1 \in 1 .. Len(Headless) /\ 2 \in 1 .. Len(InvokeMarker)
        /\ StartToken[2] = DSML /\ Headless[1] = DSML /\ InvokeMarker[2] = DSML
    BY Tags, TagPiecesAre
  <2>2. QED  BY <1>4, <1>5, <2>1
<1> DEFINE w == o.block \o o.after
           f == FirstCall(o, d)
<1> HIDE DEF w, f
<1>7. CASE left = x \o (StartToken \o (o.block \o o.after))
  <2>1. Kind(S, left, x, StartToken, w)
    BY <1>1, <1>2, <1>3, <1>4, <1>6, <1>7 DEF Kind, w
  <2>2. QED  BY <1>2, <2>1 DEF WholeAhead, w
<1>8. CASE /\ Occurrences(StartToken, left) = {}
           /\ x # <<>> => Last(x) \notin {LT, SLASH}
           /\ left = x \o (Headless \o (o.block \o o.after))
  <2>1. Kind(S, left, x, Headless, w)
    BY <1>1, <1>2, <1>3, <1>4, <1>6, <1>8 DEF Kind, w
  <2>2. QED  BY <1>2, <1>8, <2>1 DEF HeadlessAhead, w
<1>9. CASE /\ Occurrences(StartToken, left) = {} /\ LT \notin Range(x)
           /\ left = x \o AfterCalls(o, d, 0)
  <2>1. left = x \o (InvokeMarker \o f)
    BY <1>3, <1>9 DEF f
  <2>2. Kind(S, left, x, InvokeMarker, f)
    BY <1>1, <1>2, <1>3, <1>4, <1>6, <2>1 DEF Kind, f
  <2>3. QED  BY <1>2, <1>9, <2>2 DEF MarkerAhead, f
<1>10. QED  BY <1>1, <1>7, <1>8, <1>9

\* The three forms of what stands before a block are OpenerAhead.
LEMMA AheadFrom ==
    ASSUME NEW S, NEW o, NEW d, OutputIn(S, o, d), NEW left, NEW x,
           WholeAhead(S, left, x, o) \/ HeadlessAhead(S, left, x, o) \/ MarkerAhead(S, left, x, o, d)
    PROVE  OpenerAhead(left, o, d)
<1> DEFINE w == o.block \o o.after
           f == FirstCall(o, d)
<1>1. AfterCalls(o, d, 0) = InvokeMarker \o f
  BY FirstCallIs
<1>2. ASSUME NEW tag, NEW v, Kind(S, left, x, tag, v)
      PROVE  x \in Fronts(left) /\ DSML \notin Range(x)
  <2>1. x \in Seq(S) /\ tag \o v \in Seq(S) /\ left = x \o (tag \o v)
    BY <1>2, Joined DEF Kind
  <2> DEFINE y == tag \o v
  <2> HIDE DEF y
  <2>2. x \in Fronts(x \o y)
    BY <2>1, FrontOf DEF y
  <2>3. QED  BY <1>2, <2>1, <2>2 DEF Kind, y
<1> HIDE DEF w, f
<1>3. CASE WholeAhead(S, left, x, o)
  <2>1. Kind(S, left, x, StartToken, w)
    BY <1>3 DEF WholeAhead, w
  <2>2. left = x \o (StartToken \o (o.block \o o.after))
    BY <2>1 DEF Kind, w
  <2>3. x \in Fronts(left) /\ DSML \notin Range(x)
    BY <1>2, <2>1
  <2>4. QED  BY <2>2, <2>3, Zenon DEF OpenerAhead
<1>4. CASE HeadlessAhead(S, left, x, o)
  <2>1. /\ Kind(S, left, x, Headless, w) /\ Occurrences(StartToken, left) = {}
        /\ x # <<>> => Last(x) \notin {LT, SLASH}
    BY <1>4 DEF HeadlessAhead, w
  <2>2. left = x \o (Headless \o (o.block \o o.after))
    BY <2>1 DEF Kind, w
  <2>3. x \in Fronts(left) /\ DSML \notin Range(x)
    BY <1>2, <2>1
  <2>4. QED  BY <2>1, <2>2, <2>3, Zenon DEF OpenerAhead
<1>5. CASE MarkerAhead(S, left, x, o, d)
  <2>1. /\ Kind(S, left, x, InvokeMarker, f) /\ Occurrences(StartToken, left) = {}
        /\ LT \notin Range(x)
    BY <1>5 DEF MarkerAhead, f
  <2>2. left = x \o (InvokeMarker \o f)
    BY <2>1 DEF Kind
  <2>5. left = x \o AfterCalls(o, d, 0)
    BY <1>1, <2>2
  <2>3. x \in Fronts(left) /\ DSML \notin Range(x)
    BY <1>2, <2>1
  <2>4. QED  BY <2>1, <2>5, <2>3, Zenon DEF OpenerAhead
<1>6. QED  BY <1>3, <1>4, <1>5

\* Text before the tag is taken off.
LEMMA KindCut ==
    ASSUME NEW S, NEW b \in Seq(S), NEW t \in Seq(S), NEW x, NEW tag, NEW w,
           Kind(S, b \o t, x, tag, w), NEW n \in Nat, n =< Len(b), n =< Len(x)
    PROVE  /\ Kind(S, From(b, n) \o t, From(x, n), tag, w)
           /\ Range(From(x, n)) \subseteq Range(x)
           /\ From(x, n) # <<>> => x # <<>> /\ Last(From(x, n)) = Last(x)
<1>1. /\ x \in Seq(S) /\ tag \in Seq(S) /\ w \in Seq(S) /\ b \o t = x \o (tag \o w)
      /\ DSML \notin Range(x) /\ StartsOnce(tag) /\ Occurrences(tag, x) = {}
  BY DEF Kind
<1> DEFINE y == tag \o w
           f == From(x, n)
<1>2. y \in Seq(S)
  BY <1>1, Joined
<1>3. n \in 0 .. Len(b) /\ n \in 0 .. Len(x) /\ Len(x) \in Nat
  BY <1>1
<1>4. From(b, n) \o t = f \o y
  <2> HIDE DEF y
  <2>1. From(b \o t, n) = From(b, n) \o t
    BY <1>3, RestJoins
  <2>2. From(x \o y, n) = From(x, n) \o y
    BY <1>1, <1>2, <1>3, RestJoins
  <2> DEFINE q == From(b, n) \o t
             r == From(x, n) \o y
             u == x \o y
             v == b \o t
  <2>3. v = u /\ From(v, n) = q /\ From(u, n) = r
    BY <1>1, <2>1, <2>2 DEF y
  <2> HIDE DEF q, r, u, v
  <2>4. q = r
    BY <2>3
  <2>5. QED  BY <2>4 DEF q, r
<1>5. /\ f \in Seq(S) /\ Len(f) = Len(x) - n /\ \A i \in 1 .. Len(x) - n : f[i] = x[i + n]
      /\ Before(x, n) \in Seq(S) /\ Len(Before(x, n)) = n /\ Before(x, n) \o f = x
  BY <1>1, <1>3, Slices, ZenonT(40)
<1> HIDE DEF f
<1>6. Range(f) \subseteq Range(x)
  <2>1. Range(f) = {f[i] : i \in 1 .. Len(f)} /\ Range(x) = {x[i] : i \in 1 .. Len(x)}
    BY <1>1, <1>5, RangeIs
  <2>2. \A i \in 1 .. Len(f) : i + n \in 1 .. Len(x) /\ f[i] = x[i + n]
    BY <1>3, <1>5
  <2>3. QED  BY <2>1, <2>2
<1>7. ASSUME f # <<>> PROVE x # <<>> /\ Last(f) = Last(x)
  <2>1. Len(f) > 0 /\ Len(f) \in Nat
    BY <1>5, <1>7
  <2>2. Len(f) \in 1 .. Len(x) - n /\ Len(f) + n = Len(x) /\ Len(x) > 0
    BY <1>3, <1>5, <2>1
  <2>3. f[Len(f)] = x[Len(x)]
    BY <1>5, <2>2
  <2>4. x # <<>>
    BY <2>2
  <2>5. QED  BY <2>3, <2>4 DEF Last
<1>8. Occurrences(tag, f) = {}
  <2> SUFFICES ASSUME NEW q \in Occurrences(tag, f) PROVE FALSE
    OBVIOUS
  <2>1. q \in Nat
    BY <1>1, <1>5, OccursPieces
  <2> DEFINE u == Before(x, n)
  <2> HIDE DEF u
  <2>2. n + q \in Nat /\ n + q >= Len(u) /\ (n + q) - Len(u) = q
    BY <1>5, <2>1 DEF u
  <2> DEFINE m == n + q
  <2> HIDE DEF m
  <2>3. m \in Occurrences(tag, u \o f) <=> m - Len(u) \in Occurrences(tag, f)
    <3>1. u \in Seq(S) /\ f \in Seq(S) /\ tag \in Seq(S) /\ m \in Nat /\ m >= Len(u)
      BY <1>1, <1>5, <2>2 DEF u, m
    <3>2. QED  BY <3>1, OccursBehind
  <2>4. m \in Occurrences(tag, x)
    BY <1>5, <2>2, <2>3 DEF u, m
  <2>5. QED  BY <1>1, <2>4
<1>9. Kind(S, From(b, n) \o t, f, tag, w)
  BY <1>1, <1>4, <1>5, <1>6, <1>8 DEF Kind
<1>10. QED  BY <1>6, <1>7, <1>9 DEF f

\* What has no tag has none behind a cut.
LEMMA NoneBehind ==
    ASSUME NEW S, NEW b \in Seq(S), NEW t \in Seq(S), NEW T, NEW tag \in Seq(T),
           Occurrences(tag, b \o t) = {}, NEW n \in Nat, n =< Len(b)
    PROVE  Occurrences(tag, From(b, n) \o t) = {}
<1> DEFINE L == b \o t
           u == Before(L, n)
           f == From(L, n)
<1>1. L \in Seq(S) /\ Len(L) = Len(b) + Len(t) /\ Len(b) \in Nat /\ Len(t) \in Nat
  BY Joined
<1>2. n \in 0 .. Len(L) /\ n \in 0 .. Len(b)
  <2> HIDE DEF L
  <2>1. QED  BY <1>1
<1>3. f = From(b, n) \o t
  BY <1>2, RestJoins
<1> HIDE DEF L
<1>4. u \in Seq(S) /\ Len(u) = n /\ f \in Seq(S) /\ u \o f = L
  BY <1>1, <1>2, Slices
<1> HIDE DEF u, f
<1>5. Occurrences(tag, f) = {}
  <2> SUFFICES ASSUME NEW q \in Occurrences(tag, f) PROVE FALSE
    OBVIOUS
  <2>1. q \in Nat
    BY <1>4, OccursPieces
  <2> DEFINE m == n + q
  <2>2. m \in Nat /\ m >= Len(u) /\ m - Len(u) = q
    BY <1>4, <2>1
  <2> HIDE DEF m
  <2>3. m \in Occurrences(tag, u \o f) <=> m - Len(u) \in Occurrences(tag, f)
    BY <1>4, <2>2, OccursBehind
  <2>4. QED  BY <1>4, <2>2, <2>3 DEF L
<1>6. QED  BY <1>3, <1>5

\* While the buffer ends within a tag that starts with "<", it has no tag
\* whose marker is not its last piece.
LEMMA MarkupToCome ==
    ASSUME NEW S, NEW b \in Seq(S), NEW t \in Seq(S), NEW x \in Seq(S), NEW rest \in Seq(S),
           b \o t = x \o rest, DSML \notin Range(x), Len(rest) > 0, rest[1] # DSML,
           Len(b) < Len(x) + 3,
           NEW T, NEW tag \in Seq(T), NEW m \in 1 .. Len(tag), m < Len(tag), tag[m] = DSML
    PROVE  Occurrences(tag, b) = {}
<1> SUFFICES ASSUME NEW q \in Occurrences(tag, b) PROVE FALSE
  OBVIOUS
<1> DEFINE L == b \o t
<1>1. q \in Nat /\ q + Len(tag) =< Len(b) /\ b[q + m] = tag[m]
  BY OccursPieces
<1>2. L \in Seq(S) /\ \A i \in 1 .. Len(b) : L[i] = b[i]
  BY Joined
<1>3. (\A i \in 1 .. Len(x) : L[i] = x[i]) /\ (\A i \in 1 .. Len(rest) : L[Len(x) + i] = rest[i])
  BY Joined
<1> HIDE DEF L
<1>4. Len(x) \in Nat /\ Len(b) \in Nat /\ Len(rest) \in Nat /\ Len(tag) \in Nat
  OBVIOUS
<1>5. L[q + m] = DSML /\ q + m \in 1 .. Len(b) /\ q + m =< Len(x) + 1
  <2>1. q + m \in 1 .. Len(b) /\ q + m =< Len(x) + 1
    BY <1>1, <1>4, SMTT(30)
  <2>2. QED  BY <1>1, <1>2, <2>1
<1>6. CASE q + m =< Len(x)
  <2>1. q + m \in 1 .. Len(x)
    BY <1>4, <1>5, <1>6
  <2>2. x[q + m] = DSML
    BY <1>3, <1>5, <2>1
  <2>3. x[q + m] \in Range(x)
    BY <2>1 DEF Range
  <2>4. QED  BY <2>2, <2>3
<1>7. CASE q + m = Len(x) + 1
  <2>1. 1 \in 1 .. Len(rest)
    BY <1>4
  <2>2. L[Len(x) + 1] = rest[1]
    BY <1>3, <2>1
  <2>3. QED  BY <1>5, <1>7, <2>2
<1>8. q + m =< Len(x) \/ q + m = Len(x) + 1
  <2> DEFINE k == q + m
             l == Len(x)
  <2>1. k \in Int /\ l \in Nat /\ k =< l + 1
    BY <1>4, <1>5
  <2> HIDE DEF k, l
  <2>2. k =< l \/ k = l + 1
    BY <2>1
  <2>3. QED  BY <2>2 DEF k, l
<1>9. QED  BY <1>6, <1>7, <1>8

AllSearched == <<StartToken, Headless, InvokeMarker>>

\* A tag that is ahead is found where it is, or is still to come.
LEMMA KindToCome ==
    ASSUME NEW S, NEW b \in Seq(S), NEW t \in Seq(S), NEW x, NEW tag, NEW w,
           Kind(S, b \o t, x, tag, w)
    PROVE  /\ Find(b, tag) \in Int
           /\ Find(b, tag) >= 0 => Find(b, tag) = Len(x) /\ Len(x) + Len(tag) =< Len(b)
           /\ Find(b, tag) < 0 => Len(b) < Len(x) + Len(tag) /\ Len(t) > 0
<1>1. /\ x \in Seq(S) /\ tag \in Seq(S) /\ w \in Seq(S) /\ b \o t = x \o (tag \o w)
      /\ StartsOnce(tag) /\ Occurrences(tag, x) = {}
  BY DEF Kind
<1>2. /\ Find(b, tag) \in Int
      /\ Find(b, tag) >= 0 => Find(b, tag) = Len(x) /\ Len(x) + Len(tag) =< Len(b)
      /\ Find(b, tag) < 0 => Len(b) < Len(x) + Len(tag)
  BY <1>1, FoundOrToCome, ZenonT(40)
<1>3. /\ Len(b \o t) = Len(b) + Len(t) /\ Len(tag \o w) = Len(tag) + Len(w) /\ tag \o w \in Seq(S)
  BY <1>1, Joined
<1> DEFINE y == tag \o w
<1> HIDE DEF y
<1>4. Len(x \o y) = Len(x) + Len(y)
  BY <1>1, <1>3, Joined DEF y
<1> DEFINE lb == Len(b)
           lt == Len(t)
           lx == Len(x)
           lg == Len(tag)
           lw == Len(w)
<1>5. lb + lt = lx + (lg + lw) /\ lb \in Nat /\ lt \in Nat /\ lx \in Nat /\ lg \in Nat /\ lw \in Nat
  BY <1>1, <1>3, <1>4 DEF y
<1>6. lb < lx + lg => lt > 0
  <2> HIDE DEF lb, lt, lx, lg, lw
  <2>1. QED  BY <1>5
<1>7. QED  BY <1>2, <1>6

\* While it is to come, no piece of it is taken from the buffer.
LEMMA KindWithheld ==
    ASSUME NEW S, NEW b \in Seq(S), NEW t \in Seq(S), NEW x, NEW tag, NEW w,
           Kind(S, b \o t, x, tag, w), Find(b, tag) < 0,
           NEW tags, \E i \in DOMAIN tags : tags[i] = tag, NEW n, n = Len(b) - TrailingPartial(b, tags)
    PROVE  n \in Nat /\ n =< Len(b) /\ n =< Len(x)
<1>1. /\ x \in Seq(S) /\ tag \in Seq(S) /\ w \in Seq(S) /\ b \o t = x \o (tag \o w)
  BY DEF Kind
<1>2. Len(b) < Len(x) + Len(tag)
  BY KindToCome
<1>3. LET k == Len(b) - TrailingPartial(b, tags)
      IN  k \in Nat /\ k =< Len(b) /\ k =< Len(x)
  BY <1>1, <1>2, Withheld
<1>4. QED  BY <1>3

\* The buffer ends within an opener that starts with "<": what a marker tells
\* has not come.
LEMMA OthersToCome ==
    ASSUME NEW S, NEW b \in Seq(S), NEW t \in Seq(S), NEW x, NEW tag, NEW w,
           Kind(S, b \o t, x, tag, w), tag[1] = LT, Len(tag) = 3, Find(b, tag) < 0
    PROVE  ~(Find(b, InvokeMarker) >= 0) /\ ~(Find(b, Headless) >= 0) /\ ~(Find(b, StartToken) >= 0)
<1>1. /\ x \in Seq(S) /\ tag \in Seq(S) /\ w \in Seq(S) /\ b \o t = x \o (tag \o w)
      /\ DSML \notin Range(x)
  BY DEF Kind
<1> DEFINE r == tag \o w
<1>2. Len(b) < Len(x) + 3
  <2>1. Find(b, tag) < 0 => Len(b) < Len(x) + Len(tag)
    BY KindToCome
  <2>2. QED  BY <2>1
<1>3. r \in Seq(S) /\ Len(r) = 3 + Len(w) /\ Len(w) \in Nat /\ r[1] = LT
  <2>0. tag \in Seq(S) /\ w \in Seq(S)
    BY <1>1
  <2>1. r \in Seq(S) /\ Len(r) = Len(tag) + Len(w) /\ \A i \in 1 .. Len(tag) : r[i] = tag[i]
    BY <2>0, Joined, ZenonT(40)
  <2>2. 1 \in 1 .. Len(tag) /\ Len(w) \in Nat
    BY <2>0
  <2> HIDE DEF r
  <2>3. QED  BY <1>1, <2>1, <2>2
<1>4. b \o t = x \o r
  BY <1>1
<1> HIDE DEF r
<1>5. Len(r) > 0 /\ r[1] # DSML
  BY <1>3, MarksDiffer
<1>6. /\ 2 \in 1 .. Len(InvokeMarker) /\ 2 < Len(InvokeMarker) /\ InvokeMarker[2] = DSML
      /\ 1 \in 1 .. Len(Headless) /\ 1 < Len(Headless) /\ Headless[1] = DSML
      /\ 2 \in 1 .. Len(StartToken) /\ 2 < Len(StartToken) /\ StartToken[2] = DSML
  BY Tags, TagPiecesAre
<1>7. ASSUME NEW T, NEW g \in Seq(T), NEW m \in 1 .. Len(g), m < Len(g), g[m] = DSML
      PROVE  ~(Find(b, g) >= 0)
  <2>1. Occurrences(g, b) = {}
    BY <1>1, <1>2, <1>3, <1>4, <1>5, <1>7, MarkupToCome
  <2>2. Find(b, g) \in Int /\ (Find(b, g) < 0 <=> Occurrences(g, b) = {})
    BY FindIs
  <2>3. QED  BY <2>1, <2>2
<1>8. InvokeMarker \in Seq({LT, DSML, INVOKE}) /\ Headless \in Seq({DSML, CALLS})
      /\ StartToken \in Seq({LT, DSML, CALLS})
  BY Tags
<1>9. QED  BY <1>6, <1>7, <1>8

\* A start tag that is nowhere is not found in the buffer.
LEMMA StartToCome ==
    ASSUME NEW S, NEW b \in Seq(S), NEW t \in Seq(S), Occurrences(StartToken, b \o t) = {}
    PROVE  Find(b, StartToken) < 0
<1> DEFINE g == StartToken
<1>0. g \in Seq({LT, DSML, CALLS})
  BY Tags
<1> HIDE DEF g
<1>1. Occurrences(g, b) \subseteq Occurrences(g, b \o t)
  BY <1>0, OccursLater
<1>2. Find(b, g) < 0 <=> Occurrences(g, b) = {}
  BY <1>0, FindIs
<1>3. QED  BY <1>1, <1>2 DEF g

\* The whole opener was found: what is before it is txt.
LEMMA StartFound ==
    ASSUME NEW S, NEW o, NEW d, OutputIn(S, o, d), NEW b \in Seq(S), NEW t \in Seq(S),
           OpenerAhead(b \o t, o, d), ~(Find(b, StartToken) < 0)
    PROVE  \E x \in Seq(S) : /\ WholeAhead(S, b \o t, x, o)
                             /\ Find(b, StartToken) = Len(x) /\ Len(x) + 3 =< Len(b)
<1>0. b \o t \in Seq(S)
  BY Joined
<1>1. PICK x \in Seq(S) : WholeAhead(S, b \o t, x, o) \/ HeadlessAhead(S, b \o t, x, o)
                          \/ MarkerAhead(S, b \o t, x, o, d)
  BY <1>0, AheadIs
<1>2. ~(Occurrences(StartToken, b \o t) = {})
  BY StartToCome
<1>3. WholeAhead(S, b \o t, x, o)
  BY <1>1, <1>2 DEF HeadlessAhead, MarkerAhead
<1> DEFINE w == o.block \o o.after
<1>4. Kind(S, b \o t, x, StartToken, w)
  BY <1>3 DEF WholeAhead
<1> HIDE DEF w
<1>5. /\ Find(b, StartToken) \in Int
      /\ Find(b, StartToken) >= 0 => Find(b, StartToken) = Len(x) /\ Len(x) + Len(StartToken) =< Len(b)
  BY <1>4, KindToCome
<1>6. Find(b, StartToken) = Len(x) /\ Len(x) + 3 =< Len(b)
  BY <1>5, Tags
<1>7. QED  BY <1>3, <1>6

\* None of the tags was found: there is more to come, and what may be sent is
\* txt.
LEMMA OpenerToCome ==
    ASSUME NEW S, NEW o, NEW d, OutputIn(S, o, d), NEW b \in Seq(S), NEW t \in Seq(S),
           OpenerAhead(b \o t, o, d), Find(b, StartToken) < 0, Find(b, InvokeMarker) < 0,
           ~(Find(b, Headless) >= 0
               /\ (Find(b, Headless) > 0 => b[Find(b, Headless)] \notin {LT, SLASH})),
           NEW n, n = Len(b) - TrailingPartial(b, AllSearched)
    PROVE  Len(t) > 0 /\ n \in Nat /\ n =< Len(b) /\ OpenerAhead(From(b, n) \o t, o, d)
<1>0. b \o t \in Seq(S)
  BY Joined
<1>1. PICK x \in Seq(S) : WholeAhead(S, b \o t, x, o) \/ HeadlessAhead(S, b \o t, x, o)
                          \/ MarkerAhead(S, b \o t, x, o, d)
  BY <1>0, AheadIs
<1>2. /\ \E i \in DOMAIN AllSearched : AllSearched[i] = StartToken
      /\ \E i \in DOMAIN AllSearched : AllSearched[i] = Headless
      /\ \E i \in DOMAIN AllSearched : AllSearched[i] = InvokeMarker
  <2>1. /\ DOMAIN AllSearched = 1 .. 3 /\ AllSearched[1] = StartToken
        /\ AllSearched[2] = Headless /\ AllSearched[3] = InvokeMarker
    BY DEF AllSearched
  <2>2. 1 \in 1 .. 3 /\ 2 \in 1 .. 3 /\ 3 \in 1 .. 3
    OBVIOUS
  <2>3. QED  BY <2>1, <2>2, Zenon
<1> DEFINE w == o.block \o o.after
           f == FirstCall(o, d)
           left == From(b, n) \o t
           y == From(x, n)
<1> HIDE DEF w, f
<1>3. CASE WholeAhead(S, b \o t, x, o)
  <2>1. Kind(S, b \o t, x, StartToken, w)
    BY <1>3 DEF WholeAhead, w
  <2>2. Len(t) > 0 /\ n \in Nat /\ n =< Len(b) /\ n =< Len(x)
    BY <1>2, <2>1, KindToCome, KindWithheld
  <2>3. Kind(S, left, y, StartToken, w)
    BY <2>1, <2>2, KindCut
  <2>4. OpenerAhead(left, o, d)
    <3> HIDE DEF left, y
    <3>1. WholeAhead(S, left, y, o)
      BY <2>3 DEF WholeAhead, w
    <3>2. QED  BY <3>1, AheadFrom
  <2>5. QED  BY <2>2, <2>4
<1>4. CASE HeadlessAhead(S, b \o t, x, o)
  <2>1. /\ Kind(S, b \o t, x, Headless, w) /\ Occurrences(StartToken, b \o t) = {}
        /\ x # <<>> => Last(x) \notin {LT, SLASH}
    BY <1>4 DEF HeadlessAhead, w
  <2>2. Find(b, Headless) < 0
    <3> SUFFICES ASSUME ~(Find(b, Headless) < 0) PROVE FALSE
      OBVIOUS
    <3>0. /\ Find(b, Headless) \in Int
          /\ Find(b, Headless) >= 0 => Find(b, Headless) = Len(x) /\ Len(x) + Len(Headless) =< Len(b)
      BY <2>1, KindToCome
    <3> DEFINE at == Find(b, Headless)
               lh == Len(Headless)
    <3>1. at \in Int /\ at >= 0 /\ at = Len(x) /\ Len(x) + lh =< Len(b) /\ lh = 2
      BY <3>0, Tags
    <3>2. Len(x) > 0 /\ b[Len(x)] \in {LT, SLASH}
      BY <3>1
    <3>3. b[Len(x)] = x[Len(x)]
      <4> DEFINE v == Headless \o w
                 L == b \o t
      <4>1. v \in Seq(S) /\ L = x \o v
        BY <2>1, Joined DEF Kind
      <4>2. \A i \in 1 .. Len(b) : L[i] = b[i]
        BY Joined
      <4> HIDE DEF v, L
      <4>3. \A i \in 1 .. Len(x) : L[i] = x[i]
        BY <4>1, Joined
      <4>4. Len(x) \in 1 .. Len(x) /\ Len(x) \in 1 .. Len(b)
        BY <3>1, <3>2
      <4>5. QED  BY <4>2, <4>3, <4>4
    <3>4. x # <<>> /\ Last(x) = x[Len(x)]
      BY <3>2 DEF Last
    <3>5. QED  BY <2>1, <3>2, <3>3, <3>4
  <2>3. Len(t) > 0 /\ n \in Nat /\ n =< Len(b) /\ n =< Len(x)
    BY <1>2, <2>1, <2>2, KindToCome, KindWithheld
  <2>4. /\ Kind(S, left, y, Headless, w)
        /\ y # <<>> => x # <<>> /\ Last(y) = Last(x)
    BY <2>1, <2>3, KindCut
  <2>5. Occurrences(StartToken, left) = {}
    <3> DEFINE g == StartToken
    <3>1. g \in Seq({LT, DSML, CALLS}) /\ Occurrences(g, b \o t) = {}
      BY <2>1, Tags
    <3> HIDE DEF g
    <3>2. Occurrences(g, From(b, n) \o t) = {}
      BY <2>3, <3>1, NoneBehind
    <3>3. QED  BY <3>2 DEF g
  <2>6. OpenerAhead(left, o, d)
    <3> HIDE DEF left, y
    <3>1. HeadlessAhead(S, left, y, o)
      BY <2>1, <2>4, <2>5 DEF HeadlessAhead, w
    <3>2. QED  BY <3>1, AheadFrom
  <2>7. QED  BY <2>3, <2>6
<1>5. CASE MarkerAhead(S, b \o t, x, o, d)
  <2>1. /\ Kind(S, b \o t, x, InvokeMarker, f) /\ Occurrences(StartToken, b \o t) = {}
        /\ LT \notin Range(x)
    BY <1>5 DEF MarkerAhead, f
  <2>3. Len(t) > 0 /\ n \in Nat /\ n =< Len(b) /\ n =< Len(x)
    BY <1>2, <2>1, KindToCome, KindWithheld
  <2>4. /\ Kind(S, left, y, InvokeMarker, f)
        /\ Range(y) \subseteq Range(x)
    BY <2>1, <2>3, KindCut
  <2>5. Occurrences(StartToken, left) = {}
    <3> DEFINE g == StartToken
    <3>1. g \in Seq({LT, DSML, CALLS}) /\ Occurrences(g, b \o t) = {}
      BY <2>1, Tags
    <3> HIDE DEF g
    <3>2. Occurrences(g, From(b, n) \o t) = {}
      BY <2>3, <3>1, NoneBehind
    <3>3. QED  BY <3>2 DEF g
  <2>6. OpenerAhead(left, o, d)
    <3> HIDE DEF left, y
    <3>1. MarkerAhead(S, left, y, o, d)
      BY <2>1, <2>4, <2>5 DEF MarkerAhead, f
    <3>2. QED  BY <3>1, AheadFrom
  <2>7. QED  BY <2>3, <2>6
<1>6. QED  BY <1>1, <1>3, <1>4, <1>5

\* No invoke begins in a headless opener and the spaces behind it.
LEMMA NoInvokeInOpener ==
    ASSUME NEW S, Marks \subseteq S, NEW x \in Seq(S), DSML \notin Range(x),
           NEW g \in Seq(S), \A i \in 1 .. Len(g) : g[i] # DSML
    PROVE  /\ x \o (Headless \o g) \in Seq(S)
           /\ Occurrences(InvokeMarker, x \o (Headless \o g)) = {}
<1> DEFINE v == Headless \o g
           y == x \o v
<1>0. Headless \in Seq(S) /\ InvokeMarker \in Seq(S) /\ Len(Headless) = 2 /\ Len(InvokeMarker) = 3
  BY TagsTyped, Tags
<1>1. /\ v \in Seq(S) /\ Len(v) = Len(Headless) + Len(g)
      /\ \A i \in 1 .. Len(Headless) : v[i] = Headless[i]
      /\ \A i \in 1 .. Len(g) : v[Len(Headless) + i] = g[i]
  <2> DEFINE h == Headless
  <2>1. h \in Seq(S)
    BY <1>0
  <2> HIDE DEF h
  <2>2. /\ h \o g \in Seq(S) /\ Len(h \o g) = Len(h) + Len(g)
        /\ \A i \in 1 .. Len(h) : (h \o g)[i] = h[i]
        /\ \A i \in 1 .. Len(g) : (h \o g)[Len(h) + i] = g[i]
    BY <2>1, Joined
  <2>3. QED  BY <2>2 DEF h
<1>2. /\ v \in Seq(S) /\ Len(v) = 2 + Len(g) /\ v[2] = CALLS
      /\ \A i \in 2 .. Len(v) : v[i] # DSML
  <2>1. v[2] = CALLS
    <3>1. 2 \in 1 .. Len(Headless)
      BY <1>0
    <3> HIDE DEF v
    <3>2. QED  BY <1>1, <3>1, TagPiecesAre
  <2>2. \A i \in 1 .. Len(g) : v[2 + i] # DSML
    <3> HIDE DEF v
    <3>1. QED  BY <1>0, <1>1
  <2>3. Len(g) \in Nat
    OBVIOUS
  <2> HIDE DEF v
  <2> DEFINE lv == Len(v)
             lg == Len(g)
  <2>5. lv = 2 + lg /\ lg \in Nat
    BY <1>0, <1>1, <2>3
  <2>4. ASSUME NEW i \in 2 .. lv PROVE v[i] # DSML
    <3>1. CASE i = 2
      BY <3>1, <2>1, MarksDiffer
    <3>2. CASE i # 2
      <4>1. i - 2 \in 1 .. lg /\ 2 + (i - 2) = i
        <5> HIDE DEF lv, lg
        <5>1. QED  BY <3>2, <2>5
      <4>2. v[2 + (i - 2)] # DSML
        BY <2>2, <4>1
      <4>3. QED  BY <4>1, <4>2
    <3>3. QED  BY <3>1, <3>2
  <2>6. QED  BY <1>0, <1>1, <2>1, <2>4
<1> HIDE DEF v
<1>3. /\ y \in Seq(S) /\ Len(y) = Len(x) + Len(v)
      /\ \A i \in 1 .. Len(x) : y[i] = x[i]
      /\ \A i \in 1 .. Len(v) : y[Len(x) + i] = v[i]
  <2>1. v \in Seq(S)
    BY <1>2
  <2>2. QED  BY <2>1, Joined
<1> HIDE DEF y
<1>4. \A i \in 1 .. Len(x) : x[i] # DSML
  <2>1. Range(x) = {x[i] : i \in 1 .. Len(x)}
    BY RangeIs
  <2>2. QED  BY <2>1
<1>5. Occurrences(InvokeMarker, y) = {}
  <2> SUFFICES ASSUME NEW q \in Occurrences(InvokeMarker, y) PROVE FALSE
    OBVIOUS
  <2>1. /\ q \in Nat /\ q + 3 =< Len(y)
        /\ y[q + 2] = DSML /\ y[q + 3] = INVOKE
    <3>0. y \in Seq(S) /\ InvokeMarker \in Seq(S)
      BY <1>0, <1>3
    <3>1. /\ q \in Nat /\ q + Len(InvokeMarker) =< Len(y)
          /\ \A i \in 1 .. Len(InvokeMarker) : y[q + i] = InvokeMarker[i]
      BY <3>0, OccursPieces
    <3>2. 2 \in 1 .. Len(InvokeMarker) /\ 3 \in 1 .. Len(InvokeMarker)
      BY <1>0
    <3>3. QED  BY <1>0, <3>1, <3>2, TagPiecesAre
  <2> DEFINE lx == Len(x)
             lv == Len(v)
  <2>2. lx \in Nat /\ lv \in Nat /\ Len(y) = lx + lv
    BY <1>2, <1>3
  <2>3. ~(q + 2 =< lx)
    <3> SUFFICES ASSUME q + 2 =< lx PROVE FALSE
      OBVIOUS
    <3>1. q + 2 \in 1 .. Len(x)
      BY <2>1, <2>2
    <3>2. QED  BY <1>3, <1>4, <2>1, <3>1
  <2> DEFINE k == q + 2 - lx
  <2>4. k \in 1 .. lv /\ lx + k = q + 2 /\ k + 1 \in 1 .. lv /\ lx + (k + 1) = q + 3
    <3> HIDE DEF lx, lv
    <3>1. QED  BY <2>1, <2>2, <2>3
  <2> HIDE DEF k
  <2>5. v[k] = DSML /\ v[k + 1] = INVOKE
    BY <1>3, <2>1, <2>4
  <2>6. k = 1
    BY <1>2, <2>4, <2>5
  <2>7. QED  BY <1>2, <2>5, <2>6, MarksDiffer
<1>6. QED  BY <1>3, <1>5 DEF y, v

\* An invoke was found and no whole opener: it is the first call.
LEMMA MarkerFound ==
    ASSUME NEW S, NEW o, NEW d, OutputIn(S, o, d), NEW b \in Seq(S), NEW t \in Seq(S),
           OpenerAhead(b \o t, o, d), Find(b, StartToken) < 0, Find(b, InvokeMarker) >= 0
    PROVE  From(b, Find(b, InvokeMarker)) \o t = AfterCalls(o, d, 0)
<1>0. b \o t \in Seq(S) /\ Marks \subseteq S /\ InvokeMarker \in Seq(S) /\ StartsOnce(InvokeMarker)
  BY Joined, TagsTyped, TagsStartOnce DEF OutputIn
<1>1. PICK x \in Seq(S) : WholeAhead(S, b \o t, x, o) \/ HeadlessAhead(S, b \o t, x, o)
                          \/ MarkerAhead(S, b \o t, x, o, d)
  BY <1>0, AheadIs
<1> DEFINE f == FirstCall(o, d)
           after == AfterCalls(o, d, 0)
<1>2. after = InvokeMarker \o f /\ f \in Seq(S) /\ after \in Seq(S)
  BY FirstCallIs
\* The invoke is found where what is left of the block begins.
<1>3. ASSUME NEW y \in Seq(S), b \o t = y \o after, Occurrences(InvokeMarker, y) = {}
      PROVE  From(b, Find(b, InvokeMarker)) \o t = after
  <2> HIDE DEF f
  <2>1. b \o t = y \o (InvokeMarker \o f)
    BY <1>2, <1>3
  <2>2. Find(b, InvokeMarker) >= 0 =>
          Find(b, InvokeMarker) = Len(y) /\ Len(y) + Len(InvokeMarker) =< Len(b)
    BY <1>0, <1>2, <1>3, <2>1, FoundOrToCome, ZenonT(40)
  <2>3. Find(b, InvokeMarker) = Len(y) /\ Len(y) =< Len(b)
    <3> DEFINE ly == Len(y)
               lb == Len(b)
               lm == Len(InvokeMarker)
    <3>1. ly \in Nat /\ lb \in Nat /\ lm = 3
      BY Tags
    <3>2. Find(b, InvokeMarker) = ly /\ ly + lm =< lb
      BY <2>2
    <3> HIDE DEF ly, lb, lm
    <3>3. Find(b, InvokeMarker) = ly /\ ly =< lb
      BY <3>1, <3>2
    <3>4. QED  BY <3>3 DEF ly, lb
  <2> HIDE DEF after
  <2>4. From(b, Len(y)) \o t = after
    BY <1>2, <1>3, <2>3, CutFront
  <2>5. QED  BY <2>3, <2>4
<1> HIDE DEF after
<1>4. CASE WholeAhead(S, b \o t, x, o)
  <2> DEFINE w == o.block \o o.after
  <2>1. Kind(S, b \o t, x, StartToken, w)
    BY <1>4 DEF WholeAhead
  <2> HIDE DEF w
  <2>2. StartToken[1] = LT /\ Len(StartToken) = 3
    BY Tags
  <2>3. ~(Find(b, InvokeMarker) >= 0)
    BY <2>1, <2>2, OthersToCome
  <2>4. QED  BY <2>3
<1>5. CASE HeadlessAhead(S, b \o t, x, o)
  <2> DEFINE w == o.block \o o.after
             y == x \o (Headless \o d.lead)
  <2>1. b \o t = x \o (Headless \o w) /\ DSML \notin Range(x) /\ Headless \in Seq(S)
    BY <1>5 DEF HeadlessAhead, Kind
  <2>2. w = d.lead \o after /\ d.lead \in Seq(S)
    BY BlockIs DEF after
  <2>3. \A i \in 1 .. Len(d.lead) : d.lead[i] # DSML
    <3>1. d.lead \in Spaces /\ WS \in S
      BY <1>0, Zenon DEF OutputIn, WellFormed, IsDerivation, Marks
    <3> HIDE DEF w, y
    <3>2. QED  BY <3>1, SpacesTyped
  <2>4. y \in Seq(S) /\ Occurrences(InvokeMarker, y) = {}
    <3> DEFINE g == d.lead
    <3>1. g \in Seq(S) /\ \A i \in 1 .. Len(g) : g[i] # DSML
      BY <2>2, <2>3
    <3> HIDE DEF g
    <3>2. x \o (Headless \o g) \in Seq(S) /\ Occurrences(InvokeMarker, x \o (Headless \o g)) = {}
      BY <1>0, <2>1, <3>1, NoInvokeInOpener
    <3>3. QED  BY <3>2 DEF g
  <2>5. b \o t = y \o after
    <3> DEFINE h == Headless
               g == d.lead
    <3>1. Joined3(Seq(S), h, g, after)
      BY <2>1, <2>2, <1>2, SeqJoinable DEF Joined3
    <3>2. b \o t = x \o (h \o (g \o after))
      BY <2>1, <2>2
    <3>3. y = x \o (h \o g)
      OBVIOUS
    <3> HIDE DEF h, g, w, y
    <3>4. h \o g \in Seq(S) /\ h \o (g \o after) = (h \o g) \o after
      <4> DEFINE T == Seq(S)
                 a == after
      <4>1. Joined3(T, h, g, a)
        BY <3>1
      <4> HIDE DEF T, a, f
      <4>2. h \o g \in T /\ h \o (g \o a) = (h \o g) \o a
        BY <4>1, JoinsThree, SMTT(30)
      <4>3. QED  BY <4>2 DEF T, a
    <3> DEFINE hg == h \o g
    <3>5. Joined3(Seq(S), x, hg, after)
      BY <3>4, <1>2, SeqJoinable DEF Joined3
    <3> HIDE DEF hg
    <3>6. x \o (hg \o after) = (x \o hg) \o after
      BY <3>5, JoinsThree, SMTT(30)
    <3>7. b \o t = x \o (hg \o after)
      BY <3>2, <3>4 DEF hg
    <3>8. y = x \o hg
      BY <3>3 DEF hg
    <3>9. QED  BY <3>6, <3>7, <3>8
  <2> HIDE DEF y, w
  <2>6. From(b, Find(b, InvokeMarker)) \o t = after
    BY <1>3, <2>4, <2>5
  <2>7. QED  BY <2>6 DEF after
<1>6. CASE MarkerAhead(S, b \o t, x, o, d)
  <2>1. x \in Seq(S) /\ b \o t = x \o (InvokeMarker \o f) /\ Occurrences(InvokeMarker, x) = {}
    BY <1>6 DEF MarkerAhead, Kind
  <2> HIDE DEF f
  <2>2. b \o t = x \o after
    BY <1>2, <2>1 DEF after, f
  <2>3. From(b, Find(b, InvokeMarker)) \o t = after
    BY <1>3, <2>1, <2>2
  <2>4. QED  BY <2>3 DEF after
<1>7. QED  BY <1>1, <1>4, <1>5, <1>6 DEF after

\* A headless opener was found and nothing else: it is the opener, and is made
\* whole.
LEMMA HeadlessFound ==
    ASSUME NEW S, NEW o, NEW d, OutputIn(S, o, d), NEW b \in Seq(S), NEW t \in Seq(S),
           OpenerAhead(b \o t, o, d), Find(b, StartToken) < 0, Find(b, InvokeMarker) < 0,
           Find(b, Headless) >= 0
    PROVE  OpenerAhead((Before(b, Find(b, Headless)) \o <<LT>> \o From(b, Find(b, Headless))) \o t, o, d)
<1>0. b \o t \in Seq(S) /\ Marks \subseteq S /\ <<LT>> \in Seq(S)
  <2>1. LT \in S
    BY Zenon DEF OutputIn, Marks
  <2>2. QED  BY <2>1, Joined, OnePiece DEF OutputIn
<1>1. PICK x \in Seq(S) : WholeAhead(S, b \o t, x, o) \/ HeadlessAhead(S, b \o t, x, o)
                          \/ MarkerAhead(S, b \o t, x, o, d)
  BY <1>0, AheadIs
<1> DEFINE w == o.block \o o.after
           f == FirstCall(o, d)
<1> HIDE DEF w, f
<1>2. ~WholeAhead(S, b \o t, x, o)
  <2> SUFFICES ASSUME WholeAhead(S, b \o t, x, o) PROVE FALSE
    OBVIOUS
  <2>1. Kind(S, b \o t, x, StartToken, w)
    BY DEF WholeAhead, w
  <2>2. StartToken[1] = LT /\ Len(StartToken) = 3
    BY Tags
  <2>3. ~(Find(b, Headless) >= 0)
    BY <2>1, <2>2, OthersToCome
  <2>4. QED  BY <2>3
<1>3. ~MarkerAhead(S, b \o t, x, o, d) \/ ~(Find(b, InvokeMarker) < 0)
  <2> SUFFICES ASSUME MarkerAhead(S, b \o t, x, o, d), Find(b, InvokeMarker) < 0 PROVE FALSE
    OBVIOUS
  <2>1. Kind(S, b \o t, x, InvokeMarker, f)
    BY DEF MarkerAhead, f
  <2>2. InvokeMarker[1] = LT /\ Len(InvokeMarker) = 3
    BY Tags, TagPiecesAre
  <2>3. ~(Find(b, Headless) >= 0)
    BY <2>1, <2>2, OthersToCome
  <2>4. QED  BY <2>3
<1>4. CASE HeadlessAhead(S, b \o t, x, o)
  <2>1. Kind(S, b \o t, x, Headless, w)
    BY <1>4 DEF HeadlessAhead, w
  <2>2. /\ x \in Seq(S) /\ Headless \in Seq(S) /\ w \in Seq(S) /\ b \o t = x \o (Headless \o w)
        /\ DSML \notin Range(x)
    BY <2>1 DEF Kind
  <2>3. Find(b, Headless) = Len(x) /\ Len(x) + Len(Headless) =< Len(b)
    BY <2>1, KindToCome
  <2> DEFINE v == Headless \o w
             bx == From(b, Len(x))
             one == <<LT>>
  <2>4. v \in Seq(S) /\ Len(x) =< Len(b) /\ Len(x) \in Nat
    BY <2>2, <2>3, Tags, Joined
  <2>5. Before(b, Len(x)) = x /\ From(b, Len(x)) \o t = v
    <3>1. b \o t = x \o v
      BY <2>2
    <3> HIDE DEF v
    <3>2. QED  BY <2>2, <2>4, <3>1, CutFront
  <2>6. bx \in Seq(S)
    <3>1. Len(x) \in 0 .. Len(b)
      BY <2>4
    <3>2. QED  BY <3>1, Slices
  <2>7. ((x \o one) \o bx) \o t = (x \o one) \o v
    <3>1. one \in Seq(S) /\ x \o one \in Seq(S)
      BY <1>0, <2>2, Joined
    <3> DEFINE p == x \o one
    <3>2. Joined3(Seq(S), p, bx, t)
      BY <2>6, <3>1, SeqJoinable DEF Joined3
    <3> HIDE DEF p, bx
    <3>3. p \o (bx \o t) = (p \o bx) \o t
      BY <3>2, JoinsThree, SMTT(30)
    <3>4. bx \o t = v
      BY <2>5 DEF bx
    <3> HIDE DEF v
    <3>5. (p \o bx) \o t = p \o v
      BY <3>3, <3>4
    <3>6. QED  BY <3>5 DEF p
  <2>8. (x \o one) \o v = x \o (StartToken \o w)
    BY <1>0, <2>2, OpenerWhole
  <2> DEFINE k == Find(b, Headless)
             new == (Before(b, k) \o <<LT>> \o From(b, k)) \o t
  <2>9. new = x \o (StartToken \o w)
    <3>1. Before(b, k) \o <<LT>> \o From(b, k) = (x \o one) \o bx
      BY <2>3, <2>5
    <3> HIDE DEF one, bx, v
    <3>2. new = ((x \o one) \o bx) \o t
      BY <3>1
    <3>3. QED  BY <2>7, <2>8, <3>2
  <2> HIDE DEF new
  <2>10. Kind(S, new, x, StartToken, w)
    <3>1. StartToken \in Seq(S) /\ StartsOnce(StartToken)
      BY <1>0, TagsTyped, TagsStartOnce
    <3>2. Occurrences(StartToken, x) = {}
      <4>1. StartToken \in Seq({LT, DSML, CALLS}) /\ 2 \in 1 .. Len(StartToken) /\ StartToken[2] = DSML
        BY Tags, TagPiecesAre
      <4>2. QED  BY <2>2, <4>1, NoMarkerNoTag
    <3>3. QED  BY <2>2, <2>9, <3>1, <3>2 DEF Kind
  <2>11. OpenerAhead(new, o, d)
    <3>1. WholeAhead(S, new, x, o)
      BY <2>10 DEF WholeAhead, w
    <3>2. QED  BY <3>1, AheadFrom
  <2>12. QED  BY <2>11 DEF new
<1>5. CASE MarkerAhead(S, b \o t, x, o, d)
  <2> QED  BY <1>5, <1>3
<1>6. QED  BY <1>1, <1>2, <1>4, <1>5

ToCome == From(TextOf(output), fed)

\* What the steps of the loop are given: the texts have their types.
Sit(S, d) == OutputIn(S, output, d) /\ buffer \in Seq(S) /\ ToCome \in Seq(S)

\* A parser that reads an output is in that situation.
LEMMA SitOf ==
    ASSUME ToolInv, NEW d, WellFormed(output, d)
    PROVE  Sit(Chars(d), d)
<1>1. OutputIn(Chars(d), output, d)
  BY OutputTyped DEF ToolInv
<1>2. Pieces \subseteq Chars(d) /\ output \in Outputs /\ fed \in 0 .. Len(TextOf(output))
      /\ buffer \in Seq(Pieces)
  BY DEF ToolInv, Chars
<1> DEFINE S == Chars(d)
           t == TextOf(output)
<1>3. t \in Seq(Pieces)
  BY <1>2, OutputText
<1> HIDE DEF S, t
<1>4. buffer \in Seq(S) /\ t \in Seq(S)
  BY <1>2, <1>3, SeqWider DEF S
<1>5. From(t, fed) \in Seq(S)
  <2>1. fed \in 0 .. Len(t)
    BY <1>2 DEF t
  <2>2. QED  BY <1>4, <2>1, Slices
<1>6. QED  BY <1>1, <1>4, <1>5 DEF Sit, ToCome, S, t

\* Where in the output the parser is, by its own fields.
LEMMA WhichPart ==
    ASSUME NEW S, NEW d, Sit(S, d), Progress(d)
    PROVE  /\ ~inCalls => Opening(d) \/ ReadAll(d)
           /\ inCalls /\ param = NoParam /\ active = 0 => Between(d)
           /\ inCalls /\ param = NoParam /\ active # 0 => WithinCall(d)
           /\ inCalls /\ param # NoParam => InValue(d)
<1>1. Opening(d) => ~inCalls
  BY DEF Opening
<1>2. ReadAll(d) => ~inCalls
  BY DEF ReadAll
<1>3. Between(d) => inCalls /\ active = 0 /\ param = NoParam
  BY DEF Between
<1>4. Len(d.calls) \in Nat
  BY DEF Sit, OutputIn, AllTyped
<1>5. WithinCall(d) => inCalls /\ active # 0 /\ param = NoParam
  <2> SUFFICES ASSUME WithinCall(d) PROVE inCalls /\ active # 0 /\ param = NoParam
    OBVIOUS
  <2>1. PICK j \in 1 .. Len(d.calls) :
            \E i \in 0 .. Len(d.calls[j].params) : UnderWay(d, j, ArgsAfter(d.calls[j], i))
    BY DEF WithinCall
  <2>2. param = NoParam
    BY DEF WithinCall
  <2>3. inCalls /\ active = j
    BY <2>1 DEF UnderWay
  <2>4. j # 0
    BY <1>4
  <2>5. QED  BY <2>2, <2>3, <2>4
<1>6. InValue(d) => inCalls /\ param # NoParam
  <2> SUFFICES ASSUME InValue(d) PROVE inCalls /\ param # NoParam
    BY ZenonT(40)
  <2>1. PICK j \in 1 .. Len(d.calls) : \E i \in 1 .. Len(d.calls[j].params) :
            \E k \in 0 .. Len(d.calls[j].params[i].text) :
               Sending(d, j, i, Before(d.calls[j].params[i].text, k))
    BY DEF InValue
  <2>2. PICK i \in 1 .. Len(d.calls[j].params) : \E k \in 0 .. Len(d.calls[j].params[i].text) :
               Sending(d, j, i, Before(d.calls[j].params[i].text, k))
    BY <2>1
  <2>3. PICK v : Sending(d, j, i, v)
    BY <2>2
  <2>4. inCalls /\ param.mode \in {"wrapper", "buffered", "raw", "string"}
    BY <2>3 DEF Sending, UnderWay
  <2>5. NoParam.mode = "none"
    BY DEF NoParam
  <2>6. QED  BY <2>4, <2>5
<1>7. QED  BY <1>1, <1>2, <1>3, <1>5, <1>6 DEF Progress

\* The calls that are to be sent, one by one.
LEMMA CallsInAre ==
    ASSUME NEW S, NEW o, NEW d, OutputIn(S, o, d)
    PROVE  \E T : /\ CallsIn(d) \in Seq(T) /\ Len(CallsIn(d)) = Len(d.calls)
                  /\ \A j \in 1 .. Len(d.calls) : CallsIn(d)[j] = WholeCall(d.calls[j])
                  /\ Before(CallsIn(d), 0) = <<>>
                  /\ Before(CallsIn(d), Len(d.calls)) = CallsIn(d)
                  /\ Len(d.calls) \in Nat /\ Len(d.calls) > 0
<1>1. Len(d.calls) \in Nat /\ Len(d.calls) > 0
  BY DEF OutputIn, AllTyped
<1> DEFINE n == Len(d.calls)
           F(j) == WholeCall(d.calls[j])
           T == {F(j) : j \in 1 .. n}
           s == [j \in 1 .. n |-> F(j)]
<1>2. s = CallsIn(d)
  BY DEF CallsIn
<1> HIDE DEF n, F
<1>3. n \in Nat /\ n > 0
  BY <1>1 DEF n
<1>4. s \in Seq(T) /\ Len(s) = n /\ \A j \in 1 .. n : s[j] = F(j)
  BY <1>3
<1> HIDE DEF s, T
<1>5. Before(s, 0) = <<>> /\ Before(s, n) = s
  BY <1>3, <1>4 DEF Before
<1>6. QED  BY <1>2, <1>3, <1>4, <1>5 DEF n, F

\* A step of the loop takes nothing from what is to come.
LEMMA LeftIs ==
    ASSUME UNCHANGED stream
    PROVE  Left' = buffer' \o ToCome /\ output' = output /\ ToCome' = ToCome
BY DEF Left, ToCome, stream

-----------------------------------------------------------------------------
(* Before the block.                                                       *)

\* Recovery at the invoke goes into the block in front of its first call.
LEMMA RecoverReads ==
    ASSUME NEW S, NEW d, Sit(S, d), Opening(d), RecoverAtInvoke
    PROVE  Between(d)'
<1>1. /\ OpenerAhead(buffer \o ToCome, output, d) /\ calls = <<>> /\ active = 0 /\ param = NoParam
      /\ Find(buffer, StartToken) < 0 /\ Find(buffer, InvokeMarker) >= 0
      /\ buffer' = From(buffer, Find(buffer, InvokeMarker))
  BY DEF Opening, RecoverAtInvoke, Left, ToCome, StartAt, MarkerAt
<1>2. /\ inCalls' = TRUE /\ calls' = <<>> /\ active' = 0 /\ param' = NoParam /\ UNCHANGED stream
  BY <1>1 DEF RecoverAtInvoke, Continue
<1>3. OutputIn(S, output, d) /\ buffer \in Seq(S) /\ ToCome \in Seq(S)
  BY DEF Sit
<1>4. From(buffer, Find(buffer, InvokeMarker)) \o ToCome = AfterCalls(output, d, 0)
  BY <1>1, <1>3, MarkerFound, ZenonT(40)
<1>5. Left' = AfterCalls(output, d, 0) /\ output' = output
  BY <1>1, <1>2, <1>4, LeftIs
<1>6. SpacesThen(Left', AfterCalls(output', d, 0))
  <2> DEFINE rest == AfterCalls(output, d, 0)
  <2>1. rest \in Seq(S)
    BY <1>3, FirstCallIs
  <2> HIDE DEF rest
  <2>2. SpacesThen(rest, rest)
    BY <2>1, ThenNone
  <2>3. QED  BY <1>5, <2>2 DEF rest
<1>7. 0 \in 0 .. Len(d.calls) /\ calls' = Before(CallsIn(d), 0)
  BY <1>2, <1>3, CallsInAre
<1>8. QED  BY <1>2, <1>6, <1>7 DEF Between

\* A headless opener that gets its "<" is still ahead.
LEMMA RepairReads ==
    ASSUME NEW S, NEW d, Sit(S, d), Opening(d), RepairHeadless
    PROVE  Opening(d)'
<1>1. /\ OpenerAhead(buffer \o ToCome, output, d) /\ calls = <<>> /\ active = 0 /\ param = NoParam
      /\ Find(buffer, StartToken) < 0 /\ Find(buffer, InvokeMarker) < 0
      /\ Find(buffer, Headless) >= 0 /\ ~inCalls
      /\ buffer' = Before(buffer, Find(buffer, Headless)) \o <<LT>> \o From(buffer, Find(buffer, Headless))
  BY DEF Opening, RepairHeadless, Left, ToCome, StartAt, MarkerAt, HeadlessAt, HeadlessOpener
<1>2. /\ inCalls' = inCalls /\ calls' = <<>> /\ active' = 0 /\ param' = NoParam /\ UNCHANGED stream
  BY <1>1 DEF RepairHeadless, Continue
<1>3. OutputIn(S, output, d) /\ buffer \in Seq(S) /\ ToCome \in Seq(S)
  BY DEF Sit
<1>4. OpenerAhead((Before(buffer, Find(buffer, Headless)) \o <<LT>>
                     \o From(buffer, Find(buffer, Headless))) \o ToCome, output, d)
  BY <1>1, <1>3, HeadlessFound
<1>5. OpenerAhead(Left', output', d)
  BY <1>1, <1>2, <1>4, LeftIs
<1>6. QED  BY <1>1, <1>2, <1>5 DEF Opening

\* Text that is held or sent leaves the opener ahead, and more is to come.
LEMMA WaitReads ==
    ASSUME NEW S, NEW d, Sit(S, d), Opening(d), HoldTail \/ SendText
    PROVE  Opening(d)' /\ Len(ToCome) > 0
<1>1. /\ OpenerAhead(buffer \o ToCome, output, d) /\ calls = <<>> /\ active = 0 /\ param = NoParam
      /\ ~inCalls
  BY DEF Opening, Left, ToCome
<1>2. /\ Find(buffer, StartToken) < 0 /\ Find(buffer, InvokeMarker) < 0
      /\ ~(Find(buffer, Headless) >= 0
             /\ (Find(buffer, Headless) > 0 => buffer[Find(buffer, Headless)] \notin {LT, SLASH}))
  BY DEF HoldTail, SendText, NoOpener, StartAt, MarkerAt, HeadlessAt, HeadlessOpener
<1>3. /\ inCalls' = inCalls /\ calls' = <<>> /\ active' = 0 /\ param' = NoParam /\ UNCHANGED stream
      /\ buffer' = buffer \/ buffer' = From(buffer, Sendable)
  BY <1>1 DEF HoldTail, SendText, Return
<1>4. OutputIn(S, output, d) /\ buffer \in Seq(S) /\ ToCome \in Seq(S)
  BY DEF Sit
<1> DEFINE n == Sendable
<1>5. n = Len(buffer) - TrailingPartial(buffer, AllSearched)
  BY DEF Sendable, AllSearched
<1> HIDE DEF n
<1>6. Len(ToCome) > 0 /\ OpenerAhead(From(buffer, n) \o ToCome, output, d)
  BY <1>1, <1>2, <1>4, <1>5, OpenerToCome
<1>7. OpenerAhead(Left', output', d)
  BY <1>1, <1>3, <1>6, LeftIs DEF n
<1>8. QED  BY <1>1, <1>3, <1>6, <1>7 DEF Opening

\* Text in front of the start tag is taken, and the tag is still ahead.
LEMMA TextBeforeReads ==
    ASSUME NEW S, NEW d, Sit(S, d), Opening(d), TextBeforeBlock
    PROVE  Opening(d)'
<1>1. /\ OpenerAhead(buffer \o ToCome, output, d) /\ calls = <<>> /\ active = 0 /\ param = NoParam
      /\ ~inCalls /\ Find(buffer, StartToken) > 0
      /\ buffer' = From(buffer, Find(buffer, StartToken))
  BY DEF Opening, Left, ToCome, TextBeforeBlock, StartAt
<1>2. /\ inCalls' = inCalls /\ calls' = <<>> /\ active' = 0 /\ param' = NoParam /\ UNCHANGED stream
  BY <1>1 DEF TextBeforeBlock, Continue
<1>3. OutputIn(S, output, d) /\ buffer \in Seq(S) /\ ToCome \in Seq(S)
  BY DEF Sit
<1>4. ~(Find(buffer, StartToken) < 0)
  <2>1. Find(buffer, StartToken) \in Int
    BY <1>3, Tags, FindIs
  <2>2. QED  BY <1>1, <2>1
<1>5. PICK x \in Seq(S) : /\ WholeAhead(S, buffer \o ToCome, x, output)
                          /\ Find(buffer, StartToken) = Len(x) /\ Len(x) + 3 =< Len(buffer)
  BY <1>1, <1>3, <1>4, StartFound
<1> DEFINE n == Len(x)
           w == output.block \o output.after
           left == From(buffer, n) \o ToCome
           y == From(x, n)
<1>6. Kind(S, buffer \o ToCome, x, StartToken, w)
  BY <1>5 DEF WholeAhead
<1> HIDE DEF w
<1>7. n \in Nat /\ n =< Len(buffer) /\ n =< Len(x)
  <2> DEFINE lb == Len(buffer)
  <2>1. n \in Nat /\ lb \in Nat /\ n + 3 =< lb
    BY <1>3, <1>5
  <2> HIDE DEF n, lb
  <2>2. n \in Nat /\ n =< lb /\ n =< n
    BY <2>1
  <2>3. QED  BY <2>2 DEF n, lb
<1>8. Kind(S, left, y, StartToken, w)
  <2> HIDE DEF n
  <2>1. QED  BY <1>3, <1>6, <1>7, KindCut
<1> HIDE DEF left, y, n
<1>9. OpenerAhead(left, output, d)
  <2>1. WholeAhead(S, left, y, output)
    BY <1>8 DEF WholeAhead, w
  <2>2. QED  BY <1>3, <2>1, AheadFrom
<1>10. OpenerAhead(Left', output', d)
  BY <1>1, <1>2, <1>5, <1>9, LeftIs DEF left, n
<1>11. QED  BY <1>1, <1>2, <1>10 DEF Opening

\* The start tag goes into the block.
LEMMA EnterReads ==
    ASSUME NEW S, NEW d, Sit(S, d), Opening(d), EnterCalls
    PROVE  Between(d)'
<1>1. /\ OpenerAhead(buffer \o ToCome, output, d) /\ calls = <<>> /\ active = 0 /\ param = NoParam
      /\ Find(buffer, StartToken) = 0
      /\ buffer' = From(buffer, Len(StartToken))
  BY DEF Opening, Left, ToCome, EnterCalls, StartAt
<1>2. /\ inCalls' = TRUE /\ calls' = <<>> /\ active' = 0 /\ param' = NoParam /\ UNCHANGED stream
  BY <1>1 DEF EnterCalls, Continue
<1>3. OutputIn(S, output, d) /\ buffer \in Seq(S) /\ ToCome \in Seq(S)
  BY DEF Sit
<1>4. PICK x \in Seq(S) : /\ WholeAhead(S, buffer \o ToCome, x, output)
                          /\ Find(buffer, StartToken) = Len(x) /\ Len(x) + 3 =< Len(buffer)
  BY <1>1, <1>3, StartFound
<1>5. x = <<>> /\ Len(StartToken) =< Len(buffer)
  <2> DEFINE lb == Len(buffer)
             ls == Len(StartToken)
  <2>1. Len(x) = 0 /\ Len(x) + 3 =< lb /\ ls = 3
    BY <1>1, <1>4, Tags
  <2> HIDE DEF lb, ls
  <2>2. x = <<>> /\ ls =< lb
    BY <2>1
  <2>3. QED  BY <2>2 DEF ls, lb
<1> DEFINE w == output.block \o output.after
           after == AfterCalls(output, d, 0)
<1>6. /\ buffer \o ToCome = x \o (StartToken \o w) /\ StartToken \in Seq(S) /\ w \in Seq(S)
  BY <1>4 DEF WholeAhead, Kind
<1>7. w = d.lead \o after /\ d.lead \in Seq(S) /\ after \in Seq(S)
  BY <1>3, BlockIs, FirstCallIs
<1>8. d.lead \in Spaces /\ WS \in S
  BY <1>3, Zenon DEF OutputIn, WellFormed, IsDerivation, Marks
<1> HIDE DEF w, after
<1>9. buffer \o ToCome = StartToken \o w
  <2> DEFINE v == StartToken \o w
  <2>1. v \in Seq(S) /\ buffer \o ToCome = <<>> \o v
    BY <1>5, <1>6, Joined
  <2> HIDE DEF v
  <2>2. <<>> \o v = v
    BY <2>1
  <2>3. QED  BY <2>1, <2>2 DEF v
<1>10. From(buffer, Len(StartToken)) \o ToCome = w
  <2> DEFINE s == StartToken
             b == buffer
             t == ToCome
  <2>1. /\ s \in Seq(S) /\ Len(s) =< Len(b) /\ b \o t = s \o w
        /\ b \in Seq(S) /\ t \in Seq(S) /\ w \in Seq(S)
    BY <1>3, <1>5, <1>6, <1>9
  <2> HIDE DEF s, b, t
  <2>2. From(b, Len(s)) \o t = w
    BY <2>1, TagTaken, ZenonT(40)
  <2>3. QED  BY <2>2 DEF s, b, t
<1>11. Left' = w /\ output' = output
  BY <1>1, <1>2, <1>10, LeftIs
<1>12. SpacesThen(Left', AfterCalls(output', d, 0))
  <2>1. Range(d.lead) \subseteq {WS}
    <3>1. d.lead \in Seq({WS})
      BY <1>8 DEF Spaces
    <3>2. Range(d.lead) = {d.lead[i] : i \in 1 .. Len(d.lead)}
      BY <3>1, RangeIs
    <3>3. \A i \in 1 .. Len(d.lead) : d.lead[i] = WS
      BY <3>1
    <3>4. QED  BY <3>2, <3>3
  <2>2. SpacesThen(d.lead \o after, after)
    BY <1>7, <2>1, ThenOf
  <2>3. QED  BY <1>7, <1>11, <2>2 DEF after
<1>13. 0 \in 0 .. Len(d.calls) /\ calls' = Before(CallsIn(d), 0)
  BY <1>2, <1>3, CallsInAre
<1>14. QED  BY <1>2, <1>12, <1>13 DEF Between

\* Behind the block no tag is found.
LEMMA NothingFound ==
    ASSUME NEW S, NEW b \in Seq(S), NEW t \in Seq(S), DSML \notin Range(b \o t)
    PROVE  /\ Find(b, StartToken) < 0 /\ Find(b, InvokeMarker) < 0 /\ Find(b, Headless) < 0
           /\ \A n \in Nat : n =< Len(b) => DSML \notin Range(From(b, n) \o t)
<1>1. DSML \notin Range(b)
  <2> DEFINE L == b \o t
  <2>1. L \in Seq(S) /\ Len(L) = Len(b) + Len(t) /\ \A i \in 1 .. Len(b) : L[i] = b[i]
    BY Joined
  <2>2. Len(b) \in Nat /\ Len(t) \in Nat /\ DSML \notin Range(L)
    OBVIOUS
  <2> HIDE DEF L
  <2>3. Range(L) = {L[i] : i \in 1 .. Len(L)} /\ Range(b) = {b[i] : i \in 1 .. Len(b)}
    BY <2>1, RangeIs
  <2>4. \A i \in 1 .. Len(b) : i \in 1 .. Len(L)
    BY <2>1, <2>2
  <2>5. \A i \in 1 .. Len(b) : b[i] # DSML
    BY <2>1, <2>2, <2>3, <2>4
  <2>6. QED  BY <2>3, <2>5
<1>2. ASSUME NEW T, NEW tag \in Seq(T), NEW i \in 1 .. Len(tag), tag[i] = DSML
      PROVE  Find(b, tag) < 0
  <2>1. Occurrences(tag, b) = {}
    BY <1>1, <1>2, NoMarkerNoTag
  <2>2. Find(b, tag) < 0 <=> Occurrences(tag, b) = {}
    BY <1>2, FindIs
  <2>3. QED  BY <2>1, <2>2
<1>3. /\ StartToken \in Seq({LT, DSML, CALLS}) /\ 2 \in 1 .. Len(StartToken) /\ StartToken[2] = DSML
      /\ InvokeMarker \in Seq({LT, DSML, INVOKE}) /\ 2 \in 1 .. Len(InvokeMarker)
      /\ InvokeMarker[2] = DSML
      /\ Headless \in Seq({DSML, CALLS}) /\ 1 \in 1 .. Len(Headless) /\ Headless[1] = DSML
  BY Tags, TagPiecesAre
<1>4. ASSUME NEW n \in Nat, n =< Len(b) PROVE DSML \notin Range(From(b, n) \o t)
  <2> DEFINE L == b \o t
             U == From(L, n)
  <2>1. L \in Seq(S) /\ Len(L) = Len(b) + Len(t) /\ DSML \notin Range(L)
    BY Joined
  <2>2. Len(b) \in Nat /\ Len(t) \in Nat /\ n \in 0 .. Len(b)
    BY <1>4
  <2>3. From(b, n) \o t = U
    BY <2>2, RestJoins
  <2> HIDE DEF L
  <2>4. n \in 0 .. Len(L)
    BY <2>1, <2>2
  <2>5. U \in Seq(S) /\ Len(U) = Len(L) - n /\ \A i \in 1 .. Len(L) - n : U[i] = L[i + n]
    BY <2>1, <2>4, Slices, ZenonT(40)
  <2> HIDE DEF U
  <2>6. Range(U) = {U[i] : i \in 1 .. Len(U)} /\ Range(L) = {L[i] : i \in 1 .. Len(L)}
    BY <2>1, <2>5, RangeIs
  <2>7. ASSUME NEW i \in 1 .. Len(U) PROVE U[i] # DSML
    <3>1. i + n \in 1 .. Len(L) /\ i \in 1 .. Len(L) - n
      BY <1>4, <2>1, <2>2, <2>5
    <3>2. QED  BY <2>1, <2>5, <2>6, <3>1
  <2>8. QED  BY <2>3, <2>6, <2>7
<1>5. QED  BY <1>2, <1>3, <1>4

\* Behind the block no step finds another call.
LEMMA BehindReads ==
    ASSUME NEW S, NEW d, Sit(S, d), ReadAll(d),
           RecoverAtInvoke \/ RepairHeadless \/ HoldTail \/ SendText \/ TextBeforeBlock \/ EnterCalls
    PROVE  ReadAll(d)'
<1>1. buffer \in Seq(S) /\ ToCome \in Seq(S) /\ DSML \notin Range(buffer \o ToCome)
      /\ ~inCalls /\ calls = CallsIn(d) /\ active = 0 /\ param = NoParam
  BY DEF Sit, ReadAll, Left, ToCome
<1>2. StartAt < 0 /\ MarkerAt < 0 /\ HeadlessAt < 0
  BY <1>1, NothingFound DEF StartAt, MarkerAt, HeadlessAt
<1>3. StartAt \in Int /\ MarkerAt \in Int /\ HeadlessAt \in Int
  BY <1>1, Tags, FindIs DEF StartAt, MarkerAt, HeadlessAt
<1>4. HoldTail \/ SendText
  BY <1>2, <1>3 DEF RecoverAtInvoke, RepairHeadless, TextBeforeBlock, EnterCalls, HeadlessOpener
<1>5. /\ inCalls' = inCalls /\ calls' = calls /\ active' = active /\ param' = param
      /\ UNCHANGED stream /\ (buffer' = buffer \/ buffer' = From(buffer, Sendable))
  BY <1>4 DEF HoldTail, SendText, Return
<1>6. Sendable \in Nat /\ Sendable =< Len(buffer)
  <2> DEFINE p == TrailingPartial(buffer, <<StartToken, Headless, InvokeMarker>>)
             lb == Len(buffer)
  <2>1. p \in 0 .. Len(buffer) /\ lb \in Nat
    BY <1>1, PartialBounded
  <2>2. lb - p \in Nat /\ lb - p =< lb
    <3>1. p \in 0 .. lb
      BY <2>1
    <3> HIDE DEF p, lb
    <3>2. QED  BY <2>1, <3>1
  <2>3. QED  BY <2>2 DEF Sendable
<1>7. DSML \notin Range(buffer' \o ToCome)
  BY <1>1, <1>5, <1>6, NothingFound
<1>8. QED  BY <1>1, <1>5, <1>7, LeftIs DEF ReadAll

\* The loop looks for a block.
LEMMA SearchReads ==
    ASSUME NEW S, NEW d, Sit(S, d), Progress(d),
           RecoverAtInvoke \/ RepairHeadless \/ HoldTail \/ SendText \/ TextBeforeBlock \/ EnterCalls
    PROVE  /\ Progress(d)'
           /\ phase' = "idle" => ReadAll(d)' \/ Len(ToCome) > 0
<1>1. ~inCalls
  BY DEF RecoverAtInvoke, RepairHeadless, HoldTail, SendText, TextBeforeBlock, EnterCalls,
         NoOpener, Searching
<1>2. Opening(d) \/ ReadAll(d)
  BY <1>1, WhichPart
<1>3. CASE ReadAll(d)
  <2>1. ReadAll(d)'
    BY <1>3, BehindReads
  <2>2. QED  BY <2>1 DEF Progress
<1>4. CASE Opening(d)
  <2>1. CASE HoldTail \/ SendText
    <3>1. Opening(d)' /\ Len(ToCome) > 0
      BY <1>4, <2>1, WaitReads
    <3>2. QED  BY <3>1 DEF Progress
  <2>2. CASE ~(HoldTail \/ SendText)
    <3>1. phase' = "loop"
      BY <2>2 DEF RecoverAtInvoke, RepairHeadless, TextBeforeBlock, EnterCalls, Continue
    <3>2. Between(d)' \/ Opening(d)'
      BY <1>4, <2>2, RecoverReads, RepairReads, TextBeforeReads, EnterReads
    <3>3. QED  BY <3>1, <3>2 DEF Progress
  <2>3. QED  BY <2>1, <2>2
<1>5. QED  BY <1>2, <1>3, <1>4

\* What the loop makes of spaces, and of one of its tags behind them.
Closing(S, end) == end \in Seq(S) /\ Len(end) > 1 /\ end[1] = LT /\ end[2] = SLASH
TagsOf(S, end, opens, L) == WS \in S /\ Closing(S, end) /\ Openers(opens, S, L)

\* The tags that may come are texts that open with "<".
LEMMA TagTyped ==
    ASSUME NEW S, NEW end, NEW opens, NEW L, TagsOf(S, end, opens, L), NEW tag \in {end} \cup opens
    PROVE  tag \in Seq(S) /\ Len(tag) > 1 /\ tag[1] = LT
BY DEF TagsOf, Closing, Openers

\* Two of them that agree as far as both go are the same.
LEMMA SameTag ==
    ASSUME NEW S, NEW end, NEW opens, NEW L, TagsOf(S, end, opens, L),
           NEW tag \in {end} \cup opens, NEW other \in {end} \cup opens,
           \A i \in 1 .. Len(other) : i =< Len(tag) => other[i] = tag[i]
    PROVE  other = tag
<1>1. tag \in Seq(S) /\ Len(tag) > 1 /\ other \in Seq(S) /\ Len(other) > 1
  BY TagTyped
<1>2. other[2] = tag[2]
  BY <1>1
<1>3. end[2] = SLASH /\ \A o \in opens : o[2] = DSML /\ Len(o) = L
  BY DEF TagsOf, Closing, Openers
<1>4. CASE other = end
  BY <1>2, <1>3, <1>4, MarksDiffer
<1>5. CASE other \in opens
  <2>1. tag \in opens
    BY <1>2, <1>3, <1>5, MarksDiffer
  <2>2. Len(other) = Len(tag)
    BY <1>3, <1>5, <2>1
  <2>3. \A i \in 1 .. Len(other) : other[i] = tag[i]
    BY <1>1, <2>2
  <2>4. QED  BY <1>1, <2>2, <2>3, SameSequence
<1>6. QED  BY <1>4, <1>5

TagNext(S, end, opens, L, tag, w, b, t, rest) ==
    /\ TagsOf(S, end, opens, L) /\ tag \in {end} \cup opens /\ w \in Seq(S)
    /\ b \in Seq(S) /\ t \in Seq(S) /\ rest = tag \o w /\ SpacesThen(b \o t, rest)

\* What the parser finds when spaces and a certain tag are ahead: a space, that
\* tag, or not yet all of it.
LEMMA NextTag ==
    ASSUME NEW S, NEW end, NEW opens, NEW L, NEW tag, NEW w, NEW b, NEW t, NEW rest,
           TagNext(S, end, opens, L, tag, w, b, t, rest)
    PROVE  /\ b # <<>> /\ Head(b) = WS => SpacesThen(Tail(b) \o t, rest)
           /\ ~(b # <<>> /\ Head(b) = WS) =>
                /\ \A other \in {end} \cup opens : IsPrefix(other, b) =>
                     other = tag /\ From(b, Len(other)) \o t = w
                /\ (\A other \in {end} \cup opens : ~IsPrefix(other, b)) => Len(t) > 0
<1>0. /\ TagsOf(S, end, opens, L) /\ tag \in {end} \cup opens /\ w \in Seq(S)
      /\ b \in Seq(S) /\ t \in Seq(S) /\ rest = tag \o w /\ SpacesThen(b \o t, rest)
  BY DEF TagNext
<1>1. tag \in Seq(S) /\ Len(tag) > 1 /\ tag[1] = LT /\ WS \in S
  BY <1>0, TagTyped DEF TagsOf
<1>2. rest \in Seq(S) /\ Len(rest) > 0 /\ rest[1] = LT
  <2>1. rest \in Seq(S) /\ Len(rest) = Len(tag) + Len(w) /\ \A i \in 1 .. Len(tag) : rest[i] = tag[i]
    BY <1>0, <1>1, Joined
  <2>2. 1 \in 1 .. Len(tag) /\ Len(w) \in Nat /\ Len(tag) \in Nat
    BY <1>0, <1>1
  <2>3. QED  BY <1>1, <2>1, <2>2
<1>3. /\ b = <<>> => Len(t) > 0
      /\ b # <<>> /\ Head(b) # WS => b \o t = rest
      /\ b # <<>> /\ Head(b) = WS => SpacesThen(Tail(b) \o t, rest)
  BY <1>0, <1>1, <1>2, ThenCases, MarksDiffer
<1>4. ASSUME ~(b # <<>> /\ Head(b) = WS), NEW other \in {end} \cup opens, IsPrefix(other, b)
      PROVE  other = tag /\ From(b, Len(other)) \o t = w
  <2>1. other \in Seq(S) /\ Len(other) > 1
    BY <1>0, <1>4, TagTyped
  <2>2. Len(other) =< Len(b)
    BY <1>4, PrefixShorter
  <2>3. b # <<>>
    BY <2>1, <2>2
  <2>4. b \o t = tag \o w
    BY <1>0, <1>3, <1>4, <2>3
  <2>5. \A i \in 1 .. Len(other) : i =< Len(tag) => other[i] = tag[i]
    <3>1. other \in Seq(S) /\ IsPrefix(other, b) /\ tag \in Seq(S)
      BY <1>1, <1>4, <2>1
    <3>2. TwoTagsAt(S, b, t, other, tag, w)
      BY <1>0, <3>1, <2>4 DEF TwoTagsAt
    <3>3. QED  BY <3>2, TwoTags
  <2>6. other = tag
    <3>1. other \in {end} \cup opens
      BY <1>4
    <3>2. QED  BY <1>0, <3>1, <2>5, SameTag
  <2>7. From(b, Len(tag)) \o t = w
    BY <1>0, <1>1, <2>2, <2>4, <2>6, TagTaken, ZenonT(40)
  <2>8. QED  BY <2>6, <2>7
<1>5. ASSUME ~(b # <<>> /\ Head(b) = WS), \A other \in {end} \cup opens : ~IsPrefix(other, b)
      PROVE  Len(t) > 0
  <2> SUFFICES ASSUME ~(Len(t) > 0) PROVE FALSE
    OBVIOUS
  <2>1. t = <<>> /\ b # <<>>
    BY <1>0, <1>3
  <2>2. b = tag \o w
    <3>1. b \o t = tag \o w
      BY <1>0, <1>3, <1>5, <2>1
    <3>2. b \o <<>> = b
      BY <1>0
    <3> DEFINE r == tag \o w
    <3> HIDE DEF r
    <3>3. b = r
      BY <2>1, <3>1, <3>2 DEF r
    <3>4. QED  BY <3>3 DEF r
  <2>3. IsPrefix(tag, b)
    BY <1>0, <1>1, <2>2, TagAhead
  <2>4. QED  BY <1>0, <1>5, <2>3
<1>6. QED  BY <1>3, <1>4, <1>5

-----------------------------------------------------------------------------
(* Between calls.                                                          *)

\* What comes behind j calls: another call, or the end of the block.
CallTag(d, j) == IF j = Len(d.calls) THEN EndToken ELSE InvokeMarker \o <<d.calls[j + 1].name>>
BehindCallTag(o, d, j) ==
    IF j = Len(d.calls) THEN o.after ELSE d.calls[j + 1].lead \o AfterParams(o, d, j + 1, 0)

\* The tag behind j calls: the next invoke, or the end token.
LEMMA CallTagIs ==
    ASSUME NEW S, NEW o, NEW d, OutputIn(S, o, d), NEW j \in 0 .. Len(d.calls)
    PROVE  /\ TagsOf(S, EndToken, InvokeStarts, 4)
           /\ CallTag(d, j) \in {EndToken} \cup InvokeStarts /\ BehindCallTag(o, d, j) \in Seq(S)
           /\ AfterCalls(o, d, j) = CallTag(d, j) \o BehindCallTag(o, d, j)
           /\ CallTag(d, j) = EndToken => j = Len(d.calls)
           /\ CallTag(d, j) \in InvokeStarts =>
                j < Len(d.calls) /\ Last(CallTag(d, j)) = d.calls[j + 1].name
<1>1. Len(d.calls) \in Nat /\ AllTyped(S, d) /\ Marks \subseteq S /\ Marks \cup Names \cup Params \subseteq S
  BY DEF OutputIn, AllTyped
<1>2. TagsOf(S, EndToken, InvokeStarts, 4)
  <2>1. WS \in S
    BY <1>1, Zenon DEF Marks
  <2>2. Closing(S, EndToken)
    BY <1>1, TagsTyped, Tags, TagPiecesAre DEF Closing
  <2>3. QED  BY <1>1, <2>1, <2>2, OpenersAre DEF TagsOf
<1>3. EndToken[2] = SLASH /\ \A s \in InvokeStarts : s[2] = DSML
  BY <1>2 DEF TagsOf, Closing, Openers
<1>4. CASE j = Len(d.calls)
  <2>1. CallTag(d, j) = EndToken /\ BehindCallTag(o, d, j) = o.after
    BY <1>4 DEF CallTag, BehindCallTag
  <2>2. AfterCalls(o, d, j) = EndToken \o o.after
    BY <1>4, CallsOver
  <2>3. o.after \in Seq(S)
    BY DEF OutputIn, Laid3
  <2>4. QED  BY <1>2, <1>3, <1>4, <2>1, <2>2, <2>3, MarksDiffer
<1>5. CASE j # Len(d.calls)
  <2> DEFINE c == d.calls[j + 1]
  <2>1. j \in 0 .. Len(d.calls) - 1 /\ j + 1 \in 1 .. Len(d.calls) /\ j < Len(d.calls)
    BY <1>1, <1>5
  <2>2. CallTag(d, j) = InvokeMarker \o <<c.name>>
        /\ BehindCallTag(o, d, j) = c.lead \o AfterParams(o, d, j + 1, 0)
    BY <1>5 DEF CallTag, BehindCallTag
  <2>3. AfterCalls(o, d, j) = (InvokeMarker \o <<c.name>>) \o (c.lead \o AfterParams(o, d, j + 1, 0))
    BY <2>1, CallNext
  <2>4. CallIn(S, c)
    BY <1>1, <2>1, CallsTyped
  <2>5. c.name \in Names
    BY <2>4 DEF CallIn, IsCall
  <2>6. c.lead \o AfterParams(o, d, j + 1, 0) \in Seq(S)
    <3>1. c.lead \in Seq(S)
      BY <2>4, CallTextTyped
    <3>2. Len(d.calls[j + 1].params) \in Nat
      BY <2>4, ParamsTyped
    <3>3. 0 \in 0 .. Len(d.calls[j + 1].params)
      BY <3>2
    <3>4. AfterParams(o, d, j + 1, 0) \in Seq(S)
      BY <2>1, <3>3, AfterParamsTyped
    <3>5. QED  BY <3>1, <3>4, Joined
  <2> HIDE DEF c
  <2>7. InvokeMarker \o <<c.name>> \in InvokeStarts
    BY <2>5 DEF InvokeStarts
  <2>8. Last(InvokeMarker \o <<c.name>>) = c.name
    BY <1>1, <2>5, OpenersAre
  <2>9. /\ CallTag(d, j) \in InvokeStarts /\ BehindCallTag(o, d, j) \in Seq(S)
        /\ Last(CallTag(d, j)) = c.name
    BY <2>2, <2>6, <2>7, <2>8 DEF c
  <2>10. CallTag(d, j) # EndToken
    BY <1>3, <2>9, MarksDiffer
  <2>11. AfterCalls(o, d, j) = CallTag(d, j) \o BehindCallTag(o, d, j)
    BY <2>2, <2>3 DEF c
  <2>12. QED  BY <1>2, <2>1, <2>9, <2>10, <2>11 DEF c
<1>6. QED  BY <1>4, <1>5

-----------------------------------------------------------------------------

Sent1(f, args) == [name |-> f, args |-> args]
GivenArgs(cs, j, args) == [cs EXCEPT ![j].args = args]

\* The last of a list is given other arguments.
LEMMA LastSet ==
    ASSUME NEW T, NEW s \in Seq(T), NEW f, NEW old, NEW args, NEW j, j = Len(s) + 1
    PROVE  /\ Append(s, Sent1(f, old))[j].args = old
           /\ GivenArgs(Append(s, Sent1(f, old)), j, args) = Append(s, Sent1(f, args))
<1> DEFINE call == Sent1(f, old)
           new == Sent1(f, args)
           U == T \cup {call, new}
           a == Append(s, call)
           c == Append(s, new)
<1>0. call.args = old /\ [call EXCEPT !.args = args] = new /\ call \in U /\ new \in U /\ s \in Seq(U)
  BY DEF Sent1
<1> HIDE DEF call, new, U
<1>1. /\ a \in Seq(U) /\ Len(a) = j /\ a[j] = call /\ \A i \in 1 .. Len(s) : a[i] = s[i]
      /\ c \in Seq(U) /\ Len(c) = j /\ c[j] = new /\ \A i \in 1 .. Len(s) : c[i] = s[i]
      /\ j \in 1 .. j /\ j \in Nat
  BY <1>0
<1> HIDE DEF a, c
<1> DEFINE e == [a EXCEPT ![j] = new]
<1>2. GivenArgs(a, j, args) = e
  BY <1>0, <1>1 DEF GivenArgs
<1>3. e \in Seq(U) /\ Len(e) = j /\ e[j] = new /\ \A i \in 1 .. j : i # j => e[i] = a[i]
  BY <1>0, <1>1
<1> HIDE DEF e
<1>4. \A i \in 1 .. Len(e) : e[i] = c[i]
  <2> TAKE i \in 1 .. Len(e)
  <2>1. CASE i = j
    BY <2>1, <1>1, <1>3
  <2>2. CASE i # j
    <3>1. i \in 1 .. Len(s) /\ i \in 1 .. j
      BY <2>2, <1>1, <1>3
    <3>2. QED  BY <2>2, <3>1, <1>1, <1>3
  <2>3. QED  BY <2>1, <2>2
<1>5. e = c
  BY <1>1, <1>3, <1>4, SameSequence
<1>6. QED  BY <1>0, <1>1, <1>2, <1>5 DEF a, c, call, new

\* The call under way is the last one, and its arguments are set.
CallOf(S, o, d, j) == OutputIn(S, o, d) /\ j \in 1 .. Len(d.calls)

\* The call under way, with the arguments it has and those it is given.
LEMMA Sent ==
    ASSUME NEW S, NEW o, NEW d, NEW j, CallOf(S, o, d, j), NEW args
    PROVE  /\ Started(d, j, args)[j].args = args
           /\ \A new : GivenArgs(Started(d, j, args), j, new) = Started(d, j, new)
           /\ Started(d, j, <<>>) = Append(Before(CallsIn(d), j - 1), Sent1(d.calls[j].name, <<>>))
           /\ Len(Before(CallsIn(d), j - 1)) + 1 = j
           /\ Before(CallsIn(d), j)
                = Started(d, j, Closed(ArgsAfter(d.calls[j], Len(d.calls[j].params))))
<1>0. OutputIn(S, o, d) /\ j \in 1 .. Len(d.calls)
  BY DEF CallOf
<1>1. PICK T : /\ CallsIn(d) \in Seq(T) /\ Len(CallsIn(d)) = Len(d.calls)
               /\ \A k \in 1 .. Len(d.calls) : CallsIn(d)[k] = WholeCall(d.calls[k])
               /\ Len(d.calls) \in Nat
  BY <1>0, CallsInAre
<1> DEFINE s == CallsIn(d)
           u == Before(s, j - 1)
           f == d.calls[j].name
<1>2. j - 1 \in 0 .. Len(s) /\ j - 1 \in 0 .. Len(s) - 1 /\ j \in Nat
  BY <1>0, <1>1
<1>3. u \in Seq(T) /\ Len(u) = j - 1
  <2> HIDE DEF s
  <2>1. QED  BY <1>1, <1>2, Slices, ZenonT(40) DEF s
<1>4. \A old : Started(d, j, old) = Append(u, Sent1(f, old))
  BY DEF Started, Sent1
<1>5. Before(s, j) = Started(d, j, Closed(ArgsAfter(d.calls[j], Len(d.calls[j].params))))
  <2> DEFINE i == j - 1
  <2>1. i \in 0 .. Len(s) - 1 /\ i + 1 = j /\ s \in Seq(T)
    BY <1>1, <1>2
  <2> HIDE DEF i, s
  <2>2. Before(s, i + 1) = Before(s, i) \o <<s[i + 1]>> /\ s[i + 1] \in T
    BY <2>1, NextOf
  <2>3. Before(s, j) = u \o <<s[j]>> /\ s[j] \in T
    BY <2>1, <2>2 DEF i
  <2>4. s[j] = Sent1(f, Closed(ArgsAfter(d.calls[j], Len(d.calls[j].params))))
    BY <1>0, <1>1 DEF s, WholeCall, Sent1
  <2> HIDE DEF u
  <2>5. u \o <<s[j]>> = Append(u, s[j])
    BY <1>3, <2>3
  <2>6. QED  BY <1>4, <2>3, <2>4, <2>5
<1>6. j = Len(u) + 1
  BY <1>2, <1>3
<1> HIDE DEF s, u, f
<1>7. \A old, new : /\ Append(u, Sent1(f, old))[j].args = old
                    /\ GivenArgs(Append(u, Sent1(f, old)), j, new) = Append(u, Sent1(f, new))
  BY <1>3, <1>6, LastSet
<1>8. Started(d, j, args)[j].args = args
  BY <1>4, <1>7
<1>9. \A new : GivenArgs(Started(d, j, args), j, new) = Started(d, j, new)
  BY <1>4, <1>7
<1>10. Started(d, j, <<>>) = Append(u, Sent1(f, <<>>))
  BY <1>4
<1>11. QED  BY <1>5, <1>6, <1>8, <1>9, <1>10 DEF u, s, f

\* The arguments that the parser changes are those of the call under way.
LEMMA ArgsNow ==
    ASSUME NEW S, NEW d, OutputIn(S, output, d), NEW j \in 1 .. Len(d.calls), NEW args,
           UnderWay(d, j, args)
    PROVE  /\ Args = args
           /\ \A new : SetArgs(new) => calls' = Started(d, j, new)
<1>1. active = j /\ calls = Started(d, j, args)
  BY DEF UnderWay
<1>2. Started(d, j, args)[j].args = args
      /\ \A new : GivenArgs(Started(d, j, args), j, new) = Started(d, j, new)
  <2> DEFINE o == output
  <2>1. CallOf(S, o, d, j)
    BY DEF CallOf
  <2> HIDE DEF o
  <2>2. Started(d, j, args)[j].args = args
    BY <2>1, Sent
  <2>3. \A new : GivenArgs(Started(d, j, args), j, new) = Started(d, j, new)
    BY <2>1, Sent
  <2>4. QED  BY <2>2, <2>3
<1>3. ASSUME NEW new, SetArgs(new) PROVE calls' = Started(d, j, new)
  <2>1. calls' = GivenArgs(calls, active, new)
    BY <1>3 DEF SetArgs, GivenArgs
  <2>2. QED  BY <1>1, <1>2, <2>1
<1>4. QED  BY <1>1, <1>2, <1>3 DEF Args

-----------------------------------------------------------------------------
\* What is in the buffer between two calls.
LEMMA BetweenIs ==
    ASSUME NEW S, NEW d, Sit(S, d), Between(d)
    PROVE  \E j \in 0 .. Len(d.calls) :
             /\ calls = Before(CallsIn(d), j) /\ SpacesThen(buffer \o ToCome, AfterCalls(output, d, j))
             /\ AtSpace => SpacesThen(Tail(buffer) \o ToCome, AfterCalls(output, d, j))
             /\ ~AtSpace =>
                  /\ \A other \in {EndToken} \cup InvokeStarts : IsPrefix(other, buffer) =>
                       /\ other = CallTag(d, j)
                       /\ From(buffer, Len(other)) \o ToCome = BehindCallTag(output, d, j)
                  /\ (\A other \in {EndToken} \cup InvokeStarts : ~IsPrefix(other, buffer))
                       => Len(ToCome) > 0
<1>1. PICK j \in 0 .. Len(d.calls) :
         calls = Before(CallsIn(d), j) /\ SpacesThen(buffer \o ToCome, AfterCalls(output, d, j))
  BY DEF Between, Left, ToCome
<1>2. OutputIn(S, output, d) /\ buffer \in Seq(S) /\ ToCome \in Seq(S)
  BY DEF Sit
<1> DEFINE rest == AfterCalls(output, d, j)
           w == BehindCallTag(output, d, j)
           tag == CallTag(d, j)
           b == buffer
           t == ToCome
           opens == InvokeStarts
           end == EndToken
<1>3. TagsOf(S, end, opens, 4) /\ tag \in {end} \cup opens /\ w \in Seq(S) /\ rest = tag \o w
  BY <1>2, CallTagIs
<1>4. b \in Seq(S) /\ t \in Seq(S) /\ SpacesThen(b \o t, rest)
  BY <1>1, <1>2
<1> HIDE DEF rest, w, tag, b, t, opens, end
<1>5. /\ b # <<>> /\ Head(b) = WS => SpacesThen(Tail(b) \o t, rest)
      /\ ~(b # <<>> /\ Head(b) = WS) =>
           /\ \A other \in {end} \cup opens : IsPrefix(other, b) =>
                other = tag /\ From(b, Len(other)) \o t = w
           /\ (\A other \in {end} \cup opens : ~IsPrefix(other, b)) => Len(t) > 0
  <2>1. TagNext(S, end, opens, 4, tag, w, b, t, rest)
    BY <1>3, <1>4 DEF TagNext
  <2>2. QED  BY <2>1, NextTag
<1>6. QED  BY <1>1, <1>5 DEF AtSpace, rest, w, tag, b, t, opens, end

\* A space between calls is skipped.
LEMMA SpaceBetweenReads ==
    ASSUME NEW S, NEW d, Sit(S, d), Between(d), SkipSpace
    PROVE  Between(d)'
<1>1. /\ AtSpace /\ buffer' = Tail(buffer) /\ UNCHANGED <<inCalls, calls, active, param>>
      /\ UNCHANGED stream
  BY DEF SkipSpace, Continue
<1>2. PICK j \in 0 .. Len(d.calls) :
         /\ calls = Before(CallsIn(d), j)
         /\ AtSpace => SpacesThen(Tail(buffer) \o ToCome, AfterCalls(output, d, j))
  BY BetweenIs
<1>3. SpacesThen(Left', AfterCalls(output', d, j))
  BY <1>1, <1>2, LeftIs
<1>4. inCalls' /\ active' = 0 /\ param' = NoParam /\ calls' = Before(CallsIn(d), j)
  BY <1>1, <1>2 DEF Between
<1>5. QED  BY <1>3, <1>4 DEF Between

\* The parser waits between calls only while more is to come.
LEMMA AwaitInvokeReads ==
    ASSUME NEW S, NEW d, Sit(S, d), Between(d), AwaitInvoke
    PROVE  Between(d)' /\ Len(ToCome) > 0
<1>1. /\ ~AtSpace /\ UNCHANGED <<buffer, inCalls, calls, active, param>> /\ UNCHANGED stream
      /\ \A other \in {EndToken} \cup InvokeStarts : ~IsPrefix(other, buffer)
  BY DEF AwaitInvoke, BetweenInvokes, Return
<1>2. PICK j \in 0 .. Len(d.calls) :
         /\ calls = Before(CallsIn(d), j) /\ SpacesThen(buffer \o ToCome, AfterCalls(output, d, j))
         /\ ~AtSpace =>
              ((\A other \in {EndToken} \cup InvokeStarts : ~IsPrefix(other, buffer))
                 => Len(ToCome) > 0)
  BY BetweenIs
<1>3. SpacesThen(Left', AfterCalls(output', d, j))
  BY <1>1, <1>2, LeftIs
<1>4. inCalls' /\ active' = 0 /\ param' = NoParam /\ calls' = Before(CallsIn(d), j)
  BY <1>1, <1>2 DEF Between
<1>5. Len(ToCome) > 0
  BY <1>1, <1>2
<1>6. QED  BY <1>3, <1>4, <1>5 DEF Between

\* The end token leaves the block, and all calls have been sent.
LEMMA LeaveReads ==
    ASSUME NEW S, NEW d, Sit(S, d), Between(d), LeaveCalls
    PROVE  ReadAll(d)'
<1>1. /\ ~AtSpace /\ buffer' = From(buffer, Len(EndToken)) /\ inCalls' = FALSE
      /\ UNCHANGED <<calls, active, param>> /\ UNCHANGED stream
      /\ IsPrefix(EndToken, buffer)
  BY DEF LeaveCalls, BetweenInvokes, Continue
<1>2. PICK j \in 0 .. Len(d.calls) :
         /\ calls = Before(CallsIn(d), j)
         /\ ~AtSpace => \A other \in {EndToken} \cup InvokeStarts : IsPrefix(other, buffer) =>
                          /\ other = CallTag(d, j)
                          /\ From(buffer, Len(other)) \o ToCome = BehindCallTag(output, d, j)
  BY BetweenIs
<1>3. EndToken = CallTag(d, j) /\ From(buffer, Len(EndToken)) \o ToCome = BehindCallTag(output, d, j)
  BY <1>1, <1>2
<1>4. OutputIn(S, output, d)
  BY DEF Sit
<1>5. j = Len(d.calls)
  BY <1>3, <1>4, CallTagIs
<1>6. Left' = output.after
  BY <1>1, <1>3, <1>5, LeftIs DEF BehindCallTag
<1>7. DSML \notin Range(Left')
  BY <1>4, <1>6 DEF OutputIn, WellFormed
<1>8. ~inCalls' /\ active' = 0 /\ param' = NoParam /\ calls' = CallsIn(d)
  BY <1>1, <1>2, <1>4, <1>5, CallsInAre DEF Between
<1>9. QED  BY <1>7, <1>8 DEF ReadAll

\* No parameter has been read: no argument has been sent.
LEMMA NoArgsYet ==
    ASSUME NEW S, NEW o, NEW d, NEW j, CallOf(S, o, d, j)
    PROVE  /\ ArgsAfter(d.calls[j], 0) = <<>> /\ 0 \in 0 .. Len(d.calls[j].params)
           /\ CallIn(S, d.calls[j]) /\ Len(d.calls[j].params) \in Nat
           /\ Range(d.calls[j].lead) \subseteq {WS} /\ Range(d.calls[j].gap) \subseteq {WS}
           /\ d.calls[j].lead \in Seq(S) /\ d.calls[j].gap \in Seq(S)
<1> DEFINE c == d.calls[j]
<1>0. OutputIn(S, o, d) /\ j \in 1 .. Len(d.calls) /\ AllTyped(S, d)
  BY DEF CallOf, OutputIn
<1>1. CallIn(S, c)
  BY <1>0, CallsTyped
<1> HIDE DEF c
<1>2. EntryTexts(c) \in Seq(Seq(S))
  BY <1>1, EntriesAre
<1>3. ArgsAfter(c, 0) = <<>>
  <2> DEFINE e == EntryTexts(c)
  <2>1. e \in Seq(Seq(S))
    BY <1>2
  <2> HIDE DEF e
  <2>2. FlattenSeq(Before(e, 0)) = <<>>
    BY <2>1, FlattenEnds
  <2>3. QED  BY <2>2 DEF e, ArgsAfter
<1>4. Len(c.params) \in Nat
  BY <1>1, ParamsTyped
<1>5. c.lead \in Spaces /\ c.gap \in Spaces
  BY <1>1 DEF CallIn, IsCall
<1>6. ASSUME NEW g \in Spaces PROVE Range(g) \subseteq {WS}
  <2>1. g \in Seq({WS})
    BY <1>6 DEF Spaces
  <2>2. Range(g) = {g[i] : i \in 1 .. Len(g)}
    BY <2>1, RangeIs
  <2>3. \A i \in 1 .. Len(g) : g[i] = WS
    BY <2>1
  <2>4. QED  BY <2>2, <2>3
<1>7. c.lead \in Seq(S) /\ c.gap \in Seq(S)
  BY <1>1, CallTextTyped
<1>8. QED  BY <1>1, <1>3, <1>4, <1>5, <1>6, <1>7 DEF c

\* An invoke begins the next call.
LEMMA BeginReads ==
    ASSUME NEW S, NEW d, Sit(S, d), Between(d), BeginCall
    PROVE  WithinCall(d)'
<1>1. PICK start \in InvokeStarts :
         /\ IsPrefix(start, buffer) /\ buffer' = From(buffer, Len(start))
         /\ calls' = Append(calls, [name |-> Last(start), args |-> <<>>])
  BY DEF BeginCall
<1>2. /\ ~AtSpace /\ active' = Len(calls) + 1 /\ UNCHANGED <<inCalls, param>> /\ UNCHANGED stream
  BY DEF BeginCall, BetweenInvokes, Continue
<1>3. PICK i \in 0 .. Len(d.calls) :
         /\ calls = Before(CallsIn(d), i)
         /\ ~AtSpace => \A other \in {EndToken} \cup InvokeStarts : IsPrefix(other, buffer) =>
                          /\ other = CallTag(d, i)
                          /\ From(buffer, Len(other)) \o ToCome = BehindCallTag(output, d, i)
  BY BetweenIs
<1>4. start = CallTag(d, i) /\ From(buffer, Len(start)) \o ToCome = BehindCallTag(output, d, i)
  BY <1>1, <1>2, <1>3
<1>5. OutputIn(S, output, d) /\ Len(d.calls) \in Nat
  BY DEF Sit, OutputIn, AllTyped
<1>6. i < Len(d.calls) /\ Last(start) = d.calls[i + 1].name
  BY <1>4, <1>5, CallTagIs
<1> DEFINE j == i + 1
<1>7. j \in 1 .. Len(d.calls) /\ j - 1 = i /\ i # Len(d.calls)
  BY <1>5, <1>6
<1>8. CallOf(S, output, d, j)
  BY <1>5, <1>7 DEF CallOf
<1> DEFINE rest == AfterParams(output, d, j, 0)
           lead == d.calls[j].lead
<1>9. Left' = lead \o rest /\ output' = output
  BY <1>1, <1>2, <1>4, <1>7, LeftIs DEF BehindCallTag
<1>10. /\ ArgsAfter(d.calls[j], 0) = <<>> /\ 0 \in 0 .. Len(d.calls[j].params)
       /\ lead \in Seq(S) /\ Range(lead) \subseteq {WS} /\ rest \in Seq(S)
  <2> HIDE DEF j
  <2>1. /\ ArgsAfter(d.calls[j], 0) = <<>> /\ 0 \in 0 .. Len(d.calls[j].params)
        /\ lead \in Seq(S) /\ Range(lead) \subseteq {WS}
    BY <1>8, NoArgsYet
  <2>2. rest \in Seq(S)
    BY <1>5, <1>7, <2>1, AfterParamsTyped
  <2>3. QED  BY <2>1, <2>2
<1>11. SpacesThen(Left', AfterParams(output', d, j, 0))
  <2> HIDE DEF rest, lead, j
  <2>1. SpacesThen(lead \o rest, rest)
    BY <1>10, ThenOf
  <2>2. QED  BY <1>9, <2>1 DEF rest
<1>12. calls' = Started(d, j, <<>>) /\ active' = j
  <2>1. calls' = Append(Before(CallsIn(d), j - 1), Sent1(d.calls[j].name, <<>>))
    BY <1>1, <1>3, <1>6, <1>7 DEF Sent1
  <2>2. active' = Len(Before(CallsIn(d), j - 1)) + 1
    BY <1>2, <1>3, <1>7
  <2> HIDE DEF j
  <2>3. QED  BY <1>8, <2>1, <2>2, Sent
<1>13. inCalls' /\ param' = NoParam
  BY <1>2 DEF Between
<1> HIDE DEF j
<1>14. UnderWay(d, j, ArgsAfter(d.calls[j], 0))'
  BY <1>10, <1>12, <1>13 DEF UnderWay
<1>15. QED  BY <1>7, <1>10, <1>11, <1>13, <1>14 DEF WithinCall

\* The arguments after one more parameter.
LEMMA ArgsNext ==
    ASSUME NEW S, NEW c, CallIn(S, c), NEW i \in 1 .. Len(c.params)
    PROVE  /\ ArgsAfter(c, i) = ArgsAfter(c, i - 1) \o EntryTexts(c)[i]
           /\ ArgsAfter(c, i) \in Seq(S) /\ ArgsAfter(c, i - 1) \in Seq(S)
           /\ EntryTexts(c)[i] \in Seq(S)
           /\ Len(ArgsAfter(c, i)) > 0
<1> DEFINE e == EntryTexts(c)
           k == i - 1
<1>1. e \in Seq(Seq(S)) /\ Len(e) = Len(c.params) /\ Len(e[i]) > 0 /\ Len(c.params) \in Nat
  BY EntriesTyped, ParamsTyped
<1>2. k \in 0 .. Len(e) - 1 /\ k + 1 = i
  BY <1>1
<1> HIDE DEF e, k
<1>3. /\ FlattenSeq(Before(e, k + 1)) = FlattenSeq(Before(e, k)) \o e[k + 1]
      /\ FlattenSeq(Before(e, k)) \in Seq(S) /\ FlattenSeq(Before(e, k + 1)) \in Seq(S)
      /\ e[k + 1] \in Seq(S)
  BY <1>1, <1>2, FlattenNext
<1>4. ArgsAfter(c, i) = FlattenSeq(Before(e, k + 1)) /\ ArgsAfter(c, i - 1) = FlattenSeq(Before(e, k))
  BY <1>2 DEF ArgsAfter, e, k
<1> DEFINE x == FlattenSeq(Before(e, k))
           y == e[i]
           z == FlattenSeq(Before(e, k + 1))
<1>5. z = x \o y /\ x \in Seq(S) /\ y \in Seq(S) /\ z \in Seq(S) /\ Len(y) > 0
  BY <1>1, <1>2, <1>3
<1> HIDE DEF x, y, z
<1>6. Len(z) > 0
  <2>1. Len(x \o y) = Len(x) + Len(y) /\ Len(x) \in Nat /\ Len(y) \in Nat
    BY <1>5, Joined
  <2>2. Len(z) = Len(x) + Len(y)
    BY <1>5, <2>1
  <2>3. QED  BY <1>5, <2>1, <2>2
<1>7. QED  BY <1>2, <1>4, <1>5, <1>6 DEF x, y, z, e

\* Arguments have been sent when, and only when, a parameter has been read.
LEMMA ArgsEmpty ==
    ASSUME NEW S, NEW o, NEW d, NEW j, CallOf(S, o, d, j), NEW i \in 0 .. Len(d.calls[j].params)
    PROVE  ArgsAfter(d.calls[j], i) = <<>> <=> i = 0
<1> DEFINE c == d.calls[j]
<1>1. CallIn(S, c) /\ ArgsAfter(c, 0) = <<>> /\ Len(c.params) \in Nat
  BY NoArgsYet
<1> HIDE DEF c
<1>2. CASE i = 0
  BY <1>1, <1>2 DEF c
<1>3. CASE i # 0
  <2>1. i \in 1 .. Len(c.params)
    BY <1>1, <1>3 DEF c
  <2>2. Len(ArgsAfter(c, i)) > 0
    BY <1>1, <2>1, ArgsNext
  <2>3. Len(<<>>) = 0
    OBVIOUS
  <2>4. QED  BY <1>3, <2>2, <2>3 DEF c
<1>4. QED  BY <1>2, <1>3

-----------------------------------------------------------------------------
(* Between parameters.                                                     *)

ParamTag(c, i) == IF i = Len(c.params) THEN InvokeEnd ELSE <<LT, DSML, c.params[i + 1].key>>
BehindParamTag(o, d, j, i) ==
    IF i = Len(d.calls[j].params) THEN d.calls[j].gap \o AfterCalls(o, d, j)
    ELSE d.calls[j].params[i + 1].text \o AfterValue(o, d, j, i + 1)

\* The tag behind i parameters: the next one, or the end of the invoke.
LEMMA ParamTagIs ==
    ASSUME NEW S, NEW o, NEW d, NEW j, CallOf(S, o, d, j), NEW i \in 0 .. Len(d.calls[j].params)
    PROVE  /\ TagsOf(S, InvokeEnd, ParamStarts, 3)
           /\ ParamTag(d.calls[j], i) \in {InvokeEnd} \cup ParamStarts
           /\ BehindParamTag(o, d, j, i) \in Seq(S)
           /\ AfterParams(o, d, j, i) = ParamTag(d.calls[j], i) \o BehindParamTag(o, d, j, i)
           /\ ParamTag(d.calls[j], i) = InvokeEnd => i = Len(d.calls[j].params)
           /\ ParamTag(d.calls[j], i) \in ParamStarts =>
                i < Len(d.calls[j].params)
                /\ Last(ParamTag(d.calls[j], i)) = d.calls[j].params[i + 1].key
<1> DEFINE c == d.calls[j]
           n == Len(c.params)
<1>1. /\ OutputIn(S, o, d) /\ j \in 1 .. Len(d.calls) /\ Marks \subseteq S
      /\ Marks \cup Names \cup Params \subseteq S
  BY DEF CallOf, OutputIn, AllTyped
<1>2. TagsOf(S, InvokeEnd, ParamStarts, 3)
  <2>1. WS \in S
    BY <1>1, Zenon DEF Marks
  <2>2. Closing(S, InvokeEnd)
    BY <1>1, TagsTyped, Tags, TagPiecesAre DEF Closing
  <2>3. QED  BY <1>1, <2>1, <2>2, OpenersAre DEF TagsOf
<1>3. InvokeEnd[2] = SLASH /\ \A s \in ParamStarts : s[2] = DSML
  BY <1>2 DEF TagsOf, Closing, Openers
<1>4. CallIn(S, c) /\ n \in Nat
  BY NoArgsYet
<1>5. CASE i = n
  <2>1. ParamTag(c, i) = InvokeEnd /\ BehindParamTag(o, d, j, i) = c.gap \o AfterCalls(o, d, j)
    BY <1>5 DEF ParamTag, BehindParamTag
  <2>2. AfterParams(o, d, j, i) = InvokeEnd \o (c.gap \o AfterCalls(o, d, j))
    BY <1>1, <1>5, ParamsOver
  <2>3. c.gap \o AfterCalls(o, d, j) \in Seq(S)
    BY <1>1, AfterParamsTyped
  <2>4. QED  BY <1>2, <1>3, <1>5, <2>1, <2>2, <2>3, MarksDiffer
<1>6. CASE i # n
  <2> DEFINE p == c.params[i + 1]
  <2>1. i \in 0 .. n - 1 /\ i + 1 \in 1 .. n /\ i < n
    BY <1>4, <1>6, SMTT(30)
  <2>2. ParamTag(c, i) = <<LT, DSML, p.key>>
        /\ BehindParamTag(o, d, j, i) = p.text \o AfterValue(o, d, j, i + 1)
    BY <1>6, Zenon DEF ParamTag, BehindParamTag
  <2>3. /\ AfterParams(o, d, j, i) = <<LT, DSML, p.key>> \o (p.text \o AfterValue(o, d, j, i + 1))
        /\ AfterValue(o, d, j, i + 1) \in Seq(S)
    BY <1>1, <2>1, ParamNext, Zenon
  <2>4. ParamIn(S, p)
    BY <1>4, <2>1, ParamsTyped
  <2>5. p.key \in Params /\ p.text \in Seq(S)
    BY <2>4, Zenon DEF ParamIn, IsParam, ParamTyped
  <2>6. p.text \o AfterValue(o, d, j, i + 1) \in Seq(S)
    BY <2>3, <2>5, Joined, Zenon
  <2> HIDE DEF p
  <2>7. <<LT, DSML, p.key>> \in ParamStarts
    BY <2>5 DEF ParamStarts
  <2>8. Last(<<LT, DSML, p.key>>) = p.key
    BY <1>1, <2>5, OpenersAre, Zenon
  <2>9. /\ ParamTag(c, i) \in ParamStarts /\ BehindParamTag(o, d, j, i) \in Seq(S)
        /\ Last(ParamTag(c, i)) = p.key
    BY <2>2, <2>6, <2>7, <2>8, Zenon DEF p
  <2>10. ParamTag(c, i) # InvokeEnd
    BY <1>3, <2>9, MarksDiffer, Zenon
  <2>11. AfterParams(o, d, j, i) = ParamTag(c, i) \o BehindParamTag(o, d, j, i)
    BY <2>2, <2>3, Zenon DEF p
  <2>12. QED  BY <1>2, <2>1, <2>9, <2>10, <2>11 DEF p
<1>7. QED  BY <1>5, <1>6

\* What is in the buffer between two parameters.
LEMMA WithinIs ==
    ASSUME NEW S, NEW d, Sit(S, d), WithinCall(d)
    PROVE  \E j \in 1 .. Len(d.calls) : \E i \in 0 .. Len(d.calls[j].params) :
             /\ CallOf(S, output, d, j) /\ UnderWay(d, j, ArgsAfter(d.calls[j], i))
             /\ SpacesThen(buffer \o ToCome, AfterParams(output, d, j, i))
             /\ AtSpace => SpacesThen(Tail(buffer) \o ToCome, AfterParams(output, d, j, i))
             /\ ~AtSpace =>
                  /\ \A other \in {InvokeEnd} \cup ParamStarts : IsPrefix(other, buffer) =>
                       /\ other = ParamTag(d.calls[j], i)
                       /\ From(buffer, Len(other)) \o ToCome = BehindParamTag(output, d, j, i)
                  /\ (\A other \in {InvokeEnd} \cup ParamStarts : ~IsPrefix(other, buffer))
                       => Len(ToCome) > 0
<1>1. PICK j \in 1 .. Len(d.calls) : \E i \in 0 .. Len(d.calls[j].params) :
         /\ UnderWay(d, j, ArgsAfter(d.calls[j], i))
         /\ SpacesThen(buffer \o ToCome, AfterParams(output, d, j, i))
  BY DEF WithinCall, Left, ToCome
<1>2. PICK i \in 0 .. Len(d.calls[j].params) :
         /\ UnderWay(d, j, ArgsAfter(d.calls[j], i))
         /\ SpacesThen(buffer \o ToCome, AfterParams(output, d, j, i))
  BY <1>1
<1>3. CallOf(S, output, d, j) /\ buffer \in Seq(S) /\ ToCome \in Seq(S)
  BY DEF Sit, CallOf
<1> DEFINE rest == AfterParams(output, d, j, i)
           w == BehindParamTag(output, d, j, i)
           tag == ParamTag(d.calls[j], i)
           b == buffer
           t == ToCome
           opens == ParamStarts
           end == InvokeEnd
<1>4. TagsOf(S, end, opens, 3) /\ tag \in {end} \cup opens /\ w \in Seq(S) /\ rest = tag \o w
  BY <1>2, <1>3, ParamTagIs
<1>5. b \in Seq(S) /\ t \in Seq(S) /\ SpacesThen(b \o t, rest)
  BY <1>2, <1>3
<1> HIDE DEF rest, w, tag, b, t, opens, end
<1>6. /\ b # <<>> /\ Head(b) = WS => SpacesThen(Tail(b) \o t, rest)
      /\ ~(b # <<>> /\ Head(b) = WS) =>
           /\ \A other \in {end} \cup opens : IsPrefix(other, b) =>
                other = tag /\ From(b, Len(other)) \o t = w
           /\ (\A other \in {end} \cup opens : ~IsPrefix(other, b)) => Len(t) > 0
  <2>1. TagNext(S, end, opens, 3, tag, w, b, t, rest)
    BY <1>4, <1>5 DEF TagNext
  <2>2. QED  BY <2>1, NextTag
<1>7. QED  BY <1>2, <1>3, <1>6 DEF AtSpace, rest, w, tag, b, t, opens, end

\* A space between parameters is skipped.
LEMMA SpaceWithinReads ==
    ASSUME NEW S, NEW d, Sit(S, d), WithinCall(d), SkipSpace
    PROVE  WithinCall(d)'
<1>1. /\ AtSpace /\ buffer' = Tail(buffer) /\ UNCHANGED <<inCalls, calls, active, param>>
      /\ UNCHANGED stream
  BY DEF SkipSpace, Continue
<1>5. PICK j \in 1 .. Len(d.calls) : \E i \in 0 .. Len(d.calls[j].params) :
         /\ UnderWay(d, j, ArgsAfter(d.calls[j], i))
         /\ AtSpace => SpacesThen(Tail(buffer) \o ToCome, AfterParams(output, d, j, i))
  BY WithinIs
<1>2. PICK i \in 0 .. Len(d.calls[j].params) :
         /\ UnderWay(d, j, ArgsAfter(d.calls[j], i))
         /\ AtSpace => SpacesThen(Tail(buffer) \o ToCome, AfterParams(output, d, j, i))
  BY <1>5
<1>3. SpacesThen(Left', AfterParams(output', d, j, i))
  BY <1>1, <1>2, LeftIs
<1>4. UnderWay(d, j, ArgsAfter(d.calls[j], i))' /\ param' = NoParam
  BY <1>1, <1>2 DEF WithinCall, UnderWay
<1>6. QED  BY <1>3, <1>4 DEF WithinCall

\* The parser waits between parameters only while more is to come.
LEMMA AwaitParamReads ==
    ASSUME NEW S, NEW d, Sit(S, d), WithinCall(d), AwaitParam
    PROVE  WithinCall(d)' /\ Len(ToCome) > 0
<1>1. /\ ~AtSpace /\ UNCHANGED <<buffer, inCalls, calls, active, param>> /\ UNCHANGED stream
      /\ \A other \in {InvokeEnd} \cup ParamStarts : ~IsPrefix(other, buffer)
  BY DEF AwaitParam, InCall, Return
<1>2. PICK j \in 1 .. Len(d.calls) : \E i \in 0 .. Len(d.calls[j].params) :
         /\ UnderWay(d, j, ArgsAfter(d.calls[j], i))
         /\ SpacesThen(buffer \o ToCome, AfterParams(output, d, j, i))
         /\ ~AtSpace =>
              ((\A other \in {InvokeEnd} \cup ParamStarts : ~IsPrefix(other, buffer))
                 => Len(ToCome) > 0)
  BY WithinIs
<1>3. PICK i \in 0 .. Len(d.calls[j].params) :
         /\ UnderWay(d, j, ArgsAfter(d.calls[j], i))
         /\ SpacesThen(buffer \o ToCome, AfterParams(output, d, j, i))
         /\ ~AtSpace =>
              ((\A other \in {InvokeEnd} \cup ParamStarts : ~IsPrefix(other, buffer))
                 => Len(ToCome) > 0)
  BY <1>2
<1>4. SpacesThen(Left', AfterParams(output', d, j, i))
  BY <1>1, <1>3, LeftIs
<1>5. UnderWay(d, j, ArgsAfter(d.calls[j], i))' /\ param' = NoParam
  BY <1>1, <1>3 DEF WithinCall, UnderWay
<1>6. Len(ToCome) > 0
  BY <1>1, <1>3
<1>7. QED  BY <1>4, <1>5, <1>6 DEF WithinCall

\* The tag at the front of the buffer, in a call.
LEMMA TagWithin ==
    ASSUME NEW S, NEW d, Sit(S, d), WithinCall(d), ~AtSpace,
           NEW other \in {InvokeEnd} \cup ParamStarts, IsPrefix(other, buffer)
    PROVE  \E j \in 1 .. Len(d.calls) : \E i \in 0 .. Len(d.calls[j].params) :
             /\ CallOf(S, output, d, j) /\ UnderWay(d, j, ArgsAfter(d.calls[j], i))
             /\ other = ParamTag(d.calls[j], i)
             /\ From(buffer, Len(other)) \o ToCome = BehindParamTag(output, d, j, i)
<1>1. PICK j \in 1 .. Len(d.calls) : \E i \in 0 .. Len(d.calls[j].params) :
         /\ CallOf(S, output, d, j) /\ UnderWay(d, j, ArgsAfter(d.calls[j], i))
         /\ ~AtSpace =>
              \A tag \in {InvokeEnd} \cup ParamStarts : IsPrefix(tag, buffer) =>
                 /\ tag = ParamTag(d.calls[j], i)
                 /\ From(buffer, Len(tag)) \o ToCome = BehindParamTag(output, d, j, i)
  BY WithinIs
<1>2. PICK i \in 0 .. Len(d.calls[j].params) :
         /\ CallOf(S, output, d, j) /\ UnderWay(d, j, ArgsAfter(d.calls[j], i))
         /\ ~AtSpace =>
              \A tag \in {InvokeEnd} \cup ParamStarts : IsPrefix(tag, buffer) =>
                 /\ tag = ParamTag(d.calls[j], i)
                 /\ From(buffer, Len(tag)) \o ToCome = BehindParamTag(output, d, j, i)
  BY <1>1
<1>3. /\ other = ParamTag(d.calls[j], i)
      /\ From(buffer, Len(other)) \o ToCome = BehindParamTag(output, d, j, i)
  BY <1>2
<1>4. QED  BY <1>2, <1>3

\* The end of an invoke closes the arguments of its call.
LEMMA CloseReads ==
    ASSUME NEW S, NEW d, Sit(S, d), WithinCall(d), CloseCall
    PROVE  Between(d)'
<1>1. /\ ~AtSpace /\ IsPrefix(InvokeEnd, buffer) /\ buffer' = From(buffer, Len(InvokeEnd))
      /\ SetArgs(Closed(Args)) /\ active' = 0 /\ UNCHANGED <<inCalls, param>> /\ UNCHANGED stream
  BY DEF CloseCall, InCall, Continue
<1>2. PICK j \in 1 .. Len(d.calls) : \E i \in 0 .. Len(d.calls[j].params) :
         /\ CallOf(S, output, d, j) /\ UnderWay(d, j, ArgsAfter(d.calls[j], i))
         /\ InvokeEnd = ParamTag(d.calls[j], i)
         /\ From(buffer, Len(InvokeEnd)) \o ToCome = BehindParamTag(output, d, j, i)
  <2> DEFINE tag == InvokeEnd
  <2>1. tag \in {InvokeEnd} \cup ParamStarts /\ IsPrefix(tag, buffer) /\ ~AtSpace
    BY <1>1
  <2> HIDE DEF tag
  <2>2. \E j \in 1 .. Len(d.calls) : \E i \in 0 .. Len(d.calls[j].params) :
           /\ CallOf(S, output, d, j) /\ UnderWay(d, j, ArgsAfter(d.calls[j], i))
           /\ tag = ParamTag(d.calls[j], i)
           /\ From(buffer, Len(tag)) \o ToCome = BehindParamTag(output, d, j, i)
    BY <2>1, TagWithin, SMTT(30)
  <2>3. QED  BY <2>2 DEF tag
<1>3. PICK i \in 0 .. Len(d.calls[j].params) :
         /\ CallOf(S, output, d, j) /\ UnderWay(d, j, ArgsAfter(d.calls[j], i))
         /\ InvokeEnd = ParamTag(d.calls[j], i)
         /\ From(buffer, Len(InvokeEnd)) \o ToCome = BehindParamTag(output, d, j, i)
  BY <1>2
<1>4. i = Len(d.calls[j].params)
  BY <1>3, ParamTagIs, SMTT(30)
<1> DEFINE rest == AfterCalls(output, d, j)
           gap == d.calls[j].gap
<1>5. Left' = gap \o rest /\ output' = output
  BY <1>1, <1>3, <1>4, LeftIs DEF BehindParamTag
<1>6. OutputIn(S, output, d) /\ Len(d.calls) \in Nat
  BY DEF Sit, OutputIn, AllTyped
<1>7. j \in 0 .. Len(d.calls)
  BY <1>6
<1>8. gap \in Seq(S) /\ Range(gap) \subseteq {WS} /\ rest \in Seq(S)
  BY <1>3, <1>6, <1>7, NoArgsYet, AfterCallsTyped
<1>9. SpacesThen(Left', AfterCalls(output', d, j))
  <2> HIDE DEF rest, gap
  <2>1. SpacesThen(gap \o rest, rest)
    BY <1>8, ThenOf
  <2>2. QED  BY <1>5, <2>1 DEF rest
<1>10. calls' = Before(CallsIn(d), j)
  <2> DEFINE args == ArgsAfter(d.calls[j], i)
  <2>1. UnderWay(d, j, args)
    BY <1>3
  <2> HIDE DEF args
  <2>2. Args = args /\ \A new : SetArgs(new) => calls' = Started(d, j, new)
    BY <1>6, <2>1, ArgsNow
  <2>3. calls' = Started(d, j, Closed(args))
    BY <1>1, <2>2
  <2>4. Before(CallsIn(d), j) = Started(d, j, Closed(ArgsAfter(d.calls[j], Len(d.calls[j].params))))
    BY <1>3, Sent
  <2>5. QED  BY <1>4, <2>3, <2>4 DEF args
<1>11. inCalls' /\ param' = NoParam
  BY <1>1, <1>3 DEF WithinCall, UnderWay
<1>12. QED  BY <1>1, <1>7, <1>9, <1>10, <1>11 DEF Between

\* How the value of a parameter is to be sent.
LEMMA ModeIs ==
    ASSUME NEW S, NEW d, NEW j, CallOf(S, output, d, j), NEW i \in 0 .. Len(d.calls[j].params),
           UnderWay(d, j, ArgsAfter(d.calls[j], i)), NEW p
    PROVE  /\ p \in Wrappers /\ i = 0 => ModeOf(p) = "wrapper"
           /\ ~(p \in Wrappers /\ i = 0) /\ p \in ScalarParams => ModeOf(p) = "buffered"
           /\ ~(p \in Wrappers /\ i = 0) /\ p \in ObjectParams => ModeOf(p) = "raw"
           /\ ~(p \in Wrappers /\ i = 0) /\ p \notin ScalarParams \cup ObjectParams
                => ModeOf(p) = "string"
           /\ p \in Wrappers => p \notin ScalarParams \cup ObjectParams
           /\ p \in ScalarParams => p \notin ObjectParams
<1>1. OutputIn(S, output, d) /\ j \in 1 .. Len(d.calls)
  BY DEF CallOf
<1>2. Args = ArgsAfter(d.calls[j], i)
  BY <1>1, ArgsNow
<1>3. Args = <<>> <=> i = 0
  BY <1>2, ArgsEmpty
<1>4. /\ p \in Wrappers => p \notin ScalarParams \cup ObjectParams
      /\ p \in ScalarParams => p \notin ObjectParams
  BY ParamsAssumption
<1>5. p \in Wrappers /\ i = 0 => ModeOf(p) = "wrapper"
  BY <1>3, <1>4 DEF ModeOf
<1>6. ~(p \in Wrappers /\ i = 0) /\ p \in ScalarParams => ModeOf(p) = "buffered"
  BY <1>3, <1>4 DEF ModeOf
<1>7. ~(p \in Wrappers /\ i = 0) /\ p \in ObjectParams => ModeOf(p) = "raw"
  BY <1>3, <1>4 DEF ModeOf
<1>8. ~(p \in Wrappers /\ i = 0) /\ p \notin ScalarParams \cup ObjectParams => ModeOf(p) = "string"
  BY <1>3, <1>4, Zenon DEF ModeOf
<1>9. QED  BY <1>4, <1>5, <1>6, <1>7, <1>8

\* A parameter of a call: the types of all that is said of it.
ParamOf(S, o, d, j, i) == CallOf(S, o, d, j) /\ i \in 1 .. Len(d.calls[j].params)

\* Whether it is the first of its call.
FirstKey(args, p, i) ==
    (args = <<>> <=> i = 1) /\ Prefix(args, p) = Prefix(TextBefore(i), p)

ObjectText(p) == p.key \in ObjectParams => p.text = <<OBJECT>>

\* What is sent for a parameter, and what follows it.
LEMMA ParamFacts ==
    ASSUME NEW S, NEW o, NEW d, NEW j, NEW i, ParamOf(S, o, d, j, i)
    PROVE  LET c == d.calls[j]
               p == c.params[i]
               args == ArgsAfter(c, i - 1)
           IN  /\ args \in Seq(S) /\ FirstKey(args, p.key, i) /\ Prefix(args, p.key) \in Seq(S)
               /\ p.text \in Seq(S) /\ <<QUOTE>> \in Seq(S) /\ Converted(p.key, p.text) \in Seq(S)
               /\ p.key \in Params /\ ObjectText(p)
               /\ Occurrences(ParamEnd, p.text) = {}
               /\ AfterValue(o, d, j, i) = ParamEnd \o (p.gap \o AfterParams(o, d, j, i))
               /\ AfterValue(o, d, j, i) \in Seq(S)
               /\ p.gap \o AfterParams(o, d, j, i) \in Seq(S)
               /\ p.gap \in Seq(S) /\ Range(p.gap) \subseteq {WS} /\ AfterParams(o, d, j, i) \in Seq(S)
               /\ Marks \subseteq S
<1> DEFINE c == d.calls[j]
           p == c.params[i]
           n == Len(c.params)
           args == ArgsAfter(c, i - 1)
<1>0. /\ OutputIn(S, o, d) /\ j \in 1 .. Len(d.calls) /\ i \in 1 .. n /\ CallOf(S, o, d, j)
      /\ Marks \subseteq S
  BY DEF ParamOf, CallOf, OutputIn
<1>1. CallIn(S, c) /\ n \in Nat
  BY <1>0, NoArgsYet
<1>2. i - 1 \in 0 .. n - 1 /\ i - 1 \in 0 .. n /\ i \in 0 .. n /\ (i - 1) + 1 = i /\ (i - 1 = 0 <=> i = 1)
  BY <1>0, <1>1
<1>3. args = <<>> <=> i = 1
  <2>1. args = <<>> <=> i - 1 = 0
    BY <1>0, <1>2, ArgsEmpty
  <2>2. QED  BY <1>2, <2>1
<1>4. args \in Seq(S)
  BY <1>0, <1>1, ArgsNext
<1>5. /\ Prefix(TextBefore(i), p.key) \in Seq(S)
      /\ Converted(p.key, p.text) \in Seq(S)
  BY <1>0, <1>1, EntriesTyped
<1>6. Prefix(args, p.key) = Prefix(TextBefore(i), p.key)
  <2>1. TextBefore(i) = <<>> <=> i = 1
    <3>1. <<>> # <<"{">>
      OBVIOUS
    <3>2. QED  BY <3>1 DEF TextBefore
  <2> HIDE DEF args, p
  <2>2. QED  BY <1>3, <2>1, Zenon DEF Prefix
<1>7. ParamIn(S, p)
  BY <1>0, <1>1, ParamsTyped
<1>8. /\ p.text \in Seq(S) /\ p.key \in Params /\ (p.key \in ObjectParams => p.text = <<OBJECT>>)
      /\ p.gap \in Seq(S) /\ p.gap \in Spaces /\ Occurrences(ParamEnd, p.text) = {}
  BY <1>7 DEF ParamIn, IsParam, ParamTyped
<1>9. Range(p.gap) \subseteq {WS}
  <2> DEFINE g == p.gap
  <2>1. g \in Seq({WS})
    BY <1>8 DEF Spaces
  <2> HIDE DEF g
  <2>2. Range(g) = {g[k] : k \in 1 .. Len(g)}
    BY <2>1, RangeIs
  <2>3. \A k \in 1 .. Len(g) : g[k] = WS
    BY <2>1
  <2>4. QED  BY <2>2, <2>3 DEF g
<1>10. <<QUOTE>> \in Seq(S)
  <2>1. QUOTE \in S
    BY <1>0, Zenon DEF Marks
  <2>2. QED  BY <2>1, OnePiece
<1>11. AfterParams(o, d, j, i) \in Seq(S)
  BY <1>0, <1>2, AfterParamsTyped
<1>12. /\ p.gap \o AfterParams(o, d, j, i) \in Seq(S)
       /\ AfterValue(o, d, j, i) \in Seq(S)
  <2> DEFINE m == i - 1
  <2>1. m \in 0 .. Len(d.calls[j].params) - 1 /\ m + 1 = i
    BY <1>2, Zenon
  <2> HIDE DEF m, c, p, n, args
  <2>2. /\ d.calls[j].params[m + 1].gap \o AfterParams(o, d, j, m + 1) \in Seq(S)
        /\ AfterValue(o, d, j, m + 1) \in Seq(S)
    BY <1>0, <2>1, ParamNext
  <2>3. QED  BY <2>1, <2>2 DEF p, c
<1>13. AfterValue(o, d, j, i) = ParamEnd \o (p.gap \o AfterParams(o, d, j, i))
  BY DEF AfterValue
<1>16. ObjectText(p)
  BY <1>8 DEF ObjectText
<1>14. FirstKey(args, p.key, i) /\ Prefix(args, p.key) \in Seq(S)
  BY <1>3, <1>5, <1>6 DEF FirstKey
<1>15. QED  BY <1>0, <1>4, <1>5, <1>8, <1>9, <1>10, <1>11, <1>12, <1>13, <1>14, <1>16, Zenon

\* What is left of a txt before any of it is read.
LEMMA SlicesOfText ==
    ASSUME NEW S, NEW txt \in Seq(S)
    PROVE  Before(txt, 0) = <<>> /\ From(txt, 0) = txt
<1>1. Before(txt, 0) = <<>>
  BY DEF Before
<1>2. 0 \in 0 .. Len(txt) /\ Len(txt) \in Nat
  OBVIOUS
<1>3. /\ From(txt, 0) \in Seq(S) /\ Len(From(txt, 0)) = Len(txt) - 0
      /\ \A k \in 1 .. Len(txt) - 0 : From(txt, 0)[k] = txt[k + 0]
  BY <1>2, Slices
<1> DEFINE f == From(txt, 0)
<1> HIDE DEF f
<1>4. f \in Seq(S) /\ Len(f) = Len(txt) /\ \A k \in 1 .. Len(f) : f[k] = txt[k]
  BY <1>2, <1>3 DEF f
<1>5. f = txt
  BY <1>4, SameSequence, Zenon
<1>6. QED  BY <1>1, <1>5 DEF f

\* The tag of a parameter begins its value.
LEMMA BeginParamReads ==
    ASSUME NEW S, NEW d, Sit(S, d), WithinCall(d), BeginParam
    PROVE  InValue(d)'
<1>1. PICK start \in ParamStarts :
         /\ IsPrefix(start, buffer) /\ buffer' = From(buffer, Len(start))
         /\ param' = [name |-> Last(start), mode |-> ModeOf(Last(start)), parts |-> <<>>]
         /\ CASE ModeOf(Last(start)) = "string" -> SetArgs(Args \o Prefix(Args, Last(start)) \o <<QUOTE>>)
              [] ModeOf(Last(start)) = "raw"    -> SetArgs(Args \o Prefix(Args, Last(start)))
              [] OTHER                -> UNCHANGED calls
  BY DEF BeginParam
<1>2. /\ ~AtSpace /\ UNCHANGED <<inCalls, active>> /\ UNCHANGED stream
  BY DEF BeginParam, InCall, Continue
<1>3. PICK j \in 1 .. Len(d.calls) : \E i \in 0 .. Len(d.calls[j].params) :
         /\ CallOf(S, output, d, j) /\ UnderWay(d, j, ArgsAfter(d.calls[j], i))
         /\ start = ParamTag(d.calls[j], i)
         /\ From(buffer, Len(start)) \o ToCome = BehindParamTag(output, d, j, i)
  <2>1. start \in {InvokeEnd} \cup ParamStarts /\ IsPrefix(start, buffer) /\ ~AtSpace
    BY <1>1, <1>2
  <2>2. QED  BY <2>1, TagWithin, SMTT(60)
<1>4. PICK i \in 0 .. Len(d.calls[j].params) :
         /\ CallOf(S, output, d, j) /\ UnderWay(d, j, ArgsAfter(d.calls[j], i))
         /\ start = ParamTag(d.calls[j], i)
         /\ From(buffer, Len(start)) \o ToCome = BehindParamTag(output, d, j, i)
  BY <1>3
<1> DEFINE c == d.calls[j]
           k == i + 1
           q == c.params[k]
           key == q.key
           txt == q.text
           args == ArgsAfter(c, i)
<1>5. i < Len(c.params) /\ Last(start) = key
  BY <1>4, ParamTagIs
<1>6. Len(c.params) \in Nat
  BY <1>4, NoArgsYet
<1>7. k \in 1 .. Len(c.params) /\ k - 1 = i /\ i # Len(c.params) /\ (i = 0 <=> k = 1)
  BY <1>5, <1>6
<1>8. ParamOf(S, output, d, j, k)
  BY <1>4, <1>7 DEF ParamOf
<1>9. /\ args \in Seq(S) /\ Prefix(args, key) \in Seq(S) /\ txt \in Seq(S) /\ <<QUOTE>> \in Seq(S)
  <2> HIDE DEF k
  <2>1. /\ ArgsAfter(c, k - 1) \in Seq(S) /\ Prefix(ArgsAfter(c, k - 1), key) \in Seq(S)
        /\ txt \in Seq(S) /\ <<QUOTE>> \in Seq(S)
    BY <1>8, ParamFacts, Zenon
  <2>2. QED  BY <1>7, <2>1
<1>10. Left' = txt \o AfterValue(output, d, j, k) /\ output' = output
  BY <1>1, <1>2, <1>4, <1>7, LeftIs, Zenon DEF BehindParamTag
<1>11. Before(txt, 0) = <<>> /\ From(txt, 0) = txt /\ 0 \in 0 .. Len(txt)
  <2> HIDE DEF txt
  <2>1. QED  BY <1>9, SlicesOfText
<1>12. Args = args /\ \A new : SetArgs(new) => calls' = Started(d, j, new)
  <2>1. OutputIn(S, output, d)
    BY DEF Sit
  <2> HIDE DEF args
  <2>2. UnderWay(d, j, args)
    BY <1>4 DEF args
  <2>3. QED  BY <2>1, <2>2, ArgsNow
<1>13. active' = j /\ inCalls' /\ calls = Started(d, j, args)
  BY <1>2, <1>4 DEF UnderWay
<1>14. /\ key \in Wrappers /\ i = 0 => ModeOf(key) = "wrapper"
       /\ ~(key \in Wrappers /\ i = 0) /\ key \in ScalarParams => ModeOf(key) = "buffered"
       /\ ~(key \in Wrappers /\ i = 0) /\ key \in ObjectParams => ModeOf(key) = "raw"
       /\ ~(key \in Wrappers /\ i = 0) /\ key \notin ScalarParams \cup ObjectParams
            => ModeOf(key) = "string"
       /\ key \in Wrappers => key \notin ScalarParams \cup ObjectParams
       /\ key \in ScalarParams => key \notin ObjectParams
  <2> HIDE DEF key
  <2>1. QED  BY <1>4, ModeIs
<1>15. param' = [name |-> key, mode |-> ModeOf(key), parts |-> <<>>]
  BY <1>1, <1>5
<1>16. /\ ModeOf(key) = "string" => calls' = Started(d, j, args \o Prefix(args, key) \o <<QUOTE>>)
       /\ ModeOf(key) = "raw" => calls' = Started(d, j, args \o Prefix(args, key))
       /\ ModeOf(key) \in {"wrapper", "buffered"} => calls' = Started(d, j, args)
  <2> HIDE DEF key, args
  <2>1. ModeOf(key) = "string" => SetArgs(args \o Prefix(args, key) \o <<QUOTE>>)
    BY <1>1, <1>5, <1>12
  <2>2. ModeOf(key) = "raw" => SetArgs(args \o Prefix(args, key))
    BY <1>1, <1>5, <1>12
  <2>3. ModeOf(key) \in {"wrapper", "buffered"} => calls' = calls
    BY <1>1, <1>5
  <2>4. QED  BY <1>12, <1>13, <2>1, <2>2, <2>3
<1>17. Sending(d, j, k, <<>>)'
  <2> DEFINE pre == Prefix(args, key)
             raw == args \o pre
             quoted == raw \o <<QUOTE>>
  <2>1. raw \o <<>> = raw /\ quoted \o <<>> = quoted
    <3>1. raw \in Seq(S)
      BY <1>9, Joined
    <3> HIDE DEF raw
    <3>2. quoted \in Seq(S)
      BY <1>9, <3>1, Joined
    <3> HIDE DEF quoted
    <3>3. QED  BY <3>1, <3>2
  <2>2. /\ ModeOf(key) = "string" => UnderWay(d, j, quoted \o <<>>)'
        /\ ModeOf(key) = "raw" => UnderWay(d, j, raw \o <<>>)'
        /\ ModeOf(key) \in {"wrapper", "buffered"} => UnderWay(d, j, args)'
    <3>1. /\ ModeOf(key) = "string" => calls' = Started(d, j, quoted \o <<>>)
          /\ ModeOf(key) = "raw" => calls' = Started(d, j, raw \o <<>>)
          /\ ModeOf(key) \in {"wrapper", "buffered"} => calls' = Started(d, j, args)
      BY <1>16, <2>1
    <3> HIDE DEF quoted, raw, args
    <3>2. QED  BY <1>13, <3>1 DEF UnderWay
  <2>3. args = ArgsAfter(d.calls[j], k - 1)
    BY <1>7
  <2> HIDE DEF args, key, k
  <2>4. CASE key \in Wrappers /\ i = 0
    BY <1>7, <1>14, <1>15, <2>2, <2>3, <2>4, Zenon DEF Sending, key, k
  <2>5. CASE ~(key \in Wrappers /\ i = 0) /\ key \in ScalarParams
    BY <1>7, <1>14, <1>15, <2>2, <2>3, <2>5, ZenonT(40) DEF Sending, key, k
  <2>6. CASE ~(key \in Wrappers /\ i = 0) /\ key \in ObjectParams
    BY <1>7, <1>14, <1>15, <2>2, <2>3, <2>6 DEF Sending, key, k
  <2>7. CASE ~(key \in Wrappers /\ i = 0) /\ key \notin ScalarParams \cup ObjectParams
    BY <1>7, <1>14, <1>15, <2>2, <2>3, <2>7, Zenon DEF Sending, key, k
  <2>8. QED  BY <2>4, <2>5, <2>6, <2>7
<1>18. /\ 0 \in 0 .. Len(d.calls[j].params[k].text)
       /\ Left' = From(d.calls[j].params[k].text, 0) \o AfterValue(output', d, j, k)
       /\ Sending(d, j, k, Before(d.calls[j].params[k].text, 0))'
  BY <1>10, <1>11, <1>17, Zenon
<1> HIDE DEF k
<1>19. QED  BY <1>7, <1>18, Zenon DEF InValue

Makes(x, y, z) == x \o y = z

\* A slice of a slice of a txt.
LEMMA SliceAgain ==
    ASSUME NEW S, NEW txt \in Seq(S), NEW k \in 0 .. Len(txt), NEW n \in 0 .. Len(From(txt, k))
    PROVE  /\ k + n \in 0 .. Len(txt)
           /\ From(From(txt, k), n) = From(txt, k + n)
           /\ Makes(Before(txt, k), Before(From(txt, k), n), Before(txt, k + n))
<1> DEFINE u == From(txt, k)
           v == Before(txt, k)
<1>1. /\ v \in Seq(S) /\ Len(v) = k /\ \A i \in 1 .. k : v[i] = txt[i]
      /\ u \in Seq(S) /\ Len(u) = Len(txt) - k /\ \A i \in 1 .. Len(txt) - k : u[i] = txt[i + k]
      /\ v \o u = txt
  BY Slices
<1>2. n \in 0 .. Len(u)
  OBVIOUS
<1> HIDE DEF u, v
<1>3. /\ Before(u, n) \in Seq(S) /\ Len(Before(u, n)) = n /\ \A i \in 1 .. n : Before(u, n)[i] = u[i]
      /\ From(u, n) \in Seq(S) /\ Len(From(u, n)) = Len(u) - n
      /\ \A i \in 1 .. Len(u) - n : From(u, n)[i] = u[i + n]
  BY <1>1, <1>2, Slices, ZenonT(40)
<1> DEFINE m == k + n
           len == Len(txt)
<1>4. len \in Nat /\ k \in 0 .. len /\ n \in 0 .. len - k /\ m \in 0 .. len
  BY <1>1, <1>2
<1>5. /\ Before(txt, m) \in Seq(S) /\ Len(Before(txt, m)) = m
      /\ \A i \in 1 .. m : Before(txt, m)[i] = txt[i]
      /\ From(txt, m) \in Seq(S) /\ Len(From(txt, m)) = len - m
      /\ \A i \in 1 .. len - m : From(txt, m)[i] = txt[i + m]
  <2> HIDE DEF m
  <2>1. QED  BY <1>4, Slices
<1>6. From(u, n) = From(txt, m)
  <2> DEFINE x == From(u, n)
             y == From(txt, m)
  <2>1. x \in Seq(S) /\ y \in Seq(S) /\ Len(x) = Len(y)
    BY <1>1, <1>3, <1>4, <1>5
  <2>2. ASSUME NEW i \in 1 .. Len(x) PROVE x[i] = y[i]
    <3>1. i \in 1 .. Len(u) - n /\ i + n \in 1 .. Len(txt) - k /\ i \in 1 .. len - m
          /\ (i + n) + k = i + m
      BY <1>1, <1>3, <1>4
    <3>2. x[i] = u[i + n] /\ u[i + n] = txt[(i + n) + k] /\ y[i] = txt[i + m]
      BY <1>1, <1>3, <1>5, <3>1
    <3>3. QED  BY <3>1, <3>2
  <2> HIDE DEF x, y
  <2>3. x = y
    BY <2>1, <2>2, SameSequence
  <2>4. QED  BY <2>3 DEF x, y
<1>7. v \o Before(u, n) = Before(txt, m)
  <2> DEFINE z == Before(u, n)
             x == v \o z
             y == Before(txt, m)
  <2>0. v \in Seq(S) /\ z \in Seq(S) /\ Len(z) = n /\ \A i \in 1 .. n : z[i] = u[i]
    BY <1>1, <1>3
  <2> HIDE DEF z
  <2>1. /\ x \in Seq(S) /\ Len(x) = Len(v) + Len(z)
        /\ \A i \in 1 .. Len(v) : x[i] = v[i]
        /\ \A i \in 1 .. Len(z) : x[Len(v) + i] = z[i]
    <3>1. v \in Seq(S) /\ z \in Seq(S)
      BY <2>0
    <3>2. QED  BY <3>1, Joined
  <2> HIDE DEF x
  <2>2. y \in Seq(S) /\ Len(x) = m /\ Len(y) = m /\ Len(v) = k /\ Len(z) = n
    BY <1>1, <1>5, <2>0, <2>1
  <2>3. ASSUME NEW i \in 1 .. Len(x) PROVE x[i] = y[i]
    <3>1. y[i] = txt[i]
      BY <1>5, <2>2
    <3>2. CASE i =< k
      <4>1. i \in 1 .. k
        BY <1>4, <2>2, <3>2
      <4>2. QED  BY <1>1, <2>1, <2>2, <3>1, <4>1
    <3>3. CASE i > k
      <4>1. i - k \in 1 .. n /\ i - k \in 1 .. Len(txt) - k /\ k + (i - k) = i /\ (i - k) + k = i
        BY <1>4, <2>2, <3>3
      <4>2. x[Len(v) + (i - k)] = z[i - k] /\ Len(v) + (i - k) = i
        BY <2>1, <2>2, <4>1
      <4>3. z[i - k] = u[i - k] /\ u[i - k] = txt[(i - k) + k]
        BY <1>1, <2>0, <4>1
      <4>4. QED  BY <3>1, <4>1, <4>2, <4>3
    <3>4. QED  BY <1>4, <2>2, <3>2, <3>3
  <2> HIDE DEF y
  <2>4. x = y
    BY <2>1, <2>2, <2>3, SameSequence
  <2>5. QED  BY <2>4 DEF x, y, z
<1>8. Makes(v, Before(u, n), Before(txt, m))
  BY <1>7 DEF Makes
<1> HIDE DEF m
<1>9. QED  BY <1>4, <1>6, <1>8 DEF u, v, m

\* A txt without a tag has no part with it.
LEMMA NoTagInRest ==
    ASSUME NEW S, NEW txt \in Seq(S), NEW k \in 0 .. Len(txt), NEW T, NEW tag \in Seq(T),
           Occurrences(tag, txt) = {}
    PROVE  Occurrences(tag, From(txt, k)) = {}
<1>1. SUFFICES ASSUME NEW q \in Occurrences(tag, From(txt, k)) PROVE FALSE
  OBVIOUS
<1>2. /\ From(txt, k) \in Seq(S) /\ Len(From(txt, k)) = Len(txt) - k
      /\ \A i \in 1 .. Len(txt) - k : From(txt, k)[i] = txt[i + k]
  BY Slices
<1> DEFINE u == From(txt, k)
<1>3. q \in Occurrences(tag, u)
  BY <1>1
<1> HIDE DEF u
<1>4. /\ u \in Seq(S) /\ Len(u) = Len(txt) - k
      /\ \A i \in 1 .. Len(txt) - k : u[i] = txt[i + k]
  BY <1>2 DEF u
<1>5. /\ q \in Nat /\ q + Len(tag) =< Len(u)
      /\ \A i \in 1 .. Len(tag) : u[q + i] = tag[i]
  BY <1>3, <1>4, OccursPieces
<1>6. Len(txt) \in Nat /\ Len(tag) \in Nat
  OBVIOUS
<1> DEFINE r == q + k
<1>7. r \in Nat /\ r + Len(tag) =< Len(txt)
  BY <1>4, <1>5, <1>6
<1>8. ASSUME NEW i \in 1 .. Len(tag) PROVE txt[r + i] = tag[i]
  <2>1. q + i \in 1 .. Len(txt) - k /\ (q + i) + k = r + i
    BY <1>4, <1>5, <1>6
  <2>2. QED  BY <1>4, <1>5, <2>1
<1> HIDE DEF r
<1>9. r \in Occurrences(tag, txt)
  BY <1>7, <1>8, OccursAt
<1>10. QED  BY <1>9

\* What is left of a value, its end tag and what follows, is in the buffer b
\* or to come.
ValueAt(S, b, t, txt, k, w) ==
    /\ b \in Seq(S) /\ t \in Seq(S) /\ txt \in Seq(S) /\ w \in Seq(S) /\ Marks \subseteq S
    /\ k \in 0 .. Len(txt) /\ Occurrences(ParamEnd, txt) = {}
    /\ b \o t = From(txt, k) \o (ParamEnd \o w)

\* The end tag of a value is found where the value ends.
LEMMA ValueFound ==
    ASSUME NEW S, NEW b, NEW t, NEW txt, NEW k, NEW w, ValueAt(S, b, t, txt, k, w),
           Find(b, ParamEnd) >= 0
    PROVE  /\ Makes(Before(txt, k), Before(b, Find(b, ParamEnd)), txt)
           /\ Makes(From(b, Find(b, ParamEnd) + Len(ParamEnd)), t, w)
<1> DEFINE u == From(txt, k)
           tag == ParamEnd
           end == Find(b, tag)
<1>1. /\ b \in Seq(S) /\ t \in Seq(S) /\ txt \in Seq(S) /\ w \in Seq(S) /\ Marks \subseteq S
      /\ k \in 0 .. Len(txt) /\ Occurrences(tag, txt) = {}
      /\ b \o t = u \o (tag \o w)
  BY DEF ValueAt
<1>2. tag \in Seq(S) /\ StartsOnce(tag) /\ Len(tag) = 4
  BY <1>1, TagsTyped, TagsStartOnce DEF ParamEnd
<1>3. u \in Seq(S) /\ Before(txt, k) \o u = txt
  BY <1>1, Slices
<1>4. Occurrences(tag, u) = {} /\ end >= 0
  BY <1>1, <1>2, NoTagInRest
<1> HIDE DEF u, tag
<1>5. end = Len(u) /\ Len(u) + Len(tag) =< Len(b)
  BY <1>1, <1>2, <1>3, <1>4, FoundOrToCome
<1>6. Len(u) \in Nat /\ Len(b) \in Nat
  BY <1>1, <1>3
<1>7. tag \o w \in Seq(S) /\ Len(u) =< Len(b)
  BY <1>1, <1>2, <1>5, <1>6, Joined
<1> DEFINE rest == tag \o w
           bb == From(b, Len(u))
<1>8. Before(b, Len(u)) = u /\ bb \o t = rest
  <2> HIDE DEF rest
  <2>1. b \o t = u \o rest /\ rest \in Seq(S)
    BY <1>1, <1>7 DEF rest
  <2>2. QED  BY <1>1, <1>3, <1>7, <2>1, CutFront
<1>9. bb \in Seq(S) /\ Len(bb) = Len(b) - Len(u) /\ From(bb, Len(tag)) = From(b, Len(u) + Len(tag))
  <2> DEFINE m == Len(u)
             n == Len(tag)
             nb == Len(b)
  <2>1. m \in 0 .. nb /\ n = 4 /\ m + n =< nb /\ nb \in Nat
    BY <1>2, <1>5, <1>6, <1>7
  <2>2. bb \in Seq(S) /\ Len(bb) = nb - m
    <3> HIDE DEF m
    <3>1. From(b, m) \in Seq(S) /\ Len(From(b, m)) = nb - m
      BY <1>1, <2>1, Slices
    <3>2. QED  BY <3>1 DEF m
  <2>3. n \in 0 .. Len(bb)
    <3> HIDE DEF m, n, nb
    <3>1. QED  BY <2>1, <2>2
  <2>4. From(From(b, m), n) = From(b, m + n)
    <3>1. b \in Seq(S) /\ m \in 0 .. Len(b) /\ n \in 0 .. Len(From(b, m))
      BY <1>1, <2>1, <2>3
    <3> HIDE DEF m, n
    <3>2. QED  BY <3>1, SliceAgain
  <2>5. QED  BY <2>2, <2>4
<1>10. From(bb, Len(tag)) \o t = w
  <2>1. Len(tag) =< Len(bb)
    <3> DEFINE m == Len(u)
               n == Len(tag)
               nb == Len(b)
               nn == Len(bb)
    <3>1. m \in Nat /\ n = 4 /\ m + n =< nb /\ nb \in Nat /\ nn = nb - m
      BY <1>2, <1>5, <1>6, <1>9
    <3> HIDE DEF m, n, nb, nn
    <3>2. n =< nn
      BY <3>1
    <3>3. QED  BY <3>2 DEF n, nn
  <2> HIDE DEF bb
  <2>2. QED  BY <1>1, <1>2, <1>8, <1>9, <2>1, TagTaken, ZenonT(40)
<1>11. Before(b, end) = u /\ From(b, end + Len(tag)) \o t = w
  BY <1>5, <1>8, <1>9, <1>10
<1>12. QED  BY <1>3, <1>11 DEF tag, Makes

\* A value goes on at least up to what may begin its end tag.
LEMMA ValueWithheld ==
    ASSUME NEW S, NEW b, NEW t, NEW txt, NEW k, NEW w, ValueAt(S, b, t, txt, k, w),
           Find(b, ParamEnd) < 0
    PROVE  LET n == Len(b) - TrailingPartial(b, <<ParamEnd>>)
           IN  n \in Nat /\ n =< Len(b) /\ n =< Len(From(txt, k)) /\ Len(t) > 0
<1> DEFINE u == From(txt, k)
           tag == ParamEnd
           tags == <<tag>>
<1>1. /\ b \in Seq(S) /\ t \in Seq(S) /\ txt \in Seq(S) /\ w \in Seq(S) /\ Marks \subseteq S
      /\ k \in 0 .. Len(txt) /\ Occurrences(tag, txt) = {}
      /\ b \o t = u \o (tag \o w) /\ Find(b, tag) < 0
  BY DEF ValueAt
<1>2. tag \in Seq(S) /\ StartsOnce(tag) /\ Len(tag) = 4
  BY <1>1, TagsTyped, TagsStartOnce DEF ParamEnd
<1>3. u \in Seq(S) /\ Occurrences(tag, u) = {}
  BY <1>1, <1>2, Slices, NoTagInRest
<1>4. \E i \in DOMAIN tags : tags[i] = tag
  <2>1. 1 \in DOMAIN tags /\ tags[1] = tag
    OBVIOUS
  <2>2. QED  BY <2>1
<1> HIDE DEF u, tag, tags
<1>5. Len(b) < Len(u) + Len(tag)
  BY <1>1, <1>2, <1>3, FoundOrToCome, ZenonT(40)
<1>6. LET n == Len(b) - TrailingPartial(b, tags)
      IN  n \in Nat /\ n =< Len(b) /\ n =< Len(u)
  <2>1. /\ b \in Seq(S) /\ t \in Seq(S) /\ u \in Seq(S) /\ tag \in Seq(S) /\ w \in Seq(S)
        /\ b \o t = u \o (tag \o w) /\ Len(b) < Len(u) + Len(tag)
        /\ \E i \in DOMAIN tags : tags[i] = tag
    BY <1>1, <1>2, <1>3, <1>4, <1>5
  <2>2. QED  BY <2>1, Withheld
<1> DEFINE rest == tag \o w
<1>7. rest \in Seq(S) /\ Len(rest) = Len(tag) + Len(w) /\ b \o t = u \o rest
  BY <1>1, <1>2, Joined, ZenonT(40)
<1> HIDE DEF rest
<1>8. Len(t) > 0
  <2>1. Len(b \o t) = Len(b) + Len(t) /\ Len(u \o rest) = Len(u) + Len(rest)
    BY <1>1, <1>3, <1>7, Joined
  <2> DEFINE x == Len(b)
             y == Len(t)
             p == Len(u)
             q == Len(tag)
             r == Len(w)
  <2>2. x \in Nat /\ y \in Nat /\ p \in Nat /\ q \in Nat /\ r \in Nat
    BY <1>1, <1>2, <1>3
  <2>3. x + y = p + (q + r) /\ x < p + q
    BY <1>5, <1>7, <2>1
  <2> HIDE DEF x, y, p, q, r
  <2>4. y > 0
    BY <2>2, <2>3
  <2>5. QED  BY <2>4 DEF y
<1>9. QED  BY <1>6, <1>8 DEF u, tag, tags

\* A piece of a value is taken from the buffer.
LEMMA ValueTaken ==
    ASSUME NEW S, NEW b, NEW t, NEW txt, NEW k, NEW w, ValueAt(S, b, t, txt, k, w),
           NEW n \in Nat, n =< Len(b), n =< Len(From(txt, k))
    PROVE  /\ k + n \in 0 .. Len(txt) /\ Before(txt, k) \in Seq(S) /\ Before(b, n) \in Seq(S)
           /\ Makes(Before(txt, k), Before(b, n), Before(txt, k + n))
           /\ ValueAt(S, From(b, n), t, txt, k + n, w)
<1> DEFINE u == From(txt, k)
           rest == ParamEnd \o w
<1>1. /\ b \in Seq(S) /\ t \in Seq(S) /\ txt \in Seq(S) /\ w \in Seq(S) /\ Marks \subseteq S
      /\ k \in 0 .. Len(txt) /\ b \o t = u \o rest
  BY DEF ValueAt
<1>2. u \in Seq(S)
  BY <1>1, Slices
<1>3. rest \in Seq(S)
  <2>1. ParamEnd \in Seq(S)
    BY <1>1, TagsTyped
  <2>2. QED  BY <1>1, <2>1, Joined
<1>4. /\ k + n \in 0 .. Len(txt) /\ From(u, n) = From(txt, k + n)
      /\ Makes(Before(txt, k), Before(u, n), Before(txt, k + n))
  <2>1. txt \in Seq(S) /\ k \in 0 .. Len(txt) /\ n \in 0 .. Len(From(txt, k))
    BY <1>1, <1>2
  <2>2. QED  BY <2>1, SliceAgain
<1> HIDE DEF u, rest
<1>5. Before(b, n) = Before(u, n) /\ From(b, n) \o t = From(u, n) \o rest
  <2>1. n =< Len(u)
    BY DEF u
  <2>2. CutAt(S, b, t, u, rest, n)
    BY <1>1, <1>2, <1>3, <2>1 DEF CutAt
  <2>3. QED  BY <2>2, CutWithin, SMTT(40)
<1>6. Before(txt, k) \in Seq(S) /\ Before(b, n) \in Seq(S) /\ From(b, n) \in Seq(S)
  <2>1. n \in 0 .. Len(b)
    OBVIOUS
  <2>2. QED  BY <1>1, <2>1, Slices
<1>7. ValueAt(S, From(b, n), t, txt, k + n, w)
  <2> DEFINE bb == From(b, n)
             m == k + n
  <2>1. /\ bb \in Seq(S) /\ m \in 0 .. Len(txt) /\ bb \o t = From(txt, m) \o rest
        /\ Occurrences(ParamEnd, txt) = {}
    BY <1>4, <1>5, <1>6 DEF ValueAt
  <2> HIDE DEF bb, m
  <2>2. ValueAt(S, bb, t, txt, m, w)
    BY <1>1, <2>1 DEF ValueAt, rest
  <2>3. QED  BY <2>2 DEF bb, m
<1>8. QED  BY <1>4, <1>5, <1>6, <1>7

OneValue(p, txt) == <<[key |-> p, text |-> txt]>>
Given(args, p, txt) == args \o (Prefix(args, p) \o Converted(p, txt))
IsLone(p, txt) == p \in Wrappers /\ txt = <<INNER>>

\* A value that is sent whole, and is no wrapper.
LEMMA OneEntry ==
    ASSUME NEW S, NEW args \in Seq(S), NEW p, NEW txt, ~IsLone(p, txt),
           Prefix(args, p) \in Seq(S), Converted(p, txt) \in Seq(S)
    PROVE  WithEntries(args, Unwrapped(OneValue(p, txt))) = Given(args, p, txt)
<1> DEFINE one == OneValue(p, txt)
           json == Converted(p, txt)
           E == Unwrapped(one)
<1>1. /\ Len(one) = 1 /\ DOMAIN one = {1} /\ one[1].key = p /\ one[1].text = txt
  BY DEF OneValue
<1> HIDE DEF one
<1>2. E = [i \in DOMAIN one |-> [key |-> one[i].key, json |-> Converted(one[i].key, one[i].text)]]
  BY <1>1 DEF Unwrapped, IsLone
<1> HIDE DEF json, E
<1>3. DOMAIN E = {1} /\ E[1].key = p /\ E[1].json = json
  BY <1>1, <1>2 DEF json
<1> DEFINE pre == Prefix(args, p)
           x == pre \o json
           f == [i \in DOMAIN E |-> Prefix(IF i = 1 THEN args ELSE <<"{">>, E[i].key) \o E[i].json]
<1>4. WithEntries(args, E) = args \o FlattenSeq(f)
  BY DEF WithEntries
<1>5. f = [i \in {1} |-> x]
  BY <1>3
<1> HIDE DEF f
<1>6. x \in Seq(S)
  <2>1. pre \in Seq(S) /\ json \in Seq(S)
    BY DEF json
  <2> HIDE DEF pre
  <2>2. QED  BY <2>1, Joined
<1> HIDE DEF x
<1>7. <<x>> = [i \in {1} |-> x]
  <2>1. DOMAIN <<x>> = {1} /\ <<x>>[1] = x
    OBVIOUS
  <2>2. QED  BY <2>1
<1>8. FlattenSeq(<<x>>) = x
  BY <1>6, FlattenOne
<1>9. FlattenSeq(f) = x
  BY <1>5, <1>7, <1>8
<1>10. QED  BY <1>4, <1>9 DEF x, json, E, one, Given

\* An object under a lone wrapper is sent without it.
LEMMA LoneEntry ==
    ASSUME NEW S, NEW c, CallIn(S, c), LoneWrapper(c)
    PROVE  WithEntries(<<>>, Unwrapped(OneValue(c.params[1].key, c.params[1].text)))
             = ArgsAfter(c, Len(c.params))
<1> DEFINE raw == [i \in 1 .. Len(c.params) |->
                     [key |-> c.params[i].key, text |-> c.params[i].text]]
           one == OneValue(c.params[1].key, c.params[1].text)
<1>1. Len(c.params) = 1
  BY DEF LoneWrapper
<1>2. raw = one
  <2> DEFINE e == [key |-> c.params[1].key, text |-> c.params[1].text]
             g(i) == [key |-> c.params[i].key, text |-> c.params[i].text]
  <2>1. g(1) = e
    OBVIOUS
  <2> HIDE DEF e, g
  <2>2. [i \in 1 .. 1 |-> g(i)] = <<e>>
    <3>1. DOMAIN <<e>> = 1 .. 1 /\ <<e>>[1] = e /\ \A i \in 1 .. 1 : i = 1
      OBVIOUS
    <3>2. DOMAIN <<e>> = 1 .. 1 /\ \A i \in 1 .. 1 : <<e>>[i] = g(i)
      BY <2>1, <3>1
    <3>3. QED  BY <3>2
  <2>3. raw = [i \in 1 .. Len(c.params) |-> g(i)]
    BY DEF g
  <2>4. QED  BY <1>1, <2>2, <2>3 DEF e, OneValue
<1>3. Entries(c) = Unwrapped(raw)
  BY DEF Entries
<1>4. WithEntries(<<>>, Entries(c)) = ArgsAfter(c, Len(c.params))
  BY EntriesTyped
<1> HIDE DEF raw, one
<1>5. WithEntries(<<>>, Unwrapped(one)) = ArgsAfter(c, Len(c.params))
  BY <1>2, <1>3, <1>4
<1>6. QED  BY <1>5 DEF one

\* What the arguments are after a parameter.
LEMMA ArgsGiven ==
    ASSUME NEW S, NEW o, NEW d, NEW j, NEW i, ParamOf(S, o, d, j, i)
    PROVE  LET c == d.calls[j]
               p == c.params[i]
               args == ArgsAfter(c, i - 1)
           IN  /\ ~LoneWrapper(c) => ArgsAfter(c, i) = Given(args, p.key, p.text)
               /\ (i = 1 /\ p.key \in Wrappers) \/ p.key \in ScalarParams =>
                    WithEntries(args, Unwrapped(OneValue(p.key, p.text))) = ArgsAfter(c, i)
<1> DEFINE c == d.calls[j]
           p == c.params[i]
           n == Len(c.params)
           args == ArgsAfter(c, i - 1)
<1>0. CallOf(S, o, d, j) /\ i \in 1 .. n
  BY DEF ParamOf
<1>1. CallIn(S, c) /\ n \in Nat
  BY <1>0, NoArgsYet
<1>2. /\ args \in Seq(S) /\ (args = <<>> <=> i = 1)
      /\ Prefix(args, p.key) = Prefix(TextBefore(i), p.key) /\ Prefix(args, p.key) \in Seq(S)
      /\ Converted(p.key, p.text) \in Seq(S)
  <2>1. args \in Seq(S) /\ FirstKey(args, p.key, i) /\ Prefix(args, p.key) \in Seq(S)
        /\ Converted(p.key, p.text) \in Seq(S)
    BY ParamFacts, Zenon
  <2>2. QED  BY <2>1 DEF FirstKey
<1>3. ASSUME ~LoneWrapper(c)
      PROVE  ArgsAfter(c, i) = Given(args, p.key, p.text)
  <2>1. ArgsAfter(c, i) = args \o EntryTexts(c)[i]
    BY <1>0, <1>1, ArgsNext
  <2>2. EntryTexts(c)[i] = Prefix(TextBefore(i), p.key) \o Converted(p.key, p.text)
    BY <1>0, <1>1, <1>3, EntriesTyped, Zenon
  <2> DEFINE e == EntryTexts(c)[i]
             pre == Prefix(args, p.key)
             json == Converted(p.key, p.text)
             x == pre \o json
  <2> HIDE DEF e, pre, json, args
  <2>3. e = x
    BY <1>2, <2>2, Zenon DEF e, pre, json
  <2> HIDE DEF x
  <2>4. ArgsAfter(c, i) = args \o x
    BY <2>1, <2>3 DEF e
  <2>5. QED  BY <2>4, Zenon DEF x, pre, json, Given
<1>4. ASSUME (i = 1 /\ p.key \in Wrappers) \/ p.key \in ScalarParams
      PROVE  WithEntries(args, Unwrapped(OneValue(p.key, p.text))) = ArgsAfter(c, i)
  <2>1. CASE LoneWrapper(c)
    <3>1. n = 1 /\ i = 1 /\ args = <<>>
      BY <1>0, <1>2, <2>1 DEF LoneWrapper
    <3>2. WithEntries(<<>>, Unwrapped(OneValue(c.params[1].key, c.params[1].text)))
            = ArgsAfter(c, n)
      BY <1>1, <2>1, LoneEntry
    <3>3. QED  BY <3>1, <3>2
  <2>2. CASE ~LoneWrapper(c)
    <3>1. ~IsLone(p.key, p.text)
      <4>1. SUFFICES ASSUME IsLone(p.key, p.text) PROVE FALSE
        OBVIOUS
      <4>2. p.key \in Wrappers /\ p.text = <<INNER>>
        BY <4>1 DEF IsLone
      <4>3. i = 1
        BY <1>4, <4>2, ParamsAssumption
      <4>4. n > 1
        <5>1. n # 1
          BY <2>2, <4>2, <4>3 DEF LoneWrapper
        <5>2. i \in 1 .. n /\ n \in Nat
          BY <1>0, <1>1
        <5> HIDE DEF n
        <5>3. QED  BY <5>1, <5>2
      <4>5. IsCall(c)
        BY <1>1 DEF CallIn
      <4>6. QED  BY <4>2, <4>3, <4>4, <4>5 DEF IsCall
    <3> DEFINE key == p.key
               txt == p.text
    <3>2. WithEntries(args, Unwrapped(OneValue(key, txt))) = Given(args, key, txt)
      <4>1. args \in Seq(S) /\ ~IsLone(key, txt) /\ Prefix(args, key) \in Seq(S)
            /\ Converted(key, txt) \in Seq(S)
        BY <1>2, <3>1, Zenon
      <4> HIDE DEF args, key, txt
      <4>2. QED  BY <4>1, OneEntry
    <3>3. QED  BY <1>3, <2>2, <3>2
  <2>3. QED  BY <2>1, <2>2
<1>5. QED  BY <1>3, <1>4

\* The value of a parameter has been read up to its k-th piece.
Being(S, d, j, i, k) ==
    /\ ParamOf(S, output, d, j, i)
    /\ ValueAt(S, buffer, ToCome, d.calls[j].params[i].text, k,
               d.calls[j].params[i].gap \o AfterParams(output, d, j, i))
    /\ Sending(d, j, i, Before(d.calls[j].params[i].text, k))

\* Which value is read, and how far.
LEMMA ValueIs ==
    ASSUME NEW S, NEW d, Sit(S, d), InValue(d)
    PROVE  \E j \in 1 .. Len(d.calls) : \E i \in 1 .. Len(d.calls[j].params) :
             \E k \in 0 .. Len(d.calls[j].params[i].text) : Being(S, d, j, i, k)
<1>1. PICK j \in 1 .. Len(d.calls) : \E i \in 1 .. Len(d.calls[j].params) :
        \E k \in 0 .. Len(d.calls[j].params[i].text) :
              /\ Left = From(d.calls[j].params[i].text, k) \o AfterValue(output, d, j, i)
              /\ Sending(d, j, i, Before(d.calls[j].params[i].text, k))
  BY Zenon DEF InValue
<1>2. PICK i \in 1 .. Len(d.calls[j].params) :
        \E k \in 0 .. Len(d.calls[j].params[i].text) :
              /\ Left = From(d.calls[j].params[i].text, k) \o AfterValue(output, d, j, i)
              /\ Sending(d, j, i, Before(d.calls[j].params[i].text, k))
  BY <1>1, Zenon
<1>3. PICK k \in 0 .. Len(d.calls[j].params[i].text) :
              /\ Left = From(d.calls[j].params[i].text, k) \o AfterValue(output, d, j, i)
              /\ Sending(d, j, i, Before(d.calls[j].params[i].text, k))
  BY <1>2, Zenon
<1> DEFINE p == d.calls[j].params[i]
           w == p.gap \o AfterParams(output, d, j, i)
<1>4. ParamOf(S, output, d, j, i)
  <2>1. OutputIn(S, output, d)
    BY Zenon DEF Sit
  <2>2. QED  BY <1>1, <1>2, <2>1, Zenon DEF ParamOf, CallOf
<1>5. /\ p.text \in Seq(S) /\ Occurrences(ParamEnd, p.text) = {} /\ Marks \subseteq S
      /\ w \in Seq(S)
  BY <1>4, ParamFacts
<1>11. AfterValue(output, d, j, i) = ParamEnd \o w
  BY DEF AfterValue
<1>6. Left = buffer \o ToCome
  BY DEF Left, ToCome
<1>7. buffer \in Seq(S) /\ ToCome \in Seq(S)
  BY DEF Sit
<1>8. ValueAt(S, buffer, ToCome, p.text, k, w)
  <2> DEFINE txt == p.text
  <2>1. /\ txt \in Seq(S) /\ Occurrences(ParamEnd, txt) = {} /\ Marks \subseteq S
        /\ w \in Seq(S) /\ k \in 0 .. Len(txt)
        /\ buffer \o ToCome = From(txt, k) \o (ParamEnd \o w)
    BY <1>3, <1>5, <1>6, <1>11, Zenon
  <2> HIDE DEF txt, w
  <2>2. ValueAt(S, buffer, ToCome, txt, k, w)
    BY <1>7, <2>1, Zenon DEF ValueAt
  <2>3. QED  BY <2>2, Zenon DEF txt
<1>9. Being(S, d, j, i, k)
  BY <1>3, <1>4, <1>8, Zenon DEF Being
<1>10. QED  BY <1>3, <1>9, Zenon

\* More of a value is sent, or kept until it is whole.
Adds(x) ==
    /\ inCalls' = inCalls /\ active' = active
    /\ IF Whole
       THEN param' = [param EXCEPT !.parts = @ \o x] /\ UNCHANGED calls
       ELSE SetArgs(Args \o x) /\ UNCHANGED param

\* Another piece of a value is sent or put by.
LEMMA SendsMore ==
    ASSUME NEW S, NEW d, NEW j, NEW i, ParamOf(S, output, d, j, i), NEW v \in Seq(S), NEW x \in Seq(S),
           Sending(d, j, i, v), Adds(x)
    PROVE  Sending(d, j, i, v \o x)'
<1> DEFINE c == d.calls[j]
           key == c.params[i].key
           args == ArgsAfter(c, i - 1)
           pre == Prefix(args, key)
           raw == args \o pre
           quoted == raw \o <<QUOTE>>
           vx == v \o x
<1>1. OutputIn(S, output, d) /\ j \in 1 .. Len(d.calls)
  BY DEF ParamOf, CallOf
<1>2. args \in Seq(S) /\ pre \in Seq(S) /\ <<QUOTE>> \in Seq(S)
  BY ParamFacts
<1>3. raw \in Seq(S) /\ quoted \in Seq(S)
  <2>1. raw \in Seq(S)
    <3> HIDE DEF args, pre
    <3>1. QED  BY <1>2, Joined
  <2> HIDE DEF raw
  <2>2. quoted \in Seq(S)
    BY <1>2, <2>1, Joined
  <2>3. QED  BY <2>1, <2>2
<1>4. inCalls' = inCalls /\ active' = active
  BY DEF Adds
<1>5. ASSUME NEW front \in Seq(S), UnderWay(d, j, front \o v), ~Whole
      PROVE  UnderWay(d, j, front \o vx)'
  <2> DEFINE old == front \o v
             new == old \o x
  <2>1. UnderWay(d, j, old)
    BY <1>5
  <2>2. SetArgs(Args \o x)
    BY <1>5 DEF Adds
  <2>3. new = front \o vx
    <3>1. front \in Seq(S) /\ v \in Seq(S) /\ x \in Seq(S)
      BY <1>5
    <3>2. front \o (v \o x) = (front \o v) \o x
      BY <3>1, Associates
    <3>3. QED  BY <3>2
  <2> HIDE DEF old
  <2>4. Args = old /\ \A a : SetArgs(a) => calls' = Started(d, j, a)
    BY <1>1, <2>1, ArgsNow
  <2>5. calls' = Started(d, j, new)
    BY <2>2, <2>4
  <2> HIDE DEF new, vx
  <2>6. calls' = Started(d, j, front \o vx)
    BY <2>3, <2>5
  <2>7. QED  BY <1>4, <2>1, <2>6 DEF UnderWay
<1>6. ASSUME UnderWay(d, j, args), Whole PROVE UnderWay(d, j, args)'
  <2> HIDE DEF args
  <2>1. calls' = calls
    BY <1>6 DEF Adds
  <2>2. QED  BY <1>4, <1>6, <2>1 DEF UnderWay
<1>7. ASSUME NEW mode \in {"wrapper", "buffered"},
             param = [name |-> key, mode |-> mode, parts |-> v]
      PROVE  Whole /\ param' = [name |-> key, mode |-> mode, parts |-> vx]
  <2>1. Whole
    BY <1>7 DEF Whole
  <2>2. param' = [param EXCEPT !.parts = @ \o x]
    BY <2>1 DEF Adds
  <2> HIDE DEF key
  <2>3. QED  BY <1>7, <2>1, <2>2
<1>8. ASSUME NEW mode \in {"raw", "string"},
             param = [name |-> key, mode |-> mode, parts |-> <<>>]
      PROVE  ~Whole /\ param' = [name |-> key, mode |-> mode, parts |-> <<>>]
  <2>1. ~Whole
    BY <1>8 DEF Whole
  <2>2. QED  BY <1>8, <2>1 DEF Adds
<1> HIDE DEF vx
<1>9. CASE /\ param = [name |-> key, mode |-> "wrapper", parts |-> v]
           /\ i = 1 /\ key \in Wrappers
           /\ UnderWay(d, j, args)
  <2>1. param' = [name |-> key, mode |-> "wrapper", parts |-> vx] /\ Whole
    BY <1>7, <1>9
  <2>2. UnderWay(d, j, args)'
    BY <1>6, <1>9, <2>1
  <2>3. Sending(d, j, i, vx)'
    BY <1>9, <2>1, <2>2 DEF Sending
  <2>4. QED  BY <2>3 DEF vx
<1>10. CASE /\ param = [name |-> key, mode |-> "buffered", parts |-> v]
            /\ key \in ScalarParams
            /\ UnderWay(d, j, args)
  <2>1. param' = [name |-> key, mode |-> "buffered", parts |-> vx] /\ Whole
    BY <1>7, <1>10
  <2>2. UnderWay(d, j, args)'
    BY <1>6, <1>10, <2>1
  <2>3. Sending(d, j, i, vx)'
    BY <1>10, <2>1, <2>2 DEF Sending
  <2>4. QED  BY <2>3 DEF vx
<1>11. CASE /\ param = [name |-> key, mode |-> "raw", parts |-> <<>>]
            /\ key \in ObjectParams
            /\ UnderWay(d, j, raw \o v)
  <2>1. param' = [name |-> key, mode |-> "raw", parts |-> <<>>] /\ ~Whole
    BY <1>8, <1>11
  <2>2. UnderWay(d, j, raw \o vx)'
    <3>1. UnderWay(d, j, raw \o v)
      BY <1>11, ZenonT(40)
    <3> HIDE DEF raw
    <3>2. QED  BY <1>3, <1>5, <2>1, <3>1
  <2>3. Sending(d, j, i, vx)'
    BY <1>11, <2>1, <2>2 DEF Sending
  <2>4. QED  BY <2>3 DEF vx
<1>12. CASE /\ param = [name |-> key, mode |-> "string", parts |-> <<>>]
            /\ key \notin ScalarParams \cup ObjectParams
            /\ ~(i = 1 /\ key \in Wrappers)
            /\ UnderWay(d, j, quoted \o v)
  <2>1. param' = [name |-> key, mode |-> "string", parts |-> <<>>] /\ ~Whole
    BY <1>8, <1>12
  <2>2. UnderWay(d, j, quoted \o vx)'
    <3>1. UnderWay(d, j, quoted \o v)
      BY <1>12, ZenonT(40)
    <3> HIDE DEF quoted
    <3>2. QED  BY <1>3, <1>5, <2>1, <3>1
  <2>3. Sending(d, j, i, vx)'
    BY <1>12, <2>1, <2>2 DEF Sending
  <2>4. QED  BY <2>3 DEF vx
<1>13. QED  BY <1>9, <1>10, <1>11, <1>12, Zenon DEF Sending

\* A value is streamed as far as no end tag may begin.
LEMMA StreamReads ==
    ASSUME NEW S, NEW d, Sit(S, d), InValue(d), StreamValue
    PROVE  InValue(d)' /\ Len(ToCome) > 0
<1>1. PICK j \in 1 .. Len(d.calls) : \E i \in 1 .. Len(d.calls[j].params) :
             \E k \in 0 .. Len(d.calls[j].params[i].text) : Being(S, d, j, i, k)
  BY ValueIs
<1>2. PICK i \in 1 .. Len(d.calls[j].params) :
             \E k \in 0 .. Len(d.calls[j].params[i].text) : Being(S, d, j, i, k)
  BY <1>1
<1>3. PICK k \in 0 .. Len(d.calls[j].params[i].text) : Being(S, d, j, i, k)
  BY <1>2
<1>4. PICK b, n, o : b = buffer /\ n = SafeLen /\ o = output
  OBVIOUS
<1> DEFINE p == d.calls[j].params[i]
           txt == p.text
           w == p.gap \o AfterParams(o, d, j, i)
           v == Before(txt, k)
           x == Before(b, n)
           m == k + n
<1>5. /\ Find(b, ParamEnd) < 0 /\ buffer' = From(b, n) /\ Adds(x) /\ UNCHANGED stream
  BY <1>4 DEF StreamValue, Return, Adds
<1>6. /\ ParamOf(S, o, d, j, i) /\ ValueAt(S, b, ToCome, txt, k, w)
      /\ Sending(d, j, i, v)
  BY <1>3, <1>4 DEF Being
<1>7. n \in Nat /\ n =< Len(b) /\ n =< Len(From(txt, k)) /\ Len(ToCome) > 0
  <2> HIDE DEF txt, w
  <2>1. LET l == Len(b) - TrailingPartial(b, <<ParamEnd>>)
        IN  l \in Nat /\ l =< Len(b) /\ l =< Len(From(txt, k)) /\ Len(ToCome) > 0
    BY <1>5, <1>6, ValueWithheld
  <2>2. QED  BY <1>4, <2>1 DEF SafeLen
<1>8. /\ m \in 0 .. Len(txt) /\ v \in Seq(S) /\ x \in Seq(S) /\ Makes(v, x, Before(txt, m))
      /\ ValueAt(S, From(b, n), ToCome, txt, m, w)
  <2> HIDE DEF txt, w
  <2>1. QED  BY <1>6, <1>7, ValueTaken
<1> HIDE DEF m, v, x
<1>9. Sending(d, j, i, v \o x)'
  BY <1>4, <1>5, <1>6, <1>8, SendsMore, Zenon
<1>10. Left' = From(txt, m) \o AfterValue(output', d, j, i)
  <2>1. Left' = buffer' \o ToCome /\ output' = output
    BY <1>5, LeftIs, Zenon
  <2>2. AfterValue(o, d, j, i) = ParamEnd \o w
    BY Zenon DEF AfterValue
  <2> HIDE DEF w
  <2>3. From(b, n) \o ToCome = From(txt, m) \o (ParamEnd \o w)
    BY <1>8, Zenon DEF ValueAt
  <2>4. QED  BY <1>4, <1>5, <2>1, <2>2, <2>3, Zenon
<1>11. Sending(d, j, i, Before(txt, m))'
  <2> DEFINE y == Before(txt, m)
             vx == v \o x
  <2>1. y = vx
    BY <1>8 DEF Makes
  <2>2. Sending(d, j, i, vx)'
    BY <1>9
  <2> HIDE DEF y, vx
  <2>3. Sending(d, j, i, y)'
    BY <2>1, <2>2, Zenon
  <2>4. QED  BY <2>3, ZenonT(40) DEF y
<1>12. /\ m \in 0 .. Len(d.calls[j].params[i].text)
       /\ Left' = From(d.calls[j].params[i].text, m) \o AfterValue(output', d, j, i)
       /\ Sending(d, j, i, Before(d.calls[j].params[i].text, m))'
  BY <1>8, <1>10, <1>11, Zenon
<1>13. InValue(d)'
  BY <1>1, <1>2, <1>12, Zenon DEF InValue
<1>14. QED  BY <1>7, <1>13

\* The value is whole with x, and its arguments are sent.
Ends(x) ==
    /\ inCalls' = inCalls /\ active' = active
    /\ IF Whole
       THEN SetArgs(WithEntries(Args, Unwrapped(OneValue(param.name, param.parts \o x))))
       ELSE SetArgs(Args \o x \o IF param.mode = "string" THEN <<QUOTE>> ELSE <<>>)

RawSent(args, p, v, x) == ((args \o Prefix(args, p)) \o v) \o x
QuotedSent(args, p, v, x) ==
    ((((args \o Prefix(args, p)) \o <<QUOTE>>) \o v) \o x) \o <<QUOTE>>

\* The pieces of a string or an object, sent one by one, are all of it.
LEMMA AllGiven ==
    ASSUME NEW S, NEW args \in Seq(S), NEW p, Prefix(args, p) \in Seq(S), <<QUOTE>> \in Seq(S),
           NEW v \in Seq(S), NEW x \in Seq(S), NEW txt, Makes(v, x, txt)
    PROVE  /\ p \in ObjectParams /\ txt = <<OBJECT>> =>
                Given(args, p, txt) = RawSent(args, p, v, x)
           /\ p \notin ScalarParams \cup ObjectParams =>
                Given(args, p, txt) = QuotedSent(args, p, v, x)
<1> DEFINE pre == Prefix(args, p)
           q == <<QUOTE>>
           raw == args \o pre
           quoted == raw \o q
           T == Seq(S)
<1>0. txt = v \o x
  BY DEF Makes
<1>1. Joinable(T)
  BY SeqJoinable
<1>2. args \in T /\ pre \in T /\ q \in T /\ v \in T /\ x \in T
  OBVIOUS
<1> HIDE DEF pre, q, T
<1>3. raw \in T /\ quoted \in T
  BY <1>1, <1>2 DEF Joinable
<1>4. ASSUME p \in ObjectParams, txt = <<OBJECT>>
      PROVE  Given(args, p, txt) = (raw \o v) \o x
  <2>1. Converted(p, txt) = txt
    BY <1>4, ParamsAssumption DEF Converted
  <2>2. Given(args, p, txt) = args \o (pre \o txt)
    BY <2>1 DEF Given, pre
  <2>3. v \o x \in T
    BY <1>1, <1>2 DEF Joinable
  <2> DEFINE vx == v \o x
  <2>4. args \o (pre \o vx) = raw \o vx
    <3>1. Joined3(T, args, pre, vx)
      BY <1>1, <1>2, <2>3 DEF Joined3
    <3> HIDE DEF vx
    <3>2. QED  BY <3>1, JoinsThree
  <2>5. raw \o vx = (raw \o v) \o x
    <3> HIDE DEF raw
    <3>1. Joined3(T, raw, v, x)
      BY <1>1, <1>2, <1>3 DEF Joined3
    <3>2. QED  BY <3>1, JoinsThree
  <2>6. vx = txt
    BY <1>0
  <2> HIDE DEF vx, raw
  <2>7. QED  BY <2>2, <2>4, <2>5, <2>6
<1>5. ASSUME p \notin ScalarParams \cup ObjectParams
      PROVE  Given(args, p, txt) = ((quoted \o v) \o x) \o q
  <2> DEFINE vx == v \o x
             y == q \o vx
             z == y \o q
  <2>1. vx = txt
    BY <1>0
  <2>2. vx \in T
    BY <1>1, <1>2 DEF Joinable
  <2>3. quoted \o vx = (quoted \o v) \o x
    <3> HIDE DEF quoted
    <3>1. Joined3(T, quoted, v, x)
      BY <1>1, <1>2, <1>3 DEF Joined3
    <3>2. QED  BY <3>1, JoinsThree
  <2> HIDE DEF vx
  <2>4. Converted(p, txt) = z
    <3>1. Converted(p, vx) = Quoted(vx)
      BY <1>5 DEF Converted
    <3>2. Quoted(vx) = z
      BY DEF Quoted, q
    <3>3. QED  BY <2>1, <3>1, <3>2
  <2>5. y \in T /\ quoted \o vx \in T
    <3> HIDE DEF quoted
    <3>1. QED  BY <1>1, <1>2, <1>3, <2>2 DEF Joinable
  <2>6. quoted \o vx = raw \o y
    <3> HIDE DEF raw
    <3>1. Joined3(T, raw, q, vx)
      BY <1>1, <1>2, <1>3, <2>2 DEF Joined3
    <3>2. QED  BY <3>1, JoinsThree, SMTT(30)
  <2>7. Given(args, p, txt) = args \o (pre \o z)
    <3> HIDE DEF z
    <3>1. QED  BY <2>4 DEF Given, pre
  <2> HIDE DEF y
  <2>8. z \in T
    BY <1>1, <1>2, <2>5 DEF Joinable
  <2>9. raw \o z = (raw \o y) \o q
    <3> HIDE DEF raw
    <3>1. Joined3(T, raw, y, q)
      BY <1>1, <1>2, <1>3, <2>5 DEF Joined3
    <3>2. QED  BY <3>1, JoinsThree, SMTT(30)
  <2> HIDE DEF z
  <2>10. args \o (pre \o z) = raw \o z
    <3>1. Joined3(T, args, pre, z)
      BY <1>1, <1>2, <2>8, Zenon DEF Joined3
    <3>2. QED  BY <3>1, JoinsThree
  <2> HIDE DEF raw, quoted
  <2>11. QED  BY <2>3, <2>6, <2>7, <2>9, <2>10
<1>6. QED  BY <1>4, <1>5 DEF pre, q, RawSent, QuotedSent

\* With the rest of the value, all of its parameter has been sent.
LEMMA SendsAll ==
    ASSUME NEW S, NEW d, NEW j, NEW i, ParamOf(S, output, d, j, i), NEW v \in Seq(S), NEW x \in Seq(S),
           Makes(v, x, d.calls[j].params[i].text), Sending(d, j, i, v), Ends(x)
    PROVE  UnderWay(d, j, ArgsAfter(d.calls[j], i))'
<1> DEFINE c == d.calls[j]
           p == c.params[i]
           key == p.key
           txt == p.text
           args == ArgsAfter(c, i - 1)
           pre == Prefix(args, key)
           raw == args \o pre
           q == <<QUOTE>>
           quoted == raw \o q
           all == ArgsAfter(c, i)
<1>0. txt = v \o x
  BY DEF Makes
<1>1. OutputIn(S, output, d) /\ j \in 1 .. Len(d.calls)
  BY DEF ParamOf, CallOf
<1>2. args \in Seq(S) /\ pre \in Seq(S) /\ q \in Seq(S) /\ FirstKey(args, key, i)
      /\ (key \in ObjectParams => txt = <<OBJECT>>)
  <2>1. args \in Seq(S) /\ pre \in Seq(S) /\ <<QUOTE>> \in Seq(S)
    BY ParamFacts, Zenon
  <2>2. FirstKey(args, key, i)
    BY ParamFacts, Zenon
  <2>3. ObjectText(p)
    BY ParamFacts, Zenon
  <2>4. QED  BY <2>1, <2>2, <2>3, Zenon DEF ObjectText
<1>3. /\ ~LoneWrapper(c) => all = Given(args, key, txt)
      /\ (i = 1 /\ key \in Wrappers) \/ key \in ScalarParams =>
           WithEntries(args, Unwrapped(OneValue(key, txt))) = all
  BY ArgsGiven
<1>4. inCalls' = inCalls /\ active' = active
  BY DEF Ends
<1>5. ASSUME NEW old, UnderWay(d, j, old), NEW new, SetArgs(new)
      PROVE  UnderWay(d, j, new)'
  <2>1. calls' = Started(d, j, new)
    BY <1>1, <1>5, ArgsNow
  <2>2. QED  BY <1>4, <1>5, <2>1 DEF UnderWay
<1>6. ASSUME NEW old, UnderWay(d, j, old) PROVE Args = old
  BY <1>1, <1>6, ArgsNow
<1>7. LoneWrapper(c) => key \in Wrappers /\ i = 1
  <2>1. i \in 1 .. Len(c.params)
    BY DEF ParamOf
  <2>2. QED  BY <2>1 DEF LoneWrapper
<1>8. /\ key \in ObjectParams => Given(args, key, txt) = (raw \o v) \o x
      /\ key \notin ScalarParams \cup ObjectParams =>
           Given(args, key, txt) = ((quoted \o v) \o x) \o q
  <2>1. Makes(v, x, txt)
    OBVIOUS
  <2> HIDE DEF args, key, txt
  <2>2. /\ key \in ObjectParams /\ txt = <<OBJECT>> => Given(args, key, txt) = RawSent(args, key, v, x)
        /\ key \notin ScalarParams \cup ObjectParams =>
             Given(args, key, txt) = QuotedSent(args, key, v, x)
    BY <1>2, <2>1, AllGiven
  <2>3. QED  BY <1>2, <2>2 DEF RawSent, QuotedSent
<1>9. ASSUME param.name = key, param.mode \in {"wrapper", "buffered"}, param.parts = v,
             UnderWay(d, j, args), (i = 1 /\ key \in Wrappers) \/ key \in ScalarParams
      PROVE  UnderWay(d, j, all)'
  <2> DEFINE new == WithEntries(Args, Unwrapped(OneValue(param.name, param.parts \o x)))
  <2>1. Whole
    BY <1>9 DEF Whole
  <2>2. SetArgs(new)
    BY <2>1 DEF Ends
  <2> HIDE DEF args, key, txt, all
  <2>3. Args = args
    BY <1>6, <1>9
  <2>4. param.parts \o x = txt
    BY <1>0, <1>9
  <2>5. new = WithEntries(args, Unwrapped(OneValue(key, txt)))
    BY <1>9, <2>3, <2>4
  <2>6. new = all
    BY <1>3, <1>9, <2>5
  <2> HIDE DEF new
  <2>7. SetArgs(all)
    BY <2>2, <2>6
  <2>8. QED  BY <1>5, <1>9, <2>7
<1>10. CASE /\ param = [name |-> key, mode |-> "raw", parts |-> <<>>]
            /\ key \in ObjectParams
            /\ UnderWay(d, j, raw \o v)
  <2> DEFINE old == raw \o v
             new == old \o x
  <2>1. ~Whole /\ param.mode = "raw"
    BY <1>10 DEF Whole
  <2>2. UnderWay(d, j, old)
    BY <1>10, Zenon
  <2>3. all = new
    BY <1>3, <1>7, <1>8, <1>10, ParamsAssumption, Zenon
  <2>4. new \in Seq(S)
    <3>1. raw \in Seq(S)
      <4> HIDE DEF args, pre
      <4>1. QED  BY <1>2, Joined
    <3> HIDE DEF raw
    <3>2. old \in Seq(S)
      BY <3>1, Joined
    <3> HIDE DEF old
    <3>3. QED  BY <3>2, Joined
  <2> HIDE DEF old
  <2>5. Args = old
    BY <1>6, <2>2
  <2>6. SetArgs(Args \o x \o <<>>)
    BY <2>1 DEF Ends
  <2> HIDE DEF new
  <2>7. new \o <<>> = new
    BY <2>4
  <2>8. Args \o x = new
    BY <2>5 DEF new
  <2> DEFINE sent == Args \o x
             whole == sent \o <<>>
  <2>9. SetArgs(whole)
    BY <2>6
  <2> HIDE DEF sent
  <2>10. whole = new
    BY <2>7, <2>8 DEF sent
  <2> HIDE DEF whole, all
  <2>11. SetArgs(all)
    BY <2>3, <2>9, <2>10
  <2>12. UnderWay(d, j, all)'
    BY <1>5, <2>2, <2>11
  <2>13. QED  BY <2>12 DEF all
<1>11. CASE /\ param = [name |-> key, mode |-> "string", parts |-> <<>>]
            /\ key \notin ScalarParams \cup ObjectParams
            /\ ~(i = 1 /\ key \in Wrappers)
            /\ UnderWay(d, j, quoted \o v)
  <2> DEFINE old == quoted \o v
             sent == Args \o x
             whole == sent \o q
             new == (old \o x) \o q
  <2>1. ~Whole /\ param.mode = "string"
    BY <1>11 DEF Whole
  <2>2. UnderWay(d, j, old)
    BY <1>11, Zenon
  <2>3. all = new
    BY <1>3, <1>7, <1>8, <1>11, Zenon
  <2> HIDE DEF old
  <2>4. Args = old
    BY <1>6, <2>2
  <2>5. SetArgs(whole)
    BY <2>1 DEF Ends
  <2>6. whole = new
    BY <2>4
  <2> HIDE DEF whole, new, all
  <2>7. SetArgs(all)
    BY <2>3, <2>5, <2>6
  <2>8. UnderWay(d, j, all)'
    BY <1>5, <2>2, <2>7
  <2>9. QED  BY <2>8 DEF all
<1>12. CASE /\ param = [name |-> key, mode |-> "wrapper", parts |-> v]
            /\ i = 1 /\ key \in Wrappers
            /\ UnderWay(d, j, args)
  <2>1. param.name = key /\ param.mode \in {"wrapper", "buffered"} /\ param.parts = v
    BY <1>12
  <2>2. QED  BY <1>9, <1>12, <2>1
<1>13. CASE /\ param = [name |-> key, mode |-> "buffered", parts |-> v]
            /\ key \in ScalarParams
            /\ UnderWay(d, j, args)
  <2>1. param.name = key /\ param.mode \in {"wrapper", "buffered"} /\ param.parts = v
    BY <1>13
  <2>2. QED  BY <1>9, <1>13, <2>1
<1>14. QED  BY <1>10, <1>11, <1>12, <1>13 DEF Sending

\* The end of a value ends its parameter.
LEMMA EndReads ==
    ASSUME NEW S, NEW d, Sit(S, d), InValue(d), EndParam
    PROVE  WithinCall(d)'
<1>1. PICK j \in 1 .. Len(d.calls) : \E i \in 1 .. Len(d.calls[j].params) :
             \E k \in 0 .. Len(d.calls[j].params[i].text) : Being(S, d, j, i, k)
  BY ValueIs
<1>2. PICK i \in 1 .. Len(d.calls[j].params) :
             \E k \in 0 .. Len(d.calls[j].params[i].text) : Being(S, d, j, i, k)
  BY <1>1
<1>3. PICK k \in 0 .. Len(d.calls[j].params[i].text) : Being(S, d, j, i, k)
  BY <1>2
<1>4. PICK b, o : b = buffer /\ o = output
  OBVIOUS
<1> DEFINE c == d.calls[j]
           p == c.params[i]
           txt == p.text
           gap == p.gap
           rest == AfterParams(o, d, j, i)
           w == gap \o rest
           v == Before(txt, k)
           end == Find(b, ParamEnd)
           x == Before(b, end)
<1>5. /\ end >= 0 /\ buffer' = From(b, end + Len(ParamEnd)) /\ Ends(x) /\ UNCHANGED stream
      /\ param' = NoParam
  BY <1>4 DEF EndParam, Ends, OneValue, Continue
<1>6. /\ ParamOf(S, o, d, j, i) /\ ValueAt(S, b, ToCome, txt, k, w)
      /\ Sending(d, j, i, v)
  BY <1>3, <1>4 DEF Being
<1>7. /\ Makes(v, x, txt) /\ v \in Seq(S) /\ x \in Seq(S)
      /\ From(b, end + Len(ParamEnd)) \o ToCome = w
  <2> HIDE DEF txt, w
  <2>1. Makes(v, x, txt) /\ Makes(From(b, end + Len(ParamEnd)), ToCome, w)
    BY <1>5, <1>6, ValueFound
  <2>2. txt \in Seq(S) /\ k \in 0 .. Len(txt) /\ b \in Seq(S)
    BY <1>6 DEF ValueAt
  <2>3. v \in Seq(S)
    BY <2>2, Slices
  <2>4. end \in Int /\ (end >= 0 => end + Len(ParamEnd) \in 0 .. Len(b)) /\ Len(ParamEnd) = 4
    BY <2>2, Tags, FindIs DEF ParamEnd
  <2>5. end \in 0 .. Len(b)
    BY <1>5, <2>2, <2>4
  <2>6. x \in Seq(S)
    <3> HIDE DEF end
    <3>1. QED  BY <2>2, <2>5, Slices, Zenon
  <2>7. QED  BY <2>1, <2>3, <2>6 DEF Makes
<1>8. UnderWay(d, j, ArgsAfter(c, i))'
  <2> HIDE DEF v, x
  <2>1. QED  BY <1>4, <1>5, <1>6, <1>7, SendsAll, Zenon
<1>9. gap \in Seq(S) /\ Range(gap) \subseteq {WS} /\ rest \in Seq(S)
  BY <1>6, ParamFacts, Zenon
<1>10. Left' = w /\ output' = output
  BY <1>5, <1>7, LeftIs, Zenon
<1>11. SpacesThen(Left', AfterParams(output', d, j, i))
  <2> HIDE DEF rest, gap
  <2>1. SpacesThen(gap \o rest, rest)
    BY <1>9, ThenOf
  <2>2. QED  BY <1>4, <1>10, <2>1 DEF rest
<1>12. i \in 0 .. Len(d.calls[j].params)
  BY <1>2
<1>13. QED  BY <1>1, <1>5, <1>8, <1>11, <1>12 DEF WithinCall

\* The loop reads what is between the tags of a block.
LEMMA TagsReads ==
    ASSUME NEW S, NEW d, Sit(S, d), Progress(d),
           SkipSpace \/ LeaveCalls \/ BeginCall \/ AwaitInvoke \/ CloseCall \/ BeginParam
             \/ AwaitParam \/ EndParam \/ StreamValue
    PROVE  /\ Progress(d)'
           /\ phase' = "idle" => ReadAll(d)' \/ Len(ToCome) > 0
<1>1. /\ LeaveCalls \/ BeginCall \/ AwaitInvoke => Between(d)
      /\ CloseCall \/ BeginParam \/ AwaitParam => WithinCall(d)
      /\ EndParam \/ StreamValue => InValue(d)
      /\ SkipSpace => Between(d) \/ WithinCall(d)
  BY WhichPart DEF LeaveCalls, BeginCall, AwaitInvoke, CloseCall, BeginParam, AwaitParam,
                   EndParam, StreamValue, SkipSpace, BetweenInvokes, BetweenTags, InCall, InParam
<1>2. CASE SkipSpace
  <2>1. phase' = "loop"
    BY <1>2 DEF SkipSpace, Continue
  <2>2. Between(d)' \/ WithinCall(d)'
    BY <1>1, <1>2, SpaceBetweenReads, SpaceWithinReads
  <2>3. QED  BY <2>1, <2>2 DEF Progress
<1>3. CASE LeaveCalls
  <2>1. ReadAll(d)'
    BY <1>1, <1>3, LeaveReads
  <2>2. QED  BY <2>1 DEF Progress
<1>4. CASE BeginCall
  <2>1. phase' = "loop"
    BY <1>4 DEF BeginCall, Continue
  <2>2. WithinCall(d)'
    BY <1>1, <1>4, BeginReads
  <2>3. QED  BY <2>1, <2>2 DEF Progress
<1>5. CASE AwaitInvoke
  <2>1. Between(d)' /\ Len(ToCome) > 0
    BY <1>1, <1>5, AwaitInvokeReads
  <2>2. QED  BY <2>1 DEF Progress
<1>6. CASE CloseCall
  <2>1. phase' = "loop"
    BY <1>6 DEF CloseCall, Continue
  <2>2. Between(d)'
    BY <1>1, <1>6, CloseReads
  <2>3. QED  BY <2>1, <2>2 DEF Progress
<1>7. CASE BeginParam
  <2>1. phase' = "loop"
    BY <1>7 DEF BeginParam, Continue
  <2>2. InValue(d)'
    BY <1>1, <1>7, BeginParamReads
  <2>3. QED  BY <2>1, <2>2 DEF Progress
<1>8. CASE AwaitParam
  <2>1. WithinCall(d)' /\ Len(ToCome) > 0
    BY <1>1, <1>8, AwaitParamReads
  <2>2. QED  BY <2>1 DEF Progress
<1>9. CASE EndParam
  <2>1. phase' = "loop"
    BY <1>9 DEF EndParam, Continue
  <2>2. WithinCall(d)'
    BY <1>1, <1>9, EndReads
  <2>3. QED  BY <2>1, <2>2 DEF Progress
<1>10. CASE StreamValue
  <2>1. InValue(d)' /\ Len(ToCome) > 0
    BY <1>1, <1>10, StreamReads
  <2>2. QED  BY <2>1 DEF Progress
<1>11. QED  BY <1>2, <1>3, <1>4, <1>5, <1>6, <1>7, <1>8, <1>9, <1>10
=============================================================================
