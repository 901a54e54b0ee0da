---------------------------- MODULE ToolReadingProofs ----------------------------
(***************************************************************************)
(* Proofs about what is read of an output: for every well-formed output    *)
(* and every cut of it into deltas, the calls sent grow into those of the  *)
(* one-shot parser.  The loop of the tool parser reads on through a delta  *)
(* and waits only for what is to come; then both parsers on one stream:    *)
(* what the delta that ends reasoning hands over is where the tool parser  *)
(* begins.                                                                 *)
(***************************************************************************)
EXTENDS ToolProofs, PipelineReading

\* Something is to come: not all of the output has been fed.
LEMMA MoreToFeed ==
    ASSUME ToolInv
    PROVE  /\ Len(ToCome) = Len(TextOf(output)) - fed
           /\ Len(ToCome) > 0 => fed < Len(TextOf(output))
<1> DEFINE t == TextOf(output)
<1>1. output \in Outputs /\ fed \in 0 .. Len(t)
  BY DEF ToolInv
<1>2. t \in Seq(Pieces)
  BY <1>1, OutputText
<1> HIDE DEF t
<1>3. Len(From(t, fed)) = Len(t) - fed /\ Len(t) \in Nat
  BY <1>1, <1>2, Slices
<1> DEFINE n == Len(t)
           m == Len(From(t, fed))
<1>4. m = n - fed /\ n \in Nat /\ fed \in 0 .. n
  BY <1>1, <1>3
<1> HIDE DEF n, m
<1>5. m = n - fed /\ (m > 0 => fed < n)
  BY <1>4
<1>6. QED  BY <1>5 DEF n, m, t, ToCome

\* Every round of the loop reads on.
LEMMA LoopReads ==
    ASSUME ToolInv, NEW d, Reading(d), previous, phase = "loop", ProcessStep
    PROVE  Reading(d)' /\ previous'
<1>1. UNCHANGED stream /\ phase' \in {"loop", "idle"}
  BY DEF ProcessStep, RecoverAtInvoke, RepairHeadless, HoldTail, SendText, TextBeforeBlock,
         EnterCalls, SkipSpace, LeaveCalls, BeginCall, AwaitInvoke, CloseCall, BeginParam,
         AwaitParam, EndParam, StreamValue, Continue, Return
<1>2. output' = output /\ fed' = fed /\ previous'
  BY <1>1 DEF stream
<1>3. WellFormed(output, d) /\ Progress(d)
  BY DEF Reading
<1>4. Sit(Chars(d), d)
  BY <1>3, SitOf
<1>5. /\ Progress(d)'
      /\ phase' = "idle" => ReadAll(d)' \/ Len(ToCome) > 0
  <2>1. CASE RecoverAtInvoke \/ RepairHeadless \/ HoldTail \/ SendText \/ TextBeforeBlock \/ EnterCalls
    BY <1>3, <1>4, <2>1, SearchReads
  <2>2. CASE SkipSpace \/ LeaveCalls \/ BeginCall \/ AwaitInvoke \/ CloseCall \/ BeginParam
               \/ AwaitParam \/ EndParam \/ StreamValue
    BY <1>3, <1>4, <2>2, TagsReads
  <2>3. QED  BY <2>1, <2>2 DEF ProcessStep
<1>6. phase' = "idle" => ReadAll(d)' \/ fed' < Len(TextOf(output'))
  BY <1>2, <1>5, MoreToFeed
<1>7. WellFormed(output', d)
  BY <1>2, <1>3
<1>8. QED  BY <1>1, <1>2, <1>5, <1>6, <1>7 DEF Reading

\* An opener that lost more than its "<" is "<TOOL_CALLS" without its front.
LEMMA OpenerShort ==
    ASSUME NEW o \in Outputs, ~(Len(o.opener) >= Len(Headless))
    PROVE  o.before = <<>> /\ \A i \in 1 .. Len(o.opener) : o.opener[i] = CALLS
<1> DEFINE s == o.opener
<1>1. s \in Seq(Range(s)) /\ IsSuffix(s, StartToken)
  BY OutputAssumption, Zenon
<1> DEFINE S == Range(s) \cup {LT, DSML, CALLS}
           U == Range(s)
<1>2. U \subseteq S /\ {LT, DSML, CALLS} \subseteq S
  OBVIOUS
<1> HIDE DEF S, U
<1>3. s \in Seq(S) /\ StartToken \in Seq(S)
  BY <1>1, <1>2, Tags, SeqWider DEF U
<1>4. Len(s) < Len(Headless) => o.before = <<>>
  BY OutputAssumption, Zenon
<1> HIDE DEF s
<1>5. Len(s) =< 3 /\ \A i \in 1 .. Len(s) : s[i] = StartToken[(3 - Len(s)) + i]
  <2> DEFINE t == StartToken
  <2>1. s \in Seq(S) /\ t \in Seq(S) /\ IsSuffix(s, t) /\ Len(t) = 3
    BY <1>1, <1>3, Tags DEF s
  <2> HIDE DEF t
  <2>2. Len(s) =< Len(t) /\ \A i \in 1 .. Len(s) : s[i] = t[(Len(t) - Len(s)) + i]
    BY <2>1, SuffixPieces, Zenon
  <2>3. QED  BY <2>1, <2>2 DEF t
<1> DEFINE n == Len(s)
<1>6. n \in Nat /\ ~(n >= 2) /\ Len(Headless) = 2
  BY <1>3, Tags DEF s
<1>7. \A i \in 1 .. n : n = 1 /\ i = 1 /\ s[i] = StartToken[(3 - n) + i]
  <2> TAKE i \in 1 .. n
  <2>1. s[i] = StartToken[(3 - n) + i]
    BY <1>5
  <2> HIDE DEF n
  <2>2. n = 1 /\ i = 1
    BY <1>6
  <2>3. QED  BY <2>1, <2>2
<1> HIDE DEF n
<1>8. n < 2
  BY <1>6
<1>9. \A i \in 1 .. n : s[i] = CALLS
  <2> TAKE i \in 1 .. n
  <2>1. s[i] = StartToken[(3 - n) + i] /\ (3 - n) + i = 3
    BY <1>7
  <2>2. QED  BY <2>1, TagPiecesAre
<1>10. QED  BY <1>4, <1>6, <1>8, <1>9 DEF n, s

\* Nothing has been read: the opener is ahead, whatever it has lost.
LEMMA OpenerWaits ==
    ASSUME NEW S, NEW o, NEW d, OutputIn(S, o, d)
    PROVE  OpenerAhead(TextOf(o), o, d)
<1> DEFINE before == o.before
           opener == o.opener
           rest == o.block \o o.after
           calls0 == AfterCalls(o, d, 0)
           T == Seq(S)
<1>1. /\ o \in Outputs /\ WellFormed(o, d) /\ Marks \subseteq S /\ Laid3(Seq(S), o)
      /\ d.lead \in Spaces
  BY DEF OutputIn, WellFormed, IsDerivation
<1>2. StartToken \in T /\ Headless \in T /\ Joinable(T)
  BY <1>1, TagsTyped, SeqJoinable
<1>3. /\ TextOf(o) = before \o (opener \o rest)
      /\ rest \in T /\ opener \o rest \in T /\ TextOf(o) \in T
  BY <1>1, <1>2, TextIs
<1>4. before \in T /\ opener \in T
  BY <1>1 DEF Laid3
<1>5. DSML \notin Range(before)
  BY <1>1 DEF WellFormed, Opens
<1>6. before \in Fronts(TextOf(o))
  <2> HIDE DEF before, rest, opener, T
  <2>1. before \in Seq(S) /\ opener \o rest \in Seq(S)
    BY <1>3, <1>4 DEF T
  <2> DEFINE y == opener \o rest
  <2> HIDE DEF y
  <2>2. before \in Fronts(before \o y)
    BY <2>1, FrontOf DEF y
  <2>3. QED  BY <1>3, <2>2 DEF y
<1>7. CASE opener = StartToken
  <2>1. TextOf(o) = before \o (StartToken \o (o.block \o o.after))
    BY <1>3, <1>7
  <2>2. QED  BY <1>5, <1>6, <2>1 DEF OpenerAhead
<1>8. opener # StartToken => Occurrences(StartToken, TextOf(o)) = {}
  BY <1>1 DEF WellFormed, Opens
<1>9. CASE opener = Headless
  <2>1. TextOf(o) = before \o (Headless \o (o.block \o o.after))
    BY <1>3, <1>9
  <2>2. before # <<>> => Last(before) \notin {LT, SLASH}
    BY <1>1, <1>9 DEF WellFormed
  <2>3. Headless # StartToken
    <3>1. Len(Headless) # Len(StartToken)
      BY Tags
    <3>2. QED  BY <3>1
  <2>4. QED  BY <1>5, <1>6, <1>8, <1>9, <2>1, <2>2, <2>3 DEF OpenerAhead
<1>10. CASE ~(Len(opener) >= Len(Headless))
  <2> DEFINE lead == d.lead
             x == opener \o lead
             m == Len(opener)
             n == Len(lead)
  <2>1. before = <<>> /\ \A i \in 1 .. m : opener[i] = CALLS
    BY <1>1, <1>10, OpenerShort
  <2>2. rest = lead \o calls0 /\ lead \in Seq(S)
    BY BlockIs
  <2>3. calls0 \in Seq(S)
    BY FirstCallIs
  <2>4. \A i \in 1 .. n : lead[i] = WS
    <3>1. WS \in S
      BY <1>1, Zenon DEF Marks
    <3>2. QED  BY <1>1, <3>1, SpacesTyped
  <2>5. m \in Nat /\ n \in Nat
    BY <1>4, <2>2
  <2> HIDE DEF opener, lead, calls0, before, rest
  <2>6. /\ x \in Seq(S) /\ Len(x) = m + n
        /\ \A i \in 1 .. m : x[i] = opener[i]
        /\ \A i \in 1 .. n : x[m + i] = lead[i]
    BY <1>4, <2>2, Joined
  <2>7. TextOf(o) = x \o calls0
    <3>1. Joined3(T, opener, lead, calls0)
      BY <1>2, <1>4, <2>2, <2>3 DEF Joined3
    <3> HIDE DEF T
    <3>2. opener \o (lead \o calls0) = x \o calls0
      BY <3>1, JoinsThree
    <3> DEFINE y == opener \o rest
    <3>3. y \in T
      BY <1>3
    <3>4. TextOf(o) = <<>> \o y
      BY <1>3, <2>1
    <3> HIDE DEF y
    <3>5. <<>> \o y = y
      BY <3>3, ConcatEmptySeq DEF T
    <3> HIDE DEF x
    <3>6. y = x \o calls0
      BY <2>2, <3>2 DEF y
    <3>7. QED  BY <3>4, <3>5, <3>6
  <2> HIDE DEF x
  <2>8. x \in Fronts(TextOf(o))
    <3>1. x \in Fronts(x \o calls0)
      BY <2>3, <2>6, FrontOf
    <3>2. QED  BY <2>7, <3>1
  <2>9. ASSUME NEW i \in 1 .. Len(x) PROVE x[i] \in {CALLS, WS}
    <3> HIDE DEF m, n
    <3>1. CASE i =< m
      <4>1. i \in 1 .. m
        BY <2>5, <2>6, <3>1
      <4>2. QED  BY <2>1, <2>6, <4>1
    <3>2. CASE i > m
      <4>1. i - m \in 1 .. n /\ m + (i - m) = i
        BY <2>5, <2>6, <3>2
      <4>2. x[m + (i - m)] = lead[i - m]
        BY <2>6, <4>1
      <4>3. QED  BY <2>4, <4>1, <4>2
    <3>3. QED  BY <2>5, <2>6, <3>1, <3>2
  <2>10. DSML \notin Range(x) /\ LT \notin Range(x)
    <3>1. Range(x) = {x[i] : i \in 1 .. Len(x)}
      BY <2>6, RangeIs
    <3>2. QED  BY <2>9, <3>1, MarksDiffer
  <2>11. Occurrences(StartToken, TextOf(o)) = {}
    <3>1. opener # StartToken
      <4>1. Len(StartToken) = 3 /\ Len(Headless) = 2
        BY Tags
      <4>2. Len(StartToken) >= Len(Headless)
        BY <4>1
      <4>3. QED  BY <1>10, <4>2
    <3>2. QED  BY <1>8, <3>1
  <2>12. TextOf(o) = x \o AfterCalls(o, d, 0)
    BY <2>7 DEF calls0
  <2> HIDE DEF x
  <2>13. QED  BY <2>8, <2>10, <2>11, <2>12 DEF OpenerAhead
<1>11. QED  BY <1>1, <1>7, <1>9, <1>10, OpenerIs

\* Where the parser is depends on nothing else.
LEMMA ProgressSame ==
    ASSUME NEW d, Progress(d), Left' = Left, UNCHANGED <<output, inCalls, calls, active, param>>
    PROVE  Progress(d)'
<1>1. Opening(d) => Opening(d)'
  BY DEF Opening
<1>2. Between(d) => Between(d)'
  BY DEF Between
<1>3. WithinCall(d) => WithinCall(d)'
  BY DEF WithinCall, UnderWay
<1>4. \A j, i, v : Sending(d, j, i, v) => Sending(d, j, i, v)'
  BY SMTT(30) DEF Sending, UnderWay
<1>5. InValue(d) => InValue(d)'
  BY <1>4, Zenon DEF InValue
<1>6. ReadAll(d) => ReadAll(d)'
  BY DEF ReadAll
<1>7. QED  BY <1>1, <1>2, <1>3, <1>5, <1>6 DEF Progress

\* A delta is put behind what has not been read.
LEMMA FeedReads ==
    ASSUME ToolInv, NEW d, Reading(d), Awaits(d), Feed
    PROVE  Reading(d)' /\ previous' /\ phase' = "loop"
<1>1. PICK n \in 1 .. MaxDelta :
          /\ fed + n =< Len(TextOf(output)) /\ fed' = fed + n
          /\ TakeDelta(SubSeq(TextOf(output), fed + 1, fed + n))
  BY DEF Feed
<1> DEFINE t == TextOf(output)
           delta == SubSeq(t, fed + 1, fed + n)
           front == From(t, fed)
           back == From(t, fed + n)
<1>2. WellFormed(output, d) /\ phase = "idle" /\ output \in Outputs
  BY DEF Reading, Feed, ToolInv
<1>3. OutputIn(Chars(d), output, d)
  BY <1>2, OutputTyped
<1>4. /\ t \in Seq(Pieces) /\ fed \in Nat /\ n \in Nat /\ n > 0 /\ Len(t) \in Nat
      /\ buffer \in Seq(Pieces) /\ fed + n =< Len(t)
  BY <1>1, <1>2, OutputText, DeltaAssumption DEF ToolInv
<1> HIDE DEF t
<1>5. /\ delta \in Seq(Pieces) /\ Len(delta) = n /\ \A i \in 1 .. n : delta[i] = t[fed + i]
  BY <1>4
<1>6. /\ front \in Seq(Pieces) /\ Len(front) = Len(t) - fed
      /\ \A i \in 1 .. Len(t) - fed : front[i] = t[i + fed]
  <2>1. fed \in 0 .. Len(t)
    BY <1>4
  <2>2. QED  BY <1>4, <2>1, Slices
<1>7. /\ back \in Seq(Pieces) /\ Len(back) = Len(t) - (fed + n)
      /\ \A i \in 1 .. Len(t) - (fed + n) : back[i] = t[i + (fed + n)]
  <2> DEFINE m == fed + n
  <2>1. m \in 0 .. Len(t)
    BY <1>4
  <2> HIDE DEF m
  <2>2. /\ From(t, m) \in Seq(Pieces) /\ Len(From(t, m)) = Len(t) - m
        /\ \A i \in 1 .. Len(t) - m : From(t, m)[i] = t[i + m]
    BY <1>4, <2>1, Slices
  <2>3. QED  BY <2>2 DEF m
<1> HIDE DEF delta, front, back
<1>8. delta \o back = front
  <2> DEFINE x == delta \o back
  <2>1. /\ x \in Seq(Pieces) /\ Len(x) = Len(delta) + Len(back)
        /\ \A i \in 1 .. Len(delta) : x[i] = delta[i]
        /\ \A i \in 1 .. Len(back) : x[Len(delta) + i] = back[i]
    <3>1. delta \in Seq(Pieces) /\ back \in Seq(Pieces)
      BY <1>5, <1>7
    <3>2. QED  BY <3>1, Joined
  <2> HIDE DEF x
  <2> DEFINE l == Len(t)
  <2>2. Len(x) = l - fed /\ Len(front) = l - fed /\ l \in Nat /\ fed \in Nat /\ n \in Nat
        /\ Len(delta) = n /\ Len(back) = l - (fed + n) /\ fed + n =< l
    BY <1>4, <1>5, <1>6, <1>7, <2>1
  <2>3. ASSUME NEW i \in 1 .. Len(x) PROVE x[i] = front[i]
    <3>1. front[i] = t[i + fed]
      BY <1>6, <2>2
    <3>2. CASE i =< n
      <4>1. i \in 1 .. n /\ fed + i = i + fed
        BY <2>2, <3>2
      <4>2. QED  BY <1>5, <2>1, <2>2, <3>1, <4>1
    <3>3. CASE i > n
      <4> HIDE DEF l
      <4>1. i - n \in 1 .. l - (fed + n) /\ n + (i - n) = i /\ (i - n) + (fed + n) = i + fed
        BY <2>2, <3>3
      <4>2. x[n + (i - n)] = back[i - n] /\ back[i - n] = t[(i - n) + (fed + n)]
        BY <1>7, <2>1, <2>2, <4>1 DEF l
      <4>3. QED  BY <3>1, <4>1, <4>2
    <3>4. QED  BY <2>2, <3>2, <3>3
  <2>4. x = front
    BY <1>6, <2>1, <2>2, <2>3, SameSequence
  <2>5. QED  BY <2>4 DEF x
<1>9. delta # <<>>
  <2> DEFINE l == Len(delta)
  <2>1. l > 0
    BY <1>4, <1>5
  <2> HIDE DEF l
  <2>2. l # 0
    BY <2>1
  <2>3. QED  BY <2>2 DEF l
<1>10. /\ output' = output /\ fed' = fed + n /\ previous' /\ phase' = "loop"
       /\ IF previous
          THEN /\ buffer' = buffer \o delta
               /\ UNCHANGED <<inCalls, calls, active, param, held>>
          ELSE /\ buffer' = delta /\ inCalls' = FALSE /\ calls' = <<>> /\ active' = 0
               /\ param' = NoParam
  BY <1>1, <1>9 DEF TakeDelta, ResetParam, delta, t
<1>11. Left' = buffer' \o back /\ Left = buffer \o front
  BY <1>10 DEF Left, back, front, t
<1>12. Progress(d)'
  <2>1. CASE previous
    <3>1. Left' = Left
      <4>1. Joined3(Seq(Pieces), buffer, delta, back)
        BY <1>4, <1>5, <1>7, SeqJoinable DEF Joined3
      <4>2. buffer \o (delta \o back) = (buffer \o delta) \o back
        BY <4>1, JoinsThree
      <4>3. buffer' = buffer \o delta
        BY <1>10, <2>1
      <4>4. QED  BY <1>8, <1>11, <4>2, <4>3
    <3>2. UNCHANGED <<output, inCalls, calls, active, param>>
      BY <1>10, <2>1
    <3>3. Progress(d)
      BY <1>2, <2>1 DEF Reading
    <3>4. QED  BY <3>1, <3>2, <3>3, ProgressSame
  <2>2. CASE ~previous
    <3>1. OpenerAhead(front, output, d)
      BY <1>2, <2>2 DEF Awaits, front, t
    <3>2. Left' = front
      BY <1>8, <1>10, <1>11, <2>2
    <3>4. OpenerAhead(Left', output', d)
      BY <1>10, <3>1, <3>2
    <3>5. Opening(d)'
      BY <1>10, <2>2, <3>4 DEF Opening
    <3>6. QED  BY <3>5 DEF Progress
  <2>3. QED  BY <2>1, <2>2
<1>13. WellFormed(output', d)
  BY <1>2, <1>10
<1>14. QED  BY <1>10, <1>12, <1>13 DEF Reading

\* There is something ahead.
LEMMA SomethingAhead ==
    ASSUME NEW S, NEW o, NEW d, OutputIn(S, o, d), NEW left \in Seq(S), OpenerAhead(left, o, d)
    PROVE  Len(left) > 0
<1> DEFINE none == <<>>
<1>1. none \in Seq(S) /\ Len(none) = 0 /\ none \o left = left
  BY ConcatEmptySeq
<1> HIDE DEF none
<1>2. PICK x \in Seq(S) : WholeAhead(S, left, x, o) \/ HeadlessAhead(S, left, x, o)
                          \/ MarkerAhead(S, left, x, o, d)
  BY AheadIs
<1>3. PICK tag, w : Kind(S, none \o left, x, tag, w)
  BY <1>1, <1>2 DEF WholeAhead, HeadlessAhead, MarkerAhead
<1>4. /\ Find(none, tag) \in Int
      /\ Find(none, tag) >= 0 => Len(x) + Len(tag) =< Len(none)
      /\ Find(none, tag) < 0 => Len(left) > 0
  BY <1>1, <1>3, KindToCome
<1>5. Len(x) \in Nat /\ Len(tag) \in Nat /\ Len(tag) > 0
  BY <1>3 DEF Kind, StartsOnce
<1>6. Find(none, tag) < 0
  BY <1>1, <1>4, <1>5
<1>7. QED  BY <1>4, <1>6

\* Nothing of an output has been given.
LEMMA AwaitsFirst ==
    ASSUME NEW o \in Outputs, NEW d, WellFormed(o, d)
    PROVE  OpenerAhead(From(TextOf(o), 0), o, d)
<1>1. OutputIn(Chars(d), o, d) /\ TextOf(o) \in Seq(Pieces)
  BY OutputTyped, OutputText
<1>2. From(TextOf(o), 0) = TextOf(o)
  BY <1>1, SlicesOfText
<1>3. QED  BY <1>1, <1>2, OpenerWaits

\* The end of a stream is not come to before the parser has been given some of it.
LEMMA GivenAtEnd ==
    ASSUME ToolInv, NEW d, Reading(d), Awaits(d), EndOfStream
    PROVE  previous
<1> SUFFICES ASSUME ~previous PROVE FALSE
  OBVIOUS
<1>1. /\ phase = "idle" /\ fed = Len(TextOf(output)) /\ WellFormed(output, d)
      /\ output \in Outputs
  BY DEF EndOfStream, Reading, ToolInv
<1> DEFINE t == TextOf(output)
           left == From(t, fed)
<1>2. OutputIn(Chars(d), output, d) /\ t \in Seq(Pieces) /\ Pieces \subseteq Chars(d)
  BY <1>1, OutputTyped, OutputText DEF OutputIn
<1>3. OpenerAhead(left, output, d)
  BY <1>1 DEF Awaits
<1> HIDE DEF t
<1>4. fed \in 0 .. Len(t) /\ fed = Len(t)
  BY <1>1, <1>2 DEF t
<1>5. left \in Seq(Pieces) /\ Len(left) = Len(t) - fed
  BY <1>2, <1>4, Slices
<1>6. left \in Seq(Chars(d))
  BY <1>2, <1>5, SeqWider
<1> HIDE DEF left
<1>7. Len(left) > 0
  BY <1>2, <1>3, <1>6, SomethingAhead
<1>8. QED  BY <1>4, <1>5, <1>7

\* A round of the loop reads on; a parser that has been given nothing awaits
\* the opener still.
LEMMA RoundReads ==
    ASSUME ToolInv, NEW d, Reading(d), Awaits(d), ProcessStep
    PROVE  Reading(d)' /\ Awaits(d)'
<1>1. phase = "loop"
  BY DEF ProcessStep, RecoverAtInvoke, RepairHeadless, HoldTail, SendText, TextBeforeBlock,
     EnterCalls, SkipSpace, LeaveCalls, BeginCall, AwaitInvoke, CloseCall, BeginParam,
     AwaitParam, EndParam, StreamValue, NoOpener, Searching, BetweenInvokes, BetweenTags,
     InCall, InParam, Loop
<1>2. UNCHANGED <<output, fed, previous>> /\ phase' \in {"loop", "idle"}
  BY DEF ProcessStep, RecoverAtInvoke, RepairHeadless, HoldTail, SendText, TextBeforeBlock,
     EnterCalls, SkipSpace, LeaveCalls, BeginCall, AwaitInvoke, CloseCall, BeginParam,
     AwaitParam, EndParam, StreamValue, Continue, Return, stream
<1>3. CASE previous
  <2>1. Reading(d)' /\ previous'
    BY <1>1, <1>3, LoopReads
  <2>2. QED  BY <2>1 DEF Awaits
<1>4. CASE ~previous
  <2>1. ~previous' /\ phase' # "ended" /\ output' = output /\ fed' = fed
    BY <1>2, <1>4
  <2>2. Reading(d)'
    BY <2>1 DEF Reading
  <2>3. Awaits(d)'
    BY <1>1, <1>4, <2>1 DEF Awaits
  <2>4. QED  BY <2>2, <2>3
<1>5. QED  BY <1>3, <1>4

\* At the end all has been read.
LEMMA EndOfStreamReads ==
    ASSUME ToolInv, NEW d, Reading(d), Awaits(d), EndOfStream
    PROVE  Reading(d)' /\ Awaits(d)'
<1>1. phase = "idle" /\ fed = Len(TextOf(output)) /\ phase' = "ended"
      /\ output' = output /\ previous' = previous /\ fed' = fed /\ calls' = calls
  BY DEF EndOfStream, stream
<1>2. WellFormed(output, d) /\ fed \in Nat
  BY DEF Reading, ToolInv
<1>3. previous
  BY GivenAtEnd
<1>4. ~(fed < Len(TextOf(output)))
  BY <1>1, <1>2
<1>5. ReadAll(d)
  BY <1>1, <1>3, <1>4 DEF Reading
<1>6. calls' = CallsIn(d)
  BY <1>1, <1>5 DEF ReadAll
<1>7. Reading(d)'
  BY <1>1, <1>2, <1>6 DEF Reading
<1>8. QED  BY <1>1, <1>7 DEF Awaits

\* Nor does it lose its place when it does not move.
LEMMA SameReads ==
    ASSUME NEW d, Reading(d), Awaits(d), UNCHANGED vars
    PROVE  Reading(d)' /\ Awaits(d)'
<1>1. UNCHANGED <<output, fed, previous, phase, buffer, inCalls, calls, active, param>>
  BY DEF vars, stream, parser
<1>2. Left' = Left
  BY <1>1 DEF Left
<1>3. previous /\ phase # "ended" => Progress(d)'
  BY <1>1, <1>2, ProgressSame DEF Reading
<1>4. ReadAll(d) => ReadAll(d)'
  BY <1>1, <1>2 DEF ReadAll
<1>5. Reading(d)'
  BY <1>1, <1>3, <1>4 DEF Reading
<1>6. QED  BY <1>1, <1>5 DEF Awaits

\* The start of a stream, when nothing of it has been given.
LEMMA FirstReads ==
    ASSUME NEW d, output \in Outputs, WellFormed(output, d), fed = 0, ~previous, phase = "idle"
    PROVE  Reading(d) /\ Awaits(d)
<1>1. OpenerAhead(From(TextOf(output), fed), output, d)
  BY AwaitsFirst
<1>2. QED  BY <1>1 DEF Reading, Awaits

\* The invariant.
ReadInv == ToolInv /\ \E d : Reading(d) /\ Awaits(d)

\* The invariant holds of a parser that has been given nothing.
LEMMA ReadInitInv ==
    ASSUME WellFormedOutputs, Init
    PROVE  ReadInv
<1>1. ToolInv
  BY ToolInitInv
<1>2. output \in Outputs /\ fed = 0 /\ ~previous /\ phase = "idle"
  BY DEF Init
<1>3. PICK d : WellFormed(output, d)
  BY <1>2 DEF WellFormedOutputs
<1>4. Reading(d) /\ Awaits(d)
  BY <1>2, <1>3, FirstReads
<1>5. QED  BY <1>1, <1>4 DEF ReadInv

\* It is inductive: each action reads on in the output that is streamed.
LEMMA ReadNextInv ==
    ASSUME WellFormedOutputs, ReadInv, [Next]_vars
    PROVE  ReadInv'
<1>1. ToolInv /\ ToolInv'
  BY NextInv DEF ReadInv
<1>2. PICK d : Reading(d) /\ Awaits(d)
  BY DEF ReadInv
<1>3. CASE NewStream
  <2>1. output' \in Outputs /\ fed' = 0 /\ ~previous' /\ phase' = "idle"
    BY <1>3 DEF NewStream
  <2>2. PICK e : WellFormed(output', e)
    BY <2>1 DEF WellFormedOutputs
  <2>3. Reading(e)' /\ Awaits(e)'
    <3>1. OpenerAhead(From(TextOf(output'), fed'), output', e)
      BY <2>1, <2>2, AwaitsFirst
    <3>2. QED  BY <2>1, <2>2, <3>1 DEF Reading, Awaits
  <2>4. QED  BY <1>1, <2>3 DEF ReadInv
<1>4. CASE Feed
  <2>1. Reading(d)' /\ previous'
    BY <1>1, <1>2, <1>4, FeedReads
  <2>2. QED  BY <1>1, <2>1 DEF ReadInv, Awaits
<1>5. CASE ProcessStep
  BY <1>1, <1>2, <1>5, RoundReads DEF ReadInv
<1>6. CASE EndOfStream
  BY <1>1, <1>2, <1>6, EndOfStreamReads DEF ReadInv
<1>7. CASE UNCHANGED vars
  BY <1>1, <1>2, <1>7, SameReads DEF ReadInv
<1>8. QED  BY <1>3, <1>4, <1>5, <1>6, <1>7 DEF Next

\* The one-shot parser.
THEOREM ToolHeadlessSame == OneOpener => (Spec => []HeadlessSame)
<1> SUFFICES ASSUME OneOpener PROVE Spec => []HeadlessSame
  OBVIOUS
<1>1. ToolInv => HeadlessSame
  <2> SUFFICES ASSUME ToolInv, Len(output.opener) >= Len(Headless)
               PROVE  ExtractToolCalls(TextOf(output)) = OneShotCalls[output]
    BY DEF HeadlessSame
  <2>1. output \in Outputs /\ Opens(output)
    BY DEF ToolInv, OneOpener
  <2>2. QED  BY <2>1, HeadlessRead
<1>2. QED  BY <1>1, ToolInitInv, NextInv, PTL DEF Spec

\* At the end of a stream the calls are those of the one-shot parser, for every
\* well-formed output and every cut of it into deltas (StreamAgrees; lines 214-216
\* and 448-460).  No call of such an output gives a parameter twice: streaming
\* would send both, and the dict of lines 151-157 keeps the last.
THEOREM ToolStreamAgrees == WellFormedOutputs => (Spec => []StreamAgrees)
<1> SUFFICES ASSUME WellFormedOutputs PROVE Spec => []StreamAgrees
  OBVIOUS
<1>1. Init => ReadInv
  BY ReadInitInv
<1>2. ReadInv /\ [Next]_vars => ReadInv'
  BY ReadNextInv
<1>3. ReadInv => StreamAgrees
  <2> SUFFICES ASSUME ReadInv, phase = "ended" PROVE calls = OneShotCalls[output]
    BY DEF StreamAgrees
  <2>1. PICK d : Reading(d)
    BY DEF ReadInv
  <2>2. output \in Outputs /\ WellFormed(output, d) /\ calls = CallsIn(d)
    BY <2>1 DEF ReadInv, ToolInv, Reading
  <2>3. QED  BY <2>2, OneShotIs
<1>4. QED  BY <1>1, <1>2, <1>3, PTL DEF Spec

-----------------------------------------------------------------------------
(* What has been sent is a prefix of what will have been.                  *)

\* y is x, and more.
Grows(S, x, y) ==
    /\ x \in Seq(S) /\ y \in Seq(S) /\ Len(x) =< Len(y)
    /\ \A i \in 1 .. Len(x) : x[i] = y[i]

\* What grows begins with what it was.
LEMMA GrowsPrefix ==
    ASSUME NEW S, NEW x, NEW y, Grows(S, x, y)
    PROVE  IsPrefix(x, y)
<1>1. x \in Seq(S) /\ y \in Seq(S) /\ Len(x) =< Len(y) /\ Len(x) \in Nat /\ Len(y) \in Nat
      /\ \A i \in 1 .. Len(x) : x[i] = y[i]
  BY DEF Grows
<1> DEFINE n == Len(x)
           u == SubSeq(x, 1, n)
           w == SubSeq(y, 1, n)
<1>2. n \in 0 .. Len(x) /\ n \in 0 .. Len(y)
  BY <1>1
<1>3. u \in Seq(S) /\ Len(u) = n /\ \A i \in 1 .. n : u[i] = x[i]
  <2> HIDE DEF n
  <2>1. QED  BY <1>1, <1>2, Slices DEF Before
<1>4. w \in Seq(S) /\ Len(w) = n /\ \A i \in 1 .. n : w[i] = y[i]
  <2> HIDE DEF n
  <2>1. QED  BY <1>1, <1>2, Slices DEF Before
<1>5. u = w
  <2>1. \A i \in 1 .. n : u[i] = w[i]
    BY <1>1, <1>3, <1>4
  <2> HIDE DEF u, w, n
  <2>2. QED  BY <1>3, <1>4, <2>1, SameSequence
<1>6. QED  BY <1>1, <1>5 DEF IsPrefix

\* Growing is transitive.
LEMMA GrowsOn ==
    ASSUME NEW S, NEW x, NEW y, NEW z, Grows(S, x, y), Grows(S, y, z)
    PROVE  Grows(S, x, z)
<1>1. x \in Seq(S) /\ y \in Seq(S) /\ z \in Seq(S) /\ Len(x) =< Len(y) /\ Len(y) =< Len(z)
      /\ Len(x) \in Nat /\ Len(y) \in Nat /\ Len(z) \in Nat
  BY DEF Grows
<1>2. /\ \A i \in 1 .. Len(x) : x[i] = y[i]
      /\ \A i \in 1 .. Len(y) : y[i] = z[i]
  BY DEF Grows
<1>3. ASSUME NEW i \in 1 .. Len(x) PROVE x[i] = z[i]
  <2>1. i \in 1 .. Len(y)
    BY <1>1
  <2>2. QED  BY <1>2, <2>1
<1>4. Len(x) =< Len(z)
  BY <1>1
<1>5. QED  BY <1>1, <1>3, <1>4 DEF Grows

\* A txt grows by what is put behind it.
LEMMA GrowsBy ==
    ASSUME NEW S, NEW x \in Seq(S), NEW y \in Seq(S), NEW z, Makes(x, y, z)
    PROVE  Grows(S, x, z)
<1> DEFINE w == x \o y
<1>1. w \in Seq(S) /\ Len(w) = Len(x) + Len(y) /\ \A i \in 1 .. Len(x) : w[i] = x[i]
  BY Joined
<1>2. z = w
  BY DEF Makes
<1> HIDE DEF w
<1>3. Len(x) \in Nat /\ Len(y) \in Nat
  OBVIOUS
<1>4. QED  BY <1>1, <1>2, <1>3 DEF Grows

\* A txt that stays has grown.
LEMMA GrowsNot ==
    ASSUME NEW S, NEW x \in Seq(S)
    PROVE  Grows(S, x, x)
BY DEF Grows

\* The arguments of a call after some of its parameters.
LEMMA ArgsGrow ==
    ASSUME NEW S, NEW c, CallIn(S, c), NEW i \in 0 .. Len(c.params)
    PROVE  Grows(S, ArgsAfter(c, i), ArgsAfter(c, Len(c.params)))
<1> DEFINE e == EntryTexts(c)
           n == Len(c.params)
           T == Seq(S)
<1>1. e \in Seq(T) /\ Len(e) = n /\ n \in Nat /\ i \in 0 .. Len(e)
  BY EntriesTyped, ParamsTyped
<1>2. ArgsAfter(c, i) = FlattenSeq(Before(e, i)) /\ ArgsAfter(c, n) = FlattenSeq(Before(e, Len(e)))
  BY <1>1 DEF ArgsAfter
<1> HIDE DEF e, n
<1>3. /\ Before(e, i) \in Seq(T) /\ From(e, i) \in Seq(T)
      /\ Makes(Before(e, i), From(e, i), e)
  <2> HIDE DEF T
  <2>1. /\ Before(e, i) \in Seq(T) /\ From(e, i) \in Seq(T) /\ Before(e, i) \o From(e, i) = e
    BY <1>1, Slices
  <2>2. QED  BY <2>1 DEF Makes
<1>4. Before(e, Len(e)) = e
  BY <1>1, FlattenEnds DEF T
<1> DEFINE u == Before(e, i)
           v == From(e, i)
<1>5. Makes(FlattenSeq(u), FlattenSeq(v), FlattenSeq(e))
      /\ FlattenSeq(u) \in Seq(S) /\ FlattenSeq(v) \in Seq(S)
  <2>1. u \in Seq(T) /\ v \in Seq(T) /\ Makes(u, v, e)
    BY <1>3
  <2> HIDE DEF u, v
  <2>2. FlattenSeq(u \o v) = FlattenSeq(u) \o FlattenSeq(v)
    BY <2>1, FlattenJoins DEF T
  <2> DEFINE w == u \o v
  <2>3. w = e
    BY <2>1 DEF Makes
  <2>4. FlattenSeq(w) = FlattenSeq(u) \o FlattenSeq(v)
    BY <2>2
  <2> HIDE DEF w
  <2>5. FlattenSeq(e) = FlattenSeq(u) \o FlattenSeq(v)
    BY <2>3, <2>4
  <2>6. FlattenSeq(u) \in Seq(S) /\ FlattenSeq(v) \in Seq(S)
    BY <2>1, FlattenTyped DEF T
  <2>7. QED  BY <2>5, <2>6 DEF Makes
<1>6. Grows(S, FlattenSeq(u), FlattenSeq(e))
  BY <1>5, GrowsBy
<1>7. QED  BY <1>2, <1>4, <1>6 DEF n

\* The call that is closed begins with them.
LEMMA ClosedGrows ==
    ASSUME NEW S, Marks \subseteq S, NEW x, NEW y, Grows(S, x, y)
    PROVE  Grows(S, x, Closed(y)) /\ Closed(y) \in Seq(S)
<1>1. x \in Seq(S) /\ y \in Seq(S) /\ Len(x) =< Len(y) /\ Len(x) \in Nat /\ Len(y) \in Nat
      /\ \A i \in 1 .. Len(x) : x[i] = y[i]
  BY DEF Grows
<1>2. "{" \in S /\ "}" \in S
  BY Zenon DEF Marks
<1>3. CASE y = <<>>
  <2> DEFINE two == <<"{", "}">>
  <2>1. Closed(y) = two
    BY <1>3 DEF Closed
  <2>2. two \in Seq(S) /\ Len(two) = 2
    BY <1>2, TwoPieces, Zenon
  <2>3. Len(x) = 0
    BY <1>1, <1>3
  <2> HIDE DEF two
  <2>4. QED  BY <1>1, <2>1, <2>2, <2>3 DEF Grows
<1>4. CASE y # <<>>
  <2> DEFINE z == Append(y, "}")
  <2>1. z \in Seq(S) /\ Len(z) = Len(y) + 1 /\ \A i \in 1 .. Len(y) : z[i] = y[i]
    <3> DEFINE brace == "}"
    <3>1. brace \in S
      BY <1>2, Zenon
    <3> HIDE DEF brace
    <3>2. Append(y, brace) \in Seq(S) /\ Len(Append(y, brace)) = Len(y) + 1
          /\ \A i \in 1 .. Len(y) : Append(y, brace)[i] = y[i]
      BY <1>1, <3>1, AppendProperties
    <3>3. QED  BY <3>2, Zenon DEF brace
  <2>2. Closed(y) = z
    BY <1>4, Zenon DEF Closed
  <2> HIDE DEF z
  <2>3. QED  BY <1>1, <2>1, <2>2 DEF Grows
<1>5. QED  BY <1>3, <1>4

\* The arguments so far of the call under way.
LEMMA SendingGrows ==
    ASSUME NEW S, NEW d, NEW j, NEW i, NEW k, Being(S, d, j, i, k)
    PROVE  \E args : UnderWay(d, j, args) /\ Grows(S, args, ArgsAfter(d.calls[j], i))
<1> DEFINE c == d.calls[j]
           p == c.params[i]
           key == p.key
           txt == p.text
           args == ArgsAfter(c, i - 1)
           pre == Prefix(args, key)
           raw == args \o pre
           q == <<QUOTE>>
           quoted == raw \o q
           all == ArgsAfter(c, i)
           v == Before(txt, k)
           x == From(txt, k)
<1>1. ParamOf(S, output, d, j, i) /\ Sending(d, j, i, v)
      /\ txt \in Seq(S) /\ k \in 0 .. Len(txt)
  BY Zenon DEF Being, ValueAt
<1>2. v \in Seq(S) /\ x \in Seq(S) /\ Makes(v, x, txt)
  <2> HIDE DEF txt
  <2>1. v \in Seq(S) /\ x \in Seq(S) /\ v \o x = txt
    BY <1>1, Slices
  <2>2. QED  BY <2>1 DEF Makes
<1>3. /\ args \in Seq(S) /\ pre \in Seq(S) /\ q \in Seq(S)
      /\ (key \in ObjectParams => txt = <<OBJECT>>)
  <2>1. args \in Seq(S) /\ pre \in Seq(S) /\ <<QUOTE>> \in Seq(S)
    BY <1>1, ParamFacts, Zenon
  <2>2. ObjectText(p)
    BY <1>1, ParamFacts, Zenon
  <2>3. QED  BY <2>1, <2>2, Zenon DEF ObjectText
<1>4. ~LoneWrapper(c) => all = Given(args, key, txt)
  BY <1>1, ArgsGiven
<1>5. LoneWrapper(c) => key \in Wrappers /\ i = 1
  <2>1. i \in 1 .. Len(c.params)
    BY <1>1 DEF ParamOf
  <2>2. QED  BY <2>1 DEF LoneWrapper
<1>6. raw \in Seq(S) /\ quoted \in Seq(S)
  <2> HIDE DEF args, pre, q
  <2>1. raw \in Seq(S)
    BY <1>3, Joined
  <2> HIDE DEF raw
  <2>2. QED  BY <1>3, <2>1, Joined
<1>7. /\ key \in ObjectParams => Given(args, key, txt) = RawSent(args, key, v, x)
      /\ key \notin ScalarParams \cup ObjectParams => Given(args, key, txt) = QuotedSent(args, key, v, x)
  <2> HIDE DEF args, key, txt, v, x
  <2>1. /\ key \in ObjectParams /\ txt = <<OBJECT>> => Given(args, key, txt) = RawSent(args, key, v, x)
        /\ key \notin ScalarParams \cup ObjectParams =>
             Given(args, key, txt) = QuotedSent(args, key, v, x)
    BY <1>2, <1>3, AllGiven
  <2>2. QED  BY <1>3, <2>1
<1>8. Grows(S, args, all)
  <2>1. CallIn(S, c) /\ i \in 1 .. Len(c.params)
    <3>1. CallOf(S, output, d, j) /\ i \in 1 .. Len(c.params)
      BY <1>1 DEF ParamOf
    <3>2. QED  BY <3>1, NoArgsYet
  <2>2. all = args \o EntryTexts(c)[i] /\ EntryTexts(c)[i] \in Seq(S)
    BY <2>1, ArgsNext
  <2>3. Makes(args, EntryTexts(c)[i], all)
    BY <2>2 DEF Makes
  <2> HIDE DEF args, all
  <2>4. QED  BY <1>3, <2>2, <2>3, GrowsBy
<1>9. ASSUME NEW old \in Seq(S), Makes(old, v, old \o v), all = (old \o v) \o x
      PROVE  Grows(S, old \o v, all)
  <2> DEFINE sent == old \o v
  <2>1. sent \in Seq(S)
    <3> HIDE DEF v
    <3>1. QED  BY <1>2, <1>9, Joined, ZenonT(40)
  <2>2. Makes(sent, x, all)
    BY <1>9 DEF Makes
  <2> HIDE DEF sent, all, x
  <2>3. Grows(S, sent, all)
    BY <1>2, <2>1, <2>2, GrowsBy
  <2>4. QED  BY <2>3, Zenon DEF sent
<1>10. CASE UnderWay(d, j, args)
  BY <1>8, <1>10
<1>11. CASE /\ param = [name |-> key, mode |-> "raw", parts |-> <<>>]
            /\ key \in ObjectParams
            /\ UnderWay(d, j, raw \o v)
  <2>1. ~LoneWrapper(c)
    BY <1>5, <1>11, ParamsAssumption, Zenon
  <2>2. all = (raw \o v) \o x
    BY <1>4, <1>7, <1>11, <2>1, Zenon DEF RawSent
  <2>3. Grows(S, raw \o v, all)
    <3> HIDE DEF raw, v, x, all
    <3>1. Makes(raw, v, raw \o v)
      BY DEF Makes
    <3>2. QED  BY <1>6, <1>9, <2>2, <3>1
  <2>4. QED  BY <1>11, <2>3
<1>12. CASE /\ param = [name |-> key, mode |-> "string", parts |-> <<>>]
            /\ key \notin ScalarParams \cup ObjectParams
            /\ ~(i = 1 /\ key \in Wrappers)
            /\ UnderWay(d, j, quoted \o v)
  <2> DEFINE sent == quoted \o v
             more == sent \o x
  <2>1. ~LoneWrapper(c)
    BY <1>5, <1>12, Zenon
  <2>2. all = more \o q
    BY <1>4, <1>7, <1>12, <2>1, Zenon DEF QuotedSent
  <2>3. sent \in Seq(S)
    <3> HIDE DEF quoted, v
    <3>1. QED  BY <1>2, <1>6, Joined
  <2>4. more \in Seq(S) /\ Makes(sent, x, more)
    <3> HIDE DEF sent, x
    <3>1. more \in Seq(S)
      BY <1>2, <2>3, Joined, Zenon
    <3>2. QED  BY <3>1 DEF Makes
  <2>5. Makes(more, q, all)
    BY <2>2, Zenon DEF Makes
  <2> HIDE DEF sent, more, q, x, all
  <2>6. Grows(S, sent, more) /\ Grows(S, more, all)
    BY <1>2, <1>3, <2>3, <2>4, <2>5, GrowsBy
  <2>7. Grows(S, sent, all)
    BY <2>6, GrowsOn
  <2>8. UnderWay(d, j, sent)
    BY <1>12 DEF sent
  <2>9. QED  BY <2>7, <2>8 DEF all
<1>13. QED  BY <1>1, <1>10, <1>11, <1>12, Zenon DEF Sending

\* The calls so far are those of the output, of the last one a part.
Sofar(d) ==
    /\ Len(calls) =< Len(CallsIn(d))
    /\ \A j \in DOMAIN calls :
         /\ calls[j].name = CallsIn(d)[j].name
         /\ IsPrefix(calls[j].args, CallsIn(d)[j].args)

\* Every call of a derivation, by its number.
LEMMA CallWhole ==
    ASSUME NEW S, NEW o, NEW d, NEW j, CallOf(S, o, d, j)
    PROVE  /\ CallsIn(d)[j].name = d.calls[j].name
           /\ CallsIn(d)[j].args = Closed(ArgsAfter(d.calls[j], Len(d.calls[j].params)))
           /\ \A i \in 0 .. Len(d.calls[j].params) :
                Grows(S, ArgsAfter(d.calls[j], i), CallsIn(d)[j].args)
           /\ IsPrefix(CallsIn(d)[j].args, CallsIn(d)[j].args)
<1> DEFINE c == d.calls[j]
           whole == Closed(ArgsAfter(c, Len(c.params)))
<1>1. OutputIn(S, o, d) /\ j \in 1 .. Len(d.calls) /\ CallIn(S, c) /\ Len(c.params) \in Nat
  BY NoArgsYet DEF CallOf
<1>2. CallsIn(d)[j] = WholeCall(c)
  BY <1>1, CallsInAre
<1>3. CallsIn(d)[j].name = c.name /\ CallsIn(d)[j].args = whole
  BY <1>2 DEF WholeCall
<1>4. Marks \subseteq S
  BY <1>1 DEF OutputIn
<1> HIDE DEF c
<1>5. ASSUME NEW i \in 0 .. Len(c.params)
      PROVE  Grows(S, ArgsAfter(c, i), whole) /\ whole \in Seq(S)
  <2>1. Grows(S, ArgsAfter(c, i), ArgsAfter(c, Len(c.params)))
    BY <1>1, <1>5, ArgsGrow
  <2>2. QED  BY <1>4, <2>1, ClosedGrows
<1>6. whole \in Seq(S)
  BY <1>1, <1>5
<1> HIDE DEF whole
<1>7. IsPrefix(whole, whole)
  BY <1>6, GrowsNot, GrowsPrefix
<1>8. QED  BY <1>3, <1>5, <1>7 DEF c, whole

\* Between two calls all of them are whole.
LEMMA BeforeSofar ==
    ASSUME NEW S, NEW d, OutputIn(S, output, d), NEW j \in 0 .. Len(d.calls),
           calls = Before(CallsIn(d), j)
    PROVE  Sofar(d)
<1> DEFINE s == CallsIn(d)
<1>1. PICK T : s \in Seq(T) /\ Len(s) = Len(d.calls) /\ Len(d.calls) \in Nat
  BY CallsInAre
<1>2. \A i \in 1 .. Len(d.calls) : IsPrefix(s[i].args, s[i].args)
  <2> TAKE i \in 1 .. Len(d.calls)
  <2>1. CallOf(S, output, d, i)
    BY DEF CallOf
  <2>2. QED  BY <2>1, CallWhole
<1> HIDE DEF s
<1>3. calls \in Seq(T) /\ Len(calls) = j /\ \A i \in 1 .. j : calls[i] = s[i]
  <2>1. j \in 0 .. Len(s) /\ calls = Before(s, j)
    BY <1>1 DEF s
  <2>2. Before(s, j) \in Seq(T) /\ Len(Before(s, j)) = j /\ \A i \in 1 .. j : Before(s, j)[i] = s[i]
    BY <1>1, <2>1, Slices
  <2>3. QED  BY <2>1, <2>2
<1>4. Len(calls) =< Len(s) /\ DOMAIN calls = 1 .. j
  BY <1>1, <1>3
<1>5. \A i \in 1 .. j : i \in 1 .. Len(d.calls)
  BY <1>1
<1>6. QED  BY <1>2, <1>3, <1>4, <1>5 DEF Sofar, s

\* In a call it is the last one, and has some of its arguments.
LEMMA StartedSofar ==
    ASSUME NEW S, NEW d, NEW j, CallOf(S, output, d, j), NEW args, UnderWay(d, j, args),
           Grows(S, args, CallsIn(d)[j].args)
    PROVE  Sofar(d)
<1> DEFINE s == CallsIn(d)
           u == Before(s, j - 1)
           call == [name |-> d.calls[j].name, args |-> args]
<1>1. OutputIn(S, output, d) /\ j \in 1 .. Len(d.calls)
  BY DEF CallOf
<1>2. PICK T : s \in Seq(T) /\ Len(s) = Len(d.calls) /\ Len(d.calls) \in Nat
  BY <1>1, CallsInAre
<1>3. \A i \in 1 .. Len(d.calls) : IsPrefix(s[i].args, s[i].args)
  <2> TAKE i \in 1 .. Len(d.calls)
  <2>1. CallOf(S, output, d, i)
    BY <1>1 DEF CallOf
  <2>2. QED  BY <2>1, CallWhole
<1>4. calls = Append(u, call)
  BY DEF UnderWay, Started
<1>5. call.name = s[j].name /\ IsPrefix(call.args, s[j].args)
  <2>1. s[j].name = d.calls[j].name
    BY CallWhole
  <2>2. IsPrefix(args, s[j].args)
    BY GrowsPrefix
  <2>3. QED  BY <2>1, <2>2
<1> DEFINE p == j - 1
<1>6. p \in 0 .. Len(s) /\ p + 1 = j /\ p \in Nat /\ j =< Len(s)
  BY <1>1, <1>2
<1> HIDE DEF s, call, p
<1>7. Before(s, p) \in Seq(T) /\ Len(Before(s, p)) = p /\ \A i \in 1 .. p : Before(s, p)[i] = s[i]
  BY <1>2, <1>6, Slices
<1> DEFINE w == Before(s, p)
           V == T \cup {call}
<1>8. calls = Append(w, call)
  BY <1>4 DEF p
<1>9. w \in Seq(V) /\ call \in V /\ Len(w) = p /\ \A i \in 1 .. p : w[i] = s[i]
  BY <1>7
<1> HIDE DEF w, V
<1>10. /\ calls \in Seq(V) /\ Len(calls) = p + 1 /\ calls[p + 1] = call
       /\ \A i \in 1 .. p : calls[i] = w[i]
  <2>1. /\ Append(w, call) \in Seq(V) /\ Len(Append(w, call)) = Len(w) + 1
        /\ Append(w, call)[Len(w) + 1] = call
        /\ \A i \in 1 .. Len(w) : Append(w, call)[i] = w[i]
    BY <1>9, AppendProperties
  <2>2. QED  BY <1>8, <1>9, <2>1
<1>11. Len(calls) =< Len(s) /\ DOMAIN calls = 1 .. j
  BY <1>6, <1>10
<1>12. ASSUME NEW i \in 1 .. j
       PROVE  calls[i].name = s[i].name /\ IsPrefix(calls[i].args, s[i].args)
  <2>1. CASE i = j
    BY <1>5, <1>6, <1>10, <2>1
  <2>2. CASE i # j
    <3>1. i \in 1 .. p /\ i \in 1 .. Len(d.calls)
      BY <1>2, <1>6, <2>2
    <3>2. calls[i] = s[i]
      BY <1>9, <1>10, <3>1
    <3>3. QED  BY <1>3, <3>1, <3>2
  <2>3. QED  BY <2>1, <2>2
<1>13. QED  BY <1>11, <1>12 DEF Sofar, s

\* Wherever the parser is in an output, what it has sent is the beginning of
\* what it is to send.
LEMMA ProgressSofar ==
    ASSUME NEW S, NEW d, Sit(S, d), Progress(d)
    PROVE  Sofar(d)
<1>1. OutputIn(S, output, d)
  BY DEF Sit
<1>2. PICK T : /\ CallsIn(d) \in Seq(T) /\ Len(CallsIn(d)) = Len(d.calls)
               /\ Before(CallsIn(d), 0) = <<>>
               /\ Before(CallsIn(d), Len(d.calls)) = CallsIn(d)
               /\ Len(d.calls) \in Nat
  BY <1>1, CallsInAre
<1>3. CASE Opening(d)
  <2>1. calls = Before(CallsIn(d), 0) /\ 0 \in 0 .. Len(d.calls)
    BY <1>2, <1>3 DEF Opening
  <2>2. QED  BY <1>1, <2>1, BeforeSofar
<1>4. CASE Between(d)
  BY <1>1, <1>4, BeforeSofar DEF Between
<1>5. CASE WithinCall(d)
  <2>1. PICK j \in 1 .. Len(d.calls) : \E i \in 0 .. Len(d.calls[j].params) :
               UnderWay(d, j, ArgsAfter(d.calls[j], i))
    BY <1>5 DEF WithinCall
  <2>2. PICK i \in 0 .. Len(d.calls[j].params) : UnderWay(d, j, ArgsAfter(d.calls[j], i))
    BY <2>1
  <2>3. CallOf(S, output, d, j)
    BY <1>1 DEF CallOf
  <2>4. Grows(S, ArgsAfter(d.calls[j], i), CallsIn(d)[j].args)
    BY <2>3, CallWhole
  <2>5. QED  BY <2>2, <2>3, <2>4, StartedSofar
<1>6. CASE InValue(d)
  <2>1. PICK j \in 1 .. Len(d.calls) : \E i \in 1 .. Len(d.calls[j].params) :
               \E k \in 0 .. Len(d.calls[j].params[i].text) : Being(S, d, j, i, k)
    BY <1>6, ValueIs
  <2>2. PICK i \in 1 .. Len(d.calls[j].params) :
               \E k \in 0 .. Len(d.calls[j].params[i].text) : Being(S, d, j, i, k)
    BY <2>1
  <2>3. PICK k : Being(S, d, j, i, k)
    BY <2>2
  <2>4. PICK args : UnderWay(d, j, args) /\ Grows(S, args, ArgsAfter(d.calls[j], i))
    BY <2>3, SendingGrows
  <2>5. CallOf(S, output, d, j)
    BY <1>1 DEF CallOf
  <2>6. i \in 0 .. Len(d.calls[j].params)
    BY <2>2
  <2>7. Grows(S, ArgsAfter(d.calls[j], i), CallsIn(d)[j].args)
    BY <2>5, <2>6, CallWhole
  <2>8. Grows(S, args, CallsIn(d)[j].args)
    BY <2>4, <2>7, GrowsOn
  <2>9. QED  BY <2>4, <2>5, <2>8, StartedSofar
<1>7. CASE ReadAll(d)
  <2>1. calls = Before(CallsIn(d), Len(d.calls)) /\ Len(d.calls) \in 0 .. Len(d.calls)
    BY <1>2, <1>7 DEF ReadAll
  <2>2. QED  BY <1>1, <2>1, BeforeSofar
<1>8. QED  BY <1>3, <1>4, <1>5, <1>6, <1>7 DEF Progress

\* ArgumentsGrow (lines 340-377): the arguments a client has been sent are a
\* prefix of those of the whole output, so none is ever taken back.  The output
\* is well formed, with no parameter given twice in a call.
THEOREM ToolArgumentsGrow == WellFormedOutputs => (Spec => []ArgumentsGrow)
<1> SUFFICES ASSUME WellFormedOutputs PROVE Spec => []ArgumentsGrow
  OBVIOUS
<1>1. Init => ReadInv
  BY ReadInitInv
<1>2. ReadInv /\ [Next]_vars => ReadInv'
  BY ReadNextInv
<1>3. ReadInv => ArgumentsGrow
  <2> SUFFICES ASSUME ReadInv, phase = "idle", previous PROVE ArgumentsGrow
    BY DEF ArgumentsGrow
  <2>1. PICK d : Reading(d)
    BY DEF ReadInv
  <2>2. output \in Outputs /\ WellFormed(output, d) /\ Progress(d) /\ ToolInv
    BY <2>1 DEF ReadInv, ToolInv, Reading
  <2>3. Sofar(d)
    BY <2>2, SitOf, ProgressSofar
  <2>4. OneShotCalls[output] = CallsIn(d)
    BY <2>2, OneShotIs
  <2>5. QED  BY <2>3, <2>4 DEF ArgumentsGrow, Sofar
<1>4. QED  BY <1>1, <1>2, <1>3, PTL DEF Spec

-----------------------------------------------------------------------------
(* The reasoning parser in front.                                          *)

\* The reasoning parser has its own copy of the operators of DsmlSplit.
LEMMA SameOperators ==
    ASSUME NEW t, NEW s
    PROVE  /\ R!Before(t, s) = Before(t, s) /\ R!From(t, s) = From(t, s)
           /\ R!Find(t, s) = Find(t, s)
           /\ R!FlattenSeq(t) = FlattenSeq(t)
           /\ R!Split(t) = Split(t)
           /\ R!FilterThinkClose(s, t) = FilterThinkClose(s, t)
           /\ R!ThinkClose = ThinkClose
<1>1. R!Find(t, s) = Find(t, s) /\ R!Before(t, s) = Before(t, s) /\ R!From(t, s) = From(t, s)
  BY DEF R!Find, Find, R!Occurrences, Occurrences, R!Min, Min, R!Before, Before, R!From, From
<1>2. R!FlattenSeq(t) = FlattenSeq(t)
  BY ZenonT(40) DEF R!FlattenSeq, FlattenSeq
<1>3. R!Split(t) = Split(t)
  BY Zenon DEF R!Split, Split, R!FirstFound, FirstFound, R!ToolStartTags, ToolStartTags,
     R!HeadlessTags, HeadlessTags, R!AllTags, AllTags, R!TrailingPartialTagLen,
     TrailingPartialTagLen, R!TrailingPartial, TrailingPartial, R!Repaired, Repaired,
     R!Find, Find, R!Occurrences, Occurrences, R!Min, Min, R!Max, Max, R!Before, Before,
     R!From, From, R!IsSuffix, IsSuffix, R!IsPrefix, IsPrefix, R!Reverse, Reverse,
     R!LT, LT, R!DSML, DSML, R!CALLS, CALLS, R!FUNCS, FUNCS
<1>4. R!FilterThinkClose(s, t) = FilterThinkClose(s, t)
  BY Zenon DEF R!FilterThinkClose, FilterThinkClose, R!WithoutClose, WithoutClose,
     R!TrailingPartial, TrailingPartial, R!FlattenSeq, FlattenSeq, R!ThinkClose, ThinkClose,
     R!Occurrences, Occurrences, R!Max, Max, R!Before, Before, R!From, From,
     R!IsSuffix, IsSuffix, R!IsPrefix, IsPrefix, R!Reverse, Reverse,
     R!LT, LT, R!CLOSE, CLOSE
<1>5. R!ThinkClose = ThinkClose
  BY DEF R!ThinkClose, ThinkClose, R!LT, LT, R!CLOSE, CLOSE
<1>6. QED  BY <1>1, <1>2, <1>3, <1>4, <1>5

\* A token of a delta: a piece of text, or the end tag, which is text once told.
Tokens == Pieces \cup {R!END}

PipeInv ==
    /\ ToolInv
    /\ thinking \in BOOLEAN
    /\ thoughts \in {<<>>} \cup Thoughts
    /\ ahead \in 0 .. Len(thoughts)
    /\ text \in Seq(Pieces) /\ pending \in Seq(Pieces)
    /\ reasoning \in Seq(Pieces) /\ toContent \in Seq(Pieces)

\* Thoughts are tokens.
LEMMA ThoughtTyped ==
    ASSUME NEW t \in {<<>>} \cup Thoughts
    PROVE  t \in Seq(Tokens)
<1>1. <<>> \in Seq(Tokens)
  OBVIOUS
<1>2. ASSUME t \in Thoughts PROVE t \in Seq(Tokens)
  <2>1. t \in Seq({WORD, R!END})
    BY <1>2, ThoughtsAssumption
  <2>2. {WORD, R!END} \subseteq Tokens
    BY DEF Tokens, Pieces
  <2>3. QED  BY <2>1, <2>2
<1>3. QED  BY <1>1, <1>2

\* The text of a delta is of pieces.
LEMMA TokensTyped ==
    ASSUME NEW d \in Seq(Tokens)
    PROVE  R!DeltaText(d) \in Seq(Pieces)
<1> DEFINE textOf(token) == IF token = R!END THEN R!ThinkClose ELSE <<token>>
           texts == [i \in DOMAIN d |-> textOf(d[i])]
<1>1. DOMAIN d = 1 .. Len(d) /\ Len(d) \in Nat /\ \A i \in 1 .. Len(d) : d[i] \in Tokens
  OBVIOUS
<1>2. ThinkClose \in Seq(Pieces) /\ R!ThinkClose = ThinkClose
  BY SameOperators DEF ThinkClose, Pieces
<1>3. \A i \in 1 .. Len(d) : textOf(d[i]) \in Seq(Pieces)
  BY <1>1, <1>2 DEF Tokens
<1>4. texts \in Seq(Seq(Pieces))
  <2> DEFINE bit(i) == textOf(d[i])
  <2>1. texts = [i \in 1 .. Len(d) |-> bit(i)]
    BY <1>1
  <2>2. \A i \in 1 .. Len(d) : bit(i) \in Seq(Pieces)
    BY <1>3
  <2> HIDE DEF bit, texts
  <2>3. QED  BY <1>1, <2>1, <2>2
<1>5. R!DeltaText(d) = R!FlattenSeq(texts)
  BY Zenon DEF R!DeltaText, R!TextOf
<1> HIDE DEF texts
<1>6. R!FlattenSeq(texts) = FlattenSeq(texts)
  BY SameOperators
<1>7. QED  BY <1>4, <1>5, <1>6, FlattenTyped

\* And so is what the upstream parser makes of it.
LEMMA UpstreamTyped ==
    ASSUME NEW d \in Seq(Tokens)
    PROVE  R!Upstream(d).reasoning \in Seq(Pieces) /\ R!Upstream(d).content \in Seq(Pieces)
<1> DEFINE new == R!DeltaText(d)
           p == R!Find(new, R!ThinkClose)
           close == p + Len(R!ThinkClose)
<1>1. new \in Seq(Pieces) /\ <<>> \in Seq(Pieces)
  BY TokensTyped
<1>2. p = Find(new, ThinkClose) /\ Len(R!ThinkClose) = 2
  BY SameOperators DEF ThinkClose
<1>3. p \in Int /\ p =< Len(new) /\ close \in Nat
  <2>1. ThinkClose \in Seq({LT, CLOSE}) /\ Len(ThinkClose) = 2
    BY DEF ThinkClose
  <2> HIDE DEF new
  <2>2. /\ Find(new, ThinkClose) \in Int
        /\ Find(new, ThinkClose) < 0 => Find(new, ThinkClose) = -1
        /\ Find(new, ThinkClose) >= 0 => Find(new, ThinkClose) + 2 \in 0 .. Len(new)
    BY <1>1, <2>1, FindIs
  <2>3. Len(new) \in Nat
    BY <1>1
  <2>4. QED  BY <1>2, <2>2, <2>3
<1>4. R!Before(new, p) \in Seq(Pieces) /\ R!From(new, close) \in Seq(Pieces)
  <2>1. R!Before(new, p) = Before(new, p) /\ R!From(new, close) = From(new, close)
    BY SameOperators
  <2> HIDE DEF new, p, close
  <2>2. QED  BY <1>1, <1>3, <2>1, SliceTyped
<1>5. R!Upstream(d) \in {R!Nothing, [reasoning |-> R!Before(new, p), content |-> R!From(new, close)],
                         [reasoning |-> <<>>, content |-> new], [reasoning |-> new, content |-> <<>>]}
  BY Zenon DEF R!Upstream
<1> HIDE DEF new, p, close
<1> DEFINE result == R!Upstream(d)
<1>6. \/ result = [reasoning |-> <<>>, content |-> <<>>]
      \/ result = [reasoning |-> R!Before(new, p), content |-> R!From(new, close)]
      \/ result = [reasoning |-> <<>>, content |-> new]
      \/ result = [reasoning |-> new, content |-> <<>>]
  BY <1>5 DEF R!Nothing
<1> HIDE DEF result
<1>7. PICK r \in Seq(Pieces), c \in Seq(Pieces) : result = [reasoning |-> r, content |-> c]
  BY <1>1, <1>4, <1>6, Zenon
<1>8. result.reasoning \in Seq(Pieces) /\ result.content \in Seq(Pieces)
  BY <1>7
<1>9. QED  BY <1>8 DEF result

\* What a step of the reasoning parser gives out.
LEMMA EmitTyped ==
    ASSUME PipeInv, NEW result, R!Emit(result),
           result.reasoning \in Seq(Pieces), result.content \in Seq(Pieces)
    PROVE  /\ pending' \in Seq(Pieces)
           /\ reasoning' \in Seq(Pieces) /\ toContent' \in Seq(Pieces)
           /\ From(toContent', Len(toContent)) \in Seq(Pieces)
<1>1. pending \in Seq(Pieces) /\ reasoning \in Seq(Pieces) /\ toContent \in Seq(Pieces)
  BY DEF PipeInv
<1>2. reasoning' = reasoning \o result.reasoning
  BY DEF R!Emit
<1>3. reasoning' \in Seq(Pieces)
  BY <1>1, <1>2
<1>4. pending' \in Seq(Pieces) /\ toContent' \in Seq(Pieces)
  <2>1. CASE result.content = <<>>
    <3>1. toContent' = toContent /\ pending' = pending
      BY <2>1 DEF R!Emit
    <3>2. QED  BY <1>1, <3>1
  <2>2. CASE result.content # <<>>
    <3> DEFINE filtered == R!FilterThinkClose(pending, result.content)
    <3>1. filtered = FilterThinkClose(pending, result.content)
      BY SameOperators
    <3>2. toContent' = toContent \o filtered.emit /\ pending' = filtered.pending
      BY <2>2, Zenon DEF R!Emit
    <3> HIDE DEF filtered
    <3>3. filtered.emit \in Seq(Pieces) /\ filtered.pending \in Seq(Pieces)
      BY <1>1, <3>1, FilterTyped
    <3>4. QED  BY <1>1, <3>2, <3>3
  <2>3. QED  BY <2>1, <2>2
<1>5. From(toContent', Len(toContent)) \in Seq(Pieces)
  <2>1. Len(toContent) \in Nat /\ Len(toContent') \in Nat
    BY <1>1, <1>4
  <2>2. 0 \in Int /\ 0 =< Len(toContent')
    BY <2>1
  <2>3. QED  BY <1>4, <2>1, <2>2, SliceTyped
<1>6. QED  BY <1>3, <1>4, <1>5

\* A delta of reasoning keeps the shape of both parsers.
LEMMA ThinkInv ==
    ASSUME PipeInv, Think
    PROVE  PipeInv'
<1> DEFINE tokens == thoughts \o TextOf(output)
           left == Len(thoughts) - ahead
<1>1. PICK n \in 1 .. MaxThink :
          LET delta == SubSeq(tokens, ahead + fed + 1, ahead + fed + n)
          IN  /\ ahead + fed + n =< Len(tokens)
              /\ R!Defer(delta) \/ R!SplitDelta(delta)
              /\ ahead' = ahead + Min({n, left})
              /\ fed' = fed + n - Min({n, left})
  BY DEF Think
<1> DEFINE delta == SubSeq(tokens, ahead + fed + 1, ahead + fed + n)
<1>2. /\ thoughts \in Seq(Tokens) /\ TextOf(output) \in Seq(Tokens)
      /\ text \in Seq(Pieces) /\ ahead \in 0 .. Len(thoughts)
      /\ fed \in 0 .. Len(TextOf(output))
  <2>1. TextOf(output) \in Seq(Pieces) /\ Pieces \subseteq Tokens
    BY OutputText DEF PipeInv, ToolInv, Tokens
  <2>2. QED  BY <2>1, ThoughtTyped DEF PipeInv, ToolInv
<1>3. /\ tokens \in Seq(Tokens) /\ Len(tokens) = Len(thoughts) + Len(TextOf(output))
      /\ Len(thoughts) \in Nat /\ Len(TextOf(output)) \in Nat
  BY <1>2, ConcatProperties
<1>4. n \in Nat \ {0} /\ left \in Nat /\ ahead \in Nat /\ fed \in Nat
  BY <1>2, <1>3, ThoughtsAssumption
<1>5. /\ R!Defer(delta) \/ R!SplitDelta(delta)
      /\ ahead + fed + n =< Len(tokens)
      /\ ahead' = ahead + Min({n, left})
      /\ fed' = fed + n - Min({n, left})
  BY <1>1
<1> HIDE DEF tokens
<1>6. delta \in Seq(Tokens)
  BY <1>3, <1>4, <1>5
<1> HIDE DEF delta
<1>7. ahead' \in 0 .. Len(thoughts) /\ fed' \in 0 .. Len(TextOf(output))
  <2>1. {n, left} \subseteq Nat /\ {n, left} # {}
    BY <1>4
  <2>2. Min({n, left}) \in {n, left} /\ Min({n, left}) =< n /\ Min({n, left}) =< left
    BY <2>1, MinIs
  <2> DEFINE m == Min({n, left})
  <2> HIDE DEF m
  <2>3. m \in {n, left} /\ m =< n /\ m =< left /\ ahead' = ahead + m /\ fed' = fed + n - m
    BY <1>5, <2>2 DEF m
  <2>4. QED  BY <1>2, <1>3, <1>4, <1>5, <2>3, SMTT(30)
<1>8. text' = text \o R!DeltaText(delta)
  BY <1>5 DEF R!Defer, R!SplitDelta, R!Took
<1>9. R!DeltaText(delta) \in Seq(Pieces) /\ text \o R!DeltaText(delta) \in Seq(Pieces)
  <2>1. R!DeltaText(delta) \in Seq(Pieces)
    BY <1>6, TokensTyped
  <2>2. QED  BY <1>2, <2>1, ConcatProperties
<1>10. PICK result : /\ R!Emit(result)
                     /\ result.reasoning \in Seq(Pieces) /\ result.content \in Seq(Pieces)
  <2>1. CASE R!Defer(delta)
    <3>1. R!Emit(R!Upstream(delta))
      BY <2>1 DEF R!Defer
    <3>2. QED  BY <1>6, <3>1, UpstreamTyped
  <2>2. CASE R!SplitDelta(delta)
    <3> DEFINE new == text \o R!DeltaText(delta)
               result == R!StreamDeltas(text, new)
    <3>1. R!Emit(result)
      BY <2>2 DEF R!SplitDelta
    <3>2. result = StreamDeltas(text, new)
      <4>1. R!Split(text) = Split(text) /\ R!Split(new) = Split(new)
        BY SameOperators
      <4>2. \A t, s : R!From(t, s) = From(t, s)
        BY SameOperators
      <4>3. QED  BY <4>1, <4>2 DEF R!StreamDeltas, StreamDeltas
    <3>3. LT \in Pieces
      BY DEF Pieces
    <3> HIDE DEF result, new
    <3>4. result.reasoning \in Seq(Pieces) /\ result.content \in Seq(Pieces)
      BY <1>2, <1>9, <3>2, <3>3, DeltasTyped DEF new
    <3>5. QED  BY <3>1, <3>4
  <2>3. QED  BY <1>5, <2>1, <2>2
<1>11. /\ pending' \in Seq(Pieces) /\ reasoning' \in Seq(Pieces)
       /\ toContent' \in Seq(Pieces) /\ From(toContent', Len(toContent)) \in Seq(Pieces)
  BY <1>10, EmitTyped
<1>12. thinking' = thinking /\ thoughts' = thoughts
  BY <1>5 DEF Think, R!Defer, R!SplitDelta, R!Took
<1>13. ToolInv'
  <2>1. CASE over'
    <3>1. TakeDelta(From(toContent', Len(toContent)))
      BY <2>1 DEF Think
    <3>2. QED  BY <1>7, <1>11, <3>1, TakeDeltaInv DEF PipeInv
  <2>2. CASE ~over'
    <3>1. UNCHANGED <<output, previous, phase, buffer, inCalls, calls, active, param>>
      BY <2>2 DEF Think, parser
    <3>2. QED  BY <1>7, <3>1 DEF PipeInv, ToolInv, IsSeq
  <2>3. QED  BY <2>1, <2>2
<1>14. QED  BY <1>2, <1>7, <1>8, <1>9, <1>11, <1>12, <1>13 DEF PipeInv

\* Both begin with nothing.
LEMMA PipeInitInv == PipeInit => PipeInv
<1> SUFFICES ASSUME PipeInit PROVE PipeInv
  OBVIOUS
<1>1. ToolInv
  BY ToolInitInv DEF PipeInit
<1>2. thinking \in BOOLEAN /\ thoughts \in {<<>>} \cup Thoughts /\ ahead = 0
  BY DEF PipeInit
<1>3. text = <<>> /\ pending = <<>> /\ reasoning = <<>> /\ toContent = <<>>
  BY DEF PipeInit, R!Init
<1>4. <<>> \in Seq(Pieces) /\ thoughts \in Seq(Tokens)
  BY <1>2, ThoughtTyped
<1>5. QED  BY <1>1, <1>2, <1>3, <1>4 DEF PipeInv

\* Every step on the stream keeps the shape of both.
LEMMA PipeNextInv ==
    ASSUME PipeInv, [PipeNext]_pipeVars
    PROVE  PipeInv'
<1>1. CASE PipeNewStream
  <2>1. ToolInv'
    BY <1>1, StreamsInv DEF PipeNewStream, PipeInv
  <2>2. /\ thinking' \in BOOLEAN /\ thoughts' \in {<<>>} \cup Thoughts /\ ahead' = 0
        /\ text' = <<>> /\ pending' = <<>> /\ reasoning' = <<>> /\ toContent' = <<>>
    BY <1>1 DEF PipeNewStream, NewReasoner, Begun
  <2>3. <<>> \in Seq(Pieces) /\ thoughts' \in Seq(Tokens)
    BY <2>2, ThoughtTyped
  <2>4. QED  BY <2>1, <2>2, <2>3 DEF PipeInv
<1>2. CASE Think
  BY <1>2, ThinkInv
<1>3. CASE Feed /\ UNCHANGED <<thinking, thoughts, ahead, reasoner>>
  BY <1>3, FeedInv DEF PipeInv, reasoner
<1>4. CASE (ProcessStep \/ EndOfStream) /\ UNCHANGED <<thinking, thoughts, ahead, reasoner>>
  BY <1>4, ProcessInv, StreamsInv DEF PipeInv, reasoner
<1>5. CASE UNCHANGED pipeVars
  <2>1. ToolInv'
    BY <1>5, NextInv DEF PipeInv, pipeVars
  <2>2. QED  BY <1>5, <2>1 DEF PipeInv, pipeVars, reasoner
<1>6. QED  BY <1>1, <1>2, <1>3, <1>4, <1>5 DEF PipeNext

\* The same behind the reasoning parser, whose content the tool parser is
\* given first (dsv4_reasoning_tool_aware.py:188-192).
THEOREM PipeTypeCorrect == PipeSpec => []TypeOK
<1>1. PipeInit => PipeInv
  BY PipeInitInv
<1>2. PipeInv /\ [PipeNext]_pipeVars => PipeInv'
  BY PipeNextInv
<1>3. PipeInv => TypeOK
  BY ToolTypes DEF PipeInv
<1>4. QED  BY <1>1, <1>2, <1>3, PTL DEF PipeSpec

\* And so does every delta behind the reasoning parser: the loop of line 444
\* returns whatever that parser handed over.
THEOREM PipeLoopEnds == PipeSpec => LoopEnds
<1>1. PipeInv /\ [PipeNext]_pipeVars => PipeInv'
  BY PipeNextInv
<1>2. PipeInv /\ PipeInv' /\ [PipeNext]_pipeVars
        => [Loop /\ phase' = "loop" => Rank' < Rank]_vars
  <2> SUFFICES ASSUME PipeInv, PipeInv', [PipeNext]_pipeVars, vars' # vars,
                      phase = "loop", phase' = "loop"
               PROVE  Rank' < Rank
    BY DEF Loop
  <2>1. ToolInv /\ ToolInv'
    BY DEF PipeInv
  <2>2. ProcessStep
    BY DEF PipeNext, PipeNewStream, NewStream, Think, Feed, EndOfStream, pipeVars
  <2>3. QED  BY <2>1, <2>2, Nearer
<1>3. QED  BY <1>1, <1>2, PipeInitInv, PTL DEF PipeSpec, LoopEnds

\* The opener of an output is the last pieces of a start tag.
LEMMA OpenerPieces ==
    ASSUME NEW o \in Outputs
    PROVE  /\ o.opener \in Seq(Range(o.opener)) /\ Len(o.opener) \in 0 .. 3
           /\ \A i \in 1 .. Len(o.opener) : o.opener[i] = StartToken[(3 - Len(o.opener)) + i]
           /\ Len(o.opener) < Len(Headless) => o.before = <<>>
<1> DEFINE s == o.opener
<1>1. s \in Seq(Range(s)) /\ IsSuffix(s, StartToken)
  BY OutputAssumption, Zenon
<1> DEFINE S == Range(s) \cup {LT, DSML, CALLS}
           U == Range(s)
<1>2. U \subseteq S /\ {LT, DSML, CALLS} \subseteq S
  OBVIOUS
<1> HIDE DEF S, U
<1>3. s \in Seq(S) /\ StartToken \in Seq(S)
  BY <1>1, <1>2, Tags, SeqWider DEF U
<1>4. Len(s) < Len(Headless) => o.before = <<>>
  BY OutputAssumption, Zenon
<1> HIDE DEF s
<1>5. Len(s) \in 0 .. 3 /\ \A i \in 1 .. Len(s) : s[i] = StartToken[(3 - Len(s)) + i]
  <2> DEFINE t == StartToken
  <2>1. s \in Seq(S) /\ t \in Seq(S) /\ IsSuffix(s, t) /\ Len(t) = 3
    BY <1>1, <1>3, Tags DEF s
  <2> HIDE DEF t
  <2>2. Len(s) =< Len(t) /\ \A i \in 1 .. Len(s) : s[i] = t[(Len(t) - Len(s)) + i]
    BY <2>1, SuffixPieces, Zenon
  <2> DEFINE n == Len(s)
  <2>3. n \in Nat /\ n =< 3 /\ Len(t) = 3
    BY <2>1, <2>2
  <2>4. \A i \in 1 .. n : s[i] = t[(3 - n) + i]
    BY <2>2, <2>3
  <2> HIDE DEF n
  <2>5. n \in 0 .. 3
    BY <2>3
  <2>6. QED  BY <2>4, <2>5, Zenon DEF n, t
<1>6. QED  BY <1>1, <1>4, <1>5 DEF s

\* What the reasoning parser is given: thoughts, and an output behind them.
Spoken(S, th, t, k) ==
    /\ {LT, DSML, CALLS, CLOSE, WORD, R!END} \subseteq S
    /\ th \in Seq(S) /\ Len(th) > 0
    /\ \A i \in 1 .. Len(th) - 1 : th[i] = WORD
    /\ th[Len(th)] = IF Closes(th) THEN R!END ELSE WORD
    /\ BlockFrom(S, t, k)
    /\ \A i \in 1 .. Len(t) : t[i] # CLOSE /\ t[i] # R!END
    /\ Closes(th) \/ k >= 2

\* The pieces of the end token.
LEMMA EndPieces ==
    /\ \A i \in 1 .. 4 : EndToken[i] # FUNCS /\ EndToken[i] # CLOSE /\ EndToken[i] # R!END
    /\ \A i \in 1 .. 3 : EndToken[i] # CALLS
    /\ EndToken[2] # LT /\ EndToken \in Seq(Marks) /\ Len(EndToken) = 4
<1>1. /\ EndToken[1] = LT /\ EndToken[2] = SLASH /\ EndToken[3] = DSML /\ EndToken[4] = CALLS
      /\ Len(EndToken) = 4
  BY TagPiecesAre, Tags
<1>2. \A x \in {LT, SLASH, DSML, CALLS} : x # FUNCS /\ x # CLOSE /\ x # R!END
  BY Zenon DEF LT, SLASH, DSML, CALLS, FUNCS, CLOSE, R!END
<1>3. LT # CALLS /\ SLASH # CALLS /\ DSML # CALLS /\ SLASH # LT
  BY DEF LT, SLASH, DSML, CALLS
<1>4. EndToken \in Seq(Marks)
  BY TagsTyped
<1>5. \A i \in 1 .. 4 : EndToken[i] # FUNCS /\ EndToken[i] # CLOSE /\ EndToken[i] # R!END
  <2> TAKE i \in 1 .. 4
  <2>1. i = 1 \/ i = 2 \/ i = 3 \/ i = 4
    OBVIOUS
  <2>2. QED  BY <1>1, <1>2, <2>1
<1>6. \A i \in 1 .. 3 : EndToken[i] # CALLS
  <2> TAKE i \in 1 .. 3
  <2>1. i = 1 \/ i = 2 \/ i = 3
    OBVIOUS
  <2>2. QED  BY <1>1, <1>3, <2>1
<1>7. QED  BY <1>1, <1>3, <1>4, <1>5, <1>6

\* And those of the start token, of which an opener is made.
LEMMA StartPieces ==
    /\ WholeTag = StartToken /\ Len(StartToken) = 3
    /\ \A i \in 1 .. 3 : StartToken[i] # FUNCS /\ StartToken[i] # CLOSE /\ StartToken[i] # R!END
<1>1. StartToken[1] = LT /\ StartToken[2] = DSML /\ StartToken[3] = CALLS /\ Len(StartToken) = 3
  BY TagPiecesAre, Tags
<1>2. WholeTag = StartToken
  BY DEF WholeTag, ToolStartTags, StartToken
<1>3. \A x \in {LT, DSML, CALLS} : x # FUNCS /\ x # CLOSE /\ x # R!END
  BY Zenon DEF LT, DSML, CALLS, FUNCS, CLOSE, R!END
<1>4. \A i \in 1 .. 3 : StartToken[i] # FUNCS /\ StartToken[i] # CLOSE /\ StartToken[i] # R!END
  <2> TAKE i \in 1 .. 3
  <2>1. i = 1 \/ i = 2 \/ i = 3
    OBVIOUS
  <2>2. QED  BY <1>1, <1>3, <2>1
<1>5. QED  BY <1>1, <1>2, <1>4

\* A text without parts around a block is the opener and the block.
LEMMA PlainText ==
    ASSUME NEW o \in Outputs, NEW d, WellFormed(o, d), Plain(d),
           o.before = <<>>, o.after = <<>>,
           NEW S, Chars(d) \subseteq S
    PROVE  /\ BlockFrom(S, TextOf(o), Len(o.opener))
           /\ \A i \in 1 .. Len(TextOf(o)) : TextOf(o)[i] # CLOSE /\ TextOf(o)[i] # R!END
           /\ From(TextOf(o), Len(o.opener)) = o.block \o o.after
           /\ TextOf(o) = o.opener \o (o.block \o o.after)
<1> DEFINE t == TextOf(o)
           s == o.opener
           k == Len(s)
           inner == InnerText(d)
           m == Len(inner)
           b == o.block
           rest == o.block \o o.after
           end == EndToken
<1>1. OutputIn(Chars(d), o, d)
  BY OutputTyped
<1>2. Marks \subseteq S /\ Laid3(Seq(Chars(d)), o)
  BY <1>1 DEF OutputIn
<1>3. s \in Seq(S) /\ b \in Seq(S) /\ inner \in Seq(S) /\ end \in Seq(S)
  <2>1. s \in Seq(Chars(d)) /\ b \in Seq(Chars(d))
    BY <1>2 DEF Laid3
  <2>2. inner \in Seq(Chars(d))
    BY <1>1, InvokesFound DEF OutputIn, WellFormed, IsDerivation
  <2>3. end \in Seq(S)
    BY <1>2, TagsTyped
  <2>4. QED  BY <2>1, <2>2, <2>3, SeqWider
<1>4. t = s \o rest /\ rest = b
  <2>1. b \o <<>> = b /\ rest = b \o <<>>
    BY <1>3, ConcatEmptySeq
  <2> DEFINE T == Seq(Chars(d))
  <2>2. Joinable(T) /\ StartToken \in T
    BY <1>1, SeqJoinable, TagsTyped DEF OutputIn
  <2> HIDE DEF T
  <2>3. TextOf(o) = o.before \o (o.opener \o (o.block \o o.after))
    BY <1>2, <2>2, TextIs DEF T
  <2> DEFINE y == s \o rest
  <2>4. y \in Seq(S)
    BY <1>3, <2>1
  <2>5. t = <<>> \o y
    BY <2>3
  <2> HIDE DEF y, t
  <2>6. t = y
    BY <2>4, <2>5, ConcatEmptySeq
  <2>7. QED  BY <2>1, <2>6 DEF y
<1>5. b = inner \o end
  BY DEF WellFormed
<1>6. k \in 0 .. 3 /\ \A i \in 1 .. k : s[i] = StartToken[(3 - k) + i]
  BY OpenerPieces
<1>7. \A i \in 1 .. m : inner[i] \notin {CALLS, FUNCS, CLOSE, R!END}
  <2>1. Range(inner) \cap {CALLS, FUNCS, CLOSE, R!END} = {}
    BY DEF Plain
  <2> HIDE DEF inner
  <2>2. Range(inner) = {inner[i] : i \in 1 .. m}
    BY <1>3, RangeIs
  <2>3. QED  BY <2>1, <2>2
<1>8. /\ \A i \in 1 .. 4 : end[i] # FUNCS /\ end[i] # CLOSE /\ end[i] # R!END
      /\ \A i \in 1 .. 3 : end[i] # CALLS
      /\ end[2] # LT /\ Len(end) = 4
  BY EndPieces
<1> HIDE DEF t, s, inner, b, end, rest
<1>9. /\ b \in Seq(S) /\ Len(b) = m + 4 /\ m \in Nat
      /\ \A i \in 1 .. m : b[i] = inner[i]
      /\ \A i \in 1 .. 4 : b[m + i] = end[i]
  <2> DEFINE x == inner \o end
  <2>1. /\ x \in Seq(S) /\ Len(x) = Len(inner) + Len(end)
        /\ \A i \in 1 .. Len(inner) : x[i] = inner[i]
        /\ \A i \in 1 .. Len(end) : x[Len(inner) + i] = end[i]
    BY <1>3, Joined
  <2>2. Len(inner) \in Nat
    BY <1>3
  <2> HIDE DEF x
  <2>3. b = x
    BY <1>5 DEF x
  <2>4. QED  BY <1>8, <2>1, <2>2, <2>3
<1>10. /\ t \in Seq(S) /\ Len(t) = k + (m + 4) /\ k \in Nat
       /\ \A i \in 1 .. k : t[i] = s[i]
       /\ \A i \in 1 .. m + 4 : t[k + i] = b[i]
  <2> DEFINE x == s \o b
  <2>1. /\ x \in Seq(S) /\ Len(x) = Len(s) + Len(b)
        /\ \A i \in 1 .. Len(s) : x[i] = s[i]
        /\ \A i \in 1 .. Len(b) : x[Len(s) + i] = b[i]
    BY <1>3, Joined
  <2>2. Len(s) \in Nat
    BY <1>3
  <2> HIDE DEF x
  <2>3. t = x
    BY <1>4 DEF x
  <2>4. QED  BY <1>9, <2>1, <2>2, <2>3
<1> HIDE DEF k, m
<1>11. \A i \in 1 .. k : t[i] = StartToken[(3 - k) + i]
  BY <1>6, <1>10
<1>12. \A i \in 1 .. m + 4 : /\ b[i] # FUNCS /\ b[i] # CLOSE /\ b[i] # R!END
                             /\ i < m + 4 => b[i] # CALLS
  <2> TAKE i \in 1 .. m + 4
  <2>1. CASE i =< m
    <3>1. i \in 1 .. m
      BY <2>1
    <3>2. QED  BY <1>7, <1>9, <3>1
  <2>2. CASE i > m
    <3>1. i - m \in 1 .. 4 /\ m + (i - m) = i /\ (i < m + 4 => i - m \in 1 .. 3)
      BY <1>9, <2>2
    <3>2. b[m + (i - m)] = end[i - m]
      BY <1>9, <3>1
    <3>3. QED  BY <1>8, <3>1, <3>2
  <2>3. QED  BY <1>9, <2>1, <2>2
<1>13. \A i \in 1 .. Len(t) : /\ t[i] # FUNCS /\ t[i] # CLOSE /\ t[i] # R!END
                              /\ i > k /\ i < Len(t) => t[i] # CALLS
  <2> TAKE i \in 1 .. Len(t)
  <2>1. CASE i =< k
    <3>1. i \in 1 .. k /\ (3 - k) + i \in 1 .. 3
      BY <1>6, <1>10, <2>1
    <3>2. t[i] = StartToken[(3 - k) + i]
      BY <1>11, <3>1
    <3>3. QED  BY <2>1, <1>10, <3>1, <3>2, StartPieces
  <2>2. CASE i > k
    <3>1. i - k \in 1 .. m + 4 /\ k + (i - k) = i /\ (i < Len(t) => i - k < m + 4)
      BY <1>9, <1>10, <2>2
    <3>2. t[k + (i - k)] = b[i - k]
      BY <1>10, <3>1
    <3>3. QED  BY <1>12, <3>1, <3>2
  <2>3. QED  BY <1>10, <2>1, <2>2
<1>14. t[Len(t) - 2] # LT
  <2>1. Len(t) - 2 = k + (m + 2) /\ m + 2 \in 1 .. m + 4 /\ 2 \in 1 .. 4
    BY <1>9, <1>10
  <2>2. t[k + (m + 2)] = b[m + 2] /\ b[m + 2] = end[2]
    BY <1>9, <1>10, <2>1
  <2>3. QED  BY <1>8, <2>1, <2>2
<1>15. BlockFrom(S, t, k)
  <2>1. Len(t) >= k + 4
    BY <1>9, <1>10
  <2>2. \A i \in 1 .. k : t[i] = WholeTag[(3 - k) + i]
    BY <1>11, StartPieces
  <2>3. QED  BY <1>6, <1>10, <1>13, <1>14, <2>1, <2>2 DEF BlockFrom
<1>16. From(t, k) = rest
  <2>1. /\ From(s \o rest, Len(s) + 0) = From(rest, 0) /\ 0 \in 0 .. Len(rest) /\ rest \in Seq(S)
    <3>1. rest \in Seq(S) /\ 0 \in 0 .. Len(rest)
      BY <1>4, <1>9
    <3>2. QED  BY <1>3, <3>1, RestOfSecond
  <2>2. From(rest, 0) = rest
    BY <2>1, SlicesOfText
  <2>3. Len(s) + 0 = k
    BY <1>10 DEF k
  <2>4. QED  BY <1>4, <2>1, <2>2, <2>3
<1>17. QED
  BY <1>4, <1>13, <1>15, <1>16 DEF t, k, s, rest, b

\* The thoughts as they are told: the end tag is text.
Said(th) == IF Closes(th) THEN Front(th) \o ThinkClose ELSE th

\* Until the end tag has come there are words.
LEMMA WordsBefore ==
    ASSUME NEW S, NEW th, NEW t, NEW k, Spoken(S, th, t, k),
           NEW a \in 0 .. Len(th), Closes(th) => a < Len(th)
    PROVE  /\ Before(th, a) \in Seq(S) /\ Len(Before(th, a)) = a
           /\ \A i \in 1 .. a : Before(th, a)[i] = WORD /\ th[i] = WORD
           /\ Quiet(Before(th, a))
           /\ \A i \in 1 .. a : Before(th, a)[i] # CLOSE /\ th[i] # R!END
           /\ WithoutClose(Before(th, a)) = Before(th, a)
<1>1. /\ th \in Seq(S) /\ Len(th) > 0 /\ Len(th) \in Nat
      /\ \A i \in 1 .. Len(th) - 1 : th[i] = WORD
      /\ th[Len(th)] = IF Closes(th) THEN R!END ELSE WORD
  BY DEF Spoken
<1> DEFINE w == Before(th, a)
<1>2. w \in Seq(S) /\ Len(w) = a /\ \A i \in 1 .. a : w[i] = th[i]
  BY <1>1, Slices
<1> HIDE DEF w
<1>3. \A i \in 1 .. a : th[i] = WORD
  <2> TAKE i \in 1 .. a
  <2>1. CASE i = Len(th)
    <3>1. ~Closes(th)
      BY <1>1, <2>1
    <3>2. QED  BY <1>1, <2>1, <3>1
  <2>2. CASE i # Len(th)
    <3>1. i \in 1 .. Len(th) - 1
      BY <1>1, <2>2
    <3>2. QED  BY <1>1, <3>1
  <2>3. QED  BY <2>1, <2>2
<1>4. WORD # DSML /\ WORD # CALLS /\ WORD # FUNCS /\ WORD # LT /\ WORD # CLOSE /\ WORD # R!END
  BY DEF WORD, DSML, CALLS, FUNCS, LT, CLOSE, R!END
<1>5. \A i \in 1 .. a : w[i] = WORD
  BY <1>2, <1>3
<1>6. Quiet(w)
  <2>1. Len(w) > 0 => Len(w) \in 1 .. a
    BY <1>2
  <2>2. QED  BY <1>2, <1>4, <1>5, <2>1 DEF Quiet
<1>7. \A i \in 1 .. Len(w) : w[i] # CLOSE
  BY <1>2, <1>4, <1>5
<1>8. WithoutClose(w) = w
  BY <1>2, <1>7, WithoutCloseSame
<1>9. QED  BY <1>2, <1>3, <1>4, <1>5, <1>6, <1>7, <1>8 DEF w

\* All of them, and what the reasoning channel is to have.
LEMMA SaidIs ==
    ASSUME NEW S, NEW th, NEW t, NEW k, Spoken(S, th, t, k)
    PROVE  /\ Said(th) \in Seq(S) /\ Quiet(Said(th)) /\ Len(Said(th)) > 0
           /\ WithoutClose(Said(th)) = IF Closes(th) THEN Front(th) ELSE th
           /\ Front(th) = Before(th, Len(th) - 1)
           /\ Before(th, Len(th)) = th
<1>1. /\ th \in Seq(S) /\ Len(th) > 0 /\ Len(th) \in Nat /\ {LT, CLOSE} \subseteq S
  BY DEF Spoken
<1>2. Front(th) = Before(th, Len(th) - 1)
  BY DEF Front, Before
<1>3. Before(th, Len(th)) = th
  BY <1>1 DEF Before
<1>4. CASE ~Closes(th)
  <2>1. Len(th) \in 0 .. Len(th) /\ Said(th) = th
    BY <1>1, <1>4 DEF Said
  <2>2. Quiet(Before(th, Len(th))) /\ WithoutClose(Before(th, Len(th))) = Before(th, Len(th))
    BY <1>4, <2>1, WordsBefore
  <2>3. QED  BY <1>1, <1>2, <1>3, <1>4, <2>1, <2>2
<1>5. CASE Closes(th)
  <2> DEFINE a == Len(th) - 1
             w == Before(th, a)
             x == w \o ThinkClose
  <2>1. a \in 0 .. Len(th) /\ a < Len(th) /\ a \in Nat
    BY <1>1
  <2> HIDE DEF a
  <2>2. /\ w \in Seq(S) /\ Len(w) = a /\ \A i \in 1 .. a : w[i] = WORD
        /\ WithoutClose(w) = w
    BY <1>5, <2>1, WordsBefore
  <2> HIDE DEF w
  <2>3. /\ ThinkClose \in Seq(S) /\ Len(ThinkClose) = 2
        /\ ThinkClose[1] = LT /\ ThinkClose[2] = CLOSE
    BY <1>1 DEF ThinkClose
  <2>4. /\ x \in Seq(S) /\ Len(x) = Len(w) + Len(ThinkClose)
        /\ \A i \in 1 .. Len(w) : x[i] = w[i]
        /\ \A i \in 1 .. Len(ThinkClose) : x[Len(w) + i] = ThinkClose[i]
    <3>1. w \in Seq(S) /\ ThinkClose \in Seq(S)
      BY <2>2, <2>3
    <3>2. QED  BY <3>1, Joined
  <2>5. Said(th) = x
    BY <1>2, <1>5 DEF Said, a, w
  <2> HIDE DEF x
  <2>6. Len(x) = a + 2 /\ x[a + 1] = LT /\ x[a + 2] = CLOSE /\ \A i \in 1 .. a : x[i] = WORD
    <3>1. 1 \in 1 .. Len(ThinkClose) /\ 2 \in 1 .. Len(ThinkClose)
      BY <2>3
    <3>2. x[Len(w) + 1] = LT /\ x[Len(w) + 2] = CLOSE
      BY <2>3, <2>4, <3>1
    <3>3. QED  BY <2>2, <2>3, <2>4, <3>2
  <2>7. /\ WORD \notin {DSML, CALLS, FUNCS} /\ LT \notin {DSML, CALLS, FUNCS}
        /\ CLOSE \notin {DSML, CALLS, FUNCS} /\ CLOSE # LT
    BY DEF WORD, DSML, CALLS, FUNCS, LT, CLOSE
  <2>8. Quiet(x)
    <3>1. ASSUME NEW i \in 1 .. Len(x) PROVE x[i] \notin {DSML, CALLS, FUNCS}
      <4>1. i \in 1 .. a \/ i = a + 1 \/ i = a + 2
        BY <2>1, <2>6
      <4>2. QED  BY <2>6, <2>7, <4>1
    <3>2. x[Len(x)] # LT
      BY <2>6, <2>7
    <3>3. QED  BY <3>1, <3>2 DEF Quiet
  <2>9. WithoutClose(w \o ThinkClose) = WithoutClose(w) \o WithoutClose(ThinkClose)
    <3>1. ThinkClose[1] # CLOSE
      BY <2>3, <2>7
    <3>2. QED  BY <2>2, <2>3, <3>1, WithoutCloseJoins
  <2>10. WithoutClose(x) = w
    <3>1. w \o <<>> = w
      BY <2>2, ConcatEmptySeq
    <3>2. WithoutClose(w \o ThinkClose) = w \o <<>>
      BY <2>2, <2>9, CloseTaken, Zenon
    <3>3. QED  BY <3>1, <3>2 DEF x
  <2>11. Len(x) > 0
    BY <2>1, <2>6
  <2>12. Front(th) = w
    BY <1>2 DEF w, a
  <2>13. QED  BY <1>2, <1>3, <1>5, <2>4, <2>5, <2>8, <2>10, <2>11, <2>12
<1>6. QED  BY <1>4, <1>5

\* The text of a delta without the end tag is its tokens.
LEMMA DeltaPlain ==
    ASSUME NEW S, NEW u \in Seq(S), \A i \in 1 .. Len(u) : u[i] # R!END
    PROVE  R!DeltaText(u) = u
<1> DEFINE seqs == [i \in 1 .. Len(u) |-> <<u[i]>>]
           texts == [i \in DOMAIN u |-> IF u[i] = R!END THEN R!ThinkClose ELSE <<u[i]>>]
<1>1. DOMAIN u = 1 .. Len(u) /\ Len(u) \in Nat
  OBVIOUS
<1>2. R!DeltaText(u) = R!FlattenSeq(texts)
  BY Zenon DEF R!DeltaText, R!TextOf
<1>3. texts = seqs
  BY <1>1
<1>4. R!FlattenSeq(seqs) = FlattenSeq(seqs)
  BY SameOperators
<1> HIDE DEF texts
<1>5. seqs \in Seq(Seq(S)) /\ Len(seqs) = Len(u) /\ \A i \in 1 .. Len(u) : seqs[i] = <<u[i]>>
  <2>1. \A i \in 1 .. Len(u) : <<u[i]>> \in Seq(S)
    OBVIOUS
  <2> DEFINE bit(i) == <<u[i]>>
             n == Len(u)
  <2>2. seqs = [i \in 1 .. n |-> bit(i)] /\ n \in Nat
    BY <1>1
  <2>3. \A i \in 1 .. n : bit(i) \in Seq(S)
    BY <2>1
  <2> HIDE DEF bit, seqs, n
  <2>4. seqs \in Seq(Seq(S)) /\ Len(seqs) = n /\ \A i \in 1 .. n : seqs[i] = bit(i)
    BY <2>2, <2>3
  <2>5. QED  BY <2>4 DEF bit, n
<1> HIDE DEF seqs
<1>6. FlattenSeq(seqs) = u
  BY <1>5, SinglesJoined
<1>7. QED  BY <1>2, <1>3, <1>4, <1>6

\* A delta with the end tag in it.
Ending(u, v) == u \o (<<R!END>> \o v)

\* Its pieces, one by one.
LEMMA EndingIs ==
    ASSUME NEW S, R!END \in S, NEW u \in Seq(S), NEW v \in Seq(S)
    PROVE  LET x == Ending(u, v)
           IN  /\ x \in Seq(S) /\ Len(x) = Len(u) + 1 + Len(v) /\ DOMAIN x = 1 .. Len(x)
               /\ \A i \in 1 .. Len(u) : x[i] = u[i]
               /\ x[Len(u) + 1] = R!END
               /\ \A i \in 1 .. Len(v) : x[Len(u) + 1 + i] = v[i]
<1> DEFINE e == <<R!END>>
           y == e \o v
           x == u \o y
           m == Len(u)
           n == Len(v)
<1>1. e \in Seq(S) /\ Len(e) = 1 /\ e[1] = R!END /\ m \in Nat /\ n \in Nat
  OBVIOUS
<1> HIDE DEF e
<1>2. /\ y \in Seq(S) /\ Len(y) = Len(e) + Len(v)
      /\ \A i \in 1 .. Len(e) : y[i] = e[i]
      /\ \A i \in 1 .. Len(v) : y[Len(e) + i] = v[i]
  <2>1. e \in Seq(S) /\ v \in Seq(S)
    BY <1>1
  <2>2. QED  BY <2>1, Joined
<1> HIDE DEF y
<1>3. Len(y) = 1 + n /\ y[1] = R!END /\ \A i \in 1 .. n : y[1 + i] = v[i]
  <2>1. 1 \in 1 .. Len(e)
    BY <1>1
  <2>2. QED  BY <1>1, <1>2, <2>1
<1>4. /\ x \in Seq(S) /\ Len(x) = Len(u) + Len(y)
      /\ \A i \in 1 .. Len(u) : x[i] = u[i]
      /\ \A i \in 1 .. Len(y) : x[Len(u) + i] = y[i]
  <2>1. u \in Seq(S) /\ y \in Seq(S)
    BY <1>2
  <2>2. QED  BY <2>1, Joined
<1>5. Ending(u, v) = x
  BY DEF Ending, x, y, e
<1> HIDE DEF x
<1>6. x[m + 1] = R!END
  <2>1. 1 \in 1 .. Len(y)
    BY <1>1, <1>3
  <2>2. QED  BY <1>3, <1>4, <2>1
<1>7. \A i \in 1 .. n : x[m + 1 + i] = v[i]
  <2> TAKE i \in 1 .. n
  <2>1. 1 + i \in 1 .. Len(y) /\ m + (1 + i) = m + 1 + i
    BY <1>1, <1>3
  <2>2. x[m + (1 + i)] = y[1 + i]
    BY <1>4, <2>1
  <2>3. QED  BY <1>3, <2>1, <2>2
<1>8. Len(x) = m + 1 + n /\ DOMAIN x = 1 .. Len(x)
  BY <1>1, <1>3, <1>4
<1>9. QED  BY <1>4, <1>5, <1>6, <1>7, <1>8

\* The end tag is one of the tokens.
LEMMA EndAmong ==
    ASSUME NEW S, {LT, CLOSE, R!END} \subseteq S
    PROVE  R!END \in S
  OBVIOUS

\* A delta with the end tag in it: the tag's text is between the words and the
\* pieces of the output.
LEMMA DeltaEnding ==
    ASSUME NEW S, {LT, CLOSE, R!END} \subseteq S, NEW u \in Seq(S), NEW v \in Seq(S),
           \A i \in 1 .. Len(u) : u[i] # R!END, \A i \in 1 .. Len(v) : v[i] # R!END
    PROVE  R!DeltaText(Ending(u, v)) = u \o (ThinkClose \o v)
<1> DEFINE x == Ending(u, v)
           m == Len(u)
           n == Len(v)
<1>1. /\ x \in Seq(S) /\ Len(x) = m + 1 + n /\ DOMAIN x = 1 .. Len(x)
      /\ \A i \in 1 .. m : x[i] = u[i]
      /\ x[m + 1] = R!END
      /\ \A i \in 1 .. n : x[m + 1 + i] = v[i]
  <2>1. R!END \in S /\ u \in Seq(S) /\ v \in Seq(S)
    BY EndAmong
  <2>2. /\ Ending(u, v) \in Seq(S) /\ Len(Ending(u, v)) = Len(u) + 1 + Len(v)
        /\ DOMAIN Ending(u, v) = 1 .. Len(Ending(u, v))
        /\ \A i \in 1 .. Len(u) : Ending(u, v)[i] = u[i]
        /\ Ending(u, v)[Len(u) + 1] = R!END
        /\ \A i \in 1 .. Len(v) : Ending(u, v)[Len(u) + 1 + i] = v[i]
    BY <2>1, EndingIs
  <2>3. QED  BY <2>2
<1> DEFINE bit(i) == IF x[i] = R!END THEN ThinkClose ELSE <<x[i]>>
           seqs == [i \in 1 .. Len(x) |-> bit(i)]
           texts == [i \in DOMAIN x |-> IF x[i] = R!END THEN R!ThinkClose ELSE <<x[i]>>]
<1>2. m \in Nat /\ n \in Nat
  OBVIOUS
<1>3. R!DeltaText(x) = R!FlattenSeq(texts)
  BY Zenon DEF R!DeltaText, R!TextOf
<1>4. R!ThinkClose = ThinkClose /\ ThinkClose \in Seq(S)
  BY SameOperators DEF ThinkClose
<1> HIDE DEF x
<1>5. texts = seqs
  BY <1>1, <1>4
<1>6. R!FlattenSeq(seqs) = FlattenSeq(seqs)
  BY SameOperators
<1> HIDE DEF texts
<1>7. seqs \in Seq(Seq(S)) /\ Len(seqs) = m + 1 + n /\ \A i \in 1 .. m + 1 + n : seqs[i] = bit(i)
  <2> DEFINE l == Len(x)
  <2>1. l \in Nat /\ l = m + 1 + n /\ \A i \in 1 .. l : x[i] \in S
    BY <1>1, <1>2
  <2>2. \A i \in 1 .. l : bit(i) \in Seq(S)
    BY <1>4, <2>1
  <2>3. seqs = [i \in 1 .. l |-> bit(i)]
    OBVIOUS
  <2> HIDE DEF bit, seqs, l
  <2>4. seqs \in Seq(Seq(S)) /\ Len(seqs) = l /\ \A i \in 1 .. l : seqs[i] = bit(i)
    BY <2>1, <2>2, <2>3
  <2>5. QED  BY <2>1, <2>4
<1> HIDE DEF seqs
<1>8. \A i \in 1 .. m : seqs[i] = <<u[i]>>
  <2> TAKE i \in 1 .. m
  <2>1. i \in 1 .. m + 1 + n /\ x[i] = u[i] /\ u[i] # R!END
    BY <1>1, <1>2
  <2>2. QED  BY <1>7, <2>1
<1>9. seqs[m + 1] = ThinkClose
  <2>1. m + 1 \in 1 .. m + 1 + n
    BY <1>2
  <2>2. QED  BY <1>1, <1>7, <2>1
<1>10. \A i \in 1 .. n : seqs[m + 1 + i] = <<v[i]>>
  <2> TAKE i \in 1 .. n
  <2>1. m + 1 + i \in 1 .. m + 1 + n /\ x[m + 1 + i] = v[i] /\ v[i] # R!END
    BY <1>1, <1>2
  <2>2. QED  BY <1>7, <2>1
<1>11. FlattenSeq(seqs) = u \o (ThinkClose \o v)
  BY <1>4, <1>7, <1>8, <1>9, <1>10, SinglesAround, ZenonT(40)
<1>12. QED  BY <1>3, <1>5, <1>6, <1>11 DEF x

\* What the parser it defers to makes of words.
LEMMA UpstreamPlain ==
    ASSUME NEW S, NEW u \in Seq(S), \A i \in 1 .. Len(u) : u[i] # R!END, Len(u) > 0, ~closed
    PROVE  R!Upstream(u) = [reasoning |-> u, content |-> <<>>]
<1>1. R!DeltaText(u) = u
  BY DeltaPlain
<1>2. ~(\E i \in DOMAIN u : u[i] = R!END)
  OBVIOUS
<1>3. u # <<R!END>>
  <2> SUFFICES ASSUME u = <<R!END>> PROVE FALSE
    OBVIOUS
  <2>1. u[1] = R!END /\ 1 \in DOMAIN u
    OBVIOUS
  <2>2. QED  BY <1>2, <2>1
<1>4. QED  BY <1>1, <1>2, <1>3, Zenon DEF R!Upstream

\* And of a delta with the end tag.
LEMMA UpstreamEnding ==
    ASSUME NEW S, {LT, CLOSE, R!END} \subseteq S, NEW u \in Seq(S), NEW v \in Seq(S),
           \A i \in 1 .. Len(u) : u[i] # R!END /\ u[i] # CLOSE,
           \A i \in 1 .. Len(v) : v[i] # R!END
    PROVE  R!Upstream(Ending(u, v)) = [reasoning |-> u, content |-> v]
<1> DEFINE x == Ending(u, v)
           m == Len(u)
           n == Len(v)
           new == u \o (ThinkClose \o v)
           p == R!Find(new, R!ThinkClose)
<1>1. /\ x \in Seq(S) /\ Len(x) = m + 1 + n /\ DOMAIN x = 1 .. Len(x)
      /\ x[m + 1] = R!END
  BY EndingIs
<1>2. m \in Nat /\ n \in Nat
  OBVIOUS
<1>3. R!DeltaText(x) = new
  BY DeltaEnding
<1>4. \E i \in DOMAIN x : x[i] = R!END
  <2>1. m + 1 \in DOMAIN x
    BY <1>1, <1>2
  <2>2. QED  BY <1>1, <2>1
<1> HIDE DEF x
<1>5. CASE x = <<R!END>>
  <2>1. Len(x) = 1
    BY <1>5
  <2>2. m = 0 /\ n = 0
    BY <1>1, <1>2, <2>1
  <2>3. u = <<>> /\ v = <<>>
    BY <2>2
  <2>4. R!Upstream(<<R!END>>) = R!Nothing
    BY DEF R!Upstream
  <2>5. R!Upstream(x) = [reasoning |-> u, content |-> v]
    BY <1>5, <2>3, <2>4, Zenon DEF R!Nothing
  <2>6. QED  BY <2>5 DEF x
<1>6. CASE x # <<R!END>>
  <2>1. R!Upstream(x) = [reasoning |-> R!Before(new, p),
                         content |-> R!From(new, p + Len(R!ThinkClose))]
    BY <1>3, <1>4, <1>6, Zenon DEF R!Upstream
  <2>2. /\ p = Find(new, ThinkClose) /\ R!ThinkClose = ThinkClose
        /\ \A s, q : R!Before(s, q) = Before(s, q) /\ R!From(s, q) = From(s, q)
    BY SameOperators, Zenon
  <2>3. /\ Before(new, Find(new, ThinkClose)) = u
        /\ From(new, Find(new, ThinkClose) + Len(ThinkClose)) = v
    BY FirstCloseAt
  <2> HIDE DEF new, p
  <2>4. R!Before(new, p) = u /\ R!From(new, p + Len(R!ThinkClose)) = v
    BY <2>2, <2>3, Zenon
  <2>5. QED  BY <2>1, <2>4 DEF x
<1>7. QED  BY <1>5, <1>6

\* Until a tag has come of an opener that has lost no more than its "<", the
\* words before it are given out.
LEMMA HeldSplit ==
    ASSUME NEW S, NEW w \in Seq(S), Quiet(w), Len(w) > 0,
           NEW t, NEW k, BlockFrom(S, t, k), NEW f \in 0 .. Len(t), k >= 2, f < k
    PROVE  LET x == w \o Before(t, f)
           IN  /\ EarliestToolTagPos(x) < 0 /\ TrailingPartialTagLen(x) = f
               /\ Split(x).reasoning = w /\ Split(x).content = <<>>
<1> DEFINE x == w \o Before(t, f)
<1>1. EarliestToolTagPos(x) < 0 /\ TrailingPartialTagLen(x) = f
  BY BlockHeld
<1>2. t \in Seq(S)
  BY DEF BlockFrom
<1>3. x \in Seq(S) /\ Len(x) = Len(w) + f /\ Len(w) \in Nat /\ Before(x, Len(w)) = w
  BY <1>2, Behind
<1> HIDE DEF x
<1>4. /\ Split(x).reasoning = Before(x, Len(x) - TrailingPartialTagLen(x))
      /\ Split(x).content = <<>>
  BY <1>1, <1>3, SplitNoTag
<1>5. Len(x) - TrailingPartialTagLen(x) = Len(w)
  BY <1>1, <1>3
<1>6. QED  BY <1>1, <1>3, <1>4, <1>5 DEF x

\* The same of where the text is split, and of what the split gives out.
LEMMA SameBoundaries ==
    ASSUME NEW t, NEW u
    PROVE  /\ R!EarliestToolTagPos(t) = EarliestToolTagPos(t)
           /\ R!TrailingPartialTagLen(t) = TrailingPartialTagLen(t)
           /\ R!TagPresentOrForming(t) <=> TagPresentOrForming(t)
           /\ R!StreamDeltas(t, u) = StreamDeltas(t, u)
<1>1. R!EarliestToolTagPos(t) = EarliestToolTagPos(t)
  BY Zenon DEF R!EarliestToolTagPos, EarliestToolTagPos, R!ToolStartTags, ToolStartTags,
     R!HeadlessTags, HeadlessTags, R!AllTags, AllTags, R!Find, Find, R!Occurrences, Occurrences,
     R!Min, Min, R!LT, LT, R!DSML, DSML, R!CALLS, CALLS, R!FUNCS, FUNCS
<1>2. R!TrailingPartialTagLen(t) = TrailingPartialTagLen(t)
  BY Zenon DEF R!TrailingPartialTagLen, TrailingPartialTagLen, R!TrailingPartial,
     TrailingPartial, R!ToolStartTags, ToolStartTags, R!HeadlessTags, HeadlessTags,
     R!AllTags, AllTags, R!Max, Max, R!Before, Before, R!IsSuffix, IsSuffix, R!IsPrefix, IsPrefix,
     R!Reverse, Reverse, R!LT, LT, R!DSML, DSML, R!CALLS, CALLS, R!FUNCS, FUNCS
<1>3. R!TagPresentOrForming(t) <=> TagPresentOrForming(t)
  BY <1>1, <1>2 DEF R!TagPresentOrForming, TagPresentOrForming
<1>4. R!StreamDeltas(t, u) = StreamDeltas(t, u)
  <2>1. R!Split(t) = Split(t) /\ R!Split(u) = Split(u)
    BY SameOperators
  <2>2. \A y, s : R!From(y, s) = From(y, s)
    BY SameOperators
  <2>3. QED  BY <2>1, <2>2 DEF R!StreamDeltas, StreamDeltas
<1>5. QED  BY <1>1, <1>2, <1>3, <1>4

\* A step gives out its reasoning, and all of its content if nothing of it is
\* withheld.
LEMMA EmitsWhole ==
    ASSUME NEW S, NEW r, NEW c \in Seq(S), R!Emit([reasoning |-> r, content |-> c]),
           pending = <<>>, toContent = <<>>,
           \A i \in 1 .. Len(c) : c[i] # CLOSE,
           pending' = <<>> \/ (Len(c) > 0 => c[Len(c)] # LT)
    PROVE  /\ reasoning' = reasoning \o r
           /\ toContent' = c /\ pending' = <<>>
           /\ From(toContent', Len(toContent)) = c
<1>1. reasoning' = reasoning \o r
  BY DEF R!Emit
<1>2. toContent' = c /\ pending' = <<>>
  <2>1. CASE c = <<>>
    <3>1. toContent' = toContent /\ pending' = pending
      BY <2>1 DEF R!Emit
    <3>2. QED  BY <2>1, <3>1
  <2>2. CASE c # <<>>
    <3> DEFINE filtered == R!FilterThinkClose(pending, c)
    <3>1. filtered = FilterThinkClose(<<>>, c)
      BY SameOperators
    <3>2. toContent' = toContent \o filtered.emit /\ pending' = filtered.pending
      BY <2>2, Zenon DEF R!Emit
    <3> HIDE DEF filtered
    <3>3. FilterThinkClose(<<>>, c).pending = <<>> \/ (Len(c) > 0 => c[Len(c)] # LT)
      BY <3>1, <3>2
    <3>4. filtered.emit = c /\ filtered.pending = <<>>
      BY <3>1, <3>3, FilterPasses
    <3>5. <<>> \o c = c
      BY ConcatEmptySeq
    <3>6. QED  BY <3>2, <3>4, <3>5
  <2>3. QED  BY <2>1, <2>2
<1>3. From(c, Len(toContent)) = c
  <2>1. From(c, 0) = c
    BY SlicesOfText
  <2>2. Len(toContent) = 0
    OBVIOUS
  <2>3. QED  BY <2>1, <2>2
<1>4. QED  BY <1>1, <1>2, <1>3

-----------------------------------------------------------------------------
\* A delta of the tokens th \o t: a and f of them have come before it, and b
\* and g with it.
Moves(th, t, a, f, b, g, delta) ==
    /\ a \in 0 .. Len(th) /\ f \in 0 .. Len(t) /\ (f = 0 \/ a = Len(th))
    /\ b \in 0 .. Len(th) /\ g \in 0 .. Len(t) /\ (g = 0 \/ b = Len(th))
    /\ a =< b /\ f =< g /\ a + f < b + g
    /\ delta = SubSeq(th \o t, (a + f) + 1, b + g)

\* So much of them has come.
HaveCome(S, th, t, a, f) ==
    /\ th \in Seq(S) /\ t \in Seq(S)
    /\ a \in 0 .. Len(th) /\ f \in 0 .. Len(t) /\ (f = 0 \/ a = Len(th))

\* The front of thoughts and output is a front of the one and a front of the other.
LEMMA FrontOfBoth ==
    ASSUME NEW S, NEW th, NEW t, NEW a, NEW f, HaveCome(S, th, t, a, f)
    PROVE  Before(th \o t, a + f) = Before(th, a) \o Before(t, f)
<1> USE DEF HaveCome
<1>1. Before(th, a) \in Seq(S)
  BY Slices
<1>2. CASE f = 0
  <2>1. Before(th \o t, a) = Before(th, a)
    BY RestJoins
  <2>2. Before(t, f) = <<>> /\ a + f = a
    BY <1>2, SlicesOfText
  <2>3. Before(th, a) \o <<>> = Before(th, a)
    BY <1>1, ConcatEmptySeq
  <2>4. QED  BY <2>1, <2>2, <2>3
<1>3. CASE ~(f = 0)
  <2>1. a = Len(th)
    BY <1>3
  <2>2. Before(th \o t, Len(th) + f) = th \o Before(t, f)
    BY RestOfSecond
  <2>3. Before(th, a) = th
    BY <2>1 DEF Before
  <2>4. QED  BY <1>3, <2>1, <2>2, <2>3
<1>4. QED  BY <1>2, <1>3

\* What the delta is made of.
LEMMA MovesOn ==
    ASSUME NEW S, NEW th \in Seq(S), NEW t \in Seq(S), NEW a, NEW f, NEW b, NEW g, NEW delta,
           Moves(th, t, a, f, b, g, delta)
    PROVE  /\ delta \in Seq(S) /\ Len(delta) = (b + g) - (a + f) /\ Len(delta) > 0
           /\ Before(th \o t, a + f) \o delta = Before(th \o t, b + g)
           /\ \A i \in 1 .. (b + g) - (a + f) :
                /\ (a + f) + i =< Len(th) => delta[i] = th[(a + f) + i]
                /\ (a + f) + i > Len(th) => delta[i] = t[((a + f) + i) - Len(th)]
<1> DEFINE x == th \o t
           p == a + f
           q == b + g
           l == Len(th)
<1>1. /\ x \in Seq(S) /\ Len(x) = Len(th) + Len(t)
      /\ \A i \in 1 .. Len(th) : x[i] = th[i]
      /\ \A i \in 1 .. Len(t) : x[Len(th) + i] = t[i]
  BY Joined
<1>2. l \in Nat /\ Len(t) \in Nat
  OBVIOUS
<1> HIDE DEF x
<1>3. p \in Nat /\ q \in Nat /\ p < q /\ q =< Len(x)
  BY <1>1, <1>2 DEF Moves
<1>4. delta = SubSeq(x, p + 1, q)
  BY DEF Moves, x
<1> HIDE DEF p, q
<1>5. /\ Before(x, p) \o delta = Before(x, q)
      /\ delta \in Seq(S) /\ Len(delta) = q - p /\ \A i \in 1 .. q - p : delta[i] = x[p + i]
  <2>1. p =< q /\ q =< Len(x) /\ p \in Nat /\ q \in Nat /\ x \in Seq(S)
    BY <1>1, <1>3
  <2> DEFINE y == SubSeq(x, p + 1, q)
  <2>2. /\ Before(x, p) \o y = Before(x, q)
        /\ y \in Seq(S) /\ Len(y) = q - p /\ \A i \in 1 .. q - p : y[i] = x[p + i]
    BY <2>1, NextSlice
  <2> HIDE DEF y
  <2>3. delta = y
    BY <1>4 DEF y
  <2>4. QED  BY <2>2, <2>3
<1>6. ASSUME NEW i \in 1 .. q - p
      PROVE  /\ p + i =< l => delta[i] = th[p + i]
             /\ p + i > l => delta[i] = t[(p + i) - l]
  <2>1. delta[i] = x[p + i]
    BY <1>5
  <2>2. ASSUME p + i =< l PROVE x[p + i] = th[p + i]
    <3>1. p + i \in 1 .. Len(th)
      BY <1>2, <1>3, <2>2
    <3>2. QED  BY <1>1, <3>1
  <2>3. ASSUME p + i > l PROVE x[p + i] = t[(p + i) - l]
    <3>1. (p + i) - l \in 1 .. Len(t) /\ l + ((p + i) - l) = p + i
      BY <1>1, <1>2, <1>3, <2>3
    <3>2. x[l + ((p + i) - l)] = t[(p + i) - l]
      BY <1>1, <3>1
    <3>3. QED  BY <3>1, <3>2
  <2>4. QED  BY <2>1, <2>2, <2>3
<1>7. Len(delta) > 0
  BY <1>3, <1>5
<1>8. QED  BY <1>5, <1>6, <1>7 DEF x, p, q, l

\* A delta before the end tag is words, and pieces of the output behind them.
LEMMA PlainMove ==
    ASSUME NEW S, NEW th, NEW t, NEW k, Spoken(S, th, t, k),
           NEW a, NEW f, NEW b, NEW g, NEW delta, Moves(th, t, a, f, b, g, delta),
           Closes(th) => b < Len(th)
    PROVE  /\ delta \in Seq(S) /\ Len(delta) > 0
           /\ \A i \in 1 .. Len(delta) : delta[i] # R!END
           /\ Before(th \o t, a + f) \o delta = Before(th \o t, b + g)
           /\ g = 0 => Before(th, a) \o delta = Before(th, b)
<1>1. th \in Seq(S) /\ t \in Seq(S) /\ \A i \in 1 .. Len(t) : t[i] # R!END
  BY DEF Spoken, BlockFrom
<1>2. /\ a \in 0 .. Len(th) /\ f \in 0 .. Len(t) /\ (f = 0 \/ a = Len(th))
      /\ b \in 0 .. Len(th) /\ g \in 0 .. Len(t) /\ (g = 0 \/ b = Len(th))
      /\ a =< b /\ f =< g /\ a + f < b + g
  BY DEF Moves
<1>3. /\ delta \in Seq(S) /\ Len(delta) = (b + g) - (a + f) /\ Len(delta) > 0
      /\ Before(th \o t, a + f) \o delta = Before(th \o t, b + g)
      /\ \A i \in 1 .. (b + g) - (a + f) :
           /\ (a + f) + i =< Len(th) => delta[i] = th[(a + f) + i]
           /\ (a + f) + i > Len(th) => delta[i] = t[((a + f) + i) - Len(th)]
  BY <1>1, MovesOn
<1>4. \A i \in 1 .. b : th[i] # R!END
  BY <1>2, WordsBefore
<1> DEFINE l == Len(th)
<1>5. l \in Nat /\ Len(t) \in Nat
  BY <1>1
<1>6. ASSUME NEW i \in 1 .. Len(delta) PROVE delta[i] # R!END
  <2> DEFINE p == a + f
  <2>1. p \in Nat /\ i \in 1 .. (b + g) - p /\ p + i =< b + g
    BY <1>2, <1>3
  <2>2. CASE p + i =< l
    <3>1. p + i =< b
      BY <1>2, <1>5, <2>1, <2>2
    <3>2. p + i \in 1 .. b
      BY <2>1, <3>1
    <3>3. delta[i] = th[p + i]
      BY <1>3, <2>1, <2>2
    <3>4. QED  BY <1>4, <3>2, <3>3
  <2>3. CASE p + i > l
    <3>1. (p + i) - l \in 1 .. Len(t)
      BY <1>2, <1>5, <2>1, <2>3
    <3>2. delta[i] = t[(p + i) - l]
      BY <1>3, <2>1, <2>3
    <3>3. QED  BY <1>1, <3>1, <3>2
  <2>4. QED  BY <1>5, <2>1, <2>2, <2>3
<1>7. ASSUME g = 0 PROVE Before(th, a) \o delta = Before(th, b)
  <2>1. f = 0 /\ a + f = a /\ b + g = b
    BY <1>2, <1>7
  <2>2. Before(th \o t, a) = Before(th, a)
    BY <1>1, <1>2, RestJoins
  <2>3. Before(th \o t, b) = Before(th, b)
    BY <1>1, <1>2, RestJoins
  <2>4. Before(th \o t, a) \o delta = Before(th \o t, b)
    BY <1>3, <2>1
  <2>5. QED  BY <2>2, <2>3, <2>4
<1>8. QED  BY <1>3, <1>6, <1>7

\* A delta with the end tag in it has words before it and pieces of the output
\* behind it.
LEMMA EndMove ==
    ASSUME NEW S, NEW th, NEW t, NEW k, Spoken(S, th, t, k),
           NEW a, NEW f, NEW b, NEW g, NEW delta, Moves(th, t, a, f, b, g, delta),
           Closes(th), a < Len(th), b = Len(th)
    PROVE  LET u == SubSeq(th, a + 1, Len(th) - 1)
           IN  /\ delta = Ending(u, Before(t, g))
               /\ u \in Seq(S) /\ Before(t, g) \in Seq(S)
               /\ \A i \in 1 .. Len(u) : u[i] # R!END /\ u[i] # CLOSE
               /\ \A i \in 1 .. Len(Before(t, g)) : /\ Before(t, g)[i] # R!END
                                                    /\ Before(t, g)[i] # CLOSE
               /\ Before(th, a) \o u = Front(th)
<1> DEFINE l == Len(th)
           e == l - 1
           u == SubSeq(th, a + 1, e)
           v == Before(t, g)
           x == Ending(u, v)
<1>1. /\ th \in Seq(S) /\ t \in Seq(S) /\ R!END \in S /\ l > 0 /\ l \in Nat /\ Len(t) \in Nat
      /\ \A i \in 1 .. Len(t) : t[i] # R!END /\ t[i] # CLOSE
      /\ th[l] = R!END
  BY DEF Spoken, BlockFrom
<1>2. /\ a \in Nat /\ f = 0 /\ g \in 0 .. Len(t) /\ a < l /\ e \in Nat /\ e \in 0 .. Len(th)
      /\ e < Len(th) /\ a =< e /\ e =< Len(th) /\ e + 1 = l
  BY <1>1 DEF Moves
<1>3. /\ delta \in Seq(S) /\ Len(delta) = (b + g) - (a + f)
      /\ \A i \in 1 .. (b + g) - (a + f) :
           /\ (a + f) + i =< Len(th) => delta[i] = th[(a + f) + i]
           /\ (a + f) + i > Len(th) => delta[i] = t[((a + f) + i) - Len(th)]
  BY <1>1, MovesOn
<1>4. (b + g) - (a + f) = (l + g) - a /\ a + f = a
  BY <1>1, <1>2
<1>5. \A i \in 1 .. e : th[i] = WORD
  BY <1>2, WordsBefore
<1> HIDE DEF e
<1>6. /\ Before(th, a) \o u = Before(th, e) /\ u \in Seq(S) /\ Len(u) = e - a
      /\ \A i \in 1 .. e - a : u[i] = th[a + i]
  <2>1. /\ th \in Seq(S) /\ a \in Nat /\ e \in Nat /\ a =< e /\ e =< Len(th)
    BY <1>1, <1>2
  <2>2. QED  BY <2>1, NextSlice
<1>7. v \in Seq(S) /\ Len(v) = g /\ \A i \in 1 .. g : v[i] = t[i]
  BY <1>1, <1>2, Slices
<1> HIDE DEF u, v
<1>8. /\ x \in Seq(S) /\ Len(x) = Len(u) + 1 + Len(v)
      /\ \A i \in 1 .. Len(u) : x[i] = u[i]
      /\ x[Len(u) + 1] = R!END
      /\ \A i \in 1 .. Len(v) : x[Len(u) + 1 + i] = v[i]
  <2>1. R!END \in S /\ u \in Seq(S) /\ v \in Seq(S)
    BY <1>1, <1>6, <1>7
  <2>2. QED  BY <2>1, EndingIs
<1> HIDE DEF x
<1> DEFINE m == e - a
<1>9. m \in Nat /\ g \in Nat /\ Len(u) = m /\ Len(v) = g /\ a + m = e /\ a + (m + 1) = l
  BY <1>2, <1>6, <1>7
<1>10. Len(delta) = m + 1 + g /\ Len(x) = m + 1 + g
  <2>1. Len(delta) = (l + g) - a
    BY <1>3, <1>4
  <2>2. Len(x) = Len(u) + 1 + Len(v)
    BY <1>8
  <2> HIDE DEF m, l
  <2>3. l \in Nat /\ a \in Nat /\ g \in Nat /\ m \in Nat /\ a + (m + 1) = l
    BY <1>1, <1>2, <1>9
  <2>4. QED  BY <1>9, <2>1, <2>2, <2>3
<1>11. \A i \in 1 .. m + 1 + g :
          /\ a + i =< l => delta[i] = th[a + i]
          /\ a + i > l => delta[i] = t[(a + i) - l]
  <2>1. (b + g) - (a + f) = m + 1 + g
    BY <1>3, <1>10
  <2> HIDE DEF m
  <2>2. QED  BY <1>3, <1>4, <2>1
<1> HIDE DEF m, l
<1>12. \A i \in 1 .. Len(delta) : delta[i] = x[i]
  <2> TAKE i \in 1 .. Len(delta)
  <2>1. i \in 1 .. m + 1 + g
    BY <1>10
  <2>2. CASE i =< m
    <3>1. i \in 1 .. m /\ a + i =< l
      BY <1>1, <1>2, <1>9, <2>1, <2>2
    <3>2. delta[i] = th[a + i] /\ x[i] = u[i] /\ u[i] = th[a + i]
      BY <1>6, <1>8, <1>9, <1>11, <2>1, <3>1 DEF m
    <3>3. QED  BY <3>2
  <2>3. CASE i = m + 1
    <3>1. a + i = l /\ l =< l
      BY <1>1, <1>9, <2>3
    <3>2. delta[i] = th[l]
      BY <1>11, <2>1, <3>1
    <3>3. QED  BY <1>1, <1>8, <1>9, <2>3, <3>2
  <2>4. CASE i > m + 1
    <3> DEFINE j == i - (m + 1)
    <3>1. j \in 1 .. g /\ m + 1 + j = i /\ (a + i) - l = j /\ a + i > l
      BY <1>1, <1>2, <1>9, <2>1, <2>4
    <3> HIDE DEF j
    <3>2. delta[i] = t[j]
      BY <1>11, <2>1, <3>1
    <3>3. x[m + 1 + j] = v[j] /\ v[j] = t[j]
      BY <1>7, <1>8, <1>9, <3>1
    <3>4. QED  BY <3>1, <3>2, <3>3
  <2>5. QED  BY <1>9, <2>1, <2>2, <2>3, <2>4
<1>13. delta = x
  BY <1>3, <1>8, <1>10, <1>12, SameSequence
<1>14. \A i \in 1 .. Len(u) : u[i] # R!END /\ u[i] # CLOSE
  <2> TAKE i \in 1 .. Len(u)
  <2>1. a + i \in 1 .. e /\ i \in 1 .. e - a
    BY <1>2, <1>6
  <2>2. u[i] = WORD
    BY <1>5, <1>6, <2>1
  <2>3. QED  BY <2>2 DEF WORD, CLOSE, R!END
<1>15. \A i \in 1 .. Len(v) : v[i] # R!END /\ v[i] # CLOSE
  <2>1. /\ Len(v) = g /\ \A i \in 1 .. g : v[i] = t[i]
        /\ g \in 0 .. Len(t) /\ Len(t) \in Nat
    BY <1>1, <1>2, <1>7
  <2>2. \A i \in 1 .. g : i \in 1 .. Len(t)
    BY <2>1
  <2>3. QED  BY <1>1, <2>1, <2>2
<1>16. Front(th) = Before(th, e)
  BY DEF Front, Before, e, l
<1>17. QED  BY <1>6, <1>7, <1>13, <1>14, <1>15, <1>16 DEF x, u, v, e, l

\* The end of a start tag is ahead, alone.
LEMMA MarkerWaits ==
    ASSUME NEW S, NEW o, NEW d, OutputIn(S, o, d), NEW c \in Seq(S),
           \A i \in 1 .. Len(c) : c[i] = CALLS,
           Occurrences(StartToken, c \o (o.block \o o.after)) = {}
    PROVE  OpenerAhead(c \o (o.block \o o.after), o, d)
<1> DEFINE T == Seq(S)
           lead == d.lead
           calls0 == AfterCalls(o, d, 0)
           rest == o.block \o o.after
           x == c \o lead
           m == Len(c)
           n == Len(lead)
<1>1. rest = lead \o calls0 /\ lead \in Seq(S)
  BY BlockIs
<1>2. calls0 \in Seq(S)
  BY FirstCallIs
<1>3. \A i \in 1 .. n : lead[i] = WS
  <2>1. WS \in S /\ d.lead \in Spaces
    BY Zenon DEF OutputIn, WellFormed, IsDerivation, Marks
  <2>2. QED  BY <2>1, SpacesTyped
<1>4. m \in Nat /\ n \in Nat
  BY <1>1
<1> HIDE DEF lead, calls0, rest
<1>5. /\ x \in Seq(S) /\ Len(x) = m + n
      /\ \A i \in 1 .. m : x[i] = c[i]
      /\ \A i \in 1 .. n : x[m + i] = lead[i]
  BY <1>1, Joined
<1>6. c \o rest = x \o calls0
  <2>1. Joined3(T, c, lead, calls0)
    BY <1>1, <1>2, SeqJoinable DEF Joined3
  <2> HIDE DEF T
  <2>2. c \o (lead \o calls0) = x \o calls0
    BY <2>1, JoinsThree
  <2>3. QED  BY <1>1, <2>2
<1> HIDE DEF x
<1>7. x \in Fronts(c \o rest)
  <2>1. x \in Fronts(x \o calls0)
    BY <1>2, <1>5, FrontOf
  <2>2. QED  BY <1>6, <2>1
<1>8. ASSUME NEW i \in 1 .. Len(x) PROVE x[i] \in {CALLS, WS}
  <2> HIDE DEF m, n
  <2>1. CASE i =< m
    <3>1. i \in 1 .. m
      BY <1>4, <1>5, <2>1
    <3>2. x[i] = c[i] /\ c[i] = CALLS
      BY <1>5, <3>1 DEF m
    <3>3. QED  BY <3>2
  <2>2. CASE i > m
    <3>1. i - m \in 1 .. n /\ m + (i - m) = i
      BY <1>4, <1>5, <2>2
    <3>2. x[m + (i - m)] = lead[i - m]
      BY <1>5, <3>1
    <3>3. QED  BY <1>3, <3>1, <3>2
  <2>3. QED  BY <1>4, <1>5, <2>1, <2>2
<1>9. DSML \notin Range(x) /\ LT \notin Range(x)
  <2>1. Range(x) = {x[i] : i \in 1 .. Len(x)}
    <3>1. x \in Seq(S)
      BY <1>5
    <3>2. QED  BY <3>1, RangeIs
  <2>2. QED  BY <1>8, <2>1, MarksDiffer
<1>10. c \o rest = x \o AfterCalls(o, d, 0) /\ Occurrences(StartToken, c \o rest) = {}
  BY <1>6 DEF calls0, rest
<1> DEFINE left == c \o rest
<1> HIDE DEF left
<1>11. x \in Fronts(left) /\ left = x \o AfterCalls(o, d, 0) /\ Occurrences(StartToken, left) = {}
  BY <1>7, <1>10 DEF left
<1>12. OpenerAhead(left, o, d)
  BY <1>9, <1>11 DEF OpenerAhead
<1>13. QED  BY <1>12 DEF left, rest

-----------------------------------------------------------------------------
\* An output without text around its block.
Alone(S, o, d) ==
    /\ OutputIn(S, o, d)
    /\ BlockFrom(S, TextOf(o), Len(o.opener))
    /\ From(TextOf(o), Len(o.opener)) = o.block \o o.after
    /\ TextOf(o) = o.opener \o (o.block \o o.after)

\* What has come and what is to come is all of it.
LEMMA AllAhead ==
    ASSUME NEW S, NEW o, NEW d, Alone(S, o, d), NEW f \in 0 .. Len(TextOf(o))
    PROVE  OpenerAhead(Before(TextOf(o), f) \o From(TextOf(o), f), o, d)
<1>1. TextOf(o) \in Seq(S) /\ OutputIn(S, o, d)
  BY DEF Alone, BlockFrom
<1>2. Before(TextOf(o), f) \o From(TextOf(o), f) = TextOf(o)
  BY <1>1, Slices
<1>3. QED  BY <1>1, <1>2, OpenerWaits

\* The whole tag that the split gives out, and the rest.
LEMMA GivenAhead ==
    ASSUME NEW S, NEW o, NEW d, Alone(S, o, d), NEW f \in 0 .. Len(TextOf(o)),
           f >= Len(o.opener)
    PROVE  OpenerAhead((WholeTag \o From(Before(TextOf(o), f), Len(o.opener)))
                         \o From(TextOf(o), f), o, d)
<1> DEFINE t == TextOf(o)
           k == Len(o.opener)
           rest == o.block \o o.after
           x == Before(t, f)
           y == From(t, f)
           z == From(x, k)
<1>1. /\ t \in Seq(S) /\ k \in 0 .. 3 /\ OutputIn(S, o, d) /\ From(t, k) = rest
      /\ StartToken \in Seq(S) /\ WholeTag = StartToken
  <2>1. Marks \subseteq S
    BY DEF Alone, OutputIn
  <2>2. QED  BY <2>1, TagsTyped, StartPieces DEF Alone, BlockFrom
<1> HIDE DEF t, rest
<1>2. x \in Seq(S) /\ Len(x) = f /\ y \in Seq(S) /\ x \o y = t
  <2>1. t \in Seq(S) /\ f \in 0 .. Len(t)
    BY <1>1 DEF t
  <2>2. QED  BY <2>1, Slices
<1> HIDE DEF x, y
<1>3. k \in 0 .. Len(x)
  BY <1>1, <1>2
<1>4. From(x \o y, k) = z \o y /\ z \in Seq(S)
  <2>1. x \in Seq(S) /\ y \in Seq(S)
    BY <1>2
  <2> HIDE DEF k
  <2>2. From(x \o y, k) = z \o y
    BY <2>1, <1>3, RestJoins
  <2>3. z \in Seq(S)
    BY <2>1, <1>3, Slices
  <2>4. QED  BY <2>2, <2>3
<1>5. z \o y = rest
  BY <1>1, <1>2, <1>4
<1> HIDE DEF z
<1>6. (WholeTag \o z) \o y = StartToken \o rest /\ rest \in Seq(S)
  <2>1. Joined3(Seq(S), StartToken, z, y)
    BY <1>1, <1>2, <1>4, SeqJoinable DEF Joined3
  <2> DEFINE T == Seq(S)
  <2> HIDE DEF T
  <2>6. Joined3(T, StartToken, z, y)
    BY <2>1 DEF T
  <2>7. StartToken \o (z \o y) = (StartToken \o z) \o y /\ z \o y \in T
    BY <2>6, JoinsThree
  <2>2. StartToken \o (z \o y) = (StartToken \o z) \o y /\ z \o y \in Seq(S)
    BY <2>7 DEF T
  <2>3. StartToken \o rest = (StartToken \o z) \o y /\ rest \in Seq(S)
    BY <1>5, <2>2, Zenon
  <2>4. WholeTag = StartToken
    BY <1>1
  <2>5. QED  BY <2>3, <2>4, Zenon
<1> DEFINE left == (WholeTag \o z) \o y
           none == <<>>
<1> HIDE DEF left
<1>7. none \in Fronts(left) /\ left = none \o (StartToken \o rest) /\ DSML \notin Range(none)
  <2>1. StartToken \o rest \in Seq(S)
    BY <1>1, <1>6
  <2>2. none \o (StartToken \o rest) = StartToken \o rest /\ none \in Seq(S)
    BY <2>1, ConcatEmptySeq
  <2>3. left = StartToken \o rest
    BY <1>6 DEF left
  <2> DEFINE u == StartToken \o rest
  <2> HIDE DEF none, u
  <2>4. none \in Fronts(none \o u)
    BY <2>1, <2>2, FrontOf DEF u
  <2>5. none \o u = u /\ left = u
    BY <2>2, <2>3 DEF u
  <2>6. Range(none) = {}
    BY DEF none, Range
  <2>7. none \in Fronts(left) /\ left = none \o u /\ DSML \notin Range(none)
    BY <2>4, <2>5, <2>6
  <2>8. QED  BY <2>7 DEF u
<1> HIDE DEF none
<1>8. left = none \o (StartToken \o (o.block \o o.after))
  BY <1>7 DEF rest
<1>9. OpenerAhead(left, o, d)
  BY <1>7, <1>8 DEF OpenerAhead
<1>10. QED  BY <1>9 DEF left, z, x, y, t, k

\* Where a start tag stands, its pieces do.
LEMMA StartTagAt ==
    ASSUME NEW S, NEW x \in Seq(S), NEW q \in Occurrences(StartToken, x)
    PROVE  q \in Nat /\ q + 3 =< Len(x) /\ x[q + 3] = CALLS /\ x[q + 1] = LT
<1> DEFINE tag == StartToken
           T == {LT, DSML, CALLS}
<1>1. /\ tag \in Seq(T) /\ Len(tag) = 3 /\ tag[1] = LT /\ tag[3] = CALLS
      /\ q \in Occurrences(tag, x)
  BY Tags, TagPiecesAre
<1> HIDE DEF tag, T
<1>2. q \in Nat /\ q + Len(tag) =< Len(x) /\ \A i \in 1 .. Len(tag) : x[q + i] = tag[i]
  <2>1. tag \in Seq(T) /\ q \in Occurrences(tag, x)
    BY <1>1
  <2>2. QED  BY <2>1, OccursPieces
<1>3. 1 \in 1 .. Len(tag) /\ 3 \in 1 .. Len(tag)
  BY <1>1
<1>4. QED  BY <1>1, <1>2, <1>3

\* No start tag is whole behind its first piece.
LEMMA NoWholeTag ==
    ASSUME NEW S, NEW t, NEW k, BlockFrom(S, t, k), NEW f \in 0 .. Len(t), 0 < f
    PROVE  Occurrences(StartToken, From(t, f)) = {}
<1> DEFINE n == Len(t)
           x == From(t, f)
<1>1. /\ t \in Seq(S) /\ k \in 0 .. 3 /\ n >= k + 4 /\ n \in Nat
      /\ \A i \in 1 .. n : i > k /\ i < n => t[i] # CALLS
      /\ t[n - 2] # LT
  BY DEF BlockFrom
<1>2. x \in Seq(S) /\ Len(x) = n - f /\ \A i \in 1 .. n - f : x[i] = t[i + f]
  <2>1. t \in Seq(S) /\ f \in 0 .. Len(t)
    BY <1>1
  <2>2. /\ From(t, f) \in Seq(S) /\ Len(From(t, f)) = Len(t) - f
        /\ \A i \in 1 .. Len(t) - f : From(t, f)[i] = t[i + f]
    BY <2>1, Slices
  <2>3. QED  BY <2>2
<1> HIDE DEF x
<1> SUFFICES Occurrences(StartToken, x) = {}
  BY DEF x
<1>3. SUFFICES ASSUME NEW q \in Occurrences(StartToken, x) PROVE FALSE
  BY Zenon
<1>5. q \in Nat /\ q + 3 =< Len(x) /\ x[q + 3] = CALLS /\ x[q + 1] = LT
  BY <1>2, <1>3, StartTagAt
<1>6. x[q + 3] = CALLS /\ x[q + 1] = LT
  BY <1>5
<1> HIDE DEF n
<1>7. /\ q + 3 \in 1 .. n - f /\ q + 1 \in 1 .. n - f /\ f \in Nat
      /\ (q + 3) + f \in 1 .. n /\ (q + 3) + f > k
  BY <1>1, <1>2, <1>5 DEF n
<1>8. t[(q + 3) + f] = CALLS /\ t[(q + 1) + f] = LT
  BY <1>2, <1>6, <1>7
<1>9. ~((q + 3) + f < n)
  BY <1>1, <1>7, <1>8
<1>10. (q + 1) + f = n - 2
  BY <1>1, <1>5, <1>7, <1>9
<1>11. QED  BY <1>1, <1>8, <1>10

\* What is left of an opener that the reasoning parser has held back a part
\* of: that part is not given to the tool parser.
LEMMA RestAhead ==
    ASSUME NEW S, NEW o, NEW d, Alone(S, o, d), NEW f \in 0 .. Len(TextOf(o)),
           0 < f, f < Len(o.opener)
    PROVE  OpenerAhead(From(TextOf(o), f), o, d)
<1> DEFINE t == TextOf(o)
           s == o.opener
           k == Len(s)
           rest == o.block \o o.after
           c == From(s, f)
           left == From(t, f)
<1>1. /\ t \in Seq(S) /\ k \in 0 .. 3 /\ OutputIn(S, o, d) /\ o \in Outputs /\ BlockFrom(S, t, k)
      /\ t = s \o rest
  BY DEF Alone, BlockFrom, OutputIn
<1>2. s \in Seq(S) /\ rest \in Seq(S) /\ Marks \subseteq S
  <2>1. Laid3(Seq(S), o) /\ Marks \subseteq S
    BY <1>1 DEF OutputIn
  <2>2. QED  BY <2>1 DEF Laid3
<1>3. \A i \in 1 .. k : s[i] = StartToken[(3 - k) + i]
  <2>1. o \in Outputs
    BY <1>1
  <2>2. QED  BY <2>1, OpenerPieces
<1>4. Occurrences(StartToken, left) = {}
  <2>1. BlockFrom(S, t, k) /\ f \in 0 .. Len(t) /\ 0 < f
    BY <1>1
  <2>2. QED  BY <2>1, NoWholeTag
<1> HIDE DEF t, s, rest
<1>5. f \in 0 .. Len(s) /\ f \in 1 .. 2 /\ k \in 2 .. 3
  <2>1. f \in Nat /\ f < k
    BY DEF k, s
  <2> HIDE DEF k
  <2>2. f \in 0 .. k /\ f \in 1 .. 2 /\ k \in 2 .. 3
    <3>1. k \in 0 .. 3
      BY <1>1
    <3>2. QED  BY <2>1, <3>1
  <2>3. QED  BY <2>2 DEF k
<1>6. c \in Seq(S) /\ Len(c) = k - f /\ \A i \in 1 .. k - f : c[i] = s[i + f]
  BY <1>2, <1>5, Slices
<1>7. left = c \o rest
  BY <1>1, <1>2, <1>5, RestJoins
<1> HIDE DEF c, left, k
<1>8. StartToken[3] = CALLS /\ StartToken[2] = DSML
  BY TagPiecesAre
<1>9. CASE f = 1 /\ k = 3
  <2>1. Len(c) = 2 /\ c[1] = s[2] /\ c[2] = s[3] /\ s[2] = DSML /\ s[3] = CALLS
    <3>1. Len(c) = 2
      BY <1>6, <1>9
    <3>2. 1 \in 1 .. k - f /\ 2 \in 1 .. k - f /\ 1 + f = 2 /\ 2 + f = 3
      BY <1>9
    <3>3. c[1] = s[2] /\ c[2] = s[3]
      BY <1>6, <3>2
    <3>4. 2 \in 1 .. k /\ 3 \in 1 .. k /\ (3 - k) + 2 = 2 /\ (3 - k) + 3 = 3
      BY <1>9
    <3>5. s[2] = DSML /\ s[3] = CALLS
      BY <1>3, <1>8, <3>4
    <3>6. QED  BY <3>1, <3>3, <3>5
  <2>2. c = Headless
    <3> DEFINE h == Headless
    <3>1. h \in Seq(S) /\ Len(h) = 2 /\ h[1] = DSML /\ h[2] = CALLS
      BY <1>2, TagsTyped, Tags, TagPiecesAre
    <3> HIDE DEF h
    <3>2. \A i \in 1 .. Len(c) : c[i] = h[i]
      <4> TAKE i \in 1 .. Len(c)
      <4>1. i = 1 \/ i = 2
        BY <2>1
      <4>2. QED  BY <2>1, <3>1, <4>1
    <3>3. c = h
      BY <1>6, <2>1, <3>1, <3>2, SameSequence
    <3>4. QED  BY <3>3 DEF h
  <2> DEFINE none == <<>>
             u == Headless \o rest
  <2>3. u \in Seq(S) /\ left = u
    BY <1>2, <1>6, <1>7, <2>2
  <2>4. none \in Seq(S) /\ none \o u = u
    BY <2>3, ConcatEmptySeq
  <2>5. Range(none) = {}
    BY DEF Range
  <2> HIDE DEF none, u
  <2>6. none \in Fronts(none \o u)
    BY <2>3, <2>4, FrontOf
  <2>7. none \in Fronts(left) /\ DSML \notin Range(none) /\ left = none \o u
    BY <2>3, <2>4, <2>5, <2>6
  <2>8. left = none \o (Headless \o (o.block \o o.after)) /\ (none # <<>> => Last(none) \notin {LT, SLASH})
    BY <2>7 DEF u, rest, none
  <2>9. OpenerAhead(left, o, d)
    BY <1>4, <2>7, <2>8 DEF OpenerAhead
  <2>10. QED  BY <2>9 DEF left, t
<1>10. CASE ~(f = 1 /\ k = 3)
  <2>1. k - f = 1
    <3>1. f < k
      BY DEF k, s
    <3>2. QED  BY <1>5, <1>10, <3>1
  <2>2. \A i \in 1 .. Len(c) : c[i] = CALLS
    <3> TAKE i \in 1 .. Len(c)
    <3>1. i \in 1 .. k - f /\ i + f = k /\ k \in 1 .. k /\ (3 - k) + k = 3
      <4>1. Len(c) = 1
        BY <1>6, <2>1
      <4>2. i = 1 /\ f \in Nat /\ k \in Nat /\ k >= 2
        BY <1>5, <4>1
      <4>3. QED  BY <2>1, <4>2
    <3>2. c[i] = s[i + f] /\ s[k] = StartToken[(3 - k) + k]
      BY <1>3, <1>6, <3>1
    <3>3. QED  BY <1>8, <3>1, <3>2
  <2>3. Occurrences(StartToken, c \o (o.block \o o.after)) = {}
    BY <1>4, <1>7 DEF rest
  <2>4. OpenerAhead(c \o (o.block \o o.after), o, d)
    BY <1>1, <1>6, <2>2, <2>3, MarkerWaits
  <2>5. QED  BY <1>7, <2>4 DEF left, t, rest
<1>11. QED  BY <1>9, <1>10

-----------------------------------------------------------------------------
\* The first that the tool parser is given, which may be nothing.
LEMMA TakenReads ==
    ASSUME ToolInv, NEW d, WellFormed(output, d), ~previous, NEW h, TakeDelta(h),
           OpenerAhead(h \o From(TextOf(output), fed'), output, d),
           h = <<>> => OpenerAhead(From(TextOf(output), fed'), output, d)
    PROVE  Reading(d)' /\ Awaits(d)'
<1>1. /\ output' = output /\ phase' = "loop" /\ previous' = (h # <<>>)
      /\ buffer' = h /\ inCalls' = FALSE /\ calls' = <<>> /\ active' = 0 /\ param' = NoParam
  BY DEF TakeDelta, ResetParam
<1>2. Left' = h \o From(TextOf(output), fed')
  BY <1>1 DEF Left
<1>3. Opening(d)'
  <2>1. OpenerAhead(Left', output', d)
    BY <1>1, <1>2
  <2>2. QED  BY <1>1, <2>1 DEF Opening
<1>4. Reading(d)'
  BY <1>1, <1>3 DEF Reading, Progress
<1>5. Awaits(d)'
  <2>1. ~previous' => OpenerAhead(From(TextOf(output'), fed'), output', d)
    BY <1>1
  <2>2. QED  BY <2>1 DEF Awaits
<1>6. QED  BY <1>4, <1>5

\* What both parsers read of an output behind thoughts.
LEMMA SpokenIs ==
    ASSUME NEW o \in Outputs, NEW d, WellFormed(o, d), Plain(d),
           NEW th \in Thoughts, Follows(o, th)
    PROVE  /\ Spoken(Chars(d) \cup {R!END}, th, TextOf(o), Len(o.opener))
           /\ Alone(Chars(d), o, d)
<1> DEFINE C == Chars(d)
           S == C \cup {R!END}
           k == Len(o.opener)
           t == TextOf(o)
<1>1. o.before = <<>> /\ o.after = <<>> /\ (Closes(th) \/ k >= 2)
  BY Tags DEF Follows
<1>2. OutputIn(C, o, d)
  BY OutputTyped
<1>3. Marks \subseteq C /\ Pieces \subseteq C
  BY <1>2 DEF OutputIn
<1>4. C \subseteq S /\ R!END \in S
  OBVIOUS
<1>5. {LT, DSML, CALLS, CLOSE, WORD} \subseteq C
  BY <1>3, Zenon DEF Marks, Pieces
<1> HIDE DEF S, C
<1>6. BlockFrom(S, t, k) /\ \A i \in 1 .. Len(t) : t[i] # CLOSE /\ t[i] # R!END
  BY <1>1, <1>4, PlainText DEF C
<1>7. /\ BlockFrom(C, t, k) /\ From(t, k) = o.block \o o.after
      /\ t = o.opener \o (o.block \o o.after)
  <2>1. Chars(d) \subseteq C
    BY DEF C
  <2>2. QED  BY <1>1, <2>1, PlainText
<1>8. th \in Seq({WORD, R!END}) /\ th # <<>> /\ \A i \in 1 .. Len(th) - 1 : th[i] = WORD
  BY ThoughtsAssumption
<1>9. th \in Seq(S) /\ Len(th) > 0
  <2>1. {WORD, R!END} \subseteq S
    BY <1>4, <1>5
  <2>2. th \in Seq(S)
    BY <1>8, <2>1, SeqWider
  <2>3. Len(th) > 0
    BY <1>8
  <2>4. QED  BY <2>2, <2>3
<1>10. th[Len(th)] = IF Closes(th) THEN R!END ELSE WORD
  <2>1. Closes(th) <=> th[Len(th)] = R!END
    BY <1>8 DEF Closes, Last
  <2>2. th[Len(th)] \in {WORD, R!END}
    <3>1. Len(th) \in 1 .. Len(th)
      BY <1>8, <1>9
    <3>2. QED  BY <1>8, <3>1
  <2>3. QED  BY <2>1, <2>2
<1>11. Spoken(S, th, t, k)
  BY <1>1, <1>4, <1>5, <1>6, <1>8, <1>9, <1>10 DEF Spoken
<1>12. Alone(C, o, d)
  BY <1>2, <1>7 DEF Alone
<1>13. QED  BY <1>11, <1>12 DEF S, C

\* What has come while reasoning goes on is split into the words of it.
LEMMA StillSplit ==
    ASSUME NEW S, NEW th, NEW t, NEW k, Spoken(S, th, t, k),
           NEW a \in 0 .. Len(th), NEW f \in 0 .. Len(t),
           f = 0 \/ (a = Len(th) /\ f < k), Closes(th) => a < Len(th)
    PROVE  LET x == Before(th \o t, a + f)
           IN  /\ EarliestToolTagPos(x) < 0 /\ TrailingPartialTagLen(x) = f
               /\ Split(x).reasoning = Before(th, a) /\ Split(x).content = <<>>
<1> DEFINE w == Before(th, a)
           y == w \o Before(t, f)
<1>1. th \in Seq(S) /\ t \in Seq(S) /\ Len(th) > 0 /\ BlockFrom(S, t, k) /\ k \in Nat
      /\ (Closes(th) \/ k >= 2)
  BY DEF Spoken, BlockFrom
<1>2. w \in Seq(S) /\ Len(w) = a /\ Quiet(w)
  BY WordsBefore
<1>3. Before(th \o t, a + f) = y
  <2>1. HaveCome(S, th, t, a, f)
    BY <1>1 DEF HaveCome
  <2>2. QED  BY <2>1, FrontOfBoth
<1> HIDE DEF w
<1>4. CASE f = 0
  <2>1. Before(t, f) = <<>>
    BY <1>1, <1>4, SlicesOfText
  <2>2. y = w
    BY <1>2, <2>1, ConcatEmptySeq
  <2>3. /\ EarliestToolTagPos(w) < 0 /\ TrailingPartialTagLen(w) = 0
        /\ Split(w).reasoning = w /\ Split(w).content = <<>>
    BY <1>2, QuietWhole
  <2> HIDE DEF y
  <2>4. QED  BY <1>3, <1>4, <2>2, <2>3 DEF w
<1>5. CASE ~(f = 0)
  <2>1. a = Len(th) /\ f < k /\ ~Closes(th) /\ k >= 2 /\ Len(w) > 0
    BY <1>1, <1>2, <1>5
  <2>2. /\ EarliestToolTagPos(y) < 0 /\ TrailingPartialTagLen(y) = f
        /\ Split(y).reasoning = w /\ Split(y).content = <<>>
    BY <1>1, <1>2, <2>1, HeldSplit
  <2> HIDE DEF y
  <2>3. QED  BY <1>3, <2>2 DEF w
<1>6. QED  BY <1>4, <1>5

\* What two texts differ by, the second going on from the first.
SplitOn(S, x, y, v, z, c) ==
    /\ v \in Seq(S) /\ z \in Seq(S) /\ c \in Seq(S)
    /\ Split(x).reasoning = v /\ Split(x).content = <<>>
    /\ Split(y).reasoning = v \o z /\ Split(y).content = c

\* What a delta adds to the channels, when what they had is known.
LEMMA DeltasAre ==
    ASSUME NEW S, NEW x, NEW y, NEW v, NEW z, NEW c, SplitOn(S, x, y, v, z, c)
    PROVE  StreamDeltas(x, y) = [reasoning |-> z, content |-> c]
<1> USE DEF SplitOn
<1> DEFINE w == v \o z
<1>1. From(w, Len(v)) = z
  <2>1. 0 \in 0 .. Len(z) /\ Len(v) + 0 = Len(v)
    OBVIOUS
  <2>2. From(v \o z, Len(v) + 0) = From(z, 0)
    BY <2>1, RestOfSecond
  <2>3. From(z, 0) = z
    BY SlicesOfText
  <2>4. QED  BY <2>1, <2>2, <2>3
<1>2. From(c, Len(<<>>)) = c
  <2>1. From(c, 0) = c /\ Len(<<>>) = 0
    BY SlicesOfText
  <2>2. QED  BY <2>1
<1>3. StreamDeltas(x, y) = [reasoning |-> From(w, Len(v)), content |-> From(c, Len(<<>>))]
  BY Zenon DEF StreamDeltas
<1> HIDE DEF w
<1>4. QED  BY <1>1, <1>2, <1>3, Zenon

\* The state while reasoning goes on, a of the thoughts and f of the output
\* having come.
Idle(th, t, a, f) ==
    /\ ~tagSeen /\ ~closed /\ pending = <<>> /\ toContent = <<>>
    /\ text = Before(th \o t, a + f)
    /\ reasoning = Before(th, a)

\* Boundaries are found or not.
LEMMA BoundaryInt ==
    ASSUME NEW S, NEW t \in Seq(S)
    PROVE  /\ TagPresentOrForming(t) <=> EarliestToolTagPos(t) >= 0 \/ TrailingPartialTagLen(t) > 0
           /\ EarliestToolTagPos(t) \in Int /\ TrailingPartialTagLen(t) \in Nat
<1>1. EarliestToolTagPos(t) \in Int
  BY EarliestIs
<1>2. TrailingPartialTagLen(t) \in Nat
  BY PartialBounded DEF TrailingPartialTagLen
<1>3. QED  BY <1>1, <1>2 DEF TagPresentOrForming

\* What is given out of a block has no close tag in it.
LEMMA GivenPieces ==
    ASSUME NEW S, LT \in S, DSML \in S, CALLS \in S, NEW t, NEW k, BlockFrom(S, t, k),
           \A i \in 1 .. Len(t) : t[i] # CLOSE, NEW g \in 0 .. Len(t), g >= k
    PROVE  LET c == WholeTag \o From(Before(t, g), k)
           IN  /\ c \in Seq(S) /\ \A i \in 1 .. Len(c) : c[i] # CLOSE
               /\ g = k => c[Len(c)] # LT
<1> DEFINE b == Before(t, g)
           e == From(b, k)
           tag == WholeTag
           c == tag \o e
<1>1. t \in Seq(S) /\ k \in Nat
  BY DEF BlockFrom
<1>2. b \in Seq(S) /\ Len(b) = g /\ \A i \in 1 .. g : b[i] = t[i]
  BY <1>1, Slices
<1> HIDE DEF b
<1>3. k \in 0 .. Len(b)
  BY <1>1, <1>2
<1>4. e \in Seq(S) /\ Len(e) = g - k /\ \A i \in 1 .. g - k : e[i] = b[i + k]
  BY <1>2, <1>3, Slices, ZenonT(40)
<1>5. \A i \in 1 .. Len(e) : e[i] # CLOSE
  <2> TAKE i \in 1 .. Len(e)
  <2>1. i \in 1 .. g - k /\ i + k \in 1 .. g /\ i + k \in 1 .. Len(t)
    BY <1>1, <1>4
  <2>2. QED  BY <1>2, <1>4, <2>1
<1>6. /\ tag \in Seq(S) /\ Len(tag) = 3 /\ \A i \in 1 .. 3 : tag[i] # CLOSE
      /\ tag[3] = CALLS
  <2>1. {LT, DSML, CALLS} \subseteq S
    OBVIOUS
  <2>2. StartToken \in Seq({LT, DSML, CALLS})
    BY Tags
  <2>3. StartToken \in Seq(S)
    BY <2>1, <2>2, SeqWider
  <2>4. QED  BY <2>3, StartPieces, TagPiecesAre
<1> HIDE DEF e, tag
<1>7. /\ c \in Seq(S) /\ Len(c) = Len(tag) + Len(e)
      /\ \A i \in 1 .. Len(tag) : c[i] = tag[i]
      /\ \A i \in 1 .. Len(e) : c[Len(tag) + i] = e[i]
  <2>1. tag \in Seq(S) /\ e \in Seq(S)
    BY <1>4, <1>6
  <2>2. QED  BY <2>1, Joined
<1> HIDE DEF c
<1>8. Len(e) \in Nat /\ Len(c) = 3 + Len(e)
  BY <1>4, <1>6, <1>7
<1>9. \A i \in 1 .. Len(c) : c[i] # CLOSE
  <2> TAKE i \in 1 .. Len(c)
  <2>1. CASE i =< 3
    <3>1. i \in 1 .. 3
      BY <2>1
    <3>2. QED  BY <1>6, <1>7, <3>1
  <2>2. CASE i > 3
    <3>1. i - 3 \in 1 .. Len(e) /\ 3 + (i - 3) = i
      BY <1>8, <2>2
    <3>2. c[3 + (i - 3)] = e[i - 3]
      BY <1>6, <1>7, <3>1
    <3>3. QED  BY <1>5, <3>1, <3>2
  <2>3. QED  BY <1>8, <2>1, <2>2
<1>10. ASSUME g = k PROVE c[Len(c)] # LT
  <2>1. Len(c) = 3 /\ 3 \in 1 .. Len(tag)
    BY <1>1, <1>4, <1>6, <1>8, <1>10
  <2>2. c[3] = CALLS
    BY <1>6, <1>7, <2>1
  <2>3. QED  BY <2>1, <2>2 DEF CALLS, LT
<1>11. QED  BY <1>7, <1>9, <1>10 DEF c, tag, e, b

\* A delta of words, or of words and pieces of the output, is more of the
\* reasoning; or the tag in it ends reasoning, and is given out whole.
LEMMA PlainThink ==
    ASSUME NEW S, NEW th, NEW t, NEW k, Spoken(S, th, t, k),
           NEW a, NEW f, NEW b, NEW g, NEW delta, Moves(th, t, a, f, b, g, delta),
           Closes(th) => b < Len(th), f = 0 \/ f < k,
           Idle(th, t, a, f), R!Defer(delta) \/ R!SplitDelta(delta),
           over' => ~(g > k /\ pending' # <<>>)
    PROVE  \/ ~over' /\ Idle(th, t, b, g)' /\ (g = 0 \/ (b = Len(th) /\ g < k))
           \/ /\ over' /\ k >= 2 /\ g >= k /\ ~Closes(th) /\ reasoning' = th
              /\ From(toContent', Len(toContent)) = WholeTag \o From(Before(t, g), k)
<1> DEFINE x == Before(th \o t, a + f)
           y == Before(th \o t, b + g)
           v == Before(th, a)
           w == Before(th, b)
           l == Len(th)
<1>1. /\ th \in Seq(S) /\ t \in Seq(S) /\ l > 0 /\ BlockFrom(S, t, k) /\ k \in Nat
      /\ (Closes(th) \/ k >= 2) /\ LT \in S /\ DSML \in S /\ CALLS \in S
      /\ \A i \in 1 .. Len(t) : t[i] # CLOSE
  BY DEF Spoken, BlockFrom
<1>2. /\ a \in 0 .. l /\ f \in 0 .. Len(t) /\ (f = 0 \/ a = l)
      /\ b \in 0 .. l /\ g \in 0 .. Len(t) /\ (g = 0 \/ b = l)
      /\ a =< b /\ f =< g /\ a + f < b + g
  BY DEF Moves
<1>3. l \in Nat /\ Len(t) \in Nat
  BY <1>1
<1>4. /\ delta \in Seq(S) /\ Len(delta) > 0 /\ \A i \in 1 .. Len(delta) : delta[i] # R!END
      /\ x \o delta = y
      /\ g = 0 => v \o delta = w
  BY PlainMove
<1>5. Closes(th) => a < l
  BY <1>2, <1>3
<1>6. v \in Seq(S) /\ Len(v) = a /\ w \in Seq(S) /\ Len(w) = b /\ Quiet(w)
  BY <1>1, <1>2, <1>5, WordsBefore
<1>7. y = w \o Before(t, g) /\ y \in Seq(S)
  <2>1. y = w \o Before(t, g)
    <3>1. HaveCome(S, th, t, b, g)
      BY <1>1, <1>2 DEF HaveCome
    <3>2. QED  BY <3>1, FrontOfBoth
  <2>2. w \o Before(t, g) \in Seq(S)
    BY <1>1, <1>2, <1>6, Behind
  <2>3. QED  BY <2>1, <2>2
<1>8. Split(x).reasoning = v /\ Split(x).content = <<>>
  <2>1. f = 0 \/ (a = l /\ f < k)
    BY <1>2
  <2>2. QED  BY <1>2, <1>5, <2>1, StillSplit
<1> DEFINE z == SubSeq(th, a + 1, b)
<1>9. v \o z = w /\ z \in Seq(S)
  <2>1. th \in Seq(S) /\ a \in Nat /\ b \in Nat /\ a =< b /\ b =< Len(th)
    BY <1>1, <1>2
  <2>2. QED  BY <2>1, NextSlice
<1>10. /\ EarliestToolTagPos(y) \in Int /\ TrailingPartialTagLen(y) \in Nat
       /\ TagPresentOrForming(y) <=> EarliestToolTagPos(y) >= 0 \/ TrailingPartialTagLen(y) > 0
  BY <1>7, BoundaryInt
\* Where the tag has come, and where it has not.
<1>11. (g = 0 \/ (b = l /\ g < k)) =>
         /\ EarliestToolTagPos(y) < 0 /\ TrailingPartialTagLen(y) = g
         /\ Split(y).reasoning = w /\ Split(y).content = <<>>
  BY <1>2, StillSplit
<1>12. ~(g = 0 \/ (b = l /\ g < k)) =>
         /\ b = l /\ k >= 2 /\ g >= k /\ ~Closes(th)
         /\ EarliestToolTagPos(y) >= 0
         /\ Split(y).reasoning = w /\ Split(y).content = WholeTag \o From(Before(t, g), k)
  <2> SUFFICES ASSUME ~(g = 0 \/ (b = l /\ g < k))
               PROVE  /\ b = l /\ k >= 2 /\ g >= k /\ ~Closes(th)
                      /\ EarliestToolTagPos(y) >= 0
                      /\ Split(y).reasoning = w
                      /\ Split(y).content = WholeTag \o From(Before(t, g), k)
    OBVIOUS
  <2>1. b = l /\ k >= 2 /\ g >= k /\ ~Closes(th)
    BY <1>1, <1>2, <1>3
  <2>2. /\ EarliestToolTagPos(w \o Before(t, g)) >= 0
        /\ Split(w \o Before(t, g)).reasoning = w
        /\ Split(w \o Before(t, g)).content = WholeTag \o From(Before(t, g), k)
    <3>1. LT \in S /\ DSML \in S /\ CALLS \in S /\ w \in Seq(S) /\ Quiet(w)
          /\ BlockFrom(S, t, k) /\ g \in 0 .. Len(t) /\ k >= 2 /\ g >= k
      BY <1>1, <1>2, <1>6, <2>1
    <3> HIDE DEF w
    <3>2. QED  BY <3>1, BlockSplit
  <2>3. QED  BY <1>7, <2>1, <2>2
<1> HIDE DEF x, y, v, w, z
<1>13. text = x /\ reasoning = v /\ ~tagSeen /\ ~closed /\ pending = <<>> /\ toContent = <<>>
  BY DEF Idle, x, v
<1>14. text' = y /\ ~closed'
  <2>1. text' = text \o R!DeltaText(delta)
        /\ closed' = (closed \/ \E i \in DOMAIN delta : delta[i] = R!END)
    BY DEF R!Defer, R!SplitDelta, R!Took
  <2>2. R!DeltaText(delta) = delta
    BY <1>4, DeltaPlain
  <2>3. ~(\E i \in DOMAIN delta : delta[i] = R!END)
    BY <1>4
  <2>4. QED  BY <1>4, <1>13, <2>1, <2>2, <2>3
<1>15. /\ tagSeen' <=> EarliestToolTagPos(y) >= 0
       /\ over' <=> tagSeen'
  <2>1. /\ tagSeen' <=> (tagSeen \/ R!EarliestToolTagPos(text') >= 0)
        /\ over' <=> (tagSeen' \/ closed')
    BY DEF R!Defer, R!SplitDelta, R!Latched
  <2>2. R!EarliestToolTagPos(text') = EarliestToolTagPos(text')
    BY SameBoundaries
  <2>3. QED  BY <1>13, <1>14, <2>1, <2>2
\* What is given out.
<1>16. ASSUME g = 0 \/ (b = l /\ g < k)
       PROVE  ~over' /\ Idle(th, t, b, g)'
  <2>1. ~over' /\ ~tagSeen'
    BY <1>10, <1>11, <1>15, <1>16
  <2>2. PICK r : R!Emit([reasoning |-> r, content |-> <<>>]) /\ v \o r = w
    <3>1. CASE R!Defer(delta)
      <4>1. ~R!TagPresentOrForming(text \o R!DeltaText(delta)) /\ R!Emit(R!Upstream(delta))
        BY <3>1 DEF R!Defer
      <4>2. R!Upstream(delta) = [reasoning |-> delta, content |-> <<>>]
        BY <1>4, <1>13, UpstreamPlain
      <4>3. R!TagPresentOrForming(y) <=> TagPresentOrForming(y)
        BY SameBoundaries
      <4>4. text \o R!DeltaText(delta) = y
        BY <1>14, <3>1 DEF R!Defer, R!Took
      <4>5. g = 0
        <5>1. ~(TrailingPartialTagLen(y) > 0)
          BY <1>10, <4>1, <4>3, <4>4
        <5>2. QED  BY <1>2, <1>3, <1>11, <1>16, <5>1
      <4>6. v \o delta = w
        BY <1>4, <4>5
      <4>7. QED  BY <4>1, <4>2, <4>6
    <3>2. CASE R!SplitDelta(delta)
      <4>1. R!Emit(R!StreamDeltas(text, text \o R!DeltaText(delta)))
        BY <3>2 DEF R!SplitDelta
      <4>2. text \o R!DeltaText(delta) = y
        BY <1>14, <3>2 DEF R!SplitDelta, R!Took
      <4>3. R!StreamDeltas(x, y) = StreamDeltas(x, y)
        BY SameBoundaries
      <4>4. <<>> \in Seq(S) /\ Split(y).reasoning = v \o z /\ Split(y).content = <<>>
        BY <1>9, <1>11, <1>16
      <4>7. SplitOn(S, x, y, v, z, <<>>)
        BY <1>6, <1>8, <1>9, <4>4 DEF SplitOn
      <4>5. StreamDeltas(x, y) = [reasoning |-> z, content |-> <<>>]
        BY <4>7, DeltasAre
      <4>6. QED  BY <1>9, <1>13, <4>1, <4>2, <4>3, <4>5
    <3>3. QED  BY <3>1, <3>2
  <2>3. reasoning' = w /\ toContent' = <<>> /\ pending' = <<>>
    <3> DEFINE none == <<>>
    <3>1. /\ none \in Seq(S) /\ R!Emit([reasoning |-> r, content |-> none])
          /\ \A i \in 1 .. Len(none) : none[i] # CLOSE
          /\ pending' = <<>> \/ (Len(none) > 0 => none[Len(none)] # LT)
      BY <2>2
    <3> HIDE DEF none
    <3>2. reasoning' = reasoning \o r /\ toContent' = none /\ pending' = <<>>
      BY <1>13, <3>1, EmitsWhole
    <3>3. QED  BY <1>13, <2>2, <3>2 DEF none
  <2>4. Idle(th, t, b, g)'
    BY <1>14, <2>1, <2>3 DEF Idle, y, w
  <2>5. QED  BY <2>1, <2>4
<1>17. ASSUME ~(g = 0 \/ (b = l /\ g < k))
       PROVE  /\ over' /\ k >= 2 /\ g >= k /\ ~Closes(th) /\ reasoning' = th
              /\ From(toContent', Len(toContent)) = WholeTag \o From(Before(t, g), k)
  <2> DEFINE c == WholeTag \o From(Before(t, g), k)
  <2>1. over' /\ tagSeen' /\ b = l /\ k >= 2 /\ g >= k /\ ~Closes(th)
    BY <1>12, <1>15, <1>17
  <2>2. /\ c \in Seq(S) /\ \A i \in 1 .. Len(c) : c[i] # CLOSE
        /\ g = k => c[Len(c)] # LT
    BY <1>1, <1>2, <2>1, GivenPieces
  <2> HIDE DEF c
  <2>3. Split(y).reasoning = v \o z /\ Split(y).content = c
    BY <1>9, <1>12, <1>17 DEF c
  <2>11. SplitOn(S, x, y, v, z, c)
    BY <1>6, <1>8, <1>9, <2>2, <2>3 DEF SplitOn
  <2>4. StreamDeltas(x, y) = [reasoning |-> z, content |-> c]
    BY <2>11, DeltasAre
  <2>5. R!SplitDelta(delta)
    <3> SUFFICES ASSUME R!Defer(delta) PROVE FALSE
      OBVIOUS
    <3>1. ~R!TagPresentOrForming(text \o R!DeltaText(delta))
      BY DEF R!Defer
    <3>2. text \o R!DeltaText(delta) = y
      BY <1>14 DEF R!Defer, R!Took
    <3>3. R!TagPresentOrForming(y) <=> TagPresentOrForming(y)
      BY SameBoundaries
    <3>4. QED  BY <1>10, <1>12, <1>17, <3>1, <3>2, <3>3
  <2>6. R!Emit([reasoning |-> z, content |-> c])
    <3>1. R!Emit(R!StreamDeltas(text, text \o R!DeltaText(delta)))
      BY <2>5 DEF R!SplitDelta
    <3>2. text \o R!DeltaText(delta) = y
      BY <1>14, <2>5 DEF R!SplitDelta, R!Took
    <3>3. R!StreamDeltas(x, y) = StreamDeltas(x, y)
      BY SameBoundaries
    <3>4. QED  BY <1>13, <2>4, <3>1, <3>2, <3>3
  <2>7. pending' = <<>> \/ (Len(c) > 0 => c[Len(c)] # LT)
    BY <1>1, <1>2, <2>1, <2>2
  <2>8. reasoning' = reasoning \o z /\ From(toContent', Len(toContent)) = c
    BY <1>13, <2>2, <2>6, <2>7, EmitsWhole
  <2>9. w = th
    BY <1>1, <2>1 DEF w, Before
  <2>10. QED  BY <1>9, <1>13, <2>1, <2>8, <2>9 DEF c
<1>18. QED  BY <1>16, <1>17

\* What has been told of thoughts that close: words, more of them, the tag, and
\* what came of the output.
LEMMA ToldIs ==
    ASSUME NEW T, NEW v, NEW u, NEW out, Joined3(T, v, u, out), ThinkClose \in T
    PROVE  v \o (u \o (ThinkClose \o out)) = ((v \o u) \o ThinkClose) \o out
<1> DEFINE tag == ThinkClose
<1>1. Joinable(T) /\ v \in T /\ u \in T /\ out \in T /\ tag \in T
  BY DEF Joined3
<1> HIDE DEF tag
<1>2. Joined3(T, u, tag, out) /\ Joined3(T, v, u, tag)
  BY <1>1 DEF Joined3
<1>3. u \o (tag \o out) = (u \o tag) \o out /\ u \o tag \in T
  BY <1>2, JoinsThree
<1>4. v \o (u \o tag) = (v \o u) \o tag
  BY <1>2, JoinsThree
<1> DEFINE m == u \o tag
<1>5. Joined3(T, v, m, out)
  BY <1>1, <1>3 DEF Joined3
<1> HIDE DEF m
<1>6. v \o (m \o out) = (v \o m) \o out
  BY <1>5, JoinsThree
<1>7. u \o (tag \o out) = m \o out /\ v \o m = (v \o u) \o tag
  BY <1>3, <1>4 DEF m
<1>8. v \o (u \o (tag \o out)) = ((v \o u) \o tag) \o out
  BY <1>6, <1>7
<1>9. QED  BY <1>8 DEF tag

\* The delta with the end tag ends reasoning.  What it has of the output is
\* given out as it came, or with the tag whole, or it is the front of a tag
\* and stays behind.
LEMMA EndThink ==
    ASSUME NEW S, NEW th, NEW t, NEW k, Spoken(S, th, t, k),
           NEW a, NEW f, NEW b, NEW g, NEW delta, Moves(th, t, a, f, b, g, delta),
           Closes(th), a < Len(th), b = Len(th),
           Idle(th, t, a, f), R!Defer(delta) \/ R!SplitDelta(delta),
           g > k => pending' = <<>> /\ (tagSeen' \/ ~(TrailingPartialTagLen(text') > 0)),
           tagSeen' => k >= 2
    PROVE  /\ over' /\ WithoutClose(reasoning') = Front(th)
           /\ \/ From(toContent', Len(toContent)) = Before(t, g)
              \/ /\ g >= k
                 /\ From(toContent', Len(toContent)) = WholeTag \o From(Before(t, g), k)
              \/ /\ 0 < g /\ g < k
                 /\ From(toContent', Len(toContent)) = <<>>
<1> DEFINE x == Before(th \o t, a + f)
           v == Before(th, a)
           u == SubSeq(th, a + 1, Len(th) - 1)
           out == Before(t, g)
           w == Said(th)
           y == w \o out
           z == u \o ThinkClose
           told == u \o (ThinkClose \o out)
<1>1. /\ th \in Seq(S) /\ t \in Seq(S) /\ Len(th) > 0 /\ BlockFrom(S, t, k) /\ k \in Nat
      /\ {LT, DSML, CALLS, CLOSE, R!END} \subseteq S
      /\ \A i \in 1 .. Len(t) : t[i] # CLOSE
  BY DEF Spoken, BlockFrom
<1>2. a \in 0 .. Len(th) /\ f \in 0 .. Len(t) /\ f = 0 /\ g \in 0 .. Len(t)
  <2>1. /\ a \in 0 .. Len(th) /\ f \in 0 .. Len(t) /\ (f = 0 \/ a = Len(th)) /\ g \in 0 .. Len(t)
    BY DEF Moves
  <2>2. a # Len(th)
    BY <1>1
  <2>3. QED  BY <2>1, <2>2
<1>3. /\ delta = Ending(u, out)
      /\ u \in Seq(S) /\ out \in Seq(S)
      /\ \A i \in 1 .. Len(u) : u[i] # R!END /\ u[i] # CLOSE
      /\ \A i \in 1 .. Len(out) : out[i] # R!END /\ out[i] # CLOSE
      /\ v \o u = Front(th)
  BY EndMove
<1>4. v \in Seq(S) /\ Len(v) = a
  BY <1>2, WordsBefore
<1>5. /\ w \in Seq(S) /\ Quiet(w) /\ Len(w) > 0 /\ WithoutClose(w) = Front(th)
  BY SaidIs
<1>6. w = Front(th) \o ThinkClose /\ w = v \o z /\ z \in Seq(S)
  <2>1. w = Front(th) \o ThinkClose
    BY DEF Said
  <2> DEFINE T == Seq(S)
             tag == ThinkClose
  <2>2. Joinable(T) /\ v \in T /\ u \in T /\ tag \in T
    BY <1>1, <1>3, <1>4, SeqJoinable DEF ThinkClose
  <2> HIDE DEF T, tag, u, v
  <2>3. Joined3(T, v, u, tag)
    BY <2>2 DEF Joined3
  <2>4. v \o (u \o tag) = (v \o u) \o tag /\ u \o tag \in T
    BY <2>3, JoinsThree
  <2>5. QED  BY <1>3, <2>1, <2>4 DEF T, tag
<1>7. R!DeltaText(delta) = told /\ \E i \in DOMAIN delta : delta[i] = R!END
  <2>1. /\ {LT, CLOSE, R!END} \subseteq S /\ u \in Seq(S) /\ out \in Seq(S)
        /\ \A i \in 1 .. Len(u) : u[i] # R!END
        /\ \A i \in 1 .. Len(out) : out[i] # R!END
        /\ R!END \in S
    BY <1>1, <1>3
  <2> HIDE DEF u, out
  <2>2. R!DeltaText(Ending(u, out)) = u \o (ThinkClose \o out)
    BY <2>1, DeltaEnding
  <2>3. /\ Len(Ending(u, out)) = Len(u) + 1 + Len(out)
        /\ DOMAIN Ending(u, out) = 1 .. Len(Ending(u, out))
        /\ Ending(u, out)[Len(u) + 1] = R!END
    BY <2>1, EndingIs
  <2>4. Len(u) \in Nat /\ Len(out) \in Nat
    BY <2>1
  <2>5. Len(u) + 1 \in DOMAIN Ending(u, out)
    BY <2>3, <2>4
  <2>6. QED  BY <1>3, <2>2, <2>3, <2>5
<1>8. v \o told = y
  <2> DEFINE T == Seq(S)
  <2>1. Joined3(T, v, u, out) /\ ThinkClose \in T
    BY <1>1, <1>3, <1>4, SeqJoinable DEF Joined3, ThinkClose
  <2> HIDE DEF u, v, out, w, T
  <2>2. v \o (u \o (ThinkClose \o out)) = ((v \o u) \o ThinkClose) \o out
    BY <2>1, ToldIs, SMTT(40)
  <2>3. v \o u = Front(th) /\ Front(th) \o ThinkClose = w
    BY <1>3, <1>6
  <2>4. ((v \o u) \o ThinkClose) \o out = w \o out
    BY <2>3
  <2>5. v \o (u \o (ThinkClose \o out)) = w \o out
    BY <2>2, <2>4
  <2>6. QED  BY <2>5 DEF u, v, out, w
<1>9. y \in Seq(S)
  BY <1>1, <1>2, <1>5, Behind
<1>10. x = v /\ Split(x).reasoning = v /\ Split(x).content = <<>>
  <2>1. Split(x).reasoning = v /\ Split(x).content = <<>>
    <3>1. f = 0 \/ (a = Len(th) /\ f < k)
      BY <1>2
    <3>2. QED  BY <1>2, <3>1, StillSplit
  <2>2. a \in 0 .. Len(th) /\ a + f = a
    BY <1>2
  <2>3. Before(th \o t, a) = Before(th, a)
    BY <1>1, <2>2, RestJoins
  <2>4. QED  BY <2>1, <2>2, <2>3
<1>11. /\ EarliestToolTagPos(y) \in Int /\ TrailingPartialTagLen(y) \in Nat
       /\ TagPresentOrForming(y) <=> EarliestToolTagPos(y) >= 0 \/ TrailingPartialTagLen(y) > 0
  BY <1>9, BoundaryInt
<1>12. /\ g < k => EarliestToolTagPos(y) < 0
       /\ g =< k /\ TrailingPartialTagLen(y) > 0 => g > 0 /\ (g = k \/ k >= 2)
       /\ k < 2 /\ g =< k => TrailingPartialTagLen(y) = 0
       /\ g > 0 /\ TrailingPartialTagLen(y) = 0 => t[g] # LT
  BY <1>1, <1>2, <1>5, BlockHeld
<1>13. ASSUME k >= 2, g >= k
       PROVE  /\ EarliestToolTagPos(y) >= 0
              /\ Split(y).reasoning = w /\ Split(y).content = WholeTag \o From(out, k)
  <2>1. LT \in S /\ DSML \in S /\ CALLS \in S /\ w \in Seq(S) /\ Quiet(w)
        /\ BlockFrom(S, t, k) /\ g \in 0 .. Len(t) /\ k >= 2 /\ g >= k
    BY <1>1, <1>2, <1>5, <1>13
  <2> HIDE DEF w
  <2>2. QED  BY <2>1, BlockSplit
<1>14. ASSUME k >= 2, g < k
       PROVE  Split(y).reasoning = w /\ Split(y).content = <<>>
  <2>1. w \in Seq(S) /\ Quiet(w) /\ Len(w) > 0
        /\ BlockFrom(S, t, k) /\ g \in 0 .. Len(t) /\ k >= 2 /\ g < k
    BY <1>1, <1>2, <1>5, <1>14
  <2> HIDE DEF w
  <2>2. QED  BY <2>1, HeldSplit
<1>15. Len(out) = g /\ \A i \in 1 .. g : out[i] = t[i]
  BY <1>1, <1>2, Slices
<1> HIDE DEF x, y, v, w, z, u, out, told
<1>16. text = x /\ reasoning = v /\ ~tagSeen /\ pending = <<>> /\ toContent = <<>>
  BY DEF Idle, x, v
<1>17. text' = y /\ over' /\ text \o R!DeltaText(delta) = y
  <2>1. /\ text' = text \o R!DeltaText(delta)
        /\ closed' <=> (closed \/ \E i \in DOMAIN delta : delta[i] = R!END)
        /\ over' <=> (tagSeen' \/ closed')
    BY DEF R!Defer, R!SplitDelta, R!Took, R!Latched
  <2>2. text' = v \o told
    BY <1>7, <1>10, <1>16, <2>1
  <2>3. QED  BY <1>7, <1>8, <2>1, <2>2
<1>18. tagSeen' <=> EarliestToolTagPos(y) >= 0
  <2>1. tagSeen' <=> (tagSeen \/ R!EarliestToolTagPos(text') >= 0)
    BY DEF R!Defer, R!SplitDelta, R!Latched
  <2>2. R!EarliestToolTagPos(text') = EarliestToolTagPos(text')
    BY SameBoundaries
  <2>3. QED  BY <1>16, <1>17, <2>1, <2>2
<1>19. R!TagPresentOrForming(y) <=> TagPresentOrForming(y)
  BY SameBoundaries
<1>20. CASE R!Defer(delta)
  <2>1. ~(EarliestToolTagPos(y) >= 0) /\ TrailingPartialTagLen(y) = 0
    <3>1. ~R!TagPresentOrForming(y)
      BY <1>17, <1>20 DEF R!Defer
    <3>2. QED  BY <1>11, <1>19, <3>1
  <2>2. R!Emit([reasoning |-> u, content |-> out])
    <3>1. R!Emit(R!Upstream(delta))
      BY <1>20 DEF R!Defer
    <3>2. {LT, CLOSE, R!END} \subseteq S
      BY <1>1
    <3>3. R!Upstream(Ending(u, out)) = [reasoning |-> u, content |-> out]
      BY <1>3, <3>2, UpstreamEnding
    <3>4. QED  BY <1>3, <3>1, <3>3
  <2>3. pending' = <<>> \/ (Len(out) > 0 => out[Len(out)] # LT)
    <3>1. CASE g > k
      BY <3>1
    <3>2. CASE ~(g > k)
      <4>1. g > 0 => t[g] # LT
        BY <1>12, <2>1
      <4>2. g > 0 => g \in 1 .. g
        BY <1>2
      <4>3. QED  BY <1>15, <4>1, <4>2
    <3>3. QED  BY <3>1, <3>2
  <2>4. reasoning' = reasoning \o u /\ From(toContent', Len(toContent)) = out
    BY <1>3, <1>16, <2>2, <2>3, EmitsWhole
  <2>5. reasoning' = Front(th)
    BY <1>3, <1>16, <2>4
  <2>6. WithoutClose(Front(th)) = Front(th)
    <3>1. Len(th) - 1 \in 0 .. Len(th) /\ Len(th) - 1 < Len(th)
      BY <1>1
    <3>2. Front(th) = Before(th, Len(th) - 1)
      BY SaidIs
    <3>3. WithoutClose(Before(th, Len(th) - 1)) = Before(th, Len(th) - 1)
      BY <3>1, WordsBefore
    <3>4. QED  BY <3>2, <3>3
  <2>7. QED  BY <1>17, <2>4, <2>5, <2>6 DEF out
<1>21. CASE R!SplitDelta(delta)
  <2>1. PICK c : R!Emit([reasoning |-> z, content |-> c])
                 /\ c \in Seq(S) /\ (\A i \in 1 .. Len(c) : c[i] # CLOSE)
                 /\ (pending' = <<>> \/ (Len(c) > 0 => c[Len(c)] # LT))
                 /\ \/ g >= k /\ c = WholeTag \o From(out, k)
                    \/ 0 < g /\ g < k /\ c = <<>>
    <3>1. R!Emit(R!StreamDeltas(x, y))
      BY <1>16, <1>17, <1>21 DEF R!SplitDelta
    <3>2. R!StreamDeltas(x, y) = StreamDeltas(x, y)
      BY SameBoundaries
    <3>3. EarliestToolTagPos(y) >= 0 \/ TrailingPartialTagLen(y) > 0
      <4>1. R!TagPresentOrForming(y)
        BY <1>17, <1>21 DEF R!SplitDelta
      <4>2. QED  BY <1>11, <1>19, <4>1
    <3>4. CASE EarliestToolTagPos(y) >= 0
      <4>1. g >= k /\ k >= 2
        BY <1>1, <1>2, <1>11, <1>12, <1>18, <3>4
      <4> DEFINE c == WholeTag \o From(out, k)
      <4>2. /\ c \in Seq(S) /\ \A i \in 1 .. Len(c) : c[i] # CLOSE
            /\ g = k => c[Len(c)] # LT
        BY <1>1, <1>2, <4>1, GivenPieces DEF out
      <4>3. Split(y).reasoning = w /\ Split(y).content = c
        BY <1>13, <4>1
      <4> HIDE DEF c
      <4>4. SplitOn(S, x, y, v, z, c)
        BY <1>4, <1>6, <1>10, <4>2, <4>3 DEF SplitOn
      <4>5. StreamDeltas(x, y) = [reasoning |-> z, content |-> c]
        BY <4>4, DeltasAre
      <4>6. R!Emit([reasoning |-> z, content |-> c])
        BY <3>1, <3>2, <4>5
      <4>7. pending' = <<>> \/ (Len(c) > 0 => c[Len(c)] # LT)
        <5>1. g > k \/ g = k
          BY <1>1, <1>2, <4>1
        <5>2. QED  BY <4>2, <5>1
      <4>8. c = WholeTag \o From(out, k)
        BY DEF c
      <4>9. QED  BY <4>1, <4>2, <4>6, <4>7, <4>8
    <3>5. CASE ~(EarliestToolTagPos(y) >= 0)
      <4>1. TrailingPartialTagLen(y) > 0 /\ ~tagSeen'
        BY <1>18, <3>3, <3>5
      <4>2. g =< k
        BY <1>1, <1>2, <1>17, <4>1
      <4>3. g > 0 /\ k >= 2
        BY <1>1, <1>2, <1>12, <4>1, <4>2
      <4>4. g < k
        BY <1>1, <1>2, <1>13, <3>5, <4>2, <4>3
      <4>5. Split(y).reasoning = w /\ Split(y).content = <<>>
        BY <1>14, <4>3, <4>4
      <4> DEFINE c == <<>>
      <4>6. c \in Seq(S) /\ (\A i \in 1 .. Len(c) : c[i] # CLOSE) /\ ~(Len(c) > 0)
        OBVIOUS
      <4>7. Split(y).content = c
        BY <4>5
      <4>8. c = <<>>
        OBVIOUS
      <4> HIDE DEF c
      <4>9. SplitOn(S, x, y, v, z, c)
        BY <1>4, <1>6, <1>10, <4>5, <4>6, <4>7 DEF SplitOn
      <4>10. StreamDeltas(x, y) = [reasoning |-> z, content |-> c]
        BY <4>9, DeltasAre
      <4>11. R!Emit([reasoning |-> z, content |-> c])
        BY <3>1, <3>2, <4>10
      <4>12. QED  BY <4>3, <4>4, <4>6, <4>8, <4>11
    <3>6. QED  BY <3>4, <3>5
  <2>2. reasoning' = reasoning \o z /\ From(toContent', Len(toContent)) = c
    BY <1>16, <2>1, EmitsWhole
  <2>3. reasoning' = w
    BY <1>6, <1>16, <2>2
  <2>4. WithoutClose(reasoning') = Front(th)
    BY <1>5, <2>3
  <2>5. QED  BY <1>17, <2>1, <2>2, <2>4 DEF out
<1>22. QED  BY <1>20, <1>21

\* The end tag is in the delta that comes to the end of such thoughts.
LEMMA EndHasCome ==
    ASSUME NEW S, NEW th, NEW t, NEW k, Spoken(S, th, t, k),
           NEW a, NEW f, NEW b, NEW g, NEW delta, Moves(th, t, a, f, b, g, delta),
           Closes(th), a < Len(th), b = Len(th)
    PROVE  \E i \in DOMAIN delta : delta[i] = R!END
<1> DEFINE u == SubSeq(th, a + 1, Len(th) - 1)
           out == Before(t, g)
<1>1. delta = Ending(u, out) /\ u \in Seq(S) /\ out \in Seq(S) /\ R!END \in S
  BY EndMove DEF Spoken
<1> HIDE DEF u, out
<1>2. /\ Len(Ending(u, out)) = Len(u) + 1 + Len(out)
      /\ DOMAIN Ending(u, out) = 1 .. Len(Ending(u, out))
      /\ Ending(u, out)[Len(u) + 1] = R!END
  BY <1>1, EndingIs
<1>3. Len(u) \in Nat /\ Len(out) \in Nat
  BY <1>1
<1>4. Len(u) + 1 \in DOMAIN Ending(u, out)
  BY <1>2, <1>3
<1>5. QED  BY <1>1, <1>2, <1>4

\* A delta of reasoning takes its tokens from the thoughts first.
LEMMA MovesFrom ==
    ASSUME PipeInv, Think, fed = 0 \/ ahead = Len(thoughts)
    PROVE  \E delta : /\ Moves(thoughts, TextOf(output), ahead, fed, ahead', fed', delta)
                      /\ R!Defer(delta) \/ R!SplitDelta(delta)
                      /\ over' /\ ~MayCut => ~BlockCut /\ ~EndTaken
<1> DEFINE th == thoughts
           t == TextOf(output)
           left == Len(th) - ahead
           from == ahead + fed
           tokens == th \o t
<1>1. PICK n \in 1 .. MaxThink :
          LET delta == SubSeq(tokens, ahead + fed + 1, ahead + fed + n)
          IN  /\ ahead + fed + n =< Len(tokens)
              /\ R!Defer(delta) \/ R!SplitDelta(delta)
              /\ ahead' = ahead + Min({n, left})
              /\ fed' = fed + n - Min({n, left})
              /\ over' /\ ~MayCut => ~BlockCut /\ ~EndTaken
  BY DEF Think
<1> DEFINE delta == SubSeq(tokens, ahead + fed + 1, ahead + fed + n)
           m == Min({n, left})
           l == Len(th)
<1>2. th \in Seq(Tokens) /\ t \in Seq(Tokens) /\ ahead \in 0 .. l /\ fed \in 0 .. Len(t)
  <2>1. TextOf(output) \in Seq(Pieces) /\ Pieces \subseteq Tokens
    BY OutputText DEF PipeInv, ToolInv, Tokens
  <2>2. QED  BY <2>1, ThoughtTyped DEF PipeInv, ToolInv
<1>3. Len(tokens) = l + Len(t) /\ l \in Nat /\ Len(t) \in Nat
  BY <1>2, ConcatProperties
<1>4. n \in Nat \ {0} /\ left \in Nat
  BY <1>2, <1>3, ThoughtsAssumption
<1>5. m \in {n, left} /\ m =< n /\ m =< left
  <2>1. {n, left} \subseteq Nat /\ {n, left} # {}
    BY <1>4
  <2>2. QED  BY <2>1, MinIs
<1>6. /\ ahead' = ahead + m /\ fed' = fed + n - m /\ from + n =< Len(tokens)
      /\ R!Defer(delta) \/ R!SplitDelta(delta)
      /\ over' /\ ~MayCut => ~BlockCut /\ ~EndTaken
  BY <1>1
<1>7. /\ ahead' \in 0 .. l /\ fed' \in 0 .. Len(t) /\ (fed' = 0 \/ ahead' = l)
      /\ ahead =< ahead' /\ fed =< fed' /\ ahead' + fed' = ahead + fed + n
      /\ ahead + fed < ahead' + fed'
  <2> HIDE DEF m, tokens, th, t, l, delta
  <2>1. left = l - ahead /\ from = ahead + fed
    BY DEF l
  <2>2. fed = 0 \/ ahead = l
    BY DEF l, th
  <2> HIDE DEF left, from
  <2>3. ahead \in Nat /\ fed \in Nat /\ ahead =< l /\ fed =< Len(t)
    BY <1>2, <1>3
  <2>4. QED  BY <1>3, <1>4, <1>5, <1>6, <2>1, <2>2, <2>3, SMTT(30)
<1>8. delta = SubSeq(th \o t, (ahead + fed) + 1, ahead' + fed')
  <2>1. ahead + fed + 1 = (ahead + fed) + 1 /\ ahead + fed + n = ahead' + fed'
    BY <1>7
  <2>2. QED  BY <2>1
<1> HIDE DEF m, from, left, delta
<1>9. Moves(th, t, ahead, fed, ahead', fed', delta)
  <2>1. /\ ahead \in 0 .. Len(th) /\ fed \in 0 .. Len(t) /\ (fed = 0 \/ ahead = Len(th))
        /\ ahead' \in 0 .. Len(th) /\ fed' \in 0 .. Len(t) /\ (fed' = 0 \/ ahead' = Len(th))
        /\ ahead =< ahead' /\ fed =< fed' /\ ahead + fed < ahead' + fed'
    BY <1>2, <1>7
  <2> HIDE DEF th, t
  <2>2. QED  BY <1>8, <2>1 DEF Moves
<1>10. QED  BY <1>6, <1>9

\* However the delta that ends reasoning was cut, the tool parser is at the
\* opener of the output.
LEMMA GivenReads ==
    ASSUME NEW S, NEW o, NEW d, Alone(S, o, d), NEW f \in 0 .. Len(TextOf(o)), NEW h,
           \/ h = Before(TextOf(o), f)
           \/ f >= Len(o.opener) /\ h = WholeTag \o From(Before(TextOf(o), f), Len(o.opener))
           \/ 0 < f /\ f < Len(o.opener) /\ h = <<>>
    PROVE  /\ OpenerAhead(h \o From(TextOf(o), f), o, d)
           /\ h = <<>> => OpenerAhead(From(TextOf(o), f), o, d)
<1> DEFINE t == TextOf(o)
           left == From(t, f)
<1>1. left \in Seq(S)
  <2>1. t \in Seq(S) /\ f \in 0 .. Len(t)
    BY DEF Alone, BlockFrom
  <2> HIDE DEF t
  <2>2. QED  BY <2>1, Slices
<1>2. <<>> \o left = left
  BY <1>1, ConcatEmptySeq
<1>3. OpenerAhead(h \o left, o, d)
  <2>1. CASE h = Before(t, f)
    BY <2>1, AllAhead
  <2>2. CASE f >= Len(o.opener) /\ h = WholeTag \o From(Before(t, f), Len(o.opener))
    BY <2>2, GivenAhead
  <2>3. CASE 0 < f /\ f < Len(o.opener) /\ h = <<>>
    <3>1. OpenerAhead(left, o, d)
      BY <2>3, RestAhead
    <3> HIDE DEF left
    <3>2. h \o left = left
      BY <1>2, <2>3
    <3>3. QED  BY <3>1, <3>2
  <2>4. QED  BY <2>1, <2>2, <2>3
<1> HIDE DEF left
<1>4. h = <<>> => OpenerAhead(left, o, d)
  BY <1>2, <1>3
<1>5. QED  BY <1>3, <1>4 DEF left

\* A delta of reasoning is more of the thoughts, or the tool parser reads on
\* from the one that ends them.
LEMMA ThinkReads ==
    ASSUME ~MayCut, PipeInv, NEW d, PipeReading(d), Think
    PROVE  PipeReading(d)'
<1>1. thinking /\ ~over /\ StillThinking /\ Think
  BY DEF Think, PipeReading
<1>2. /\ output \in Outputs /\ WellFormed(output, d) /\ Plain(d)
      /\ thoughts \in Thoughts /\ Follows(output, thoughts) /\ ToolInv
  BY <1>1 DEF PipeReading, PipeInv, ToolInv
<1>3. output' = output /\ thoughts' = thoughts
  BY DEF Think, TakeDelta
<1>4. PICK o, th, t, k, a, f, b, g :
          /\ o = output /\ th = thoughts /\ t = TextOf(output) /\ k = Len(output.opener)
          /\ a = ahead /\ f = fed /\ b = ahead' /\ g = fed'
  OBVIOUS
<1> DEFINE S == Chars(d) \cup {R!END}
<1>5. Spoken(S, th, t, k) /\ Alone(Chars(d), o, d)
  BY <1>2, <1>4, SpokenIs
<1>6. PICK delta : /\ Moves(th, t, a, f, b, g, delta)
                   /\ R!Defer(delta) \/ R!SplitDelta(delta)
                   /\ over' => ~BlockCut /\ ~EndTaken
  <2>1. fed = 0 \/ ahead = Len(thoughts)
    BY <1>1 DEF StillThinking
  <2>2. QED  BY <1>4, <2>1, MovesFrom
<1>7. thinking' = thinking
  BY <1>6 DEF R!Defer, R!SplitDelta, R!Took
<1>8. /\ Idle(th, t, a, f) /\ (f = 0 \/ (a = Len(th) /\ f < k))
      /\ Closes(th) => a < Len(th)
      /\ phase = "idle" /\ ~previous
  BY <1>1, <1>4 DEF StillThinking, Idle
<1> HIDE DEF S
<1>9. /\ g > k => pending' = <<>> \/ ~over'
      /\ over' /\ g > k => tagSeen' \/ ~(TrailingPartialTagLen(text') > 0)
      /\ over' /\ tagSeen' => ~(k < 2)
  BY <1>4, <1>6, Tags DEF BlockCut, EndTaken
<1>10. /\ a \in 0 .. Len(th) /\ b \in 0 .. Len(th) /\ g \in 0 .. Len(t) /\ k \in Nat
       /\ Len(th) \in Nat
  BY <1>5, <1>6 DEF Moves, Spoken, BlockFrom
\* Reasoning goes on, or it is over and this is what was given out.
<1>11. \/ ~over' /\ Idle(th, t, b, g)' /\ (g = 0 \/ (b = Len(th) /\ g < k))
          /\ (Closes(th) => b < Len(th))
       \/ /\ over' /\ WithoutClose(reasoning') = IF Closes(th) THEN Front(th) ELSE th
          /\ \/ From(toContent', Len(toContent)) = Before(t, g)
             \/ /\ g >= k
                /\ From(toContent', Len(toContent)) = WholeTag \o From(Before(t, g), k)
             \/ /\ 0 < g /\ g < k
                /\ From(toContent', Len(toContent)) = <<>>
  <2>1. CASE Closes(th) => b < Len(th)
    <3>1. over' => ~(g > k /\ pending' # <<>>)
      BY <1>9
    <3>2. \/ ~over' /\ Idle(th, t, b, g)' /\ (g = 0 \/ (b = Len(th) /\ g < k))
          \/ /\ over' /\ k >= 2 /\ g >= k /\ ~Closes(th) /\ reasoning' = th
             /\ From(toContent', Len(toContent)) = WholeTag \o From(Before(t, g), k)
      BY <1>5, <1>6, <1>8, <2>1, <3>1, PlainThink
    <3>3. ~Closes(th) => WithoutClose(th) = th
      BY <1>5, SaidIs DEF Said
    <3>4. QED  BY <2>1, <3>2, <3>3
  <2>2. CASE ~(Closes(th) => b < Len(th))
    <3>1. Closes(th) /\ a < Len(th) /\ b = Len(th)
      BY <1>8, <1>10, <2>2
    <3>2. over'
      <4>1. closed' <=> (closed \/ \E i \in DOMAIN delta : delta[i] = R!END)
        BY <1>6 DEF R!Defer, R!SplitDelta, R!Took
      <4>2. over' <=> (tagSeen' \/ closed')
        BY <1>6 DEF R!Defer, R!SplitDelta, R!Latched
      <4>3. \E i \in DOMAIN delta : delta[i] = R!END
        BY <1>5, <1>6, <3>1, EndHasCome
      <4>4. QED  BY <4>1, <4>2, <4>3
    <3>3. /\ g > k => pending' = <<>> /\ (tagSeen' \/ ~(TrailingPartialTagLen(text') > 0))
          /\ tagSeen' => k >= 2
      BY <1>9, <1>10, <3>2
    <3>4. /\ over' /\ WithoutClose(reasoning') = Front(th)
          /\ \/ From(toContent', Len(toContent)) = Before(t, g)
             \/ /\ g >= k
                /\ From(toContent', Len(toContent)) = WholeTag \o From(Before(t, g), k)
             \/ /\ 0 < g /\ g < k
                /\ From(toContent', Len(toContent)) = <<>>
      BY <1>5, <1>6, <1>8, <3>1, <3>3, EndThink
    <3>5. QED  BY <3>1, <3>4
  <2>3. QED  BY <2>1, <2>2
<1>12. WellFormed(output', d) /\ Plain(d) /\ thinking'
       /\ thoughts' \in Thoughts /\ Follows(output', thoughts')
  BY <1>1, <1>2, <1>3, <1>7
<1>13. CASE ~over'
  <2>1. Idle(th, t, b, g)' /\ (g = 0 \/ (b = Len(th) /\ g < k)) /\ (Closes(th) => b < Len(th))
    BY <1>11, <1>13
  <2>2. previous' = previous /\ phase' = phase
    BY <1>13 DEF Think
  <2>3. StillThinking'
    <3>1. /\ th = thoughts' /\ t = TextOf(output') /\ k = Len(output'.opener)
          /\ b = ahead' /\ g = fed'
      BY <1>3, <1>4
    <3>2. /\ ~tagSeen' /\ ~closed' /\ pending' = <<>> /\ toContent' = <<>>
          /\ text' = Before(th \o t, b + g) /\ reasoning' = Before(th, b)
      BY <2>1 DEF Idle
    <3>3. phase' = "idle" /\ ~previous'
      BY <1>8, <2>2
    <3>4. QED  BY <2>1, <3>1, <3>2, <3>3 DEF StillThinking
  <2>4. QED  BY <1>12, <1>13, <2>3 DEF PipeReading
<1>14. CASE over'
  <2> DEFINE h == From(toContent', Len(toContent))
  <2>1. /\ WithoutClose(reasoning') = IF Closes(th) THEN Front(th) ELSE th
        /\ \/ h = Before(t, g)
           \/ g >= k /\ h = WholeTag \o From(Before(t, g), k)
           \/ 0 < g /\ g < k /\ h = <<>>
    BY <1>11, <1>14
  <2>2. TakeDelta(h)
    BY <1>14 DEF Think
  <2> HIDE DEF h
  <2>3. /\ OpenerAhead(h \o From(TextOf(o), g), o, d)
        /\ h = <<>> => OpenerAhead(From(TextOf(o), g), o, d)
    <3>1. t = TextOf(o) /\ k = Len(o.opener)
      BY <1>4
    <3>2. /\ \/ h = Before(TextOf(o), g)
             \/ g >= Len(o.opener) /\ h = WholeTag \o From(Before(TextOf(o), g), Len(o.opener))
             \/ 0 < g /\ g < Len(o.opener) /\ h = <<>>
          /\ g \in 0 .. Len(TextOf(o))
      BY <1>10, <2>1, <3>1
    <3>3. Alone(Chars(d), o, d)
      BY <1>5
    <3>4. QED  BY <3>2, <3>3, GivenReads
  <2>4. Reading(d)' /\ Awaits(d)'
    <3>1. /\ OpenerAhead(h \o From(TextOf(output), fed'), output, d)
          /\ h = <<>> => OpenerAhead(From(TextOf(output), fed'), output, d)
      BY <1>4, <2>3
    <3>2. ToolInv /\ WellFormed(output, d) /\ ~previous
      BY <1>2, <1>8
    <3>3. QED  BY <2>2, <3>1, <3>2, TakenReads
  <2>5. ReasoningIsThoughts'
    BY <1>3, <1>4, <2>1 DEF ReasoningIsThoughts
  <2>6. QED  BY <1>12, <1>14, <2>4, <2>5 DEF PipeReading
<1>15. QED  BY <1>13, <1>14

\* Nothing of the thoughts has come.
LEMMA NothingYet ==
    ASSUME NEW o \in Outputs, NEW th \in Thoughts
    PROVE  /\ Before(th \o TextOf(o), 0 + 0) = <<>> /\ Before(th, 0) = <<>>
           /\ Len(th) > 0
<1> DEFINE x == th \o TextOf(o)
<1>1. th # <<>> /\ th \in Seq({WORD, R!END})
  BY ThoughtsAssumption
<1>2. th \in Seq(Tokens) /\ TextOf(o) \in Seq(Tokens)
  <2>1. TextOf(o) \in Seq(Pieces) /\ Pieces \subseteq Tokens
    BY OutputText DEF Tokens
  <2>2. QED  BY <2>1, ThoughtTyped
<1>3. x \in Seq(Tokens)
  BY <1>2
<1> HIDE DEF x
<1>4. Before(x, 0) = <<>> /\ Before(th, 0) = <<>> /\ 0 + 0 = 0
  BY <1>2, <1>3, SlicesOfText
<1>5. QED  BY <1>1, <1>4 DEF x

\* The invariant: both parsers are somewhere in a derivation of the output.
PipeReadInv == PipeInv /\ \E d : PipeReading(d)

\* A stream begins at the front of its thoughts, or of its output.
LEMMA PipeReadInit ==
    ASSUME PlainOutputs, PipeInit
    PROVE  PipeReadInv
<1>1. PipeInv
  BY PipeInitInv
<1>2. /\ output \in Outputs /\ fed = 0 /\ ~previous /\ phase = "idle"
      /\ thinking => thoughts \in Thoughts /\ Follows(output, thoughts)
      /\ ahead = 0
  BY DEF PipeInit, Init
<1>3. text = <<>> /\ ~closed /\ ~tagSeen /\ pending = <<>> /\ ~over
      /\ reasoning = <<>> /\ toContent = <<>>
  BY DEF PipeInit, R!Init
<1>4. PICK d : WellFormed(output, d) /\ Plain(d)
  BY <1>2 DEF PlainOutputs
<1>5. Reading(d) /\ Awaits(d)
  BY <1>2, <1>4, FirstReads
<1>6. thinking => StillThinking
  <2> SUFFICES ASSUME thinking PROVE StillThinking
    OBVIOUS
  <2>1. /\ Before(thoughts \o TextOf(output), 0 + 0) = <<>> /\ Before(thoughts, 0) = <<>>
        /\ Len(thoughts) > 0
    BY <1>2, NothingYet
  <2>2. QED  BY <1>2, <1>3, <2>1 DEF StillThinking
<1>7. PipeReading(d)
  BY <1>2, <1>3, <1>4, <1>5, <1>6 DEF PipeReading
<1>8. QED  BY <1>1, <1>7 DEF PipeReadInv

\* And so it is of the next stream.
LEMMA NewStreamReads ==
    ASSUME PlainOutputs, PipeNewStream
    PROVE  \E d : PipeReading(d)'
<1>1. /\ output' \in Outputs /\ fed' = 0 /\ ~previous' /\ phase' = "idle"
      /\ thinking' => thoughts' \in Thoughts /\ Follows(output', thoughts')
      /\ ahead' = 0 /\ text' = <<>> /\ ~closed' /\ ~tagSeen' /\ pending' = <<>> /\ ~over'
      /\ reasoning' = <<>> /\ toContent' = <<>>
  BY DEF PipeNewStream, NewStream, NewReasoner, Begun
<1>2. PICK d : WellFormed(output', d) /\ Plain(d)
  BY <1>1 DEF PlainOutputs
<1>3. OpenerAhead(From(TextOf(output'), fed'), output', d)
  BY <1>1, <1>2, AwaitsFirst
<1>4. Reading(d)' /\ Awaits(d)'
  BY <1>1, <1>2, <1>3 DEF Reading, Awaits
<1>5. thinking' => StillThinking'
  <2> SUFFICES ASSUME thinking' PROVE StillThinking'
    OBVIOUS
  <2>1. /\ Before(thoughts' \o TextOf(output'), 0 + 0) = <<>> /\ Before(thoughts', 0) = <<>>
        /\ Len(thoughts') > 0
    BY <1>1, NothingYet
  <2>2. QED  BY <1>1, <2>1 DEF StillThinking
<1>6. PipeReading(d)'
  BY <1>1, <1>2, <1>4, <1>5 DEF PipeReading
<1>7. QED  BY <1>6

\* While reasoning goes on the tool parser does nothing.
LEMMA ThinkingOnly ==
    ASSUME PipeInv, NEW d, PipeReading(d), thinking, ~over
    PROVE  ~ProcessStep /\ ~EndOfStream
<1>1. StillThinking /\ Follows(output, thoughts) /\ thoughts \in Thoughts
      /\ WellFormed(output, d) /\ Plain(d) /\ output \in Outputs
  BY DEF PipeReading, PipeInv, ToolInv
<1>2. phase = "idle"
  BY <1>1 DEF StillThinking
<1>3. ~ProcessStep
  BY <1>2 DEF ProcessStep, RecoverAtInvoke, RepairHeadless, HoldTail, SendText, TextBeforeBlock,
     EnterCalls, SkipSpace, LeaveCalls, BeginCall, AwaitInvoke, CloseCall, BeginParam,
     AwaitParam, EndParam, StreamValue, NoOpener, Searching, BetweenInvokes, BetweenTags,
     InCall, InParam, Loop
<1>4. fed # Len(TextOf(output))
  <2> DEFINE n == Len(TextOf(output))
             k == Len(output.opener)
  <2>1. k \in Nat /\ n \in Nat /\ n >= k + 4
    <3>1. BlockFrom(Chars(d), TextOf(output), k)
      BY <1>1, SpokenIs DEF Alone
    <3>2. k \in Nat /\ TextOf(output) \in Seq(Chars(d)) /\ n >= k + 4
      BY <3>1 DEF BlockFrom
    <3>3. n \in Nat
      BY <3>2
    <3>4. QED  BY <3>2, <3>3
  <2>2. fed = 0 \/ fed < k
    BY <1>1 DEF StillThinking
  <2> HIDE DEF n, k
  <2>3. fed # n
    BY <2>1, <2>2
  <2>4. QED  BY <2>3 DEF n
<1>5. QED  BY <1>3, <1>4 DEF EndOfStream

\* A step of the tool parser alone.
LEMMA ToolReads ==
    ASSUME NEW d, PipeReading(d), ~(thinking /\ ~over),
           Reading(d)' /\ Awaits(d)', UNCHANGED <<output, thinking, thoughts, ahead, reasoner>>
    PROVE  PipeReading(d)'
<1>1. /\ WellFormed(output, d) /\ Plain(d)
      /\ thinking => thoughts \in Thoughts /\ Follows(output, thoughts)
      /\ thinking /\ over => ReasoningIsThoughts
  BY DEF PipeReading
<1>2. /\ output' = output /\ thinking' = thinking /\ thoughts' = thoughts
      /\ over' = over /\ reasoning' = reasoning
  BY DEF reasoner
<1>3. thinking' /\ over' => ReasoningIsThoughts'
  BY <1>1, <1>2 DEF ReasoningIsThoughts
<1>4. QED  BY <1>1, <1>2, <1>3 DEF PipeReading

\* Every step on the stream reads on.
LEMMA PipeReadNext ==
    ASSUME PlainOutputs, ~MayCut, PipeReadInv, [PipeNext]_pipeVars
    PROVE  PipeReadInv'
<1>1. PipeInv /\ PipeInv' /\ ToolInv
  BY PipeNextInv DEF PipeReadInv, PipeInv
<1>2. PICK d : PipeReading(d)
  BY DEF PipeReadInv
<1>3. CASE PipeNewStream
  BY <1>1, <1>3, NewStreamReads DEF PipeReadInv
<1>4. CASE Think
  BY <1>1, <1>2, <1>4, ThinkReads DEF PipeReadInv
<1>5. CASE (thinking => over) /\ Feed /\ UNCHANGED <<thinking, thoughts, ahead, reasoner>>
  <2>1. Reading(d) /\ Awaits(d)
    BY <1>2, <1>5 DEF PipeReading
  <2>2. Reading(d)' /\ previous'
    BY <1>1, <1>5, <2>1, FeedReads
  <2>3. Awaits(d)' /\ output' = output
    BY <1>5, <2>2 DEF Awaits, Feed, TakeDelta
  <2>4. PipeReading(d)'
    BY <1>2, <1>5, <2>2, <2>3, ToolReads
  <2>5. QED  BY <1>1, <2>4 DEF PipeReadInv
<1>6. CASE (ProcessStep \/ EndOfStream) /\ UNCHANGED <<thinking, thoughts, ahead, reasoner>>
  <2>1. ~(thinking /\ ~over)
    BY <1>1, <1>2, <1>6, ThinkingOnly
  <2>2. Reading(d) /\ Awaits(d)
    BY <1>2, <2>1 DEF PipeReading
  <2>3. Reading(d)' /\ Awaits(d)'
    BY <1>1, <1>6, <2>2, RoundReads, EndOfStreamReads
  <2>4. output' = output
    BY <1>6 DEF EndOfStream, ProcessStep, RecoverAtInvoke, RepairHeadless, HoldTail, SendText,
       TextBeforeBlock, EnterCalls, SkipSpace, LeaveCalls, BeginCall, AwaitInvoke, CloseCall,
       BeginParam, AwaitParam, EndParam, StreamValue, Continue, Return, stream
  <2>5. PipeReading(d)'
    BY <1>2, <1>6, <2>1, <2>3, <2>4, ToolReads
  <2>6. QED  BY <1>1, <2>5 DEF PipeReadInv
<1>7. CASE UNCHANGED pipeVars
  <2>1. /\ UNCHANGED <<thinking, thoughts, ahead, reasoner>> /\ UNCHANGED vars
        /\ output' = output
    BY <1>7 DEF pipeVars, vars, stream
  <2>2. CASE thinking /\ ~over
    <3>1. UNCHANGED <<output, fed, previous, phase, thinking, thoughts, ahead, text, closed,
                      tagSeen, pending, over, reasoning, toContent>>
      BY <2>1 DEF vars, stream, reasoner
    <3>2. StillThinking'
      BY <1>2, <2>2, <3>1 DEF PipeReading, StillThinking
    <3>3. PipeReading(d)'
      BY <1>2, <2>2, <3>1, <3>2 DEF PipeReading
    <3>4. QED  BY <1>1, <3>3 DEF PipeReadInv
  <2>3. CASE ~(thinking /\ ~over)
    <3>1. Reading(d) /\ Awaits(d)
      BY <1>2, <2>3 DEF PipeReading
    <3>2. Reading(d)' /\ Awaits(d)'
      BY <2>1, <3>1, SameReads
    <3>3. PipeReading(d)'
      BY <1>2, <2>1, <2>3, <3>2, ToolReads
    <3>4. QED  BY <1>1, <3>3 DEF PipeReadInv
  <2>4. QED  BY <2>2, <2>3
<1>8. QED  BY <1>3, <1>4, <1>5, <1>6, <1>7 DEF PipeNext

\* A headless opener is put right behind the reasoning parser too: this is of the
\* output alone (deepseekv32_tool_parser_patched.py:214-216).
THEOREM PipeHeadlessSame == OneOpener => (PipeSpec => []HeadlessSame)
<1> SUFFICES ASSUME OneOpener PROVE PipeSpec => []HeadlessSame
  OBVIOUS
<1>1. PipeInit => PipeInv
  BY PipeInitInv
<1>2. PipeInv /\ [PipeNext]_pipeVars => PipeInv'
  BY PipeNextInv
<1>3. PipeInv => HeadlessSame
  <2> SUFFICES ASSUME PipeInv, Len(output.opener) >= Len(Headless)
               PROVE  ExtractToolCalls(TextOf(output)) = OneShotCalls[output]
    BY DEF HeadlessSame
  <2>1. output \in Outputs /\ Opens(output)
    BY DEF PipeInv, ToolInv, OneOpener
  <2>2. QED  BY <2>1, HeadlessRead
<1>4. QED  BY <1>1, <1>2, <1>3, PTL DEF PipeSpec

\* In a stream that begins with thinking the calls at its end are those of the
\* one-shot parser too: no cut of the delta that ends reasoning loses a call, if
\* that delta does not end in a tag (dsv4_reasoning_tool_aware.py:138-233).
THEOREM PipeStreamAgrees == PlainOutputs /\ ~MayCut => (PipeSpec => []StreamAgrees)
<1> SUFFICES ASSUME PlainOutputs, ~MayCut PROVE PipeSpec => []StreamAgrees
  OBVIOUS
<1>1. PipeInit => PipeReadInv
  BY PipeReadInit
<1>2. PipeReadInv /\ [PipeNext]_pipeVars => PipeReadInv'
  BY PipeReadNext
<1>3. PipeReadInv => StreamAgrees
  <2> SUFFICES ASSUME PipeReadInv, phase = "ended" PROVE calls = OneShotCalls[output]
    BY DEF StreamAgrees
  <2>1. PICK d : PipeReading(d)
    BY DEF PipeReadInv
  <2>2. Reading(d)
    BY <2>1 DEF PipeReading, StillThinking
  <2>3. output \in Outputs /\ WellFormed(output, d) /\ calls = CallsIn(d)
    BY <2>2 DEF PipeReadInv, PipeInv, ToolInv, Reading
  <2>4. QED  BY <2>3, OneShotIs
<1>4. QED  BY <1>1, <1>2, <1>3, PTL DEF PipeSpec

\* Nor are arguments ever taken back in such a stream.
THEOREM PipeArgumentsGrow == PlainOutputs /\ ~MayCut => (PipeSpec => []ArgumentsGrow)
<1> SUFFICES ASSUME PlainOutputs, ~MayCut PROVE PipeSpec => []ArgumentsGrow
  OBVIOUS
<1>1. PipeInit => PipeReadInv
  BY PipeReadInit
<1>2. PipeReadInv /\ [PipeNext]_pipeVars => PipeReadInv'
  BY PipeReadNext
<1>3. PipeReadInv => ArgumentsGrow
  <2> SUFFICES ASSUME PipeReadInv, phase = "idle", previous PROVE ArgumentsGrow
    BY DEF ArgumentsGrow
  <2>1. PICK d : PipeReading(d)
    BY DEF PipeReadInv
  <2>2. Reading(d)
    BY <2>1 DEF PipeReading, StillThinking
  <2>3. output \in Outputs /\ WellFormed(output, d) /\ Progress(d) /\ ToolInv
    BY <2>2 DEF PipeReadInv, PipeInv, ToolInv, Reading
  <2>4. Sofar(d)
    BY <2>3, SitOf, ProgressSofar
  <2>5. OneShotCalls[output] = CallsIn(d)
    BY <2>3, OneShotIs
  <2>6. QED  BY <2>4, <2>5 DEF ArgumentsGrow, Sofar
<1>4. QED  BY <1>1, <1>2, <1>3, PTL DEF PipeSpec

\* And at its end the reasoning channel has the thoughts, and nothing of the
\* output behind them (dsv4_reasoning_tool_aware.py:15-17).
THEOREM PipeThoughtsWhole == PlainOutputs /\ ~MayCut => (PipeSpec => []ThoughtsWhole)
<1> SUFFICES ASSUME PlainOutputs, ~MayCut PROVE PipeSpec => []ThoughtsWhole
  OBVIOUS
<1>1. PipeInit => PipeReadInv
  BY PipeReadInit
<1>2. PipeReadInv /\ [PipeNext]_pipeVars => PipeReadInv'
  BY PipeReadNext
<1>3. PipeReadInv => ThoughtsWhole
  <2> SUFFICES ASSUME PipeReadInv, phase = "ended", thinking PROVE ReasoningIsThoughts
    BY DEF ThoughtsWhole
  <2>1. PICK d : PipeReading(d)
    BY DEF PipeReadInv
  <2>2. over
    BY <2>1 DEF PipeReading, StillThinking
  <2>3. QED  BY <2>1, <2>2 DEF PipeReading
<1>4. QED  BY <1>1, <1>2, <1>3, PTL DEF PipeSpec
=============================================================================
