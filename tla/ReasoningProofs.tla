--------------------------- MODULE ReasoningProofs ---------------------------
(***************************************************************************)
(* Proofs about ReasoningStream, for any tokens, cut into deltas of any    *)
(* size, with and without a tool parser behind it.                         *)
(***************************************************************************)
EXTENDS ReasoningStream, DsmlFacts

\* What texts are made of.
Pieces == Tokens \cup {LT, CLOSE}

\* The latch says whether a start tag is in the text, as long as the parser is
\* given the text; and once it is set a whole start tag is in the content,
\* not only in what is withheld.
ReasoningInv ==
    /\ orchestrated \in BOOLEAN /\ closed \in BOOLEAN
    /\ tagSeen \in BOOLEAN /\ over \in BOOLEAN
    /\ text \in Seq(Pieces) /\ reasoning \in Seq(Pieces) /\ content \in Seq(Pieces)
    /\ pending \in {<<>>, <<LT>>}
    /\ Len(text) =< MaxText
    /\ tagSeen => over
    /\ ~(orchestrated /\ over) => (tagSeen <=> EarliestToolTagPos(text) >= 0)
    /\ tagSeen => HasTag(content)

-----------------------------------------------------------------------------
LEMMA NoText == EarliestToolTagPos(<<>>) < 0
<1> DEFINE none == <<>>
<1>1. none \in Seq(Pieces) /\ Len(none) = 0
  OBVIOUS
<1>2. ASSUME NEW i \in {1, 2, 3, 4} PROVE Occurrences(AllTags[i], none) = {}
  <2>1. Len(AllTags[i]) \in Nat /\ Len(AllTags[i]) > 0
    <3>1. Len(AllTags[i]) = 3 \/ Len(AllTags[i]) = 2
      BY TagShapes
    <3> DEFINE n == Len(AllTags[i])
    <3> HIDE DEF n
    <3>2. n = 3 \/ n = 2
      BY <3>1 DEF n
    <3>3. n \in Nat /\ n > 0
      BY <3>2
    <3>4. QED  BY <3>3 DEF n
  <2>2. 0 .. Len(none) - Len(AllTags[i]) = {}
    BY <1>1, <2>1
  <2>3. QED  BY <2>2 DEF Occurrences
<1> HIDE DEF none
<1>3. ~(EarliestToolTagPos(none) >= 0) /\ EarliestToolTagPos(none) \in Int
  <2>1. DOMAIN AllTags = {1, 2, 3, 4}
    BY TagShapes
  <2>2. QED  BY <1>1, <1>2, <2>1, EarliestIs
<1>4. QED  BY <1>3 DEF none

LEMMA DeltaTyped ==
    ASSUME NEW delta \in Deltas
    PROVE  DeltaText(delta) \in Seq(Pieces)
<1> DEFINE texts == [i \in DOMAIN delta |-> TextOf(delta[i])]
<1>1. PICK n \in 1 .. MaxDelta : delta \in [1 .. n -> Tokens]
  BY DEF Deltas
<1>2. n \in Nat
  BY StreamAssumption
<1>3. \A i \in 1 .. n : TextOf(delta[i]) \in Seq(Pieces)
  <2> TAKE i \in 1 .. n
  <2>1. delta[i] \in Pieces
    BY <1>1 DEF Pieces
  <2>2. ThinkClose \in Seq(Pieces)
    BY DEF ThinkClose, Pieces
  <2>3. <<delta[i]>> \in Seq(Pieces)
    BY <2>1
  <2>4. QED  BY <2>2, <2>3 DEF TextOf
<1>4. texts \in Seq(Seq(Pieces))
  <2> DEFINE bit(i) == TextOf(delta[i])
  <2>1. texts = [i \in 1 .. n |-> bit(i)]
    BY <1>1
  <2>2. \A i \in 1 .. n : bit(i) \in Seq(Pieces)
    BY <1>3
  <2> HIDE DEF bit, texts
  <2>3. QED  BY <1>2, <2>1, <2>2
<1>5. QED  BY <1>4, FlattenTyped DEF DeltaText

LEMMA UpstreamTyped ==
    ASSUME NEW delta \in Deltas
    PROVE  Upstream(delta).reasoning \in Seq(Pieces) /\ Upstream(delta).content \in Seq(Pieces)
<1> DEFINE new == DeltaText(delta)
           p == Find(new, ThinkClose)
           close == p + Len(ThinkClose)
<1>1. new \in Seq(Pieces) /\ <<>> \in Seq(Pieces)
  BY DeltaTyped
<1>2. p \in Int /\ p =< Len(new) /\ close \in Nat
  <2>1. ThinkClose \in Seq({LT, CLOSE}) /\ Len(ThinkClose) = 2
    BY DEF ThinkClose
  <2> HIDE DEF new
  <2>2. /\ Find(new, ThinkClose) \in Int
        /\ Find(new, ThinkClose) < 0 => Find(new, ThinkClose) = -1
        /\ Find(new, ThinkClose) >= 0 => Find(new, ThinkClose) + 2 \in 0 .. Len(new)
    BY <1>1, <2>1, FindIs
  <2>3. Len(new) \in Nat
    BY <1>1
  <2>4. QED  BY <2>1, <2>2, <2>3
<1>3. Before(new, p) \in Seq(Pieces) /\ From(new, close) \in Seq(Pieces)
  <2> HIDE DEF new, p, close
  <2>1. QED  BY <1>1, <1>2, SliceTyped
<1>4. Upstream(delta) \in {Nothing, [reasoning |-> Before(new, p), content |-> From(new, close)],
                           [reasoning |-> <<>>, content |-> new],
                           [reasoning |-> new, content |-> <<>>]}
  BY Zenon DEF Upstream
<1> HIDE DEF new, p, close
<1> DEFINE result == Upstream(delta)
<1>5. \/ result = [reasoning |-> <<>>, content |-> <<>>]
      \/ result = [reasoning |-> Before(new, p), content |-> From(new, close)]
      \/ result = [reasoning |-> <<>>, content |-> new]
      \/ result = [reasoning |-> new, content |-> <<>>]
  BY <1>4 DEF Nothing
<1> HIDE DEF result
<1>6. PICK r \in Seq(Pieces), c \in Seq(Pieces) : result = [reasoning |-> r, content |-> c]
  BY <1>1, <1>3, <1>5, Zenon
<1>7. result.reasoning \in Seq(Pieces) /\ result.content \in Seq(Pieces)
  BY <1>6
<1>8. QED  BY <1>7 DEF result

\* What is given out is added to what was.
LEMMA EmitAdds ==
    ASSUME ReasoningInv, NEW result, Emit(result),
           result.reasoning \in Seq(Pieces), result.content \in Seq(Pieces)
    PROVE  /\ reasoning' \in Seq(Pieces) /\ content' \in Seq(Pieces)
           /\ pending' \in {<<>>, <<LT>>}
           /\ HasTag(content) => HasTag(content')
           /\ TagAt(result.content, 0) => HasTag(content')
<1>1. reasoning \in Seq(Pieces) /\ content \in Seq(Pieces) /\ pending \in {<<>>, <<LT>>}
  BY DEF ReasoningInv
<1>2. reasoning' \in Seq(Pieces)
  BY <1>1, ConcatProperties DEF Emit
<1>3. CASE result.content = <<>>
  <2>1. content' = content /\ pending' = pending
    BY <1>3 DEF Emit
  <2>2. ~TagAt(result.content, 0)
    <3>1. Len(result.content) = 0
      BY <1>3
    <3>2. QED  BY <3>1 DEF TagAt
  <2>3. HasTag(content')  <=> HasTag(content)
    BY <2>1 DEF HasTag, Occurrences, ToolStartTags, LT, DSML, CALLS, FUNCS
  <2>4. QED  BY <1>1, <1>2, <2>1, <2>2, <2>3
<1>4. CASE result.content # <<>>
  <2> DEFINE filtered == FilterThinkClose(pending, result.content)
             emit == filtered.emit
  <2>1. content' = content \o emit /\ pending' = filtered.pending
    BY <1>4, Zenon DEF Emit
  <2>2. pending \in Seq(Pieces)
    <3>1. <<>> \in Seq(Pieces) /\ <<LT>> \in Seq(Pieces)
      BY DEF Pieces
    <3>2. QED  BY <1>1, <3>1
  <2>3. emit \in Seq(Pieces) /\ filtered.pending \in {<<>>, <<LT>>}
    BY <2>2, FilterTyped
  <2>4. TagAt(result.content, 0) => HasTag(emit)
    BY <2>2, FilterKeepsTag
  <2> HIDE DEF filtered, emit
  <2>5. content \o emit \in Seq(Pieces)
    BY <1>1, <2>3, ConcatProperties
  <2>6. HasTag(content) => HasTag(content \o emit)
    BY <1>1, <2>3, TagLater
  <2>7. HasTag(emit) => HasTag(content \o emit)
    <3> SUFFICES ASSUME HasTag(emit) PROVE HasTag(content \o emit)
      OBVIOUS
    <3>1. PICK q \in Nat : TagAt(emit, q)
      BY <2>3, TagIsThere
    <3>2. TagAt(content \o emit, Len(content) + q)
      BY <1>1, <2>3, <3>1, TagFurther
    <3>3. Len(content) + q \in Nat
      BY <1>1
    <3>4. QED  BY <2>5, <3>2, <3>3, TagIsThere
  <2>8. QED  BY <1>2, <2>1, <2>3, <2>4, <2>5, <2>6, <2>7
<1>5. QED  BY <1>3, <1>4

LEMMA InitInv == Init => ReasoningInv
<1> SUFFICES ASSUME Init PROVE ReasoningInv
  OBVIOUS
<1> USE DEF Init
<1>1. <<>> \in Seq(Pieces) /\ Len(<<>>) = 0 /\ 0 =< MaxText
  BY StreamAssumption
<1>2. EarliestToolTagPos(<<>>) < 0 /\ EarliestToolTagPos(<<>>) \in Int
  <2>1. EarliestToolTagPos(<<>>) \in Int
    BY <1>1, EarliestIs
  <2>2. QED  BY <2>1, NoText
<1>3. tagSeen <=> EarliestToolTagPos(text) >= 0
  <2>1. ~(EarliestToolTagPos(<<>>) >= 0)
    BY <1>2
  <2>2. ~(EarliestToolTagPos(text) >= 0)
    BY <2>1
  <2>3. QED  BY <2>2
<1>4. /\ text \in Seq(Pieces) /\ reasoning \in Seq(Pieces) /\ content \in Seq(Pieces)
      /\ Len(text) =< MaxText
  BY <1>1
<1>5. QED  BY <1>3, <1>4 DEF ReasoningInv

\* The text as a step leaves it.
LEMMA TookInv ==
    ASSUME ReasoningInv, NEW delta \in Deltas, Arrives(delta), Took(delta)
    PROVE  /\ orchestrated' \in BOOLEAN /\ closed' \in BOOLEAN
           /\ text' \in Seq(Pieces) /\ Len(text') =< MaxText
           /\ EarliestToolTagPos(text') \in Int
           /\ EarliestToolTagPos(text) >= 0 => EarliestToolTagPos(text') >= 0
<1>1. text \in Seq(Pieces) /\ DeltaText(delta) \in Seq(Pieces)
  BY DeltaTyped DEF ReasoningInv
<1>2. text' = text \o DeltaText(delta)
  BY DEF Took
<1> DEFINE new == DeltaText(delta)
<1>3. new \in Seq(Pieces) /\ text' = text \o new /\ Len(text) + Len(new) =< MaxText
  BY <1>1, <1>2 DEF Arrives
<1> HIDE DEF new
<1>4. text' \in Seq(Pieces) /\ Len(text') = Len(text) + Len(new)
  BY <1>1, <1>3, ConcatProperties
<1>5. EarliestToolTagPos(text') \in Int
  BY <1>4, EarliestIs
<1>6. EarliestToolTagPos(text) >= 0 => EarliestToolTagPos(text \o new) >= 0
  BY <1>1, <1>3, BoundaryLater
<1>7. EarliestToolTagPos(text) >= 0 => EarliestToolTagPos(text') >= 0
  BY <1>3, <1>6
<1>8. orchestrated' \in BOOLEAN /\ closed' \in BOOLEAN
  BY DEF Took, ReasoningInv
<1>9. QED  BY <1>3, <1>4, <1>5, <1>7, <1>8

LEMMA LatchedInv ==
    ASSUME ReasoningInv, NEW delta \in Deltas, Arrives(delta), Took(delta), Latched
    PROVE  tagSeen' \in BOOLEAN /\ over' \in BOOLEAN /\ (tagSeen' => over')
<1>1. closed' \in BOOLEAN /\ EarliestToolTagPos(text') \in Int
  BY TookInv
<1>2. tagSeen \in BOOLEAN
  BY DEF ReasoningInv
<1>3. QED  BY <1>1, <1>2 DEF Latched

LEMMA AfterTagInv ==
    ASSUME ReasoningInv, NEW delta \in Deltas, AfterTag(delta)
    PROVE  ReasoningInv'
<1> DEFINE result == [reasoning |-> <<>>, content |-> DeltaText(delta)]
<1>1. /\ Arrives(delta) /\ Took(delta) /\ Latched /\ Emit(result)
      /\ ~(orchestrated /\ over) /\ EarliestToolTagPos(text) >= 0
  BY DEF AfterTag, Reasons, PastBoundary
<1>2. result.reasoning \in Seq(Pieces) /\ result.content \in Seq(Pieces)
  BY DeltaTyped
<1> HIDE DEF result
<1>3. tagSeen /\ HasTag(content)
  BY <1>1 DEF ReasoningInv
<1>4. /\ reasoning' \in Seq(Pieces) /\ content' \in Seq(Pieces) /\ pending' \in {<<>>, <<LT>>}
      /\ HasTag(content')
  BY <1>1, <1>2, <1>3, EmitAdds
<1>5. /\ orchestrated' \in BOOLEAN /\ closed' \in BOOLEAN
      /\ text' \in Seq(Pieces) /\ Len(text') =< MaxText /\ EarliestToolTagPos(text') >= 0
  BY <1>1, TookInv
<1>6. tagSeen' \in BOOLEAN /\ over' \in BOOLEAN /\ (tagSeen' => over')
  BY <1>1, LatchedInv
<1>7. tagSeen'
  BY <1>1, <1>3 DEF Latched
<1>8. ReasoningInv'
  <2>1. (HasTag(content))' <=> HasTag(content')
    BY DEF HasTag, Occurrences, ToolStartTags, LT, DSML, CALLS, FUNCS
  <2>2. QED  BY <1>4, <1>5, <1>6, <1>7, <2>1 DEF ReasoningInv
<1>9. QED  BY <1>8

LEMMA DeferInv ==
    ASSUME ReasoningInv, NEW delta \in Deltas, Defer(delta)
    PROVE  ReasoningInv'
<1>1. /\ Arrives(delta) /\ Took(delta) /\ Latched /\ Emit(Upstream(delta))
      /\ ~(orchestrated /\ over) /\ ~(EarliestToolTagPos(text) >= 0)
      /\ ~TagPresentOrForming(text \o DeltaText(delta))
  BY DEF Defer, Reasons, PastBoundary
<1>2. Upstream(delta).reasoning \in Seq(Pieces) /\ Upstream(delta).content \in Seq(Pieces)
  BY UpstreamTyped
<1>3. ~tagSeen
  BY <1>1 DEF ReasoningInv
<1>4. /\ reasoning' \in Seq(Pieces) /\ content' \in Seq(Pieces) /\ pending' \in {<<>>, <<LT>>}
  BY <1>1, <1>2, EmitAdds
<1>5. /\ orchestrated' \in BOOLEAN /\ closed' \in BOOLEAN
      /\ text' \in Seq(Pieces) /\ Len(text') =< MaxText
  BY <1>1, TookInv
<1>6. ~(EarliestToolTagPos(text') >= 0)
  BY <1>1 DEF TagPresentOrForming, Took
<1>7. tagSeen' \in BOOLEAN /\ over' \in BOOLEAN /\ (tagSeen' => over')
  BY <1>1, LatchedInv
<1>8. ~tagSeen'
  BY <1>1, <1>3, <1>6 DEF Latched
<1>9. QED  BY <1>4, <1>5, <1>6, <1>7, <1>8 DEF ReasoningInv

\* The split gives out the tag, and from its first piece.
LEMMA SplitDeltaInv ==
    ASSUME ReasoningInv, NEW delta \in Deltas, SplitDelta(delta)
    PROVE  ReasoningInv'
<1> DEFINE new == text \o DeltaText(delta)
           result == StreamDeltas(text, new)
<1>1. /\ Arrives(delta) /\ Took(delta) /\ Latched /\ Emit(result)
      /\ ~(orchestrated /\ over) /\ ~(EarliestToolTagPos(text) >= 0) /\ text' = new
  BY DEF SplitDelta, Reasons, PastBoundary, Took
<1>2. text \in Seq(Pieces) /\ new \in Seq(Pieces) /\ LT \in Pieces
  <2>1. text \in Seq(Pieces) /\ DeltaText(delta) \in Seq(Pieces)
    BY DeltaTyped DEF ReasoningInv
  <2>2. QED  BY <2>1, ConcatProperties DEF Pieces
<1> HIDE DEF new
<1>3. result.reasoning \in Seq(Pieces) /\ result.content \in Seq(Pieces)
  BY <1>2, DeltasTyped
<1>4. ~tagSeen
  BY <1>1 DEF ReasoningInv
<1>5. EarliestToolTagPos(new) >= 0 => TagAt(result.content, 0)
  <2> SUFFICES ASSUME EarliestToolTagPos(new) >= 0 PROVE TagAt(result.content, 0)
    OBVIOUS
  <2>1. EarliestToolTagPos(text) < 0
    <3>1. EarliestToolTagPos(text) \in Int
      BY <1>2, EarliestIs
    <3>2. QED  BY <1>1, <3>1
  <2>2. Split(text).content = <<>>
    BY <1>2, <2>1, SplitContent
  <2>3. TagAt(Split(new).content, 0) /\ Split(new).content \in Seq(Pieces)
    BY <1>2, SplitContent, SplitTyped
  <2> DEFINE c == Split(new).content
  <2>4. result.content = From(c, 0)
    <3>1. result.content = From(c, Len(Split(text).content))
      BY DEF StreamDeltas
    <3>2. Len(Split(text).content) = 0
      BY <2>2
    <3>3. QED  BY <3>1, <3>2
  <2> HIDE DEF c, result
  <2>5. From(c, 0) = c
    <3>1. c \in Seq(Pieces)
      BY <2>3 DEF c
    <3>2. SubSeq(c, 1, Len(c)) = c
      BY <3>1
    <3>3. QED  BY <3>2 DEF From
  <2>6. QED  BY <2>3, <2>4, <2>5 DEF c
<1> HIDE DEF result
<1>6. /\ reasoning' \in Seq(Pieces) /\ content' \in Seq(Pieces) /\ pending' \in {<<>>, <<LT>>}
      /\ EarliestToolTagPos(new) >= 0 => HasTag(content')
  BY <1>1, <1>3, <1>5, EmitAdds
<1>7. /\ orchestrated' \in BOOLEAN /\ closed' \in BOOLEAN
      /\ text' \in Seq(Pieces) /\ Len(text') =< MaxText
  BY <1>1, TookInv
<1>8. tagSeen' \in BOOLEAN /\ over' \in BOOLEAN /\ (tagSeen' => over')
  BY <1>1, LatchedInv
<1>9. tagSeen' <=> EarliestToolTagPos(new) >= 0
  <2>1. tagSeen' <=> EarliestToolTagPos(text') >= 0
    BY <1>1, <1>4, <1>8, Zenon DEF Latched
  <2>2. QED  BY <1>1, <2>1
<1>10. (HasTag(content))' <=> HasTag(content')
  BY DEF HasTag, Occurrences, ToolStartTags, LT, DSML, CALLS, FUNCS
<1>11. EarliestToolTagPos(text') >= 0 <=> EarliestToolTagPos(new) >= 0
  BY <1>1
<1>12. QED  BY <1>6, <1>7, <1>8, <1>9, <1>10, <1>11 DEF ReasoningInv

LEMMA ToToolParserInv ==
    ASSUME ReasoningInv, NEW delta \in Deltas, ToToolParser(delta)
    PROVE  ReasoningInv'
<1>1. /\ Arrives(delta) /\ Took(delta) /\ orchestrated /\ over
      /\ content' = content \o DeltaText(delta)
      /\ UNCHANGED <<orchestrated, tagSeen, over, pending, reasoning>>
  BY DEF ToToolParser, Took
<1>2. content \in Seq(Pieces) /\ DeltaText(delta) \in Seq(Pieces)
  BY DeltaTyped DEF ReasoningInv
<1>3. content' \in Seq(Pieces)
  BY <1>1, <1>2, ConcatProperties
<1>4. HasTag(content) => HasTag(content \o DeltaText(delta))
  BY <1>2, TagLater
<1>5. (HasTag(content))' <=> HasTag(content \o DeltaText(delta))
  BY <1>1 DEF HasTag, Occurrences, ToolStartTags, LT, DSML, CALLS, FUNCS
<1>6. closed' \in BOOLEAN /\ text' \in Seq(Pieces) /\ Len(text') =< MaxText
  BY <1>1, TookInv
<1>7. QED  BY <1>1, <1>3, <1>4, <1>5, <1>6 DEF ReasoningInv

LEMMA NextInv ==
    ASSUME ReasoningInv, [Next]_vars
    PROVE  ReasoningInv'
<1>1. CASE Next
  BY <1>1, AfterTagInv, DeferInv, SplitDeltaInv, ToToolParserInv DEF Next
<1>2. CASE UNCHANGED vars
  <2>1. UNCHANGED <<orchestrated, text, closed, tagSeen, pending, over, reasoning, content>>
    BY <1>2 DEF vars, outputs
  <2>2. (HasTag(content))' <=> HasTag(content)
    BY <2>1 DEF HasTag, Occurrences, ToolStartTags, LT, DSML, CALLS, FUNCS
  <2>3. QED  BY <2>1, <2>2 DEF ReasoningInv
<1>3. QED  BY <1>1, <1>2

LEMMA InvMarker == ReasoningInv => MarkerWhole
<1> SUFFICES ASSUME ReasoningInv, tagSeen
             PROVE  HasTag(content \o pending)
  BY DEF MarkerWhole, HasTag
<1>1. <<>> \in Seq(Pieces) /\ <<LT>> \in Seq(Pieces)
  BY DEF Pieces
<1>2. content \in Seq(Pieces) /\ pending \in Seq(Pieces) /\ HasTag(content)
  BY <1>1 DEF ReasoningInv
<1>3. QED  BY <1>2, TagLater

-----------------------------------------------------------------------------
(* The shapes of a text.                                                   *)
\* The shapes of a text: a close tag in it, and each with its "<"; ...
HasClose(t) == \E i \in 1 .. Len(t) : t[i] = CLOSE

Whole(t) == \A i \in 1 .. Len(t) : t[i] = CLOSE => i > 1 /\ t[i - 1] = LT

\* ... one start tag at most, one close tag at most, which strays behind the
\* start tag only if the parser sees every delta; ...
Tidy(t, o) ==
    /\ \A i \in 1 .. Len(t) - 1 :
         /\ t[i] = LT => t[i + 1] \in {DSML, CLOSE}
         /\ t[i] = DSML => t[i + 1] \in {CALLS, FUNCS}
    /\ \A i, j \in 1 .. Len(t) :
         /\ t[i] = DSML /\ t[j] = DSML => i = j
         /\ t[i] = CLOSE /\ t[j] = CLOSE => i = j
         /\ t[i] = DSML /\ t[j] = CLOSE => i < j /\ ~o

\* ... and the three phases of a tidy text: before any terminator, after
\* the close tag that ends at c, after the start tag with its marker at d.
Thinking(t) == ~HasClose(t) /\ \A i \in 1 .. Len(t) - 1 : t[i] # DSML

Ended(t, c) == c \in 1 .. Len(t) /\ t[c] = CLOSE /\ \A i \in 1 .. Len(t) : t[i] # DSML

Opened(t, d) == d \in 1 .. Len(t) - 1 /\ t[d] = DSML

\* What a text shows, the partial tag at its end held back.
Shown(t) == Len(t) - TrailingPartialTagLen(t)

\* The end of a tidy text goes through the filter whole.
Plain(t) ==
    /\ \A i \in 1 .. Len(t) - 1 : t[i] = LT => t[i + 1] # LT
    /\ Len(t) > 0 => t[Len(t)] # LT

\* What is joined of texts with whole close tags has them whole.
LEMMA WholeJoins ==
    ASSUME NEW S, NEW t \in Seq(S), NEW u \in Seq(S), Whole(t), Whole(u)
    PROVE  Whole(t \o u) /\ (HasClose(t \o u) <=> HasClose(t) \/ HasClose(u))
<1> DEFINE w == t \o u
           m == Len(t)
           n == Len(u)
<1>1. /\ Len(w) = m + n /\ m \in Nat /\ n \in Nat
      /\ \A i \in 1 .. m : w[i] = t[i]
      /\ \A i \in 1 .. n : w[m + i] = u[i]
  BY Joined
<1> HIDE DEF w
<1>2. /\ \A i \in 1 .. m : t[i] = CLOSE => i > 1 /\ t[i - 1] = LT
      /\ \A i \in 1 .. n : u[i] = CLOSE => i > 1 /\ u[i - 1] = LT
  BY DEF Whole
<1> HIDE DEF m, n
<1>3. ASSUME NEW i \in 1 .. m + n
      PROVE  \/ i \in 1 .. m /\ w[i] = t[i] /\ (i > 1 => w[i - 1] = t[i - 1])
             \/ /\ i - m \in 1 .. n /\ w[i] = u[i - m]
                /\ (i - m > 1 => i > 1 /\ w[i - 1] = u[(i - m) - 1])
  <2>1. CASE i =< m
    <3>1. i \in 1 .. m /\ (i > 1 => i - 1 \in 1 .. m)
      BY <1>1, <2>1
    <3>2. QED  BY <1>1, <3>1
  <2>2. CASE i > m
    <3>1. i - m \in 1 .. n /\ m + (i - m) = i
      BY <1>1, <2>2
    <3>2. i - m > 1 => i > 1 /\ (i - m) - 1 \in 1 .. n /\ m + ((i - m) - 1) = i - 1
      BY <1>1, <2>2
    <3>3. w[m + (i - m)] = u[i - m]
      BY <1>1, <3>1
    <3>4. i - m > 1 => w[m + ((i - m) - 1)] = u[(i - m) - 1]
      BY <1>1, <3>2
    <3>5. QED  BY <3>1, <3>2, <3>3, <3>4
  <2>3. QED  BY <1>1, <2>1, <2>2
<1>4. \A i \in 1 .. m + n : w[i] = CLOSE => i > 1 /\ w[i - 1] = LT
  <2> SUFFICES ASSUME NEW i \in 1 .. m + n, w[i] = CLOSE PROVE i > 1 /\ w[i - 1] = LT
    OBVIOUS
  <2>1. CASE i \in 1 .. m /\ w[i] = t[i] /\ (i > 1 => w[i - 1] = t[i - 1])
    BY <1>2, <2>1
  <2>2. CASE i - m \in 1 .. n /\ w[i] = u[i - m]
             /\ (i - m > 1 => i > 1 /\ w[i - 1] = u[(i - m) - 1])
    BY <1>2, <2>2
  <2>3. QED  BY <1>3, <2>1, <2>2
<1>5. (\E i \in 1 .. m + n : w[i] = CLOSE)
        <=> (\E i \in 1 .. m : t[i] = CLOSE) \/ (\E i \in 1 .. n : u[i] = CLOSE)
  <2>1. ASSUME NEW i \in 1 .. m + n, w[i] = CLOSE
        PROVE  (\E k \in 1 .. m : t[k] = CLOSE) \/ (\E k \in 1 .. n : u[k] = CLOSE)
    BY <1>3, <2>1
  <2>2. ASSUME NEW i \in 1 .. m, t[i] = CLOSE PROVE \E k \in 1 .. m + n : w[k] = CLOSE
    <3>1. i \in 1 .. m + n
      BY <1>1
    <3>2. QED  BY <1>1, <2>2, <3>1
  <2>3. ASSUME NEW i \in 1 .. n, u[i] = CLOSE PROVE \E k \in 1 .. m + n : w[k] = CLOSE
    <3>1. m + i \in 1 .. m + n
      BY <1>1
    <3>2. QED  BY <1>1, <2>3, <3>1
  <2>4. QED  BY <2>1, <2>2, <2>3
<1>6. Whole(w) /\ (HasClose(w) <=> HasClose(t) \/ HasClose(u))
  BY <1>1, <1>4, <1>5 DEF Whole, HasClose, m, n
<1>7. QED  BY <1>6 DEF w

\* In a text whose close tags are whole, where the only one is found.
LEMMA CloseFound ==
    ASSUME NEW S, NEW t \in Seq(S), Whole(t)
    PROVE  /\ Find(t, ThinkClose) < 0 <=> ~HasClose(t)
           /\ \A c \in 1 .. Len(t) :
                t[c] = CLOSE /\ (\A i \in 1 .. Len(t) : t[i] = CLOSE => i = c) =>
                    c >= 2 /\ t[c - 1] = LT /\ Find(t, ThinkClose) = c - 2
<1> DEFINE p == Find(t, ThinkClose)
<1>1. ThinkClose \in Seq({LT, CLOSE})
  BY DEF ThinkClose
<1>2. /\ p \in Int
      /\ p < 0 <=> Occurrences(ThinkClose, t) = {}
      /\ p >= 0 => p \in Occurrences(ThinkClose, t)
  BY <1>1, FindIs
<1> HIDE DEF p
<1>3. \A i \in 1 .. Len(t) : t[i] = CLOSE =>
          i >= 2 /\ t[i - 1] = LT /\ i - 2 \in Occurrences(ThinkClose, t)
  <2> SUFFICES ASSUME NEW i \in 1 .. Len(t), t[i] = CLOSE
               PROVE  i >= 2 /\ t[i - 1] = LT /\ i - 2 \in Occurrences(ThinkClose, t)
    OBVIOUS
  <2>1. i > 1 /\ t[i - 1] = LT
    BY DEF Whole
  <2>2. i - 2 \in Nat /\ (i - 2) + 2 =< Len(t) /\ (i - 2) + 1 = i - 1 /\ (i - 2) + 2 = i
    BY <2>1
  <2>3. i - 2 \in Occurrences(ThinkClose, t)
    BY <2>1, <2>2, CloseOccurs
  <2>4. QED  BY <2>1, <2>2, <2>3
<1>4. \A q \in Occurrences(ThinkClose, t) : q \in Nat /\ q + 2 \in 1 .. Len(t) /\ t[q + 2] = CLOSE
  <2> TAKE q \in Occurrences(ThinkClose, t)
  <2>1. q \in Nat /\ q + 2 =< Len(t) /\ t[q + 2] = CLOSE
    BY CloseOccurs
  <2>2. QED  BY <2>1
<1>5. p < 0 <=> ~HasClose(t)
  BY <1>2, <1>3, <1>4 DEF HasClose
<1>6. ASSUME NEW c \in 1 .. Len(t), t[c] = CLOSE, \A i \in 1 .. Len(t) : t[i] = CLOSE => i = c
      PROVE  c >= 2 /\ t[c - 1] = LT /\ p = c - 2
  <2>1. c >= 2 /\ t[c - 1] = LT /\ c - 2 \in Occurrences(ThinkClose, t)
    BY <1>3, <1>6
  <2>2. p >= 0
    BY <1>2, <2>1
  <2>3. p + 2 = c
    BY <1>2, <1>4, <1>6, <2>2
  <2>4. QED  BY <1>2, <2>1, <2>3
<1>7. QED  BY <1>5, <1>6 DEF p

\* What comes before the end of a tidy text is tidy, and one of its phases is
\* the one the longer text is in, or thinking.
LEMMA TidyBefore ==
    ASSUME NEW S, NEW t \in Seq(S), NEW u \in Seq(S), Len(u) > 0, u[1] # CLOSE,
           NEW o, Tidy(t \o u, o)
    PROVE  /\ Tidy(t, o)
           /\ Len(t) > 0 /\ t[Len(t)] = LT => u[1] = DSML
           /\ \A i \in 1 .. Len(u) - 1 : u[i] = LT => u[i + 1] \in {DSML, CLOSE}
           /\ Thinking(t \o u) => Thinking(t)
           /\ \A c : Ended(t \o u, c) => (Thinking(t) /\ c > Len(t)) \/ Ended(t, c)
           /\ \A d : Opened(t \o u, d) => (Thinking(t) /\ d >= Len(t)) \/ Opened(t, d)
<1> DEFINE w == t \o u
           m == Len(t)
           n == Len(u)
<1>1. /\ Len(w) = m + n /\ m \in Nat /\ n \in Nat /\ n > 0
      /\ \A i \in 1 .. m : w[i] = t[i]
      /\ \A i \in 1 .. n : w[m + i] = u[i]
  BY Joined
<1> HIDE DEF w
<1>2. /\ \A i \in 1 .. (m + n) - 1 :
           /\ w[i] = LT => w[i + 1] \in {DSML, CLOSE}
           /\ w[i] = DSML => w[i + 1] \in {CALLS, FUNCS}
      /\ \A i, j \in 1 .. m + n :
           /\ w[i] = DSML /\ w[j] = DSML => i = j
           /\ w[i] = CLOSE /\ w[j] = CLOSE => i = j
           /\ w[i] = DSML /\ w[j] = CLOSE => i < j /\ ~o
  BY <1>1 DEF Tidy, w
<1> HIDE DEF m, n
<1>3. \A i \in 1 .. m : i \in 1 .. m + n
  BY <1>1
<1>4. \A i \in 1 .. m - 1 : /\ i \in 1 .. (m + n) - 1 /\ i \in 1 .. m /\ i + 1 \in 1 .. m
                            /\ w[i] = t[i] /\ w[i + 1] = t[i + 1]
  BY <1>1
<1>5. Tidy(t, o)
  <2>1. \A i \in 1 .. m - 1 :
           /\ t[i] = LT => t[i + 1] \in {DSML, CLOSE}
           /\ t[i] = DSML => t[i + 1] \in {CALLS, FUNCS}
    BY <1>2, <1>4
  <2>2. \A i, j \in 1 .. m :
           /\ t[i] = DSML /\ t[j] = DSML => i = j
           /\ t[i] = CLOSE /\ t[j] = CLOSE => i = j
           /\ t[i] = DSML /\ t[j] = CLOSE => i < j /\ ~o
    BY <1>1, <1>2, <1>3
  <2>3. QED  BY <2>1, <2>2 DEF Tidy, m
<1>6. m > 0 /\ t[m] = LT => u[1] = DSML
  <2> SUFFICES ASSUME m > 0, t[m] = LT PROVE u[1] = DSML
    OBVIOUS
  <2>1. m \in 1 .. (m + n) - 1 /\ m \in 1 .. m /\ 1 \in 1 .. n
    BY <1>1
  <2>2. w[m] = LT /\ w[m + 1] = u[1]
    BY <1>1, <2>1
  <2>3. QED  BY <1>2, <2>1, <2>2
<1>7. \A i \in 1 .. n - 1 : u[i] = LT => u[i + 1] \in {DSML, CLOSE}
  <2> TAKE i \in 1 .. n - 1
  <2>1. m + i \in 1 .. (m + n) - 1 /\ i \in 1 .. n /\ i + 1 \in 1 .. n
        /\ m + (i + 1) = (m + i) + 1
    BY <1>1
  <2>2. w[m + i] = u[i] /\ w[(m + i) + 1] = u[i + 1]
    BY <1>1, <2>1
  <2>3. QED  BY <1>2, <2>1, <2>2
<1>8. Thinking(w) => Thinking(t)
  <2> SUFFICES ASSUME Thinking(w) PROVE Thinking(t)
    OBVIOUS
  <2>1. /\ \A i \in 1 .. m + n : w[i] # CLOSE
        /\ \A i \in 1 .. (m + n) - 1 : w[i] # DSML
    BY <1>1 DEF Thinking, HasClose
  <2>2. \A i \in 1 .. m : t[i] # CLOSE
    BY <1>1, <1>3, <2>1
  <2>3. \A i \in 1 .. m - 1 : t[i] # DSML
    BY <1>4, <2>1
  <2>4. QED  BY <2>2, <2>3 DEF Thinking, HasClose, m
<1>9. \A c : Ended(w, c) => (Thinking(t) /\ c > m) \/ Ended(t, c)
  <2> SUFFICES ASSUME NEW c, Ended(w, c) PROVE (Thinking(t) /\ c > m) \/ Ended(t, c)
    OBVIOUS
  <2>1. c \in 1 .. m + n /\ w[c] = CLOSE /\ \A i \in 1 .. m + n : w[i] # DSML
    BY <1>1 DEF Ended
  <2>2. \A i \in 1 .. m : t[i] # DSML
    BY <1>1, <1>3, <2>1
  <2>3. CASE c \in 1 .. m
    <3>1. t[c] = CLOSE
      BY <1>1, <2>1, <2>3
    <3>2. QED  BY <2>2, <2>3, <3>1 DEF Ended, m
  <2>4. CASE c \notin 1 .. m
    <3>1. c > m
      BY <1>1, <2>1, <2>4
    <3>2. \A i \in 1 .. m : t[i] # CLOSE
      BY <1>1, <1>2, <1>3, <2>1, <2>4
    <3>3. \A i \in 1 .. m - 1 : t[i] # DSML
      BY <1>4, <2>2
    <3>4. QED  BY <3>1, <3>2, <3>3 DEF Thinking, HasClose, m
  <2>5. QED  BY <2>3, <2>4
<1>10. \A d : Opened(w, d) => (Thinking(t) /\ d >= m) \/ Opened(t, d)
  <2> SUFFICES ASSUME NEW d, Opened(w, d) PROVE (Thinking(t) /\ d >= m) \/ Opened(t, d)
    OBVIOUS
  <2>1. d \in 1 .. (m + n) - 1 /\ d \in 1 .. m + n /\ w[d] = DSML
    BY <1>1 DEF Opened
  <2>2. CASE d \in 1 .. m - 1
    <3>1. t[d] = DSML
      BY <1>4, <2>1, <2>2
    <3>2. QED  BY <2>2, <3>1 DEF Opened, m
  <2>3. CASE d \notin 1 .. m - 1
    <3>1. d >= m
      BY <1>1, <2>1, <2>3
    <3>2. \A i \in 1 .. m : t[i] # CLOSE
      <4> SUFFICES ASSUME NEW i \in 1 .. m, t[i] = CLOSE PROVE FALSE
        OBVIOUS
      <4>1. w[i] = CLOSE /\ i \in 1 .. m + n /\ i =< m
        BY <1>1, <1>3
      <4>2. d < i
        BY <1>2, <2>1, <4>1
      <4>3. d \in Int /\ i \in Int /\ m \in Int
        BY <1>1, <2>1
      <4>4. QED  BY <3>1, <4>1, <4>2, <4>3
    <3>3. \A i \in 1 .. m - 1 : t[i] # DSML
      BY <1>2, <1>3, <1>4, <2>1, <2>3
    <3>4. QED  BY <3>1, <3>2, <3>3 DEF Thinking, HasClose, m
  <2>4. QED  BY <2>2, <2>3
<1>11. QED  BY <1>5, <1>6, <1>7, <1>8, <1>9, <1>10 DEF w, m, n

\* A tidy text is in one of the phases.
LEMMA Phases ==
    ASSUME NEW S, NEW t \in Seq(S), NEW o, Tidy(t, o)
    PROVE  Thinking(t) \/ (\E c : Ended(t, c)) \/ (\E d : Opened(t, d))
<1> SUFFICES ASSUME ~Thinking(t), \A d : ~Opened(t, d)
             PROVE  \E c : Ended(t, c)
  OBVIOUS
<1>1. Len(t) \in Nat /\ \A i \in 1 .. Len(t) - 1 : t[i] # DSML
  BY DEF Opened
<1>2. PICK c \in 1 .. Len(t) : t[c] = CLOSE
  BY <1>1 DEF Thinking, HasClose
<1>3. \A i \in 1 .. Len(t) : t[i] # DSML
  <2> SUFFICES ASSUME NEW i \in 1 .. Len(t), t[i] = DSML PROVE FALSE
    OBVIOUS
  <2>1. i < c
    BY <1>2 DEF Tidy
  <2>2. i \in 1 .. Len(t) - 1
    BY <1>1, <2>1
  <2>3. QED  BY <1>1, <2>2
<1>4. QED  BY <1>2, <1>3 DEF Ended

\* A longer text shows no less.
LEMMA ShownGrows ==
    ASSUME NEW S, NEW t \in Seq(S), NEW u \in Seq(S), Len(u) > 0
    PROVE  /\ Shown(t) \in 0 .. Len(t)
           /\ Shown(t \o u) \in Shown(t) .. Len(t) + Len(u)
           /\ \A d \in 1 .. Len(t) + Len(u) : d >= Len(t) /\ (t \o u)[d] = DSML =>
                PlaceOf(t \o u, d) \in Shown(t) .. Len(t) + Len(u)
<1> DEFINE w == t \o u
           m == Len(t)
           n == Len(w)
           h == TrailingPartialTagLen(t)
           k == TrailingPartialTagLen(w)
<1>1. /\ w \in Seq(S) /\ n = m + Len(u) /\ m \in Nat /\ Len(u) \in Nat \ {0}
      /\ \A i \in 1 .. m : w[i] = t[i]
  BY Joined
<1>2. h = IF m = 0 THEN 0
          ELSE IF t[m] = LT THEN 1
          ELSE IF t[m] # DSML THEN 0
          ELSE IF m > 1 /\ t[m - 1] = LT THEN 2 ELSE 1
  BY HeldIs
<1> HIDE DEF w
<1>3. k = IF n = 0 THEN 0
          ELSE IF w[n] = LT THEN 1
          ELSE IF w[n] # DSML THEN 0
          ELSE IF n > 1 /\ w[n - 1] = LT THEN 2 ELSE 1
  <2>1. w \in Seq(S)
    BY <1>1
  <2>2. QED  BY <2>1, HeldIs
<1> HIDE DEF m, n, h, k
<1>4. n > m /\ n \in Nat /\ n = m + Len(u)
  BY <1>1
<1>5. h \in 0 .. m /\ k \in 0 .. n
  BY <1>1, <1>2, <1>3, <1>4
<1>6. m - h =< n - k
  <2>1. CASE n > m + 1
    <3>1. k =< 2
      BY <1>3
    <3>2. QED  BY <1>1, <1>4, <1>5, <2>1, <3>1
  <2>2. CASE n = m + 1
    <3>1. m > 0 => w[m] = t[m] /\ n - 1 = m
      BY <1>1, <2>2
    <3>2. CASE k = 2
      <4>1. n > 1 /\ w[n - 1] = LT
        BY <1>3, <3>2
      <4>2. m > 0 /\ t[m] = LT
        BY <1>1, <2>2, <3>1, <4>1
      <4>3. h = 1
        BY <1>1, <1>2, <4>2
      <4>4. QED  BY <1>1, <2>2, <3>2, <4>3
    <3>3. CASE k # 2
      <4>1. k =< 1
        BY <1>3, <3>3
      <4>2. QED  BY <1>1, <1>5, <2>2, <4>1
    <3>4. QED  BY <3>2, <3>3
  <2>3. QED  BY <1>1, <1>4, <2>1, <2>2
<1>7. ASSUME NEW d \in 1 .. n, d >= m, w[d] = DSML
      PROVE  PlaceOf(w, d) \in m - h .. n
  <2> DEFINE place == IF d > 1 /\ w[d - 1] = LT THEN d - 2 ELSE d - 1
  <2>1. place =< n /\ place >= 0 /\ place \in Int /\ d \in Nat
    BY <1>4
  <2>2. CASE d = m
    <3>1. t[m] = DSML /\ m > 0 /\ (m > 1 => w[m - 1] = t[m - 1])
      BY <1>1, <1>7, <2>2
    <3>2. t[m] # LT
      BY <3>1, PiecesDiffer
    <3>3. h = IF m > 1 /\ t[m - 1] = LT THEN 2 ELSE 1
      BY <1>2, <3>1, <3>2
    <3>4. QED  BY <1>1, <2>1, <2>2, <3>1, <3>3 DEF PlaceOf, Headed
  <2>3. CASE d = m + 1
    <3>1. CASE d > 1 /\ w[d - 1] = LT
      <4>1. m > 0 /\ t[m] = LT
        BY <1>1, <2>3, <3>1
      <4>2. h = 1
        BY <1>2, <4>1
      <4>3. QED  BY <1>1, <2>1, <2>3, <3>1, <4>2 DEF PlaceOf, Headed
    <3>2. CASE ~(d > 1 /\ w[d - 1] = LT)
      BY <1>1, <1>5, <2>1, <2>3, <3>2 DEF PlaceOf, Headed
    <3>3. QED  BY <3>1, <3>2
  <2>4. CASE d > m + 1
    BY <1>1, <1>5, <2>1, <2>4 DEF PlaceOf, Headed
  <2>5. QED  BY <1>1, <1>7, <2>1, <2>2, <2>3, <2>4
<1>8. /\ m - h \in 0 .. m
      /\ n - k \in m - h .. n
  BY <1>1, <1>4, <1>5, <1>6
<1>9. /\ m - h \in 0 .. m
      /\ n - k \in m - h .. m + Len(u)
      /\ \A d \in 1 .. m + Len(u) : d >= m /\ w[d] = DSML =>
           PlaceOf(w, d) \in m - h .. m + Len(u)
  BY <1>4, <1>7, <1>8
<1>10. QED  BY <1>9 DEF m, n, h, k, w, Shown

\* Nothing is held back of a text that goes on without a marker.
LEMMA NoneHeld ==
    ASSUME NEW S, NEW t \in Seq(S), NEW u \in Seq(S), Len(u) > 0, u[1] # CLOSE,
           NEW o, Tidy(t \o u, o), \A i \in 1 .. Len(t) + Len(u) : (t \o u)[i] # DSML
    PROVE  TrailingPartialTagLen(t) = 0
<1> DEFINE w == t \o u
<1>1. /\ Len(t) \in Nat /\ Len(u) \in Nat
      /\ \A i \in 1 .. Len(t) : w[i] = t[i]
      /\ \A i \in 1 .. Len(u) : w[Len(t) + i] = u[i]
  BY Joined
<1>2. Len(t) > 0 /\ t[Len(t)] = LT => u[1] = DSML
  BY TidyBefore
<1>3. \A i \in 1 .. Len(t) + Len(u) : w[i] # DSML
  OBVIOUS
<1> HIDE DEF w
<1>4. Len(t) > 0 => t[Len(t)] # DSML /\ t[Len(t)] # LT
  <2> SUFFICES ASSUME Len(t) > 0 PROVE t[Len(t)] # DSML /\ t[Len(t)] # LT
    OBVIOUS
  <2>1. /\ Len(t) \in 1 .. Len(t) /\ Len(t) \in 1 .. Len(t) + Len(u)
        /\ 1 \in 1 .. Len(u) /\ Len(t) + 1 \in 1 .. Len(t) + Len(u)
    BY <1>1
  <2>2. u[1] # DSML /\ t[Len(t)] # DSML
    BY <1>1, <1>3, <2>1
  <2>3. QED  BY <1>2, <2>2
<1>5. QED  BY <1>1, <1>4, HeldIs

\* What the split gives in each phase.
LEMMA NoTagYet ==
    ASSUME NEW S, NEW t \in Seq(S), Thinking(t) \/ \E c : Ended(t, c)
    PROVE  /\ EarliestToolTagPos(t) = -1
           /\ Split(t).reasoning = Before(t, Shown(t)) /\ Split(t).content = <<>>
<1>1. \A d \in 1 .. Len(t) - 1 : t[d] # DSML
  BY DEF Thinking, Ended
<1>2. EarliestToolTagPos(t) = -1
  BY <1>1, NoTagThere
<1>3. EarliestToolTagPos(t) < 0
  BY <1>2
<1>4. QED  BY <1>2, <1>3, SplitNoTag DEF Shown

LEMMA TagOpened ==
    ASSUME NEW S, NEW t \in Seq(S), NEW o, Tidy(t, o), NEW d, Opened(t, d)
    PROVE  /\ d \in 1 .. Len(t) - 1 /\ t[d] = DSML /\ PlaceOf(t, d) \in 0 .. Len(t)
           /\ EarliestToolTagPos(t) = PlaceOf(t, d)
           /\ Split(t).reasoning = Before(t, PlaceOf(t, d))
           /\ Split(t).content = IF Headed(t, d) THEN From(t, PlaceOf(t, d))
                                 ELSE Repaired(From(t, PlaceOf(t, d)))
<1>1. d \in 1 .. Len(t) - 1 /\ d \in 1 .. Len(t) /\ t[d] = DSML
  BY DEF Opened
<1>2. t[d + 1] \in {CALLS, FUNCS} /\ \A i \in 1 .. Len(t) : t[i] = DSML => i = d
  BY <1>1 DEF Tidy
<1>3. PlaceOf(t, d) \in 0 .. Len(t)
  BY <1>1 DEF PlaceOf, Headed
<1>4. QED  BY <1>1, <1>2, <1>3, SplitAtTag

\* Once the tag is open, what comes goes behind it.
LEMMA SplitContinues ==
    ASSUME NEW S, LT \in S, NEW t \in Seq(S), NEW u \in Seq(S), NEW o, Tidy(t, o),
           Tidy(t \o u, o), NEW d, Opened(t, d)
    PROVE  /\ Opened(t \o u, d)
           /\ Split(t \o u).reasoning = Split(t).reasoning
           /\ Split(t \o u).content = Split(t).content \o u
<1> DEFINE w == t \o u
           place == PlaceOf(t, d)
           rest == From(t, place)
<1>1. /\ w \in Seq(S) /\ Len(w) = Len(t) + Len(u) /\ Len(t) \in Nat /\ Len(u) \in Nat
      /\ \A i \in 1 .. Len(t) : w[i] = t[i]
  BY Joined
<1>2. /\ d \in 1 .. Len(t) - 1 /\ t[d] = DSML /\ place \in 0 .. Len(t)
      /\ Split(t).reasoning = Before(t, place)
      /\ Split(t).content = IF Headed(t, d) THEN rest ELSE Repaired(rest)
  BY TagOpened
<1>3. From(w, place) = rest \o u /\ Before(w, place) = Before(t, place) /\ rest \in Seq(S)
  <2>1. place \in 0 .. Len(t)
    BY <1>2
  <2> HIDE DEF place
  <2>2. From(w, place) = rest \o u /\ Before(w, place) = Before(t, place)
    BY <2>1, RestJoins
  <2>3. rest \in Seq(S)
    BY <2>1, Slices
  <2>4. QED  BY <2>2, <2>3
<1> HIDE DEF w
<1>4. d \in 1 .. Len(t) /\ (d > 1 => d - 1 \in 1 .. Len(t)) /\ d \in 1 .. Len(w) - 1
  BY <1>1, <1>2
<1>5. Opened(w, d)
  BY <1>1, <1>2, <1>4 DEF Opened
<1>6. (Headed(w, d) <=> Headed(t, d)) /\ PlaceOf(w, d) = place
  BY <1>1, <1>4 DEF Headed, PlaceOf
<1>7. /\ Split(w).reasoning = Before(w, place)
      /\ Split(w).content = IF Headed(t, d) THEN From(w, place) ELSE Repaired(From(w, place))
  <2>1. Tidy(w, o) /\ w \in Seq(S)
    BY <1>1 DEF w
  <2> HIDE DEF place
  <2>2. /\ Split(w).reasoning = Before(w, PlaceOf(w, d))
        /\ Split(w).content = IF Headed(w, d) THEN From(w, PlaceOf(w, d))
                              ELSE Repaired(From(w, PlaceOf(w, d)))
    BY <1>5, <2>1, TagOpened
  <2>3. QED  BY <1>6, <2>2
<1>8. Repaired(rest \o u) = Repaired(rest) \o u
  <2>1. <<LT>> \in Seq(S)
    OBVIOUS
  <2> HIDE DEF rest
  <2>2. (<<LT>> \o rest) \o u = <<LT>> \o (rest \o u)
    BY <1>3, <2>1, ConcatAssociative
  <2>3. QED  BY <2>2 DEF Repaired
<1> HIDE DEF rest, place
<1>9. Split(w).reasoning = Split(t).reasoning
  BY <1>2, <1>3, <1>7
<1>10. Split(w).content = Split(t).content \o u
  BY <1>2, <1>3, <1>7, <1>8
<1>11. QED  BY <1>5, <1>9, <1>10 DEF w

LEMMA EndPlain ==
    ASSUME NEW S, LT \in S, NEW t \in Seq(S), NEW o, Tidy(t, o), t[Len(t)] # LT,
           NEW p \in 0 .. Len(t)
    PROVE  /\ Plain(From(t, p))
           /\ p < Len(t) /\ t[p + 1] = DSML => Plain(Repaired(From(t, p)))
<1> DEFINE rest == From(t, p)
           n == Len(t)
<1>1. /\ rest \in Seq(S) /\ Len(rest) = n - p /\ n \in Nat
      /\ \A i \in 1 .. n - p : rest[i] = t[i + p]
  BY Slices
<1> HIDE DEF rest
<1>2. \A i \in 1 .. n - 1 : t[i] = LT => t[i + 1] # LT
  BY PiecesDiffer DEF Tidy
<1>3. \A i \in 1 .. (n - p) - 1 : rest[i] = LT => rest[i + 1] # LT
  <2> TAKE i \in 1 .. (n - p) - 1
  <2>1. /\ i + p \in 1 .. n - 1 /\ (i + p) + 1 = (i + 1) + p
        /\ i \in 1 .. n - p /\ i + 1 \in 1 .. n - p
    BY <1>1
  <2>2. rest[i] = t[i + p] /\ rest[i + 1] = t[(i + p) + 1]
    BY <1>1, <2>1
  <2>3. QED  BY <1>2, <2>1, <2>2
<1>4. n - p > 0 => rest[n - p] # LT
  <2>1. n - p > 0 => n - p \in 1 .. n - p /\ (n - p) + p = n
    BY <1>1
  <2>2. QED  BY <1>1, <2>1
<1>5. Plain(rest)
  BY <1>1, <1>3, <1>4 DEF Plain
<1>6. ASSUME p < n, t[p + 1] = DSML PROVE Plain(Repaired(rest))
  <2> DEFINE head == <<LT>>
             all == head \o rest
  <2>1. head \in Seq(S) /\ Len(head) = 1 /\ head[1] = LT
    OBVIOUS
  <2> HIDE DEF head
  <2>2. /\ Len(all) = 1 + (n - p)
        /\ \A i \in 1 .. Len(head) : all[i] = head[i]
        /\ \A i \in 1 .. Len(rest) : all[Len(head) + i] = rest[i]
    <3>1. rest \in Seq(S) /\ head \in Seq(S)
      BY <1>1, <2>1
    <3>2. /\ Len(all) = Len(head) + Len(rest)
          /\ \A i \in 1 .. Len(head) : all[i] = head[i]
          /\ \A i \in 1 .. Len(rest) : all[Len(head) + i] = rest[i]
      BY <3>1, Joined
    <3>3. QED  BY <1>1, <2>1, <3>2
  <2> HIDE DEF all
  <2>3. all[1] = LT
    <3>1. 1 \in 1 .. Len(head)
      BY <2>1
    <3>2. QED  BY <2>1, <2>2, <3>1
  <2>4. \A i \in 1 .. n - p : all[1 + i] = rest[i]
    BY <1>1, <2>1, <2>2
  <2>5. rest[1] = DSML /\ DSML # LT
    <3>1. 1 \in 1 .. n - p /\ 1 + p = p + 1
      BY <1>1, <1>6
    <3>2. QED  BY <1>1, <1>6, <3>1, PiecesDiffer
  <2>6. \A i \in 1 .. (1 + (n - p)) - 1 : all[i] = LT => all[i + 1] # LT
    <3> TAKE i \in 1 .. (1 + (n - p)) - 1
    <3>1. CASE i = 1
      <4>1. 1 \in 1 .. n - p /\ i + 1 = 1 + 1
        BY <1>1, <1>6, <3>1
      <4>2. all[1 + 1] = rest[1]
        BY <2>4, <4>1
      <4>3. QED  BY <2>5, <4>1, <4>2
    <3>2. CASE i # 1
      <4> DEFINE j == i - 1
      <4>1. j \in 1 .. (n - p) - 1 /\ j \in 1 .. n - p /\ j + 1 \in 1 .. n - p
            /\ 1 + j = i /\ 1 + (j + 1) = i + 1
        BY <1>1, <3>2
      <4> HIDE DEF j
      <4>2. all[1 + j] = rest[j] /\ all[1 + (j + 1)] = rest[j + 1]
        BY <2>4, <4>1
      <4>3. QED  BY <1>3, <4>1, <4>2
    <3>3. QED  BY <3>1, <3>2
  <2>7. all[1 + (n - p)] # LT
    <3>1. n - p \in 1 .. n - p /\ n - p > 0
      BY <1>1, <1>6
    <3>2. QED  BY <1>4, <2>4, <3>1
  <2>8. Plain(all)
    BY <2>2, <2>6, <2>7 DEF Plain
  <2>9. QED  BY <2>8 DEF all, head, Repaired
<1>7. QED  BY <1>5, <1>6 DEF rest, n

-----------------------------------------------------------------------------
(* What the stream has given out of a tidy text.                           *)
\* What the channels hold while the text is tidy, by its phase. The invariant
\* speaks of tidy texts and not of clean ones because a text that is clean has
\* grown out of texts that were not: what came before its end may stop inside
\* a tag.
StreamInv ==
    /\ ReasoningInv
    /\ Whole(text)
    /\ closed <=> HasClose(text)
    /\ Tidy(text, orchestrated) =>
         /\ Thinking(text) =>
              ~over /\ reasoning = Before(text, Shown(text)) /\ content = <<>> /\ pending = <<>>
         /\ \A c : Ended(text, c) /\ text[Len(text)] # LT =>
              reasoning = Before(text, c - 2) /\ content = From(text, c) /\ pending = <<>>
         /\ \A d : Opened(text, d) =>
              /\ reasoning = Split(text).reasoning
              /\ text[Len(text)] # LT =>
                   content = WithoutClose(Split(text).content) /\ pending = <<>>

\* A step of the parser, or around it to the tool parser.
Step(delta) == AfterTag(delta) \/ Defer(delta) \/ SplitDelta(delta) \/ ToToolParser(delta)

\* The text of a delta that the tokenizer can make of one: a close tag comes
\* as END, and whole.
LEMMA DeltaShape ==
    ASSUME CLOSE \notin Tokens, NEW delta \in Deltas
    PROVE  LET new == DeltaText(delta)
           IN  /\ new \in Seq(Pieces) /\ Len(new) > 0 /\ new[1] # CLOSE /\ Whole(new)
               /\ HasClose(new) <=> \E i \in DOMAIN delta : delta[i] = END
               /\ delta = <<END>> => new = ThinkClose
<1> DEFINE new == DeltaText(delta)
           texts == [i \in DOMAIN delta |-> TextOf(delta[i])]
<1>1. PICK n \in 1 .. MaxDelta : delta \in [1 .. n -> Tokens]
  BY DEF Deltas
<1>2. n \in Nat \ {0} /\ DOMAIN delta = 1 .. n
  BY <1>1, StreamAssumption
<1>3. ASSUME NEW i \in 1 .. n
      PROVE  LET s == TextOf(delta[i])
             IN  /\ s \in Seq(Pieces) /\ Len(s) > 0 /\ s[1] # CLOSE /\ Whole(s)
                 /\ HasClose(s) <=> delta[i] = END
  <2>1. delta[i] \in Pieces /\ delta[i] # CLOSE
    BY <1>1 DEF Pieces
  <2>2. CASE delta[i] = END
    <3> DEFINE s == ThinkClose
    <3>1. s \in Seq(Pieces) /\ Len(s) = 2 /\ s[1] = LT /\ s[2] = CLOSE
      BY DEF ThinkClose, Pieces
    <3> HIDE DEF s
    <3>2. s \in Seq(Pieces) /\ Len(s) > 0 /\ s[1] # CLOSE /\ Whole(s) /\ HasClose(s)
      BY <3>1, PiecesDiffer DEF Whole, HasClose
    <3>3. TextOf(delta[i]) = s
      BY <2>2 DEF TextOf, s
    <3>4. QED  BY <2>2, <3>2, <3>3
  <2>3. CASE delta[i] # END
    <3> DEFINE s == <<delta[i]>>
    <3>1. s \in Seq(Pieces) /\ Len(s) = 1 /\ s[1] = delta[i]
      BY <2>1
    <3> HIDE DEF s
    <3>2. s \in Seq(Pieces) /\ Len(s) > 0 /\ s[1] # CLOSE /\ Whole(s) /\ ~HasClose(s)
      BY <2>1, <3>1 DEF Whole, HasClose
    <3>3. TextOf(delta[i]) = s
      BY <2>3 DEF TextOf, s
    <3>4. QED  BY <2>3, <3>2, <3>3
  <2>4. QED  BY <2>2, <2>3
<1> DEFINE bit(i) == TextOf(delta[i])
<1>4. texts \in Seq(Seq(Pieces)) /\ Len(texts) = n /\ \A i \in 1 .. n : texts[i] = bit(i)
  <2>1. texts = [i \in 1 .. n |-> bit(i)]
    BY <1>2
  <2>2. \A i \in 1 .. n : bit(i) \in Seq(Pieces)
    BY <1>3
  <2> HIDE DEF bit, texts
  <2>3. QED  BY <1>2, <2>1, <2>2
<1>5. new = FlattenSeq(texts)
  BY DEF DeltaText
<1>6. /\ \A i \in 1 .. n : /\ bit(i) \in Seq(Pieces) /\ Len(bit(i)) > 0 /\ bit(i)[1] # CLOSE
                           /\ Whole(bit(i))
                           /\ HasClose(bit(i)) <=> delta[i] = END
  BY <1>3
<1> HIDE DEF texts, bit, new
<1>7. PICK f : Flattens(f, Pieces, texts)
  BY <1>4, FlattenFrom
<1>8. /\ f[0] = <<>> /\ new = f[n] /\ \A i \in 0 .. n : f[i] \in Seq(Pieces)
      /\ \A i \in 1 .. n : f[i] = f[i - 1] \o bit(i)
  BY <1>2, <1>4, <1>5, <1>7 DEF Flattens
<1> DEFINE fine(i) == /\ Whole(f[i])
                      /\ HasClose(f[i]) <=> \E j \in 1 .. i : delta[j] = END
                      /\ i > 0 => Len(f[i]) > 0 /\ f[i][1] # CLOSE
           Fine == {i \in Nat : fine(i)}
<1>9. 0 \in Fine
  <2>1. Len(f[0]) = 0
    BY <1>8
  <2>2. QED  BY <2>1 DEF Whole, HasClose
<1>10. ASSUME NEW i \in 0 .. n - 1, i \in Fine PROVE i + 1 \in Fine
  <2>1. i \in Nat /\ i + 1 \in 1 .. n /\ (i + 1) - 1 = i /\ i \in 0 .. n
    BY <1>2
  <2> DEFINE a == f[i]
             b == bit(i + 1)
             s == a \o b
  <2>2. /\ a \in Seq(Pieces) /\ Whole(a)
        /\ HasClose(a) <=> \E j \in 1 .. i : delta[j] = END
        /\ i > 0 => Len(a) > 0 /\ a[1] # CLOSE
        /\ i = 0 => Len(a) = 0
    <3>1. i = 0 => Len(a) = 0
      BY <1>8
    <3>2. fine(i)
      BY <1>10
    <3>3. QED  BY <1>8, <2>1, <3>1, <3>2
  <2>3. /\ b \in Seq(Pieces) /\ Len(b) > 0 /\ b[1] # CLOSE /\ Whole(b)
        /\ HasClose(b) <=> delta[i + 1] = END
    BY <1>6, <2>1
  <2>4. f[i + 1] = s
    BY <1>8, <2>1
  <2> HIDE DEF a, b
  <2>5. Whole(s) /\ (HasClose(s) <=> HasClose(a) \/ HasClose(b))
    BY <2>2, <2>3, WholeJoins
  <2>6. /\ Len(s) = Len(a) + Len(b) /\ Len(a) \in Nat /\ Len(b) \in Nat
        /\ \A j \in 1 .. Len(a) : s[j] = a[j]
        /\ \A j \in 1 .. Len(b) : s[Len(a) + j] = b[j]
    <3>1. a \in Seq(Pieces) /\ b \in Seq(Pieces)
      BY <2>2, <2>3
    <3>2. QED  BY <3>1, Joined
  <2> HIDE DEF s
  <2>7. Len(s) > 0 /\ s[1] # CLOSE
    <3>1. CASE i = 0
      <4>1. Len(a) = 0 /\ 1 \in 1 .. Len(b)
        BY <2>2, <2>3, <2>6, <3>1
      <4>2. s[Len(a) + 1] = b[1] /\ Len(a) + 1 = 1
        BY <2>6, <4>1
      <4>3. QED  BY <2>3, <2>6, <4>1, <4>2
    <3>2. CASE i > 0
      <4>1. 1 \in 1 .. Len(a) /\ a[1] # CLOSE
        BY <2>2, <2>6, <3>2
      <4>2. QED  BY <2>3, <2>6, <4>1
    <3>3. QED  BY <2>1, <3>1, <3>2
  <2>8. (\E j \in 1 .. i + 1 : delta[j] = END)
            <=> (\E j \in 1 .. i : delta[j] = END) \/ delta[i + 1] = END
    BY <2>1
  <2>9. fine(i + 1)
    BY <2>2, <2>3, <2>4, <2>5, <2>7, <2>8
  <2>10. QED  BY <2>1, <2>9
<1> HIDE DEF Fine
<1>11. 0 .. n \subseteq Fine
  BY <1>2, <1>9, <1>10, UpToInduction
<1>12. fine(n)
  BY <1>2, <1>11 DEF Fine
<1>13. delta = <<END>> => new = ThinkClose
  <2> SUFFICES ASSUME delta = <<END>> PROVE new = ThinkClose
    OBVIOUS
  <2>1. delta[1] = END /\ n = 1
    <3>1. DOMAIN delta = 1 .. 1 /\ delta[1] = END
      OBVIOUS
    <3>2. n \in 1 .. 1
      BY <1>2, <3>1
    <3>3. QED  BY <3>1, <3>2
  <2>2. f[1] = f[0] \o bit(1) /\ f[0] = <<>>
    <3>1. 1 \in 1 .. n /\ 1 - 1 = 0
      BY <2>1
    <3>2. f[1] = f[1 - 1] \o bit(1)
      BY <1>8, <3>1
    <3>3. QED  BY <1>8, <3>1, <3>2
  <2>3. bit(1) = ThinkClose
    BY <2>1 DEF bit, TextOf
  <2>4. <<>> \o ThinkClose = ThinkClose
    <3>1. ThinkClose \in Seq(Pieces)
      BY DEF ThinkClose, Pieces
    <3>2. QED  BY <3>1, ConcatEmptySeq
  <2>5. QED  BY <1>8, <2>1, <2>2, <2>3, <2>4
<1>14. /\ new \in Seq(Pieces) /\ Len(new) > 0 /\ new[1] # CLOSE /\ Whole(new)
       /\ HasClose(new) <=> \E i \in DOMAIN delta : delta[i] = END
  <2>1. new \in Seq(Pieces) /\ new = f[n]
    BY <1>2, <1>8
  <2>2. /\ Whole(f[n]) /\ Len(f[n]) > 0 /\ f[n][1] # CLOSE
        /\ HasClose(f[n]) <=> \E i \in 1 .. n : delta[i] = END
    BY <1>2, <1>12
  <2> HIDE DEF fine
  <2>3. QED  BY <1>2, <2>1, <2>2
<1>15. QED  BY <1>13, <1>14 DEF new

\* What a step hears, and what it knew.
LEMMA Heard ==
    ASSUME CLOSE \notin Tokens, StreamInv, NEW delta \in Deltas, Took(delta)
    PROVE  LET new == DeltaText(delta)
           IN  /\ text \in Seq(Pieces) /\ new \in Seq(Pieces) /\ Len(new) > 0 /\ new[1] # CLOSE
               /\ text' = text \o new /\ text' \in Seq(Pieces)
               /\ Len(text') = Len(text) + Len(new)
               /\ Whole(text') /\ (closed' <=> HasClose(text')) /\ orchestrated' = orchestrated
               /\ HasClose(text') <=> HasClose(text) \/ HasClose(new)
               /\ HasClose(new) <=> \E i \in DOMAIN delta : delta[i] = END
<1> DEFINE new == DeltaText(delta)
<1>1. /\ new \in Seq(Pieces) /\ Len(new) > 0 /\ new[1] # CLOSE /\ Whole(new)
      /\ HasClose(new) <=> \E i \in DOMAIN delta : delta[i] = END
  BY DeltaShape
<1>2. /\ text' = text \o new /\ orchestrated' = orchestrated
      /\ closed' <=> closed \/ \E i \in DOMAIN delta : delta[i] = END
  BY DEF Took
<1>3. text \in Seq(Pieces) /\ Whole(text) /\ (closed <=> HasClose(text))
  BY DEF StreamInv, ReasoningInv
<1> HIDE DEF new
<1>4. Whole(text \o new) /\ (HasClose(text \o new) <=> HasClose(text) \/ HasClose(new))
  BY <1>1, <1>3, WholeJoins
<1>5. text \o new \in Seq(Pieces) /\ Len(text \o new) = Len(text) + Len(new)
  BY <1>1, <1>3, Joined
<1>6. Whole(text') /\ (HasClose(text') <=> HasClose(text) \/ HasClose(new))
      /\ text' \in Seq(Pieces) /\ Len(text') = Len(text) + Len(new)
  BY <1>2, <1>4, <1>5
<1>7. closed' <=> HasClose(text')
  BY <1>1, <1>2, <1>3, <1>6
<1>8. QED  BY <1>1, <1>2, <1>3, <1>6, <1>7 DEF new

\* What a plain result adds to the channels.
LEMMA EmitPlain ==
    ASSUME NEW r \in Seq(Pieces), NEW c \in Seq(Pieces), Plain(c),
           Emit([reasoning |-> r, content |-> c]),
           pending = <<>>, content \in Seq(Pieces)
    PROVE  /\ reasoning' = reasoning \o r
           /\ content' = content \o WithoutClose(c) /\ pending' = <<>>
<1>1. reasoning' = reasoning \o r
  BY DEF Emit
<1>2. CASE c = <<>>
  <2>1. content' = content /\ pending' = <<>>
    BY <1>2 DEF Emit
  <2>2. WithoutClose(c) = <<>>
    BY <1>2, WithoutNone
  <2>3. content \o <<>> = content
    BY ConcatEmptySeq
  <2>4. QED  BY <1>1, <2>1, <2>2, <2>3
<1>3. CASE c # <<>>
  <2> DEFINE filtered == FilterThinkClose(<<>>, c)
  <2>1. content' = content \o filtered.emit /\ pending' = filtered.pending
    BY <1>3, Zenon DEF Emit
  <2>2. /\ \A i \in 1 .. Len(c) - 1 : c[i] = LT => c[i + 1] # LT
        /\ Len(c) > 0 => c[Len(c)] # LT
    BY DEF Plain
  <2>3. filtered.emit = WithoutClose(c) /\ filtered.pending = <<>>
    BY <2>2, FilterAll
  <2> HIDE DEF filtered
  <2>4. QED  BY <1>1, <2>1, <2>3
<1>4. QED  BY <1>2, <1>3

\* What the upstream parser makes of a delta, while it hears no start tag.
LEMMA UpstreamIs ==
    ASSUME CLOSE \notin Tokens, NEW delta \in Deltas
    PROVE  LET new == DeltaText(delta)
               p == Find(new, ThinkClose)
           IN  /\ ~closed /\ ~HasClose(new) =>
                    Upstream(delta) = [reasoning |-> new, content |-> <<>>]
               /\ closed /\ ~HasClose(new) =>
                    Upstream(delta) = [reasoning |-> <<>>, content |-> new]
               /\ HasClose(new) =>
                    Upstream(delta) = [reasoning |-> Before(new, p), content |-> From(new, p + 2)]
<1> DEFINE new == DeltaText(delta)
           p == Find(new, ThinkClose)
<1>1. /\ HasClose(new) <=> \E i \in DOMAIN delta : delta[i] = END
      /\ delta = <<END>> => new = ThinkClose
  BY DeltaShape
<1>2. Len(ThinkClose) = 2
  BY DEF ThinkClose
<1>3. delta = <<END>> => \E i \in DOMAIN delta : delta[i] = END
  OBVIOUS
<1> DEFINE has == \E i \in DOMAIN delta : delta[i] = END
           only == delta = <<END>>
           after == [reasoning |-> Before(new, p), content |-> From(new, p + Len(ThinkClose))]
<1>4. Upstream(delta) = CASE only -> Nothing
                          [] ~only /\ has -> after
                          [] closed /\ ~has -> [reasoning |-> <<>>, content |-> new]
                          [] OTHER -> [reasoning |-> new, content |-> <<>>]
  BY Zenon DEF Upstream
<1>5. after = [reasoning |-> Before(new, p), content |-> From(new, p + 2)]
  BY <1>2
<1>6. Nothing = [reasoning |-> <<>>, content |-> <<>>]
  BY DEF Nothing
<1>7. /\ HasClose(new) <=> has
      /\ only => new = ThinkClose
      /\ only => has
  BY <1>1, <1>3
<1> HIDE DEF new, p, has, only, after
<1>8. ~closed /\ ~HasClose(new) => Upstream(delta) = [reasoning |-> new, content |-> <<>>]
  BY <1>4, <1>7, Zenon
<1>9. closed /\ ~HasClose(new) => Upstream(delta) = [reasoning |-> <<>>, content |-> new]
  BY <1>4, <1>7, Zenon
<1>10. HasClose(new) /\ only => /\ new = ThinkClose
                                /\ Upstream(delta) = [reasoning |-> <<>>, content |-> <<>>]
  BY <1>4, <1>6, <1>7, Zenon
<1>11. HasClose(new) /\ ~only =>
          Upstream(delta) = [reasoning |-> Before(new, p), content |-> From(new, p + 2)]
  BY <1>4, <1>5, <1>7, Zenon
<1>12. new = ThinkClose => Before(new, p) = <<>> /\ From(new, p + 2) = <<>>
  <2> SUFFICES ASSUME new = ThinkClose PROVE Before(new, p) = <<>> /\ From(new, p + 2) = <<>>
    OBVIOUS
  <2>1. new \in Seq(Pieces) /\ Len(new) = 2 /\ new[1] = LT /\ new[2] = CLOSE
    BY DEF ThinkClose, Pieces
  <2>2. Whole(new) /\ 2 \in 1 .. Len(new) /\ \A i \in 1 .. Len(new) : new[i] = CLOSE => i = 2
    BY <2>1, PiecesDiffer DEF Whole
  <2>3. p = 2 - 2
    <3>1. \A c \in 1 .. Len(new) :
             new[c] = CLOSE /\ (\A i \in 1 .. Len(new) : new[i] = CLOSE => i = c) =>
                 Find(new, ThinkClose) = c - 2
      BY <2>1, <2>2, CloseFound
    <3>2. Find(new, ThinkClose) = 2 - 2
      BY <2>1, <2>2, <3>1
    <3>3. QED  BY <3>2 DEF p
  <2>4. p = 0 /\ p + 2 = 2 /\ 0 \in 0 .. Len(new) /\ 2 \in 0 .. Len(new)
    BY <2>1, <2>3
  <2>5. Before(new, 0) \in Seq(Pieces) /\ Len(Before(new, 0)) = 0
    BY <2>1, <2>4, Slices
  <2>6. From(new, 2) \in Seq(Pieces) /\ Len(From(new, 2)) = Len(new) - 2
    <3>1. new \in Seq(Pieces) /\ 2 \in 0 .. Len(new)
      BY <2>1, <2>4
    <3>2. QED  BY <3>1, Slices
  <2>7. Len(From(new, 2)) = 0
    BY <2>1, <2>6
  <2>8. Before(new, 0) = <<>> /\ From(new, 2) = <<>>
    BY <2>5, <2>6, <2>7
  <2>9. QED  BY <2>4, <2>8
<1>13. HasClose(new) =>
          Upstream(delta) = [reasoning |-> Before(new, p), content |-> From(new, p + 2)]
  BY <1>10, <1>11, <1>12
<1>14. QED  BY <1>8, <1>9, <1>13 DEF new, p

\* What every step of the parser or around it does.
LEMMA StepIs ==
    ASSUME NEW delta \in Deltas, Step(delta)
    PROVE  Took(delta) /\ Arrives(delta)
BY DEF Step, AfterTag, Defer, SplitDelta, ToToolParser, Reasons

\* While the text is thinking, reasoning follows what it shows.
LEMMA ThinkingStep ==
    ASSUME CLOSE \notin Tokens, StreamInv, NEW delta \in Deltas, Step(delta),
           Tidy(text', orchestrated), Thinking(text')
    PROVE  ~over' /\ reasoning' = Before(text', Shown(text')) /\ content' = <<>> /\ pending' = <<>>
<1> DEFINE new == DeltaText(delta)
           w == text \o new
<1>1. /\ text \in Seq(Pieces) /\ new \in Seq(Pieces) /\ Len(new) > 0 /\ new[1] # CLOSE
      /\ text' = w /\ w \in Seq(Pieces) /\ Len(w) = Len(text) + Len(new)
      /\ closed' <=> HasClose(w)
      /\ HasClose(w) <=> HasClose(text) \/ HasClose(new)
  <2>1. Took(delta)
    BY StepIs
  <2>2. QED  BY <2>1, Heard
<1> HIDE DEF new
<1>2. Tidy(w, orchestrated) /\ Thinking(w)
  BY <1>1
<1>3. Tidy(text, orchestrated) /\ Thinking(text)
  BY <1>1, <1>2, TidyBefore
<1>4. /\ ~over /\ reasoning = Before(text, Shown(text)) /\ content = <<>> /\ pending = <<>>
      /\ ~closed /\ ~tagSeen /\ tagSeen \in BOOLEAN
  <2>1. ~HasClose(text)
    BY <1>3 DEF Thinking
  <2>2. QED  BY <1>3, <2>1 DEF StreamInv, ReasoningInv
<1>5. /\ EarliestToolTagPos(text) = -1
      /\ Split(text).reasoning = Before(text, Shown(text)) /\ Split(text).content = <<>>
  BY <1>1, <1>3, NoTagYet
<1> HIDE DEF w
<1>6. /\ EarliestToolTagPos(w) = -1
      /\ Split(w).reasoning = Before(w, Shown(w)) /\ Split(w).content = <<>>
  BY <1>1, <1>2, NoTagYet
<1>7. Shown(text) \in 0 .. Len(text) /\ Shown(w) \in Shown(text) .. Len(text) + Len(new)
  BY <1>1, ShownGrows DEF w
<1>8. ~HasClose(w) /\ ~HasClose(new) /\ ~closed'
  <2>1. ~HasClose(w)
    BY <1>2 DEF Thinking
  <2>2. QED  BY <1>1, <2>1
<1>9. ~(EarliestToolTagPos(text) >= 0) /\ ~(EarliestToolTagPos(w) >= 0)
  BY <1>5, <1>6
<1>10. Defer(delta) \/ SplitDelta(delta)
  BY <1>4, <1>9 DEF Step, AfterTag, ToToolParser, PastBoundary
<1>11. Latched
  BY <1>10 DEF Defer, SplitDelta
<1>12. ~over'
  <2>1. tagSeen' = (tagSeen \/ EarliestToolTagPos(w) >= 0) /\ over' = (tagSeen' \/ closed')
    BY <1>1, <1>11 DEF Latched
  <2>2. QED  BY <1>4, <1>8, <1>9, <2>1
<1>13. Plain(<<>>) /\ <<>> \in Seq(Pieces) /\ WithoutClose(<<>>) = <<>>
  <2> DEFINE none == <<>>
  <2>1. none \in Seq(Pieces) /\ Len(none) = 0
    OBVIOUS
  <2> HIDE DEF none
  <2>2. Plain(none) /\ none \in Seq(Pieces)
    BY <2>1 DEF Plain
  <2>3. QED  BY <2>2, WithoutNone DEF none
<1>14. ASSUME NEW r \in Seq(Pieces), Emit([reasoning |-> r, content |-> <<>>])
       PROVE  reasoning' = reasoning \o r /\ content' = <<>> /\ pending' = <<>>
  <2>1. content \in Seq(Pieces)
    BY DEF StreamInv, ReasoningInv
  <2>2. /\ reasoning' = reasoning \o r
        /\ content' = content \o WithoutClose(<<>>) /\ pending' = <<>>
    BY <1>4, <1>13, <1>14, <2>1, EmitPlain
  <2>3. content' = <<>> \o <<>>
    BY <1>4, <1>13, <2>2
  <2>4. <<>> \o <<>> = <<>>
    BY <1>13, ConcatEmptySeq
  <2>5. QED  BY <2>2, <2>3, <2>4
<1>15. CASE Defer(delta)
  <2>1. Emit(Upstream(delta)) /\ ~TagPresentOrForming(w)
    BY <1>15 DEF Defer, w, new
  <2>2. Upstream(delta) = [reasoning |-> new, content |-> <<>>]
    BY <1>4, <1>8, UpstreamIs DEF new
  <2>3. reasoning' = reasoning \o new /\ content' = <<>> /\ pending' = <<>>
    BY <1>1, <1>14, <2>1, <2>2
  <2>4. TrailingPartialTagLen(w) = 0
    <3>1. TrailingPartialTagLen(w) \in 0 .. Len(w)
      BY <1>1, PartialBounded DEF TrailingPartialTagLen
    <3>2. ~(TrailingPartialTagLen(w) > 0)
      BY <2>1 DEF TagPresentOrForming
    <3>3. QED  BY <3>1, <3>2
  <2>5. \A i \in 1 .. Len(text) + Len(new) : w[i] # DSML
    <3>1. w[Len(w)] # DSML
      <4>1. Len(w) > 0
        BY <1>1
      <4>2. QED  BY <1>1, <2>4, <4>1, HeldIs, PiecesDiffer
    <3>2. \A i \in 1 .. Len(w) - 1 : w[i] # DSML
      BY <1>2 DEF Thinking
    <3>3. Len(w) \in Nat /\ Len(w) = Len(text) + Len(new)
      BY <1>1
    <3>4. \A i \in 1 .. Len(w) : i \in 1 .. Len(w) - 1 \/ i = Len(w)
      BY <3>3
    <3>5. QED  BY <3>1, <3>2, <3>3, <3>4
  <2>6. TrailingPartialTagLen(text) = 0
    BY <1>1, <1>2, <2>5, NoneHeld DEF w
  <2>7. Shown(text) = Len(text) /\ Shown(w) = Len(w)
    BY <1>1, <2>4, <2>6 DEF Shown
  <2>8. Before(text, Len(text)) = text /\ Before(w, Len(w)) = w
    BY <1>1 DEF Before
  <2>9. reasoning' = w
    BY <1>4, <2>3, <2>7, <2>8 DEF w
  <2>10. QED  BY <1>1, <1>12, <2>3, <2>7, <2>8, <2>9
<1>16. CASE SplitDelta(delta)
  <2> DEFINE r == From(Before(w, Shown(w)), Shown(text))
  <2>1. Emit(StreamDeltas(text, w))
    BY <1>16 DEF SplitDelta, w, new
  <2>2. StreamDeltas(text, w) = [reasoning |-> r, content |-> <<>>]
    <3>1. Before(text, Shown(text)) \in Seq(Pieces) /\ Len(Before(text, Shown(text))) = Shown(text)
      BY <1>1, <1>7, Slices
    <3>2. From(<<>>, Len(<<>>)) = <<>>
      BY DEF From
    <3>3. StreamDeltas(text, w) = [reasoning |-> From(Before(w, Shown(w)), Len(Before(text, Shown(text)))),
                                   content |-> From(<<>>, Len(<<>>))]
      BY <1>5, <1>6 DEF StreamDeltas
    <3>4. QED  BY <3>1, <3>2, <3>3
  <2>3. r \in Seq(Pieces)
    <3>1. Shown(w) \in 0 .. Len(w) /\ Shown(text) \in 0 .. Shown(w)
      BY <1>1, <1>7
    <3>2. Before(w, Shown(w)) \in Seq(Pieces) /\ Len(Before(w, Shown(w))) = Shown(w)
      BY <1>1, <3>1, Slices
    <3>3. QED  BY <3>1, <3>2, Slices
  <2>4. Before(text, Shown(text)) \o r = Before(w, Shown(w))
    BY <1>1, <1>7, Continued DEF w
  <2> HIDE DEF r
  <2>5. reasoning' = reasoning \o r /\ content' = <<>> /\ pending' = <<>>
    BY <1>14, <2>1, <2>2, <2>3
  <2>6. QED  BY <1>1, <1>4, <1>12, <2>4, <2>5
<1>17. QED  BY <1>10, <1>15, <1>16

\* A text that a close tag ended goes on in the content.
LEMMA EndedStep ==
    ASSUME CLOSE \notin Tokens, StreamInv, NEW delta \in Deltas, Step(delta),
           Tidy(text', orchestrated), NEW c, Ended(text', c), text'[Len(text')] # LT
    PROVE  reasoning' = Before(text', c - 2) /\ content' = From(text', c) /\ pending' = <<>>
<1> DEFINE new == DeltaText(delta)
           w == text \o new
           m == Len(text)
           n == Len(w)
<1>1. /\ text \in Seq(Pieces) /\ new \in Seq(Pieces) /\ Len(new) > 0 /\ new[1] # CLOSE
      /\ text' = w /\ w \in Seq(Pieces) /\ n = m + Len(new)
      /\ Whole(w)
      /\ HasClose(w) <=> HasClose(text) \/ HasClose(new)
  <2>1. Took(delta)
    BY StepIs
  <2>2. QED  BY <2>1, Heard
<1> HIDE DEF new
<1>2. Tidy(w, orchestrated) /\ Ended(w, c) /\ w[n] # LT
  BY <1>1
<1>3. /\ Tidy(text, orchestrated)
      /\ (Thinking(text) /\ c > m) \/ Ended(text, c)
      /\ m > 0 /\ text[m] = LT => new[1] = DSML
  BY <1>1, <1>2, TidyBefore
<1>4. /\ \A i \in 1 .. m : w[i] = text[i]
      /\ \A i \in 1 .. Len(new) : w[m + i] = new[i]
  BY <1>1, Joined
<1>5. m \in Nat /\ n \in Nat /\ Len(new) \in Nat
  BY <1>1
<1>6. EarliestToolTagPos(text) = -1
  BY <1>1, <1>3, NoTagYet
<1> HIDE DEF w
<1>7. EarliestToolTagPos(w) = -1
  BY <1>1, <1>2, NoTagYet
<1>8. c \in 1 .. n /\ w[c] = CLOSE /\ \A i \in 1 .. n : w[i] # DSML
  BY <1>2 DEF Ended
<1>9. \A i \in 1 .. n : w[i] = CLOSE => i = c
  BY <1>2, <1>8 DEF Tidy
<1>10. c >= 2 /\ c - 2 \in 0 .. n /\ c \in 0 .. n
  <2>1. c >= 2
    BY <1>1, <1>8, <1>9, CloseFound
  <2>2. QED  BY <1>8, <2>1
<1>11. ~TagPresentOrForming(w)
  <2>1. n > 0 /\ w[n] # DSML
    <3>1. n > 0 /\ n \in 1 .. n
      BY <1>1, <1>5
    <3>2. QED  BY <1>8, <3>1
  <2>2. TrailingPartialTagLen(w) = 0
    BY <1>1, <1>2, <2>1, HeldIs
  <2>3. QED  BY <1>7, <2>2 DEF TagPresentOrForming
<1>12. Defer(delta) \/ ToToolParser(delta)
  <2>1. ~AfterTag(delta)
    BY <1>6 DEF AfterTag, PastBoundary
  <2>2. ~SplitDelta(delta)
    BY <1>11 DEF SplitDelta, w, new
  <2>3. QED  BY <2>1, <2>2 DEF Step
\* What comes behind the close tag goes through the filter as it is.
<1>13. ASSUME NEW p \in 0 .. n, p >= c \/ (p >= m /\ ~HasClose(new))
       PROVE  /\ From(w, p) \in Seq(Pieces) /\ Plain(From(w, p))
              /\ WithoutClose(From(w, p)) = From(w, p)
  <2>1. /\ From(w, p) \in Seq(Pieces) /\ Len(From(w, p)) = n - p
        /\ \A i \in 1 .. n - p : From(w, p)[i] = w[i + p]
    <3>1. w \in Seq(Pieces) /\ p \in 0 .. Len(w)
      BY <1>1
    <3>2. QED  BY <3>1, Slices
  <2>2. LT \in Pieces
    BY DEF Pieces
  <2>3. Plain(From(w, p))
    BY <1>1, <1>2, <2>2, EndPlain
  <2>4. \A i \in 1 .. n - p : w[i + p] # CLOSE
    <3> SUFFICES ASSUME NEW i \in 1 .. n - p, w[i + p] = CLOSE PROVE FALSE
      OBVIOUS
    <3>1. i + p \in 1 .. n /\ i + p > p
      BY <1>5
    <3>2. i + p = c
      BY <1>9, <3>1
    <3>3. p >= m /\ ~HasClose(new)
      BY <1>8, <1>13, <3>1, <3>2
    <3>4. (i + p) - m \in 1 .. Len(new) /\ m + ((i + p) - m) = i + p
      BY <1>1, <1>5, <3>1, <3>3
    <3>5. new[(i + p) - m] = CLOSE
      BY <1>4, <3>4
    <3>6. QED  BY <3>3, <3>4, <3>5 DEF HasClose
  <2>5. \A i \in 1 .. Len(From(w, p)) : From(w, p)[i] # CLOSE
    BY <2>1, <2>4
  <2>6. QED  BY <2>1, <2>3, <2>5, WithoutCloseSame
<1>14. content \in Seq(Pieces) /\ reasoning \in Seq(Pieces) /\ (closed <=> HasClose(text))
  BY DEF StreamInv, ReasoningInv
\* The close tag comes with this delta.
<1>15. CASE Thinking(text) /\ c > m
  <2> DEFINE p == Find(new, ThinkClose)
  <2>1. /\ ~over /\ reasoning = Before(text, Shown(text)) /\ content = <<>> /\ pending = <<>>
    BY <1>3, <1>15 DEF StreamInv
  <2>2. Defer(delta)
    BY <1>12, <2>1 DEF ToToolParser
  <2>3. HasClose(new)
    <3>1. ~HasClose(text) /\ HasClose(w)
      BY <1>8, <1>15 DEF Thinking, HasClose
    <3>2. QED  BY <1>1, <3>1
  <2>4. Emit(Upstream(delta))
    BY <2>2 DEF Defer
  <2>5. Upstream(delta) = [reasoning |-> Before(new, p), content |-> From(new, p + 2)]
    BY <2>3, UpstreamIs DEF new
  <2>6. p = (c - m) - 2 /\ c - m >= 2 /\ c - m \in 1 .. Len(new)
    <3>1. Whole(new)
      BY DeltaShape DEF new
    <3>2. c - m \in 1 .. Len(new) /\ m + (c - m) = c
      BY <1>1, <1>5, <1>8, <1>15
    <3>3. new[c - m] = CLOSE
      BY <1>4, <1>8, <3>2
    <3>4. \A i \in 1 .. Len(new) : new[i] = CLOSE => i = c - m
      <4> SUFFICES ASSUME NEW i \in 1 .. Len(new), new[i] = CLOSE PROVE i = c - m
        OBVIOUS
      <4>1. m + i \in 1 .. n /\ w[m + i] = CLOSE
        BY <1>1, <1>4, <1>5
      <4>2. m + i = c
        BY <1>9, <4>1
      <4>3. QED  BY <1>5, <4>2
    <3>5. \A k \in 1 .. Len(new) :
             new[k] = CLOSE /\ (\A i \in 1 .. Len(new) : new[i] = CLOSE => i = k) =>
                 k >= 2 /\ Find(new, ThinkClose) = k - 2
      BY <1>1, <3>1, CloseFound
    <3>6. QED  BY <3>2, <3>3, <3>4, <3>5
  <2> HIDE DEF p
  <2>7. p \in 0 .. Len(new) /\ p + 2 \in 0 .. Len(new) /\ m + p = c - 2 /\ m + (p + 2) = c
    BY <1>5, <1>8, <2>6
  <2>8. TrailingPartialTagLen(text) = 0
    BY <1>1, <1>2, <1>8, NoneHeld DEF w
  <2>9. reasoning = text
    <3>1. Shown(text) = Len(text)
      BY <1>5, <2>8 DEF Shown
    <3>2. Before(text, Len(text)) = text
      BY <1>1 DEF Before
    <3>3. QED  BY <2>1, <3>1, <3>2
  <2>10. Before(new, p) \in Seq(Pieces) /\ text \o Before(new, p) = Before(w, c - 2)
    <3>1. Before(new, p) \in Seq(Pieces)
      BY <1>1, <2>7, Slices
    <3>2. Before(text \o new, Len(text) + p) = text \o Before(new, p)
      <4>1. text \in Seq(Pieces) /\ new \in Seq(Pieces) /\ p \in 0 .. Len(new)
        BY <1>1, <2>7
      <4>2. QED  BY <4>1, RestOfSecond
    <3>3. QED  BY <2>7, <3>1, <3>2 DEF w
  <2>11. From(new, p + 2) = From(w, c)
    <3>1. From(text \o new, Len(text) + (p + 2)) = From(new, p + 2)
      BY <1>1, <2>7, RestOfSecond
    <3>2. QED  BY <2>7, <3>1 DEF w
  <2>12. /\ From(w, c) \in Seq(Pieces) /\ Plain(From(w, c))
         /\ WithoutClose(From(w, c)) = From(w, c)
    <3>1. c \in 0 .. n /\ c >= c
      BY <1>10
    <3>2. QED  BY <1>13, <3>1
  <2>13. /\ reasoning' = reasoning \o Before(new, p)
         /\ content' = content \o WithoutClose(From(w, c)) /\ pending' = <<>>
    <3>1. Emit([reasoning |-> Before(new, p), content |-> From(w, c)])
      BY <2>4, <2>5, <2>11
    <3>2. QED  BY <1>14, <2>1, <2>10, <2>12, <3>1, EmitPlain
  <2>14. <<>> \o From(w, c) = From(w, c)
    BY <2>12, ConcatEmptySeq
  <2>15. QED  BY <1>1, <2>1, <2>9, <2>10, <2>12, <2>13, <2>14
\* It came before.
<1>16. CASE Ended(text, c)
  <2>1. c \in 1 .. m /\ text[c] = CLOSE
    BY <1>16 DEF Ended
  <2>2. text[m] # LT
    <3>1. m > 0 /\ 1 \in 1 .. Len(new) /\ m + 1 \in 1 .. n
      BY <1>1, <1>5, <2>1
    <3>2. new[1] # DSML
      BY <1>4, <1>8, <3>1
    <3>3. QED  BY <1>3, <3>1, <3>2
  <2>3. reasoning = Before(text, c - 2) /\ content = From(text, c) /\ pending = <<>>
    BY <1>3, <1>16, <2>2 DEF StreamInv
  <2>4. closed
    BY <1>14, <2>1 DEF HasClose
  <2>5. ~HasClose(new)
    <3> SUFFICES ASSUME NEW i \in 1 .. Len(new), new[i] = CLOSE PROVE FALSE
      BY DEF HasClose
    <3>1. m + i \in 1 .. n /\ w[m + i] = CLOSE /\ m + i > m
      BY <1>1, <1>4, <1>5
    <3>2. m + i = c
      BY <1>9, <3>1
    <3>3. QED  BY <1>5, <2>1, <3>1, <3>2
  <2>6. From(w, c) = From(text, c) \o new /\ Before(w, c - 2) = Before(text, c - 2)
    <3>1. c \in 0 .. Len(text) /\ c - 2 \in 0 .. Len(text)
      BY <1>10, <2>1
    <3>2. From(w, c) = From(text, c) \o new
      BY <1>1, <3>1, RestJoins DEF w
    <3>3. Before(w, c - 2) = Before(text, c - 2)
      BY <1>1, <3>1, RestJoins DEF w
    <3>4. QED  BY <3>2, <3>3
  <2>7. CASE Defer(delta)
    <3>1. Emit(Upstream(delta))
      BY <2>7 DEF Defer
    <3>2. Upstream(delta) = [reasoning |-> <<>>, content |-> new]
      BY <2>4, <2>5, UpstreamIs DEF new
    <3>3. From(w, m) = new
      <4>1. 0 \in 0 .. Len(new) /\ Len(text) + 0 = m
        BY <1>5
      <4>2. From(text \o new, Len(text) + 0) = From(new, 0)
        BY <1>1, <4>1, RestOfSecond
      <4>3. From(new, 0) = new
        BY <1>1 DEF From
      <4>4. QED  BY <4>1, <4>2, <4>3 DEF w
    <3>4. Plain(new) /\ WithoutClose(new) = new
      <4>1. m \in 0 .. n /\ m >= m
        BY <1>1, <1>5
      <4>2. QED  BY <1>13, <2>5, <3>3, <4>1
    <3>5. /\ reasoning' = reasoning \o <<>>
          /\ content' = content \o WithoutClose(new) /\ pending' = <<>>
      <4>1. <<>> \in Seq(Pieces) /\ Emit([reasoning |-> <<>>, content |-> new])
        BY <3>1, <3>2
      <4>2. QED  BY <1>1, <1>14, <2>3, <3>4, <4>1, EmitPlain
    <3>6. reasoning \o <<>> = reasoning
      BY <1>14, ConcatEmptySeq
    <3>7. QED  BY <1>1, <2>3, <2>6, <3>4, <3>5, <3>6
  <2>8. CASE ToToolParser(delta)
    <3>1. content' = content \o new /\ reasoning' = reasoning /\ pending' = pending
      BY <2>8 DEF ToToolParser, new
    <3>2. QED  BY <1>1, <2>3, <2>6, <3>1
  <2>9. QED  BY <1>12, <2>7, <2>8
<1>17. QED  BY <1>3, <1>15, <1>16

\* A text with a start tag is parted as the whole of it would be.
LEMMA OpenedStep ==
    ASSUME CLOSE \notin Tokens, StreamInv, NEW delta \in Deltas, Step(delta),
           Tidy(text', orchestrated), NEW d, Opened(text', d)
    PROVE  /\ reasoning' = Split(text').reasoning
           /\ text'[Len(text')] # LT =>
                content' = WithoutClose(Split(text').content) /\ pending' = <<>>
<1> DEFINE new == DeltaText(delta)
           w == text \o new
           m == Len(text)
           n == Len(w)
           place == PlaceOf(w, d)
           body == Split(w).content
<1>1. /\ text \in Seq(Pieces) /\ new \in Seq(Pieces) /\ Len(new) > 0 /\ new[1] # CLOSE
      /\ text' = w /\ w \in Seq(Pieces) /\ n = m + Len(new)
      /\ HasClose(w) <=> HasClose(text) \/ HasClose(new)
  <2>1. Took(delta)
    BY StepIs
  <2>2. QED  BY <2>1, Heard
<1> HIDE DEF new
<1>2. Tidy(w, orchestrated) /\ Opened(w, d)
  BY <1>1
<1>3. /\ Tidy(text, orchestrated)
      /\ (Thinking(text) /\ d >= m) \/ Opened(text, d)
      /\ m > 0 /\ text[m] = LT => new[1] = DSML
  BY <1>1, <1>2, TidyBefore
<1>4. /\ \A i \in 1 .. m : w[i] = text[i]
      /\ \A i \in 1 .. Len(new) : w[m + i] = new[i]
  BY <1>1, Joined
<1>5. m \in Nat /\ n \in Nat /\ Len(new) \in Nat
  BY <1>1
<1>6. LT \in Pieces /\ content \in Seq(Pieces) /\ reasoning \in Seq(Pieces)
      /\ <<>> \in Seq(Pieces)
  BY DEF StreamInv, ReasoningInv, Pieces
<1>7. From(w, m) = new
  <2>1. 0 \in 0 .. Len(new) /\ Len(text) + 0 = m
    BY <1>5
  <2>2. From(text \o new, Len(text) + 0) = From(new, 0)
    BY <1>1, <2>1, RestOfSecond
  <2>3. From(new, 0) = new
    BY <1>1 DEF From
  <2>4. QED  BY <2>1, <2>2, <2>3
<1>8. /\ Opened(text, d) => /\ Split(w).reasoning = Split(text).reasoning
                            /\ Split(w).content = Split(text).content \o new
  BY <1>1, <1>2, <1>3, <1>6, SplitContinues
<1>9. Shown(text) \in 0 .. m /\ (d >= m => place \in Shown(text) .. m + Len(new))
  <2>1. d \in 1 .. Len(text) + Len(new) /\ w[d] = DSML
    BY <1>1, <1>5, <1>2 DEF Opened
  <2>2. QED  BY <1>1, <2>1, ShownGrows
<1> HIDE DEF w
<1>10. /\ d \in 1 .. n - 1 /\ w[d] = DSML /\ place \in 0 .. n
       /\ EarliestToolTagPos(w) = place
       /\ Split(w).reasoning = Before(w, place)
       /\ body = IF Headed(w, d) THEN From(w, place) ELSE Repaired(From(w, place))
  BY <1>1, <1>2, TagOpened
<1>11. body \in Seq(Pieces)
  BY <1>1, <1>6, SplitTyped
<1>12. EarliestToolTagPos(w) >= 0
  BY <1>10
<1>13. ~Defer(delta)
  BY <1>12 DEF Defer, TagPresentOrForming, w, new
\* The tag comes with this delta.
<1>14. CASE Thinking(text) /\ d >= m
  <2> DEFINE r == From(Before(w, place), Shown(text))
  <2>1. ~over /\ reasoning = Before(text, Shown(text)) /\ content = <<>> /\ pending = <<>>
    BY <1>3, <1>14 DEF StreamInv
  <2>2. /\ EarliestToolTagPos(text) = -1
        /\ Split(text).reasoning = Before(text, Shown(text)) /\ Split(text).content = <<>>
    BY <1>1, <1>14, NoTagYet
  <2>3. SplitDelta(delta)
    BY <1>13, <2>1, <2>2 DEF Step, AfterTag, ToToolParser, PastBoundary
  <2>4. Emit(StreamDeltas(text, w))
    BY <2>3 DEF SplitDelta, w, new
  <2>5. StreamDeltas(text, w) = [reasoning |-> r, content |-> body]
    <3>1. Len(Before(text, Shown(text))) = Shown(text)
      BY <1>1, <1>9, Slices
    <3>2. From(body, Len(<<>>)) = body
      BY <1>11 DEF From
    <3> HIDE DEF body
    <3>3. StreamDeltas(text, w) = [reasoning |-> From(Before(w, place), Len(Before(text, Shown(text)))),
                                   content |-> From(body, Len(<<>>))]
      BY <1>10, <2>2 DEF StreamDeltas, body
    <3>4. QED  BY <3>1, <3>2, <3>3
  <2>6. r \in Seq(Pieces)
    <3>1. place \in 0 .. n /\ Shown(text) \in 0 .. place
      BY <1>9, <1>10, <1>14
    <3>2. Before(w, place) \in Seq(Pieces) /\ Len(Before(w, place)) = place
      BY <1>1, <3>1, Slices
    <3>3. QED  BY <3>1, <3>2, Slices
  <2>7. Before(text, Shown(text)) \o r = Before(w, place)
    BY <1>1, <1>9, <1>14, Continued DEF w
  <2> HIDE DEF r, body
  <2>8. reasoning' = reasoning \o r
    BY <2>4, <2>5 DEF Emit
  <2>9. ASSUME w[n] # LT PROVE content' = WithoutClose(body) /\ pending' = <<>>
    <3>1. Plain(body)
      <4>1. Plain(From(w, place))
        BY <1>1, <1>2, <1>6, <1>10, <2>9, EndPlain
      <4>2. CASE Headed(w, d)
        BY <1>10, <4>1, <4>2 DEF body
      <4>3. CASE ~Headed(w, d)
        <5>1. place < n /\ w[place + 1] = DSML
          <6>1. place = d - 1
            BY <4>3 DEF PlaceOf
          <6>2. place + 1 = d /\ place < n
            BY <1>5, <1>10, <6>1
          <6>3. QED  BY <1>10, <6>2
        <5>2. Plain(Repaired(From(w, place)))
          BY <1>1, <1>2, <1>6, <1>10, <2>9, <5>1, EndPlain
        <5>3. QED  BY <1>10, <4>3, <5>2 DEF body
      <4>4. QED  BY <4>2, <4>3
    <3>2. body \in Seq(Pieces)
      BY <1>11 DEF body
    <3>3. content' = content \o WithoutClose(body) /\ pending' = <<>>
      <4>1. Emit([reasoning |-> r, content |-> body])
        BY <2>4, <2>5
      <4>2. QED  BY <1>6, <2>1, <2>6, <3>1, <3>2, <4>1, EmitPlain
    <3>4. <<>> \o WithoutClose(body) = WithoutClose(body)
      <4>1. WithoutClose(body) \in Seq(Pieces)
        BY <3>2, WithoutCloseTyped
      <4>2. QED  BY <4>1, ConcatEmptySeq
    <3>5. QED  BY <2>1, <3>3, <3>4
  <2>10. QED  BY <1>1, <1>10, <2>1, <2>7, <2>8, <2>9 DEF body
\* It came before.
<1>15. CASE Opened(text, d)
  <2> DEFINE old == Split(text).content
  <2>1. d \in 1 .. m - 1 /\ text[d] = DSML /\ EarliestToolTagPos(text) >= 0
    <3>1. /\ d \in 1 .. m - 1 /\ text[d] = DSML /\ PlaceOf(text, d) \in 0 .. m
          /\ EarliestToolTagPos(text) = PlaceOf(text, d)
      BY <1>1, <1>3, <1>15, TagOpened
    <3>2. QED  BY <3>1
  <2>2. text[m] # LT
    <3>1. m > 0 /\ 1 \in 1 .. Len(new) /\ m + 1 \in 1 .. n /\ m + 1 # d /\ d \in 1 .. n
      BY <1>1, <1>5, <2>1
    <3>2. w[m + 1] = new[1]
      BY <1>4, <3>1
    <3>3. new[1] # DSML
      BY <1>2, <1>10, <3>1, <3>2 DEF Tidy
    <3>4. QED  BY <1>3, <3>1, <3>3
  <2>3. reasoning = Split(text).reasoning /\ content = WithoutClose(old) /\ pending = <<>>
    BY <1>3, <1>15, <2>2 DEF StreamInv
  <2>4. Split(w).reasoning = Split(text).reasoning /\ body = old \o new
    BY <1>8, <1>15
  <2>5. AfterTag(delta) \/ ToToolParser(delta)
    BY <1>13, <2>1 DEF Step, SplitDelta, PastBoundary
  <2>6. WithoutClose(body) = WithoutClose(old) \o WithoutClose(new)
    <3>1. old \in Seq(Pieces)
      BY <1>1, <1>6, SplitTyped
    <3> HIDE DEF old, body
    <3>2. WithoutClose(old \o new) = WithoutClose(old) \o WithoutClose(new)
      BY <1>1, <3>1, WithoutCloseJoins
    <3>3. QED  BY <2>4, <3>2
  <2>7. reasoning \o <<>> = reasoning
    BY <1>6, ConcatEmptySeq
  <2> HIDE DEF old, body
  <2>8. CASE AfterTag(delta)
    <3>1. Emit([reasoning |-> <<>>, content |-> new])
      BY <2>8 DEF AfterTag, new
    <3>2. reasoning' = reasoning
      <4>1. reasoning' = reasoning \o <<>>
        BY <3>1 DEF Emit
      <4>2. QED  BY <2>7, <4>1
    <3>3. ASSUME w[n] # LT PROVE content' = WithoutClose(body) /\ pending' = <<>>
      <4>1. Plain(new)
        <5>1. m \in 0 .. n
          BY <1>1, <1>5
        <5>2. Plain(From(w, m))
          BY <1>1, <1>2, <1>6, <3>3, <5>1, EndPlain
        <5>3. QED  BY <1>7, <5>2
      <4>2. content' = content \o WithoutClose(new) /\ pending' = <<>>
        BY <1>1, <1>6, <2>3, <3>1, <4>1, EmitPlain
      <4>3. QED  BY <2>3, <2>6, <4>2
    <3>4. QED  BY <1>1, <2>3, <2>4, <3>2, <3>3 DEF body
  <2>9. CASE ToToolParser(delta)
    <3>1. /\ content' = content \o new /\ reasoning' = reasoning /\ pending' = pending
          /\ orchestrated
      BY <2>9 DEF ToToolParser, new
    <3>2. ~HasClose(w)
      <4> SUFFICES ASSUME NEW i \in 1 .. n, w[i] = CLOSE PROVE FALSE
        BY DEF HasClose
      <4>1. d \in 1 .. n
        BY <1>5, <1>10
      <4>2. QED  BY <1>2, <1>10, <3>1, <4>1 DEF Tidy
    <3>3. WithoutClose(new) = new
      <4>1. ~HasClose(new)
        BY <1>1, <3>2
      <4>2. \A i \in 1 .. Len(new) : new[i] # CLOSE
        BY <4>1 DEF HasClose
      <4>3. QED  BY <1>1, <4>2, WithoutCloseSame
    <3>4. content' = WithoutClose(body) /\ pending' = <<>>
      BY <2>3, <2>6, <3>1, <3>3
    <3>5. QED  BY <1>1, <2>3, <2>4, <3>1, <3>4 DEF body
  <2>10. QED  BY <2>5, <2>8, <2>9
<1>16. QED  BY <1>3, <1>14, <1>15

\* The invariant holds at the start, ...
LEMMA StreamInit == Init => StreamInv
<1> SUFFICES ASSUME Init PROVE StreamInv
  OBVIOUS
<1>1. ReasoningInv
  BY InitInv
<1>2. /\ text = <<>> /\ Len(text) = 0 /\ ~closed /\ ~over
      /\ reasoning = <<>> /\ content = <<>> /\ pending = <<>>
  BY DEF Init
<1>3. Whole(text) /\ ~HasClose(text)
  BY <1>2 DEF Whole, HasClose
<1>4. Before(text, Shown(text)) = <<>>
  <2>1. text \in Seq(Pieces)
    BY <1>2
  <2>2. TrailingPartialTagLen(text) = 0
    BY <1>2, <2>1, HeldIs
  <2>3. Shown(text) = 0
    BY <1>2, <2>2 DEF Shown
  <2>4. Before(text, 0) \in Seq(Pieces) /\ Len(Before(text, 0)) = 0
    <3>1. 0 \in 0 .. Len(text)
      BY <1>2
    <3>2. QED  BY <2>1, <3>1, Slices
  <2>5. QED  BY <2>3, <2>4
<1>5. \A i : ~Ended(text, i) /\ ~Opened(text, i)
  BY <1>2 DEF Ended, Opened
<1>6. QED  BY <1>1, <1>2, <1>3, <1>4, <1>5 DEF StreamInv

\* ... and every step keeps it.
LEMMA StreamNext ==
    ASSUME CLOSE \notin Tokens, StreamInv, [Next]_vars
    PROVE  StreamInv'
<1>1. ReasoningInv'
  BY NextInv DEF StreamInv
<1>2. CASE Next
  <2>1. PICK delta \in Deltas : Step(delta)
    BY <1>2 DEF Next, Step
  <2>2. Took(delta)
    BY <2>1, StepIs
  <2>3. Whole(text') /\ (closed' <=> HasClose(text')) /\ orchestrated' = orchestrated
    BY <2>2, Heard
  <2>4. Tidy(text', orchestrated') /\ Thinking(text') =>
          ~over' /\ reasoning' = Before(text', Shown(text')) /\ content' = <<>> /\ pending' = <<>>
    BY <2>1, <2>3, ThinkingStep
  <2>5. \A c : Tidy(text', orchestrated') /\ Ended(text', c) /\ text'[Len(text')] # LT =>
          reasoning' = Before(text', c - 2) /\ content' = From(text', c) /\ pending' = <<>>
    BY <2>1, <2>3, EndedStep
  <2>6. \A d : Tidy(text', orchestrated') /\ Opened(text', d) =>
          /\ reasoning' = Split(text').reasoning
          /\ text'[Len(text')] # LT =>
               content' = WithoutClose(Split(text').content) /\ pending' = <<>>
    BY <2>1, <2>3, OpenedStep
  <2>7. QED  BY <1>1, <2>3, <2>4, <2>5, <2>6 DEF StreamInv
<1>3. CASE UNCHANGED vars
  <2>1. UNCHANGED <<orchestrated, text, closed, tagSeen, pending, over, reasoning, content>>
    BY <1>3 DEF vars, outputs
  <2>2. QED  BY <1>1, <2>1 DEF StreamInv
<1>4. QED  BY <1>2, <1>3

-----------------------------------------------------------------------------
(* A clean text that is settled.                                           *)
\* A clean text is tidy.
LEMMA CleanTidy ==
    ASSUME StreamInv, Clean
    PROVE  Tidy(text, orchestrated)
<1> DEFINE n == Len(text)
           end == Find(text, ThinkClose)
           markers == Occurrences(<<DSML>>, text)
           closes == Occurrences(ThinkClose, text)
<1>1. text \in Seq(Pieces) /\ n \in Nat /\ Whole(text)
  BY DEF StreamInv, ReasoningInv
<1>2. /\ \A i \in 1 .. n - 1 :
           /\ text[i] = LT => text[i + 1] \in {DSML, CLOSE}
           /\ (text[i] = DSML) <=> (text[i + 1] \in {CALLS, FUNCS})
      /\ Cardinality(markers) =< 1 /\ Cardinality(closes) =< 1
      /\ end >= 0 /\ markers # {} => EarliestToolTagPos(text) \in 0 .. end - 1 /\ ~orchestrated
  BY DEF Clean
<1>3. IsFiniteSet(markers) /\ IsFiniteSet(closes)
  <2>1. Len(<<DSML>>) = 1 /\ Len(ThinkClose) = 2
    BY DEF ThinkClose
  <2>2. markers \subseteq 0 .. n - 1 /\ closes \subseteq 0 .. n - 2
    BY <2>1 DEF Occurrences
  <2>3. IsFiniteSet(0 .. n - 1) /\ IsFiniteSet(0 .. n - 2)
    BY <1>1, FS_Interval
  <2>4. QED  BY <2>2, <2>3, FS_Subset
<1>4. \A i \in 1 .. n : text[i] = DSML => i - 1 \in markers
  <2> SUFFICES ASSUME NEW i \in 1 .. n, text[i] = DSML PROVE i - 1 \in markers
    OBVIOUS
  <2> DEFINE tag == <<DSML>>
  <2>1. tag \in Seq({DSML}) /\ Len(tag) = 1 /\ tag[1] = DSML
    OBVIOUS
  <2> HIDE DEF tag
  <2>2. i - 1 \in Nat /\ (i - 1) + Len(tag) =< Len(text)
        /\ \A j \in 1 .. Len(tag) : text[(i - 1) + j] = tag[j]
    BY <1>1, <2>1
  <2>3. i - 1 \in Occurrences(tag, text)
    BY <1>1, <2>1, <2>2, OccursAt
  <2>4. QED  BY <2>3 DEF tag
<1>5. \A i \in 1 .. n : text[i] = CLOSE => i - 2 \in closes
  <2> SUFFICES ASSUME NEW i \in 1 .. n, text[i] = CLOSE PROVE i - 2 \in closes
    OBVIOUS
  <2>1. i > 1 /\ text[i - 1] = LT
    BY <1>1 DEF Whole
  <2>2. i - 2 \in Nat /\ (i - 2) + 2 =< Len(text) /\ (i - 2) + 1 = i - 1 /\ (i - 2) + 2 = i
    BY <1>1, <2>1
  <2>3. QED  BY <1>1, <2>1, <2>2, CloseOccurs
<1>6. \A i, j \in 1 .. n : text[i] = DSML /\ text[j] = DSML => i = j
  <2> SUFFICES ASSUME NEW i \in 1 .. n, NEW j \in 1 .. n, text[i] = DSML, text[j] = DSML
               PROVE  i = j
    OBVIOUS
  <2>1. i - 1 \in markers /\ j - 1 \in markers
    BY <1>4
  <2> HIDE DEF markers
  <2>2. i - 1 = j - 1
    BY <1>2, <1>3, <2>1, AtMostOne
  <2>3. QED  BY <1>1, <2>2
<1>7. \A i, j \in 1 .. n : text[i] = CLOSE /\ text[j] = CLOSE => i = j
  <2> SUFFICES ASSUME NEW i \in 1 .. n, NEW j \in 1 .. n, text[i] = CLOSE, text[j] = CLOSE
               PROVE  i = j
    OBVIOUS
  <2>1. i - 2 \in closes /\ j - 2 \in closes
    BY <1>5
  <2> HIDE DEF closes
  <2>2. i - 2 = j - 2
    BY <1>2, <1>3, <2>1, AtMostOne
  <2>3. QED  BY <1>1, <2>2
<1>8. ASSUME NEW i \in 1 .. n, NEW j \in 1 .. n, text[i] = DSML, text[j] = CLOSE
      PROVE  i < j /\ ~orchestrated
  <2>1. j >= 2 /\ end = j - 2
    BY <1>1, <1>7, <1>8, CloseFound
  <2>2. markers # {}
    BY <1>4, <1>8
  <2>3. EarliestToolTagPos(text) \in 0 .. end - 1 /\ ~orchestrated
    BY <1>2, <2>1, <2>2
  <2> HIDE DEF end
  <2>4. EarliestToolTagPos(text) # -1
    BY <2>3
  <2>5. i # n
    <3> SUFFICES ASSUME i = n PROVE FALSE
      OBVIOUS
    <3>1. \A k \in 1 .. n - 1 : text[k] # DSML
      <4> TAKE k \in 1 .. n - 1
      <4>1. k \in 1 .. n /\ k # n
        BY <1>1
      <4>2. QED  BY <1>6, <1>8, <4>1
    <3>2. EarliestToolTagPos(text) = -1
      BY <1>1, <3>1, NoTagThere
    <3>3. QED  BY <2>4, <3>2
  <2>6. i \in 1 .. n - 1 /\ text[i + 1] \in {CALLS, FUNCS}
    <3>1. i \in 1 .. n - 1
      BY <1>1, <2>5
    <3>2. QED  BY <1>2, <1>8, <3>1
  <2>7. EarliestToolTagPos(text) = PlaceOf(text, i)
    BY <1>1, <1>6, <1>8, <2>6, SplitAtTag
  <2>8. PlaceOf(text, i) = i - 2 \/ PlaceOf(text, i) = i - 1
    BY DEF PlaceOf
  <2>9. QED  BY <2>1, <2>3, <2>7, <2>8
<1>9. QED  BY <1>2, <1>6, <1>7, <1>8 DEF Tidy

\* What the channels hold of a clean text when nothing of it is held back.
LEMMA CleanPhases ==
    ASSUME StreamInv, Clean, Settled
    PROVE  LET p == Find(text, ThinkClose)
               tag == EarliestToolTagPos(text)
           IN  \/ /\ p = -1 /\ tag = -1 /\ \A i \in 1 .. Len(text) - 1 : text[i] # DSML
                  /\ reasoning = text /\ content = <<>>
               \/ /\ p \in 0 .. Len(text) - 2 /\ tag = -1
                  /\ \A i \in 1 .. Len(text) - 1 : text[i] # DSML
                  /\ \A i \in 1 .. Len(text) : text[i] = CLOSE => i = p + 2
                  /\ reasoning = Before(text, p) /\ content = From(text, p + 2)
               \/ /\ tag \in 0 .. Len(text) - 1 /\ (p < 0 \/ tag < p)
                  /\ \E d : Opened(text, d)
                  /\ reasoning = Split(text).reasoning
                  /\ content = WithoutClose(Split(text).content)
<1> DEFINE n == Len(text)
           p == Find(text, ThinkClose)
           tag == EarliestToolTagPos(text)
<1>1. /\ text \in Seq(Pieces) /\ n \in Nat /\ Whole(text) /\ Tidy(text, orchestrated)
      /\ TrailingPartialTagLen(text) = 0
  BY CleanTidy DEF StreamInv, ReasoningInv, Settled
<1>2. n > 0 => text[n] # LT
  <2> SUFFICES ASSUME n > 0 PROVE text[n] # LT
    OBVIOUS
  <2>1. QED  BY <1>1, HeldIs
<1>3. Shown(text) = n /\ Before(text, n) = text
  BY <1>1 DEF Shown, Before
<1>4. /\ p < 0 <=> ~HasClose(text)
      /\ p < 0 <=> p = -1
      /\ p \in Int
  <2>1. ThinkClose \in Seq({LT, CLOSE})
    BY DEF ThinkClose
  <2>2. QED  BY <1>1, <2>1, FindIs, CloseFound
<1>5. CASE Thinking(text)
  <2>1. reasoning = text /\ content = <<>>
    BY <1>1, <1>3, <1>5 DEF StreamInv
  <2>2. tag = -1
    BY <1>1, <1>5, NoTagYet
  <2>3. p = -1
    BY <1>4, <1>5 DEF Thinking
  <2>4. \A i \in 1 .. n - 1 : text[i] # DSML
    BY <1>5 DEF Thinking
  <2>5. QED  BY <2>1, <2>2, <2>3, <2>4
<1>6. CASE \E c : Ended(text, c)
  <2>1. PICK c : Ended(text, c)
    BY <1>6
  <2>2. c \in 1 .. n /\ text[c] = CLOSE /\ \A i \in 1 .. n : text[i] # DSML
    BY <2>1 DEF Ended
  <2>3. \A i \in 1 .. n : text[i] = CLOSE => i = c
    BY <1>1, <2>2 DEF Tidy
  <2>4. c >= 2 /\ p = c - 2
    BY <1>1, <2>2, <2>3, CloseFound
  <2>5. p + 2 = c /\ p \in 0 .. n - 2
    BY <1>1, <2>2, <2>4
  <2>6. n > 0
    BY <1>1, <2>2
  <2>7. reasoning = Before(text, c - 2) /\ content = From(text, c)
    BY <1>1, <1>2, <2>1, <2>6 DEF StreamInv
  <2>8. tag = -1
    BY <1>1, <2>1, NoTagYet
  <2>9. \A i \in 1 .. n - 1 : text[i] # DSML
    BY <1>1, <2>2
  <2> HIDE DEF p, tag
  <2>10. /\ p \in 0 .. n - 2 /\ tag = -1
         /\ \A i \in 1 .. n - 1 : text[i] # DSML
         /\ \A i \in 1 .. n : text[i] = CLOSE => i = p + 2
         /\ reasoning = Before(text, p) /\ content = From(text, p + 2)
    BY <2>3, <2>4, <2>5, <2>7, <2>8, <2>9
  <2>11. QED  BY <2>10 DEF p, tag
<1>7. CASE \E d : Opened(text, d)
  <2>1. PICK d : Opened(text, d)
    BY <1>7
  <2>2. /\ d \in 1 .. n - 1 /\ text[d] = DSML /\ PlaceOf(text, d) \in 0 .. n
        /\ tag = PlaceOf(text, d)
    BY <1>1, <2>1, TagOpened
  <2>3. tag \in 0 .. n - 1
    BY <1>1, <2>2 DEF PlaceOf
  <2>4. n > 0
    BY <1>1, <2>2
  <2>5. reasoning = Split(text).reasoning /\ content = WithoutClose(Split(text).content)
    BY <1>1, <1>2, <2>1, <2>4 DEF StreamInv
  <2>6. p < 0 \/ tag < p
    <3> SUFFICES ASSUME ~(p < 0) PROVE tag < p
      OBVIOUS
    <3>1. PICK c \in 1 .. n : text[c] = CLOSE
      BY <1>4 DEF HasClose
    <3>2. \A i \in 1 .. n : text[i] = CLOSE => i = c
      BY <1>1, <3>1 DEF Tidy
    <3>3. p = c - 2 /\ c >= 2 /\ text[c - 1] = LT
      BY <1>1, <3>1, <3>2, CloseFound
    <3>4. d < c /\ d \in 1 .. n
      <4>1. d \in 1 .. n
        BY <1>1, <2>2
      <4>2. QED  BY <1>1, <2>2, <3>1, <4>1 DEF Tidy
    <3>5. d # c - 1
      BY <2>2, <3>3, PiecesDiffer
    <3>6. PlaceOf(text, d) =< d - 1
      BY <2>2 DEF PlaceOf
    <3>7. QED  BY <2>2, <2>3, <3>3, <3>4, <3>5, <3>6
  <2>7. QED  BY <2>1, <2>3, <2>5, <2>6
<1>8. QED  BY <1>1, <1>5, <1>6, <1>7, Phases

\* The invariant gives what the two properties say of clean texts.
LEMMA InvSplit == StreamInv => StreamsSplit
<1> SUFFICES ASSUME StreamInv, Clean, Settled
             PROVE  LET p == Find(text, ThinkClose)
                        tag == EarliestToolTagPos(text)
                        first == p >= 0 /\ (tag < 0 \/ p < tag)
                    IN  /\ first => /\ reasoning = Before(text, p)
                                    /\ content = WithoutClose(From(text, p + Len(ThinkClose)))
                        /\ ~first => /\ reasoning = Split(text).reasoning
                                     /\ content = WithoutClose(Split(text).content)
  BY Zenon DEF StreamsSplit
<1> DEFINE n == Len(text)
           p == Find(text, ThinkClose)
           tag == EarliestToolTagPos(text)
<1>1. text \in Seq(Pieces) /\ n \in Nat /\ TrailingPartialTagLen(text) = 0 /\ Len(ThinkClose) = 2
  BY DEF StreamInv, ReasoningInv, Settled, ThinkClose
<1>2. \/ /\ p = -1 /\ tag = -1 /\ \A i \in 1 .. n - 1 : text[i] # DSML
         /\ reasoning = text /\ content = <<>>
      \/ /\ p \in 0 .. n - 2 /\ tag = -1
         /\ \A i \in 1 .. n - 1 : text[i] # DSML
         /\ \A i \in 1 .. n : text[i] = CLOSE => i = p + 2
         /\ reasoning = Before(text, p) /\ content = From(text, p + 2)
      \/ /\ tag \in 0 .. n - 1 /\ (p < 0 \/ tag < p)
         /\ \E d : Opened(text, d)
         /\ reasoning = Split(text).reasoning
         /\ content = WithoutClose(Split(text).content)
  BY CleanPhases
<1>3. p \in Int
  <2>1. ThinkClose \in Seq({LT, CLOSE})
    BY DEF ThinkClose
  <2>2. QED  BY <1>1, <2>1, FindIs
<1> HIDE DEF p, tag
<1>4. CASE /\ p = -1 /\ tag = -1 /\ \A i \in 1 .. n - 1 : text[i] # DSML
           /\ reasoning = text /\ content = <<>>
  <2>1. Split(text).reasoning = text /\ Split(text).content = <<>>
    <3>1. EarliestToolTagPos(text) < 0
      BY <1>4 DEF tag
    <3>2. /\ Split(text).reasoning = Before(text, n - TrailingPartialTagLen(text))
          /\ Split(text).content = <<>>
      BY <1>1, <3>1, SplitNoTag
    <3>3. n - TrailingPartialTagLen(text) = n
      BY <1>1
    <3>4. Before(text, n) = text
      BY <1>1 DEF Before
    <3>5. QED  BY <3>2, <3>3, <3>4
  <2>2. WithoutClose(<<>>) = <<>>
    BY WithoutNone
  <2>3. ~(p >= 0)
    BY <1>4
  <2>4. QED  BY <1>4, <2>1, <2>2, <2>3 DEF p, tag
<1>5. CASE /\ p \in 0 .. n - 2 /\ tag = -1
           /\ \A i \in 1 .. n : text[i] = CLOSE => i = p + 2
           /\ reasoning = Before(text, p) /\ content = From(text, p + 2)
  <2> DEFINE rest == From(text, p + 2)
  <2>1. rest \in Seq(Pieces) /\ \A i \in 1 .. Len(rest) : rest[i] # CLOSE
    <3>1. p + 2 \in 0 .. n
      BY <1>1, <1>5
    <3>2. /\ rest \in Seq(Pieces) /\ Len(rest) = n - (p + 2)
          /\ \A i \in 1 .. n - (p + 2) : rest[i] = text[i + (p + 2)]
      <4> DEFINE k == p + 2
      <4>1. text \in Seq(Pieces) /\ k \in 0 .. Len(text)
        BY <1>1, <3>1
      <4> HIDE DEF k
      <4>2. /\ From(text, k) \in Seq(Pieces) /\ Len(From(text, k)) = Len(text) - k
            /\ \A i \in 1 .. Len(text) - k : From(text, k)[i] = text[i + k]
        BY <4>1, Slices
      <4>3. QED  BY <4>2 DEF k
    <3> HIDE DEF rest
    <3>3. \A i \in 1 .. n - (p + 2) : i + (p + 2) \in 1 .. n /\ i + (p + 2) # p + 2
      BY <1>1, <1>5, <3>1
    <3>4. QED  BY <1>5, <3>2, <3>3
  <2>2. WithoutClose(rest) = rest
    BY <2>1, WithoutCloseSame
  <2>3. p >= 0 /\ tag < 0
    BY <1>5
  <2>4. content = WithoutClose(From(text, p + Len(ThinkClose)))
    BY <1>1, <1>5, <2>2
  <2>5. QED  BY <1>5, <2>3, <2>4 DEF p, tag
<1>6. CASE /\ tag \in 0 .. n - 1 /\ (p < 0 \/ tag < p)
           /\ reasoning = Split(text).reasoning
           /\ content = WithoutClose(Split(text).content)
  <2>1. ~(p >= 0 /\ (tag < 0 \/ p < tag))
    BY <1>3, <1>6
  <2>2. QED  BY <1>6, <2>1 DEF p, tag
<1>7. QED  BY <1>2, <1>4, <1>5, <1>6

LEMMA InvOneShot == StreamInv => OneShotAgrees
<1> DEFINE n == Len(text)
           p == Find(text, ThinkClose)
           tag == EarliestToolTagPos(text)
<1> SUFFICES ASSUME StreamInv, Clean, Settled, tag >= 0 => text[tag + 1] = LT /\ p < 0
             PROVE  OneShot(text) = [reasoning |-> reasoning, content |-> content]
  BY DEF OneShotAgrees
<1>1. /\ text \in Seq(Pieces) /\ n \in Nat /\ Whole(text) /\ Len(ThinkClose) = 2
      /\ Tidy(text, orchestrated)
  BY CleanTidy DEF StreamInv, ReasoningInv, ThinkClose
<1>2. \/ /\ p = -1 /\ tag = -1 /\ \A i \in 1 .. n - 1 : text[i] # DSML
         /\ reasoning = text /\ content = <<>>
      \/ /\ p \in 0 .. n - 2 /\ tag = -1
         /\ \A i \in 1 .. n - 1 : text[i] # DSML
         /\ \A i \in 1 .. n : text[i] = CLOSE => i = p + 2
         /\ reasoning = Before(text, p) /\ content = From(text, p + 2)
      \/ /\ tag \in 0 .. n - 1 /\ (p < 0 \/ tag < p)
         /\ \E d : Opened(text, d)
         /\ reasoning = Split(text).reasoning
         /\ content = WithoutClose(Split(text).content)
  BY CleanPhases
<1>3. p \in Int
  <2>1. ThinkClose \in Seq({LT, CLOSE})
    BY DEF ThinkClose
  <2>2. QED  BY <1>1, <2>1, FindIs
\* The one-shot parser, by what it finds.
<1> DEFINE rest == WithoutClose(From(text, p + Len(ThinkClose)))
           r == IF p >= 0 THEN Before(text, p) ELSE text
           q == EarliestToolTagPos(r)
<1>4. OneShot(text) = IF p >= 0 /\ rest # <<>>
                      THEN [reasoning |-> Before(text, p), content |-> rest]
                      ELSE IF q < 0 THEN [reasoning |-> r, content |-> <<>>]
                      ELSE [reasoning |-> Before(r, q), content |-> From(r, q)]
  BY Zenon DEF OneShot
<1>5. CASE /\ p = -1 /\ tag = -1
           /\ reasoning = text /\ content = <<>>
  <2>1. ~(p >= 0)
    BY <1>5
  <2>2. r = text
    BY <2>1
  <2>3. q = tag /\ q < 0
    BY <1>5, <2>2
  <2> HIDE DEF p, q, r, rest, tag
  <2>4. OneShot(text) = [reasoning |-> r, content |-> <<>>]
    BY <1>4, <2>1, <2>3
  <2>5. QED  BY <1>5, <2>2, <2>4
<1>6. CASE /\ p \in 0 .. n - 2 /\ tag = -1
           /\ \A i \in 1 .. n - 1 : text[i] # DSML
           /\ \A i \in 1 .. n : text[i] = CLOSE => i = p + 2
           /\ reasoning = Before(text, p) /\ content = From(text, p + 2)
  <2>1. p >= 0 /\ r = Before(text, p) /\ p + Len(ThinkClose) = p + 2
    BY <1>1, <1>6
  <2>2. rest = From(text, p + 2)
    <3> DEFINE k == p + 2
               s == From(text, k)
    <3>1. text \in Seq(Pieces) /\ k \in 0 .. Len(text)
      BY <1>1, <1>6
    <3>2. rest = WithoutClose(s)
      BY <2>1
    <3>3. \A i \in 1 .. n - k : i + k \in 1 .. n /\ text[i + k] # CLOSE
      <4> TAKE i \in 1 .. n - k
      <4>1. i + k \in 1 .. n /\ i + k # k
        BY <1>1, <3>1
      <4>2. QED  BY <1>6, <4>1
    <3> HIDE DEF k, rest, p
    <3>4. /\ s \in Seq(Pieces) /\ Len(s) = Len(text) - k
          /\ \A i \in 1 .. Len(text) - k : s[i] = text[i + k]
      BY <3>1, Slices
    <3>5. \A i \in 1 .. Len(s) : s[i] # CLOSE
      BY <3>3, <3>4
    <3>6. WithoutClose(s) = s
      BY <3>4, <3>5, WithoutCloseSame
    <3>7. QED  BY <3>2, <3>6 DEF k
  <2>3. q = -1
    <3> DEFINE s == Before(text, p)
    <3>1. p \in 0 .. Len(text) /\ text \in Seq(Pieces)
      BY <1>1, <1>6
    <3>2. s \in Seq(Pieces) /\ Len(s) = p /\ \A i \in 1 .. p : s[i] = text[i]
      BY <3>1, Slices
    <3>3. \A i \in 1 .. Len(s) - 1 : s[i] # DSML
      <4> TAKE i \in 1 .. Len(s) - 1
      <4>1. i \in 1 .. p /\ i \in 1 .. n - 1
        BY <1>1, <1>6, <3>2
      <4>2. QED  BY <1>6, <3>2, <4>1
    <3> HIDE DEF s
    <3>4. EarliestToolTagPos(s) = -1
      BY <3>2, <3>3, NoTagThere
    <3>5. QED  BY <2>1, <3>4 DEF s
  <2>4. q < 0
    BY <2>3
  <2> HIDE DEF p, q, r, rest, tag
  <2>5. CASE rest # <<>>
    BY <1>4, <1>6, <2>1, <2>2, <2>5
  <2>6. CASE rest = <<>>
    <3>1. OneShot(text) = [reasoning |-> r, content |-> <<>>]
      BY <1>4, <2>4, <2>6
    <3>2. QED  BY <1>6, <2>1, <2>2, <2>6, <3>1
  <2>7. QED  BY <2>5, <2>6
<1>7. CASE /\ tag \in 0 .. n - 1
           /\ \E d : Opened(text, d)
           /\ reasoning = Split(text).reasoning
           /\ content = WithoutClose(Split(text).content)
  <2>1. p < 0 /\ text[tag + 1] = LT
    BY <1>7
  <2>2. ~(p >= 0) /\ r = text /\ q = tag /\ ~(q < 0)
    BY <1>3, <1>7, <2>1
  <2>3. PICK d : Opened(text, d)
    BY <1>7
  <2>4. /\ d \in 1 .. n - 1 /\ text[d] = DSML /\ tag = PlaceOf(text, d)
        /\ Split(text).reasoning = Before(text, PlaceOf(text, d))
        /\ Split(text).content = IF Headed(text, d) THEN From(text, PlaceOf(text, d))
                                 ELSE Repaired(From(text, PlaceOf(text, d)))
    BY <1>1, <2>3, TagOpened
  <2>5. Headed(text, d)
    <3> SUFFICES ASSUME ~Headed(text, d) PROVE FALSE
      OBVIOUS
    <3>1. tag = d - 1
      BY <2>4 DEF PlaceOf
    <3>2. tag + 1 = d
      BY <2>4, <3>1
    <3>3. QED  BY <2>1, <2>4, <3>2, PiecesDiffer
  <2>6. ~HasClose(text)
    BY <1>1, <2>1, CloseFound
  <2> DEFINE s == From(text, tag)
  <2>7. WithoutClose(s) = s
    <3>1. tag \in 0 .. Len(text) /\ text \in Seq(Pieces)
      BY <1>1, <1>7
    <3> HIDE DEF tag
    <3>2. /\ s \in Seq(Pieces) /\ Len(s) = n - tag
          /\ \A i \in 1 .. n - tag : s[i] = text[i + tag]
      BY <3>1, Slices
    <3> HIDE DEF s
    <3>3. \A i \in 1 .. n - tag : i + tag \in 1 .. n
      BY <1>1, <3>1
    <3>4. \A i \in 1 .. Len(s) : s[i] # CLOSE
      BY <2>6, <3>2, <3>3 DEF HasClose
    <3>5. QED  BY <3>2, <3>4, WithoutCloseSame
  <2>8. reasoning = Before(text, tag) /\ content = s
    BY <1>7, <2>4, <2>5, <2>7
  <2> HIDE DEF p, q, r, rest, tag
  <2>9. OneShot(text) = [reasoning |-> Before(text, tag), content |-> From(text, tag)]
    BY <1>4, <2>2
  <2>10. QED  BY <2>8, <2>9
<1>8. QED  BY <1>2, <1>5, <1>6, <1>7

-----------------------------------------------------------------------------
(* The theorems.                                                           *)

\* Type correctness for any tokens and deltas: what the content filter
\* withholds between two deltas is at most a "<" (dsv4_dsml_split.py:120-129),
\* and a tag that was seen has ended reasoning.
THEOREM ReasoningTypeCorrect == Spec => []TypeOK
<1>1. Init => ReasoningInv
  BY InitInv
<1>2. ReasoningInv /\ [Next]_vars => ReasoningInv'
  BY NextInv
<1>3. ReasoningInv => TypeOK
  BY DEF ReasoningInv, TypeOK
<1>4. QED  BY <1>1, <1>2, <1>3, PTL DEF Spec

\* For any tokens, cut into deltas of any size: once a start tag has been seen
\* the content holds a whole one, and the filter of close tags has neither
\* eaten nor withheld a piece of it (dsv4_dsml_split.py:60-67 and 86-91).
THEOREM MarkerStaysWhole == Spec => []MarkerWhole
<1>1. Init => ReasoningInv
  BY InitInv
<1>2. ReasoningInv /\ [Next]_vars => ReasoningInv'
  BY NextInv
<1>3. QED  BY <1>1, <1>2, InvMarker, PTL DEF Spec

\* For any tokens, cut into deltas of any size: what the channels hold of a
\* text with one terminator is what the text holds before and behind it, however
\* the text was cut (dsv4_reasoning_tool_aware.py:13-17 and 189-229,
\* dsv4_dsml_split.py:60-67). The tokenizer is taken to write </think> as the
\* one token that ends reasoning, which is what the upstream parser looks for:
\* where ordinary tokens spell it, the upstream parser reasons on.
THEOREM StreamsSplitCleanly == CLOSE \notin Tokens /\ Spec => []StreamsSplit
<1> SUFFICES ASSUME CLOSE \notin Tokens PROVE Spec => []StreamsSplit
  OBVIOUS
<1>1. Init => StreamInv
  BY StreamInit
<1>2. StreamInv /\ [Next]_vars => StreamInv'
  BY StreamNext
<1>3. QED  BY <1>1, <1>2, InvSplit, PTL DEF Spec

\* Under the same hypothesis, the stream agrees with the one-shot parser on
\* every settled text with one terminator: a whole start tag, or </think>
\* (dsv4_reasoning_tool_aware.py:13-17 and 142-169).
THEOREM StreamsAsOneShot == CLOSE \notin Tokens /\ Spec => []OneShotAgrees
<1> SUFFICES ASSUME CLOSE \notin Tokens PROVE Spec => []OneShotAgrees
  OBVIOUS
<1>1. Init => StreamInv
  BY StreamInit
<1>2. StreamInv /\ [Next]_vars => StreamInv'
  BY StreamNext
<1>3. QED  BY <1>1, <1>2, InvOneShot, PTL DEF Spec
=============================================================================
