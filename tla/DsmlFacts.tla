------------------------------ MODULE DsmlFacts ------------------------------
(***************************************************************************)
(* What the operators of DsmlSplit return, for texts of any length: the    *)
(* lemmas that the proofs about both parsers rest on.                      *)
(***************************************************************************)
EXTENDS DsmlSplit, FiniteSetTheorems, FunctionTheorems, SequenceTheorems,
        WellFoundedInduction, TLAPS

\* A set that has 0 and the successor of each of its numbers has all numbers:
\* there is no least one that it has not.  Induction is stated for sets here,
\* which the first-order provers can use.
LEMMA SetInduction ==
    ASSUME NEW S, 0 \in S, \A n \in Nat : n \in S => n + 1 \in S
    PROVE  Nat \subseteq S
<1> DEFINE R == OpToRel(<, Nat)
<1>1. IsWellFoundedOn(R, Nat)
  BY NatLessThanWellFounded, Zenon
<1>2. \A x, y \in Nat : <<x, y>> \in R <=> x < y
  BY DEF OpToRel
<1> HIDE DEF R
<1>3. SUFFICES ASSUME Nat \ S # {} PROVE FALSE
  OBVIOUS
<1>4. PICK m \in Nat \ S : \A y \in Nat \ S : <<y, m>> \notin R
  BY <1>1, <1>3, WFMin
<1>5. m - 1 \in Nat \ S /\ m - 1 < m
  <2>1. m # 0 /\ (m - 1) + 1 = m
    OBVIOUS
  <2>2. QED  BY <2>1
<1>6. QED  BY <1>2, <1>4, <1>5

\* The same up to a bound.
LEMMA UpToInduction ==
    ASSUME NEW S, NEW N \in Nat, 0 \in S,
           \A n \in 0 .. N - 1 : n \in S => n + 1 \in S
    PROVE  0 .. N \subseteq S
<1> DEFINE U == S \cup {n \in Nat : n > N}
<1>1. 0 \in U /\ \A n \in Nat : n \in U => n + 1 \in U
  OBVIOUS
<1>2. Nat \subseteq U
  BY <1>1, SetInduction
<1>3. QED  BY <1>2

\* A set of numbers that is not empty has a least one.
LEMMA LeastExists ==
    ASSUME NEW S, S \subseteq Nat, S # {}
    PROVE  \E x \in S : \A y \in S : x =< y
<1> SUFFICES ASSUME \A x \in S : \E y \in S : y < x PROVE FALSE
  OBVIOUS
<1> DEFINE Below == {n \in Nat : \A y \in S : n < y}
<1>1. 0 \in Below
  <2>1. \A y \in S : y # 0
    OBVIOUS
  <2>2. QED  BY <2>1
<1>2. \A n \in Nat : n \in Below => n + 1 \in Below
  <2> SUFFICES ASSUME NEW n \in Nat, n \in Below PROVE n + 1 \in Below
    OBVIOUS
  <2>1. n + 1 \notin S
    OBVIOUS
  <2>2. \A y \in S : n < y /\ y # n + 1 /\ y \in Nat
    BY <2>1
  <2>3. QED  BY <2>2
<1>3. Nat \subseteq Below
  BY <1>1, <1>2, SetInduction
<1>4. PICK x \in S : x \in Nat
  OBVIOUS
<1>5. QED  BY <1>3, <1>4

-----------------------------------------------------------------------------
(* Least and greatest numbers.                                             *)

LEMMA MinIs ==
    ASSUME NEW S, S \subseteq Nat, S # {}
    PROVE  Min(S) \in S /\ \A y \in S : Min(S) =< y
<1>1. \E x \in S : \A y \in S : x =< y
  BY LeastExists
<1>2. QED  BY <1>1 DEF Min

LEMMA MaxIs ==
    ASSUME NEW N \in Nat, NEW S, S \subseteq 0 .. N, S # {}
    PROVE  Max(S) \in S /\ \A y \in S : Max(S) >= y
<1> DEFINE Mirrored == {N - x : x \in S}
<1>1. Mirrored \subseteq Nat /\ Mirrored # {}
  <2>1. \A x \in S : N - x \in Nat
    OBVIOUS
  <2>2. QED  BY <2>1
<1>2. PICK z \in Mirrored : \A y \in Mirrored : z =< y
  BY <1>1, LeastExists
<1>3. PICK x \in S : z = N - x
  BY <1>2
<1>4. \A y \in S : N - y \in Mirrored /\ y \in 0 .. N
  OBVIOUS
<1>5. \A y \in S : x >= y
  BY <1>2, <1>3, <1>4
<1>6. QED  BY <1>3, <1>5 DEF Max

-----------------------------------------------------------------------------
(* Slices.                                                                 *)

LEMMA SameSequence ==
    ASSUME NEW S, NEW s \in Seq(S), NEW T, NEW t \in Seq(T), Len(s) = Len(t),
           \A i \in 1 .. Len(s) : s[i] = t[i]
    PROVE  s = t
<1>1. s = [i \in 1 .. Len(s) |-> s[i]] /\ t = [i \in 1 .. Len(t) |-> t[i]]
  OBVIOUS
<1>2. QED  BY <1>1

LEMMA Slices ==
    ASSUME NEW S, NEW text \in Seq(S), NEW p \in 0 .. Len(text)
    PROVE  /\ Before(text, p) \in Seq(S) /\ Len(Before(text, p)) = p
           /\ \A i \in 1 .. p : Before(text, p)[i] = text[i]
           /\ From(text, p) \in Seq(S) /\ Len(From(text, p)) = Len(text) - p
           /\ \A i \in 1 .. Len(text) - p : From(text, p)[i] = text[i + p]
           /\ Before(text, p) \o From(text, p) = text
<1>1. Len(text) \in Nat /\ p + 1 \in Nat
  OBVIOUS
<1>2. /\ Before(text, p) \in Seq(S) /\ Len(Before(text, p)) = p
      /\ \A i \in 1 .. p : Before(text, p)[i] = text[i]
  BY DEF Before
<1>3. /\ From(text, p) \in Seq(S) /\ Len(From(text, p)) = Len(text) - p
      /\ \A i \in 1 .. Len(text) - p : From(text, p)[i] = text[i + p]
  BY DEF From
<1>4. Before(text, p) \o From(text, p) = text
  <2> DEFINE whole == Before(text, p) \o From(text, p)
  <2>1. whole \in Seq(S) /\ Len(whole) = Len(text)
    BY <1>2, <1>3
  <2>2. ASSUME NEW i \in 1 .. Len(text) PROVE whole[i] = text[i]
    <3>1. CASE i =< p
      BY <1>2, <1>3, <3>1
    <3>2. CASE ~(i =< p)
      <4>1. i - p \in 1 .. Len(text) - p /\ (i - p) + p = i
        BY <3>2
      <4>2. whole[i] = From(text, p)[i - p]
        BY <1>2, <1>3, <3>2
      <4>3. QED  BY <1>3, <4>1, <4>2
    <3>3. QED  BY <3>1, <3>2
  <2> HIDE DEF whole
  <2>3. whole = text
    BY <2>1, <2>2, SameSequence
  <2>4. QED  BY <2>3 DEF whole
<1>5. QED  BY <1>2, <1>3, <1>4

LEMMA SliceTyped ==
    ASSUME NEW S, NEW text \in Seq(S), NEW p \in Int, p =< Len(text), NEW q \in Nat
    PROVE  Before(text, p) \in Seq(S) /\ From(text, q) \in Seq(S)
<1>1. Before(text, p) \in Seq(S)
  <2>1. CASE p \in 0 .. Len(text)
    BY <2>1, Slices
  <2>2. CASE p \notin 0 .. Len(text)
    <3>1. p < 1
      BY <2>2
    <3>2. Before(text, p) = <<>>
      BY <3>1 DEF Before
    <3>3. QED  BY <3>2
  <2>3. QED  BY <2>1, <2>2
<1>2. From(text, q) \in Seq(S)
  <2>1. CASE q \in 0 .. Len(text)
    BY <2>1, Slices
  <2>2. CASE q \notin 0 .. Len(text)
    <3>1. q + 1 > Len(text)
      BY <2>2
    <3>2. From(text, q) = <<>>
      BY <3>1 DEF From
    <3>3. QED  BY <3>2
  <2>3. QED  BY <2>1, <2>2
<1>3. QED  BY <1>1, <1>2

\* What find returns is the first place where the tag is.
LEMMA FindIs ==
    ASSUME NEW S, NEW text \in Seq(S), NEW T, NEW tag \in Seq(T)
    PROVE  /\ Find(text, tag) \in Int
           /\ Find(text, tag) < 0 <=> Occurrences(tag, text) = {}
           /\ Find(text, tag) < 0 <=> Find(text, tag) = -1
           /\ Find(text, tag) >= 0 =>
                /\ Find(text, tag) \in Occurrences(tag, text)
                /\ Find(text, tag) + Len(tag) \in 0 .. Len(text)
                /\ \A q \in Occurrences(tag, text) : Find(text, tag) =< q
<1>1. Occurrences(tag, text) \subseteq Nat
  BY DEF Occurrences
<1>2. \A q \in Occurrences(tag, text) : q + Len(tag) \in 0 .. Len(text)
  BY DEF Occurrences
<1>3. CASE Occurrences(tag, text) = {}
  BY <1>3 DEF Find
<1>4. CASE Occurrences(tag, text) # {}
  <2>1. Find(text, tag) = Min(Occurrences(tag, text))
    BY <1>4 DEF Find
  <2>2. Find(text, tag) \in Occurrences(tag, text)
        /\ \A q \in Occurrences(tag, text) : Find(text, tag) =< q
    BY <1>1, <1>4, <2>1, MinIs
  <2>3. Find(text, tag) \in Nat
    BY <1>1, <2>2
  <2>4. QED  BY <1>2, <1>4, <2>2, <2>3
<1>5. QED  BY <1>3, <1>4

\* A tag is at a place when its pieces are there, one by one.
LEMMA OccursAt ==
    ASSUME NEW S, NEW text \in Seq(S), NEW T, NEW tag \in Seq(T),
           NEW q \in Nat, q + Len(tag) =< Len(text)
    PROVE  q \in Occurrences(tag, text) <=> \A i \in 1 .. Len(tag) : text[q + i] = tag[i]
<1> DEFINE cut == SubSeq(text, q + 1, q + Len(tag))
<1>1. cut \in Seq(S) /\ Len(cut) = Len(tag) /\ \A i \in 1 .. Len(tag) : cut[i] = text[q + i]
  OBVIOUS
<1>2. q \in Occurrences(tag, text) <=> cut = tag
  BY DEF Occurrences
<1> HIDE DEF cut
<1>3. cut = tag <=> \A i \in 1 .. Len(tag) : cut[i] = tag[i]
  BY <1>1
<1>4. QED  BY <1>1, <1>2, <1>3

LEMMA PrefixShorter ==
    ASSUME NEW s, NEW t, IsPrefix(s, t)
    PROVE  Len(s) =< Len(t)
BY DEF IsPrefix

LEMMA PartialBounded ==
    ASSUME NEW S, NEW t \in Seq(S), NEW tags
    PROVE  TrailingPartial(t, tags) \in 0 .. Len(t)
<1> DEFINE ends == {0} \cup {k \in 1 .. Len(t) : \E i \in DOMAIN tags :
                      k < Len(tags[i]) /\ IsSuffix(Before(tags[i], k), t)}
<1>1. ends \subseteq 0 .. Len(t) /\ ends # {}
  OBVIOUS
<1>2. TrailingPartial(t, tags) = Max(ends)
  BY DEF TrailingPartial
<1> HIDE DEF ends
<1>3. Max(ends) \in ends
  <2>1. Len(t) \in Nat
    OBVIOUS
  <2>2. QED  BY <1>1, <2>1, MaxIs
<1>4. QED  BY <1>1, <1>2, <1>3

-----------------------------------------------------------------------------
(* Flattening.                                                             *)

\* The recursive function by which FlattenSeq is defined is defined for every
\* length.
LEMMA FlattenUnfolds ==
    ASSUME NEW S, NEW seqs \in Seq(Seq(S)), Len(seqs) > 0
    PROVE  \E f : /\ f \in [1 .. Len(seqs) -> Seq(S)]
                  /\ f[1] = seqs[1]
                  /\ \A i \in 2 .. Len(seqs) : f[i] = f[i - 1] \o seqs[i]
                  /\ FlattenSeq(seqs) = f[Len(seqs)]
<1> DEFINE Is(f, m) == f = [i \in 1 .. m |-> IF i = 1 THEN seqs[i] ELSE f[i - 1] \o seqs[i]]
           Defined == {m \in Nat : \E f : Is(f, m)}
           flatten == CHOOSE f : Is(f, Len(seqs))
<1>1. FlattenSeq(seqs) = flatten[Len(seqs)]
  <2>1. Len(seqs) # 0
    OBVIOUS
  <2>2. QED  BY <2>1, Zenon DEF FlattenSeq
<1>2. 0 \in Defined
  <2> DEFINE f == [i \in 1 .. 0 |-> seqs[1]]
  <2>1. f = [i \in 1 .. 0 |-> IF i = 1 THEN seqs[i] ELSE f[i - 1] \o seqs[i]]
    OBVIOUS
  <2>2. Is(f, 0)
    BY <2>1
  <2> HIDE DEF Is, f
  <2>3. QED  BY <2>2
<1>3. ASSUME NEW m \in Nat, m \in Defined PROVE m + 1 \in Defined
  <2>1. PICK f : Is(f, m)
    BY <1>3
  <2> DEFINE g == [i \in 1 .. m + 1 |-> IF i =< m THEN f[i]
                                        ELSE IF i = 1 THEN seqs[i] ELSE f[m] \o seqs[i]]
             h == [i \in 1 .. m + 1 |-> IF i = 1 THEN seqs[i] ELSE g[i - 1] \o seqs[i]]
  <2>2. ASSUME NEW i \in 1 .. m + 1 PROVE g[i] = h[i]
    <3>1. CASE i =< m
      <4>1. i \in 1 .. m /\ (i # 1 => i - 1 \in 1 .. m)
        BY <3>1
      <4>2. f[i] = IF i = 1 THEN seqs[i] ELSE f[i - 1] \o seqs[i]
        BY <2>1, <4>1
      <4>3. i # 1 => g[i - 1] = f[i - 1]
        BY <4>1
      <4>4. QED  BY <3>1, <4>2, <4>3
    <3>2. CASE i = m + 1
      <4>1. i # 1 => i - 1 = m /\ m \in 1 .. m + 1 /\ g[m] = f[m]
        BY <3>2
      <4>2. ~(i =< m)
        BY <3>2
      <4>3. QED  BY <4>1, <4>2
    <3>3. QED  BY <3>1, <3>2
  <2>3. g = h
    BY <2>2
  <2>4. Is(g, m + 1)
    BY <2>3
  <2> HIDE DEF Is, g
  <2>5. QED  BY <2>4
<1> HIDE DEF Is
<1>4. Is(flatten, Len(seqs))
  <2>1. Nat \subseteq Defined
    BY <1>2, <1>3, SetInduction
  <2>2. \E f : Is(f, Len(seqs))
    BY <2>1
  <2>3. QED  BY <2>2
<1> HIDE DEF flatten
<1>5. /\ DOMAIN flatten = 1 .. Len(seqs)
      /\ flatten[1] = seqs[1]
      /\ \A i \in 2 .. Len(seqs) : flatten[i] = flatten[i - 1] \o seqs[i]
      /\ flatten = [i \in 1 .. Len(seqs) |-> flatten[i]]
  <2>1. flatten = [i \in 1 .. Len(seqs) |-> IF i = 1 THEN seqs[i] ELSE flatten[i - 1] \o seqs[i]]
    BY <1>4 DEF Is
  <2>2. DOMAIN flatten = 1 .. Len(seqs) /\ 1 \in 1 .. Len(seqs)
    BY <2>1
  <2>3. flatten[1] = seqs[1]
    BY <2>1, <2>2
  <2>4. \A i \in 2 .. Len(seqs) : flatten[i] = flatten[i - 1] \o seqs[i]
    <3> TAKE i \in 2 .. Len(seqs)
    <3>1. i \in 1 .. Len(seqs) /\ i # 1
      OBVIOUS
    <3>2. QED  BY <2>1, <3>1
  <2>5. QED  BY <2>1, <2>2, <2>3, <2>4
<1>6. \A i \in 1 .. Len(seqs) : flatten[i] \in Seq(S)
  <2> DEFINE Typed == {i \in Nat : i + 1 \in 1 .. Len(seqs) => flatten[i + 1] \in Seq(S)}
  <2>1. 0 \in Typed
    BY <1>5
  <2>2. ASSUME NEW i \in Nat, i \in Typed PROVE i + 1 \in Typed
    <3>1. CASE i + 2 \in 1 .. Len(seqs)
      <4>1. flatten[i + 1] \in Seq(S) /\ seqs[i + 2] \in Seq(S)
        BY <2>2, <3>1
      <4>2. i + 2 \in 2 .. Len(seqs) /\ (i + 2) - 1 = i + 1
        BY <3>1
      <4>3. flatten[i + 2] = flatten[i + 1] \o seqs[i + 2]
        BY <1>5, <4>2
      <4>4. flatten[i + 2] \in Seq(S)
        BY <4>1, <4>3
      <4>5. QED  BY <3>1, <4>4
    <3>2. QED  BY <3>1
  <2>3. Nat \subseteq Typed
    BY <2>1, <2>2, SetInduction
  <2>4. \A i \in 1 .. Len(seqs) : i - 1 \in Nat /\ (i - 1) + 1 = i
    OBVIOUS
  <2>5. QED  BY <2>3, <2>4
<1>7. QED  BY <1>1, <1>5, <1>6

LEMMA FlattenTyped ==
    ASSUME NEW S, NEW seqs \in Seq(Seq(S))
    PROVE  FlattenSeq(seqs) \in Seq(S)
<1>1. CASE Len(seqs) = 0
  <2>1. FlattenSeq(seqs) = seqs
    BY <1>1, Zenon DEF FlattenSeq
  <2>2. seqs = <<>>
    BY <1>1
  <2>3. <<>> \in Seq(S)
    OBVIOUS
  <2>4. QED  BY <2>1, <2>2, <2>3
<1>2. CASE Len(seqs) > 0
  <2>1. PICK f \in [1 .. Len(seqs) -> Seq(S)] : FlattenSeq(seqs) = f[Len(seqs)]
    BY <1>2, FlattenUnfolds
  <2>2. Len(seqs) \in 1 .. Len(seqs)
    BY <1>2
  <2>3. QED  BY <2>1, <2>2
<1>3. QED  BY <1>1, <1>2

-----------------------------------------------------------------------------
(* The filter of close tags.                                               *)

\* The pieces that close tags are made of.
Tagged(text) == UNION {{p + 1, p + 2} : p \in Occurrences(ThinkClose, text)}
Kept(text) == [i \in DOMAIN text |-> IF i \in Tagged(text) THEN <<>> ELSE <<text[i]>>]

LEMMA WithoutCloseTyped ==
    ASSUME NEW S, NEW text \in Seq(S)
    PROVE  /\ Kept(text) \in Seq(Seq(S)) /\ Len(Kept(text)) = Len(text)
           /\ WithoutClose(text) = FlattenSeq(Kept(text))
           /\ WithoutClose(text) \in Seq(S)
<1>1. DOMAIN text = 1 .. Len(text) /\ \A i \in 1 .. Len(text) : text[i] \in S
  OBVIOUS
<1>2. Kept(text) \in Seq(Seq(S)) /\ Len(Kept(text)) = Len(text)
  <2> DEFINE bit(i) == IF i \in Tagged(text) THEN <<>> ELSE <<text[i]>>
  <2>1. \A i \in 1 .. Len(text) : bit(i) \in Seq(S)
    BY <1>1
  <2>2. Kept(text) = [i \in 1 .. Len(text) |-> bit(i)]
    BY <1>1 DEF Kept
  <2> HIDE DEF bit
  <2>3. QED  BY <2>1, <2>2
<1>3. WithoutClose(text) = FlattenSeq(Kept(text))
  BY Zenon DEF WithoutClose, Kept, Tagged
<1>4. QED  BY <1>2, <1>3, FlattenTyped

\* At most the last piece is withheld, and only a "<".
LEMMA PartialClose ==
    ASSUME NEW S, NEW text \in Seq(S)
    PROVE  /\ TrailingPartial(text, <<ThinkClose>>) \in {0, 1}
           /\ TrailingPartial(text, <<ThinkClose>>) =< Len(text)
           /\ TrailingPartial(text, <<ThinkClose>>) = 1 => text[Len(text)] = LT
<1> DEFINE tags == <<ThinkClose>>
           ends == {k \in 1 .. Len(text) : \E i \in DOMAIN tags :
                      k < Len(tags[i]) /\ IsSuffix(Before(tags[i], k), text)}
<1>1. \A i \in DOMAIN tags : tags[i] = ThinkClose /\ Len(tags[i]) = 2
  BY DEF ThinkClose
<1>2. ASSUME NEW k \in ends PROVE k = 1 /\ k =< Len(text)
  <2>1. k \in 1 .. Len(text) /\ \E i \in DOMAIN tags : k < Len(tags[i])
    OBVIOUS
  <2>2. k < 2
    BY <1>1, <2>1
  <2>3. QED  BY <2>1, <2>2
<1>3. ASSUME NEW k \in ends PROVE text[Len(text)] = LT
  <2>1. k = 1 /\ Len(text) >= 1
    BY <1>2, <1>3
  <2>2. PICK i \in DOMAIN tags : IsSuffix(Before(tags[i], 1), text)
    BY <2>1
  <2>3. Before(tags[i], 1) = <<LT>>
    <3>1. SubSeq(<<LT, CLOSE>>, 1, 1) = <<LT>>
      <4> DEFINE cut == SubSeq(<<LT, CLOSE>>, 1, 1)
      <4>1. cut \in Seq({LT, CLOSE}) /\ Len(cut) = 1 /\ cut[1] = LT
        OBVIOUS
      <4> HIDE DEF cut
      <4>2. cut = <<LT>>
        BY <4>1
      <4>3. QED  BY <4>2 DEF cut
    <3>2. QED  BY <1>1, <3>1 DEF Before, ThinkClose
  <2>4. IsPrefix(Reverse(<<LT>>), Reverse(text))
    BY <2>2, <2>3 DEF IsSuffix
  <2>5. Reverse(<<LT>>) = <<LT>>
    BY DEF Reverse
  <2>6. Reverse(text)[1] = text[Len(text)] /\ Len(Reverse(text)) = Len(text) /\ Reverse(text) \in Seq(S)
    BY <2>1 DEF Reverse
  <2>7. SubSeq(<<LT>>, 1, 1) = SubSeq(Reverse(text), 1, 1)
    BY <2>4, <2>5 DEF IsPrefix
  <2>8. SubSeq(Reverse(text), 1, 1)[1] = Reverse(text)[1]
    BY <2>1, <2>6
  <2>9. QED  BY <2>6, <2>7, <2>8
<1>4. {0} \cup ends \subseteq 0 .. Len(text) /\ {0} \cup ends # {}
  OBVIOUS
<1>5. TrailingPartial(text, tags) = Max({0} \cup ends)
  BY DEF TrailingPartial
<1> HIDE DEF ends
<1>6. Max({0} \cup ends) \in {0} \cup ends
  BY <1>4, MaxIs
<1>7. QED  BY <1>2, <1>3, <1>5, <1>6

LEMMA FilterTyped ==
    ASSUME NEW S, NEW held \in Seq(S), NEW new \in Seq(S)
    PROVE  /\ FilterThinkClose(held, new).emit \in Seq(S)
           /\ FilterThinkClose(held, new).pending \in Seq(S)
           /\ FilterThinkClose(held, new).pending \in {<<>>, <<LT>>}
           /\ FilterThinkClose(held, new).emit \o FilterThinkClose(held, new).pending
                = WithoutClose(held \o new)
<1> DEFINE buf == WithoutClose(held \o new)
           kept == Len(buf) - TrailingPartial(buf, <<ThinkClose>>)
<1>1. buf \in Seq(S)
  <2>1. held \o new \in Seq(S)
    OBVIOUS
  <2>2. QED  BY <2>1, WithoutCloseTyped
<1>2. /\ FilterThinkClose(held, new).emit = Before(buf, kept)
      /\ FilterThinkClose(held, new).pending = From(buf, kept)
  BY DEF FilterThinkClose
<1> HIDE DEF buf
<1>3. kept \in 0 .. Len(buf)
  BY <1>1, PartialClose
<1>4. From(buf, kept) \in {<<>>, <<LT>>}
  <2>1. CASE TrailingPartial(buf, <<ThinkClose>>) = 0
    <3>1. Len(From(buf, kept)) = 0 /\ From(buf, kept) \in Seq(S)
      BY <1>1, <1>3, <2>1, Slices, SMTT(30)
    <3>2. QED  BY <3>1
  <2>2. CASE TrailingPartial(buf, <<ThinkClose>>) = 1
    <3>1. Len(buf) \in Nat /\ Len(buf) - kept = 1
      BY <1>1, <2>2
    <3> HIDE DEF kept
    <3>2. /\ Len(From(buf, kept)) = Len(buf) - kept /\ From(buf, kept) \in Seq(S)
          /\ \A i \in 1 .. Len(buf) - kept : From(buf, kept)[i] = buf[i + kept]
      BY <1>1, <1>3, Slices
    <3>3. buf[1 + kept] = LT
      BY <1>1, <2>2, PartialClose DEF kept
    <3>4. QED  BY <3>1, <3>2, <3>3
  <2>3. QED  BY <1>1, <2>1, <2>2, PartialClose
<1>5. QED  BY <1>1, <1>2, <1>3, <1>4, Slices DEF buf
-----------------------------------------------------------------------------
(* The start tags, and the split.                                          *)

TagPieces == {LT, DSML, CALLS, FUNCS}

LEMMA Pairs ==
    ASSUME NEW T, NEW pair, DOMAIN pair = 1 .. 2, pair = [i \in 1 .. 2 |-> pair[i]],
           pair[1] \in T, pair[2] \in T
    PROVE  pair \in Seq(T) /\ Len(pair) = 2
<1>1. \A i \in 1 .. 2 : pair[i] \in T
  <2> TAKE i \in 1 .. 2
  <2>1. i = 1 \/ i = 2
    OBVIOUS
  <2>2. QED  BY <2>1
<1>2. [i \in 1 .. 2 |-> pair[i]] \in Seq(T) /\ Len([i \in 1 .. 2 |-> pair[i]]) = 2
  BY <1>1
<1>3. QED  BY <1>2

LEMMA Joined ==
    ASSUME NEW T, NEW s \in Seq(T), NEW u \in Seq(T)
    PROVE  /\ s \o u \in Seq(T) /\ Len(s \o u) = Len(s) + Len(u)
           /\ \A i \in 1 .. Len(s) : (s \o u)[i] = s[i]
           /\ \A i \in 1 .. Len(u) : (s \o u)[Len(s) + i] = u[i]
<1>1. s \o u \in Seq(T) /\ Len(s \o u) = Len(s) + Len(u)
  BY ConcatProperties
<1>2. \A i \in 1 .. Len(s) + Len(u) :
          (s \o u)[i] = IF i =< Len(s) THEN s[i] ELSE u[i - Len(s)]
  BY ConcatProperties
<1>3. Len(s) \in Nat /\ Len(u) \in Nat
  OBVIOUS
<1> DEFINE m == Len(s)
           n == Len(u)
           whole == s \o u
<1>4. m \in Nat /\ n \in Nat
      /\ \A i \in 1 .. m + n : whole[i] = IF i =< m THEN s[i] ELSE u[i - m]
  BY <1>2, <1>3
<1> HIDE DEF m, n, whole
<1>5. \A i \in 1 .. m : whole[i] = s[i]
  <2> TAKE i \in 1 .. m
  <2>1. i \in 1 .. m + n /\ i =< m
    BY <1>4
  <2>2. QED  BY <1>4, <2>1
<1>6. \A i \in 1 .. n : whole[m + i] = u[i]
  <2> TAKE i \in 1 .. n
  <2>1. m + i \in 1 .. m + n /\ ~(m + i =< m) /\ (m + i) - m = i
    BY <1>4
  <2>2. QED  BY <1>4, <2>1
<1>7. QED  BY <1>1, <1>5, <1>6 DEF m, n, whole

LEMMA StartTags ==
    /\ ToolStartTags \in Seq(Seq(TagPieces)) /\ Len(ToolStartTags) = 2
    /\ ToolStartTags[1] = <<LT, DSML, CALLS>> /\ ToolStartTags[2] = <<LT, DSML, FUNCS>>
    /\ HeadlessTags \in Seq(Seq(TagPieces)) /\ Len(HeadlessTags) = 2
    /\ HeadlessTags[1] = <<DSML, CALLS>> /\ HeadlessTags[2] = <<DSML, FUNCS>>
    /\ AllTags \in Seq(Seq(TagPieces)) /\ Len(AllTags) = 4
    /\ AllTags[1] = ToolStartTags[1] /\ AllTags[2] = ToolStartTags[2]
    /\ AllTags[3] = HeadlessTags[1] /\ AllTags[4] = HeadlessTags[2]
<1>1. ASSUME NEW x \in TagPieces
      PROVE  /\ <<LT, DSML, x>> \in Seq(TagPieces) /\ <<DSML, x>> \in Seq(TagPieces)
             /\ Tail(<<LT, DSML, x>>) = <<DSML, x>>
  <2> DEFINE tag == <<LT, DSML, x>>
  <2>1. /\ tag \in Seq(TagPieces) /\ tag # <<>> /\ Len(tag) = 3
        /\ tag[2] = DSML /\ tag[3] = x
    BY DEF TagPieces
  <2> HIDE DEF tag
  <2>2. Tail(tag) = SubSeq(tag, 2, Len(tag))
    BY <2>1, TailIsSubSeq
  <2> DEFINE rest == SubSeq(tag, 2, 3)
  <2>3. rest \in Seq(TagPieces) /\ Len(rest) = 2 /\ rest[1] = DSML /\ rest[2] = x
    BY <2>1
  <2>4. Tail(tag) = rest
    BY <2>1, <2>2
  <2> HIDE DEF rest
  <2>5. rest = <<DSML, x>>
    BY <2>3
  <2>6. QED  BY <2>1, <2>3, <2>4, <2>5 DEF tag
<1>2. CALLS \in TagPieces /\ FUNCS \in TagPieces
  BY DEF TagPieces
<1> DEFINE full1 == <<LT, DSML, CALLS>>
           full2 == <<LT, DSML, FUNCS>>
           less1 == <<DSML, CALLS>>
           less2 == <<DSML, FUNCS>>
<1>3. /\ full1 \in Seq(TagPieces) /\ full2 \in Seq(TagPieces)
      /\ less1 \in Seq(TagPieces) /\ less2 \in Seq(TagPieces)
      /\ Tail(full1) = less1 /\ Tail(full2) = less2
  BY <1>1, <1>2
<1>4. ToolStartTags = <<full1, full2>>
  BY DEF ToolStartTags
<1> HIDE DEF full1, full2, less1, less2
<1>5. /\ ToolStartTags \in Seq(Seq(TagPieces)) /\ Len(ToolStartTags) = 2
      /\ ToolStartTags[1] = full1 /\ ToolStartTags[2] = full2
  BY <1>3, <1>4
<1>6. HeadlessTags = [i \in 1 .. 2 |-> Tail(ToolStartTags[i])]
  BY <1>5 DEF HeadlessTags
<1>7. HeadlessTags[1] = less1 /\ HeadlessTags[2] = less2 /\ DOMAIN HeadlessTags = 1 .. 2
      /\ HeadlessTags = [i \in 1 .. 2 |-> HeadlessTags[i]]
  BY <1>3, <1>5, <1>6
<1> DEFINE Typed == Seq(TagPieces)
<1>8. less1 \in Typed /\ less2 \in Typed /\ ToolStartTags \in Seq(Typed)
  BY <1>3, <1>5
<1> HIDE DEF Typed
<1>9. /\ HeadlessTags \in Seq(Typed) /\ Len(HeadlessTags) = 2
      /\ AllTags \in Seq(Typed) /\ Len(AllTags) = 4
      /\ AllTags[1] = ToolStartTags[1] /\ AllTags[2] = ToolStartTags[2]
      /\ AllTags[3] = HeadlessTags[1] /\ AllTags[4] = HeadlessTags[2]
  <2>1. /\ HeadlessTags[1] \in Typed /\ HeadlessTags[2] \in Typed
        /\ Len(ToolStartTags) = 2 /\ AllTags = ToolStartTags \o HeadlessTags
    BY <1>5, <1>7, <1>8 DEF AllTags
  <2>2. HeadlessTags \in Seq(Typed) /\ Len(HeadlessTags) = 2
    BY <1>7, <2>1, Pairs
  <2> DEFINE first == ToolStartTags
             second == HeadlessTags
  <2>3. first \in Seq(Typed) /\ second \in Seq(Typed) /\ Len(first) = 2 /\ Len(second) = 2
    BY <1>8, <2>1, <2>2
  <2>4. /\ first \o second \in Seq(Typed) /\ Len(first \o second) = Len(first) + Len(second)
        /\ \A i \in 1 .. Len(first) : (first \o second)[i] = first[i]
        /\ \A i \in 1 .. Len(second) : (first \o second)[Len(first) + i] = second[i]
    BY <1>8, <2>2, Joined
  <2>5. AllTags = first \o second
    BY <2>1
  <2> DEFINE whole == first \o second
             m == Len(first)
             n == Len(second)
  <2>6. /\ whole \in Seq(Typed) /\ Len(whole) = m + n /\ AllTags = whole /\ m = 2 /\ n = 2
        /\ \A i \in 1 .. m : whole[i] = first[i]
        /\ \A i \in 1 .. n : whole[m + i] = second[i]
    BY <2>3, <2>4, <2>5
  <2> HIDE DEF first, second, whole, m, n
  <2>7. whole[1] = first[1] /\ whole[2] = first[2] /\ whole[3] = second[1] /\ whole[4] = second[2]
    BY <2>6
  <2>8. QED  BY <2>2, <2>6, <2>7 DEF first, second
<1>10. QED  BY <1>5, <1>7, <1>9 DEF Typed, full1, full2, less1, less2

\* The same, tag by tag.
LEMMA TagShapes ==
    /\ DOMAIN ToolStartTags = {1, 2} /\ DOMAIN HeadlessTags = {1, 2}
    /\ DOMAIN AllTags = {1, 2, 3, 4}
    /\ AllTags[1] = ToolStartTags[1] /\ AllTags[2] = ToolStartTags[2]
    /\ AllTags[3] = HeadlessTags[1] /\ AllTags[4] = HeadlessTags[2]
    /\ \A i \in {1, 2} :
         /\ ToolStartTags[i] \in Seq(TagPieces) /\ Len(ToolStartTags[i]) = 3
         /\ ToolStartTags[i][1] = LT /\ ToolStartTags[i][2] = DSML
         /\ ToolStartTags[i][3] = IF i = 1 THEN CALLS ELSE FUNCS
    /\ \A i \in {1, 2} :
         /\ HeadlessTags[i] \in Seq(TagPieces) /\ Len(HeadlessTags[i]) = 2
         /\ HeadlessTags[i][1] = DSML
         /\ HeadlessTags[i][2] = IF i = 1 THEN CALLS ELSE FUNCS
    /\ \A i \in {1, 2, 3, 4} : AllTags[i] \in Seq(TagPieces)
<1> DEFINE Typed == Seq(TagPieces)
<1>1. /\ ToolStartTags \in Seq(Typed) /\ Len(ToolStartTags) = 2
      /\ HeadlessTags \in Seq(Typed) /\ Len(HeadlessTags) = 2
      /\ AllTags \in Seq(Typed) /\ Len(AllTags) = 4
  BY StartTags
<1> HIDE DEF Typed
<1>2. /\ DOMAIN ToolStartTags = {1, 2} /\ DOMAIN HeadlessTags = {1, 2}
      /\ DOMAIN AllTags = {1, 2, 3, 4}
  BY <1>1
<1>3. /\ \A i \in {1, 2} : ToolStartTags[i] \in Typed /\ HeadlessTags[i] \in Typed
      /\ \A i \in {1, 2, 3, 4} : AllTags[i] \in Typed
  <2>1. ASSUME NEW s \in Seq(Typed), NEW i \in DOMAIN s PROVE s[i] \in Typed
    OBVIOUS
  <2>2. ToolStartTags \in Seq(Typed) /\ HeadlessTags \in Seq(Typed) /\ AllTags \in Seq(Typed)
    BY <1>1
  <2>3. QED  BY <1>2, <2>1, <2>2
<1>4. ASSUME NEW x
      PROVE  /\ Len(<<LT, DSML, x>>) = 3 /\ <<LT, DSML, x>>[1] = LT
             /\ <<LT, DSML, x>>[2] = DSML /\ <<LT, DSML, x>>[3] = x
             /\ Len(<<DSML, x>>) = 2 /\ <<DSML, x>>[1] = DSML /\ <<DSML, x>>[2] = x
  OBVIOUS
<1>5. /\ ToolStartTags[1] = <<LT, DSML, CALLS>> /\ ToolStartTags[2] = <<LT, DSML, FUNCS>>
      /\ HeadlessTags[1] = <<DSML, CALLS>> /\ HeadlessTags[2] = <<DSML, FUNCS>>
      /\ AllTags[1] = ToolStartTags[1] /\ AllTags[2] = ToolStartTags[2]
      /\ AllTags[3] = HeadlessTags[1] /\ AllTags[4] = HeadlessTags[2]
  BY StartTags
<1>6. ASSUME NEW i \in {1, 2}
      PROVE  /\ Len(ToolStartTags[i]) = 3 /\ Len(HeadlessTags[i]) = 2
             /\ ToolStartTags[i][1] = LT /\ ToolStartTags[i][2] = DSML
             /\ ToolStartTags[i][3] = IF i = 1 THEN CALLS ELSE FUNCS
             /\ HeadlessTags[i][1] = DSML
             /\ HeadlessTags[i][2] = IF i = 1 THEN CALLS ELSE FUNCS
  <2>1. CASE i = 1
    BY <1>4, <1>5, <2>1
  <2>2. CASE i = 2
    BY <1>4, <1>5, <2>2
  <2>3. QED  BY <2>1, <2>2
<1>7. QED  BY <1>2, <1>3, <1>5, <1>6 DEF Typed

LEMMA FirstFoundIs ==
    ASSUME NEW S, NEW t \in Seq(S), NEW T, NEW tags \in Seq(Seq(T))
    PROVE  /\ FirstFound(t, tags) \in {-1} \cup 0 .. Len(t)
           /\ FirstFound(t, tags) < 0 <=> \A i \in DOMAIN tags : Find(t, tags[i]) < 0
           /\ FirstFound(t, tags) >= 0 =>
                \E i \in DOMAIN tags : FirstFound(t, tags) = Find(t, tags[i])
<1> DEFINE found == {i \in DOMAIN tags : Find(t, tags[i]) >= 0}
<1>1. \A i \in DOMAIN tags :
          /\ Find(t, tags[i]) \in Int
          /\ Find(t, tags[i]) >= 0 => Find(t, tags[i]) \in 0 .. Len(t)
  <2> TAKE i \in DOMAIN tags
  <2>1. tags[i] \in Seq(T) /\ Len(tags[i]) \in Nat /\ Len(t) \in Nat
    OBVIOUS
  <2>2. /\ Find(t, tags[i]) \in Int
        /\ Find(t, tags[i]) >= 0 => Find(t, tags[i]) + Len(tags[i]) \in 0 .. Len(t)
    BY <2>1, FindIs
  <2>3. QED  BY <2>1, <2>2
<1>2. CASE found = {}
  <2>1. FirstFound(t, tags) = -1
    BY <1>2 DEF FirstFound
  <2>2. QED  BY <1>1, <1>2, <2>1
<1>3. CASE found # {}
  <2>1. FirstFound(t, tags) = Find(t, tags[Min(found)])
    BY <1>3 DEF FirstFound
  <2>2. Min(found) \in found
    <3>1. found \subseteq Nat
      OBVIOUS
    <3>2. QED  BY <1>3, <3>1, MinIs
  <2>3. PICK i \in DOMAIN tags : FirstFound(t, tags) = Find(t, tags[i]) /\ Find(t, tags[i]) >= 0
    BY <2>1, <2>2
  <2>4. FirstFound(t, tags) \in 0 .. Len(t)
    BY <1>1, <2>3
  <2>5. QED  BY <1>1, <2>3, <2>4
<1>4. QED  BY <1>2, <1>3

LEMMA SplitTyped ==
    ASSUME NEW S, LT \in S, NEW t \in Seq(S)
    PROVE  Split(t).reasoning \in Seq(S) /\ Split(t).content \in Seq(S)
<1> DEFINE full == FirstFound(t, ToolStartTags)
           headless == FirstFound(t, HeadlessTags)
           kept == Len(t) - TrailingPartialTagLen(t)
<1>1. full \in {-1} \cup 0 .. Len(t) /\ headless \in {-1} \cup 0 .. Len(t)
  BY StartTags, FirstFoundIs
<1>2. kept \in 0 .. Len(t)
  <2>1. TrailingPartialTagLen(t) \in 0 .. Len(t) /\ Len(t) \in Nat
    BY PartialBounded DEF TrailingPartialTagLen
  <2>2. QED  BY <2>1
<1>3. Split(t) = IF full >= 0
                 THEN [reasoning |-> Before(t, full), content |-> From(t, full)]
                 ELSE IF headless >= 0
                 THEN [reasoning |-> Before(t, headless),
                       content |-> Repaired(From(t, headless))]
                 ELSE [reasoning |-> Before(t, kept), content |-> <<>>]
  BY Zenon DEF Split
<1> HIDE DEF full, headless, kept
<1>4. CASE full >= 0
  <2>1. full \in 0 .. Len(t)
    BY <1>1, <1>4
  <2>2. QED  BY <1>3, <1>4, <2>1, Slices
<1>5. CASE ~(full >= 0) /\ headless >= 0
  <2>1. headless \in 0 .. Len(t)
    BY <1>1, <1>5
  <2>2. Before(t, headless) \in Seq(S) /\ From(t, headless) \in Seq(S)
    BY <2>1, Slices
  <2>3. Repaired(From(t, headless)) \in Seq(S)
    BY <2>2 DEF Repaired
  <2>4. QED  BY <1>3, <1>5, <2>2, <2>3
<1>6. CASE ~(full >= 0) /\ ~(headless >= 0)
  <2>1. Before(t, kept) \in Seq(S) /\ <<>> \in Seq(S)
    BY <1>2, Slices
  <2>2. QED  BY <1>3, <1>6, <2>1
<1>7. QED  BY <1>4, <1>5, <1>6

LEMMA DeltasTyped ==
    ASSUME NEW S, LT \in S, NEW t \in Seq(S), NEW u \in Seq(S)
    PROVE  StreamDeltas(t, u).reasoning \in Seq(S) /\ StreamDeltas(t, u).content \in Seq(S)
<1>1. /\ Split(t).reasoning \in Seq(S) /\ Split(t).content \in Seq(S)
      /\ Split(u).reasoning \in Seq(S) /\ Split(u).content \in Seq(S)
  BY SplitTyped
<1>2. Len(Split(t).reasoning) \in Nat /\ Len(Split(t).content) \in Nat
  BY <1>1
<1>3. From(Split(u).reasoning, Len(Split(t).reasoning)) \in Seq(S)
  <2>1. 0 \in Int /\ 0 =< Len(Split(u).reasoning)
    BY <1>1
  <2>2. QED  BY <1>1, <1>2, <2>1, SliceTyped
<1>4. From(Split(u).content, Len(Split(t).content)) \in Seq(S)
  <2>1. 0 \in Int /\ 0 =< Len(Split(u).content)
    BY <1>1
  <2>2. QED  BY <1>1, <1>2, <2>1, SliceTyped
<1>5. QED  BY <1>3, <1>4 DEF StreamDeltas

-----------------------------------------------------------------------------
(* Start tags in longer texts, in the split, and in what is filtered.      *)

\* A whole start tag is in the text.
HasTag(t) == \E i \in DOMAIN ToolStartTags : Occurrences(ToolStartTags[i], t) # {}

\* It is there, piece by piece.
TagAt(t, q) == /\ q \in Nat /\ q + 3 =< Len(t)
               /\ t[q + 1] = LT /\ t[q + 2] = DSML /\ t[q + 3] \in {CALLS, FUNCS}

LEMMA EarliestIs ==
    ASSUME NEW S, NEW t \in Seq(S)
    PROVE  /\ EarliestToolTagPos(t) \in Int
           /\ EarliestToolTagPos(t) >= 0 <=> \E i \in DOMAIN AllTags : Occurrences(AllTags[i], t) # {}
<1> DEFINE positions == {Find(t, AllTags[i]) : i \in DOMAIN AllTags} \ {-1}
<1>1. \A i \in DOMAIN AllTags :
          /\ Find(t, AllTags[i]) \in Nat \cup {-1}
          /\ Find(t, AllTags[i]) \in Nat <=> Occurrences(AllTags[i], t) # {}
  <2> TAKE i \in DOMAIN AllTags
  <2>1. AllTags[i] \in Seq(TagPieces)
    BY TagShapes
  <2>2. /\ Find(t, AllTags[i]) \in Int
        /\ Find(t, AllTags[i]) < 0 <=> Occurrences(AllTags[i], t) = {}
        /\ Find(t, AllTags[i]) < 0 <=> Find(t, AllTags[i]) = -1
    BY <2>1, FindIs
  <2>3. QED  BY <2>2
<1>2. positions \subseteq Nat
  BY <1>1
<1>3. EarliestToolTagPos(t) = IF positions = {} THEN -1 ELSE Min(positions)
  BY Zenon DEF EarliestToolTagPos
<1>4. positions # {} => Min(positions) \in Nat
  BY <1>2, MinIs
<1>5. positions # {} <=> \E i \in DOMAIN AllTags : Find(t, AllTags[i]) \in Nat
  BY <1>1, SMTT(30)
<1> HIDE DEF positions
<1>6. EarliestToolTagPos(t) \in Int /\ (EarliestToolTagPos(t) >= 0 <=> positions # {})
  BY <1>3, <1>4
<1>7. QED  BY <1>1, <1>5, <1>6

LEMMA TagIsThere ==
    ASSUME NEW S, NEW t \in Seq(S)
    PROVE  HasTag(t) <=> \E q \in Nat : TagAt(t, q)
<1>1. DOMAIN ToolStartTags = {1, 2}
  BY TagShapes
<1>2. ASSUME NEW i \in {1, 2}
      PROVE  /\ ToolStartTags[i] \in Seq(TagPieces) /\ Len(ToolStartTags[i]) = 3
             /\ ToolStartTags[i][1] = LT /\ ToolStartTags[i][2] = DSML
             /\ ToolStartTags[i][3] = IF i = 1 THEN CALLS ELSE FUNCS
  BY TagShapes
<1>3. ASSUME NEW i \in {1, 2}, NEW q \in Nat, q + 3 =< Len(t)
      PROVE  q \in Occurrences(ToolStartTags[i], t) <=>
                /\ t[q + 1] = LT /\ t[q + 2] = DSML
                /\ t[q + 3] = IF i = 1 THEN CALLS ELSE FUNCS
  <2> DEFINE tag == ToolStartTags[i]
  <2>1. /\ tag \in Seq(TagPieces) /\ Len(tag) = 3
        /\ tag[1] = LT /\ tag[2] = DSML /\ tag[3] = IF i = 1 THEN CALLS ELSE FUNCS
    BY <1>2
  <2> HIDE DEF tag
  <2>2. q \in Occurrences(tag, t) <=> \A j \in 1 .. Len(tag) : t[q + j] = tag[j]
    <3>1. tag \in Seq(TagPieces) /\ q + Len(tag) =< Len(t)
      BY <1>3, <2>1
    <3>2. QED  BY <3>1, OccursAt
  <2>3. (\A j \in 1 .. 3 : t[q + j] = tag[j]) <=>
            (t[q + 1] = tag[1] /\ t[q + 2] = tag[2] /\ t[q + 3] = tag[3])
    OBVIOUS
  <2>4. QED  BY <2>1, <2>2, <2>3 DEF tag
<1>4. ASSUME HasTag(t) PROVE \E q \in Nat : TagAt(t, q)
  <2>1. PICK i \in {1, 2} : Occurrences(ToolStartTags[i], t) # {}
    BY <1>1, <1>4 DEF HasTag
  <2>2. PICK q \in Occurrences(ToolStartTags[i], t) : TRUE
    BY <2>1
  <2>3. q \in Nat /\ q + 3 =< Len(t)
    BY <1>2, <2>2, SMTT(30) DEF Occurrences
  <2>4. QED  BY <1>3, <2>2, <2>3 DEF TagAt
<1>5. ASSUME NEW q \in Nat, TagAt(t, q) PROVE HasTag(t)
  <2>1. q + 3 =< Len(t) /\ t[q + 1] = LT /\ t[q + 2] = DSML /\ t[q + 3] \in {CALLS, FUNCS}
    BY <1>5 DEF TagAt
  <2>2. PICK i \in {1, 2} : t[q + 3] = IF i = 1 THEN CALLS ELSE FUNCS
    BY <2>1
  <2>3. q \in Occurrences(ToolStartTags[i], t)
    BY <1>3, <2>1, <2>2
  <2>4. QED  BY <1>1, <2>3 DEF HasTag
<1>6. QED  BY <1>4, <1>5

\* Appending keeps every tag where it is.
LEMMA OccursLater ==
    ASSUME NEW S, NEW t \in Seq(S), NEW u \in Seq(S), NEW T, NEW tag \in Seq(T)
    PROVE  Occurrences(tag, t) \subseteq Occurrences(tag, t \o u)
<1> SUFFICES ASSUME NEW q \in Occurrences(tag, t) PROVE q \in Occurrences(tag, t \o u)
  OBVIOUS
<1>1. q \in Nat /\ q + Len(tag) =< Len(t) /\ Len(tag) \in Nat
  BY DEF Occurrences
<1>2. /\ t \o u \in Seq(S) /\ Len(t \o u) = Len(t) + Len(u)
      /\ \A i \in 1 .. Len(t) : (t \o u)[i] = t[i]
  BY Joined
<1>3. \A i \in 1 .. Len(tag) : t[q + i] = tag[i]
  BY <1>1, OccursAt
<1> DEFINE w == t \o u
<1>4. w \in Seq(S) /\ q + Len(tag) =< Len(w)
  BY <1>1, <1>2
<1>5. \A i \in 1 .. Len(t) : w[i] = t[i]
  BY <1>2
<1> HIDE DEF w
<1>6. \A i \in 1 .. Len(tag) : w[q + i] = tag[i]
  <2> TAKE i \in 1 .. Len(tag)
  <2>1. q + i \in 1 .. Len(t)
    BY <1>1
  <2>2. QED  BY <1>3, <1>5, <2>1
<1>7. q \in Occurrences(tag, w)
  BY <1>1, <1>4, <1>6, OccursAt
<1>8. QED  BY <1>7 DEF w

LEMMA TagLater ==
    ASSUME NEW S, NEW t \in Seq(S), NEW u \in Seq(S), HasTag(t)
    PROVE  HasTag(t \o u)
<1>1. PICK i \in DOMAIN ToolStartTags : Occurrences(ToolStartTags[i], t) # {}
  BY DEF HasTag
<1>2. ToolStartTags[i] \in Seq(TagPieces)
  BY TagShapes
<1>3. QED  BY <1>1, <1>2, OccursLater DEF HasTag

LEMMA BoundaryLater ==
    ASSUME NEW S, NEW t \in Seq(S), NEW u \in Seq(S), EarliestToolTagPos(t) >= 0
    PROVE  EarliestToolTagPos(t \o u) >= 0
<1>1. t \o u \in Seq(S)
  BY ConcatProperties
<1>2. PICK i \in DOMAIN AllTags : Occurrences(AllTags[i], t) # {}
  BY EarliestIs
<1>3. AllTags[i] \in Seq(TagPieces)
  BY TagShapes
<1>4. QED  BY <1>1, <1>2, <1>3, OccursLater, EarliestIs

\* A tag that comes second is further on.
LEMMA TagFurther ==
    ASSUME NEW S, NEW t \in Seq(S), NEW u \in Seq(S), NEW q \in Nat, TagAt(u, q)
    PROVE  TagAt(t \o u, Len(t) + q)
<1> DEFINE w == t \o u
           m == Len(t)
           n == Len(u)
<1>1. /\ Len(w) = m + n /\ m \in Nat /\ n \in Nat
      /\ \A i \in 1 .. n : w[m + i] = u[i]
  BY Joined
<1>2. q + 3 =< n /\ u[q + 1] = LT /\ u[q + 2] = DSML /\ u[q + 3] \in {CALLS, FUNCS}
  BY DEF TagAt
<1> HIDE DEF w, m, n
<1>3. /\ w[m + (q + 1)] = u[q + 1] /\ w[m + (q + 2)] = u[q + 2] /\ w[m + (q + 3)] = u[q + 3]
      /\ m + (q + 1) = (m + q) + 1 /\ m + (q + 2) = (m + q) + 2 /\ m + (q + 3) = (m + q) + 3
  BY <1>1, <1>2
<1>4. m + q \in Nat /\ (m + q) + 3 =< Len(w)
  BY <1>1, <1>2, SMTT(30)
<1>5. TagAt(w, m + q)
  BY <1>2, <1>3, <1>4 DEF TagAt
<1>6. QED  BY <1>5 DEF w, m

\* Without a tag the split gives out no content; with one, content that
\* begins with a whole tag.
LEMMA SplitContent ==
    ASSUME NEW S, LT \in S, NEW t \in Seq(S)
    PROVE  /\ EarliestToolTagPos(t) < 0 => Split(t).content = <<>>
           /\ EarliestToolTagPos(t) >= 0 => TagAt(Split(t).content, 0)
<1> DEFINE full == FirstFound(t, ToolStartTags)
           headless == FirstFound(t, HeadlessTags)
           kept == Len(t) - TrailingPartialTagLen(t)
<1>1. /\ full \in {-1} \cup 0 .. Len(t) /\ headless \in {-1} \cup 0 .. Len(t)
      /\ full < 0 <=> \A i \in DOMAIN ToolStartTags : Find(t, ToolStartTags[i]) < 0
      /\ full >= 0 => \E i \in DOMAIN ToolStartTags : full = Find(t, ToolStartTags[i])
      /\ headless < 0 <=> \A i \in DOMAIN HeadlessTags : Find(t, HeadlessTags[i]) < 0
      /\ headless >= 0 => \E i \in DOMAIN HeadlessTags : headless = Find(t, HeadlessTags[i])
  BY StartTags, FirstFoundIs
<1>2. Split(t) = IF full >= 0
                 THEN [reasoning |-> Before(t, full), content |-> From(t, full)]
                 ELSE IF headless >= 0
                 THEN [reasoning |-> Before(t, headless),
                       content |-> Repaired(From(t, headless))]
                 ELSE [reasoning |-> Before(t, kept), content |-> <<>>]
  BY Zenon DEF Split
<1>3. /\ DOMAIN ToolStartTags = {1, 2} /\ DOMAIN HeadlessTags = {1, 2}
      /\ DOMAIN AllTags = {1, 2, 3, 4}
  BY TagShapes
<1>4. EarliestToolTagPos(t) >= 0 <=> full >= 0 \/ headless >= 0
  <2>1. \A i \in {1, 2, 3, 4} : Occurrences(AllTags[i], t) # {} <=> ~(Find(t, AllTags[i]) < 0)
    <3> TAKE i \in {1, 2, 3, 4}
    <3>1. AllTags[i] \in Seq(TagPieces)
      BY TagShapes
    <3>2. QED  BY <3>1, FindIs
  <2>2. EarliestToolTagPos(t) >= 0 <=> \E i \in {1, 2, 3, 4} : ~(Find(t, AllTags[i]) < 0)
    BY <1>3, <2>1, EarliestIs
  <2>3. full >= 0 <=> ~(Find(t, ToolStartTags[1]) < 0) \/ ~(Find(t, ToolStartTags[2]) < 0)
    <3>1. full >= 0 <=> ~(full < 0)
      BY <1>1
    <3>2. QED  BY <1>1, <1>3, <3>1
  <2>4. headless >= 0 <=> ~(Find(t, HeadlessTags[1]) < 0) \/ ~(Find(t, HeadlessTags[2]) < 0)
    <3>1. headless >= 0 <=> ~(headless < 0)
      BY <1>1
    <3>2. QED  BY <1>1, <1>3, <3>1
  <2>5. /\ AllTags[1] = ToolStartTags[1] /\ AllTags[2] = ToolStartTags[2]
        /\ AllTags[3] = HeadlessTags[1] /\ AllTags[4] = HeadlessTags[2]
    BY TagShapes
  <2> HIDE DEF full, headless
  <2>6. QED  BY <2>2, <2>3, <2>4, <2>5
<1> HIDE DEF full, headless, kept
<1>5. EarliestToolTagPos(t) \in Int
  BY EarliestIs
<1>6. CASE full >= 0
  <2>1. PICK i \in {1, 2} : full = Find(t, ToolStartTags[i])
    BY <1>1, <1>3, <1>6
  <2> DEFINE tag == ToolStartTags[i]
  <2>2. /\ tag \in Seq(TagPieces) /\ Len(tag) = 3
        /\ tag[1] = LT /\ tag[2] = DSML /\ tag[3] \in {CALLS, FUNCS}
    BY TagShapes
  <2> HIDE DEF tag
  <2>3. full \in Occurrences(tag, t) /\ full + 3 \in 0 .. Len(t)
    BY <1>6, <2>1, <2>2, FindIs DEF tag
  <2>4. full \in 0 .. Len(t) /\ full \in Nat /\ full + 3 =< Len(t) /\ Len(t) \in Nat
    BY <1>1, <1>6, <2>3
  <2>5. \A j \in 1 .. 3 : t[full + j] = tag[j]
    <3>1. tag \in Seq(TagPieces) /\ full + Len(tag) =< Len(t)
      BY <2>2, <2>4
    <3>2. \A j \in 1 .. Len(tag) : t[full + j] = tag[j]
      BY <2>3, <2>4, <3>1, OccursAt
    <3>3. QED  BY <2>2, <3>2
  <2>6. /\ Len(From(t, full)) = Len(t) - full
        /\ \A j \in 1 .. Len(t) - full : From(t, full)[j] = t[j + full]
    BY <2>4, Slices
  <2>7. \A j \in 1 .. 3 : From(t, full)[j] = tag[j]
    <3> TAKE j \in 1 .. 3
    <3>1. j \in 1 .. Len(t) - full /\ j + full = full + j
      BY <2>4
    <3>2. QED  BY <2>5, <2>6, <3>1
  <2>8. TagAt(From(t, full), 0)
    <3>1. /\ From(t, full)[0 + 1] = LT /\ From(t, full)[0 + 2] = DSML
          /\ From(t, full)[0 + 3] \in {CALLS, FUNCS} /\ 0 + 3 =< Len(From(t, full))
      BY <2>2, <2>4, <2>6, <2>7
    <3>2. QED  BY <3>1 DEF TagAt
  <2>9. QED  BY <1>2, <1>4, <1>5, <1>6, <2>8
<1>7. CASE ~(full >= 0) /\ headless >= 0
  <2>1. PICK i \in {1, 2} : headless = Find(t, HeadlessTags[i])
    BY <1>1, <1>3, <1>7
  <2> DEFINE tag == HeadlessTags[i]
  <2>2. /\ tag \in Seq(TagPieces) /\ Len(tag) = 2 /\ tag[1] = DSML /\ tag[2] \in {CALLS, FUNCS}
    BY TagShapes
  <2> HIDE DEF tag
  <2>3. headless \in Occurrences(tag, t) /\ headless + 2 \in 0 .. Len(t)
    BY <1>7, <2>1, <2>2, FindIs DEF tag
  <2>4. headless \in 0 .. Len(t) /\ headless \in Nat /\ headless + 2 =< Len(t) /\ Len(t) \in Nat
    BY <1>1, <1>7, <2>3
  <2>5. \A j \in 1 .. 2 : t[headless + j] = tag[j]
    <3>1. tag \in Seq(TagPieces) /\ headless + Len(tag) =< Len(t)
      BY <2>2, <2>4
    <3>2. \A j \in 1 .. Len(tag) : t[headless + j] = tag[j]
      BY <2>3, <2>4, <3>1, OccursAt
    <3>3. QED  BY <2>2, <3>2
  <2> DEFINE rest == From(t, headless)
  <2>6. /\ rest \in Seq(S) /\ Len(rest) = Len(t) - headless
        /\ \A j \in 1 .. Len(t) - headless : rest[j] = t[j + headless]
    BY <2>4, Slices
  <2> HIDE DEF rest
  <2>7. rest[1] = tag[1] /\ rest[2] = tag[2]
    <3>1. /\ 1 \in 1 .. Len(t) - headless /\ 2 \in 1 .. Len(t) - headless
          /\ 1 + headless = headless + 1 /\ 2 + headless = headless + 2
      BY <2>4
    <3>2. QED  BY <2>5, <2>6, <3>1
  <2> DEFINE one == <<LT>>
             whole == one \o rest
             n == Len(rest)
  <2>8. one \in Seq(S) /\ Len(one) = 1 /\ one[1] = LT
    OBVIOUS
  <2> HIDE DEF one
  <2>9. /\ Len(whole) = Len(one) + n /\ n \in Nat /\ n >= 2
        /\ \A j \in 1 .. Len(one) : whole[j] = one[j]
        /\ \A j \in 1 .. n : whole[Len(one) + j] = rest[j]
    <3>1. one \in Seq(S) /\ rest \in Seq(S)
      BY <2>6, <2>8
    <3>2. /\ Len(one \o rest) = Len(one) + Len(rest)
          /\ \A j \in 1 .. Len(one) : (one \o rest)[j] = one[j]
          /\ \A j \in 1 .. Len(rest) : (one \o rest)[Len(one) + j] = rest[j]
      BY <3>1, Joined
    <3>3. n \in Nat /\ n >= 2
      BY <2>4, <2>6
    <3>4. QED  BY <3>2, <3>3
  <2> HIDE DEF whole, n
  <2>10. whole[1] = LT /\ whole[2] = DSML /\ whole[3] \in {CALLS, FUNCS} /\ 3 =< Len(whole)
    <3>1. whole[1 + 1] = rest[1] /\ whole[1 + 2] = rest[2] /\ whole[1] = one[1]
      BY <2>8, <2>9
    <3>2. 3 =< Len(whole)
      BY <2>8, <2>9
    <3>3. QED  BY <2>2, <2>7, <2>8, <3>1, <3>2
  <2>11. TagAt(whole, 0)
    BY <2>10 DEF TagAt
  <2>12. Split(t).content = whole
    BY <1>2, <1>7 DEF Repaired, rest, one, whole
  <2>13. QED  BY <1>4, <1>5, <1>7, <2>11, <2>12
<1>8. CASE ~(full >= 0) /\ ~(headless >= 0)
  <2>1. Split(t).content = <<>>
    BY <1>2, <1>8
  <2>2. QED  BY <1>4, <1>8, <2>1
<1>9. QED  BY <1>6, <1>7, <1>8

-----------------------------------------------------------------------------
(* What the filter keeps.                                                  *)

\* f flattens seqs, from the empty sequence on.
Flattens(f, S, seqs) ==
    /\ f \in [0 .. Len(seqs) -> Seq(S)]
    /\ f[0] = <<>>
    /\ \A i \in 1 .. Len(seqs) : f[i] = f[i - 1] \o seqs[i]
    /\ FlattenSeq(seqs) = f[Len(seqs)]

LEMMA FlattenFrom ==
    ASSUME NEW S, NEW seqs \in Seq(Seq(S))
    PROVE  \E f : Flattens(f, S, seqs)
<1>1. Len(seqs) \in Nat /\ <<>> \in Seq(S)
  OBVIOUS
<1>2. CASE Len(seqs) = 0
  <2>1. FlattenSeq(seqs) = seqs
    BY <1>2, Zenon DEF FlattenSeq
  <2>2. seqs = <<>>
    BY <1>2
  <2> DEFINE f == [i \in 0 .. Len(seqs) |-> <<>>]
  <2>3. /\ f \in [0 .. Len(seqs) -> Seq(S)] /\ f[0] = <<>> /\ f[Len(seqs)] = <<>>
    BY <1>1, <1>2
  <2>4. \A i \in 1 .. Len(seqs) : f[i] = f[i - 1] \o seqs[i]
    BY <1>2
  <2>5. Flattens(f, S, seqs)
    BY <2>1, <2>2, <2>3, <2>4 DEF Flattens
  <2> HIDE DEF f
  <2>6. QED  BY <2>5
<1>3. CASE Len(seqs) > 0
  <2>1. PICK g : /\ g \in [1 .. Len(seqs) -> Seq(S)]
                 /\ g[1] = seqs[1]
                 /\ \A i \in 2 .. Len(seqs) : g[i] = g[i - 1] \o seqs[i]
                 /\ FlattenSeq(seqs) = g[Len(seqs)]
    BY <1>3, FlattenUnfolds
  <2> DEFINE f == [i \in 0 .. Len(seqs) |-> IF i = 0 THEN <<>> ELSE g[i]]
  <2>2. f \in [0 .. Len(seqs) -> Seq(S)] /\ f[0] = <<>> /\ f[Len(seqs)] = g[Len(seqs)]
    BY <1>1, <1>3, <2>1
  <2>3. ASSUME NEW i \in 1 .. Len(seqs) PROVE f[i] = f[i - 1] \o seqs[i]
    <3>1. CASE i = 1
      <4>1. f[i] = seqs[1] /\ f[i - 1] = <<>> /\ seqs[1] \in Seq(S)
        BY <1>3, <2>1, <3>1
      <4>2. <<>> \o seqs[1] = seqs[1]
        BY <4>1, ConcatEmptySeq
      <4>3. QED  BY <3>1, <4>1, <4>2
    <3>2. CASE i # 1
      <4>1. i \in 2 .. Len(seqs) /\ i - 1 \in 1 .. Len(seqs)
        BY <3>2
      <4>2. f[i] = g[i] /\ f[i - 1] = g[i - 1]
        BY <4>1
      <4>3. QED  BY <2>1, <4>1, <4>2
    <3>3. QED  BY <3>1, <3>2
  <2> HIDE DEF f
  <2>4. Flattens(f, S, seqs)
    BY <2>1, <2>2, <2>3 DEF Flattens
  <2>5. QED  BY <2>4
<1>4. QED  BY <1>1, <1>2, <1>3

\* What has been flattened stays at the head of the whole.
LEMMA FlattenKeeps ==
    ASSUME NEW S, NEW seqs \in Seq(Seq(S)), NEW f, Flattens(f, S, seqs),
           NEW i \in 0 .. Len(seqs)
    PROVE  /\ Len(f[i]) =< Len(f[Len(seqs)])
           /\ \A j \in 1 .. Len(f[i]) : f[Len(seqs)][j] = f[i][j]
<1> USE DEF Flattens
<1> DEFINE Holds == {n \in Nat : i + n =< Len(seqs) =>
                        /\ Len(f[i]) =< Len(f[i + n])
                        /\ \A j \in 1 .. Len(f[i]) : f[i + n][j] = f[i][j]}
<1>1. Len(seqs) \in Nat /\ i \in Nat
  OBVIOUS
<1>2. \A k \in 0 .. Len(seqs) : f[k] \in Seq(S) /\ Len(f[k]) \in Nat
  OBVIOUS
<1>3. 0 \in Holds
  BY <1>1, <1>2
<1>4. ASSUME NEW n \in Nat, n \in Holds PROVE n + 1 \in Holds
  <2> SUFFICES ASSUME i + (n + 1) =< Len(seqs)
               PROVE  /\ Len(f[i]) =< Len(f[i + (n + 1)])
                      /\ \A j \in 1 .. Len(f[i]) : f[i + (n + 1)][j] = f[i][j]
    OBVIOUS
  <2> DEFINE k == i + n
             t == f[k]
             u == seqs[k + 1]
  <2>1. k \in 0 .. Len(seqs) /\ k + 1 \in 1 .. Len(seqs) /\ (k + 1) - 1 = k
        /\ i + (n + 1) = k + 1
    BY <1>1
  <2>2. t \in Seq(S) /\ u \in Seq(S) /\ Len(f[i]) \in Nat
    BY <1>2, <2>1
  <2>3. f[k + 1] = t \o u
    BY <2>1
  <2>4. Len(f[i]) =< Len(t) /\ \A j \in 1 .. Len(f[i]) : t[j] = f[i][j]
    BY <1>1, <1>4, <2>1
  <2> HIDE DEF t, u, k
  <2>5. /\ Len(t \o u) = Len(t) + Len(u) /\ Len(t) \in Nat /\ Len(u) \in Nat
        /\ \A j \in 1 .. Len(t) : (t \o u)[j] = t[j]
    BY <2>2, Joined
  <2>6. \A j \in 1 .. Len(f[i]) : (t \o u)[j] = f[i][j]
    <3> TAKE j \in 1 .. Len(f[i])
    <3>1. j \in 1 .. Len(t)
      BY <2>2, <2>4, <2>5
    <3>2. QED  BY <2>4, <2>5, <3>1
  <2>7. Len(f[i]) =< Len(t \o u)
    BY <2>2, <2>4, <2>5
  <2>8. f[i + (n + 1)] = t \o u
    BY <2>1, <2>3
  <2>9. QED  BY <2>6, <2>7, <2>8
<1>5. Nat \subseteq Holds
  BY <1>3, <1>4, SetInduction
<1>6. Len(seqs) - i \in Nat /\ i + (Len(seqs) - i) = Len(seqs) /\ Len(seqs) =< Len(seqs)
  BY <1>1
<1>7. Len(seqs) - i \in Holds
  BY <1>5, <1>6
<1>8. QED  BY <1>6, <1>7

\* Taking close tags away leaves the start tags.
LEMMA TagKept ==
    ASSUME NEW S, NEW t \in Seq(S), NEW q \in Nat, TagAt(t, q)
    PROVE  \E m \in Nat : TagAt(WithoutClose(t), m)
<1>1. q + 3 =< Len(t) /\ t[q + 1] = LT /\ t[q + 2] = DSML /\ t[q + 3] \in {CALLS, FUNCS}
      /\ Len(t) \in Nat
  BY DEF TagAt
<1>2. ASSUME NEW p \in Occurrences(ThinkClose, t)
      PROVE  p \in Nat /\ p + 2 =< Len(t) /\ t[p + 1] = LT /\ t[p + 2] = CLOSE
  <2>1. ThinkClose \in Seq({LT, CLOSE}) /\ Len(ThinkClose) = 2
        /\ ThinkClose[1] = LT /\ ThinkClose[2] = CLOSE
    BY DEF ThinkClose
  <2>2. p \in Nat /\ p + 2 =< Len(t) /\ p + Len(ThinkClose) =< Len(t)
    BY <1>1, <2>1 DEF Occurrences
  <2>3. \A i \in 1 .. Len(ThinkClose) : t[p + i] = ThinkClose[i]
    <3>1. ThinkClose \in Seq({LT, CLOSE})
      BY <2>1
    <3>2. QED  BY <2>2, <3>1, OccursAt
  <2>4. t[p + 1] = ThinkClose[1] /\ t[p + 2] = ThinkClose[2]
    BY <2>1, <2>3
  <2>5. QED  BY <2>1, <2>2, <2>4
<1>3. ASSUME NEW i \in {1, 2, 3} PROVE q + i \in 1 .. Len(t) /\ q + i \notin Tagged(t)
  <2>1. q + i \in 1 .. Len(t)
    BY <1>1
  <2>2. ASSUME q + i \in Tagged(t) PROVE FALSE
    <3>1. PICK p \in Occurrences(ThinkClose, t) : q + i = p + 1 \/ q + i = p + 2
      BY <2>2 DEF Tagged
    <3>2. t[p + 1] = LT /\ t[p + 2] = CLOSE /\ p \in Nat
      BY <1>2
    <3>3. CASE i = 1
      <4>1. p = q \/ p + 2 = q + 1
        BY <3>1, <3>2, <3>3
      <4>2. QED  BY <1>1, <3>2, <4>1 DEF LT, DSML, CLOSE
    <3>4. CASE i = 2
      <4>1. p + 1 = q + 2 \/ p + 2 = q + 2
        BY <3>1, <3>2, <3>4
      <4>2. QED  BY <1>1, <3>2, <4>1 DEF LT, DSML, CLOSE
    <3>5. CASE i = 3
      <4>1. p + 1 = q + 3 \/ p + 2 = q + 3
        BY <3>1, <3>2, <3>5
      <4>2. QED  BY <1>1, <3>2, <4>1 DEF LT, CALLS, FUNCS, CLOSE
    <3>6. QED  BY <3>3, <3>4, <3>5
  <2>3. QED  BY <2>1, <2>2
<1> DEFINE seqs == Kept(t)
<1>4. seqs \in Seq(Seq(S)) /\ Len(seqs) = Len(t) /\ WithoutClose(t) = FlattenSeq(seqs)
  BY WithoutCloseTyped
<1>5. \A i \in {1, 2, 3} : seqs[q + i] = <<t[q + i]>>
  <2> TAKE i \in {1, 2, 3}
  <2>1. q + i \in DOMAIN t /\ q + i \notin Tagged(t)
    BY <1>3
  <2>2. QED  BY <2>1 DEF Kept
<1> HIDE DEF seqs
<1>6. PICK f : Flattens(f, S, seqs)
  BY <1>4, FlattenFrom
<1>7. ASSUME NEW i \in {1, 2, 3}
      PROVE  /\ Len(f[q + i]) = Len(f[(q + i) - 1]) + 1
             /\ Len(f[(q + i) - 1]) \in Nat
             /\ f[q + i][Len(f[(q + i) - 1]) + 1] = t[q + i]
  <2> DEFINE k == q + i
             u == f[k - 1]
             one == <<t[k]>>
  <2>1. k \in 1 .. Len(seqs) /\ k - 1 \in 0 .. Len(seqs) /\ k \in 1 .. Len(t)
    BY <1>3, <1>4
  <2>2. u \in Seq(S) /\ t[k] \in S
    <3>1. \A j \in 0 .. Len(seqs) : f[j] \in Seq(S)
      BY <1>6 DEF Flattens
    <3>2. \A j \in 1 .. Len(t) : t[j] \in S
      OBVIOUS
    <3>3. QED  BY <2>1, <3>1, <3>2
  <2>3. one \in Seq(S) /\ Len(one) = 1 /\ one[1] = t[k]
    BY <2>2
  <2>4. f[k] = u \o one
    BY <1>5, <1>6, <2>1 DEF Flattens
  <2> HIDE DEF u, one, k
  <2>5. one \in Seq(S)
    BY <2>3
  <2>6. /\ Len(u \o one) = Len(u) + Len(one)
        /\ \A j \in 1 .. Len(one) : (u \o one)[Len(u) + j] = one[j]
    BY <2>2, <2>5, Joined
  <2>7. /\ Len(f[k]) = Len(u) + 1 /\ Len(u) \in Nat /\ f[k][Len(u) + 1] = t[k]
    BY <2>2, <2>3, <2>4, <2>6
  <2>8. QED  BY <2>7 DEF u, k
<1> DEFINE whole == f[Len(seqs)]
           m == Len(f[q])
<1>8. /\ m \in Nat
      /\ Len(f[q + 1]) = m + 1 /\ f[q + 1][m + 1] = LT
      /\ Len(f[q + 2]) = m + 2 /\ f[q + 2][m + 2] = DSML
      /\ Len(f[q + 3]) = m + 3 /\ f[q + 3][m + 3] \in {CALLS, FUNCS}
  <2>1. (q + 1) - 1 = q /\ (q + 2) - 1 = q + 1 /\ (q + 3) - 1 = q + 2
    OBVIOUS
  <2>2. /\ Len(f[q + 1]) = Len(f[(q + 1) - 1]) + 1 /\ Len(f[(q + 1) - 1]) \in Nat
        /\ f[q + 1][Len(f[(q + 1) - 1]) + 1] = t[q + 1]
    BY <1>7
  <2>3. /\ Len(f[q + 2]) = Len(f[(q + 2) - 1]) + 1
        /\ f[q + 2][Len(f[(q + 2) - 1]) + 1] = t[q + 2]
    BY <1>7
  <2>4. /\ Len(f[q + 3]) = Len(f[(q + 3) - 1]) + 1
        /\ f[q + 3][Len(f[(q + 3) - 1]) + 1] = t[q + 3]
    BY <1>7
  <2>5. m \in Nat /\ Len(f[q + 1]) = m + 1 /\ f[q + 1][m + 1] = LT
    BY <1>1, <2>1, <2>2
  <2> HIDE DEF m
  <2>6. Len(f[q + 2]) = m + 2 /\ f[q + 2][m + 2] = DSML
    <3>1. Len(f[q + 1]) + 1 = m + 2
      BY <2>5
    <3>2. QED  BY <1>1, <2>1, <2>3, <3>1
  <2>7. Len(f[q + 3]) = m + 3 /\ f[q + 3][m + 3] \in {CALLS, FUNCS}
    <3>1. Len(f[q + 2]) + 1 = m + 3
      BY <2>5, <2>6
    <3>2. QED  BY <1>1, <2>1, <2>4, <3>1
  <2>8. QED  BY <2>5, <2>6, <2>7
<1> HIDE DEF m
<1>9. \A i \in {1, 2, 3} : /\ Len(f[q + i]) =< Len(whole)
                            /\ \A j \in 1 .. Len(f[q + i]) : whole[j] = f[q + i][j]
  <2>1. seqs \in Seq(Seq(S)) /\ Flattens(f, S, seqs)
    BY <1>4, <1>6
  <2>2. \A k \in 0 .. Len(seqs) : /\ Len(f[k]) =< Len(f[Len(seqs)])
                                 /\ \A j \in 1 .. Len(f[k]) : f[Len(seqs)][j] = f[k][j]
    BY <2>1, FlattenKeeps
  <2>3. \A i \in {1, 2, 3} : q + i \in 0 .. Len(seqs)
    BY <1>3, <1>4
  <2>4. QED  BY <2>2, <2>3
<1> HIDE DEF whole
<1>10. /\ m + 3 =< Len(whole)
       /\ whole[m + 1] = LT /\ whole[m + 2] = DSML /\ whole[m + 3] \in {CALLS, FUNCS}
  <2>1. whole[m + 1] = f[q + 1][m + 1]
    <3>1. m + 1 \in 1 .. Len(f[q + 1])
      BY <1>8
    <3>2. QED  BY <1>9, <3>1
  <2>2. whole[m + 2] = f[q + 2][m + 2]
    <3>1. m + 2 \in 1 .. Len(f[q + 2])
      BY <1>8
    <3>2. QED  BY <1>9, <3>1
  <2>3. whole[m + 3] = f[q + 3][m + 3] /\ m + 3 =< Len(whole)
    <3>1. m + 3 \in 1 .. Len(f[q + 3])
      BY <1>8
    <3>2. Len(f[q + 3]) =< Len(whole)
      BY <1>9
    <3>3. QED  BY <1>8, <1>9, <3>1, <3>2
  <2>4. QED  BY <1>8, <2>1, <2>2, <2>3
<1>11. TagAt(whole, m)
  BY <1>8, <1>10 DEF TagAt
<1>12. WithoutClose(t) = whole
  BY <1>4, <1>6 DEF whole, Flattens
<1>13. QED  BY <1>8, <1>11, <1>12

\* The last piece that may be withheld is not the end of a start tag.
LEMMA FilterKeepsTag ==
    ASSUME NEW S, NEW held \in Seq(S), NEW new \in Seq(S), NEW q \in Nat, TagAt(new, q)
    PROVE  HasTag(FilterThinkClose(held, new).emit)
<1> DEFINE joined == held \o new
           buf == WithoutClose(joined)
           kept == Len(buf) - TrailingPartial(buf, <<ThinkClose>>)
<1>1. joined \in Seq(S) /\ Len(held) \in Nat
  BY ConcatProperties
<1>2. TagAt(joined, Len(held) + q) /\ Len(held) + q \in Nat
  BY <1>1, TagFurther
<1>3. FilterThinkClose(held, new).emit = Before(buf, kept)
  BY DEF FilterThinkClose
<1> HIDE DEF joined
<1>4. buf \in Seq(S) /\ Len(buf) \in Nat
  BY <1>1, WithoutCloseTyped
<1>5. PICK m \in Nat : TagAt(buf, m)
  BY <1>1, <1>2, TagKept
<1> HIDE DEF buf
<1>6. m + 3 =< Len(buf) /\ buf[m + 1] = LT /\ buf[m + 2] = DSML /\ buf[m + 3] \in {CALLS, FUNCS}
  BY <1>5 DEF TagAt
<1>7. kept \in 0 .. Len(buf) /\ m + 3 =< kept
  <2>1. /\ TrailingPartial(buf, <<ThinkClose>>) \in {0, 1}
        /\ TrailingPartial(buf, <<ThinkClose>>) = 1 => buf[Len(buf)] = LT
    BY <1>4, PartialClose
  <2>2. CASE TrailingPartial(buf, <<ThinkClose>>) = 0
    BY <1>4, <1>6, <2>2
  <2>3. CASE TrailingPartial(buf, <<ThinkClose>>) = 1
    <3>1. buf[Len(buf)] = LT
      BY <2>1, <2>3
    <3>2. m + 3 # Len(buf)
      BY <1>6, <3>1 DEF LT, CALLS, FUNCS
    <3>3. QED  BY <1>4, <1>6, <2>3, <3>2
  <2>4. QED  BY <2>1, <2>2, <2>3
<1> HIDE DEF kept
<1> DEFINE emit == Before(buf, kept)
<1>8. /\ emit \in Seq(S) /\ Len(emit) = kept
      /\ \A i \in 1 .. kept : emit[i] = buf[i]
  BY <1>4, <1>7, Slices
<1>9. m + 1 \in 1 .. kept /\ m + 2 \in 1 .. kept /\ m + 3 \in 1 .. kept
  BY <1>4, <1>7
<1> HIDE DEF emit
<1>10. TagAt(emit, m)
  BY <1>6, <1>7, <1>8, <1>9 DEF TagAt
<1>11. HasTag(emit)
  BY <1>8, <1>10, TagIsThere
<1>12. QED  BY <1>3, <1>11 DEF emit

-----------------------------------------------------------------------------
(* Where tags are, and what may become one.                                *)
\* The pieces of the tags are not mistaken for each other.
LEMMA PiecesDiffer ==
    /\ LT # DSML /\ LT # CALLS /\ LT # FUNCS /\ LT # CLOSE
    /\ DSML # CALLS /\ DSML # FUNCS /\ DSML # CLOSE
    /\ CALLS # FUNCS /\ CALLS # CLOSE /\ FUNCS # CLOSE
BY DEF LT, DSML, CALLS, FUNCS, CLOSE

\* Two elements of a set of one are the same.
LEMMA AtMostOne ==
    ASSUME NEW S, IsFiniteSet(S), Cardinality(S) =< 1, NEW x \in S, NEW y \in S
    PROVE  x = y
<1> SUFFICES ASSUME x # y PROVE FALSE
  OBVIOUS
<1>1. IsFiniteSet(S \ {x}) /\ Cardinality(S \ {x}) = Cardinality(S) - 1
  BY FS_RemoveElement
<1>2. Cardinality(S) \in Nat /\ Cardinality(S \ {x}) \in Nat
  BY <1>1, FS_CardinalityType
<1>3. Cardinality(S \ {x}) = 0
  BY <1>1, <1>2
<1>4. S \ {x} = {}
  BY <1>1, <1>3, FS_EmptySet
<1>5. QED  BY <1>4

\* A suffix, piece by piece.
LEMMA SuffixIs ==
    ASSUME NEW S, NEW s \in Seq(S), NEW t \in Seq(S)
    PROVE  IsSuffix(s, t) <=> /\ Len(s) =< Len(t)
                              /\ \A i \in 1 .. Len(s) : s[i] = t[(Len(t) - Len(s)) + i]
<1> DEFINE m == Len(s)
           n == Len(t)
           r == Reverse(s)
           q == Reverse(t)
<1>1. /\ r \in Seq(S) /\ Len(r) = m /\ \A i \in 1 .. m : r[i] = s[(m - i) + 1]
      /\ q \in Seq(S) /\ Len(q) = n /\ \A i \in 1 .. n : q[i] = t[(n - i) + 1]
      /\ m \in Nat /\ n \in Nat
  BY DEF Reverse
<1>2. IsSuffix(s, t) <=> m =< n /\ SubSeq(r, 1, m) = SubSeq(q, 1, m)
  BY <1>1 DEF IsSuffix, IsPrefix
<1> HIDE DEF r, q, m, n
<1> SUFFICES ASSUME m =< n
             PROVE  SubSeq(r, 1, m) = SubSeq(q, 1, m) <=> \A i \in 1 .. m : s[i] = t[(n - m) + i]
  BY <1>2 DEF m, n
<1>3. /\ SubSeq(r, 1, m) \in Seq(S) /\ Len(SubSeq(r, 1, m)) = m
      /\ \A i \in 1 .. m : SubSeq(r, 1, m)[i] = r[i]
  BY <1>1
<1>4. /\ SubSeq(q, 1, m) \in Seq(S) /\ Len(SubSeq(q, 1, m)) = m
      /\ \A i \in 1 .. m : SubSeq(q, 1, m)[i] = q[i]
  BY <1>1
<1>5. SubSeq(r, 1, m) = SubSeq(q, 1, m) <=> \A i \in 1 .. m : r[i] = q[i]
  <2>1. ASSUME \A i \in 1 .. m : r[i] = q[i] PROVE SubSeq(r, 1, m) = SubSeq(q, 1, m)
    BY <1>3, <1>4, <2>1, SameSequence
  <2>2. ASSUME SubSeq(r, 1, m) = SubSeq(q, 1, m) PROVE \A i \in 1 .. m : r[i] = q[i]
    BY <1>3, <1>4, <2>2
  <2>3. QED  BY <2>1, <2>2
<1>6. ASSUME NEW i \in 1 .. m
      PROVE  /\ (m - i) + 1 \in 1 .. m /\ (m - ((m - i) + 1)) + 1 = i
             /\ (n - i) + 1 = (n - m) + ((m - i) + 1)
             /\ r[i] = s[(m - i) + 1] /\ q[i] = t[(n - m) + ((m - i) + 1)]
  <2>1. (m - i) + 1 \in 1 .. m /\ (m - ((m - i) + 1)) + 1 = i
        /\ (n - i) + 1 = (n - m) + ((m - i) + 1) /\ i \in 1 .. n
    BY <1>1
  <2>2. QED  BY <1>1, <2>1
<1>7. ASSUME \A i \in 1 .. m : s[i] = t[(n - m) + i] PROVE \A i \in 1 .. m : r[i] = q[i]
  BY <1>6, <1>7
<1>8. ASSUME \A i \in 1 .. m : r[i] = q[i], NEW i \in 1 .. m PROVE s[i] = t[(n - m) + i]
  <2> DEFINE j == (m - i) + 1
  <2>1. j \in 1 .. m /\ (m - j) + 1 = i
    BY <1>6
  <2> HIDE DEF j
  <2>2. r[j] = s[(m - j) + 1] /\ q[j] = t[(n - m) + ((m - j) + 1)]
    BY <1>6, <2>1
  <2>3. QED  BY <1>8, <2>1, <2>2
<1>9. QED  BY <1>5, <1>7, <1>8

\* So the pieces of a suffix are the last of the text.
LEMMA SuffixPieces ==
    ASSUME NEW S, NEW s \in Seq(S), NEW t \in Seq(S), IsSuffix(s, t)
    PROVE  Len(s) =< Len(t) /\ \A i \in 1 .. Len(s) : s[i] = t[(Len(t) - Len(s)) + i]
BY SuffixIs, SMTT(30)

\* What is withheld of a text is a last "<", or a last marker with the "<"
\* before it if it has one.
LEMMA HeldIs ==
    ASSUME NEW S, NEW t \in Seq(S)
    PROVE  LET n == Len(t)
           IN  TrailingPartialTagLen(t) =
                 IF n = 0 THEN 0
                 ELSE IF t[n] = LT THEN 1
                 ELSE IF t[n] # DSML THEN 0
                 ELSE IF n > 1 /\ t[n - 1] = LT THEN 2 ELSE 1
<1> DEFINE n == Len(t)
           ends == {k \in 1 .. n : \E i \in DOMAIN AllTags :
                      k < Len(AllTags[i]) /\ IsSuffix(Before(AllTags[i], k), t)}
           all == S \cup TagPieces
<1>1. n \in Nat /\ t \in Seq(all)
  <2>1. S \subseteq all
    OBVIOUS
  <2>2. QED  BY <2>1
<1>2. ASSUME NEW i \in {1, 2, 3, 4}, NEW k \in 1 .. n, k < Len(AllTags[i])
      PROVE  IsSuffix(Before(AllTags[i], k), t)
               <=> \A j \in 1 .. k : AllTags[i][j] = t[(n - k) + j]
  <2> DEFINE tag == AllTags[i]
             cut == Before(tag, k)
  <2>1. tag \in Seq(TagPieces) /\ Len(tag) \in Nat /\ k \in 0 .. Len(tag)
    <3>1. tag \in Seq(TagPieces)
      BY TagShapes
    <3>2. Len(tag) \in Nat
      BY <3>1
    <3>3. QED  BY <1>2, <3>1, <3>2
  <2> HIDE DEF tag
  <2>2. cut \in Seq(TagPieces) /\ Len(cut) = k /\ \A j \in 1 .. k : cut[j] = tag[j]
    BY <2>1, Slices
  <2> HIDE DEF cut
  <2>3. cut \in Seq(all)
    <3>1. TagPieces \subseteq all
      OBVIOUS
    <3>2. QED  BY <2>2, <3>1
  <2> HIDE DEF all, n
  <2>4. IsSuffix(cut, t) <=> /\ k =< n
                            /\ \A j \in 1 .. k : cut[j] = t[(n - k) + j]
    <3>1. cut \in Seq(all) /\ t \in Seq(all)
      BY <1>1, <2>3
    <3>2. IsSuffix(cut, t) <=> /\ Len(cut) =< Len(t)
                               /\ \A j \in 1 .. Len(cut) :
                                    cut[j] = t[(Len(t) - Len(cut)) + j]
      BY <3>1, SuffixIs
    <3>3. QED  BY <2>2, <3>2 DEF n
  <2>5. k =< n
    BY <1>1
  <2>6. IsSuffix(cut, t) <=> \A j \in 1 .. k : tag[j] = t[(n - k) + j]
    BY <2>2, <2>4, <2>5
  <2>7. QED  BY <2>6 DEF cut, tag
<1>3. /\ DOMAIN AllTags = {1, 2, 3, 4}
      /\ Len(AllTags[1]) = 3 /\ Len(AllTags[2]) = 3 /\ Len(AllTags[3]) = 2 /\ Len(AllTags[4]) = 2
      /\ AllTags[1][1] = LT /\ AllTags[2][1] = LT /\ AllTags[1][2] = DSML /\ AllTags[2][2] = DSML
      /\ AllTags[3][1] = DSML /\ AllTags[4][1] = DSML
  BY TagShapes
<1> DEFINE size(i) == Len(AllTags[i])
           match(i, k) == \A j \in 1 .. k : AllTags[i][j] = t[(n - k) + j]
<1>4. ASSUME NEW k \in 1 .. n
      PROVE  k \in ends <=> \/ k = 1 /\ t[n] \in {LT, DSML}
                            \/ k = 2 /\ t[n - 1] = LT /\ t[n] = DSML
  <2>1. k \in ends <=> \E i \in {1, 2, 3, 4} : k < size(i) /\ match(i, k)
    BY <1>2, <1>3
  <2>2. size(1) = 3 /\ size(2) = 3 /\ size(3) = 2 /\ size(4) = 2
    BY <1>3
  <2> HIDE DEF ends, n, size
  <2>3. /\ match(1, 1) <=> t[n] = LT
        /\ match(2, 1) <=> t[n] = LT
        /\ match(3, 1) <=> t[n] = DSML
        /\ match(4, 1) <=> t[n] = DSML
    <3>1. (n - 1) + 1 = n
      BY <1>1
    <3>2. \A i \in {1, 2, 3, 4} : match(i, 1) <=> AllTags[i][1] = t[n]
      BY <3>1
    <3> HIDE DEF match
    <3>3. QED  BY <1>3, <3>2
  <2>4. /\ match(1, 2) <=> t[n - 1] = LT /\ t[n] = DSML
        /\ match(2, 2) <=> t[n - 1] = LT /\ t[n] = DSML
    <3>1. (n - 2) + 1 = n - 1 /\ (n - 2) + 2 = n /\ 1 .. 2 = {1, 2}
      BY <1>1
    <3>2. \A i \in {1, 2} : match(i, 2) <=> AllTags[i][1] = t[n - 1] /\ AllTags[i][2] = t[n]
      BY <3>1
    <3> HIDE DEF match
    <3>3. QED  BY <1>3, <3>2
  <2> HIDE DEF match
  <2>5. k \in Nat /\ (k < 2 <=> k = 1) /\ (k < 3 <=> k = 1 \/ k = 2)
    BY <1>1
  <2>6. k \in ends <=> \/ k = 1 /\ (match(1, k) \/ match(2, k) \/ match(3, k) \/ match(4, k))
                       \/ k = 2 /\ (match(1, k) \/ match(2, k))
    BY <2>1, <2>2, <2>5
  <2>7. QED  BY <2>3, <2>4, <2>6
<1>5. TrailingPartialTagLen(t) = Max({0} \cup ends)
  BY DEF TrailingPartialTagLen, TrailingPartial
<1>6. {0} \cup ends \subseteq 0 .. n /\ {0} \cup ends # {} /\ ends \subseteq 1 .. n
  OBVIOUS
<1> HIDE DEF ends
<1> DEFINE top == Max({0} \cup ends)
<1>7. top \in {0} \cup ends /\ \A y \in {0} \cup ends : top >= y
  BY <1>1, <1>6, MaxIs
<1> HIDE DEF top, n
<1>8. top = IF n = 0 THEN 0
            ELSE IF t[n] = LT THEN 1
            ELSE IF t[n] # DSML THEN 0
            ELSE IF n > 1 /\ t[n - 1] = LT THEN 2 ELSE 1
  <2>1. CASE n = 0
    BY <1>6, <1>7, <2>1
  <2>2. CASE n > 0 /\ t[n] = LT
    <3>1. 1 \in ends /\ \A k \in ends : k = 1
      BY <1>1, <1>4, <1>6, <2>2, PiecesDiffer
    <3>2. QED  BY <1>1, <1>7, <2>2, <3>1
  <2>3. CASE n > 0 /\ t[n] # LT /\ t[n] # DSML
    <3>1. ends = {}
      BY <1>1, <1>4, <1>6, <2>3
    <3>2. QED  BY <1>1, <1>7, <2>3, <3>1
  <2>4. CASE n > 0 /\ t[n] = DSML
    <3>1. 1 \in ends /\ t[n] # LT
      BY <1>1, <1>4, <2>4, PiecesDiffer
    <3>2. CASE n > 1 /\ t[n - 1] = LT
      <4>1. 2 \in ends /\ \A k \in ends : k = 1 \/ k = 2
        BY <1>1, <1>4, <1>6, <2>4, <3>2
      <4>2. top = 2
        BY <1>1, <1>6, <1>7, <4>1
      <4>3. QED  BY <1>1, <2>4, <3>1, <3>2, <4>2
    <3>3. CASE ~(n > 1 /\ t[n - 1] = LT)
      <4>1. \A k \in ends : k = 1
        BY <1>1, <1>4, <1>6, <2>4, <3>3
      <4>2. top = 1
        BY <1>1, <1>6, <1>7, <3>1, <4>1
      <4>3. QED  BY <1>1, <2>4, <3>1, <3>3, <4>2
    <3>4. QED  BY <3>2, <3>3
  <2>5. QED  BY <1>1, <2>1, <2>2, <2>3, <2>4
<1>9. QED  BY <1>5, <1>8 DEF top, n

\* Where a tag of the four is, by the place of its marker.
LEMMA TagOccurs ==
    ASSUME NEW S, NEW t \in Seq(S), NEW i \in {1, 2}, NEW q
    PROVE  /\ q \in Occurrences(ToolStartTags[i], t) <=>
                /\ q \in Nat /\ q + 3 =< Len(t)
                /\ t[q + 1] = LT /\ t[q + 2] = DSML
                /\ t[q + 3] = IF i = 1 THEN CALLS ELSE FUNCS
           /\ q \in Occurrences(HeadlessTags[i], t) <=>
                /\ q \in Nat /\ q + 2 =< Len(t)
                /\ t[q + 1] = DSML
                /\ t[q + 2] = IF i = 1 THEN CALLS ELSE FUNCS
<1>1. /\ ToolStartTags[i] \in Seq(TagPieces) /\ Len(ToolStartTags[i]) = 3
      /\ ToolStartTags[i][1] = LT /\ ToolStartTags[i][2] = DSML
      /\ ToolStartTags[i][3] = IF i = 1 THEN CALLS ELSE FUNCS
      /\ HeadlessTags[i] \in Seq(TagPieces) /\ Len(HeadlessTags[i]) = 2
      /\ HeadlessTags[i][1] = DSML
      /\ HeadlessTags[i][2] = IF i = 1 THEN CALLS ELSE FUNCS
  BY TagShapes
<1> DEFINE tag == ToolStartTags[i]
           less == HeadlessTags[i]
           last == IF i = 1 THEN CALLS ELSE FUNCS
<1>2. /\ tag \in Seq(TagPieces) /\ Len(tag) = 3
      /\ tag[1] = LT /\ tag[2] = DSML /\ tag[3] = last
      /\ less \in Seq(TagPieces) /\ Len(less) = 2 /\ less[1] = DSML /\ less[2] = last
  BY <1>1
<1> HIDE DEF tag, less, last
<1>3. Len(t) \in Nat
  OBVIOUS
<1>4. q \in Occurrences(tag, t) => q \in Nat /\ q + 3 =< Len(t)
  BY <1>2, <1>3 DEF Occurrences
<1>5. q \in Occurrences(less, t) => q \in Nat /\ q + 2 =< Len(t)
  BY <1>2, <1>3 DEF Occurrences
<1>6. ASSUME q \in Nat, q + 3 =< Len(t)
      PROVE  q \in Occurrences(tag, t) <=> t[q + 1] = LT /\ t[q + 2] = DSML /\ t[q + 3] = last
  <2>1. q \in Occurrences(tag, t) <=> \A j \in 1 .. 3 : t[q + j] = tag[j]
    <3>1. q + Len(tag) =< Len(t) /\ tag \in Seq(TagPieces)
      BY <1>2, <1>6
    <3>2. q \in Occurrences(tag, t) <=> \A j \in 1 .. Len(tag) : t[q + j] = tag[j]
      BY <1>6, <3>1, OccursAt
    <3>3. QED  BY <1>2, <3>2
  <2>2. 1 .. 3 = {1, 2, 3}
    OBVIOUS
  <2>3. (\A j \in {1, 2, 3} : t[q + j] = tag[j])
            <=> t[q + 1] = tag[1] /\ t[q + 2] = tag[2] /\ t[q + 3] = tag[3]
    OBVIOUS
  <2>4. q \in Occurrences(tag, t)
            <=> t[q + 1] = tag[1] /\ t[q + 2] = tag[2] /\ t[q + 3] = tag[3]
    BY <2>1, <2>2, <2>3
  <2>5. tag[1] = LT /\ tag[2] = DSML /\ tag[3] = last
    BY <1>2
  <2>6. QED  BY <2>4, <2>5
<1>7. ASSUME q \in Nat, q + 2 =< Len(t)
      PROVE  q \in Occurrences(less, t) <=> t[q + 1] = DSML /\ t[q + 2] = last
  <2>1. q \in Occurrences(less, t) <=> \A j \in 1 .. 2 : t[q + j] = less[j]
    <3>1. q + Len(less) =< Len(t) /\ less \in Seq(TagPieces)
      BY <1>2, <1>7
    <3>2. q \in Occurrences(less, t) <=> \A j \in 1 .. Len(less) : t[q + j] = less[j]
      BY <1>7, <3>1, OccursAt
    <3>3. QED  BY <1>2, <3>2
  <2>2. 1 .. 2 = {1, 2}
    OBVIOUS
  <2>3. (\A j \in {1, 2} : t[q + j] = less[j]) <=> t[q + 1] = less[1] /\ t[q + 2] = less[2]
    OBVIOUS
  <2>4. q \in Occurrences(less, t) <=> t[q + 1] = less[1] /\ t[q + 2] = less[2]
    BY <2>1, <2>2, <2>3
  <2>5. less[1] = DSML /\ less[2] = last
    BY <1>2
  <2>6. QED  BY <2>4, <2>5
<1>8. /\ q \in Occurrences(tag, t) <=>
           /\ q \in Nat /\ q + 3 =< Len(t)
           /\ t[q + 1] = LT /\ t[q + 2] = DSML /\ t[q + 3] = last
      /\ q \in Occurrences(less, t) <=>
           /\ q \in Nat /\ q + 2 =< Len(t)
           /\ t[q + 1] = DSML /\ t[q + 2] = last
  BY <1>4, <1>5, <1>6, <1>7
<1>9. QED  BY <1>8 DEF tag, less, last

\* The earliest tag is where one of the four is found, and none before.
LEMMA EarliestOf ==
    ASSUME NEW S, NEW t \in Seq(S), EarliestToolTagPos(t) >= 0
    PROVE  /\ \E i \in DOMAIN AllTags : EarliestToolTagPos(t) = Find(t, AllTags[i])
           /\ \A i \in DOMAIN AllTags :
                Find(t, AllTags[i]) >= 0 => EarliestToolTagPos(t) =< Find(t, AllTags[i])
<1> DEFINE positions == {Find(t, AllTags[i]) : i \in DOMAIN AllTags} \ {-1}
<1>1. \A i \in DOMAIN AllTags :
          /\ Find(t, AllTags[i]) \in Nat \cup {-1}
          /\ Find(t, AllTags[i]) >= 0 => Find(t, AllTags[i]) \in positions
  <2> TAKE i \in DOMAIN AllTags
  <2>1. AllTags[i] \in Seq(TagPieces)
    BY TagShapes
  <2>2. /\ Find(t, AllTags[i]) \in Int
        /\ Find(t, AllTags[i]) < 0 <=> Find(t, AllTags[i]) = -1
    BY <2>1, FindIs
  <2>3. QED  BY <2>2
<1>2. positions \subseteq Nat
  BY <1>1
<1>3. EarliestToolTagPos(t) = IF positions = {} THEN -1 ELSE Min(positions)
  BY Zenon DEF EarliestToolTagPos
<1>4. positions # {}
  BY <1>3
<1>5. \A y \in positions : \E i \in DOMAIN AllTags : y = Find(t, AllTags[i])
  OBVIOUS
<1> HIDE DEF positions
<1>6. Min(positions) \in positions /\ \A y \in positions : Min(positions) =< y
  BY <1>2, <1>4, MinIs
<1>7. EarliestToolTagPos(t) = Min(positions)
  BY <1>3, <1>4
<1>8. QED  BY <1>1, <1>5, <1>6, <1>7

\* Without a marker that opens a tag there is no tag.
LEMMA NoTagThere ==
    ASSUME NEW S, NEW t \in Seq(S),
           \A d \in 1 .. Len(t) - 1 : t[d] # DSML \/ t[d + 1] \notin {CALLS, FUNCS}
    PROVE  EarliestToolTagPos(t) = -1
<1>1. ASSUME NEW i \in {1, 2}
      PROVE  Occurrences(ToolStartTags[i], t) = {} /\ Occurrences(HeadlessTags[i], t) = {}
  <2>1. ASSUME NEW q \in Occurrences(ToolStartTags[i], t) PROVE FALSE
    <3>1. /\ q \in Nat /\ q + 3 =< Len(t) /\ t[q + 2] = DSML /\ t[q + 3] \in {CALLS, FUNCS}
      BY TagOccurs
    <3>2. q + 2 \in 1 .. Len(t) - 1 /\ (q + 2) + 1 = q + 3
      BY <3>1
    <3>3. QED  BY <3>1, <3>2
  <2>2. ASSUME NEW q \in Occurrences(HeadlessTags[i], t) PROVE FALSE
    <3>1. /\ q \in Nat /\ q + 2 =< Len(t) /\ t[q + 1] = DSML /\ t[q + 2] \in {CALLS, FUNCS}
      BY TagOccurs
    <3>2. q + 1 \in 1 .. Len(t) - 1 /\ (q + 1) + 1 = q + 2
      BY <3>1
    <3>3. QED  BY <3>1, <3>2
  <2>3. QED  BY <2>1, <2>2
<1>2. \A i \in DOMAIN AllTags : Occurrences(AllTags[i], t) = {}
  <2>1. /\ DOMAIN AllTags = {1, 2, 3, 4}
        /\ AllTags[1] = ToolStartTags[1] /\ AllTags[2] = ToolStartTags[2]
        /\ AllTags[3] = HeadlessTags[1] /\ AllTags[4] = HeadlessTags[2]
    BY TagShapes
  <2>2. QED  BY <1>1, <2>1
<1>3. EarliestToolTagPos(t) \in Int /\ ~(EarliestToolTagPos(t) >= 0)
  BY <1>2, EarliestIs
<1> DEFINE positions == {Find(t, AllTags[i]) : i \in DOMAIN AllTags} \ {-1}
<1>4. EarliestToolTagPos(t) = IF positions = {} THEN -1 ELSE Min(positions)
  BY Zenon DEF EarliestToolTagPos
<1>5. \A i \in DOMAIN AllTags : Find(t, AllTags[i]) = -1
  BY <1>2, Zenon DEF Find
<1>6. QED  BY <1>4, <1>5

\* Where close tags are.
LEMMA CloseOccurs ==
    ASSUME NEW S, NEW t \in Seq(S), NEW p
    PROVE  p \in Occurrences(ThinkClose, t) <=>
             p \in Nat /\ p + 2 =< Len(t) /\ t[p + 1] = LT /\ t[p + 2] = CLOSE
<1> DEFINE tag == ThinkClose
<1>1. tag \in Seq({LT, CLOSE}) /\ Len(tag) = 2 /\ tag[1] = LT /\ tag[2] = CLOSE
      /\ Len(t) \in Nat
  BY DEF ThinkClose
<1> HIDE DEF tag
<1>2. p \in Occurrences(tag, t) => p \in Nat /\ p + 2 =< Len(t)
  BY <1>1 DEF Occurrences
<1>3. ASSUME p \in Nat, p + 2 =< Len(t)
      PROVE  p \in Occurrences(tag, t) <=> t[p + 1] = LT /\ t[p + 2] = CLOSE
  <2>1. p + Len(tag) =< Len(t) /\ tag \in Seq({LT, CLOSE})
    BY <1>1, <1>3
  <2>2. p \in Occurrences(tag, t) <=> \A j \in 1 .. Len(tag) : t[p + j] = tag[j]
    BY <1>3, <2>1, OccursAt
  <2>3. 1 .. Len(tag) = {1, 2}
    BY <1>1
  <2>4. p \in Occurrences(tag, t) <=> t[p + 1] = tag[1] /\ t[p + 2] = tag[2]
    BY <2>2, <2>3
  <2>5. QED  BY <1>1, <2>4
<1>4. QED  BY <1>2, <1>3 DEF tag

-----------------------------------------------------------------------------
(* The split of a text with one tag, or with none.                         *)
\* The place of the tag whose marker is at d: its "<" may have been dropped.
Headed(t, d) == d > 1 /\ t[d - 1] = LT

PlaceOf(t, d) == IF Headed(t, d) THEN d - 2 ELSE d - 1

\* With one marker, and that of a tag, the text is split before it.
LEMMA SplitAtTag ==
    ASSUME NEW S, NEW t \in Seq(S), NEW d \in 1 .. Len(t) - 1,
           t[d] = DSML, t[d + 1] \in {CALLS, FUNCS},
           \A i \in 1 .. Len(t) : t[i] = DSML => i = d
    PROVE  /\ EarliestToolTagPos(t) = PlaceOf(t, d)
           /\ Split(t).reasoning = Before(t, PlaceOf(t, d))
           /\ Split(t).content = IF Headed(t, d) THEN From(t, PlaceOf(t, d))
                                 ELSE Repaired(From(t, PlaceOf(t, d)))
<1> DEFINE n == Len(t)
           name(i) == IF i = 1 THEN CALLS ELSE FUNCS
<1>1. n \in Nat /\ d \in 1 .. n - 1
  OBVIOUS
<1>2. ASSUME NEW i \in {1, 2}, NEW q \in Occurrences(ToolStartTags[i], t)
      PROVE  Headed(t, d) /\ q = d - 2 /\ t[d + 1] = name(i)
  <2>1. /\ q \in Nat /\ q + 3 =< n /\ t[q + 1] = LT /\ t[q + 2] = DSML
        /\ t[q + 3] = name(i)
    BY TagOccurs
  <2>2. q + 2 \in 1 .. n
    BY <1>1, <2>1
  <2>3. q + 2 = d
    BY <2>1, <2>2
  <2>4. d > 1 /\ d - 1 = q + 1 /\ d + 1 = q + 3 /\ q = d - 2
    BY <2>1, <2>3
  <2>5. QED  BY <2>1, <2>4 DEF Headed
<1>3. ASSUME NEW i \in {1, 2}, NEW q \in Occurrences(HeadlessTags[i], t)
      PROVE  q = d - 1 /\ t[d + 1] = name(i)
  <2>1. /\ q \in Nat /\ q + 2 =< n /\ t[q + 1] = DSML /\ t[q + 2] = name(i)
    BY TagOccurs
  <2>2. q + 1 \in 1 .. n
    BY <1>1, <2>1
  <2>3. q + 1 = d
    BY <2>1, <2>2
  <2>4. d + 1 = q + 2 /\ q = d - 1
    BY <2>1, <2>3
  <2>5. QED  BY <2>1, <2>4
<1>4. PICK j \in {1, 2} : t[d + 1] = name(j)
  OBVIOUS
<1>5. \A i \in {1, 2} : t[d + 1] = name(i) => i = j
  BY <1>4, PiecesDiffer
<1>6. Headed(t, d) => d - 2 \in Occurrences(ToolStartTags[j], t)
  <2> SUFFICES ASSUME Headed(t, d) PROVE d - 2 \in Occurrences(ToolStartTags[j], t)
    OBVIOUS
  <2>1. d - 2 \in Nat /\ (d - 2) + 1 = d - 1 /\ (d - 2) + 2 = d /\ (d - 2) + 3 = d + 1
        /\ (d - 2) + 3 =< n /\ t[d - 1] = LT
    BY <1>1 DEF Headed
  <2>2. t[(d - 2) + 1] = LT /\ t[(d - 2) + 2] = DSML /\ t[(d - 2) + 3] = name(j)
    BY <1>4, <2>1
  <2>3. QED  BY <2>1, <2>2, TagOccurs
<1>7. d - 1 \in Occurrences(HeadlessTags[j], t)
  <2>1. d - 1 \in Nat /\ (d - 1) + 1 = d /\ (d - 1) + 2 = d + 1 /\ (d - 1) + 2 =< n
    BY <1>1
  <2>2. t[(d - 1) + 1] = DSML /\ t[(d - 1) + 2] = name(j)
    BY <1>4, <2>1
  <2>3. QED  BY <2>1, <2>2, TagOccurs
<1>8. \A i \in {1, 2} : ToolStartTags[i] \in Seq(TagPieces) /\ HeadlessTags[i] \in Seq(TagPieces)
  BY TagShapes
\* What is found of each.
<1>9. ASSUME NEW i \in {1, 2}
      PROVE  /\ Find(t, ToolStartTags[i]) = IF Headed(t, d) /\ i = j THEN d - 2 ELSE -1
             /\ Find(t, HeadlessTags[i]) = IF i = j THEN d - 1 ELSE -1
  <2>1. /\ Find(t, ToolStartTags[i]) \in Int
        /\ Find(t, ToolStartTags[i]) < 0 <=> Occurrences(ToolStartTags[i], t) = {}
        /\ Find(t, ToolStartTags[i]) < 0 <=> Find(t, ToolStartTags[i]) = -1
        /\ Find(t, ToolStartTags[i]) >= 0 =>
             Find(t, ToolStartTags[i]) \in Occurrences(ToolStartTags[i], t)
    BY <1>8, FindIs
  <2>2. /\ Find(t, HeadlessTags[i]) \in Int
        /\ Find(t, HeadlessTags[i]) < 0 <=> Occurrences(HeadlessTags[i], t) = {}
        /\ Find(t, HeadlessTags[i]) < 0 <=> Find(t, HeadlessTags[i]) = -1
        /\ Find(t, HeadlessTags[i]) >= 0 =>
             Find(t, HeadlessTags[i]) \in Occurrences(HeadlessTags[i], t)
    BY <1>8, FindIs
  <2> DEFINE full == Find(t, ToolStartTags[i])
             less == Find(t, HeadlessTags[i])
  <2>3. \A q \in Occurrences(ToolStartTags[i], t) : Headed(t, d) /\ q = d - 2 /\ i = j
    BY <1>2, <1>5
  <2>4. \A q \in Occurrences(HeadlessTags[i], t) : q = d - 1 /\ i = j
    BY <1>3, <1>5
  <2>5. Headed(t, d) /\ i = j => Occurrences(ToolStartTags[i], t) # {}
    BY <1>6
  <2>6. i = j => Occurrences(HeadlessTags[i], t) # {}
    BY <1>7
  <2> HIDE DEF name, full, less
  <2>7. full = IF Headed(t, d) /\ i = j THEN d - 2 ELSE -1
    BY <2>1, <2>3, <2>5 DEF full
  <2>8. less = IF i = j THEN d - 1 ELSE -1
    BY <2>2, <2>4, <2>6 DEF less
  <2>9. QED  BY <2>7, <2>8 DEF full, less
<1> HIDE DEF name
<1> DEFINE e == EarliestToolTagPos(t)
           place == PlaceOf(t, d)
<1>10. place \in Nat /\ place = IF Headed(t, d) THEN d - 2 ELSE d - 1
  BY <1>1 DEF PlaceOf, Headed
<1>11. e = place
  <2>1. /\ DOMAIN AllTags = {1, 2, 3, 4}
        /\ AllTags[1] = ToolStartTags[1] /\ AllTags[2] = ToolStartTags[2]
        /\ AllTags[3] = HeadlessTags[1] /\ AllTags[4] = HeadlessTags[2]
    BY TagShapes
  <2>2. \E i \in DOMAIN AllTags : Occurrences(AllTags[i], t) # {}
    BY <1>7, <2>1
  <2>3. e \in Int /\ e >= 0
    BY <2>2, EarliestIs
  <2>4. /\ \E i \in DOMAIN AllTags : e = Find(t, AllTags[i])
        /\ \A i \in DOMAIN AllTags : Find(t, AllTags[i]) >= 0 => e =< Find(t, AllTags[i])
    BY <2>3, EarliestOf
  <2> HIDE DEF e, place
  <2>5. e = d - 1 \/ (Headed(t, d) /\ e = d - 2)
    BY <1>9, <2>1, <2>3, <2>4
  <2>6. Headed(t, d) => e =< d - 2
    <3> SUFFICES ASSUME Headed(t, d) PROVE e =< d - 2
      OBVIOUS
    <3>1. Find(t, ToolStartTags[j]) = d - 2 /\ d - 2 >= 0
      BY <1>1, <1>9 DEF Headed
    <3>2. QED  BY <2>1, <2>4, <3>1
  <2>7. QED  BY <1>1, <1>10, <2>5, <2>6
<1> HIDE DEF e, place
<1>12. FirstFound(t, ToolStartTags) = IF Headed(t, d) THEN d - 2 ELSE -1
  <2>1. ToolStartTags \in Seq(Seq(TagPieces)) /\ DOMAIN ToolStartTags = {1, 2}
    BY StartTags, TagShapes
  <2> DEFINE at == FirstFound(t, ToolStartTags)
  <2>2. /\ at \in {-1} \cup 0 .. n
        /\ at < 0 <=> \A i \in {1, 2} : Find(t, ToolStartTags[i]) < 0
        /\ at >= 0 => \E i \in {1, 2} : at = Find(t, ToolStartTags[i])
    BY <2>1, FirstFoundIs
  <2> HIDE DEF at
  <2>3. CASE Headed(t, d)
    <3>1. Find(t, ToolStartTags[j]) = d - 2 /\ d - 2 >= 0
      BY <1>1, <1>9, <2>3 DEF Headed
    <3>2. at >= 0
      BY <1>1, <2>2, <3>1
    <3>3. QED  BY <1>1, <1>9, <2>2, <2>3, <3>2 DEF at
  <2>4. CASE ~Headed(t, d)
    BY <1>1, <1>9, <2>2, <2>4 DEF at
  <2>5. QED  BY <2>3, <2>4
<1>13. FirstFound(t, HeadlessTags) = d - 1
  <2>1. HeadlessTags \in Seq(Seq(TagPieces)) /\ DOMAIN HeadlessTags = {1, 2}
    BY StartTags, TagShapes
  <2> DEFINE at == FirstFound(t, HeadlessTags)
  <2>2. /\ at \in {-1} \cup 0 .. n
        /\ at < 0 <=> \A i \in {1, 2} : Find(t, HeadlessTags[i]) < 0
        /\ at >= 0 => \E i \in {1, 2} : at = Find(t, HeadlessTags[i])
    BY <2>1, FirstFoundIs
  <2> HIDE DEF at
  <2>3. Find(t, HeadlessTags[j]) = d - 1 /\ d - 1 >= 0
    BY <1>1, <1>9
  <2>4. at >= 0
    BY <1>1, <2>2, <2>3
  <2>5. QED  BY <1>1, <1>9, <2>2, <2>4 DEF at
<1>14. CASE Headed(t, d)
  <2>1. FirstFound(t, ToolStartTags) >= 0 /\ FirstFound(t, ToolStartTags) = place
    BY <1>1, <1>10, <1>12, <1>14 DEF Headed
  <2>2. Split(t) = [reasoning |-> Before(t, place), content |-> From(t, place)]
    BY <2>1, Zenon DEF Split
  <2>3. QED  BY <1>11, <1>14, <2>2 DEF e, place
<1>15. CASE ~Headed(t, d)
  <2>1. ~(FirstFound(t, ToolStartTags) >= 0)
    BY <1>12, <1>15
  <2>2. FirstFound(t, HeadlessTags) >= 0 /\ FirstFound(t, HeadlessTags) = place
    BY <1>1, <1>10, <1>13, <1>15
  <2>3. Split(t) = [reasoning |-> Before(t, place), content |-> Repaired(From(t, place))]
    BY <2>1, <2>2, Zenon DEF Split
  <2>4. QED  BY <1>11, <1>15, <2>3 DEF e, place
<1>16. QED  BY <1>14, <1>15

\* Without one, what a tag may still complete is held back.
LEMMA SplitNoTag ==
    ASSUME NEW S, NEW t \in Seq(S), EarliestToolTagPos(t) < 0
    PROVE  /\ Split(t).reasoning = Before(t, Len(t) - TrailingPartialTagLen(t))
           /\ Split(t).content = <<>>
<1>1. \A i \in DOMAIN AllTags : Occurrences(AllTags[i], t) = {}
  <2>1. EarliestToolTagPos(t) \in Int
    BY EarliestIs
  <2>2. ~(EarliestToolTagPos(t) >= 0)
    BY <2>1
  <2>3. QED  BY <2>2, EarliestIs
<1>2. ASSUME NEW i \in {1, 2}
      PROVE  Find(t, ToolStartTags[i]) < 0 /\ Find(t, HeadlessTags[i]) < 0
  <2>1. /\ DOMAIN AllTags = {1, 2, 3, 4}
        /\ AllTags[1] = ToolStartTags[1] /\ AllTags[2] = ToolStartTags[2]
        /\ AllTags[3] = HeadlessTags[1] /\ AllTags[4] = HeadlessTags[2]
        /\ ToolStartTags[i] \in Seq(TagPieces) /\ HeadlessTags[i] \in Seq(TagPieces)
    BY TagShapes
  <2>2. Occurrences(ToolStartTags[i], t) = {} /\ Occurrences(HeadlessTags[i], t) = {}
    BY <1>1, <2>1
  <2>3. QED  BY <2>1, <2>2, FindIs
<1>3. ~(FirstFound(t, ToolStartTags) >= 0) /\ ~(FirstFound(t, HeadlessTags) >= 0)
  <2>1. /\ ToolStartTags \in Seq(Seq(TagPieces)) /\ DOMAIN ToolStartTags = {1, 2}
        /\ HeadlessTags \in Seq(Seq(TagPieces)) /\ DOMAIN HeadlessTags = {1, 2}
    BY StartTags, TagShapes
  <2>2. FirstFound(t, ToolStartTags) < 0 /\ FirstFound(t, ToolStartTags) \in Int
    <3>1. FirstFound(t, ToolStartTags) < 0
      BY <1>2, <2>1, FirstFoundIs
    <3>2. FirstFound(t, ToolStartTags) \in {-1} \cup 0 .. Len(t)
      BY <2>1, FirstFoundIs
    <3>3. QED  BY <3>1, <3>2
  <2>3. FirstFound(t, HeadlessTags) < 0 /\ FirstFound(t, HeadlessTags) \in Int
    <3>1. FirstFound(t, HeadlessTags) < 0
      BY <1>2, <2>1, FirstFoundIs
    <3>2. FirstFound(t, HeadlessTags) \in {-1} \cup 0 .. Len(t)
      BY <2>1, FirstFoundIs
    <3>3. QED  BY <3>1, <3>2
  <2>4. QED  BY <2>2, <2>3
<1>4. Split(t) = [reasoning |-> Before(t, Len(t) - TrailingPartialTagLen(t)), content |-> <<>>]
  BY <1>3, Zenon DEF Split
<1>5. QED  BY <1>4

-----------------------------------------------------------------------------
(* What the filter takes from texts that are joined.                       *)
\* Flattening what is joined joins what is flattened.
LEMMA FlattenJoins ==
    ASSUME NEW S, NEW u \in Seq(Seq(S)), NEW v \in Seq(Seq(S))
    PROVE  FlattenSeq(u \o v) = FlattenSeq(u) \o FlattenSeq(v)
<1> DEFINE T == Seq(S)
           w == u \o v
           m == Len(u)
           n == Len(v)
<1>1. /\ w \in Seq(T) /\ Len(w) = m + n /\ m \in Nat /\ n \in Nat
      /\ \A i \in 1 .. m : w[i] = u[i]
      /\ \A i \in 1 .. n : w[m + i] = v[i]
  <2> HIDE DEF T
  <2>1. u \in Seq(T) /\ v \in Seq(T)
    BY DEF T
  <2>2. QED  BY <2>1, Joined
<1>2. PICK f : Flattens(f, S, w)
  BY <1>1, FlattenFrom
<1>3. PICK g : Flattens(g, S, u)
  BY FlattenFrom
<1>4. PICK h : Flattens(h, S, v)
  BY FlattenFrom
<1>5. /\ \A i \in 0 .. m + n : f[i] \in T
      /\ f[0] = <<>> /\ \A i \in 1 .. m + n : f[i] = f[i - 1] \o w[i]
      /\ FlattenSeq(w) = f[m + n]
  BY <1>1, <1>2 DEF Flattens
<1>6. /\ \A i \in 0 .. m : g[i] \in T
      /\ g[0] = <<>> /\ \A i \in 1 .. m : g[i] = g[i - 1] \o u[i]
      /\ FlattenSeq(u) = g[m]
  BY <1>3 DEF Flattens
<1>7. /\ \A i \in 0 .. n : h[i] \in T
      /\ h[0] = <<>> /\ \A i \in 1 .. n : h[i] = h[i - 1] \o v[i]
      /\ FlattenSeq(v) = h[n]
  BY <1>4 DEF Flattens
<1>8. \A i \in 1 .. n : v[i] \in T
  OBVIOUS
<1>14. m \in Nat /\ n \in Nat
  BY <1>1
<1>15. /\ \A x \in T : x \o <<>> = x
       /\ \A x, y, z \in T : (x \o y) \o z = x \o (y \o z)
  <2>1. \A x \in T : x \o <<>> = x
    BY ConcatEmptySeq
  <2>2. ASSUME NEW x \in Seq(S), NEW y \in Seq(S), NEW z \in Seq(S)
        PROVE  (x \o y) \o z = x \o (y \o z)
    BY ConcatAssociative, SMTT(60)
  <2>3. QED  BY <2>1, <2>2
<1> HIDE DEF T, w, m, n
<1>9. \A i \in 0 .. m : f[i] = g[i]
  <2> DEFINE Same == {i \in Nat : f[i] = g[i]}
  <2>1. 0 \in Same
    BY <1>5, <1>6
  <2>2. \A i \in 0 .. m - 1 : i \in Same => i + 1 \in Same
    <3> SUFFICES ASSUME NEW i \in 0 .. m - 1, f[i] = g[i] PROVE f[i + 1] = g[i + 1]
      BY <1>1
    <3>1. i + 1 \in 1 .. m /\ i + 1 \in 1 .. m + n /\ (i + 1) - 1 = i
      BY <1>1
    <3>2. f[i + 1] = f[i] \o w[i + 1] /\ g[i + 1] = g[i] \o u[i + 1] /\ w[i + 1] = u[i + 1]
      BY <1>1, <1>5, <1>6, <3>1
    <3>3. QED  BY <3>2
  <2> HIDE DEF Same
  <2>3. 0 .. m \subseteq Same
    BY <1>1, <2>1, <2>2, UpToInduction
  <2>4. QED  BY <2>3 DEF Same
<1>10. f[m] = g[m] /\ g[m] \in T
  BY <1>1, <1>6, <1>9
<1>11. \A i \in 0 .. n : f[m + i] = g[m] \o h[i]
  <2> DEFINE Same == {i \in Nat : f[m + i] = g[m] \o h[i]}
  <2>1. 0 \in Same
    <3>1. g[m] \o <<>> = g[m]
      BY <1>10, <1>15
    <3>2. m + 0 = m
      BY <1>14
    <3>3. QED  BY <1>7, <1>10, <3>1, <3>2
  <2>2. ASSUME NEW i \in 0 .. n - 1, i \in Same PROVE i + 1 \in Same
    <3>6. f[m + i] = g[m] \o h[i]
      BY <2>2
    <3>1. /\ i + 1 \in 1 .. n /\ m + (i + 1) \in 1 .. m + n
          /\ (m + (i + 1)) - 1 = m + i /\ (i + 1) - 1 = i /\ i \in 0 .. n
      BY <1>1
    <3>2. f[m + (i + 1)] = f[m + i] \o v[i + 1] /\ h[i + 1] = h[i] \o v[i + 1]
      BY <1>1, <1>5, <1>7, <3>1
    <3>3. g[m] \in T /\ h[i] \in T /\ v[i + 1] \in T
      BY <1>7, <1>8, <1>10, <3>1
    <3>4. (g[m] \o h[i]) \o v[i + 1] = g[m] \o (h[i] \o v[i + 1])
      BY <3>3, <1>15
    <3>5. f[m + (i + 1)] = g[m] \o h[i + 1]
      BY <3>2, <3>4, <3>6
    <3>7. i + 1 \in Nat
      BY <1>14
    <3>8. QED  BY <3>5, <3>7
  <2> HIDE DEF Same
  <2>3. 0 .. n \subseteq Same
    BY <1>1, <2>1, <2>2, UpToInduction
  <2>4. QED  BY <2>3 DEF Same
<1>12. f[m + n] = g[m] \o h[n]
  <2>1. n \in 0 .. n
    BY <1>14
  <2>2. QED  BY <2>1, <1>11
<1>13. QED  BY <1>5, <1>6, <1>7, <1>12 DEF w

\* Which pieces a close tag is made of.
LEMMA TaggedIs ==
    ASSUME NEW S, NEW t \in Seq(S), NEW i \in 1 .. Len(t)
    PROVE  i \in Tagged(t) <=> \/ t[i] = LT /\ i < Len(t) /\ t[i + 1] = CLOSE
                               \/ t[i] = CLOSE /\ i > 1 /\ t[i - 1] = LT
<1>1. ThinkClose \in Seq({LT, CLOSE}) /\ Len(ThinkClose) = 2
      /\ ThinkClose[1] = LT /\ ThinkClose[2] = CLOSE
  BY DEF ThinkClose
<1> DEFINE tag == ThinkClose
<1>2. tag \in Seq({LT, CLOSE}) /\ Len(tag) = 2 /\ tag[1] = LT /\ tag[2] = CLOSE
      /\ Len(t) \in Nat
  BY <1>1
<1>3. i \in Tagged(t) <=> \E p \in Occurrences(tag, t) : i = p + 1 \/ i = p + 2
  BY DEF Tagged
<1> HIDE DEF tag
<1>4. ASSUME NEW p
      PROVE  p \in Occurrences(tag, t) <=>
               p \in Nat /\ p + 2 =< Len(t) /\ t[p + 1] = LT /\ t[p + 2] = CLOSE
  BY CloseOccurs DEF tag
<1>5. ASSUME i \in Tagged(t)
      PROVE  \/ t[i] = LT /\ i < Len(t) /\ t[i + 1] = CLOSE
             \/ t[i] = CLOSE /\ i > 1 /\ t[i - 1] = LT
  <2>1. PICK p \in Occurrences(tag, t) : i = p + 1 \/ i = p + 2
    BY <1>3, <1>5
  <2>2. p \in Nat /\ p + 2 =< Len(t) /\ t[p + 1] = LT /\ t[p + 2] = CLOSE
    BY <1>4
  <2>3. CASE i = p + 1
    <3>1. i < Len(t) /\ i + 1 = p + 2
      BY <1>2, <2>2, <2>3
    <3>2. QED  BY <2>2, <2>3, <3>1
  <2>4. CASE i = p + 2
    <3>1. i > 1 /\ i - 1 = p + 1
      BY <2>2, <2>4
    <3>2. QED  BY <2>2, <2>4, <3>1
  <2>5. QED  BY <2>1, <2>3, <2>4
<1>6. ASSUME t[i] = LT, i < Len(t), t[i + 1] = CLOSE PROVE i \in Tagged(t)
  <2>1. i - 1 \in Nat /\ (i - 1) + 2 =< Len(t) /\ (i - 1) + 1 = i /\ (i - 1) + 2 = i + 1
    BY <1>2, <1>6
  <2>2. i - 1 \in Occurrences(tag, t)
    BY <1>4, <1>6, <2>1
  <2>3. QED  BY <1>3, <2>1, <2>2
<1>7. ASSUME t[i] = CLOSE, i > 1, t[i - 1] = LT PROVE i \in Tagged(t)
  <2>1. i - 2 \in Nat /\ (i - 2) + 2 =< Len(t) /\ (i - 2) + 1 = i - 1 /\ (i - 2) + 2 = i
    BY <1>2, <1>7
  <2>2. i - 2 \in Occurrences(tag, t)
    BY <1>4, <1>7, <2>1
  <2>3. QED  BY <1>3, <2>1, <2>2
<1>8. QED  BY <1>5, <1>6, <1>7

\* Close tags are taken out of each part when the second does not begin inside one.
LEMMA WithoutCloseJoins ==
    ASSUME NEW S, NEW t \in Seq(S), NEW u \in Seq(S), Len(u) > 0 => u[1] # CLOSE
    PROVE  WithoutClose(t \o u) = WithoutClose(t) \o WithoutClose(u)
<1> DEFINE w == t \o u
           m == Len(t)
           n == Len(u)
<1>1. /\ w \in Seq(S) /\ Len(w) = m + n /\ m \in Nat /\ n \in Nat
      /\ \A i \in 1 .. m : w[i] = t[i]
      /\ \A i \in 1 .. n : w[m + i] = u[i]
      /\ n > 0 => u[1] # CLOSE
  BY Joined
<1>2. /\ DOMAIN w = 1 .. m + n /\ DOMAIN t = 1 .. m /\ DOMAIN u = 1 .. n
  BY <1>1
<1> DEFINE bits == Kept(t) \o Kept(u)
<1>3. /\ Kept(t) \in Seq(Seq(S)) /\ Len(Kept(t)) = m
      /\ Kept(u) \in Seq(Seq(S)) /\ Len(Kept(u)) = n
      /\ WithoutClose(t) = FlattenSeq(Kept(t)) /\ WithoutClose(u) = FlattenSeq(Kept(u))
  BY WithoutCloseTyped
<1> DEFINE T == Seq(S)
           kt == Kept(t)
           ku == Kept(u)
<1>4. /\ bits \in Seq(T) /\ Len(bits) = m + n
      /\ \A i \in 1 .. m : bits[i] = Kept(t)[i]
      /\ \A i \in 1 .. n : bits[m + i] = Kept(u)[i]
  <2>1. kt \in Seq(T) /\ ku \in Seq(T) /\ Len(kt) = m /\ Len(ku) = n
    BY <1>3
  <2>2. bits = kt \o ku
    OBVIOUS
  <2> HIDE DEF T, kt, ku, bits, m, n
  <2>3. /\ kt \o ku \in Seq(T) /\ Len(kt \o ku) = Len(kt) + Len(ku)
        /\ \A i \in 1 .. Len(kt) : (kt \o ku)[i] = kt[i]
        /\ \A i \in 1 .. Len(ku) : (kt \o ku)[Len(kt) + i] = ku[i]
    BY <2>1, Joined, SMTT(60)
  <2>4. /\ bits \in Seq(T) /\ Len(bits) = m + n
        /\ \A i \in 1 .. m : bits[i] = kt[i]
        /\ \A i \in 1 .. n : bits[m + i] = ku[i]
    BY <2>1, <2>2, <2>3
  <2>5. QED  BY <2>4 DEF kt, ku
<1> HIDE DEF kt, ku
<1> HIDE DEF w, m, n, bits
<1>5. /\ Kept(w) \in Seq(T) /\ Len(Kept(w)) = m + n /\ WithoutClose(w) = FlattenSeq(Kept(w))
  BY <1>1, WithoutCloseTyped
<1>6. ASSUME NEW i \in 1 .. m PROVE Kept(w)[i] = bits[i]
  <2>1. i \in 1 .. m + n /\ w[i] = t[i]
    BY <1>1
  <2>2. i \in Tagged(w) <=> \/ w[i] = LT /\ i < m + n /\ w[i + 1] = CLOSE
                            \/ w[i] = CLOSE /\ i > 1 /\ w[i - 1] = LT
    <3>1. w \in Seq(S) /\ i \in 1 .. Len(w) /\ Len(w) = m + n
      BY <1>1, <2>1
    <3>2. QED  BY <3>1, TaggedIs
  <2>3. i \in Tagged(t) <=> \/ t[i] = LT /\ i < m /\ t[i + 1] = CLOSE
                            \/ t[i] = CLOSE /\ i > 1 /\ t[i - 1] = LT
    <3>1. t \in Seq(S) /\ i \in 1 .. Len(t)
      BY <1>1 DEF m
    <3>2. i \in Tagged(t) <=> \/ t[i] = LT /\ i < Len(t) /\ t[i + 1] = CLOSE
                              \/ t[i] = CLOSE /\ i > 1 /\ t[i - 1] = LT
      BY <3>1, TaggedIs
    <3>3. QED  BY <3>2 DEF m
  <2>4. i > 1 => w[i - 1] = t[i - 1]
    <3>1. i > 1 => i - 1 \in 1 .. m
      BY <1>1
    <3>2. \A j \in 1 .. m : w[j] = t[j]
      BY <1>1
    <3>3. QED  BY <3>1, <3>2
  <2>5. i < m => w[i + 1] = t[i + 1]
    BY <1>1
  <2>6. i = m /\ i < m + n => w[i + 1] # CLOSE
    <3> SUFFICES ASSUME i = m, m < m + n PROVE w[i + 1] # CLOSE
      OBVIOUS
    <3>1. 1 \in 1 .. n /\ i + 1 = m + 1
      BY <1>1
    <3>2. w[m + 1] = u[1]
      BY <1>1, <3>1
    <3>3. QED  BY <1>1, <3>1, <3>2
  <2>7. i \in Tagged(w) <=> i \in Tagged(t)
    <3>1. i =< m /\ i \in Nat
      BY <1>1
    <3>2. CASE i < m
      BY <1>1, <2>1, <2>2, <2>3, <2>4, <2>5, <3>2
    <3>3. CASE i = m
      BY <1>1, <2>1, <2>2, <2>3, <2>4, <2>6, <3>3
    <3>4. QED  BY <1>1, <3>1, <3>2, <3>3
  <2>8. Kept(w)[i] = IF i \in Tagged(w) THEN <<>> ELSE <<w[i]>>
    BY <1>2, <2>1 DEF Kept
  <2>9. Kept(t)[i] = IF i \in Tagged(t) THEN <<>> ELSE <<t[i]>>
    BY <1>2 DEF Kept
  <2>10. QED  BY <1>4, <2>1, <2>7, <2>8, <2>9
<1>7. ASSUME NEW i \in 1 .. n PROVE Kept(w)[m + i] = bits[m + i]
  <2> DEFINE k == m + i
  <2>1. k \in 1 .. m + n /\ w[k] = u[i] /\ (k < m + n <=> i < n)
    BY <1>1
  <2>2. k \in Tagged(w) <=> \/ w[k] = LT /\ k < m + n /\ w[k + 1] = CLOSE
                            \/ w[k] = CLOSE /\ k > 1 /\ w[k - 1] = LT
    <3>1. w \in Seq(S) /\ k \in 1 .. Len(w) /\ Len(w) = m + n
      BY <1>1, <2>1
    <3> HIDE DEF k
    <3>2. QED  BY <3>1, TaggedIs
  <2>3. i \in Tagged(u) <=> \/ u[i] = LT /\ i < n /\ u[i + 1] = CLOSE
                            \/ u[i] = CLOSE /\ i > 1 /\ u[i - 1] = LT
    <3>1. u \in Seq(S) /\ i \in 1 .. Len(u)
      BY <1>1 DEF n
    <3>2. i \in Tagged(u) <=> \/ u[i] = LT /\ i < Len(u) /\ u[i + 1] = CLOSE
                              \/ u[i] = CLOSE /\ i > 1 /\ u[i - 1] = LT
      BY <3>1, TaggedIs
    <3>3. QED  BY <3>2 DEF n
  <2>4. i > 1 => k > 1 /\ w[k - 1] = u[i - 1]
    <3> SUFFICES ASSUME i > 1 PROVE k > 1 /\ w[k - 1] = u[i - 1]
      OBVIOUS
    <3>1. i - 1 \in 1 .. n /\ k - 1 = m + (i - 1) /\ k > 1
      BY <1>1
    <3>2. QED  BY <1>1, <3>1
  <2>5. i < n => w[k + 1] = u[i + 1]
    <3> SUFFICES ASSUME i < n PROVE w[k + 1] = u[i + 1]
      OBVIOUS
    <3>1. i + 1 \in 1 .. n /\ k + 1 = m + (i + 1)
      BY <1>1
    <3>2. QED  BY <1>1, <3>1
  <2>6. i = 1 => u[i] # CLOSE
    BY <1>1
  <2>7. i = 1 \/ i > 1
    BY <1>1
  <2> HIDE DEF k
  <2>8. k \in Tagged(w) <=> i \in Tagged(u)
    <3>1. CASE i = 1
      BY <2>1, <2>2, <2>3, <2>5, <2>6, <3>1
    <3>2. CASE i > 1
      BY <2>1, <2>2, <2>3, <2>4, <2>5, <3>2
    <3>3. QED  BY <2>7, <3>1, <3>2
  <2>9. Kept(w)[k] = IF k \in Tagged(w) THEN <<>> ELSE <<w[k]>>
    BY <1>2, <2>1 DEF Kept
  <2>10. Kept(u)[i] = IF i \in Tagged(u) THEN <<>> ELSE <<u[i]>>
    BY <1>2 DEF Kept
  <2>11. Kept(w)[k] = Kept(u)[i]
    BY <2>1, <2>8, <2>9, <2>10
  <2>12. QED  BY <1>4, <2>11 DEF k
<1>8. Kept(w) = bits
  <2>1. \A i \in 1 .. m + n : Kept(w)[i] = bits[i]
    <3> TAKE i \in 1 .. m + n
    <3>1. CASE i =< m
      BY <1>1, <1>6, <3>1
    <3>2. CASE i > m
      <4>1. i - m \in 1 .. n /\ m + (i - m) = i
        BY <1>1, <3>2
      <4>2. Kept(w)[m + (i - m)] = bits[m + (i - m)]
        BY <1>7, <4>1
      <4>3. QED  BY <4>1, <4>2
    <3>3. QED  BY <1>1, <3>1, <3>2
  <2> HIDE DEF T
  <2>2. QED  BY <1>4, <1>5, <2>1, SameSequence
<1>9. FlattenSeq(bits) = FlattenSeq(Kept(t)) \o FlattenSeq(Kept(u))
  BY <1>3, FlattenJoins DEF bits
<1>10. QED  BY <1>3, <1>5, <1>8, <1>9 DEF w

\* Pieces put together one by one.
LEMMA SinglesJoined ==
    ASSUME NEW S, NEW t \in Seq(S), NEW seqs \in Seq(Seq(S)), Len(seqs) = Len(t),
           \A i \in 1 .. Len(t) : seqs[i] = <<t[i]>>
    PROVE  FlattenSeq(seqs) = t
<1> DEFINE n == Len(t)
<1>1. Len(seqs) = n /\ n \in Nat /\ DOMAIN t = 1 .. n
  OBVIOUS
<1>2. \A i \in 1 .. n : seqs[i] = <<t[i]>>
  OBVIOUS
<1>3. PICK f : Flattens(f, S, seqs)
  BY FlattenFrom
<1>4. f[0] = <<>> /\ FlattenSeq(seqs) = f[n] /\ \A i \in 1 .. n : f[i] = f[i - 1] \o <<t[i]>>
  BY <1>1, <1>2, <1>3 DEF Flattens
<1>5. \A i \in 0 .. n : f[i] = Before(t, i)
  <2> DEFINE Same == {i \in Nat : f[i] = Before(t, i)}
  <2>1. 0 \in Same
    <3>1. SubSeq(t, 1, 0) = <<>>
      OBVIOUS
    <3>2. f[0] = Before(t, 0)
      BY <1>4, <3>1 DEF Before
    <3>3. QED  BY <3>2
  <2>2. \A i \in 0 .. n - 1 : i \in Same => i + 1 \in Same
    <3> SUFFICES ASSUME NEW i \in 0 .. n - 1, f[i] = Before(t, i)
                 PROVE  f[i + 1] = Before(t, i + 1)
      BY <1>1
    <3>1. i + 1 \in 1 .. n /\ (i + 1) - 1 = i /\ i \in 0 .. n /\ i + 1 \in 0 .. n
      BY <1>1
    <3>2. f[i + 1] = Before(t, i) \o <<t[i + 1]>>
      BY <1>4, <3>1
    <3> DEFINE p == Before(t, i)
               one == <<t[i + 1]>>
               q == Before(t, i + 1)
    <3>3. p \in Seq(S) /\ Len(p) = i /\ \A j \in 1 .. i : p[j] = t[j]
      BY <3>1, Slices, ZenonT(40)
    <3>4. q \in Seq(S) /\ Len(q) = i + 1 /\ \A j \in 1 .. i + 1 : q[j] = t[j]
      BY <3>1, Slices, ZenonT(40)
    <3>5. one \in Seq(S) /\ Len(one) = 1 /\ one[1] = t[i + 1]
      <4>1. t[i + 1] \in S
        BY <3>1
      <4>2. QED  BY <4>1
    <3> HIDE DEF p, q, one
    <3>6. /\ p \o one \in Seq(S) /\ Len(p \o one) = i + 1
          /\ \A j \in 1 .. i : (p \o one)[j] = p[j]
          /\ (p \o one)[i + 1] = one[1]
      <4>1. 1 \in 1 .. Len(one)
        BY <3>5
      <4>2. /\ p \o one \in Seq(S) /\ Len(p \o one) = Len(p) + Len(one)
            /\ \A j \in 1 .. Len(p) : (p \o one)[j] = p[j]
            /\ \A j \in 1 .. Len(one) : (p \o one)[Len(p) + j] = one[j]
        <5>1. p \in Seq(S) /\ one \in Seq(S)
          BY <3>3, <3>5
        <5>2. QED  BY <5>1, Joined
      <4>3. (p \o one)[Len(p) + 1] = one[1]
        BY <4>1, <4>2
      <4>4. QED  BY <3>3, <3>5, <4>2, <4>3
    <3>7. \A j \in 1 .. i + 1 : (p \o one)[j] = q[j]
      <4> TAKE j \in 1 .. i + 1
      <4>1. j \in 1 .. i \/ j = i + 1
        BY <3>1
      <4>2. CASE j \in 1 .. i
        BY <3>3, <3>4, <3>6, <4>2
      <4>3. CASE j = i + 1
        BY <3>4, <3>5, <3>6, <4>3
      <4>4. QED  BY <4>1, <4>2, <4>3
    <3>8. p \o one = q
      BY <3>4, <3>6, <3>7, SameSequence, SMTT(60)
    <3>9. QED  BY <3>2, <3>8 DEF p, q, one
  <2> HIDE DEF Same
  <2>3. 0 .. n \subseteq Same
    BY <1>1, <2>1, <2>2, UpToInduction
  <2>4. QED  BY <2>3 DEF Same
<1>6. f[n] = Before(t, n)
  BY <1>1, <1>5
<1>7. Before(t, n) = t
  BY DEF Before
<1>8. QED  BY <1>1, <1>4, <1>6, <1>7

\* A text without a close tag stays as it is.
LEMMA WithoutCloseSame ==
    ASSUME NEW S, NEW t \in Seq(S), \A i \in 1 .. Len(t) : t[i] # CLOSE
    PROVE  WithoutClose(t) = t
<1> DEFINE n == Len(t)
           seqs == Kept(t)
<1>1. /\ seqs \in Seq(Seq(S)) /\ Len(seqs) = n /\ WithoutClose(t) = FlattenSeq(seqs)
      /\ n \in Nat /\ DOMAIN t = 1 .. n
  BY WithoutCloseTyped
<1>2. \A i \in 1 .. n : seqs[i] = <<t[i]>>
  <2> TAKE i \in 1 .. n
  <2>1. i \in Tagged(t) <=> \/ t[i] = LT /\ i < Len(t) /\ t[i + 1] = CLOSE
                            \/ t[i] = CLOSE /\ i > 1 /\ t[i - 1] = LT
    BY TaggedIs
  <2>2. i < Len(t) => i + 1 \in 1 .. Len(t)
    BY <1>1
  <2>3. i \notin Tagged(t)
    BY <2>1, <2>2
  <2>4. QED  BY <1>1, <2>3 DEF Kept
<1> HIDE DEF seqs
<1>3. FlattenSeq(seqs) = t
  BY <1>1, <1>2, SinglesJoined
<1>4. QED  BY <1>1, <1>3

\* Nothing has no close tag.
LEMMA WithoutNone == WithoutClose(<<>>) = <<>>
<1> DEFINE none == <<>>
<1>1. none \in Seq({LT}) /\ \A i \in 1 .. Len(none) : none[i] # CLOSE
  OBVIOUS
<1> HIDE DEF none
<1>2. WithoutClose(none) = none
  BY <1>1, WithoutCloseSame
<1>3. QED  BY <1>2 DEF none

\* A text that repeats no "<" and does not end in one leaves the filter whole.
LEMMA FilterAll ==
    ASSUME NEW S, NEW t \in Seq(S),
           \A i \in 1 .. Len(t) - 1 : t[i] = LT => t[i + 1] # LT,
           Len(t) > 0 => t[Len(t)] # LT
    PROVE  /\ FilterThinkClose(<<>>, t).emit = WithoutClose(t)
           /\ FilterThinkClose(<<>>, t).pending = <<>>
<1> DEFINE n == Len(t)
           seqs == Kept(t)
           buf == WithoutClose(t)
           ends(s) == Len(s) > 0 /\ s[Len(s)] = LT
<1>1. /\ seqs \in Seq(Seq(S)) /\ Len(seqs) = n /\ buf = FlattenSeq(seqs)
      /\ buf \in Seq(S) /\ n \in Nat /\ DOMAIN t = 1 .. n
  BY WithoutCloseTyped
<1>2. \A i \in 1 .. n : seqs[i] = IF i \in Tagged(t) THEN <<>> ELSE <<t[i]>>
  BY <1>1 DEF Kept
<1> HIDE DEF seqs, buf
<1>3. PICK f : Flattens(f, S, seqs)
  BY <1>1, FlattenFrom
<1>4. /\ f[0] = <<>> /\ buf = f[n]
      /\ \A i \in 0 .. n : f[i] \in Seq(S)
      /\ \A i \in 1 .. n : f[i] = f[i - 1] \o seqs[i]
  BY <1>1, <1>3 DEF Flattens
<1> DEFINE Fine == {i \in Nat : ends(f[i]) => i > 0 /\ t[i] = LT /\ i \notin Tagged(t)}
<1>5. 0 \in Fine
  BY <1>4
<1>6. ASSUME NEW i \in 0 .. n - 1, i \in Fine PROVE i + 1 \in Fine
  <2>1. /\ i \in Nat /\ i + 1 \in 1 .. n /\ (i + 1) - 1 = i /\ i \in 0 .. n
        /\ i > 0 => i \in 1 .. n - 1
    BY <1>1
  <2>2. f[i + 1] = f[i] \o seqs[i + 1] /\ f[i] \in Seq(S)
    BY <1>4, <2>1
  <2>3. CASE i + 1 \notin Tagged(t)
    <3>7. seqs[i + 1] = <<t[i + 1]>>
      BY <1>2, <2>1, <2>3
    <3>8. t[i + 1] \in S
      BY <2>1
    <3>1. seqs[i + 1] = <<t[i + 1]>> /\ t[i + 1] \in S
      BY <3>7, <3>8
    <3> DEFINE a == f[i]
               b == <<t[i + 1]>>
    <3>2. a \in Seq(S) /\ b \in Seq(S) /\ Len(b) = 1 /\ b[1] = t[i + 1]
      BY <2>2, <3>1
    <3>3. f[i + 1] = a \o b
      BY <2>2, <3>1
    <3> HIDE DEF a, b
    <3>4. /\ Len(a \o b) = Len(a) + Len(b)
          /\ \A j \in 1 .. Len(b) : (a \o b)[Len(a) + j] = b[j]
      <4>1. a \in Seq(S) /\ b \in Seq(S)
        BY <3>2
      <4>2. QED  BY <4>1, Joined
    <3>5. (a \o b)[Len(a \o b)] = t[i + 1]
      BY <3>2, <3>4
    <3>6. ends(f[i + 1]) => t[i + 1] = LT
      BY <3>3, <3>5
    <3>9. QED  BY <2>1, <2>3, <3>6
  <2>4. CASE i + 1 \in Tagged(t)
    <3>1. seqs[i + 1] = <<>>
      BY <1>2, <2>1, <2>4
    <3>2. f[i + 1] = f[i]
      <4>1. f[i] \o <<>> = f[i]
        BY <2>2, ConcatEmptySeq
      <4>2. QED  BY <2>2, <3>1, <4>1
    <3>3. t[i + 1] = LT \/ t[i + 1] = CLOSE
      BY <2>1, <2>4, TaggedIs
    <3>4. ASSUME ends(f[i]) PROVE FALSE
      <4>1. i > 0 /\ t[i] = LT /\ i \notin Tagged(t)
        BY <1>6, <3>4
      <4>2. i \in 1 .. n - 1 /\ i \in 1 .. n /\ i < n
        BY <2>1, <4>1
      <4>3. t[i + 1] # LT
        BY <4>1, <4>2
      <4>4. t[i + 1] # CLOSE
        BY <4>1, <4>2, TaggedIs
      <4>5. QED  BY <3>3, <4>3, <4>4
    <3>5. ~ends(f[i + 1])
      BY <3>2, <3>4
    <3>6. QED  BY <2>1, <3>5
  <2>5. QED  BY <2>3, <2>4
<1> HIDE DEF Fine
<1>7. 0 .. n \subseteq Fine
  BY <1>1, <1>5, <1>6, UpToInduction
<1>8. n \in Fine
  BY <1>1, <1>7
<1>9. ~ends(buf)
  BY <1>1, <1>4, <1>8 DEF Fine
<1> DEFINE k == TrailingPartial(buf, <<ThinkClose>>)
<1>10. k = 0
  BY <1>1, <1>9, PartialClose
<1>11. WithoutClose(<<>> \o t) = buf
  <2>1. <<>> \o t = t
    BY ConcatEmptySeq
  <2>2. QED  BY <2>1 DEF buf
<1> HIDE DEF k
<1> DEFINE r == FilterThinkClose(<<>>, t)
<1>12. r = [emit |-> Before(buf, Len(buf) - k), pending |-> From(buf, Len(buf) - k)]
  BY <1>11, Zenon DEF FilterThinkClose, k
<1>13. Len(buf) - k = Len(buf) /\ Len(buf) \in Nat
  BY <1>1, <1>10
<1>14. r = [emit |-> Before(buf, Len(buf)), pending |-> From(buf, Len(buf))]
  BY <1>12, <1>13
<1>15. Before(buf, Len(buf)) = buf /\ From(buf, Len(buf)) = <<>>
  <2>1. Before(buf, Len(buf)) = buf
    BY <1>1 DEF Before
  <2>2. From(buf, Len(buf)) \in Seq(S) /\ Len(From(buf, Len(buf))) = 0
    <3>1. Len(buf) \in 0 .. Len(buf) /\ Len(buf) - Len(buf) = 0
      BY <1>13
    <3>2. buf \in Seq(S) /\ Len(buf) \in 0 .. Len(buf)
      BY <1>1, <3>1
    <3>3. From(buf, Len(buf)) \in Seq(S) /\ Len(From(buf, Len(buf))) = Len(buf) - Len(buf)
      BY <3>2, Slices, SMTT(60)
    <3>4. QED  BY <3>1, <3>3
  <2>3. QED  BY <2>1, <2>2
<1> HIDE DEF r
<1>16. r.emit = buf /\ r.pending = <<>>
  BY <1>14, <1>15
<1>17. QED  BY <1>16 DEF r, buf

-----------------------------------------------------------------------------
(* What a longer text adds to a shorter one.                               *)
\* What was given out of the text so far, and of what comes then.
LEMMA Continued ==
    ASSUME NEW S, NEW t \in Seq(S), NEW u \in Seq(S), NEW k \in 0 .. Len(t),
           NEW q \in k .. Len(t) + Len(u)
    PROVE  Before(t, k) \o From(Before(t \o u, q), k) = Before(t \o u, q)
<1> DEFINE w == t \o u
           a == Before(w, q)
<1>1. /\ w \in Seq(S) /\ Len(w) = Len(t) + Len(u) /\ Len(t) \in Nat /\ Len(u) \in Nat
      /\ \A i \in 1 .. Len(t) : w[i] = t[i]
  BY Joined
<1> HIDE DEF w
<1>2. q \in 0 .. Len(w) /\ k \in 0 .. q
  BY <1>1
<1>3. a \in Seq(S) /\ Len(a) = q /\ \A i \in 1 .. q : a[i] = w[i]
  BY <1>1, <1>2, Slices
<1> HIDE DEF a
<1>4. /\ Before(a, k) \in Seq(S) /\ Len(Before(a, k)) = k
      /\ \A i \in 1 .. k : Before(a, k)[i] = a[i]
      /\ Before(a, k) \o From(a, k) = a
  <2>1. k \in 0 .. Len(a)
    BY <1>2, <1>3
  <2>2. QED  BY <1>3, <2>1, Slices
<1>5. /\ Before(t, k) \in Seq(S) /\ Len(Before(t, k)) = k
      /\ \A i \in 1 .. k : Before(t, k)[i] = t[i]
  BY Slices
<1>6. \A i \in 1 .. k : Before(t, k)[i] = Before(a, k)[i]
  <2> TAKE i \in 1 .. k
  <2>1. i \in 1 .. q /\ i \in 1 .. Len(t)
    BY <1>1, <1>2
  <2>2. QED  BY <1>1, <1>3, <1>4, <1>5, <2>1
<1>7. Before(t, k) = Before(a, k)
  BY <1>4, <1>5, <1>6, SameSequence
<1>8. QED  BY <1>4, <1>7 DEF a, w

\* The rest of a text, when more of it comes.
LEMMA RestJoins ==
    ASSUME NEW S, NEW t \in Seq(S), NEW u \in Seq(S), NEW p \in 0 .. Len(t)
    PROVE  /\ From(t \o u, p) = From(t, p) \o u
           /\ Before(t \o u, p) = Before(t, p)
<1> DEFINE w == t \o u
<1>1. /\ w \in Seq(S) /\ Len(w) = Len(t) + Len(u) /\ Len(t) \in Nat /\ Len(u) \in Nat
      /\ \A i \in 1 .. Len(t) : w[i] = t[i]
      /\ \A i \in 1 .. Len(u) : w[Len(t) + i] = u[i]
  BY Joined
<1> HIDE DEF w
<1>2. p \in 0 .. Len(w)
  BY <1>1
<1> DEFINE a == From(w, p)
           b == From(t, p)
<1>3. /\ a \in Seq(S) /\ Len(a) = Len(w) - p
      /\ \A i \in 1 .. Len(w) - p : a[i] = w[i + p]
      /\ Before(w, p) \in Seq(S) /\ Len(Before(w, p)) = p
      /\ \A i \in 1 .. p : Before(w, p)[i] = w[i]
  <2>1. w \in Seq(S) /\ p \in 0 .. Len(w)
    BY <1>1, <1>2
  <2>2. QED  BY <2>1, Slices
<1>4. /\ b \in Seq(S) /\ Len(b) = Len(t) - p
      /\ \A i \in 1 .. Len(t) - p : b[i] = t[i + p]
      /\ Before(t, p) \in Seq(S) /\ Len(Before(t, p)) = p
      /\ \A i \in 1 .. p : Before(t, p)[i] = t[i]
  BY Slices
<1>5. Before(w, p) = Before(t, p)
  <2>1. \A i \in 1 .. p : Before(w, p)[i] = Before(t, p)[i]
    <3> TAKE i \in 1 .. p
    <3>1. i \in 1 .. Len(t)
      BY <1>1
    <3>2. QED  BY <1>1, <1>3, <1>4, <3>1
  <2>2. QED  BY <1>3, <1>4, <2>1, SameSequence
<1> HIDE DEF a, b
<1>6. /\ b \o u \in Seq(S) /\ Len(b \o u) = Len(b) + Len(u)
      /\ \A i \in 1 .. Len(b) : (b \o u)[i] = b[i]
      /\ \A i \in 1 .. Len(u) : (b \o u)[Len(b) + i] = u[i]
  <2>1. b \in Seq(S)
    BY <1>4
  <2>2. QED  BY <2>1, Joined
<1>7. Len(a) = Len(b \o u) /\ Len(a) \in Nat
  BY <1>1, <1>3, <1>4, <1>6
<1>8. \A i \in 1 .. Len(a) : a[i] = (b \o u)[i]
  <2> TAKE i \in 1 .. Len(a)
  <2>1. a[i] = w[i + p] /\ i \in Nat /\ p \in Nat
    BY <1>1, <1>3
  <2>2. CASE i =< Len(b)
    <3>1. i \in 1 .. Len(b) /\ i \in 1 .. Len(t) - p /\ i + p \in 1 .. Len(t)
      BY <1>1, <1>4, <2>2
    <3>2. QED  BY <1>1, <1>4, <1>6, <2>1, <3>1
  <2>3. CASE i > Len(b)
    <3> DEFINE j == i - Len(b)
    <3>1. j \in 1 .. Len(u) /\ Len(b) + j = i /\ Len(t) + j = i + p
      BY <1>1, <1>3, <1>4, <2>1, <2>3
    <3> HIDE DEF j
    <3>2. (b \o u)[Len(b) + j] = u[j] /\ w[Len(t) + j] = u[j]
      BY <1>1, <1>6, <3>1
    <3>3. QED  BY <2>1, <3>1, <3>2
  <2>4. Len(b) \in Nat
    <3>1. b \in Seq(S)
      BY <1>4
    <3>2. QED  BY <3>1
  <2>5. i =< Len(b) \/ i > Len(b)
    BY <2>1, <2>4
  <2>6. QED  BY <2>2, <2>3, <2>5
<1>9. a = b \o u
  BY <1>3, <1>6, <1>7, <1>8, SameSequence
<1>10. QED  BY <1>5, <1>9 DEF a, b, w

\* What is left of a text behind the start of another.
LEMMA RestOfSecond ==
    ASSUME NEW S, NEW t \in Seq(S), NEW u \in Seq(S), NEW p \in 0 .. Len(u)
    PROVE  /\ From(t \o u, Len(t) + p) = From(u, p)
           /\ Before(t \o u, Len(t) + p) = t \o Before(u, p)
<1> DEFINE a == Before(u, p)
           b == From(u, p)
           s == t \o a
<1>1. a \in Seq(S) /\ b \in Seq(S) /\ Len(a) = p /\ a \o b = u
  BY Slices
<1> HIDE DEF a, b
<1>2. s \in Seq(S) /\ Len(s) = Len(t) + p /\ t \in Seq(S) /\ Len(t) \in Nat
  <2>1. a \in Seq(S)
    BY <1>1
  <2>2. s \in Seq(S) /\ Len(s) = Len(t) + Len(a)
    BY <2>1, Joined
  <2>3. QED  BY <1>1, <2>2
<1>3. s \o b = t \o u
  <2>1. (t \o a) \o b = t \o (a \o b)
    <3>1. a \in Seq(S) /\ b \in Seq(S)
      BY <1>1
    <3>2. QED  BY <3>1, ConcatAssociative, SMTT(60)
  <2>2. QED  BY <1>1, <2>1
<1> HIDE DEF s
<1> DEFINE k == Len(t) + p
<1>4. k \in 0 .. Len(s) /\ k = Len(s)
  BY <1>2
<1> HIDE DEF k
<1>5. From(s \o b, k) = From(s, k) \o b /\ Before(s \o b, k) = Before(s, k)
  BY <1>1, <1>2, <1>4, RestJoins
<1>6. From(s, k) = <<>> /\ Before(s, k) = s
  <2>1. From(s, k) \in Seq(S) /\ Len(From(s, k)) = Len(s) - k
    BY <1>2, <1>4, Slices
  <2>2. Len(From(s, k)) = 0
    BY <1>2, <1>4, <2>1
  <2>3. Before(s, k) = s
    BY <1>2, <1>4 DEF Before
  <2>4. QED  BY <2>1, <2>2, <2>3
<1>7. <<>> \o b = b
  BY <1>1, ConcatEmptySeq
<1>8. From(t \o u, k) = b /\ Before(t \o u, k) = s
  BY <1>3, <1>5, <1>6, <1>7
<1>9. QED  BY <1>8 DEF k, s, a, b

-----------------------------------------------------------------------------
(* A text that is read from the left.                                      *)

\* What is left when a text that is known to begin with u has been cut there.
LEMMA CutFront ==
    ASSUME NEW S, NEW b \in Seq(S), NEW t \in Seq(S), NEW u \in Seq(S), NEW w \in Seq(S),
           b \o t = u \o w, Len(u) =< Len(b)
    PROVE  Before(b, Len(u)) = u /\ From(b, Len(u)) \o t = w
<1> DEFINE n == Len(u)
<1>1. n \in 0 .. Len(b) /\ n \in Nat /\ 0 \in 0 .. Len(w) /\ n + 0 = n
  OBVIOUS
<1>2. From(b \o t, n) = From(b, n) \o t /\ Before(b \o t, n) = Before(b, n)
  BY <1>1, RestJoins
<1>3. From(u \o w, n + 0) = From(w, 0) /\ Before(u \o w, n + 0) = u \o Before(w, 0)
  BY <1>1, RestOfSecond
<1>4. From(w, 0) = w /\ Before(w, 0) = <<>>
  BY DEF From, Before
<1>5. u \o <<>> = u
  BY ConcatEmptySeq
<1>6. QED  BY <1>1, <1>2, <1>3, <1>4, <1>5

\* Or somewhere within u.
CutAt(S, b, t, u, w, n) ==
    /\ b \in Seq(S) /\ t \in Seq(S) /\ u \in Seq(S) /\ w \in Seq(S)
    /\ b \o t = u \o w /\ n \in Nat /\ n =< Len(b) /\ n =< Len(u)

\* The same of a cut within u.
LEMMA CutWithin ==
    ASSUME NEW S, NEW b, NEW t, NEW u, NEW w, NEW n, CutAt(S, b, t, u, w, n)
    PROVE  Before(b, n) = Before(u, n) /\ From(b, n) \o t = From(u, n) \o w
<1>0. /\ b \in Seq(S) /\ t \in Seq(S) /\ u \in Seq(S) /\ w \in Seq(S)
      /\ b \o t = u \o w /\ n \in Nat /\ n =< Len(b) /\ n =< Len(u)
  BY DEF CutAt
<1>1. n \in 0 .. Len(b) /\ n \in 0 .. Len(u)
  BY <1>0
<1>2. From(b \o t, n) = From(b, n) \o t /\ Before(b \o t, n) = Before(b, n)
  BY <1>0, <1>1, RestJoins
<1>3. From(u \o w, n) = From(u, n) \o w /\ Before(u \o w, n) = Before(u, n)
  BY <1>0, <1>1, RestJoins
<1>4. QED  BY <1>0, <1>2, <1>3

\* What is found behind a text is found in what is behind it.
LEMMA OccursBehind ==
    ASSUME NEW S, NEW u \in Seq(S), NEW v \in Seq(S), NEW T, NEW tag \in Seq(T),
           NEW q \in Nat, q >= Len(u)
    PROVE  q \in Occurrences(tag, u \o v) <=> q - Len(u) \in Occurrences(tag, v)
<1> DEFINE text == u \o v
           m == Len(u)
           n == Len(v)
           k == Len(tag)
<1>1. /\ text \in Seq(S) /\ Len(text) = m + n
      /\ \A i \in 1 .. n : text[m + i] = v[i]
  BY Joined
<1>2. m \in Nat /\ n \in Nat /\ k \in Nat /\ q - m \in Nat
  OBVIOUS
<1> HIDE DEF text, m, n, k
<1>3. CASE q + k =< m + n
  <2>6. text \in Seq(S) /\ q + Len(tag) =< Len(text)
    BY <1>1, <1>3 DEF k
  <2>1. q \in Occurrences(tag, text) <=> \A i \in 1 .. k : text[q + i] = tag[i]
    BY <2>6, OccursAt DEF k
  <2>2. (q - m) + k =< n
    BY <1>2, <1>3
  <2>3. q - m \in Occurrences(tag, v) <=> \A i \in 1 .. k : v[(q - m) + i] = tag[i]
    BY <1>2, <2>2, OccursAt DEF k, n
  <2>4. \A i \in 1 .. k : text[q + i] = v[(q - m) + i]
    <3> TAKE i \in 1 .. k
    <3>1. (q - m) + i \in 1 .. n /\ m + ((q - m) + i) = q + i
      BY <1>2, <2>2
    <3>2. QED  BY <1>1, <3>1
  <2>5. QED  BY <2>1, <2>3, <2>4 DEF text, m
<1>4. CASE ~(q + k =< m + n)
  <2>1. ~(q \in 0 .. Len(text) - Len(tag)) /\ ~(q - m \in 0 .. Len(v) - Len(tag))
    BY <1>1, <1>2, <1>4 DEF k, n
  <2>2. QED  BY <2>1 DEF Occurrences, text, m
<1>5. QED  BY <1>3, <1>4

\* Where a tag is found, its pieces stand.
LEMMA OccursPieces ==
    ASSUME NEW S, NEW text \in Seq(S), NEW T, NEW tag \in Seq(T),
           NEW q \in Occurrences(tag, text)
    PROVE  /\ q \in Nat /\ q + Len(tag) =< Len(text)
           /\ \A i \in 1 .. Len(tag) : text[q + i] = tag[i]
<1>1. q \in 0 .. Len(text) - Len(tag) /\ Len(text) \in Nat /\ Len(tag) \in Nat
  BY DEF Occurrences
<1>2. q \in Nat /\ q + Len(tag) =< Len(text)
  BY <1>1
<1>3. QED  BY <1>2, OccursAt

\* No piece of the tag but its first is like its first: no occurrence of it
\* begins within another.
StartsOnce(tag) == Len(tag) > 0 /\ \A i \in 2 .. Len(tag) : tag[i] # tag[1]

\* Behind a text that does not hold the tag, it is first found at its end.
LEMMA FoundAtEnd ==
    ASSUME NEW S, NEW u \in Seq(S), NEW tag \in Seq(S), NEW w \in Seq(S),
           StartsOnce(tag), Occurrences(tag, u) = {}
    PROVE  /\ Len(u) \in Occurrences(tag, u \o (tag \o w))
           /\ \A q \in Occurrences(tag, u \o (tag \o w)) : q >= Len(u)
<1> DEFINE v == tag \o w
           text == u \o v
           m == Len(u)
           k == Len(tag)
<1>1. /\ v \in Seq(S) /\ Len(v) = k + Len(w) /\ m \in Nat /\ k \in Nat /\ Len(w) \in Nat
      /\ \A i \in 1 .. k : v[i] = tag[i]
  BY Joined
<1> HIDE DEF v
<1>6. v \in Seq(S)
  BY <1>1
<1>2. /\ text \in Seq(S) /\ Len(text) = m + Len(v)
      /\ \A i \in 1 .. m : text[i] = u[i]
      /\ \A i \in 1 .. Len(v) : text[m + i] = v[i]
  BY <1>6, Joined
<1> HIDE DEF text, m, k
<1>3. m \in Occurrences(tag, text)
  <2>1. m + k =< Len(text)
    BY <1>1, <1>2
  <2>2. \A i \in 1 .. k : text[m + i] = tag[i]
    BY <1>1, <1>2
  <2>3. QED  BY <1>1, <1>2, <2>1, <2>2, OccursAt DEF k
<1>4. ASSUME NEW q \in Occurrences(tag, text), ~(q >= m) PROVE FALSE
  <2>1. q \in Nat /\ q + k =< Len(text) /\ \A i \in 1 .. k : text[q + i] = tag[i]
    BY <1>2, OccursPieces DEF k
  <2>2. q < m
    BY <1>1, <1>4, <2>1
  <2>3. CASE q + k =< m
    <3>1. ASSUME NEW i \in 1 .. k PROVE u[q + i] = tag[i]
      <4>1. q + i \in 1 .. m
        BY <1>1, <2>1, <2>3
      <4>2. text[q + i] = tag[i] /\ text[q + i] = u[q + i]
        BY <1>2, <2>1, <4>1
      <4>3. QED  BY <4>2
    <3>2. q \in Occurrences(tag, u)
      BY <2>1, <2>3, <3>1, OccursAt DEF k, m
    <3>3. QED  BY <3>2
  <2>4. CASE ~(q + k =< m)
    <3> DEFINE i == m - q + 1
    <3>1. i \in 2 .. k /\ q + i = m + 1 /\ 1 \in 1 .. Len(v) /\ 1 \in 1 .. k
      BY <1>1, <2>1, <2>2, <2>4
    <3>2. text[q + i] = tag[i] /\ text[m + 1] = tag[1]
      BY <1>1, <1>2, <2>1, <3>1
    <3> HIDE DEF i
    <3>3. tag[i] # tag[1]
      BY <3>1 DEF StartsOnce, k
    <3>4. QED  BY <3>1, <3>2, <3>3
  <2>5. QED  BY <2>3, <2>4
<1>5. QED  BY <1>3, <1>4 DEF text, v, m

\* In what has come of such a text, it is found there or has not all come.
LEMMA FoundOrToCome ==
    ASSUME NEW S, NEW b \in Seq(S), NEW t \in Seq(S), NEW u \in Seq(S), NEW tag \in Seq(S),
           NEW w \in Seq(S), b \o t = u \o (tag \o w), StartsOnce(tag), Occurrences(tag, u) = {}
    PROVE  /\ Find(b, tag) \in Int
           /\ Find(b, tag) < 0 => Find(b, tag) = -1
           /\ Find(b, tag) >= 0 => Find(b, tag) = Len(u) /\ Len(u) + Len(tag) =< Len(b)
           /\ Find(b, tag) < 0 => Len(b) < Len(u) + Len(tag)
<1> DEFINE f == Find(b, tag)
           m == Len(u)
           k == Len(tag)
           text == b \o t
<1>1. /\ f \in Int
      /\ f < 0 <=> Occurrences(tag, b) = {}
      /\ f < 0 <=> f = -1
      /\ f >= 0 => /\ f \in Occurrences(tag, b) /\ f + k \in 0 .. Len(b)
                   /\ \A q \in Occurrences(tag, b) : f =< q
  BY FindIs
<1>2. m \in Occurrences(tag, text) /\ \A q \in Occurrences(tag, text) : q >= m
  BY FoundAtEnd
<1>3. Occurrences(tag, b) \subseteq Occurrences(tag, text)
  BY OccursLater
<1>4. m \in Nat /\ k \in Nat /\ Len(b) \in Nat /\ text \in Seq(S) /\ Len(text) = Len(b) + Len(t)
      /\ \A i \in 1 .. Len(b) : text[i] = b[i]
  BY Joined, SMTT(30)
<1>5. m + k =< Len(b) => m \in Occurrences(tag, b)
  <2> SUFFICES ASSUME m + k =< Len(b) PROVE m \in Occurrences(tag, b)
    OBVIOUS
  <2>1. \A i \in 1 .. k : text[m + i] = tag[i]
    BY <1>2, <1>4, OccursPieces
  <2> HIDE DEF text, k, m
  <2>2. \A i \in 1 .. k : b[m + i] = tag[i]
    <3> TAKE i \in 1 .. k
    <3>1. m + i \in 1 .. Len(b)
      BY <1>4
    <3>2. b[m + i] = text[m + i]
      BY <1>4, <3>1
    <3>3. QED  BY <2>1, <3>2
  <2>4. m \in Nat /\ m + Len(tag) =< Len(b)
    BY <1>4 DEF k
  <2>3. QED  BY <2>2, <2>4, OccursAt DEF k
<1> HIDE DEF f, m, k, text
<1>6. f >= 0 => f = m /\ m + k =< Len(b)
  <2> SUFFICES ASSUME f >= 0 PROVE f = m /\ m + k =< Len(b)
    OBVIOUS
  <2>1. f \in Occurrences(tag, b) /\ f + k \in 0 .. Len(b) /\ f \in Int
    BY <1>1
  <2>2. f >= m
    BY <1>2, <1>3, <2>1
  <2>6. m \in Nat /\ k \in Nat /\ Len(b) \in Nat
    BY <1>4
  <2>3. m + k =< Len(b)
    BY <2>1, <2>2, <2>6
  <2>4. f =< m
    BY <1>1, <1>5, <2>3
  <2>5. QED  BY <2>1, <2>2, <2>3, <2>4, <2>6
<1>7. f < 0 => Len(b) < m + k
  BY <1>1, <1>4, <1>5
<1>8. QED  BY <1>1, <1>6, <1>7 DEF f, m, k

\* What a tag may begin with is withheld.
LEMMA Withheld ==
    ASSUME NEW S, NEW b \in Seq(S), NEW t \in Seq(S), NEW u \in Seq(S), NEW tag \in Seq(S),
           NEW w \in Seq(S), b \o t = u \o (tag \o w), Len(b) < Len(u) + Len(tag),
           NEW tags, \E i \in DOMAIN tags : tags[i] = tag
    PROVE  LET n == Len(b) - TrailingPartial(b, tags)
           IN  n \in Nat /\ n =< Len(b) /\ n =< Len(u)
<1> DEFINE held == TrailingPartial(b, tags)
           m == Len(u)
           k == Len(b) - m
           Partials == {j \in 1 .. Len(b) : \E i \in DOMAIN tags :
                           j < Len(tags[i]) /\ IsSuffix(Before(tags[i], j), b)}
<1>1. held \in 0 .. Len(b) /\ Len(b) \in Nat /\ m \in Nat /\ Len(tag) \in Nat
  BY PartialBounded
<1>2. held = Max({0} \cup Partials)
  BY DEF TrailingPartial
<1>3. CASE k =< 0
  BY <1>1, <1>3
<1>4. CASE k > 0
  <2>1. k \in 1 .. Len(b) /\ k < Len(tag) /\ k \in 0 .. Len(tag)
    BY <1>1, <1>4
  <2>2. Before(tag, k) \in Seq(S) /\ Len(Before(tag, k)) = k
        /\ \A i \in 1 .. k : Before(tag, k)[i] = tag[i]
    BY <2>1, Slices, ZenonT(40)
  <2> HIDE DEF k, m
  <2>3. \A i \in 1 .. k : b[m + i] = tag[i]
    <3> DEFINE v == tag \o w
               text == u \o v
    <3>1. /\ v \in Seq(S) /\ Len(v) = Len(tag) + Len(w) /\ Len(w) \in Nat
          /\ \A i \in 1 .. Len(tag) : v[i] = tag[i]
      BY Joined
    <3> HIDE DEF v
    <3>2. \A i \in 1 .. Len(v) : text[m + i] = v[i]
      BY <3>1, Joined, SMTT(30) DEF m
    <3>3. \A i \in 1 .. Len(b) : (b \o t)[i] = b[i]
      BY Joined, SMTT(30)
    <3>4. text = b \o t
      BY DEF v
    <3> HIDE DEF text
    <3> TAKE i \in 1 .. k
    <3>5. i \in 1 .. Len(tag) /\ i \in 1 .. Len(v) /\ m + i \in 1 .. Len(b)
      BY <1>1, <2>1, <3>1, SMTT(30) DEF k
    <3>6. QED  BY <3>1, <3>2, <3>3, <3>4, <3>5
  <2>4. IsSuffix(Before(tag, k), b)
    <3> DEFINE s == Before(tag, k)
    <3>1. s \in Seq(S) /\ Len(s) = k /\ \A i \in 1 .. k : s[i] = tag[i]
      BY <2>2
    <3> HIDE DEF s
    <3>2. Len(s) =< Len(b) /\ Len(b) - Len(s) = m
      BY <1>1, <2>1, <3>1 DEF k
    <3>3. \A i \in 1 .. Len(s) : s[i] = b[(Len(b) - Len(s)) + i]
      BY <2>3, <3>1, <3>2
    <3>4. IsSuffix(s, b)
      BY <3>1, <3>2, <3>3, SuffixIs
    <3>5. QED  BY <3>4 DEF s
  <2>5. k \in Partials
    BY <2>1, <2>4
  <2> HIDE DEF Partials
  <2>6. {0} \cup Partials \subseteq 0 .. Len(b) /\ {0} \cup Partials # {}
    BY <1>1 DEF Partials
  <2>7. Max({0} \cup Partials) >= k
    BY <1>1, <2>5, <2>6, MaxIs
  <2> HIDE DEF held
  <2>8. held >= k /\ k \in Int
    BY <1>2, <2>1, <2>7
  <2>9. Len(b) - held \in Nat /\ Len(b) - held =< Len(b) /\ Len(b) - held =< m
    BY <1>1, <2>8 DEF k
  <2>10. QED  BY <2>9 DEF held, m
<1>5. QED  BY <1>1, <1>3, <1>4

-----------------------------------------------------------------------------
(* Texts that are joined.                                                  *)

\* Three texts are joined in either order.
LEMMA Associates ==
    ASSUME NEW S, NEW x \in Seq(S), NEW y \in Seq(S), NEW z \in Seq(S)
    PROVE  x \o (y \o z) = (x \o y) \o z
BY ConcatAssociative, SMTT(60)

\* Texts can be joined, and it does not matter in which order.
Joinable(T) ==
    /\ \A x, y \in T : x \o y \in T
    /\ \A x, y, z \in T : x \o (y \o z) = (x \o y) \o z

\* Sequences can be joined so.
LEMMA SeqJoinable ==
    ASSUME NEW S
    PROVE  Joinable(Seq(S))
<1>1. ASSUME NEW x \in Seq(S), NEW y \in Seq(S) PROVE x \o y \in Seq(S)
  OBVIOUS
<1>2. ASSUME NEW x \in Seq(S), NEW y \in Seq(S), NEW z \in Seq(S)
      PROVE  x \o (y \o z) = (x \o y) \o z
  BY ConcatAssociative, SMTT(60)
<1>3. QED  BY <1>1, <1>2 DEF Joinable

Joined3(T, x, y, z) == Joinable(T) /\ x \in T /\ y \in T /\ z \in T

\* Three of them, in either order.
LEMMA JoinsThree ==
    ASSUME NEW T, NEW x, NEW y, NEW z, Joined3(T, x, y, z)
    PROVE  x \o y \in T /\ y \o z \in T /\ x \o (y \o z) = (x \o y) \o z
BY Zenon DEF Joinable, Joined3

-----------------------------------------------------------------------------
(* Texts that are joined from a list.                                      *)

\* A list of one.
LEMMA FlattenOne ==
    ASSUME NEW S, NEW x \in Seq(S)
    PROVE  FlattenSeq(<<x>>) = x
<1> DEFINE T == Seq(S)
           seqs == <<x>>
<1>1. seqs \in Seq(T) /\ Len(seqs) = 1 /\ seqs[1] = x
  OBVIOUS
<1> HIDE DEF seqs
<1>2. seqs \in Seq(Seq(S)) /\ Len(seqs) > 0
  BY <1>1
<1>3. PICK f : /\ f[1] = seqs[1]
               /\ FlattenSeq(seqs) = f[Len(seqs)]
  BY <1>2, FlattenUnfolds
<1>4. QED  BY <1>1, <1>3 DEF seqs

\* A list of none.
LEMMA FlattenNone ==
    FlattenSeq(<<>>) = <<>>
<1> DEFINE none == <<>>
<1>1. none \in Seq(Seq({})) /\ Len(none) = 0
  OBVIOUS
<1> HIDE DEF none
<1>2. FlattenSeq(none) = none
  BY <1>1, Zenon DEF FlattenSeq
<1>3. QED  BY <1>2 DEF none

\* What is left of a list begins with the next of it.
LEMMA NextOf ==
    ASSUME NEW T, NEW seqs \in Seq(T), NEW i \in 0 .. Len(seqs) - 1
    PROVE  /\ From(seqs, i) = <<seqs[i + 1]>> \o From(seqs, i + 1)
           /\ Before(seqs, i + 1) = Before(seqs, i) \o <<seqs[i + 1]>>
           /\ From(seqs, i) \in Seq(T) /\ From(seqs, i + 1) \in Seq(T)
           /\ Before(seqs, i) \in Seq(T) /\ Before(seqs, i + 1) \in Seq(T)
           /\ seqs[i + 1] \in T
<1> DEFINE n == Len(seqs)
           one == <<seqs[i + 1]>>
           a == From(seqs, i)
           b == From(seqs, i + 1)
           c == Before(seqs, i)
           d == Before(seqs, i + 1)
<1>1. n \in Nat /\ i \in 0 .. n /\ i + 1 \in 0 .. n /\ i + 1 \in 1 .. n /\ i \in Nat
  OBVIOUS
<1>2. one \in Seq(T) /\ Len(one) = 1 /\ one[1] = seqs[i + 1] /\ seqs[i + 1] \in T
  OBVIOUS
<1>3. /\ a \in Seq(T) /\ Len(a) = n - i /\ \A k \in 1 .. n - i : a[k] = seqs[k + i]
      /\ c \in Seq(T) /\ Len(c) = i /\ \A k \in 1 .. i : c[k] = seqs[k]
  BY <1>1, Slices
<1>4. /\ b \in Seq(T) /\ Len(b) = n - (i + 1)
      /\ \A k \in 1 .. n - (i + 1) : b[k] = seqs[k + (i + 1)]
      /\ d \in Seq(T) /\ Len(d) = i + 1 /\ \A k \in 1 .. i + 1 : d[k] = seqs[k]
  BY <1>1, Slices, ZenonT(40)
<1> HIDE DEF one, a, b, c, d, n
<1>5. a = one \o b
  <2> DEFINE s == one \o b
  <2>1. /\ s \in Seq(T) /\ Len(s) = Len(one) + Len(b)
        /\ \A k \in 1 .. Len(one) : s[k] = one[k]
        /\ \A k \in 1 .. Len(b) : s[Len(one) + k] = b[k]
    <3>1. one \in Seq(T) /\ b \in Seq(T)
      BY <1>2, <1>4
    <3>2. QED  BY <3>1, Joined
  <2> HIDE DEF s
  <2>2. Len(s) = Len(a)
    BY <1>1, <1>2, <1>3, <1>4, <2>1
  <2>3. \A k \in 1 .. Len(a) : a[k] = s[k]
    <3> SUFFICES ASSUME NEW k \in 1 .. n - i PROVE a[k] = s[k]
      BY <1>3
    <3>1. CASE k = 1
      BY <1>1, <1>2, <1>3, <2>1, <3>1
    <3>2. CASE k # 1
      <4> DEFINE m == k - 1
      <4>1. m \in 1 .. n - (i + 1) /\ 1 + m = k /\ m + (i + 1) = k + i
        BY <1>1, <3>2
      <4> HIDE DEF m
      <4>2. s[1 + m] = b[m] /\ b[m] = seqs[m + (i + 1)] /\ a[k] = seqs[k + i]
        BY <1>2, <1>3, <1>4, <2>1, <4>1
      <4>3. QED  BY <4>1, <4>2
    <3>3. QED  BY <3>1, <3>2
  <2>4. a = s
    BY <1>3, <2>1, <2>2, <2>3, SameSequence
  <2>5. QED  BY <2>4 DEF s
<1>6. d = c \o one
  <2> DEFINE s == c \o one
  <2>1. /\ s \in Seq(T) /\ Len(s) = Len(c) + Len(one)
        /\ \A k \in 1 .. Len(c) : s[k] = c[k]
        /\ \A k \in 1 .. Len(one) : s[Len(c) + k] = one[k]
    <3>1. one \in Seq(T) /\ c \in Seq(T)
      BY <1>2, <1>3
    <3>2. QED  BY <3>1, Joined
  <2> HIDE DEF s
  <2>2. Len(s) = Len(d)
    BY <1>1, <1>2, <1>3, <1>4, <2>1
  <2>3. \A k \in 1 .. Len(d) : d[k] = s[k]
    <3> SUFFICES ASSUME NEW k \in 1 .. i + 1 PROVE d[k] = s[k]
      BY <1>4
    <3>1. CASE k = i + 1
      <4>1. 1 \in 1 .. Len(one)
        BY <1>2
      <4>2. s[i + 1] = one[1]
        BY <1>3, <2>1, <4>1
      <4>3. QED  BY <1>2, <1>4, <3>1, <4>2
    <3>2. CASE k # i + 1
      <4>1. k \in 1 .. i
        BY <1>1, <3>2
      <4>2. QED  BY <1>3, <1>4, <2>1, <4>1
    <3>3. QED  BY <3>1, <3>2
  <2>4. d = s
    BY <1>4, <2>1, <2>2, <2>3, SameSequence
  <2>5. QED  BY <2>4 DEF s
<1>7. QED  BY <1>2, <1>3, <1>4, <1>5, <1>6 DEF a, b, c, d, one

\* So does what it is joined to.
LEMMA FlattenNext ==
    ASSUME NEW S, NEW seqs \in Seq(Seq(S)), NEW i \in 0 .. Len(seqs) - 1
    PROVE  /\ FlattenSeq(From(seqs, i)) = seqs[i + 1] \o FlattenSeq(From(seqs, i + 1))
           /\ FlattenSeq(Before(seqs, i + 1)) = FlattenSeq(Before(seqs, i)) \o seqs[i + 1]
           /\ FlattenSeq(From(seqs, i)) \in Seq(S) /\ FlattenSeq(From(seqs, i + 1)) \in Seq(S)
           /\ FlattenSeq(Before(seqs, i)) \in Seq(S) /\ FlattenSeq(Before(seqs, i + 1)) \in Seq(S)
           /\ seqs[i + 1] \in Seq(S)
<1> DEFINE T == Seq(S)
           one == <<seqs[i + 1]>>
           a == From(seqs, i)
           b == From(seqs, i + 1)
           c == Before(seqs, i)
           d == Before(seqs, i + 1)
<1>1. /\ a = one \o b /\ d = c \o one
      /\ a \in Seq(T) /\ b \in Seq(T) /\ c \in Seq(T) /\ d \in Seq(T) /\ seqs[i + 1] \in T
  BY NextOf
<1>2. one \in Seq(T) /\ FlattenSeq(one) = seqs[i + 1]
  <2>1. seqs[i + 1] \in Seq(S)
    BY <1>1
  <2>2. one \in Seq(T)
    BY <1>1
  <2>3. QED  BY <2>1, <2>2, FlattenOne
<1> HIDE DEF a, b, c, d, one
<1>3. FlattenSeq(one \o b) = FlattenSeq(one) \o FlattenSeq(b)
  BY <1>1, <1>2, FlattenJoins
<1>4. FlattenSeq(c \o one) = FlattenSeq(c) \o FlattenSeq(one)
  BY <1>1, <1>2, FlattenJoins
<1>5. /\ FlattenSeq(a) \in Seq(S) /\ FlattenSeq(b) \in Seq(S)
      /\ FlattenSeq(c) \in Seq(S) /\ FlattenSeq(d) \in Seq(S)
  BY <1>1, FlattenTyped
<1>6. QED  BY <1>1, <1>2, <1>3, <1>4, <1>5 DEF a, b, c, d

\* What is left of a list in front of it and behind it.
LEMMA FlattenEnds ==
    ASSUME NEW S, NEW seqs \in Seq(Seq(S))
    PROVE  /\ FlattenSeq(From(seqs, Len(seqs))) = <<>>
           /\ FlattenSeq(Before(seqs, 0)) = <<>>
           /\ From(seqs, 0) = seqs /\ Before(seqs, Len(seqs)) = seqs
<1> DEFINE T == Seq(S)
<1>1. From(seqs, Len(seqs)) = <<>> /\ Before(seqs, 0) = <<>>
      /\ From(seqs, 0) = seqs /\ Before(seqs, Len(seqs)) = seqs
  <2> HIDE DEF T
  <2>1. seqs \in Seq(T)
    BY DEF T
  <2>2. QED  BY <2>1 DEF From, Before
<1>2. QED  BY <1>1, FlattenNone

-----------------------------------------------------------------------------
(* Where the reasoning parser splits a text when a tool-calls block begins *)
(* behind its words.                                                       *)

\* A start tag in a text ends in one of these two.
LEMMA TagSomewhere ==
    ASSUME NEW S, NEW t \in Seq(S), ~(EarliestToolTagPos(t) < 0)
    PROVE  \E d \in 1 .. Len(t) - 1 : t[d] = DSML /\ t[d + 1] \in {CALLS, FUNCS}
<1>1. SUFFICES ASSUME \A d \in 1 .. Len(t) - 1 : t[d] # DSML \/ t[d + 1] \notin {CALLS, FUNCS}
               PROVE  FALSE
  OBVIOUS
<1>2. EarliestToolTagPos(t) = -1
  BY <1>1, NoTagThere
<1>3. QED  BY <1>2

\* A tag that occurs is a boundary.
LEMMA BoundaryAt ==
    ASSUME NEW S, NEW t \in Seq(S), NEW i \in {1, 2},
           Occurrences(ToolStartTags[i], t) # {} \/ Occurrences(HeadlessTags[i], t) # {}
    PROVE  EarliestToolTagPos(t) \in Int /\ EarliestToolTagPos(t) >= 0
<1>1. /\ DOMAIN AllTags = {1, 2, 3, 4}
      /\ AllTags[1] = ToolStartTags[1] /\ AllTags[2] = ToolStartTags[2]
      /\ AllTags[3] = HeadlessTags[1] /\ AllTags[4] = HeadlessTags[2]
  BY TagShapes
<1>2. \E j \in DOMAIN AllTags : Occurrences(AllTags[j], t) # {}
  BY <1>1
<1>3. QED  BY <1>2, EarliestIs

\* What is found first of the tags when the first of them is found.
LEMMA FirstTagFound ==
    ASSUME NEW S, NEW t \in Seq(S), NEW T, NEW tags \in Seq(Seq(T)), Len(tags) = 2,
           Find(t, tags[1]) >= 0
    PROVE  FirstFound(t, tags) = Find(t, tags[1])
<1> DEFINE found == {i \in DOMAIN tags : Find(t, tags[i]) >= 0}
<1>1. DOMAIN tags = 1 .. 2
  OBVIOUS
<1>2. 1 \in found /\ found \subseteq 1 .. 2
  BY <1>1
<1> HIDE DEF found
<1>3. found \subseteq Nat /\ found # {}
  BY <1>2
<1>4. Min(found) \in found /\ \A y \in found : Min(found) =< y
  BY <1>3, MinIs
<1>5. Min(found) = 1
  <2>1. Min(found) \in 1 .. 2 /\ Min(found) =< 1
    BY <1>2, <1>4, Zenon
  <2>2. QED  BY <2>1
<1>6. FirstFound(t, tags) = IF found = {} THEN -1 ELSE Find(t, tags[Min(found)])
  BY Zenon DEF FirstFound, found
<1>7. QED  BY <1>3, <1>5, <1>6

\* The first whole start tag is where the text is split.
LEMMA SplitAtStart ==
    ASSUME NEW S, NEW t \in Seq(S), NEW c \in Nat, c + 3 =< Len(t),
           t[c + 1] = LT, t[c + 2] = DSML, t[c + 3] = CALLS,
           \A i \in 1 .. c + 2 : t[i] # CALLS
    PROVE  /\ EarliestToolTagPos(t) \in Int /\ EarliestToolTagPos(t) >= 0
           /\ Split(t).reasoning = Before(t, c) /\ Split(t).content = From(t, c)
<1> DEFINE tag == ToolStartTags[1]
           at == Find(t, tag)
<1>1. c \in Occurrences(tag, t)
  BY TagOccurs
<1>2. \A q \in Occurrences(tag, t) : q \in Nat /\ q >= c
  <2> TAKE q \in Occurrences(tag, t)
  <2>1. q \in Nat /\ q + 3 =< Len(t) /\ t[q + 3] = CALLS
    BY TagOccurs
  <2>2. q + 3 \notin 1 .. c + 2
    BY <2>1
  <2>3. QED  BY <2>1, <2>2
<1>3. tag \in Seq(TagPieces) /\ ToolStartTags \in Seq(Seq(TagPieces)) /\ Len(ToolStartTags) = 2
  BY TagShapes, StartTags
<1>4. /\ at \in Int
      /\ at < 0 <=> Occurrences(tag, t) = {}
      /\ at >= 0 => /\ at \in Occurrences(tag, t)
                    /\ \A q \in Occurrences(tag, t) : at =< q
  BY <1>3, FindIs
<1>5. at = c
  <2> HIDE DEF at, tag
  <2>1. at >= 0
    BY <1>1, <1>4
  <2>2. QED  BY <1>1, <1>2, <1>4, <2>1
<1>6. FirstFound(t, ToolStartTags) = c /\ FirstFound(t, ToolStartTags) >= 0
  BY <1>3, <1>5, FirstTagFound, SMTT(40)
<1>7. Split(t) = [reasoning |-> Before(t, c), content |-> From(t, c)]
  BY <1>6, Zenon DEF Split
<1>8. EarliestToolTagPos(t) \in Int /\ EarliestToolTagPos(t) >= 0
  BY <1>1, BoundaryAt
<1>9. QED  BY <1>7, <1>8

\* Where there is no whole one, the first headless one is, and is repaired.
LEMMA SplitAtHeadless ==
    ASSUME NEW S, NEW t \in Seq(S), NEW c \in Nat, c + 2 =< Len(t),
           t[c + 1] = DSML, t[c + 2] = CALLS, \A i \in 1 .. c + 1 : t[i] # CALLS,
           \A i \in 1 .. Len(t) : t[i] # FUNCS, Occurrences(ToolStartTags[1], t) = {}
    PROVE  /\ EarliestToolTagPos(t) \in Int /\ EarliestToolTagPos(t) >= 0
           /\ Split(t).reasoning = Before(t, c) /\ Split(t).content = Repaired(From(t, c))
<1> DEFINE tag == HeadlessTags[1]
           at == Find(t, tag)
<1>1. c \in Occurrences(tag, t)
  BY TagOccurs
<1>2. \A q \in Occurrences(tag, t) : q \in Nat /\ q >= c
  <2> TAKE q \in Occurrences(tag, t)
  <2>1. q \in Nat /\ q + 2 =< Len(t) /\ t[q + 2] = CALLS
    BY TagOccurs
  <2>2. q + 2 \notin 1 .. c + 1
    BY <2>1
  <2>3. QED  BY <2>1, <2>2
<1>3. /\ tag \in Seq(TagPieces) /\ HeadlessTags \in Seq(Seq(TagPieces)) /\ Len(HeadlessTags) = 2
      /\ ToolStartTags \in Seq(Seq(TagPieces)) /\ DOMAIN ToolStartTags = {1, 2}
      /\ ToolStartTags[1] \in Seq(TagPieces) /\ ToolStartTags[2] \in Seq(TagPieces)
  BY TagShapes, StartTags
<1>4. /\ at \in Int
      /\ at < 0 <=> Occurrences(tag, t) = {}
      /\ at >= 0 => /\ at \in Occurrences(tag, t)
                    /\ \A q \in Occurrences(tag, t) : at =< q
  BY <1>3, FindIs
<1>5. at = c
  <2> HIDE DEF at, tag
  <2>1. at >= 0
    BY <1>1, <1>4
  <2>2. QED  BY <1>1, <1>2, <1>4, <2>1
<1>6. FirstFound(t, HeadlessTags) = c /\ FirstFound(t, HeadlessTags) >= 0
  BY <1>3, <1>5, FirstTagFound
<1>7. Occurrences(ToolStartTags[2], t) = {}
  <2> SUFFICES ASSUME NEW q \in Occurrences(ToolStartTags[2], t) PROVE FALSE
    OBVIOUS
  <2>1. q \in Nat /\ q + 3 =< Len(t) /\ t[q + 3] = FUNCS
    BY TagOccurs
  <2>2. q + 3 \in 1 .. Len(t)
    BY <2>1
  <2>3. QED  BY <2>1, <2>2
<1>8. Find(t, ToolStartTags[1]) < 0 /\ Find(t, ToolStartTags[2]) < 0
  BY <1>3, <1>7, FindIs
<1>9. ~(FirstFound(t, ToolStartTags) >= 0)
  <2>1. \A i \in DOMAIN ToolStartTags : Find(t, ToolStartTags[i]) < 0
    BY <1>3, <1>8
  <2>2. FirstFound(t, ToolStartTags) < 0 /\ FirstFound(t, ToolStartTags) \in {-1} \cup 0 .. Len(t)
    BY <1>3, <2>1, FirstFoundIs
  <2>3. QED  BY <2>2
<1>10. Split(t) = [reasoning |-> Before(t, c), content |-> Repaired(From(t, c))]
  BY <1>6, <1>9, Zenon DEF Split
<1>11. EarliestToolTagPos(t) \in Int /\ EarliestToolTagPos(t) >= 0
  BY <1>1, BoundaryAt
<1>12. QED  BY <1>10, <1>11

\* A text without a close tag passes the filter; what is held of it is its
\* last "<".
LEMMA FilterPasses ==
    ASSUME NEW S, NEW t \in Seq(S), \A i \in 1 .. Len(t) : t[i] # CLOSE,
           FilterThinkClose(<<>>, t).pending = <<>> \/ (Len(t) > 0 => t[Len(t)] # LT)
    PROVE  FilterThinkClose(<<>>, t).emit = t /\ FilterThinkClose(<<>>, t).pending = <<>>
<1> DEFINE r == FilterThinkClose(<<>>, t)
           e == r.emit
           p == r.pending
<1>1. <<>> \o t = t /\ <<>> \in Seq(S)
  BY ConcatEmptySeq
<1>2. e \in Seq(S) /\ p \in Seq(S) /\ p \in {<<>>, <<LT>>} /\ e \o p = WithoutClose(t)
  <2>1. e \in Seq(S) /\ p \in Seq(S) /\ p \in {<<>>, <<LT>>} /\ e \o p = WithoutClose(<<>> \o t)
    BY <1>1, FilterTyped, Zenon
  <2>2. QED  BY <1>1, <2>1
<1>3. WithoutClose(t) = t
  BY WithoutCloseSame
<1> HIDE DEF r, e, p
<1>4. e \o p = t
  BY <1>2, <1>3
<1>5. p = <<>>
  <2> SUFFICES ASSUME p # <<>> PROVE FALSE
    OBVIOUS
  <2>1. p = <<LT>> /\ Len(p) = 1 /\ p[1] = LT
    BY <1>2
  <2>2. /\ Len(e \o p) = Len(e) + Len(p)
        /\ \A i \in 1 .. Len(p) : (e \o p)[Len(e) + i] = p[i]
    BY <1>2, Joined
  <2>3. Len(t) = Len(e) + 1 /\ t[Len(t)] = LT /\ Len(t) > 0
    BY <1>2, <1>4, <2>1, <2>2
  <2>4. QED  BY <2>1, <2>3 DEF p, r
<1>6. e \o p = e
  BY <1>2, <1>5, ConcatEmptySeq
<1>7. QED  BY <1>4, <1>5, <1>6 DEF e, p, r

-----------------------------------------------------------------------------
(* Words, and a block behind them.                                         *)

WholeTag == ToolStartTags[1]

\* There is no piece of a tag in the words, nor may a tag begin at their end.
Quiet(w) ==
    /\ \A i \in 1 .. Len(w) : w[i] \notin {DSML, CALLS, FUNCS}
    /\ Len(w) > 0 => w[Len(w)] # LT

\* A text begins with the last k pieces of a start tag, and what is behind
\* them ends as one does and is none.
BlockFrom(S, t, k) ==
    /\ t \in Seq(S) /\ k \in 0 .. 3 /\ Len(t) >= k + 4
    /\ \A i \in 1 .. k : t[i] = WholeTag[(3 - k) + i]
    /\ \A i \in 1 .. Len(t) : t[i] # FUNCS /\ (i > k /\ i < Len(t) => t[i] # CALLS)
    /\ t[Len(t) - 2] # LT

LEMMA QuietWhole ==
    ASSUME NEW S, NEW w \in Seq(S), Quiet(w)
    PROVE  /\ EarliestToolTagPos(w) < 0 /\ TrailingPartialTagLen(w) = 0
           /\ Split(w).reasoning = w /\ Split(w).content = <<>>
<1> DEFINE n == Len(w)
           h == TrailingPartialTagLen(w)
           e == EarliestToolTagPos(w)
<1>1. n \in Nat
  OBVIOUS
<1>2. \A d \in 1 .. n - 1 : w[d] # DSML \/ w[d + 1] \notin {CALLS, FUNCS}
  BY <1>1 DEF Quiet
<1>3. e = -1
  BY <1>2, NoTagThere
<1>4. h = 0
  <2>1. h = IF n = 0 THEN 0 ELSE IF w[n] = LT THEN 1 ELSE IF w[n] # DSML THEN 0
            ELSE IF n > 1 /\ w[n - 1] = LT THEN 2 ELSE 1
    BY HeldIs
  <2> HIDE DEF h
  <2>2. n > 0 => w[n] # LT /\ w[n] # DSML
    BY <1>1 DEF Quiet
  <2>3. QED  BY <1>1, <2>1, <2>2
<1> HIDE DEF e, h
<1>5. e < 0 /\ n - h = n
  BY <1>1, <1>3, <1>4
<1>6. Split(w).reasoning = Before(w, n - h) /\ Split(w).content = <<>>
  BY <1>5, SplitNoTag DEF e, h
<1>7. Before(w, n) = w
  BY DEF Before
<1>8. QED  BY <1>4, <1>5, <1>6, <1>7 DEF e, h

\* The pieces of the words and of as much of the text as has come.
LEMMA Behind ==
    ASSUME NEW S, NEW w \in Seq(S), NEW t \in Seq(S), NEW f \in 0 .. Len(t)
    PROVE  LET x == w \o Before(t, f)
           IN  /\ x \in Seq(S) /\ Len(x) = Len(w) + f /\ Len(w) \in Nat
               /\ \A i \in 1 .. Len(w) : x[i] = w[i]
               /\ \A i \in 1 .. f : x[Len(w) + i] = t[i]
               /\ Before(x, Len(w)) = w /\ From(x, Len(w)) = Before(t, f)
<1> DEFINE b == Before(t, f)
           x == w \o b
           m == Len(w)
<1>1. b \in Seq(S) /\ Len(b) = f /\ \A i \in 1 .. f : b[i] = t[i]
  BY Slices
<1> HIDE DEF b
<1>2. b \in Seq(S)
  BY <1>1
<1>3. /\ x \in Seq(S) /\ Len(x) = m + Len(b)
      /\ \A i \in 1 .. m : x[i] = w[i]
      /\ \A i \in 1 .. Len(b) : x[m + i] = b[i]
  BY <1>2, Joined
<1>4. m \in Nat /\ 0 \in 0 .. Len(b)
  BY <1>2
<1>5. From(x, m + 0) = From(b, 0) /\ Before(x, m + 0) = w \o Before(b, 0)
  BY <1>2, <1>4, RestOfSecond
<1>6. From(b, 0) = b /\ Before(b, 0) = <<>>
  BY <1>2 DEF From, Before
<1>7. w \o <<>> = w /\ m + 0 = m
  BY <1>4, ConcatEmptySeq
<1> HIDE DEF m
<1>8. From(x, m) = b /\ Before(x, m) = w
  BY <1>5, <1>6, <1>7
<1> HIDE DEF x
<1>9. QED  BY <1>1, <1>3, <1>4, <1>8 DEF x, b, m

\* Of a start tag whose end has come the content has the whole.
LEMMA BlockSplit ==
    ASSUME NEW S, LT \in S, DSML \in S, CALLS \in S, NEW w \in Seq(S), Quiet(w),
           NEW t, NEW k, BlockFrom(S, t, k), NEW f \in 0 .. Len(t), k >= 2, f >= k
    PROVE  LET x == w \o Before(t, f)
           IN  /\ EarliestToolTagPos(x) \in Int /\ EarliestToolTagPos(x) >= 0
               /\ Split(x).reasoning = w
               /\ Split(x).content = WholeTag \o From(Before(t, f), k)
<1> DEFINE x == w \o Before(t, f)
           c == Len(w)
           b == Before(t, f)
<1>1. t \in Seq(S) /\ k \in {2, 3} /\ f \in k .. Len(t) /\ Len(t) \in Nat /\ Len(t) >= k + 4
  BY DEF BlockFrom
<1>2. /\ x \in Seq(S) /\ Len(x) = c + f /\ c \in Nat
      /\ \A i \in 1 .. c : x[i] = w[i]
      /\ \A i \in 1 .. f : x[c + i] = t[i]
      /\ Before(x, c) = w /\ From(x, c) = b
  BY <1>1, Behind
<1> HIDE DEF x
<1>3. /\ WholeTag \in Seq(S) /\ Len(WholeTag) = 3
      /\ WholeTag[1] = LT /\ WholeTag[2] = DSML /\ WholeTag[3] = CALLS
  BY StartTags DEF WholeTag
<1>4. \A i \in 1 .. c : x[i] \notin {DSML, CALLS, FUNCS}
  BY <1>2 DEF Quiet
<1>5. b \in Seq(S) /\ Len(b) = f /\ \A i \in 1 .. f : b[i] = t[i]
  <2>1. f \in 0 .. Len(t)
    OBVIOUS
  <2>2. QED  BY <1>1, <2>1, Slices
<1>6. k \in 0 .. Len(b)
  BY <1>1, <1>5
<1> HIDE DEF b
<1> DEFINE front == Before(b, k)
           rest == From(b, k)
<1>7. /\ front \in Seq(S) /\ Len(front) = k /\ \A i \in 1 .. k : front[i] = b[i]
      /\ rest \in Seq(S) /\ front \o rest = b
  BY <1>5, <1>6, Slices
<1> HIDE DEF front, rest
<1>8. CASE k = 3
  <2>1. t[1] = LT /\ t[2] = DSML /\ t[3] = CALLS
    BY <1>3, <1>8 DEF BlockFrom
  <2>2. x[c + 1] = LT /\ x[c + 2] = DSML /\ x[c + 3] = CALLS /\ c + 3 =< Len(x)
    BY <1>1, <1>2, <1>8, <2>1
  <2>3. \A i \in 1 .. c + 2 : x[i] # CALLS
    <3> TAKE i \in 1 .. c + 2
    <3>1. i \in 1 .. c \/ i = c + 1 \/ i = c + 2
      BY <1>2
    <3>2. QED  BY <1>4, <2>2, <3>1, PiecesDiffer
  <2>4. /\ EarliestToolTagPos(x) \in Int /\ EarliestToolTagPos(x) >= 0
        /\ Split(x).reasoning = Before(x, c) /\ Split(x).content = From(x, c)
    BY <1>2, <2>2, <2>3, SplitAtStart
  <2>5. front = WholeTag
    <3>1. \A i \in 1 .. 3 : front[i] = WholeTag[i]
      <4> TAKE i \in 1 .. 3
      <4>1. front[i] = t[i] /\ i \in {1, 2, 3}
        BY <1>1, <1>5, <1>7, <1>8
      <4>2. QED  BY <1>3, <2>1, <4>1
    <3>2. Len(front) = Len(WholeTag) /\ \A i \in 1 .. Len(front) : front[i] = WholeTag[i]
      BY <1>3, <1>7, <1>8, <3>1
    <3>3. QED  BY <1>3, <1>7, <3>2, SameSequence
  <2>6. b = WholeTag \o rest
    BY <1>7, <2>5
  <2>7. QED  BY <1>2, <2>4, <2>6 DEF x, b, rest
<1>9. CASE k = 2
  <2>1. t[1] = DSML /\ t[2] = CALLS
    BY <1>3, <1>9 DEF BlockFrom
  <2>2. x[c + 1] = DSML /\ x[c + 2] = CALLS /\ c + 2 =< Len(x)
    BY <1>1, <1>2, <1>9, <2>1
  <2>3. \A i \in 1 .. c + 1 : x[i] # CALLS
    <3> TAKE i \in 1 .. c + 1
    <3>1. i \in 1 .. c \/ i = c + 1
      BY <1>2
    <3>2. QED  BY <1>4, <2>2, <3>1, PiecesDiffer
  <2>4. \A i \in 1 .. Len(x) : x[i] # FUNCS
    <3> TAKE i \in 1 .. Len(x)
    <3>1. i \in 1 .. c \/ (i - c \in 1 .. f /\ i = c + (i - c))
      BY <1>1, <1>2
    <3>2. CASE i - c \in 1 .. f /\ i = c + (i - c)
      <4>1. i - c \in 1 .. Len(t)
        BY <1>1, <3>2
      <4>2. x[i] = t[i - c]
        BY <1>2, <3>2
      <4>3. QED  BY <4>1, <4>2 DEF BlockFrom
    <3>3. QED  BY <1>4, <3>1, <3>2
  <2>5. Occurrences(ToolStartTags[1], x) = {}
    <3> SUFFICES ASSUME NEW q \in Occurrences(ToolStartTags[1], x) PROVE FALSE
      OBVIOUS
    <3>1. q \in Nat /\ q + 3 =< Len(x) /\ x[q + 1] = LT /\ x[q + 2] = DSML /\ x[q + 3] = CALLS
      BY <1>2, TagOccurs, SMTT(40)
    <3>2. q + 3 > c
      <4>1. q + 3 \notin 1 .. c
        BY <1>4, <3>1
      <4>2. QED  BY <1>2, <3>1, <4>1
    <3> DEFINE j == q + 3 - c
    <3>3. j \in 1 .. f /\ j \in 1 .. Len(t) /\ c + j = q + 3 /\ t[j] = CALLS
      BY <1>1, <1>2, <3>1, <3>2, SMTT(40)
    <3>4. j = 2 \/ j = Len(t)
      <4>1. j # 1
        BY <2>1, <3>3, PiecesDiffer
      <4>2. j > k /\ j < Len(t) => t[j] # CALLS
        BY <3>3 DEF BlockFrom
      <4> HIDE DEF j
      <4>3. QED  BY <1>1, <1>9, <3>3, <4>1, <4>2
    <3>5. CASE j = 2
      <4>1. q + 1 = c /\ q + 1 \in 1 .. c /\ c > 0
        BY <1>2, <3>1, <3>5
      <4>2. w[c] = LT
        BY <1>2, <3>1, <4>1
      <4>3. QED  BY <1>2, <4>1, <4>2 DEF Quiet
    <3>6. CASE j = Len(t)
      <4>1. q + 1 = c + (Len(t) - 2) /\ Len(t) - 2 \in 1 .. f
        BY <1>1, <1>2, <3>1, <3>3, <3>6, SMTT(40)
      <4>2. t[Len(t) - 2] = LT
        BY <1>2, <3>1, <4>1
      <4>3. QED  BY <4>2 DEF BlockFrom
    <3>7. QED  BY <3>4, <3>5, <3>6
  <2>6. /\ EarliestToolTagPos(x) \in Int /\ EarliestToolTagPos(x) >= 0
        /\ Split(x).reasoning = Before(x, c) /\ Split(x).content = Repaired(From(x, c))
    BY <1>2, <2>2, <2>3, <2>4, <2>5, SplitAtHeadless
  <2> DEFINE lt == <<LT>>
  <2>7. lt \in Seq(S) /\ Len(lt) = 1 /\ lt[1] = LT
    OBVIOUS
  <2> HIDE DEF lt
  <2>8. lt \o front = WholeTag
    <3>1. /\ lt \o front \in Seq(S) /\ Len(lt \o front) = 1 + 2
          /\ (lt \o front)[1] = LT
          /\ \A i \in 1 .. 2 : (lt \o front)[1 + i] = front[i]
      <4>1. 1 \in 1 .. Len(lt)
        BY <2>7
      <4>2. lt \in Seq(S) /\ front \in Seq(S)
        BY <1>7, <2>7
      <4>3. /\ lt \o front \in Seq(S) /\ Len(lt \o front) = Len(lt) + Len(front)
            /\ \A i \in 1 .. Len(lt) : (lt \o front)[i] = lt[i]
            /\ \A i \in 1 .. Len(front) : (lt \o front)[Len(lt) + i] = front[i]
        BY <4>2, Joined
      <4>4. QED  BY <1>7, <1>9, <2>7, <4>1, <4>3
    <3> DEFINE y == lt \o front
    <3> HIDE DEF y
    <3>2. front[1] = DSML /\ front[2] = CALLS
      BY <1>1, <1>5, <1>7, <1>9, <2>1
    <3>3. y[1] = LT /\ y[2] = DSML /\ y[3] = CALLS /\ Len(y) = 3 /\ y \in Seq(S)
      BY <3>1, <3>2 DEF y
    <3>4. Len(y) = Len(WholeTag) /\ \A i \in 1 .. Len(y) : y[i] = WholeTag[i]
      <4>1. \A i \in 1 .. 3 : i \in {1, 2, 3}
        OBVIOUS
      <4>2. QED  BY <1>3, <3>3, <4>1
    <3>5. QED  BY <1>3, <3>3, <3>4, SameSequence DEF y
  <2>9. lt \o (front \o rest) = (lt \o front) \o rest
    <3>1. lt \in Seq(S) /\ front \in Seq(S) /\ rest \in Seq(S)
      BY <1>7, <2>7
    <3>2. Joined3(Seq(S), lt, front, rest)
      BY <3>1, SeqJoinable DEF Joined3
    <3>3. QED  BY <3>2, JoinsThree, SMTT(40)
  <2>10. Repaired(b) = WholeTag \o rest
    BY <1>7, <2>8, <2>9 DEF Repaired, lt
  <2>11. QED  BY <1>2, <2>6, <2>10 DEF x, b, rest
<1>10. QED  BY <1>1, <1>8, <1>9

\* Until a tag has come, what is held is the part of it that has.
LEMMA BlockHeld ==
    ASSUME NEW S, NEW w \in Seq(S), Quiet(w), Len(w) > 0,
           NEW t, NEW k, BlockFrom(S, t, k), NEW f \in 0 .. Len(t)
    PROVE  LET x == w \o Before(t, f)
           IN  /\ f < k => EarliestToolTagPos(x) < 0
               /\ k >= 2 /\ f < k => TrailingPartialTagLen(x) = f
               /\ f =< k /\ TrailingPartialTagLen(x) > 0 =>
                    f > 0 /\ (f = k \/ k >= 2)
               /\ k < 2 /\ f =< k => TrailingPartialTagLen(x) = 0
               /\ f > 0 /\ TrailingPartialTagLen(x) = 0 => t[f] # LT
<1> DEFINE x == w \o Before(t, f)
           c == Len(w)
           n == Len(x)
           h == TrailingPartialTagLen(x)
<1>1. t \in Seq(S) /\ k \in 0 .. 3 /\ f \in Nat /\ f =< Len(t) /\ Len(t) \in Nat /\ Len(t) >= k + 4
  BY DEF BlockFrom
<1>2. /\ x \in Seq(S) /\ Len(x) = c + f /\ c \in Nat
      /\ \A i \in 1 .. c : x[i] = w[i]
      /\ \A i \in 1 .. f : x[c + i] = t[i]
  BY <1>1, Behind
<1> HIDE DEF x
<1>3. WholeTag[1] = LT /\ WholeTag[2] = DSML /\ WholeTag[3] = CALLS
  BY StartTags DEF WholeTag
<1>4. /\ \A i \in 1 .. c : x[i] \notin {DSML, CALLS, FUNCS}
      /\ x[c] # LT /\ c > 0
  <2>1. c > 0 /\ c \in 1 .. c
    BY <1>2
  <2>2. QED  BY <1>2, <2>1 DEF Quiet
<1>5. h = IF n = 0 THEN 0 ELSE IF x[n] = LT THEN 1 ELSE IF x[n] # DSML THEN 0
          ELSE IF n > 1 /\ x[n - 1] = LT THEN 2 ELSE 1
  BY <1>2, HeldIs
<1>6. \A i \in 1 .. k : t[i] = WholeTag[(3 - k) + i]
  BY DEF BlockFrom
\* What has come of the opener.
<1>7. f =< k => \A i \in 1 .. f : x[c + i] = WholeTag[(3 - k) + i]
  BY <1>1, <1>2, <1>6
<1> HIDE DEF h
<1>8. f = 0 => h = 0
  <2> SUFFICES ASSUME f = 0 PROVE h = 0
    OBVIOUS
  <2>1. n = c /\ n > 0 /\ n \in 1 .. c
    BY <1>2, <1>4
  <2>2. x[n] # LT /\ x[n] # DSML
    BY <1>4, <2>1
  <2>3. QED  BY <1>5, <2>1, <2>2
<1>9. f > 0 => n > 1 /\ n = c + f /\ n - 1 = c + (f - 1) /\ x[n] = t[f]
  BY <1>1, <1>2, <1>4
<1>10. k >= 2 /\ f < k => h = f
  <2> SUFFICES ASSUME k >= 2, f < k PROVE h = f
    OBVIOUS
  <2>1. CASE f = 0
    BY <1>8, <2>1
  <2>2. CASE f = 1 /\ k = 3
    <3>1. x[n] = LT
      BY <1>3, <1>7, <1>9, <2>2
    <3>2. QED  BY <1>5, <1>9, <2>2, <3>1
  <2>3. CASE f = 2 /\ k = 3
    <3>1. x[c + 1] = LT /\ x[c + 2] = DSML
      BY <1>3, <1>7, <2>3
    <3>2. x[n] = DSML /\ x[n - 1] = LT
      BY <1>2, <1>9, <2>3, <3>1
    <3>3. QED  BY <1>5, <1>9, <2>3, <3>2, PiecesDiffer
  <2>4. CASE f = 1 /\ k = 2
    <3>1. x[c + 1] = DSML
      BY <1>3, <1>7, <2>4
    <3>2. x[n] = DSML /\ x[n - 1] # LT
      BY <1>2, <1>4, <1>9, <2>4, <3>1
    <3>3. QED  BY <1>5, <1>9, <2>4, <3>2, PiecesDiffer
  <2>5. QED  BY <1>1, <2>1, <2>2, <2>3, <2>4
<1>11. k < 2 /\ f =< k => h = 0
  <2> SUFFICES ASSUME k < 2, f =< k PROVE h = 0
    OBVIOUS
  <2>1. CASE f = 0
    BY <1>8, <2>1
  <2>2. CASE f = 1 /\ k = 1
    <3>1. x[n] = CALLS
      BY <1>3, <1>7, <1>9, <2>2
    <3>2. QED  BY <1>5, <1>9, <3>1, PiecesDiffer
  <2>3. QED  BY <1>1, <2>1, <2>2
<1>12. f < k => EarliestToolTagPos(x) < 0
  <2> SUFFICES ASSUME f < k PROVE EarliestToolTagPos(x) < 0
    OBVIOUS
  <2>1. \A i \in 1 .. f : x[c + i] \in {LT, DSML}
    <3> TAKE i \in 1 .. f
    <3>1. x[c + i] = WholeTag[(3 - k) + i] /\ (3 - k) + i \in {1, 2}
      BY <1>1, <1>7, SMTT(40)
    <3>2. QED  BY <1>3, <3>1
  <2>2. \A d \in 1 .. n : x[d] \notin {CALLS, FUNCS}
    <3> TAKE d \in 1 .. n
    <3>1. d \in 1 .. c \/ (d - c \in 1 .. f /\ d = c + (d - c))
      BY <1>1, <1>2
    <3>2. CASE d - c \in 1 .. f /\ d = c + (d - c)
      BY <2>1, <3>2, PiecesDiffer
    <3>3. QED  BY <1>4, <3>1, <3>2
  <2>3. n \in Nat
    BY <1>1, <1>2
  <2>4. \A d \in 1 .. n - 1 : x[d] # DSML \/ x[d + 1] \notin {CALLS, FUNCS}
    BY <2>2, <2>3
  <2>5. EarliestToolTagPos(x) = -1
    BY <1>2, <2>4, NoTagThere
  <2>6. QED  BY <2>5
<1>13. f > 0 /\ h = 0 => t[f] # LT
  <2> SUFFICES ASSUME f > 0, h = 0, t[f] = LT PROVE FALSE
    OBVIOUS
  <2>1. h = 1
    BY <1>5, <1>9
  <2>2. QED  BY <2>1
<1>14. f =< k /\ h > 0 => f > 0 /\ (f = k \/ k >= 2)
  BY <1>1, <1>8, <1>11
<1>15. QED  BY <1>10, <1>11, <1>12, <1>13, <1>14 DEF x, h

\* Of an opener that has lost no more than its "<", the tag that is found
\* has all come.
LEMMA BlockFound ==
    ASSUME NEW S, NEW w \in Seq(S), Quiet(w), Len(w) > 0,
           NEW t, NEW k, BlockFrom(S, t, k), NEW f \in 0 .. Len(t),
           ~(EarliestToolTagPos(w \o Before(t, f)) < 0)
    PROVE  f >= k
<1>1. f < k => EarliestToolTagPos(w \o Before(t, f)) < 0
  BY BlockHeld
<1>2. f \in Int /\ k \in Int
  BY DEF BlockFrom
<1>3. QED  BY <1>1, <1>2

-----------------------------------------------------------------------------
(* The delta that has the end of thinking.                                 *)

\* Single pieces, a text, and single pieces.
LEMMA SinglesAround ==
    ASSUME NEW S, NEW u \in Seq(S), NEW c \in Seq(S), NEW v \in Seq(S),
           NEW seqs \in Seq(Seq(S)), Len(seqs) = Len(u) + 1 + Len(v),
           \A i \in 1 .. Len(u) : seqs[i] = <<u[i]>>,
           seqs[Len(u) + 1] = c,
           \A i \in 1 .. Len(v) : seqs[Len(u) + 1 + i] = <<v[i]>>
    PROVE  FlattenSeq(seqs) = u \o (c \o v)
<1> DEFINE m == Len(u)
           first == Before(seqs, m)
           last == From(seqs, m + 1)
           rest == From(seqs, m)
           n == Len(seqs)
<1>1. m \in Nat /\ Len(v) \in Nat /\ n = m + 1 + Len(v) /\ m \in 0 .. n - 1
  OBVIOUS
<1>6. m \in 0 .. n /\ m + 1 \in 0 .. n
  BY <1>1
<1>2. /\ first \in Seq(Seq(S)) /\ Len(first) = m /\ \A i \in 1 .. m : first[i] = seqs[i]
      /\ rest \in Seq(Seq(S)) /\ first \o rest = seqs
  BY <1>6, Slices, ZenonT(40)
<1>3. /\ last \in Seq(Seq(S)) /\ Len(last) = n - (m + 1)
      /\ \A i \in 1 .. n - (m + 1) : last[i] = seqs[i + (m + 1)]
  <2>1. \A p \in 0 .. n : /\ From(seqs, p) \in Seq(Seq(S)) /\ Len(From(seqs, p)) = n - p
                          /\ \A i \in 1 .. n - p : From(seqs, p)[i] = seqs[i + p]
    BY Slices, ZenonT(40)
  <2>2. QED  BY <1>6, <2>1, Zenon
<1>4. FlattenSeq(rest) = seqs[m + 1] \o FlattenSeq(last)
  BY <1>1, FlattenNext
<1>5. FlattenSeq(first) = u
  <2> HIDE DEF first
  <2>1. Len(first) = Len(u) /\ \A i \in 1 .. Len(u) : first[i] = <<u[i]>>
    BY <1>2
  <2>2. QED  BY <1>2, <2>1, SinglesJoined
<1>7. FlattenSeq(last) = v
  <2> HIDE DEF last
  <2>1. Len(last) = Len(v) /\ \A i \in 1 .. Len(v) : last[i] = <<v[i]>>
    <3>1. n - (m + 1) = Len(v)
      BY <1>1
    <3>2. ASSUME NEW i \in 1 .. Len(v) PROVE last[i] = <<v[i]>>
      <4>1. last[i] = seqs[i + (m + 1)] /\ i + (m + 1) = m + 1 + i
        BY <1>1, <1>3, <3>1
      <4>2. QED  BY <4>1
    <3>3. QED  BY <1>3, <3>1, <3>2
  <2>2. QED  BY <1>3, <2>1, SinglesJoined
<1> HIDE DEF first, rest, last
<1>8. FlattenSeq(first \o rest) = FlattenSeq(first) \o FlattenSeq(rest)
  BY <1>2, FlattenJoins
<1>9. QED  BY <1>2, <1>4, <1>5, <1>7, <1>8

\* It is found behind the words before it.
LEMMA FirstCloseAt ==
    ASSUME NEW S, LT \in S, CLOSE \in S, NEW u \in Seq(S), NEW v \in Seq(S),
           \A i \in 1 .. Len(u) : u[i] # CLOSE
    PROVE  LET x == u \o (ThinkClose \o v)
           IN  /\ Find(x, ThinkClose) = Len(u)
               /\ Before(x, Find(x, ThinkClose)) = u
               /\ From(x, Find(x, ThinkClose) + Len(ThinkClose)) = v
<1> DEFINE tag == ThinkClose
           w == tag \o v
           x == u \o w
           at == Find(x, tag)
<1>1. tag \in Seq(S) /\ Len(tag) = 2 /\ tag[1] = LT /\ tag[2] = CLOSE
  BY DEF ThinkClose
<1>2. StartsOnce(tag)
  BY <1>1, PiecesDiffer DEF StartsOnce
<1>3. Occurrences(tag, u) = {}
  <2> SUFFICES ASSUME NEW p \in Occurrences(tag, u) PROVE FALSE
    OBVIOUS
  <2>1. p \in Nat /\ p + 2 =< Len(u) /\ u[p + 2] = CLOSE
    BY CloseOccurs
  <2>2. p + 2 \in 1 .. Len(u)
    BY <2>1
  <2>3. QED  BY <2>1, <2>2
<1> HIDE DEF tag
<1>4. Len(u) \in Occurrences(tag, x) /\ \A q \in Occurrences(tag, x) : q >= Len(u)
  BY <1>1, <1>2, <1>3, FoundAtEnd
<1>5. w \in Seq(S) /\ Before(w, 2) = tag /\ From(w, 2) = v /\ Len(w) = 2 + Len(v)
  <2>1. tag \in Seq(S)
    BY <1>1
  <2>2. w \in Seq(S) /\ Len(w) = Len(tag) + Len(v)
    BY <2>1, Joined
  <2>3. 0 \in 0 .. Len(v)
    OBVIOUS
  <2>4. From(w, Len(tag) + 0) = From(v, 0) /\ Before(w, Len(tag) + 0) = tag \o Before(v, 0)
    BY <2>1, <2>3, RestOfSecond
  <2>5. From(v, 0) = v /\ Before(v, 0) = <<>> /\ tag \o <<>> = tag
    BY <2>1, ConcatEmptySeq DEF From, Before
  <2>6. Len(tag) + 0 = 2
    BY <1>1
  <2>7. QED  BY <1>1, <2>2, <2>4, <2>5, <2>6
<1> HIDE DEF w
<1>6. x \in Seq(S)
  BY <1>5, Joined
<1>7. at = Len(u)
  <2>1. /\ at \in Int /\ (at < 0 <=> Occurrences(tag, x) = {})
        /\ at >= 0 => at \in Occurrences(tag, x) /\ \A q \in Occurrences(tag, x) : at =< q
    BY <1>1, <1>6, FindIs
  <2> HIDE DEF at, x
  <2>2. Len(u) \in Nat
    OBVIOUS
  <2>3. QED  BY <1>4, <2>1, <2>2
<1>8. Before(x, Len(u)) = u /\ From(x, Len(u) + 2) = v
  <2>1. 0 \in 0 .. Len(w) /\ 2 \in 0 .. Len(w) /\ Len(u) \in Nat
    BY <1>5
  <2>2. Before(x, Len(u) + 0) = u \o Before(w, 0) /\ From(x, Len(u) + 2) = From(w, 2)
    BY <1>5, <2>1, RestOfSecond, SMTT(40)
  <2>3. Before(w, 0) = <<>> /\ u \o <<>> = u /\ Len(u) + 0 = Len(u)
    BY <1>5, <2>1, ConcatEmptySeq DEF Before
  <2>4. QED  BY <1>5, <2>2, <2>3
<1> HIDE DEF x, at
<1>9. QED  BY <1>1, <1>7, <1>8 DEF at, x, w, tag


\* What comes next of a text, behind what came.
LEMMA NextSlice ==
    ASSUME NEW S, NEW t \in Seq(S), NEW p \in Nat, NEW q \in Nat, p =< q, q =< Len(t)
    PROVE  /\ Before(t, p) \o SubSeq(t, p + 1, q) = Before(t, q)
           /\ SubSeq(t, p + 1, q) \in Seq(S) /\ Len(SubSeq(t, p + 1, q)) = q - p
           /\ \A i \in 1 .. q - p : SubSeq(t, p + 1, q)[i] = t[p + i]
<1> DEFINE a == Before(t, p)
           b == SubSeq(t, p + 1, q)
           c == Before(t, q)
<1>1. p \in 0 .. Len(t) /\ q \in 0 .. Len(t)
  OBVIOUS
<1>2. a \in Seq(S) /\ Len(a) = p /\ \A i \in 1 .. p : a[i] = t[i]
  BY <1>1, Slices
<1>3. c \in Seq(S) /\ Len(c) = q /\ \A i \in 1 .. q : c[i] = t[i]
  BY <1>1, Slices
<1>4. b \in Seq(S) /\ Len(b) = q - p /\ \A i \in 1 .. q - p : b[i] = t[p + i]
  OBVIOUS
<1> HIDE DEF a, b, c
<1> DEFINE x == a \o b
<1>5. /\ x \in Seq(S) /\ Len(x) = Len(a) + Len(b)
      /\ \A i \in 1 .. Len(a) : x[i] = a[i]
      /\ \A i \in 1 .. Len(b) : x[Len(a) + i] = b[i]
  <2>1. a \in Seq(S) /\ b \in Seq(S)
    BY <1>2, <1>4
  <2>2. QED  BY <2>1, Joined
<1> HIDE DEF x
<1>6. Len(x) = q
  BY <1>2, <1>4, <1>5
<1>7. ASSUME NEW i \in 1 .. q PROVE x[i] = c[i]
  <2>1. CASE i =< p
    <3>1. i \in 1 .. p
      BY <2>1
    <3>2. QED  BY <1>2, <1>3, <1>5, <3>1
  <2>2. CASE i > p
    <3>1. i - p \in 1 .. q - p /\ p + (i - p) = i
      BY <2>2
    <3>2. x[p + (i - p)] = b[i - p] /\ b[i - p] = t[p + (i - p)]
      BY <1>2, <1>4, <1>5, <3>1
    <3>3. QED  BY <1>3, <3>1, <3>2
  <2>3. QED  BY <2>1, <2>2
<1>8. x = c
  BY <1>3, <1>5, <1>6, <1>7, SameSequence
<1>9. QED  BY <1>4, <1>8 DEF x, a, b, c

\* All of the tag is taken out.
LEMMA CloseTaken == WithoutClose(ThinkClose) = <<>>
<1> DEFINE t == ThinkClose
           S == {LT, CLOSE}
           seqs == Kept(t)
<1>1. t \in Seq(S) /\ Len(t) = 2 /\ t[1] = LT /\ t[2] = CLOSE /\ DOMAIN t = 1 .. 2
  BY DEF ThinkClose
<1> HIDE DEF t, S
<1>2. /\ seqs \in Seq(Seq(S)) /\ Len(seqs) = 2 /\ WithoutClose(t) = FlattenSeq(seqs)
  BY <1>1, WithoutCloseTyped
<1>3. 1 \in Tagged(t) /\ 2 \in Tagged(t)
  <2>1. 1 \in 1 .. Len(t) /\ 2 \in 1 .. Len(t) /\ 1 + 1 = 2 /\ 2 - 1 = 1
    BY <1>1
  <2>2. 1 \in Tagged(t)
    BY <1>1, <2>1, TaggedIs
  <2>3. 2 \in Tagged(t)
    BY <1>1, <2>1, TaggedIs
  <2>4. QED  BY <2>2, <2>3
<1>4. seqs[1] = <<>> /\ seqs[2] = <<>>
  BY <1>1, <1>3 DEF Kept
<1> HIDE DEF seqs
<1>5. PICK f : Flattens(f, S, seqs)
  BY <1>2, FlattenFrom
<1>6. /\ f[0] = <<>> /\ FlattenSeq(seqs) = f[2]
      /\ f[1] = f[0] \o seqs[1] /\ f[2] = f[1] \o seqs[2]
  <2>1. /\ f[0] = <<>> /\ FlattenSeq(seqs) = f[Len(seqs)]
        /\ \A i \in 1 .. Len(seqs) : f[i] = f[i - 1] \o seqs[i]
    BY <1>5, Zenon DEF Flattens
  <2>2. 1 \in 1 .. Len(seqs) /\ 2 \in 1 .. Len(seqs) /\ 1 - 1 = 0 /\ 2 - 1 = 1
    BY <1>2
  <2>3. f[1] = f[1 - 1] \o seqs[1] /\ f[2] = f[2 - 1] \o seqs[2]
    BY <2>1, <2>2, Zenon
  <2>4. QED  BY <1>2, <2>1, <2>2, <2>3, Zenon
<1>7. <<>> \o <<>> = <<>>
  OBVIOUS
<1>8. QED  BY <1>2, <1>4, <1>6, <1>7 DEF t
=============================================================================
