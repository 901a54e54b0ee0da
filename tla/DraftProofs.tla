---------------------------- MODULE DraftProofs ----------------------------
(***************************************************************************)
(* Proofs about DraftWeights and DraftModel: the checkpoint fills every    *)
(* parameter once but the one it lacks, and a batch of drafts is what the  *)
(* reference drafts for each request alone.                                *)
(***************************************************************************)
EXTENDS DraftModel, FiniteSetTheorems, FunctionTheorems, SequenceTheorems,
        WellFoundedInduction, TLAPS

\* A set that has 0 and the successor of each of its numbers has all numbers:
\* there is no least one that it has not.  Induction is stated for sets here,
\* which the first-order provers can use.
LEMMA SetInduction ==
    ASSUME NEW S, 0 \in S, \A n \in Nat : n \in S => n + 1 \in S
    PROVE  Nat \subseteq S
<1> DEFINE R == OpToRel(<, Nat)
<1>1. IsWellFoundedOn(R, Nat)
  BY NatLessThanWellFounded
<1>2. \A x, y \in Nat : <<x, y>> \in R <=> x < y
  BY DEF OpToRel
<1> HIDE DEF R
<1>3. SUFFICES ASSUME Nat \ S # {} PROVE FALSE
  OBVIOUS
<1>4. PICK m \in Nat \ S : \A y \in Nat \ S : <<y, m>> \notin R
  BY <1>1, <1>3, WFMin
<1>5. m - 1 \in Nat \ S /\ m - 1 < m
  <2>1. m # 0 /\ (m - 1) + 1 = m
    OBVIOUS
  <2>2. QED  BY <2>1
<1>6. QED  BY <1>2, <1>4, <1>5

-----------------------------------------------------------------------------
(* The tensors of the draft, by module.                                    *)

InAttn(t) ==
    /\ t.mod = "attn" /\ t.file \in Stages /\ t.expert = NoExpert
    /\ \/ t.leaf \in {"wq_a", "wkv", "wq_b", "wo_a", "wo_b"} /\ t.kind \in WeightAndScale
       \/ t.leaf \in {"q_norm", "kv_norm", "attn_sink"} /\ t.kind = "weight"

InShared(t) ==
    /\ t.mod = "shared_experts" /\ t.file \in Stages /\ t.expert = NoExpert
    /\ t.leaf \in {"w1", "w2", "w3"} /\ t.kind \in WeightAndScale

InExperts(t) ==
    /\ t.mod = "experts" /\ t.file \in Stages /\ t.expert \in Experts
    /\ t.leaf \in {"w1", "w2", "w3"} /\ t.kind \in WeightAndScale

InGate(t) ==
    /\ t.mod = "gate" /\ t.file \in Stages /\ t.expert = NoExpert
    /\ t.leaf = "gate" /\ t.kind \in {"weight", "bias"}

InBlock(t) ==
    /\ t.mod = "block" /\ t.file \in Stages /\ t.expert = NoExpert
    /\ t.leaf \in {"attn_norm", "ffn_norm", "hc_attn", "hc_ffn"} /\ t.kind = "weight"

InMain(t) ==
    /\ t.file = 0 /\ t.expert = NoExpert
    /\ \/ t.mod = "main_proj" /\ t.leaf = "main_proj" /\ t.kind \in WeightAndScale
       \/ t.mod = "main_norm" /\ t.leaf = "main_norm" /\ t.kind = "weight"

InHeads(t) ==
    /\ t.file = LastStage /\ t.expert = NoExpert /\ t.kind = "weight"
    /\ \/ t.mod \in {"norm", "hc_head", "confidence_head"} /\ t.leaf = t.mod
       \/ t.mod = "markov_head" /\ t.leaf \in {"markov_w1", "markov_w2"}

InOuter(t) ==
    /\ t.file = Outer /\ t.expert = NoExpert /\ t.kind = "weight"
    /\ t.mod \in {"embed", "head"} /\ t.leaf = t.mod

InStage(t) == InAttn(t) \/ InShared(t) \/ InExperts(t) \/ InGate(t) \/ InBlock(t)
InDraft(t) == InStage(t) \/ InMain(t) \/ InHeads(t) \/ InOuter(t)

\* What is known of a tensor of the draft.
LEMMA TensorShape ==
    ASSUME NEW t \in DraftTensors
    PROVE  /\ InDraft(t)
           /\ t = [file |-> t.file, mod |-> t.mod, leaf |-> t.leaf, kind |-> t.kind,
                   expert |-> t.expert]
<1> USE DEF Tensor, WeightAndScale
<1>1. ASSUME NEW s \in Stages, t \in StageTensors(s)
      PROVE  /\ InStage(t)
             /\ t = [file |-> t.file, mod |-> t.mod, leaf |-> t.leaf, kind |-> t.kind,
                     expert |-> t.expert]
  <2>1. CASE t \in {Tensor(s, "attn", leaf, kind) :
              leaf \in {"wq_a", "wkv", "wq_b", "wo_a", "wo_b"}, kind \in WeightAndScale}
    BY <2>1 DEF InStage, InAttn
  <2>2. CASE t \in {Tensor(s, "attn", leaf, "weight") : leaf \in {"q_norm", "kv_norm", "attn_sink"}}
    BY <2>2 DEF InStage, InAttn
  <2>3. CASE t \in {Tensor(s, "shared_experts", leaf, kind) :
              leaf \in {"w1", "w2", "w3"}, kind \in WeightAndScale}
    BY <2>3 DEF InStage, InShared
  <2>4. CASE t \in {[Tensor(s, "experts", leaf, kind) EXCEPT !.expert = e] :
              leaf \in {"w1", "w2", "w3"}, kind \in WeightAndScale, e \in Experts}
    BY <2>4 DEF InStage, InExperts
  <2>5. CASE t \in {Tensor(s, "gate", "gate", kind) : kind \in {"weight", "bias"}}
    BY <2>5 DEF InStage, InGate
  <2>6. CASE t \in {Tensor(s, "block", leaf, "weight") : leaf \in {"attn_norm", "ffn_norm", "hc_attn", "hc_ffn"}}
    BY <2>6 DEF InStage, InBlock
  <2>7. QED  BY <1>1, <2>1, <2>2, <2>3, <2>4, <2>5, <2>6 DEF StageTensors
<1>2. CASE t \in FirstTensors
  BY <1>2 DEF FirstTensors, InDraft, InMain
<1>3. CASE t \in LastTensors
  BY <1>3 DEF LastTensors, InDraft, InHeads
<1>4. CASE t \in OuterTensors
  BY <1>4 DEF OuterTensors, InDraft, InOuter
<1>5. (\E s \in Stages : t \in StageTensors(s)) \/ t \in FirstTensors \/ t \in LastTensors
      \/ t \in OuterTensors
  BY DEF DraftTensors
<1>6. CASE \E s \in Stages : t \in StageTensors(s)
  BY <1>1, <1>6 DEF InDraft
<1>7. QED  BY <1>2, <1>3, <1>4, <1>5, <1>6

\* The record of a tensor of a known shape is a tensor of the draft.
LEMMA ShapeIsTensor ==
    ASSUME NEW file, NEW mod, NEW leaf, NEW kind, NEW expert,
           InDraft([file |-> file, mod |-> mod, leaf |-> leaf, kind |-> kind, expert |-> expert])
    PROVE  [file |-> file, mod |-> mod, leaf |-> leaf, kind |-> kind, expert |-> expert]
               \in DraftTensors
<1> DEFINE t == [file |-> file, mod |-> mod, leaf |-> leaf, kind |-> kind, expert |-> expert]
<1> USE DEF Tensor, WeightAndScale
<1>1. CASE InStage(t)
  <2>1. t.file \in Stages
    BY <1>1 DEF InStage, InAttn, InShared, InExperts, InGate, InBlock
  <2>2. t \in StageTensors(file)
    BY <1>1, SMTT(40) DEF InStage, InAttn, InShared, InExperts, InGate, InBlock, StageTensors
  <2>3. QED  BY <2>1, <2>2 DEF DraftTensors
<1>2. CASE InMain(t)
  <2>1. t \in FirstTensors
    BY <1>2 DEF InMain, FirstTensors
  <2>2. QED  BY <2>1 DEF DraftTensors
<1>3. CASE InHeads(t)
  <2>1. t \in LastTensors
    BY <1>3 DEF InHeads, LastTensors
  <2>2. QED  BY <2>1 DEF DraftTensors
<1>4. CASE InOuter(t)
  <2>1. t \in OuterTensors
    BY <1>4 DEF InOuter, OuterTensors
  <2>2. QED  BY <2>1 DEF DraftTensors
<1>5. QED  BY <1>1, <1>2, <1>3, <1>4 DEF InDraft

-----------------------------------------------------------------------------
(* Which patterns are found in the name of a tensor.                       *)

LEMMA PieceFound ==
    ASSUME NEW t, Len(Name(t)) \in Nat, NEW p
    PROVE  Matches(<<p>>, t) <=> \E i \in 1 .. Len(Name(t)) : Name(t)[i] = p
<1> DEFINE N == Name(t)
           n == Len(N)
<1>0. n \in Nat
  OBVIOUS
<1>1. Matches(<<p>>, t) <=> \E i \in 0 .. n - 1 : \A k \in 1 .. 1 : N[i + k] = <<p>>[k]
  BY DEF Matches
<1> HIDE DEF N, n
<1>2. \A i \in 0 .. n - 1 : (\A k \in 1 .. 1 : N[i + k] = <<p>>[k]) <=> N[i + 1] = p
  BY <1>0
<1>3. \A i \in 1 .. n : i - 1 \in 0 .. n - 1 /\ (i - 1) + 1 = i
  BY <1>0
<1>4. \A i \in 0 .. n - 1 : i + 1 \in 1 .. n
  BY <1>0
<1>5. Matches(<<p>>, t) <=> \E i \in 0 .. n - 1 : N[i + 1] = p
  BY <1>1, <1>2
<1>6. (\E i \in 0 .. n - 1 : N[i + 1] = p) <=> \E i \in 1 .. n : N[i] = p
  BY <1>3, <1>4
<1>7. QED  BY <1>5, <1>6 DEF N, n

LEMMA ThreeFound ==
    ASSUME NEW t, Len(Name(t)) \in Nat, NEW p, NEW q, NEW r
    PROVE  Matches(<<p, q, r>>, t) <=>
             \E i \in 1 .. Len(Name(t)) - 2 : Name(t)[i] = p /\ Name(t)[i + 1] = q /\ Name(t)[i + 2] = r
<1> DEFINE N == Name(t)
           n == Len(N)
<1>0. n \in Nat
  OBVIOUS
<1>1. Matches(<<p, q, r>>, t) <=>
        \E i \in 0 .. n - 3 : \A k \in 1 .. 3 : N[i + k] = <<p, q, r>>[k]
  BY DEF Matches
<1> HIDE DEF N, n
<1>2. ASSUME NEW i \in 0 .. n - 3
      PROVE  (\A k \in 1 .. 3 : N[i + k] = <<p, q, r>>[k])
               <=> N[i + 1] = p /\ N[(i + 1) + 1] = q /\ N[(i + 1) + 2] = r
  <2>1. /\ 1 \in 1 .. 3 /\ 2 \in 1 .. 3 /\ 3 \in 1 .. 3
        /\ \A k \in 1 .. 3 : k = 1 \/ k = 2 \/ k = 3
        /\ i + 2 = (i + 1) + 1 /\ i + 3 = (i + 1) + 2
    BY <1>0
  <2>2. <<p, q, r>>[1] = p /\ <<p, q, r>>[2] = q /\ <<p, q, r>>[3] = r
    BY <1>0
  <2>3. QED  BY <2>1, <2>2
<1>3. \A i \in 1 .. n - 2 : i - 1 \in 0 .. n - 3 /\ (i - 1) + 1 = i
  BY <1>0
<1>4. \A i \in 0 .. n - 3 : i + 1 \in 1 .. n - 2
  BY <1>0
<1>5. Matches(<<p, q, r>>, t) <=>
        \E i \in 0 .. n - 3 : N[i + 1] = p /\ N[(i + 1) + 1] = q /\ N[(i + 1) + 2] = r
  BY <1>1, <1>2
<1>6. (\E i \in 0 .. n - 3 : N[i + 1] = p /\ N[(i + 1) + 1] = q /\ N[(i + 1) + 2] = r)
        <=> \E i \in 1 .. n - 2 : N[i] = p /\ N[i + 1] = q /\ N[i + 2] = r
  BY <1>3, <1>4
<1>7. QED  BY <1>5, <1>6 DEF N, n

LEMMA Concatenated ==
    ASSUME NEW S, NEW s \in Seq(S), NEW u \in Seq(S)
    PROVE  /\ s \o u \in Seq(S) /\ Len(s \o u) = Len(s) + Len(u)
           /\ \A i \in 1 .. Len(s) : (s \o u)[i] = s[i]
           /\ \A i \in 1 .. Len(u) : (s \o u)[Len(s) + i] = u[i]
<1> DEFINE whole == s \o u
           m == Len(s)
           n == Len(u)
<1>1. whole \in Seq(S) /\ Len(whole) = m + n
      /\ \A i \in 1 .. m + n : whole[i] = IF i =< m THEN s[i] ELSE u[i - m]
  BY ConcatProperties
<1>2. m \in Nat /\ n \in Nat
  OBVIOUS
<1> HIDE DEF whole, m, n
<1>3. \A i \in 1 .. m : i \in 1 .. m + n /\ i =< m
  BY <1>2
<1>4. \A i \in 1 .. n : m + i \in 1 .. m + n /\ ~(m + i =< m) /\ (m + i) - m = i
  BY <1>2
<1>5. QED  BY <1>1, <1>3, <1>4 DEF whole, m, n

LEMMA DottedOne ==
    ASSUME NEW S, NEW word \in S, "." \in S, word \notin DOMAIN Compound
    PROVE  /\ Dotted(word) \in Seq(S) /\ Len(Dotted(word)) = 2
           /\ Dotted(word)[1] = word /\ Dotted(word)[2] = "."
<1> DEFINE s == <<word>>
           u == <<".">>
<1>1. s \in Seq(S) /\ Len(s) = 1 /\ s[1] = word
  OBVIOUS
<1>2. u \in Seq(S) /\ Len(u) = 1 /\ u[1] = "."
  OBVIOUS
<1>3. Dotted(word) = s \o u
  BY DEF Dotted
<1> HIDE DEF s, u
<1>4. /\ s \o u \in Seq(S) /\ Len(s \o u) = 1 + 1
      /\ \A i \in 1 .. 1 : (s \o u)[i] = s[i]
      /\ \A i \in 1 .. 1 : (s \o u)[1 + i] = u[i]
  <2>1. /\ s \o u \in Seq(S) /\ Len(s \o u) = Len(s) + Len(u)
        /\ \A i \in 1 .. Len(s) : (s \o u)[i] = s[i]
        /\ \A i \in 1 .. Len(u) : (s \o u)[Len(s) + i] = u[i]
    <3>1. s \in Seq(S) /\ u \in Seq(S)
      BY <1>1, <1>2
    <3>2. QED  BY <3>1, Concatenated
  <2> DEFINE whole == s \o u
  <2> HIDE DEF whole
  <2>2. QED  BY <1>1, <1>2, <2>1 DEF whole
<1> DEFINE whole == s \o u
<1> HIDE DEF whole
<1>5. whole \in Seq(S) /\ Len(whole) = 2 /\ whole[1] = s[1] /\ whole[2] = u[1]
  BY <1>4 DEF whole
<1>6. QED  BY <1>1, <1>2, <1>3, <1>5 DEF whole

LEMMA DottedTwo ==
    ASSUME NEW S, NEW word \in DOMAIN Compound, NEW a \in S, NEW b \in S, "." \in S,
           Compound[word] = <<a, b>>
    PROVE  /\ Dotted(word) \in Seq(S) /\ Len(Dotted(word)) = 3
           /\ Dotted(word)[1] = a /\ Dotted(word)[2] = b /\ Dotted(word)[3] = "."
<1> DEFINE s == <<a, b>>
           u == <<".">>
<1>1. s \in Seq(S) /\ Len(s) = 2 /\ s[1] = a /\ s[2] = b
  OBVIOUS
<1>2. u \in Seq(S) /\ Len(u) = 1 /\ u[1] = "."
  OBVIOUS
<1>3. Dotted(word) = s \o u
  BY DEF Dotted
<1> HIDE DEF s, u
<1>4. /\ s \o u \in Seq(S) /\ Len(s \o u) = 2 + 1
      /\ \A i \in 1 .. 2 : (s \o u)[i] = s[i]
      /\ \A i \in 1 .. 1 : (s \o u)[2 + i] = u[i]
  <2>1. /\ s \o u \in Seq(S) /\ Len(s \o u) = Len(s) + Len(u)
        /\ \A i \in 1 .. Len(s) : (s \o u)[i] = s[i]
        /\ \A i \in 1 .. Len(u) : (s \o u)[Len(s) + i] = u[i]
    <3>1. s \in Seq(S) /\ u \in Seq(S)
      BY <1>1, <1>2
    <3>2. QED  BY <3>1, Concatenated
  <2> DEFINE whole == s \o u
  <2> HIDE DEF whole
  <2>2. QED  BY <1>1, <1>2, <2>1 DEF whole
<1> DEFINE whole == s \o u
<1> HIDE DEF whole
<1>5. whole \in Seq(S) /\ Len(whole) = 3 /\ whole[1] = s[1] /\ whole[2] = s[2] /\ whole[3] = u[1]
  BY <1>4 DEF whole
<1>6. QED  BY <1>1, <1>2, <1>3, <1>5 DEF whole

\* What is before the leaf in a name, but for the first dot.
Front(t) == IF t.mod \in {"block", t.leaf} THEN <<>> ELSE Dotted(t.mod)

\* A name is a dot, what is before the leaf, and the leaf.
LEMMA NameIs ==
    ASSUME NEW S, "." \in S, NEW t, Dotted(t.leaf) \in Seq(S), Front(t) \in Seq(S)
    PROVE  /\ Len(Name(t)) = 1 + Len(Front(t)) + Len(Dotted(t.leaf))
           /\ Name(t)[1] = "."
           /\ \A i \in 1 .. Len(Front(t)) : Name(t)[1 + i] = Front(t)[i]
           /\ \A i \in 1 .. Len(Dotted(t.leaf)) :
                Name(t)[1 + Len(Front(t)) + i] = Dotted(t.leaf)[i]
<1> DEFINE X == Front(t)
           D == Dotted(t.leaf)
           x == Len(X)
           d == Len(D)
<1>0. /\ X \in Seq(S) /\ D \in Seq(S) /\ x = Len(X) /\ d = Len(D)
      /\ Name(t) = <<".">> \o X \o D
  BY Zenon DEF Name, Front
<1> HIDE DEF X, D, x, d
<1> DEFINE dot == <<".">>
           front == dot \o X
           N == front \o D
<1>1. dot \in Seq(S) /\ Len(dot) = 1 /\ dot[1] = "."
  OBVIOUS
<1>2. Name(t) = N
  BY Zenon, <1>0
<1> HIDE DEF dot
<1>3. /\ front \in Seq(S) /\ Len(front) = 1 + x /\ x \in Nat
      /\ \A i \in 1 .. 1 : front[i] = dot[i]
      /\ \A i \in 1 .. x : front[1 + i] = X[i]
  <2>1. /\ dot \o X \in Seq(S) /\ Len(dot \o X) = Len(dot) + Len(X)
        /\ \A i \in 1 .. Len(dot) : (dot \o X)[i] = dot[i]
        /\ \A i \in 1 .. Len(X) : (dot \o X)[Len(dot) + i] = X[i]
    <3>1. dot \in Seq(S) /\ X \in Seq(S)
      BY <1>0, <1>1
    <3>2. QED  BY <3>1, Concatenated
  <2>2. Len(X) \in Nat /\ x = Len(X)
    BY <1>0
  <2> HIDE DEF front
  <2> DEFINE whole == dot \o X
  <2>3. front = whole
    BY DEF front
  <2> HIDE DEF whole
  <2>4. QED  BY <1>1, <2>1, <2>2, <2>3 DEF whole
<1> HIDE DEF front
<1> DEFINE f == 1 + x
<1>4. f = Len(front)
  BY <1>3
<1> HIDE DEF f
<1>5. /\ Len(N) = f + d /\ f \in Nat /\ d \in Nat
      /\ \A i \in 1 .. f : N[i] = front[i]
      /\ \A i \in 1 .. d : N[f + i] = D[i]
  <2>1. /\ Len(front \o D) = Len(front) + Len(D)
        /\ \A i \in 1 .. Len(front) : (front \o D)[i] = front[i]
        /\ \A i \in 1 .. Len(D) : (front \o D)[Len(front) + i] = D[i]
    <3>1. front \in Seq(S) /\ D \in Seq(S)
      BY <1>0, <1>3
    <3>2. QED  BY <3>1, Concatenated
  <2>2. Len(D) \in Nat /\ Len(front) \in Nat /\ d = Len(D)
    BY <1>0, <1>3
  <2> HIDE DEF N
  <2> DEFINE whole == front \o D
  <2>3. N = whole
    BY DEF N
  <2> HIDE DEF whole
  <2>4. QED  BY <1>4, <2>1, <2>2, <2>3 DEF whole
<1> HIDE DEF N
<1>6. 1 \in 1 .. f /\ 1 \in 1 .. 1 /\ \A i \in 1 .. x : 1 + i \in 1 .. f
  BY <1>3 DEF f
<1>7. N[1] = "." /\ \A i \in 1 .. x : N[1 + i] = X[i]
  BY <1>1, <1>3, <1>5, <1>6
<1>8. /\ Len(Name(t)) = 1 + x + d /\ Name(t)[1] = "."
      /\ \A i \in 1 .. x : Name(t)[1 + i] = X[i]
      /\ \A i \in 1 .. d : Name(t)[1 + x + i] = D[i]
  BY <1>2, <1>3, <1>5, <1>7 DEF f
<1>9. QED  BY Zenon, <1>8 DEF X, D, x, d

LEMMA PlainName ==
    ASSUME NEW t, t.mod \in {"block", t.leaf}, t.leaf \notin DOMAIN Compound
    PROVE  Len(Name(t)) = 3 /\ Name(t)[1] = "." /\ Name(t)[2] = t.leaf /\ Name(t)[3] = "."
<1> DEFINE S == {".", t.leaf}
           D == Dotted(t.leaf)
           X == Front(t)
           N == Name(t)
<1>1. D \in Seq(S) /\ Len(D) = 2 /\ D[1] = t.leaf /\ D[2] = "."
  BY DottedOne
<1>2. X \in Seq(S) /\ Len(X) = 0
  BY DEF Front
<1>3. /\ Len(N) = 1 + Len(X) + Len(D) /\ N[1] = "."
      /\ \A i \in 1 .. Len(D) : N[1 + Len(X) + i] = D[i]
  <2>1. "." \in S /\ D \in Seq(S) /\ X \in Seq(S)
    BY <1>1, <1>2
  <2> HIDE DEF S
  <2>2. QED  BY <2>1, NameIs
<1> HIDE DEF N, D, X
<1>4. Len(N) = 3 /\ N[1] = "." /\ N[2] = D[1] /\ N[3] = D[2]
  BY <1>1, <1>2, <1>3
<1>5. QED  BY <1>1, <1>4 DEF N

LEMMA ModuleName ==
    ASSUME NEW t, t.mod \notin {"block", t.leaf}, t.mod \notin DOMAIN Compound,
           t.leaf \notin DOMAIN Compound
    PROVE  /\ Len(Name(t)) = 5 /\ Name(t)[1] = "." /\ Name(t)[2] = t.mod
           /\ Name(t)[3] = "." /\ Name(t)[4] = t.leaf /\ Name(t)[5] = "."
<1> DEFINE S == {".", t.leaf, t.mod}
           D == Dotted(t.leaf)
           X == Front(t)
           N == Name(t)
<1>1. D \in Seq(S) /\ Len(D) = 2 /\ D[1] = t.leaf /\ D[2] = "."
  BY DottedOne
<1>2. X \in Seq(S) /\ Len(X) = 2 /\ X[1] = t.mod /\ X[2] = "."
  <2>1. X = Dotted(t.mod)
    BY DEF Front
  <2>2. Dotted(t.mod) \in Seq(S) /\ Len(Dotted(t.mod)) = 2
        /\ Dotted(t.mod)[1] = t.mod /\ Dotted(t.mod)[2] = "."
    BY DottedOne
  <2>3. QED  BY Zenon, <2>1, <2>2
<1>3. /\ Len(N) = 1 + Len(X) + Len(D) /\ N[1] = "."
      /\ \A i \in 1 .. Len(X) : N[1 + i] = X[i]
      /\ \A i \in 1 .. Len(D) : N[1 + Len(X) + i] = D[i]
  <2>1. "." \in S /\ D \in Seq(S) /\ X \in Seq(S)
    BY <1>1, <1>2
  <2> HIDE DEF S
  <2>2. QED  BY <2>1, NameIs
<1> HIDE DEF N, D, X
<1>4. Len(N) = 5 /\ N[1] = "." /\ N[2] = X[1] /\ N[3] = X[2] /\ N[4] = D[1] /\ N[5] = D[2]
  BY <1>1, <1>2, <1>3
<1>5. QED  BY <1>1, <1>2, <1>4 DEF N

LEMMA SharedName ==
    ASSUME NEW t, t.mod = "shared_experts", t.leaf # "shared_experts", t.leaf \notin DOMAIN Compound
    PROVE  /\ Len(Name(t)) = 6 /\ Name(t)[1] = "." /\ Name(t)[2] = "shared_"
           /\ Name(t)[3] = "experts" /\ Name(t)[4] = "." /\ Name(t)[5] = t.leaf
           /\ Name(t)[6] = "."
<1> DEFINE S == {".", t.leaf, "shared_", "experts"}
           D == Dotted(t.leaf)
           X == Front(t)
           N == Name(t)
<1>1. D \in Seq(S) /\ Len(D) = 2 /\ D[1] = t.leaf /\ D[2] = "."
  <2>1. t.leaf \in S /\ "." \in S
    OBVIOUS
  <2> HIDE DEF S
  <2>2. QED  BY Zenon, <2>1, DottedOne
<1>2. X \in Seq(S) /\ Len(X) = 3 /\ X[1] = "shared_" /\ X[2] = "experts" /\ X[3] = "."
  <2>1. X = Dotted(t.mod)
    BY DEF Front
  <2>2. t.mod \in DOMAIN Compound /\ Compound[t.mod] = <<"shared_", "experts">>
        /\ "shared_" \in S /\ "experts" \in S /\ "." \in S
    BY DEF Compound
  <2>3. /\ Dotted(t.mod) \in Seq(S) /\ Len(Dotted(t.mod)) = 3
        /\ Dotted(t.mod)[1] = "shared_" /\ Dotted(t.mod)[2] = "experts" /\ Dotted(t.mod)[3] = "."
    <3> HIDE DEF S
    <3>1. QED  BY <2>2, DottedTwo
  <2>4. QED  BY Zenon, <2>1, <2>3
<1>3. /\ Len(N) = 1 + Len(X) + Len(D) /\ N[1] = "."
      /\ \A i \in 1 .. Len(X) : N[1 + i] = X[i]
      /\ \A i \in 1 .. Len(D) : N[1 + Len(X) + i] = D[i]
  <2>1. "." \in S /\ D \in Seq(S) /\ X \in Seq(S)
    BY <1>1, <1>2
  <2> HIDE DEF S
  <2>2. QED  BY <2>1, NameIs
<1> HIDE DEF N, D, X
<1>4. /\ Len(N) = 6 /\ N[1] = "." /\ N[2] = X[1] /\ N[3] = X[2] /\ N[4] = X[3]
      /\ N[5] = D[1] /\ N[6] = D[2]
  BY <1>1, <1>2, <1>3
<1>5. QED  BY <1>1, <1>2, <1>4 DEF N

LEMMA MarkovName ==
    ASSUME NEW t, t.mod = "markov_head", t.leaf \in {"markov_w1", "markov_w2"}
    PROVE  Len(Name(t)) = 7 /\ Name(t)[2] = "markov_"
<1> DEFINE S == {".", "markov_", "head", "w1", "w2"}
           D == Dotted(t.leaf)
           X == Front(t)
           N == Name(t)
<1>1. Dotted("markov_w1") \in Seq(S) /\ Len(Dotted("markov_w1")) = 3
  <2>1. "markov_w1" \in DOMAIN Compound /\ Compound["markov_w1"] = <<"markov_", "w1">>
        /\ "markov_" \in S /\ "w1" \in S /\ "." \in S
    BY DEF Compound
  <2> HIDE DEF S
  <2>2. QED  BY <2>1, DottedTwo
<1>2. Dotted("markov_w2") \in Seq(S) /\ Len(Dotted("markov_w2")) = 3
  <2>1. "markov_w2" \in DOMAIN Compound /\ Compound["markov_w2"] = <<"markov_", "w2">>
        /\ "markov_" \in S /\ "w2" \in S /\ "." \in S
    BY DEF Compound
  <2> HIDE DEF S
  <2>2. QED  BY <2>1, DottedTwo
<1>3. D \in Seq(S) /\ Len(D) = 3
  <2> HIDE DEF S
  <2>1. QED  BY <1>1, <1>2
<1>4. X \in Seq(S) /\ Len(X) = 3 /\ X[1] = "markov_"
  <2>1. X = Dotted(t.mod)
    BY DEF Front
  <2>2. t.mod \in DOMAIN Compound /\ Compound[t.mod] = <<"markov_", "head">>
        /\ "markov_" \in S /\ "head" \in S /\ "." \in S
    BY DEF Compound
  <2>3. Dotted(t.mod) \in Seq(S) /\ Len(Dotted(t.mod)) = 3 /\ Dotted(t.mod)[1] = "markov_"
    <3> HIDE DEF S
    <3>1. QED  BY <2>2, DottedTwo
  <2>4. QED  BY Zenon, <2>1, <2>3
<1>5. Len(N) = 1 + Len(X) + Len(D) /\ \A i \in 1 .. Len(X) : N[1 + i] = X[i]
  <2>1. "." \in S /\ D \in Seq(S) /\ X \in Seq(S)
    BY <1>3, <1>4
  <2> HIDE DEF S
  <2>2. QED  BY <2>1, NameIs
<1> HIDE DEF N, D, X
<1>6. Len(N) = 7 /\ N[2] = X[1]
  BY <1>3, <1>4, <1>5
<1>7. QED  BY <1>4, <1>6 DEF N

\* Which one or three pieces are found in a name, by its shape.
LEMMA PlainFound ==
    ASSUME NEW t, t.mod \in {"block", t.leaf}, t.leaf \notin DOMAIN Compound
    PROVE  /\ \A p : Matches(<<p>>, t) <=> p \in {".", t.leaf}
           /\ \A p, q, r : Matches(<<p, q, r>>, t) <=> p = "." /\ q = t.leaf /\ r = "."
<1> DEFINE N == Name(t)
<1>1. Len(N) = 3 /\ N[1] = "." /\ N[2] = t.leaf /\ N[3] = "."
  BY PlainName
<1>2. \A p : Matches(<<p>>, t) <=> \E i \in 1 .. 3 : N[i] = p
  <2>1. Len(N) \in Nat
    BY <1>1
  <2>2. \A p : Matches(<<p>>, t) <=> \E i \in 1 .. Len(N) : N[i] = p
    BY <2>1, PieceFound
  <2> HIDE DEF N
  <2>3. QED  BY <1>1, <2>2
<1>3. ASSUME NEW p, NEW q, NEW r
      PROVE  Matches(<<p, q, r>>, t)
               <=> \E i \in 1 .. 1 : N[i] = p /\ N[i + 1] = q /\ N[i + 2] = r
  <2>1. Len(N) \in Nat
    BY <1>1
  <2>2. Matches(<<p, q, r>>, t)
          <=> \E i \in 1 .. Len(N) - 2 : N[i] = p /\ N[i + 1] = q /\ N[i + 2] = r
    BY <2>1, ThreeFound
  <2>3. Len(N) - 2 = 1
    BY <1>1
  <2> HIDE DEF N
  <2>4. QED  BY <2>2, <2>3
<1> HIDE DEF N
<1>4. QED  BY <1>1, <1>2, <1>3

LEMMA ModuleFound ==
    ASSUME NEW t, t.mod \notin {"block", t.leaf}, t.mod \notin DOMAIN Compound,
           t.leaf \notin DOMAIN Compound
    PROVE  /\ \A p : Matches(<<p>>, t) <=> p \in {".", t.mod, t.leaf}
           /\ \A p, q, r : Matches(<<p, q, r>>, t) <=>
                \/ p = "." /\ q = t.mod /\ r = "."
                \/ p = t.mod /\ q = "." /\ r = t.leaf
                \/ p = "." /\ q = t.leaf /\ r = "."
<1> DEFINE N == Name(t)
<1>1. /\ Len(N) = 5 /\ N[1] = "." /\ N[2] = t.mod /\ N[3] = "." /\ N[4] = t.leaf
      /\ N[5] = "."
  BY ModuleName
<1>2. \A p : Matches(<<p>>, t) <=> \E i \in 1 .. 5 : N[i] = p
  <2>1. Len(N) \in Nat
    BY <1>1
  <2>2. \A p : Matches(<<p>>, t) <=> \E i \in 1 .. Len(N) : N[i] = p
    BY <2>1, PieceFound
  <2> HIDE DEF N
  <2>3. QED  BY <1>1, <2>2
<1>3. ASSUME NEW p, NEW q, NEW r
      PROVE  Matches(<<p, q, r>>, t)
               <=> \E i \in 1 .. 3 : N[i] = p /\ N[i + 1] = q /\ N[i + 2] = r
  <2>1. Len(N) \in Nat
    BY <1>1
  <2>2. Matches(<<p, q, r>>, t)
          <=> \E i \in 1 .. Len(N) - 2 : N[i] = p /\ N[i + 1] = q /\ N[i + 2] = r
    BY <2>1, ThreeFound
  <2>3. Len(N) - 2 = 3
    BY <1>1
  <2> HIDE DEF N
  <2>4. QED  BY <2>2, <2>3
<1> HIDE DEF N
<1>4. QED  BY <1>1, <1>2, <1>3

LEMMA SharedFound ==
    ASSUME NEW t, t.mod = "shared_experts", t.leaf # "shared_experts", t.leaf \notin DOMAIN Compound
    PROVE  /\ \A p : Matches(<<p>>, t) <=> p \in {".", "shared_", "experts", t.leaf}
           /\ \A p, q, r : Matches(<<p, q, r>>, t) <=>
                \/ p = "." /\ q = "shared_" /\ r = "experts"
                \/ p = "shared_" /\ q = "experts" /\ r = "."
                \/ p = "experts" /\ q = "." /\ r = t.leaf
                \/ p = "." /\ q = t.leaf /\ r = "."
<1> DEFINE N == Name(t)
<1>1. /\ Len(N) = 6 /\ N[1] = "." /\ N[2] = "shared_" /\ N[3] = "experts" /\ N[4] = "."
      /\ N[5] = t.leaf /\ N[6] = "."
  BY SharedName
<1>2. \A p : Matches(<<p>>, t) <=> \E i \in 1 .. 6 : N[i] = p
  <2>1. Len(N) \in Nat
    BY <1>1
  <2>2. \A p : Matches(<<p>>, t) <=> \E i \in 1 .. Len(N) : N[i] = p
    BY <2>1, PieceFound
  <2> HIDE DEF N
  <2>3. QED  BY <1>1, <2>2
<1>3. ASSUME NEW p, NEW q, NEW r
      PROVE  Matches(<<p, q, r>>, t)
               <=> \E i \in 1 .. 4 : N[i] = p /\ N[i + 1] = q /\ N[i + 2] = r
  <2>1. Len(N) \in Nat
    BY <1>1
  <2>2. Matches(<<p, q, r>>, t)
          <=> \E i \in 1 .. Len(N) - 2 : N[i] = p /\ N[i + 1] = q /\ N[i + 2] = r
    BY <2>1, ThreeFound
  <2>3. Len(N) - 2 = 4
    BY <1>1
  <2> HIDE DEF N
  <2>4. QED  BY <2>2, <2>3
<1> HIDE DEF N
<1>4. QED  BY <1>1, <1>2, <1>3

LEMMA MarkovFound ==
    ASSUME NEW t, t.mod = "markov_head", t.leaf \in {"markov_w1", "markov_w2"}
    PROVE  Matches(<<"markov_">>, t)
<1> DEFINE N == Name(t)
<1>1. Len(N) = 7 /\ N[2] = "markov_"
  BY MarkovName
<1>2. \A p : Matches(<<p>>, t) <=> \E i \in 1 .. 7 : N[i] = p
  <2>1. Len(N) \in Nat
    BY <1>1
  <2>2. \A p : Matches(<<p>>, t) <=> \E i \in 1 .. Len(N) : N[i] = p
    BY <2>1, PieceFound
  <2> HIDE DEF N
  <2>3. QED  BY <1>1, <2>2
<1> HIDE DEF N
<1>3. QED  BY <1>1, <1>2

LEMMA StacksAre ==
    /\ Len(Stacks) = 4
    /\ Stacks[1].pattern = <<"w1">> /\ Stacks[2].pattern = <<"w3">>
    /\ Stacks[3].pattern = <<"attn", ".", "wq_a">> /\ Stacks[4].pattern = <<"attn", ".", "wkv">>
    /\ Stacks[1].leaf = "w1" /\ Stacks[2].leaf = "w3"
    /\ Stacks[3].leaf = "wq_a" /\ Stacks[4].leaf = "wkv"
    /\ Stacks[1].param = "gate_up_proj" /\ Stacks[2].param = "gate_up_proj"
    /\ Stacks[3].param = "fused_wqa_wkv" /\ Stacks[4].param = "fused_wqa_wkv"
    /\ Stacks[1].part = 0 /\ Stacks[2].part = 1 /\ Stacks[3].part = 0 /\ Stacks[4].part = 1
BY DEF Stacks

Found(t, n) == MayStack(t) /\ Matches(Stacks[n].pattern, t)

LEMMA OneFound ==
    ASSUME NEW t, NEW k \in 1 .. 4, \A n \in 1 .. 4 : Found(t, n) <=> n = k
    PROVE  StackOf(t) = {Stacks[k]}
<1>1. Len(Stacks) = 4
  BY StacksAre
<1>2. MayStack(t) /\ \A n \in 1 .. 4 : Matches(Stacks[n].pattern, t) <=> n = k
  BY Zenon DEF Found
<1> DEFINE taken == {n \in 1 .. Len(Stacks) :
                        /\ MayStack(t)
                        /\ Matches(Stacks[n].pattern, t)
                        /\ \A m \in 1 .. n - 1 : ~Matches(Stacks[m].pattern, t)}
<1>3. StackOf(t) = {Stacks[n] : n \in taken}
  BY Zenon DEF StackOf
<1>4. \A m \in 1 .. k - 1 : m \in 1 .. 4 /\ m # k
  OBVIOUS
<1>5. taken = {k}
  BY <1>1, <1>2, <1>4
<1> HIDE DEF taken
<1>6. QED  BY <1>3, <1>5

LEMMA NoneFound ==
    ASSUME NEW t, \A n \in 1 .. 4 : ~Found(t, n)
    PROVE  StackOf(t) = {}
<1>1. Len(Stacks) = 4
  BY StacksAre
<1>2. QED  BY <1>1 DEF StackOf, Found

LEMMA FourFound ==
    ASSUME NEW t
    PROVE  /\ Found(t, 1) <=> MayStack(t) /\ Matches(<<"w1">>, t)
           /\ Found(t, 2) <=> MayStack(t) /\ Matches(<<"w3">>, t)
           /\ Found(t, 3) <=> MayStack(t) /\ Matches(<<"attn", ".", "wq_a">>, t)
           /\ Found(t, 4) <=> MayStack(t) /\ Matches(<<"attn", ".", "wkv">>, t)
<1>1. /\ Stacks[1].pattern = <<"w1">> /\ Stacks[2].pattern = <<"w3">>
      /\ Stacks[3].pattern = <<"attn", ".", "wq_a">> /\ Stacks[4].pattern = <<"attn", ".", "wkv">>
  BY Zenon, StacksAre
<1>2. QED  BY Zenon, <1>1 DEF Found

-----------------------------------------------------------------------------
(* Where a tensor goes.                                                    *)

\* The parameter and the part of it, by the names of a tensor.
ParamOf(t) ==
    CASE t.mod = "attn" /\ t.leaf \in {"wq_a", "wkv"} -> "fused_wqa_wkv"
      [] t.mod = "shared_experts" /\ t.leaf \in {"w1", "w3"} -> "gate_up_proj"
      [] t.mod = "shared_experts" /\ t.leaf = "w2" -> "down_proj"
      [] t.mod = "gate" /\ t.kind = "bias" -> "e_score_correction_bias"
      [] OTHER -> t.leaf

PartOf(t) ==
    CASE t.mod = "experts" -> t.expert
      [] t.mod = "attn" /\ t.leaf = "wkv" -> 1
      [] t.mod = "shared_experts" /\ t.leaf = "w3" -> 1
      [] OTHER -> 0

Place(t) == Shard(StageOf(t), t.mod, ParamOf(t), KindOf(t), PartOf(t))

Kept(t) == t.expert \in LocalExperts \cup {NoExpert}

LEMMA Stacked ==
    ASSUME NEW t, NEW k \in 1 .. 4, \A n \in 1 .. 4 : Found(t, n) <=> n = k,
           t.leaf = Stacks[k].leaf
    PROVE  Destination(t)
             = {Shard(StageOf(t), t.mod, Stacks[k].param, KindOf(t), Stacks[k].part)}
<1> DEFINE stack == Stacks[k]
<1>1. StackOf(t) = {stack}
  BY OneFound
<1>2. t.leaf = stack.leaf
  OBVIOUS
<1> HIDE DEF stack
<1>3. StackOf(t) # {}
  BY <1>1
<1>4. Replaced(t, stack) = stack.param
  BY <1>2 DEF Replaced
<1>5. {Shard(StageOf(t), t.mod, Replaced(t, st), KindOf(t), st.part) : st \in StackOf(t)}
        = {Shard(StageOf(t), t.mod, stack.param, KindOf(t), stack.part)}
  BY <1>1, <1>4
<1>6. QED  BY Zenon, <1>3, <1>5 DEF Destination, stack

\* What is found in the names of a module.
LEMMA AttnFound ==
    ASSUME NEW t, InAttn(t)
    PROVE  /\ ~Found(t, 1) /\ ~Found(t, 2)
           /\ Found(t, 3) <=> t.leaf = "wq_a"
           /\ Found(t, 4) <=> t.leaf = "wkv"
<1>1. /\ t.mod \notin {"block", t.leaf} /\ t.mod \notin DOMAIN Compound
      /\ t.leaf \notin DOMAIN Compound
  BY DEF InAttn, Compound
<1>2. /\ \A p : Matches(<<p>>, t) <=> p \in {".", t.mod, t.leaf}
      /\ \A p, q, r : Matches(<<p, q, r>>, t) <=>
           \/ p = "." /\ q = t.mod /\ r = "."
           \/ p = t.mod /\ q = "." /\ r = t.leaf
           \/ p = "." /\ q = t.leaf /\ r = "."
  BY <1>1, ModuleFound
<1>3. /\ t.mod = "attn"
      /\ t.leaf \in {"wq_a", "wkv", "wq_b", "wo_a", "wo_b", "q_norm", "kv_norm", "attn_sink"}
  BY DEF InAttn
<1>4. /\ ~Matches(<<"w1">>, t) /\ ~Matches(<<"w3">>, t) /\ ~Matches(<<"markov_">>, t)
      /\ Matches(<<"attn", ".", "wq_a">>, t) <=> t.leaf = "wq_a"
      /\ Matches(<<"attn", ".", "wkv">>, t) <=> t.leaf = "wkv"
      /\ ~Matches(<<".", "experts", ".">>, t)
  BY <1>2, <1>3
<1>5. QED  BY Zenon, <1>4, FourFound DEF MayStack

LEMMA SharedExpertsFound ==
    ASSUME NEW t, InShared(t)
    PROVE  /\ Found(t, 1) <=> t.leaf = "w1"
           /\ Found(t, 2) <=> t.leaf = "w3"
           /\ ~Found(t, 3) /\ ~Found(t, 4)
<1>1. /\ t.mod = "shared_experts" /\ t.leaf \in {"w1", "w2", "w3"}
      /\ t.leaf # "shared_experts" /\ t.leaf \notin DOMAIN Compound
  BY DEF InShared, Compound
<1>2. /\ \A p : Matches(<<p>>, t) <=> p \in {".", "shared_", "experts", t.leaf}
      /\ \A p, q, r : Matches(<<p, q, r>>, t) <=>
           \/ p = "." /\ q = "shared_" /\ r = "experts"
           \/ p = "shared_" /\ q = "experts" /\ r = "."
           \/ p = "experts" /\ q = "." /\ r = t.leaf
           \/ p = "." /\ q = t.leaf /\ r = "."
  BY <1>1, SharedFound
<1>3. /\ Matches(<<"w1">>, t) <=> t.leaf = "w1"
      /\ Matches(<<"w3">>, t) <=> t.leaf = "w3"
      /\ ~Matches(<<"attn", ".", "wq_a">>, t) /\ ~Matches(<<"attn", ".", "wkv">>, t)
      /\ ~Matches(<<".", "experts", ".">>, t) /\ ~Matches(<<"markov_">>, t)
  BY <1>1, <1>2
<1>4. QED  BY Zenon, <1>3, FourFound DEF MayStack

LEMMA ExpertsNotFound ==
    ASSUME NEW t, InExperts(t)
    PROVE  \A n \in 1 .. 4 : ~Found(t, n)
<1>1. /\ t.mod \notin {"block", t.leaf} /\ t.mod \notin DOMAIN Compound
      /\ t.leaf \notin DOMAIN Compound /\ t.mod = "experts"
  BY DEF InExperts, Compound
<1>2. \A p, q, r : Matches(<<p, q, r>>, t) <=>
           \/ p = "." /\ q = t.mod /\ r = "."
           \/ p = t.mod /\ q = "." /\ r = t.leaf
           \/ p = "." /\ q = t.leaf /\ r = "."
  BY <1>1, ModuleFound
<1>3. Matches(<<".", "experts", ".">>, t)
  BY Zenon, <1>1, <1>2
<1>4. QED  BY Zenon, <1>3 DEF Found, MayStack

LEMMA OthersNotFound ==
    ASSUME NEW t, InGate(t) \/ InBlock(t) \/ InMain(t) \/ InHeads(t) \/ InOuter(t)
    PROVE  \A n \in 1 .. 4 : ~Found(t, n)
<1>1. CASE t.mod = "markov_head"
  <2>1. t.leaf \in {"markov_w1", "markov_w2"}
    BY <1>1 DEF InGate, InBlock, InMain, InHeads, InOuter
  <2>2. Matches(<<"markov_">>, t)
    BY <1>1, <2>1, MarkovFound
  <2>3. QED  BY Zenon, <2>2 DEF Found, MayStack
<1>2. CASE t.mod # "markov_head"
  <2>1. /\ t.mod \in {"block", t.leaf}
        /\ t.leaf \in {"gate", "attn_norm", "ffn_norm", "hc_attn", "hc_ffn", "main_proj",
                       "main_norm", "norm", "hc_head", "confidence_head", "embed", "head"}
    BY <1>2 DEF InGate, InBlock, InMain, InHeads, InOuter
  <2>2. t.leaf \notin DOMAIN Compound
    BY <2>1 DEF Compound
  <2>3. /\ \A p : Matches(<<p>>, t) <=> p \in {".", t.leaf}
        /\ \A p, q, r : Matches(<<p, q, r>>, t) <=> p = "." /\ q = t.leaf /\ r = "."
    BY <2>1, <2>2, PlainFound
  <2>4. /\ ~Matches(<<"w1">>, t) /\ ~Matches(<<"w3">>, t)
        /\ ~Matches(<<"attn", ".", "wq_a">>, t) /\ ~Matches(<<"attn", ".", "wkv">>, t)
    BY <2>1, <2>3
  <2>5. ~Found(t, 1) /\ ~Found(t, 2) /\ ~Found(t, 3) /\ ~Found(t, 4)
    BY Zenon, <2>4, FourFound
  <2>6. QED  BY <2>5
<1>3. QED  BY <1>1, <1>2

\* A tensor of the draft is written to its place, and to no other, unless it
\* is of an expert that another rank has.
LEMMA Destinations ==
    ASSUME NEW t, InDraft(t)
    PROVE  /\ Destination(t) = IF Kept(t) THEN {Place(t)} ELSE {}
           /\ Kept(t) \/ t.mod = "experts"
<1>1. CASE InAttn(t)
  <2>1. CASE t.leaf = "wq_a"
    <3>1. \A n \in 1 .. 4 : Found(t, n) <=> n = 3
      BY <1>1, <2>1, AttnFound
    <3>2. t.leaf = Stacks[3].leaf /\ Stacks[3].param = "fused_wqa_wkv" /\ Stacks[3].part = 0
      BY <2>1, StacksAre
    <3>3. Destination(t)
            = {Shard(StageOf(t), t.mod, Stacks[3].param, KindOf(t), Stacks[3].part)}
      BY <3>1, <3>2, Stacked
    <3>4. Destination(t) = {Shard(StageOf(t), t.mod, "fused_wqa_wkv", KindOf(t), 0)}
      BY Zenon, <3>2, <3>3
    <3>5. QED  BY <1>1, <2>1, <3>4 DEF InAttn, Place, ParamOf, PartOf, Kept
  <2>2. CASE t.leaf = "wkv"
    <3>1. \A n \in 1 .. 4 : Found(t, n) <=> n = 4
      BY <1>1, <2>2, AttnFound
    <3>2. t.leaf = Stacks[4].leaf /\ Stacks[4].param = "fused_wqa_wkv" /\ Stacks[4].part = 1
      BY <2>2, StacksAre
    <3>3. Destination(t)
            = {Shard(StageOf(t), t.mod, Stacks[4].param, KindOf(t), Stacks[4].part)}
      BY <3>1, <3>2, Stacked
    <3>4. Destination(t) = {Shard(StageOf(t), t.mod, "fused_wqa_wkv", KindOf(t), 1)}
      BY Zenon, <3>2, <3>3
    <3>5. QED  BY <1>1, <2>2, <3>4 DEF InAttn, Place, ParamOf, PartOf, Kept
  <2>3. CASE t.leaf \notin {"wq_a", "wkv"}
    <3>1. \A n \in 1 .. 4 : ~Found(t, n)
      BY <1>1, <2>3, AttnFound
    <3>2. StackOf(t) = {}
      BY <3>1, NoneFound
    <3>3. QED  BY <1>1, <2>3, <3>2 DEF InAttn, Destination, Place, Kept, ParamOf, PartOf, Renamed
  <2>4. QED  BY <2>1, <2>2, <2>3
<1>2. CASE InShared(t)
  <2>1. CASE t.leaf = "w1"
    <3>1. \A n \in 1 .. 4 : Found(t, n) <=> n = 1
      BY <1>2, <2>1, SharedExpertsFound
    <3>2. t.leaf = Stacks[1].leaf /\ Stacks[1].param = "gate_up_proj" /\ Stacks[1].part = 0
      BY <2>1, StacksAre
    <3>3. Destination(t)
            = {Shard(StageOf(t), t.mod, Stacks[1].param, KindOf(t), Stacks[1].part)}
      BY <3>1, <3>2, Stacked
    <3>4. Destination(t) = {Shard(StageOf(t), t.mod, "gate_up_proj", KindOf(t), 0)}
      BY Zenon, <3>2, <3>3
    <3>5. QED  BY <1>2, <2>1, <3>4 DEF InShared, Place, ParamOf, PartOf, Kept
  <2>2. CASE t.leaf = "w3"
    <3>1. \A n \in 1 .. 4 : Found(t, n) <=> n = 2
      BY <1>2, <2>2, SharedExpertsFound
    <3>2. t.leaf = Stacks[2].leaf /\ Stacks[2].param = "gate_up_proj" /\ Stacks[2].part = 1
      BY <2>2, StacksAre
    <3>3. Destination(t)
            = {Shard(StageOf(t), t.mod, Stacks[2].param, KindOf(t), Stacks[2].part)}
      BY <3>1, <3>2, Stacked
    <3>4. Destination(t) = {Shard(StageOf(t), t.mod, "gate_up_proj", KindOf(t), 1)}
      BY Zenon, <3>2, <3>3
    <3>5. QED  BY <1>2, <2>2, <3>4 DEF InShared, Place, ParamOf, PartOf, Kept
  <2>3. CASE t.leaf = "w2"
    <3>1. \A n \in 1 .. 4 : ~Found(t, n)
      BY <1>2, <2>3, SharedExpertsFound
    <3>2. StackOf(t) = {}
      BY <3>1, NoneFound
    <3>3. QED  BY <1>2, <2>3, <3>2 DEF InShared, Destination, Place, Kept, ParamOf, PartOf, Renamed
  <2>4. QED  BY <1>2, <2>1, <2>2, <2>3 DEF InShared
<1>3. CASE InExperts(t)
  <2>1. StackOf(t) = {}
    BY <1>3, ExpertsNotFound, NoneFound
  <2>2. t.expert # NoExpert
    BY <1>3, WeightsAssumption DEF InExperts
  <2>3. CASE t.expert \in LocalExperts
    <3>1. {t.expert} \cap LocalExperts = {t.expert}
      BY <2>3
    <3>2. QED  BY <1>3, <2>1, <2>3, <3>1 DEF InExperts, Destination, Place, Kept, PartOf, ParamOf
  <2>4. CASE t.expert \notin LocalExperts
    <3>1. {t.expert} \cap LocalExperts = {}
      BY <2>4
    <3>2. QED  BY <1>3, <2>1, <2>2, <2>4, <3>1 DEF InExperts, Destination, Kept
  <2>5. QED  BY <2>3, <2>4
<1>4. CASE InGate(t) \/ InBlock(t) \/ InMain(t) \/ InHeads(t) \/ InOuter(t)
  <2>1. StackOf(t) = {}
    BY <1>4, OthersNotFound, NoneFound
  <2>2. QED
    BY <1>4, <2>1 DEF InGate, InBlock, InMain, InHeads, InOuter, Destination, Place, Kept,
                      PartOf, ParamOf, Renamed
<1>5. QED  BY <1>1, <1>2, <1>3, <1>4 DEF InDraft, InStage

\* No name of the draft is missing from the model, so that no load raises.
LEMMA PlacesAreShards ==
    ASSUME NEW t \in DraftTensors, Kept(t)
    PROVE  Place(t) \in Shards /\ Place(t).stage \in {t.file, Outer}
<1>1. InDraft(t)
  BY TensorShape
<1>2. Place(t).stage \in {t.file, Outer}
  BY DEF Place, Shard, StageOf
<1>3. CASE InStage(t)
  <2>1. t.file \in Stages /\ StageOf(t) = t.file
    BY <1>3 DEF InStage, InAttn, InShared, InExperts, InGate, InBlock, StageOf, OuterModules
  <2>2. CASE InAttn(t)
    <3>1. Place(t) = Shard(t.file, "attn", ParamOf(t), KindOf(t), PartOf(t))
      BY <2>1, <2>2 DEF InAttn, Place
    <3>2. KindOf(t) \in Quantised
      BY <2>2 DEF InAttn, KindOf, WeightAndScale, Quantised
    <3>3. \/ ParamOf(t) = "fused_wqa_wkv" /\ PartOf(t) \in {0, 1}
          \/ ParamOf(t) \in {"wq_b", "wo_a", "wo_b"} /\ PartOf(t) = 0
          \/ ParamOf(t) \in {"q_norm", "kv_norm", "attn_sink"} /\ KindOf(t) = "weight" /\ PartOf(t) = 0
      BY <2>2 DEF InAttn, ParamOf, PartOf, KindOf
    <3>4. Place(t) \in StageShards(t.file)
      BY <3>1, <3>2, <3>3 DEF StageShards
    <3>5. QED  BY <1>2, <2>1, <3>4 DEF Shards
  <2>3. CASE InShared(t)
    <3>1. Place(t) = Shard(t.file, "shared_experts", ParamOf(t), KindOf(t), PartOf(t))
      BY <2>1, <2>3 DEF InShared, Place
    <3>2. KindOf(t) \in Quantised
      BY <2>3 DEF InShared, KindOf, WeightAndScale, Quantised
    <3>3. \/ ParamOf(t) = "gate_up_proj" /\ PartOf(t) \in {0, 1}
          \/ ParamOf(t) = "down_proj" /\ PartOf(t) = 0
      BY <2>3 DEF InShared, ParamOf, PartOf
    <3>4. Place(t) \in StageShards(t.file)
      BY <3>1, <3>2, <3>3 DEF StageShards
    <3>5. QED  BY <1>2, <2>1, <3>4 DEF Shards
  <2>4. CASE InExperts(t)
    <3>1. t.expert \in LocalExperts
      BY <2>4, WeightsAssumption DEF InExperts, Kept
    <3>2. Place(t) = Shard(t.file, "experts", t.leaf, KindOf(t), t.expert)
      BY <2>1, <2>4 DEF InExperts, Place, ParamOf, PartOf
    <3>3. KindOf(t) \in {"weight", "weight_scale"} /\ t.leaf \in {"w1", "w2", "w3"}
      BY <2>4 DEF InExperts, KindOf, WeightAndScale
    <3>4. Place(t) \in StageShards(t.file)
      BY <3>1, <3>2, <3>3 DEF StageShards
    <3>5. QED  BY <1>2, <2>1, <3>4 DEF Shards
  <2>5. CASE InGate(t) \/ InBlock(t)
    <3>1. \/ Place(t) = Shard(t.file, "gate", "gate", "weight", 0)
          \/ Place(t) = Shard(t.file, "gate", "e_score_correction_bias", "bias", 0)
          \/ Place(t) = Shard(t.file, "block", t.leaf, "weight", 0)
                /\ t.leaf \in {"attn_norm", "ffn_norm", "hc_attn", "hc_ffn"}
      BY <2>1, <2>5 DEF InGate, InBlock, Place, ParamOf, PartOf, KindOf
    <3>2. Place(t) \in StageShards(t.file)
      BY <3>1 DEF StageShards
    <3>3. QED  BY <1>2, <2>1, <3>2 DEF Shards
  <2>6. QED  BY <1>2, <1>3, <2>2, <2>3, <2>4, <2>5 DEF InStage
<1>4. CASE InMain(t)
  <2>1. Place(t) \in OuterShards
    BY <1>4 DEF InMain, WeightAndScale, Place, ParamOf, PartOf, KindOf, StageOf, OuterModules,
                OuterShards, Quantised
  <2>2. QED  BY <1>2, <2>1 DEF Shards
<1>5. CASE InHeads(t)
  <2>1. Place(t) \in OuterShards
    BY <1>5 DEF InHeads, Place, ParamOf, PartOf, KindOf, StageOf, OuterModules, OuterShards
  <2>2. QED  BY <1>2, <2>1 DEF Shards
<1>6. CASE InOuter(t)
  <2>1. Place(t) \in OuterShards
    BY <1>6 DEF InOuter, Place, ParamOf, PartOf, KindOf, StageOf, OuterModules, OuterShards
  <2>2. QED  BY <1>2, <2>1 DEF Shards
<1>7. QED  BY <1>1, <1>3, <1>4, <1>5, <1>6 DEF InDraft

LEMMA NoneRaises ==
    ASSUME NEW t \in DraftTensors
    PROVE  ~Raises(t)
<1>1. InDraft(t)
  BY TensorShape
<1>2. CASE Kept(t)
  BY <1>1, <1>2, Destinations, PlacesAreShards DEF Raises
<1>3. CASE ~Kept(t)
  BY <1>1, <1>3, Destinations DEF Raises
<1>4. QED  BY <1>2, <1>3

\* No two tensors are written to one shard.
LEMMA PlacesApart ==
    ASSUME NEW t \in DraftTensors, NEW u \in DraftTensors, Kept(t), Kept(u), Place(t) = Place(u)
    PROVE  t = u
<1>1. InDraft(t) /\ InDraft(u)
  BY TensorShape
<1>2. /\ t.mod = u.mod /\ StageOf(t) = StageOf(u) /\ ParamOf(t) = ParamOf(u)
      /\ KindOf(t) = KindOf(u) /\ PartOf(t) = PartOf(u)
  BY DEF Place, Shard
<1>3. /\ t.file = u.file /\ t.leaf = u.leaf /\ t.kind = u.kind /\ t.expert = u.expert
  <2>1. CASE InAttn(t)
    <3>1. InAttn(u)
      BY <1>1, <1>2, <2>1 DEF InDraft, InStage, InAttn, InShared, InExperts, InGate, InBlock, InMain,
                              InHeads, InOuter
    <3>2. t.file = u.file /\ t.expert = u.expert
      BY <1>2, <2>1, <3>1 DEF InAttn, StageOf, OuterModules
    <3>3. t.kind = u.kind
      BY <1>2, <2>1, <3>1 DEF InAttn, KindOf, WeightAndScale
    <3>4. ASSUME NEW x, InAttn(x)
          PROVE  /\ ParamOf(x) = IF x.leaf \in {"wq_a", "wkv"} THEN "fused_wqa_wkv" ELSE x.leaf
                 /\ PartOf(x) = IF x.leaf = "wkv" THEN 1 ELSE 0
                 /\ x.leaf # "fused_wqa_wkv"
      BY <3>4 DEF InAttn, ParamOf, PartOf
    <3>5. t.leaf = u.leaf
      BY <1>2, <2>1, <3>1, <3>4
    <3>6. QED  BY <3>2, <3>3, <3>5
  <2>2. CASE InShared(t)
    <3>1. InShared(u)
      BY <1>1, <1>2, <2>2 DEF InDraft, InStage, InAttn, InShared, InExperts, InGate, InBlock, InMain,
                              InHeads, InOuter
    <3>2. t.file = u.file /\ t.expert = u.expert
      BY <1>2, <2>2, <3>1 DEF InShared, StageOf, OuterModules
    <3>3. t.kind = u.kind
      BY <1>2, <2>2, <3>1 DEF InShared, KindOf, WeightAndScale
    <3>4. ASSUME NEW x, InShared(x)
          PROVE  /\ ParamOf(x) = IF x.leaf = "w2" THEN "down_proj" ELSE "gate_up_proj"
                 /\ PartOf(x) = IF x.leaf = "w3" THEN 1 ELSE 0
                 /\ x.leaf \in {"w1", "w2", "w3"}
      BY <3>4 DEF InShared, ParamOf, PartOf
    <3>5. t.leaf = u.leaf
      BY <1>2, <2>2, <3>1, <3>4
    <3>6. QED  BY <3>2, <3>3, <3>5
  <2>3. CASE InExperts(t)
    <3>1. InExperts(u)
      BY <1>1, <1>2, <2>3 DEF InDraft, InStage, InAttn, InShared, InExperts, InGate, InBlock, InMain,
                              InHeads, InOuter
    <3>2. t.file = u.file
      BY <1>2, <2>3, <3>1 DEF InExperts, StageOf, OuterModules
    <3>3. t.kind = u.kind
      <4>1. ASSUME NEW x, InExperts(x)
            PROVE  /\ KindOf(x) = IF x.kind = "scale" THEN "weight_scale" ELSE "weight"
                   /\ x.kind \in {"weight", "scale"}
        BY <4>1 DEF InExperts, KindOf, WeightAndScale
      <4>2. QED  BY <1>2, <2>3, <3>1, <4>1
    <3>4. t.leaf = u.leaf /\ t.expert = u.expert
      BY <1>2, <2>3, <3>1 DEF InExperts, ParamOf, PartOf
    <3>5. QED  BY <3>2, <3>3, <3>4
  <2>4. CASE InGate(t) \/ InBlock(t)
    <3>1. InGate(u) \/ InBlock(u)
      BY <1>1, <1>2, <2>4 DEF InDraft, InStage, InAttn, InShared, InExperts, InGate, InBlock, InMain,
                              InHeads, InOuter
    <3>2. t.file = u.file /\ t.expert = u.expert
      BY <1>2, <2>4, <3>1 DEF InGate, InBlock, StageOf, OuterModules
    <3>3. t.kind = u.kind /\ t.leaf = u.leaf
      BY <1>2, <2>4, <3>1 DEF InGate, InBlock, KindOf, ParamOf
    <3>4. QED  BY <3>2, <3>3
  <2>5. CASE InMain(t)
    <3>1. InMain(u)
      BY <1>1, <1>2, <2>5 DEF InDraft, InStage, InAttn, InShared, InExperts, InGate, InBlock, InMain,
                              InHeads, InOuter
    <3>2. QED  BY <1>2, <2>5, <3>1 DEF InMain, KindOf, WeightAndScale
  <2>6. CASE InHeads(t) \/ InOuter(t)
    <3>1. InHeads(u) \/ InOuter(u)
      BY <1>1, <1>2, <2>6 DEF InDraft, InStage, InAttn, InShared, InExperts, InGate, InBlock, InMain,
                              InHeads, InOuter
    <3>2. QED  BY <1>2, <2>6, <3>1 DEF InHeads, InOuter, ParamOf
  <2>7. QED  BY <1>1, <2>1, <2>2, <2>3, <2>4, <2>5, <2>6 DEF InDraft, InStage
<1>4. QED
  <2>1. t = [file |-> t.file, mod |-> t.mod, leaf |-> t.leaf, kind |-> t.kind, expert |-> t.expert]
    BY TensorShape
  <2>2. u = [file |-> u.file, mod |-> u.mod, leaf |-> u.leaf, kind |-> u.kind, expert |-> u.expert]
    BY TensorShape
  <2>3. QED  BY <1>2, <1>3, <2>1, <2>2

\* The one shard that is no tensor's place.
LEMMA PlaceOfNone ==
    ASSUME NEW t \in DraftTensors
    PROVE  Place(t) \notin NoTensor
<1>1. InDraft(t)
  BY TensorShape
<1>2. Place(t).mod = t.mod /\ Place(t).kind = KindOf(t)
  BY DEF Place, Shard
<1>3. \A shard \in NoTensor : shard.mod = "confidence_head" /\ shard.kind = "bias"
  BY DEF NoTensor, Shard
<1>4. t.mod = "confidence_head" => t.kind = "weight"
  BY <1>1 DEF InDraft, InStage, InAttn, InShared, InExperts, InGate, InBlock, InMain, InHeads,
              InOuter
<1>5. t.mod = "confidence_head" => KindOf(t) # "bias"
  BY <1>4 DEF KindOf
<1>6. QED  BY <1>2, <1>3, <1>5

\* Every other shard is some tensor's place: no parameter is left as it was
\* made.
LEMMA EveryPlaceTaken ==
    ASSUME NEW shard \in Shards \ NoTensor
    PROVE  \E t \in DraftTensors : Kept(t) /\ Place(t) = shard
<1> DEFINE Source(file, mod, leaf, kind, expert) ==
             [file |-> file, mod |-> mod, leaf |-> leaf, kind |-> kind, expert |-> expert]
           KindFor(kind) == IF kind = "weight" THEN "weight" ELSE "scale"
           Taken == \E t \in DraftTensors : Kept(t) /\ Place(t) = shard
<1>1. ASSUME NEW file, NEW mod, NEW leaf, NEW kind, NEW expert,
             InDraft(Source(file, mod, leaf, kind, expert)),
             expert \in LocalExperts \cup {NoExpert},
             Place(Source(file, mod, leaf, kind, expert)) = shard
      PROVE  Taken
  BY <1>1, ShapeIsTensor DEF Kept
<1> HIDE DEF Taken
<1>2. ASSUME NEW s \in Stages, shard \in StageShards(s) PROVE Taken
  <2>1. CASE shard \in {Shard(s, "attn", "fused_wqa_wkv", kind, part) :
                            kind \in Quantised, part \in {0, 1}}
    <3>1. PICK kind \in Quantised, part \in {0, 1} :
              shard = Shard(s, "attn", "fused_wqa_wkv", kind, part)
      BY <2>1
    <3> DEFINE leaf == IF part = 0 THEN "wq_a" ELSE "wkv"
               t == Source(s, "attn", leaf, KindFor(kind), NoExpert)
    <3>2. InDraft(t)
      BY DEF InDraft, InStage, InAttn, WeightAndScale
    <3>3. KindOf(t) = kind
      BY DEF KindOf, Quantised
    <3>4. StageOf(t) = s /\ ParamOf(t) = "fused_wqa_wkv" /\ PartOf(t) = part
      BY DEF StageOf, OuterModules, ParamOf, PartOf
    <3>5. Place(t) = shard
      BY <3>1, <3>3, <3>4 DEF Place
    <3>6. QED  BY <1>1, <3>2, <3>5
  <2>2. CASE shard \in {Shard(s, "attn", param, kind, 0) :
                            param \in {"wq_b", "wo_a", "wo_b"}, kind \in Quantised}
    <3>1. PICK param \in {"wq_b", "wo_a", "wo_b"}, kind \in Quantised :
              shard = Shard(s, "attn", param, kind, 0)
      BY <2>2
    <3> DEFINE t == Source(s, "attn", param, KindFor(kind), NoExpert)
    <3>2. InDraft(t)
      BY DEF InDraft, InStage, InAttn, WeightAndScale
    <3>3. KindOf(t) = kind
      BY DEF KindOf, Quantised
    <3>4. StageOf(t) = s /\ ParamOf(t) = param /\ PartOf(t) = 0
      BY DEF StageOf, OuterModules, ParamOf, PartOf
    <3>5. Place(t) = shard
      BY <3>1, <3>3, <3>4 DEF Place
    <3>6. QED  BY <1>1, <3>2, <3>5
  <2>3. CASE shard \in {Shard(s, "attn", param, "weight", 0) :
                            param \in {"q_norm", "kv_norm", "attn_sink"}}
    <3>1. PICK param \in {"q_norm", "kv_norm", "attn_sink"} : shard = Shard(s, "attn", param, "weight", 0)
      BY <2>3
    <3> DEFINE t == Source(s, "attn", param, "weight", NoExpert)
    <3>2. InDraft(t)
      BY DEF InDraft, InStage, InAttn
    <3>3. Place(t) = shard
      BY <3>1 DEF Place, KindOf, StageOf, OuterModules, ParamOf, PartOf
    <3>4. QED  BY <1>1, <3>2, <3>3
  <2>4. CASE shard \in {Shard(s, "shared_experts", "gate_up_proj", kind, part) :
                            kind \in Quantised, part \in {0, 1}}
    <3>1. PICK kind \in Quantised, part \in {0, 1} :
              shard = Shard(s, "shared_experts", "gate_up_proj", kind, part)
      BY <2>4
    <3> DEFINE leaf == IF part = 0 THEN "w1" ELSE "w3"
               t == Source(s, "shared_experts", leaf, KindFor(kind), NoExpert)
    <3>2. InDraft(t)
      BY DEF InDraft, InStage, InShared, WeightAndScale
    <3>3. KindOf(t) = kind
      BY DEF KindOf, Quantised
    <3>4. StageOf(t) = s /\ ParamOf(t) = "gate_up_proj" /\ PartOf(t) = part
      BY DEF StageOf, OuterModules, ParamOf, PartOf
    <3>5. Place(t) = shard
      BY <3>1, <3>3, <3>4 DEF Place
    <3>6. QED  BY <1>1, <3>2, <3>5
  <2>5. CASE shard \in {Shard(s, "shared_experts", "down_proj", kind, 0) : kind \in Quantised}
    <3>1. PICK kind \in Quantised : shard = Shard(s, "shared_experts", "down_proj", kind, 0)
      BY <2>5
    <3> DEFINE t == Source(s, "shared_experts", "w2", KindFor(kind), NoExpert)
    <3>2. InDraft(t)
      BY DEF InDraft, InStage, InShared, WeightAndScale
    <3>3. KindOf(t) = kind
      BY DEF KindOf, Quantised
    <3>4. StageOf(t) = s /\ ParamOf(t) = "down_proj" /\ PartOf(t) = 0
      BY DEF StageOf, OuterModules, ParamOf, PartOf
    <3>5. Place(t) = shard
      BY <3>1, <3>3, <3>4 DEF Place
    <3>6. QED  BY <1>1, <3>2, <3>5
  <2>6. CASE shard \in {Shard(s, "experts", leaf, kind, e) : leaf \in {"w1", "w2", "w3"},
                            kind \in {"weight", "weight_scale"}, e \in LocalExperts}
    <3>1. PICK leaf \in {"w1", "w2", "w3"}, kind \in {"weight", "weight_scale"}, e \in LocalExperts :
              shard = Shard(s, "experts", leaf, kind, e)
      BY <2>6
    <3> DEFINE t == Source(s, "experts", leaf, KindFor(kind), e)
    <3>2. InDraft(t)
      BY WeightsAssumption DEF InDraft, InStage, InExperts, WeightAndScale
    <3>3. KindOf(t) = kind
      BY DEF KindOf
    <3>4. StageOf(t) = s /\ ParamOf(t) = leaf /\ PartOf(t) = e
      BY DEF StageOf, OuterModules, ParamOf, PartOf
    <3>5. Place(t) = shard
      BY <3>1, <3>3, <3>4 DEF Place
    <3>6. QED  BY <1>1, <3>2, <3>5
  <2>7. CASE shard \in {Shard(s, "gate", "gate", "weight", 0),
                        Shard(s, "gate", "e_score_correction_bias", "bias", 0)}
    <3>1. PICK kind \in {"weight", "bias"} : shard = Shard(s, "gate",
              IF kind = "bias" THEN "e_score_correction_bias" ELSE "gate", kind, 0)
      BY <2>7
    <3> DEFINE t == Source(s, "gate", "gate", kind, NoExpert)
    <3>2. InDraft(t)
      BY DEF InDraft, InStage, InGate
    <3>3. Place(t) = shard
      BY <3>1 DEF Place, KindOf, StageOf, OuterModules, ParamOf, PartOf
    <3>4. QED  BY <1>1, <3>2, <3>3
  <2>8. CASE shard \in {Shard(s, "block", param, "weight", 0) :
                            param \in {"attn_norm", "ffn_norm", "hc_attn", "hc_ffn"}}
    <3>1. PICK param \in {"attn_norm", "ffn_norm", "hc_attn", "hc_ffn"} :
              shard = Shard(s, "block", param, "weight", 0)
      BY <2>8
    <3> DEFINE t == Source(s, "block", param, "weight", NoExpert)
    <3>2. InDraft(t)
      BY DEF InDraft, InStage, InBlock
    <3>3. Place(t) = shard
      BY <3>1 DEF Place, KindOf, StageOf, OuterModules, ParamOf, PartOf
    <3>4. QED  BY <1>1, <3>2, <3>3
  <2>9. QED
    BY <1>2, <2>1, <2>2, <2>3, <2>4, <2>5, <2>6, <2>7, <2>8 DEF StageShards
<1>3. CASE shard \in OuterShards
  <2>1. CASE shard \in {Shard(Outer, mod, mod, "weight", 0) :
                 mod \in {"embed", "head", "norm", "main_norm", "hc_head", "confidence_head"}}
    <3>1. PICK mod \in {"embed", "head", "norm", "main_norm", "hc_head", "confidence_head"} :
              shard = Shard(Outer, mod, mod, "weight", 0)
      BY <2>1
    <3> DEFINE file == IF mod \in {"embed", "head"} THEN Outer
                       ELSE IF mod = "main_norm" THEN 0 ELSE LastStage
               t == Source(file, mod, mod, "weight", NoExpert)
    <3>2. InDraft(t)
      BY DEF InDraft, InMain, InHeads, InOuter
    <3>3. Place(t) = shard
      BY <3>1 DEF Place, KindOf, StageOf, OuterModules, ParamOf, PartOf
    <3>4. QED  BY <1>1, <3>2, <3>3 DEF Taken
  <2>2. CASE shard \in {Shard(Outer, "main_proj", "main_proj", kind, 0) : kind \in Quantised}
    <3>1. PICK kind \in Quantised : shard = Shard(Outer, "main_proj", "main_proj", kind, 0)
      BY <2>2
    <3> DEFINE t == Source(0, "main_proj", "main_proj", KindFor(kind), NoExpert)
    <3>2. InDraft(t)
      BY DEF InDraft, InMain, WeightAndScale
    <3>3. KindOf(t) = kind
      BY DEF KindOf, Quantised
    <3>4. Place(t) = shard
      BY <3>1, <3>3 DEF Place, StageOf, OuterModules, ParamOf, PartOf
    <3>5. QED  BY <1>1, <3>2, <3>4 DEF Taken
  <2>3. CASE shard \in {Shard(Outer, "markov_head", leaf, "weight", 0) :
                            leaf \in {"markov_w1", "markov_w2"}}
    <3>1. PICK leaf \in {"markov_w1", "markov_w2"} :
              shard = Shard(Outer, "markov_head", leaf, "weight", 0)
      BY <2>3
    <3> DEFINE t == Source(LastStage, "markov_head", leaf, "weight", NoExpert)
    <3>2. InDraft(t)
      BY DEF InDraft, InHeads
    <3>3. Place(t) = shard
      BY <3>1 DEF Place, KindOf, StageOf, OuterModules, ParamOf, PartOf
    <3>4. QED  BY <1>1, <3>2, <3>3 DEF Taken
  <2>4. QED  BY <1>3, <2>1, <2>2, <2>3 DEF OuterShards
<1>4. QED
  <2>1. (\E s \in Stages : shard \in StageShards(s)) \/ shard \in OuterShards
    BY DEF Shards
  <2>2. QED  BY <1>2, <1>3, <2>1 DEF Taken

-----------------------------------------------------------------------------
(* Loading.                                                                *)

\* What has been read has been written, each tensor to its place; the weight
\* that is kept dequantised was so before vLLM repacked it.
LoadInv ==
    /\ unread \subseteq Files
    /\ load \in {"loading", "loaded", "ready"}
    /\ load = "loading" => cached = "none"
    /\ load # "loading" => unread = {} /\ cached = "bf16"
    /\ written = [shard \in Shards |->
                    {t \in DraftTensors : t.file \notin unread /\ shard \in Destination(t)}]

\* The draft's tensors of a file.
LEMMA TensorsOfFile ==
    ASSUME NEW file \in Files
    PROVE  /\ TensorsOf(file) \ TargetTensors = {t \in DraftTensors : t.file = file}
           /\ file # Target => TensorsOf(file) \subseteq DraftTensors
<1>1. \A t \in TargetTensors : t.file = Target
  BY DEF TargetTensors, Tensor
<1>2. \A t \in DraftTensors : t.file # Target
  <2> TAKE t \in DraftTensors
  <2>1. t.file \in Stages \/ t.file = 0 \/ t.file = LastStage \/ t.file = Outer
    BY TensorShape DEF InDraft, InStage, InAttn, InShared, InExperts, InGate, InBlock, InMain,
                       InHeads, InOuter
  <2>2. QED  BY <2>1, WeightsAssumption DEF Stages, LastStage, Outer, Target
<1>3. QED  BY <1>1, <1>2 DEF TensorsOf, Checkpoint

LEMMA DraftFiles == \A t \in DraftTensors : t.file \in Files
<1> TAKE t \in DraftTensors
<1>1. t.file \in Stages \/ t.file = 0 \/ t.file = LastStage \/ t.file = Outer
  BY TensorShape DEF InDraft, InStage, InAttn, InShared, InExperts, InGate, InBlock, InMain,
                     InHeads, InOuter
<1>2. QED  BY <1>1, WeightsAssumption DEF Stages, LastStage, Files

LEMMA LoadInitInv == LoadInit => LoadInv
<1> SUFFICES ASSUME LoadInit PROVE LoadInv
  OBVIOUS
<1>1. \A shard \in Shards :
          {t \in DraftTensors : t.file \notin unread /\ shard \in Destination(t)} = {}
  BY DraftFiles DEF LoadInit
<1>2. QED  BY <1>1 DEF LoadInit, LoadInv

LEMMA LoadFileInv ==
    ASSUME LoadInv, NEW file \in Files, LoadFile(file)
    PROVE  LoadInv'
<1>1. /\ load = "loading" /\ file \in unread /\ unread' = unread \ {file} /\ cached' = cached
      /\ load' = "loading"
      /\ written' = [shard \in Shards |->
             written[shard] \cup {t \in TensorsOf(file) \ TargetTensors : shard \in Destination(t)}]
  <2>1. ~(file # Target /\ \E t \in TensorsOf(file) : Raises(t))
    BY TensorsOfFile, NoneRaises
  <2>2. QED  BY <2>1 DEF LoadFile
<1>2. written' = [shard \in Shards |->
             written[shard] \cup {t \in DraftTensors : t.file = file /\ shard \in Destination(t)}]
  <2>1. ASSUME NEW shard \in Shards
        PROVE  {t \in TensorsOf(file) \ TargetTensors : shard \in Destination(t)}
                 = {t \in DraftTensors : t.file = file /\ shard \in Destination(t)}
    BY TensorsOfFile
  <2>2. QED  BY <1>1, <2>1
<1>3. ASSUME NEW shard \in Shards
      PROVE  written'[shard]
               = {t \in DraftTensors : t.file \notin unread' /\ shard \in Destination(t)}
  <2>1. written[shard] = {t \in DraftTensors : t.file \notin unread /\ shard \in Destination(t)}
    BY DEF LoadInv
  <2>2. QED  BY <1>1, <1>2, <2>1
<1>4. QED
  <2>1. written' = [shard \in Shards |->
                      {t \in DraftTensors : t.file \notin unread' /\ shard \in Destination(t)}]
    BY <1>2, <1>3
  <2>2. QED  BY <1>1, <2>1 DEF LoadInv

LEMMA LoadNextInv ==
    ASSUME LoadInv, LoadNext
    PROVE  LoadInv'
<1>1. CASE EndLoad
  <2>1. load' = "loaded" /\ unread = {} /\ cached' = "bf16" /\ UNCHANGED <<unread, written>>
    BY <1>1 DEF EndLoad, CachedAtLoad, Dequantised
  <2>2. QED  BY <2>1 DEF LoadInv
<1>2. CASE ProcessWeights
  BY <1>2 DEF ProcessWeights, LoadInv
<1>3. QED  BY <1>1, <1>2, LoadFileInv DEF LoadNext

LEMMA LoadInvSuffices == LoadInv => TensorsInPlace
<1> SUFFICES ASSUME LoadInv PROVE TensorsInPlace
  OBVIOUS
<1> SUFFICES ASSUME load \in {"loaded", "ready"}
             PROVE  /\ \A shard \in Shards \ NoTensor :
                         /\ Cardinality(written[shard]) = 1
                         /\ \A t \in written[shard] : shard.stage \in {t.file, Outer}
                    /\ \A shard \in NoTensor : written[shard] = {}
                    /\ UNION {written[shard] : shard \in Shards}
                         = {t \in DraftTensors : t.expert \in LocalExperts \cup {NoExpert}}
  BY DEF TensorsInPlace, LoadInv
<1>1. ASSUME NEW shard \in Shards
      PROVE  written[shard] = {t \in DraftTensors : Kept(t) /\ Place(t) = shard}
  <2>1. written[shard] = {t \in DraftTensors : shard \in Destination(t)}
    BY DEF LoadInv
  <2>2. \A t \in DraftTensors : shard \in Destination(t) <=> Kept(t) /\ Place(t) = shard
    BY TensorShape, Destinations
  <2>3. QED  BY <2>1, <2>2
<1>2. ASSUME NEW shard \in Shards \ NoTensor
      PROVE  /\ Cardinality(written[shard]) = 1
             /\ \A t \in written[shard] : shard.stage \in {t.file, Outer}
  <2>1. PICK t \in DraftTensors : Kept(t) /\ Place(t) = shard
    BY EveryPlaceTaken
  <2>2. written[shard] = {t}
    BY <1>1, <2>1, PlacesApart
  <2>3. shard.stage \in {t.file, Outer}
    BY <2>1, PlacesAreShards
  <2>4. QED  BY <2>2, <2>3, FS_Singleton
<1>3. ASSUME NEW shard \in NoTensor PROVE written[shard] = {}
  <2>1. shard \in Shards
    BY DEF Shards, OuterShards
  <2>2. QED  BY <1>1, <2>1, PlaceOfNone
<1>4. UNION {written[shard] : shard \in Shards} = {t \in DraftTensors : Kept(t)}
  <2>1. \A t \in DraftTensors : Kept(t) => Place(t) \in Shards
    BY PlacesAreShards
  <2>2. QED  BY <1>1, <2>1
<1>5. QED  BY <1>2, <1>3, <1>4 DEF Kept

-----------------------------------------------------------------------------
(* The reference, unfolded.                                                *)

FirstRows(call, i) ==
    [p \in Block |-> Embedded(IF p = 1 THEN AnchorOf(call, i) ELSE Noise)]

KeysFor(call, i, n, rows, p) ==
    {Key(p + (n - j), Row(call, i, j)) : j \in 1 .. n}
        \cup {Key(p - b, rows[b]) : b \in Block}

NextRows(call, i, n, s, rows) ==
    [p \in Block |-> Attended(s - 1, rows[p], KeysFor(call, i, n, rows, p), "bf16")]

\* The recursive function of the reference is defined at every stage.
LEMMA ReferenceUnfolds ==
    ASSUME NEW call, NEW i, NEW n
    PROVE  \A s \in 0 .. NStages : ReferenceRows(call, i, n)[s] =
               IF s = 0 THEN FirstRows(call, i)
               ELSE NextRows(call, i, n, s, ReferenceRows(call, i, n)[s - 1])
<1> DEFINE Is(f, m) == f = [s \in 0 .. m |-> IF s = 0 THEN FirstRows(call, i)
                                             ELSE NextRows(call, i, n, s, f[s - 1])]
           Defined == {m \in Nat : \E f : Is(f, m)}
<1>1. ReferenceRows(call, i, n) = CHOOSE f : Is(f, NStages)
  BY Zenon DEF ReferenceRows, FirstRows, NextRows, KeysFor
<1>2. 0 \in Defined
  <2> DEFINE f == [s \in 0 .. 0 |-> FirstRows(call, i)]
  <2>1. f = [s \in 0 .. 0 |-> IF s = 0 THEN FirstRows(call, i)
                              ELSE NextRows(call, i, n, s, f[s - 1])]
    OBVIOUS
  <2>2. Is(f, 0)
    BY <2>1
  <2>3. QED  BY <2>2
<1>3. ASSUME NEW m \in Nat, m \in Defined PROVE m + 1 \in Defined
  <2>1. PICK f : Is(f, m)
    BY <1>3
  <2> DEFINE g == [s \in 0 .. m + 1 |-> IF s =< m THEN f[s] ELSE NextRows(call, i, n, s, f[m])]
             h == [s \in 0 .. m + 1 |-> IF s = 0 THEN FirstRows(call, i)
                                        ELSE NextRows(call, i, n, s, g[s - 1])]
  <2>2. ASSUME NEW s \in 0 .. m + 1 PROVE g[s] = h[s]
    <3>1. CASE s = 0
      BY <2>1, <3>1
    <3>2. CASE s \in 1 .. m
      <4>1. s - 1 \in 0 .. m /\ g[s - 1] = f[s - 1]
        BY <3>2
      <4>2. f[s] = NextRows(call, i, n, s, f[s - 1])
        BY <2>1, <3>2
      <4>3. QED  BY <3>2, <4>1, <4>2
    <3>3. CASE s = m + 1
      <4>1. g[s - 1] = f[m]
        BY <3>3
      <4>2. QED  BY <3>3, <4>1
    <3>4. QED  BY <3>1, <3>2, <3>3
  <2>3. g = h
    BY <2>2
  <2>4. Is(g, m + 1)
    BY <2>3
  <2> HIDE DEF Is, g
  <2>5. QED  BY <2>4
<1> HIDE DEF Is
<1>4. \E f : Is(f, NStages)
  <2>1. Nat \subseteq Defined
    BY <1>2, <1>3, SetInduction
  <2>2. QED  BY <2>1, WeightsAssumption
<1>5. Is(ReferenceRows(call, i, n), NStages)
  BY <1>1, <1>4
<1>6. QED  BY <1>5 DEF Is

\* A row of the stream is one place of one lane.
LEMMA LaneAndPlace ==
    ASSUME NEW i \in Lanes, NEW p \in Block
    PROVE  /\ RowOf(i, p) \in 1 .. MaxBatch * BlockSize
           /\ LaneOfRow(RowOf(i, p)) = i
           /\ PlaceOfRow(RowOf(i, p)) = p
<1> DEFINE B == BlockSize
           q == i - 1
           r == p - 1
<1>1. B \in Nat /\ B > 0 /\ q \in Nat /\ r \in 0 .. B - 1 /\ MaxBatch \in Nat /\ q + 1 =< MaxBatch
  BY DraftAssumption DEF Lanes, Block
<1>2. RowOf(i, p) - 1 = q * B + r
  BY <1>1 DEF RowOf, Lanes, Block
<1> HIDE DEF q, r, B
<1>3. (q * B + r) \div B = q /\ (q * B + r) % B = r
  BY <1>1, SMT
<1>4. q * B \in Nat /\ (q + 1) * B = q * B + B /\ (q + 1) * B =< MaxBatch * B
  BY <1>1, SMT
<1>5. RowOf(i, p) \in Int
  BY DraftAssumption DEF RowOf, Lanes, Block
<1>6. QED
  <2>1. RowOf(i, p) = q * B + r + 1 /\ RowOf(i, p) >= 1 /\ RowOf(i, p) =< MaxBatch * B
    BY <1>1, <1>2, <1>4, <1>5
  <2>2. LaneOfRow(RowOf(i, p)) = q + 1 /\ PlaceOfRow(RowOf(i, p)) = r + 1
    BY <1>2, <1>3 DEF LaneOfRow, PlaceOfRow, B
  <2>3. QED  BY <2>1, <2>2, <1>4, <1>1, <1>5 DEF q, r, B, Lanes, Block

-----------------------------------------------------------------------------
(* Drafting.                                                               *)

\* The buffers of a call hold its requests; the stages see these buffers;
\* what a lane's rows have become is what the reference's have.
DraftInv ==
    /\ DraftTypeOK
    /\ at # "idle" => load = "ready" /\ calls > 0
    /\ calls > 0 => /\ lanes = [i \in Lanes |-> Lane(calls, i, windows[i])]
                    /\ anchors = [i \in Lanes |-> IF windows[i] > 0 THEN AnchorOf(calls, i) ELSE Noise]
    /\ at = "stage" => /\ context = Threaded
                       /\ \A i \in Lanes, p \in Block : windows[i] > 0 =>
                            stream[RowOf(i, p)] = ReferenceRows(calls, i, windows[i])[stage][p]
    /\ at = "sampled" => \A i \in Lanes : windows[i] > 0 =>
                            out[i] = ReferenceBlock(calls, i, windows[i])
    /\ DraftsFollowReference

LEMMA DraftInitInv == DraftInit => DraftInv
<1> SUFFICES ASSUME DraftInit PROVE DraftInv
  OBVIOUS
<1>1. DraftTypeOK
  BY WeightsAssumption, DraftAssumption DEF DraftInit, LoadInit, DraftTypeOK, Unwritten
<1>2. QED  BY <1>1 DEF DraftInit, DraftInv, DraftsFollowReference

\* Loading is over before the first call.
LEMMA LoadStepInv ==
    ASSUME DraftInv, LoadInv, LoadNext, UNCHANGED draftVars
    PROVE  DraftInv'
<1>1. load' \in {"loading", "loaded", "ready"} /\ load # "ready"
  <2>1. load # "ready"
    BY DEF LoadNext, LoadFile, EndLoad, ProcessWeights
  <2>2. QED  BY <2>1, LoadNextInv DEF LoadInv
<1>2. at = "idle"
  BY <1>1 DEF DraftInv
<1> USE DEF draftVars, bufferVars, runVars
<1>3. DraftTypeOK'
  BY <1>1 DEF DraftInv, DraftTypeOK
<1>4. DraftsFollowReference'
  BY DEF DraftInv, DraftsFollowReference
<1>5. QED  BY <1>1, <1>2, <1>3, <1>4 DEF DraftInv, Lane, Threaded

LEMMA FillInv ==
    ASSUME DraftInv, Fill
    PROVE  DraftInv'
<1> USE DraftAssumption
<1>1. /\ calls' = calls + 1 /\ calls \in Nat /\ calls' \in 1 .. MaxCalls
      /\ windows' \in [Lanes -> 0 .. WindowSize] /\ at' = "filled" /\ load' = "ready"
  BY DEF Fill, DraftInv, DraftTypeOK, weightVars
<1>2. /\ lanes' = [i \in Lanes |-> Lane(calls', i, windows'[i])]
      /\ anchors' = [i \in Lanes |-> IF windows'[i] > 0 THEN AnchorOf(calls', i) ELSE Noise]
  BY DEF Fill
<1>3. DraftTypeOK'
  BY <1>1, <1>2 DEF Fill, runVars, DraftInv, DraftTypeOK, Lane
<1>4. QED  BY <1>1, <1>2, <1>3 DEF DraftInv, DraftsFollowReference

LEMMA CaptureInv ==
    ASSUME DraftInv, Capture \/ CaptureFails
    PROVE  DraftInv'
<1>1. /\ at = "filled" /\ at' = "filled" /\ graph' \in {"captured", "disabled"}
      /\ UNCHANGED <<calls, windows, lanes, anchors, stream, stage, drafts, load>>
      /\ out' = Unwritten \/ out' = out
  BY DEF Capture, CaptureFails, bufferVars, weightVars
<1>2. DraftTypeOK'
  BY <1>1 DEF DraftInv, DraftTypeOK, Unwritten
<1>3. QED  BY <1>1, <1>2 DEF DraftInv, DraftsFollowReference, Lane

LEMMA EmbedInv ==
    ASSUME DraftInv, Embed
    PROVE  DraftInv'
<1>1. /\ at = "filled" /\ at' = "stage" /\ stage' = 0 /\ context' = Threaded /\ Threaded' = Threaded
      /\ stream' = [f \in DOMAIN stream |->
             Embedded(IF PlaceOfRow(f) = 1 THEN anchors[LaneOfRow(f)] ELSE Noise)]
      /\ UNCHANGED <<calls, windows, lanes, anchors, graph, out, drafts, load>>
  BY DEF Embed, bufferVars, weightVars, Threaded
<1>2. DraftTypeOK'
  BY <1>1, WeightsAssumption DEF DraftInv, DraftTypeOK
<1>3. ASSUME NEW i \in Lanes, NEW p \in Block, windows[i] > 0
      PROVE  stream'[RowOf(i, p)] = ReferenceRows(calls, i, windows[i])[0][p]
  <2>1. RowOf(i, p) \in DOMAIN stream
    BY LaneAndPlace DEF DraftInv, DraftTypeOK
  <2>2. stream'[RowOf(i, p)] = Embedded(IF p = 1 THEN anchors[i] ELSE Noise)
    BY <1>1, <2>1, LaneAndPlace
  <2>3. anchors[i] = AnchorOf(calls, i)
    BY <1>1, <1>3 DEF DraftInv
  <2>4. ReferenceRows(calls, i, windows[i])[0] = FirstRows(calls, i)
    BY ReferenceUnfolds, WeightsAssumption
  <2>5. QED  BY <2>2, <2>3, <2>4 DEF FirstRows
<1>4. \A i \in Lanes, p \in Block : windows'[i] > 0 =>
          stream'[RowOf(i, p)] = ReferenceRows(calls', i, windows'[i])[stage'][p]
  BY <1>1, <1>3
<1>5. load = "ready" /\ calls > 0
  BY <1>1 DEF DraftInv
<1>6. /\ lanes' = [i \in Lanes |-> Lane(calls', i, windows'[i])]
      /\ anchors' = [i \in Lanes |-> IF windows'[i] > 0 THEN AnchorOf(calls', i) ELSE Noise]
  BY <1>1, <1>5 DEF DraftInv
<1>7. QED  BY <1>1, <1>2, <1>4, <1>5, <1>6 DEF DraftInv, DraftsFollowReference

\* What a row attends to is what the reference's does: the window ends at the
\* right of its lane, so that its j-th row of n is at the same distance.
LEMMA KeysAgree ==
    ASSUME DraftInv, at = "stage", stage \in Stages, NEW i \in Lanes, windows[i] > 0,
           NEW p \in Block
    PROVE  KeysOf(stage, i, p)
             = KeysFor(calls, i, windows[i], ReferenceRows(calls, i, windows[i])[stage], p)
<1> DEFINE n == windows[i]
           rows == ReferenceRows(calls, i, n)[stage]
           shift == WindowSize - n
<1>1. /\ n \in 1 .. WindowSize /\ WindowSize \in Nat /\ calls \in Nat \ {0} /\ p \in Nat
      /\ context[stage] = lanes /\ lanes[i] = Lane(calls, i, n)
      /\ \A b \in Block : stream[RowOf(i, b)] = rows[b]
  <2>1. WindowSize \in Nat /\ calls > 0 /\ calls \in Nat /\ p \in Nat /\ n \in 1 .. WindowSize
    BY DraftAssumption DEF DraftInv, DraftTypeOK, Block
  <2>2. context[stage] = lanes /\ lanes[i] = Lane(calls, i, n)
    BY <2>1 DEF DraftInv, Threaded
  <2>3. \A b \in Block : stream[RowOf(i, b)] = rows[b]
    BY DEF DraftInv
  <2>4. QED  BY <2>1, <2>2, <2>3
<1> HIDE DEF n, rows
<1>2. \A j \in Slots : /\ context[stage][i][j] # Masked <=> j > shift
                       /\ j > shift => context[stage][i][j] = Row(calls, i, j - shift)
  <2> TAKE j \in Slots
  <2>1. context[stage][i][j] = IF j > shift THEN Row(calls, i, j - shift) ELSE Masked
    BY <1>1 DEF Lane
  <2>2. Row(calls, i, j - shift) # Masked
    BY <1>1 DEF Row, Masked
  <2>3. QED  BY <2>1, <2>2
<1> DEFINE Unmasked == {j \in Slots : context[stage][i][j] # Masked}
           OfLane == {Key(BlkPosition(p) - CtxPosition(j), context[stage][i][j]) : j \in Unmasked}
           OfWindow == {Key(p + (n - j), Row(calls, i, j)) : j \in 1 .. n}
<1>3. ASSUME NEW k \in OfLane PROVE k \in OfWindow
  <2>1. PICK j \in Slots : j > shift /\ k = Key(BlkPosition(p) - CtxPosition(j), Row(calls, i, j - shift))
    BY <1>2
  <2>2. j - shift \in 1 .. n /\ BlkPosition(p) - CtxPosition(j) = p + (n - (j - shift))
    BY <1>1, <2>1 DEF Slots, BlkPosition, CtxPosition
  <2>3. QED  BY <2>1, <2>2
<1>4. ASSUME NEW k \in OfWindow PROVE k \in OfLane
  <2>1. PICK j \in 1 .. n : k = Key(p + (n - j), Row(calls, i, j))
    OBVIOUS
  <2> DEFINE slot == j + shift
  <2>2. /\ slot \in Slots /\ slot > shift /\ slot - shift = j
        /\ BlkPosition(p) - CtxPosition(slot) = p + (n - j)
    BY <1>1 DEF Slots, BlkPosition, CtxPosition
  <2> HIDE DEF slot
  <2>3. context[stage][i][slot] = Row(calls, i, j) /\ slot \in Unmasked
    BY <1>2, <2>2
  <2>4. QED  BY <2>1, <2>2, <2>3
<1>5. {Key(BlkPosition(p) - BlkPosition(b), stream[RowOf(i, b)]) : b \in Block}
        = {Key(p - b, rows[b]) : b \in Block}
  <2>1. \A b \in Block : BlkPosition(p) - BlkPosition(b) = p - b
    BY <1>1 DEF Block, BlkPosition
  <2>2. \A b \in Block : Key(BlkPosition(p) - BlkPosition(b), stream[RowOf(i, b)]) = Key(p - b, rows[b])
    BY <1>1, <2>1
  <2>3. QED  BY <2>2
<1>6. OfLane = OfWindow
  BY <1>3, <1>4
<1>7. QED  BY <1>5, <1>6 DEF KeysOf, KeysFor, rows, n

LEMMA RunStageInv ==
    ASSUME DraftInv, LoadInv, RunStage
    PROVE  DraftInv'
<1>1. /\ at = "stage" /\ at' = "stage" /\ stage \in Stages /\ stage' = stage + 1
      /\ stream' = [f \in DOMAIN stream |->
             Attended(stage, stream[f], KeysOf(stage, LaneOfRow(f), PlaceOfRow(f)), WoA)]
      /\ UNCHANGED <<calls, windows, lanes, anchors, graph, context, out, drafts, load>>
  BY DEF RunStage, bufferVars, weightVars
<1>2. load = "ready" /\ calls > 0 /\ context = Threaded /\ DraftTypeOK
  BY <1>1 DEF DraftInv
<1>3. WoA = "bf16"
  BY <1>2 DEF LoadInv, WoA
<1>4. stage \in Nat /\ stage + 1 \in 0 .. NStages /\ (stage + 1) - 1 = stage
  BY <1>1, WeightsAssumption DEF Stages
<1>5. DraftTypeOK'
  BY <1>1, <1>2, <1>4 DEF DraftTypeOK
<1>6. ASSUME NEW i \in Lanes, NEW p \in Block, windows[i] > 0
      PROVE  stream'[RowOf(i, p)] = ReferenceRows(calls, i, windows[i])[stage + 1][p]
  <2> DEFINE rows == ReferenceRows(calls, i, windows[i])[stage]
  <2>1. RowOf(i, p) \in DOMAIN stream
    BY <1>2, LaneAndPlace DEF DraftTypeOK
  <2>2. stream'[RowOf(i, p)] = Attended(stage, stream[RowOf(i, p)], KeysOf(stage, i, p), "bf16")
    BY <1>1, <1>3, <2>1, LaneAndPlace
  <2>3. stream[RowOf(i, p)] = rows[p]
    BY <1>1, <1>6 DEF DraftInv
  <2>4. KeysOf(stage, i, p) = KeysFor(calls, i, windows[i], rows, p)
    BY <1>1, <1>6, KeysAgree
  <2>5. ReferenceRows(calls, i, windows[i])[stage + 1]
          = NextRows(calls, i, windows[i], stage + 1, rows)
    BY <1>4, ReferenceUnfolds
  <2> HIDE DEF rows
  <2>6. QED  BY <1>4, <2>2, <2>3, <2>4, <2>5 DEF NextRows
<1>7. \A i \in Lanes, p \in Block : windows'[i] > 0 =>
          stream'[RowOf(i, p)] = ReferenceRows(calls', i, windows'[i])[stage'][p]
  BY <1>1, <1>6
<1>8. /\ lanes' = [i \in Lanes |-> Lane(calls', i, windows'[i])]
      /\ anchors' = [i \in Lanes |-> IF windows'[i] > 0 THEN AnchorOf(calls', i) ELSE Noise]
  BY <1>1, <1>2 DEF DraftInv
<1>9. context' = Threaded'
  BY <1>1, <1>2 DEF Threaded
<1>10. QED  BY <1>1, <1>2, <1>5, <1>7, <1>8, <1>9 DEF DraftInv, DraftsFollowReference

\* The draws of a lane are those of the reference, row by row.
LEMMA SampleInv ==
    ASSUME DraftInv, SampleBlock
    PROVE  DraftInv'
<1>1. /\ at = "stage" /\ stage = NStages /\ at' = "sampled"
      /\ out' = [i \in Lanes |-> DrawnBlock(i)]
      /\ UNCHANGED <<calls, windows, lanes, anchors, graph, context, stream, stage, drafts, load>>
  BY DEF SampleBlock, bufferVars, weightVars
<1>2. load = "ready" /\ calls > 0 /\ DraftTypeOK
  BY <1>1 DEF DraftInv
<1>3. DraftTypeOK'
  BY <1>1, <1>2 DEF DraftTypeOK, DrawnBlock
<1>4. ASSUME NEW i \in Lanes, windows[i] > 0
      PROVE  DrawnBlock(i) = ReferenceBlock(calls, i, windows[i])
  <2> DEFINE rows == ReferenceStream(calls, i, windows[i])
             Ours(f) == f = [n \in 0 .. BlockSize |->
                          IF n = 0 THEN anchors[i] ELSE Drawn(stream[RowOf(i, n)], f[n - 1])]
             Theirs(f) == f = [p \in 0 .. BlockSize |->
                            IF p = 0 THEN AnchorOf(calls, i) ELSE Drawn(rows[p], f[p - 1])]
  <2>1. anchors[i] = AnchorOf(calls, i)
    BY <1>2, <1>4 DEF DraftInv
  <2>2. \A p \in Block : stream[RowOf(i, p)] = rows[p]
    BY <1>1, <1>4 DEF DraftInv, ReferenceStream
  <2>3. \A n \in 0 .. BlockSize : n # 0 => n \in Block
    BY DraftAssumption DEF Block
  <2> HIDE DEF rows
  <2>4. ASSUME NEW f PROVE Ours(f) <=> Theirs(f)
    BY <2>1, <2>2, <2>3
  <2>5. DrawnBlock(i) = [n \in Block |-> (CHOOSE f : Ours(f))[n]]
    BY Zenon DEF DrawnBlock
  <2>6. ReferenceBlock(calls, i, windows[i]) = [n \in Block |-> (CHOOSE f : Theirs(f))[n]]
    BY Zenon DEF ReferenceBlock, rows
  <2> HIDE DEF Ours, Theirs
  <2>7. (CHOOSE f : Ours(f)) = (CHOOSE f : Theirs(f))
    BY <2>4, Zenon
  <2>8. QED  BY <2>5, <2>6, <2>7
<1>5. \A i \in Lanes : windows'[i] > 0 => out'[i] = ReferenceBlock(calls', i, windows'[i])
  BY <1>1, <1>4
<1>6. /\ lanes' = [i \in Lanes |-> Lane(calls', i, windows'[i])]
      /\ anchors' = [i \in Lanes |-> IF windows'[i] > 0 THEN AnchorOf(calls', i) ELSE Noise]
  BY <1>1, <1>2 DEF DraftInv
<1>7. QED  BY <1>1, <1>2, <1>3, <1>5, <1>6 DEF DraftInv, DraftsFollowReference

LEMMA HandOutInv ==
    ASSUME DraftInv, HandOut
    PROVE  DraftInv'
<1>1. /\ at = "sampled" /\ at' = "idle"
      /\ drafts' = [i \in Lanes |-> DraftsOf(i)]
      /\ UNCHANGED <<calls, windows, lanes, anchors, graph, context, stream, out, stage, load>>
  BY DEF HandOut, bufferVars, runVars, weightVars
<1>2. calls > 0 /\ DraftTypeOK
  BY <1>1 DEF DraftInv
<1>3. DraftTypeOK'
  BY <1>1, <1>2 DEF DraftTypeOK, DraftsOf
<1>4. \A i \in Lanes, n \in 1 .. K :
          drafts'[i][n] = IF windows[i] = 0 THEN NoDraft
                          ELSE ReferenceBlock(calls, i, windows[i])[n]
  <2> TAKE i \in Lanes, n \in 1 .. K
  <2>1. drafts'[i][n] = IF windows[i] > 0 THEN out[i][n] ELSE NoDraft
    BY <1>1 DEF DraftsOf
  <2>2. windows[i] \in Nat
    BY <1>2, DraftAssumption DEF DraftTypeOK
  <2>3. windows[i] > 0 => out[i] = ReferenceBlock(calls, i, windows[i])
    BY <1>1 DEF DraftInv
  <2>4. QED  BY <2>1, <2>2, <2>3
<1>5. DraftsFollowReference'
  BY <1>1, <1>4 DEF DraftsFollowReference
<1>6. /\ lanes' = [i \in Lanes |-> Lane(calls', i, windows'[i])]
      /\ anchors' = [i \in Lanes |-> IF windows'[i] > 0 THEN AnchorOf(calls', i) ELSE Noise]
  BY <1>1, <1>2 DEF DraftInv
<1>7. QED  BY <1>1, <1>3, <1>5, <1>6 DEF DraftInv

\* The weights stay as they are once drafting may begin.
LEMMA DraftNextInv == LoadInv /\ DraftInv /\ [DraftNext]_vars => LoadInv' /\ DraftInv'
<1> SUFFICES ASSUME LoadInv, DraftInv, [DraftNext]_vars PROVE LoadInv' /\ DraftInv'
  OBVIOUS
<1>1. CASE LoadNext /\ UNCHANGED draftVars
  BY <1>1, LoadNextInv, LoadStepInv
<1>2. CASE DraftStep
  <2>1. UNCHANGED weightVars
    BY <1>2 DEF DraftStep, Fill, Capture, CaptureFails, Embed, RunStage, SampleBlock, HandOut
  <2>2. LoadInv'
    BY <2>1 DEF LoadInv, weightVars
  <2>3. DraftInv'
    BY <1>2, FillInv, CaptureInv, EmbedInv, RunStageInv, SampleInv, HandOutInv DEF DraftStep
  <2>4. QED  BY <2>2, <2>3
<1>3. CASE Done \/ UNCHANGED vars
  <2> USE <1>3 DEF Done, vars, weightVars, draftVars, bufferVars, runVars
  <2>1. LoadInv'
    BY DEF LoadInv
  <2>2. DraftTypeOK' /\ DraftsFollowReference'
    BY DEF DraftInv, DraftTypeOK, DraftsFollowReference
  <2>3. QED  BY <2>1, <2>2 DEF DraftInv, Lane, Threaded
<1>4. QED  BY <1>1, <1>2, <1>3 DEF DraftNext

\* For any number of stages and experts, and any share of the experts on this
\* rank: no load of the draft raises, and in a loaded model the bias of the
\* confidence head is as it was made, every other shard has been written by one
\* tensor, of its stage or of none, and no tensor that this rank keeps is lost
\* (load_weights and _rewrite of model.py, the heads of heads.py).
THEOREM TensorsAreInPlace == DraftSpec => []TensorsInPlace
<1>1. DraftInit => LoadInv /\ DraftInv
  BY LoadInitInv, DraftInitInv DEF DraftInit
<1>2. LoadInv /\ DraftInv => TensorsInPlace
  BY LoadInvSuffices
<1>3. QED  BY <1>1, <1>2, DraftNextInv, PTL DEF DraftSpec

\* The buffers, the stream and the drafts keep their shape.
THEOREM DraftTypeCorrect == DraftSpec => []DraftTypeOK
<1>1. DraftInit => LoadInv /\ DraftInv
  BY LoadInitInv, DraftInitInv DEF DraftInit
<1>2. LoadInv /\ DraftInv => DraftTypeOK
  BY DEF DraftInv
<1>3. QED  BY <1>1, <1>2, DraftNextInv, PTL DEF DraftSpec

\* For any batch, window, block and number of stages, after any number of
\* calls: the drafts of each request are those of the reference for its window
\* and anchor alone, with a graph, by the fallback or without graphs, whatever
\* the other lanes and earlier calls held (forward and sample_block of
\* model.py, _run_draft_batched of proposer.py).
THEOREM DraftsFollow == DraftSpec => []DraftsFollowReference
<1>1. DraftInit => LoadInv /\ DraftInv
  BY LoadInitInv, DraftInitInv DEF DraftInit
<1>2. LoadInv /\ DraftInv => DraftsFollowReference
  BY DEF DraftInv
<1>3. QED  BY <1>1, <1>2, DraftNextInv, PTL DEF DraftSpec
=============================================================================
