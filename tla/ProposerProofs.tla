--------------------------- MODULE ProposerProofs ---------------------------
(***************************************************************************)
(* Proofs about Proposer, for any requests, lanes, windows and drafts, and *)
(* about the harness of ReplayBanking that follows it.                     *)
(***************************************************************************)
EXTENDS ProposerInv, ReplayBanking, TLAPS, FiniteSetTheorems, FunctionTheorems, SequenceTheorems,
        WellFoundedInduction

\* A set that has 0 and the successor of each of its numbers has all numbers:
\* there is no least one that it has not.  Induction is stated for sets here,
\* which the first-order provers can use.
LEMMA SetInduction ==
    ASSUME NEW S, 0 \in S, \A n \in Nat : n \in S => n + 1 \in S
    PROVE  Nat \subseteq S
<1> DEFINE R == OpToRel(<, Nat)
<1>1. IsWellFoundedOn(R, Nat)
  BY NatLessThanWellFounded
<1>2. \A x, y \in Nat : <<x, y>> \in R <=> x < y
  BY DEF OpToRel
<1> HIDE DEF R
<1>3. SUFFICES ASSUME Nat \ S # {} PROVE FALSE
  OBVIOUS
<1>4. PICK m \in Nat \ S : \A y \in Nat \ S : <<y, m>> \notin R
  BY <1>1, <1>3, WFMin
<1>5. m - 1 \in Nat \ S /\ m - 1 < m
  <2>1. m # 0 /\ (m - 1) + 1 = m
    OBVIOUS
  <2>2. QED  BY <2>1
<1>6. QED  BY <1>2, <1>4, <1>5

-----------------------------------------------------------------------------
(* Sequences of hidden states.                                             *)

\* The last n of a sequence of m: the smaller of the two in number, and
\* those at the end.
LEMMA LastOnesOf ==
    ASSUME NEW S, NEW s \in Seq(S), NEW n \in Nat
    PROVE  /\ LastOnes(s, n) \in Seq(S)
           /\ Len(LastOnes(s, n)) = MinOf(n, Len(s))
           /\ \A j \in 1 .. MinOf(n, Len(s)) :
                LastOnes(s, n)[j] = s[j + Len(s) - MinOf(n, Len(s))]
<1> DEFINE m == MinOf(n, Len(s))
           a == Len(s) - m + 1
<1>0. Len(s) \in Nat
  BY LenProperties
<1>1. Len(s) \in Nat /\ m \in 0 .. Len(s) /\ a \in 1 .. Len(s) + 1
  <2>1. CASE n =< Len(s)
    BY <1>0, <2>1 DEF MinOf
  <2>2. CASE ~(n =< Len(s))
    BY <1>0, <2>2 DEF MinOf
  <2> QED  BY <2>1, <2>2
<1>2. \A i \in a .. Len(s) : s[i] \in S
  BY <1>1, ElementOfSeq
<1>3. /\ SubSeq(s, a, Len(s)) \in Seq(S)
      /\ Len(SubSeq(s, a, Len(s))) = IF a =< Len(s) THEN Len(s) - a + 1 ELSE 0
      /\ \A i \in 1 .. Len(s) - a + 1 : SubSeq(s, a, Len(s))[i] = s[a + i - 1]
  <2> HIDE DEF a, m
  <2> QED  BY <1>1, <1>2, SubSeqProperties
<1>4. Len(s) - a + 1 = m /\ \A i \in 1 .. m : a + i - 1 = i + Len(s) - m
  BY <1>1
<1>5. LastOnes(s, n) = SubSeq(s, a, Len(s))
  BY DEF LastOnes
<1> HIDE DEF a
<1> QED  BY <1>1, <1>3, <1>4, <1>5

LEMMA FrontOf ==
    ASSUME NEW S, NEW s \in Seq(S), NEW n \in 0 .. Len(s)
    PROVE  /\ SubSeq(s, 1, n) \in Seq(S)
           /\ Len(SubSeq(s, 1, n)) = n
           /\ \A j \in 1 .. n : SubSeq(s, 1, n)[j] = s[j]
<1>1. \A i \in 1 .. n : s[i] \in S
  BY ElementOfSeq
<1>2. /\ SubSeq(s, 1, n) \in Seq(S)
      /\ Len(SubSeq(s, 1, n)) = IF 1 =< n THEN n - 1 + 1 ELSE 0
      /\ \A i \in 1 .. n - 1 + 1 : SubSeq(s, 1, n)[i] = s[1 + i - 1]
  BY <1>1, SubSeqProperties
<1> QED  BY <1>2

\* A sequence whose elements are a run of states is that run.
LEMMA RunOf ==
    ASSUME NEW r, NEW first \in Int, NEW s \in Seq(HiddenStates),
           \A j \in 1 .. Len(s) : s[j] = HiddenState(r, first + j - 1, TRUE)
    PROVE  s = StateRun(r, first, Len(s))
<1>1. s \in [1 .. Len(s) -> HiddenStates]
  BY LenProperties
<1> QED  BY <1>1 DEF StateRun

-----------------------------------------------------------------------------
(* What the steps are made of.                                             *)

LEMMA StateTyped ==
    ASSUME NEW r \in Requests, NEW pos \in Nat, NEW kept \in BOOLEAN
    PROVE  HiddenState(r, pos, kept) \in HiddenStates
BY DEF HiddenState, HiddenStates

LEMMA BlocksOf ==
    ASSUME Typed, LastToCompute, NEW r \in Running, NEW b \in Blocks(r)
    PROVE  /\ b.n \in Nat \ {0} /\ b.accepted \in 0 .. K
           /\ Samples(r, b) \in 0 .. K + 1
           /\ Samples(r, b) =< b.n
           /\ Samples(r, b) = 0 => computed[r] + b.n < length[r]
           /\ Samples(r, b) > 0 => Samples(r, b) = b.accepted + 1
<1>1. computed[r] \in Nat /\ length[r] \in Nat /\ computed[r] < length[r] /\ r \in Requests
  BY DEF Typed, LastToCompute, Running
<1>2. b.n \in 1 .. MaxChunk /\ b.accepted \in 0 .. K
      /\ (b.accepted = 0 \/ b.accepted < b.n)
  BY DEF Blocks
<1>3. MaxChunk \in Nat /\ K \in Nat
  BY ProposerAssumption
<1>4. CASE computed[r] + b.n >= length[r]
  BY <1>1, <1>2, <1>3, <1>4 DEF Samples
<1>5. CASE ~(computed[r] + b.n >= length[r])
  BY <1>1, <1>2, <1>3, <1>5 DEF Samples
<1> QED  BY <1>4, <1>5

LEMMA AuxBlockTyped ==
    ASSUME Typed, LastToCompute, NEW r \in Running, NEW b \in Blocks(r)
    PROVE  AuxBlock(r, b) \in Seq(HiddenStates) /\ Len(AuxBlock(r, b)) = b.n
<1>1. b.n \in Nat \ {0} /\ b.accepted \in Nat
  BY BlocksOf, ProposerAssumption
<1>2. computed[r] \in Nat /\ length[r] \in Nat /\ r \in Requests
  BY DEF Typed, Running
<1>3. \A j \in 1 .. b.n :
        HiddenState(r, computed[r] + j - 1, computed[r] + j - 1 < length[r] + b.accepted)
            \in HiddenStates
  <2> TAKE j \in 1 .. b.n
  <2>1. computed[r] + j - 1 \in Nat
    BY <1>1, <1>2
  <2>2. (computed[r] + j - 1 < length[r] + b.accepted) \in BOOLEAN
    OBVIOUS
  <2> QED  BY <1>2, <2>1, <2>2, StateTyped
<1>4. AuxBlock(r, b) \in [1 .. b.n -> HiddenStates]
  BY <1>3 DEF AuxBlock
<1> QED  BY <1>1, <1>4

LEMMA SeenOf ==
    ASSUME Typed, SampledFromBlock, NEW r \in Seen
    PROVE  /\ r \in Requests /\ sampled[r] \in 1 .. K + 1
           /\ aux[r] \in Seq(HiddenStates)
           /\ Len(aux[r]) \in Nat \ {0} /\ sampled[r] =< Len(aux[r])
<1>1. r \in Requests /\ sampled[r] \in 1 .. K + 1
  BY ProposerAssumption DEF Seen, Typed
<1>2. aux[r] \in Seq(HiddenStates) /\ Len(aux[r]) \in Nat /\ sampled[r] =< Len(aux[r])
  BY <1>1, LenProperties DEF Typed, SampledFromBlock
<1> QED  BY <1>1, <1>2, ProposerAssumption

LEMMA SeedOf ==
    ASSUME Typed, SampledFromBlock, NEW r \in Seen
    PROVE  /\ Seed(r) \in Seq(HiddenStates)
           /\ Len(Seed(r)) = MinOf(WindowSize, Len(aux[r]))
           /\ Len(Seed(r)) \in 1 .. WindowSize /\ Len(Seed(r)) =< Len(aux[r])
           /\ \A j \in 1 .. Len(Seed(r)) :
                Seed(r)[j] = aux[r][j + Len(aux[r]) - Len(Seed(r))]
<1>1. WindowSize \in Nat \ {0}
  BY ProposerAssumption
<1>2. aux[r] \in Seq(HiddenStates) /\ Len(aux[r]) \in Nat \ {0}
  BY SeenOf
<1>3. /\ Seed(r) \in Seq(HiddenStates)
      /\ Len(Seed(r)) = MinOf(WindowSize, Len(aux[r]))
      /\ \A j \in 1 .. MinOf(WindowSize, Len(aux[r])) :
           Seed(r)[j] = aux[r][j + Len(aux[r]) - MinOf(WindowSize, Len(aux[r]))]
  BY <1>1, <1>2, LastOnesOf DEF Seed
<1>4. MinOf(WindowSize, Len(aux[r])) \in 1 .. WindowSize
      /\ MinOf(WindowSize, Len(aux[r])) =< Len(aux[r])
  BY <1>1, <1>2 DEF MinOf
<1> QED  BY <1>3, <1>4

\* The window of a decode step: what was there and the front of the block,
\* of which the last WindowSize are kept.
LEMMA BankOf ==
    ASSUME Typed, SampledFromBlock, NEW r \in Seen, ~IsNewSeq(r),
           NEW fresh, fresh = MinOf(length[r] - win[r].prev, Len(aux[r])),
           NEW total, total = Len(win[r].window) + fresh
    PROVE  /\ r \in DOMAIN win /\ win[r].window \in Seq(HiddenStates)
           /\ Len(win[r].window) \in 1 .. WindowSize
           /\ fresh \in 1 .. K + 1 /\ fresh =< Len(aux[r])
           /\ Bank(r) \in Seq(HiddenStates)
           /\ Len(Bank(r)) = MinOf(WindowSize, total)
           /\ Len(Bank(r)) \in 1 .. WindowSize /\ Len(Bank(r)) =< total
           /\ \A j \in 1 .. Len(Bank(r)) :
                LET i == j + total - Len(Bank(r))
                IN  Bank(r)[j] = IF i =< Len(win[r].window) THEN win[r].window[i]
                                 ELSE aux[r][i - Len(win[r].window)]
<1>1. WindowSize \in Nat \ {0} /\ K \in Nat
  BY ProposerAssumption
<1>2. r \in Requests /\ aux[r] \in Seq(HiddenStates) /\ Len(aux[r]) \in Nat \ {0}
  BY SeenOf
<1>3. r \in DOMAIN win /\ length[r] > win[r].prev /\ length[r] - win[r].prev =< K + 1
      /\ length[r] \in Nat /\ win[r].prev \in Nat /\ win[r].window \in Seq(HiddenStates)
      /\ Len(win[r].window) \in 1 .. WindowSize
  <2>1. r \in DOMAIN win /\ ~(length[r] =< win[r].prev) /\ ~(length[r] - win[r].prev > K + 1)
    BY DEF IsNewSeq, Known
  <2>2. length[r] \in Nat /\ win[r].prev \in Nat /\ win[r].window \in Seq(HiddenStates)
        /\ Len(win[r].window) \in 1 .. WindowSize
    BY <1>2, <2>1 DEF Typed
  <2> QED  BY <1>1, <2>1, <2>2
<1>4. fresh \in 1 .. K + 1 /\ fresh =< Len(aux[r])
  BY <1>1, <1>2, <1>3 DEF MinOf
<1> DEFINE front == SubSeq(aux[r], 1, fresh)
           whole == win[r].window \o front
<1>5. front \in Seq(HiddenStates) /\ Len(front) = fresh
      /\ \A j \in 1 .. fresh : front[j] = aux[r][j]
  BY <1>2, <1>4, FrontOf
<1>6. whole \in Seq(HiddenStates) /\ Len(whole) = total
      /\ \A i \in 1 .. total :
           whole[i] = IF i =< Len(win[r].window) THEN win[r].window[i]
                      ELSE aux[r][i - Len(win[r].window)]
  <2>1. /\ whole \in Seq(HiddenStates)
        /\ Len(whole) = total
        /\ \A i \in 1 .. total :
             whole[i] = IF i =< Len(win[r].window) THEN win[r].window[i]
                        ELSE front[i - Len(win[r].window)]
    <3>1. ASSUME NEW s \in Seq(HiddenStates), NEW t \in Seq(HiddenStates)
          PROVE  /\ s \o t \in Seq(HiddenStates)
                 /\ Len(s \o t) = Len(s) + Len(t)
                 /\ \A i \in 1 .. Len(s) + Len(t) :
                      (s \o t)[i] = IF i =< Len(s) THEN s[i] ELSE t[i - Len(s)]
      BY ConcatProperties
    <3>2. win[r].window \in Seq(HiddenStates) /\ front \in Seq(HiddenStates)
      BY <1>3, <1>5
    <3> HIDE DEF front
    <3>3. /\ whole \in Seq(HiddenStates)
          /\ Len(whole) = Len(win[r].window) + Len(front)
          /\ \A i \in 1 .. Len(win[r].window) + Len(front) :
               whole[i] = IF i =< Len(win[r].window) THEN win[r].window[i]
                          ELSE front[i - Len(win[r].window)]
      BY <3>1, <3>2
    <3> QED  BY <1>5, <3>3
  <2>2. \A i \in 1 .. total : ~(i =< Len(win[r].window)) => i - Len(win[r].window) \in 1 .. fresh
    BY <1>3, <1>4
  <2> HIDE DEF whole, front
  <2> QED  BY <1>5, <2>1, <2>2
<1>7. Bank(r) = LastOnes(whole, WindowSize)
  BY DEF Bank
<1>8. total \in Nat /\ MinOf(WindowSize, total) \in 1 .. WindowSize
      /\ MinOf(WindowSize, total) =< total
  BY <1>1, <1>3, <1>4, SMTT(40) DEF MinOf
<1>9. /\ Bank(r) \in Seq(HiddenStates)
      /\ Len(Bank(r)) = MinOf(WindowSize, total)
      /\ \A j \in 1 .. MinOf(WindowSize, total) :
           Bank(r)[j] = whole[j + total - MinOf(WindowSize, total)]
  <2> HIDE DEF whole
  <2>1. whole \in Seq(HiddenStates) /\ Len(whole) = total /\ WindowSize \in Nat
    BY <1>1, <1>6
  <2>2. /\ LastOnes(whole, WindowSize) \in Seq(HiddenStates)
        /\ Len(LastOnes(whole, WindowSize)) = MinOf(WindowSize, Len(whole))
        /\ \A j \in 1 .. MinOf(WindowSize, Len(whole)) :
             LastOnes(whole, WindowSize)[j] = whole[j + Len(whole) - MinOf(WindowSize, Len(whole))]
    BY <2>1, LastOnesOf
  <2> QED  BY <1>7, <2>1, <2>2
<1>10. \A j \in 1 .. MinOf(WindowSize, total) :
          j + total - MinOf(WindowSize, total) \in 1 .. total
  BY <1>1, <1>8
<1> HIDE DEF whole
<1> QED  BY <1>3, <1>4, <1>6, <1>8, <1>9, <1>10

LEMMA NewWindowTyped ==
    ASSUME Typed, SampledFromBlock, NEW r \in Seen
    PROVE  NewWindow(r) \in Seq(HiddenStates) /\ Len(NewWindow(r)) \in 1 .. WindowSize
<1>1. CASE IsNewSeq(r)
  BY <1>1, SeedOf DEF NewWindow
<1>2. CASE ~IsNewSeq(r)
  BY <1>2, BankOf DEF NewWindow
<1> QED  BY <1>1, <1>2

-----------------------------------------------------------------------------
(* BankInv, step by step.                                                  *)

LEMMA BankInit == Init => BankInv
<1> SUFFICES ASSUME Init PROVE BankInv
  OBVIOUS
<1>1. Typed
  BY ProposerAssumption DEF Init, Typed
<1>2. Running = {} /\ Seen = {} /\ DOMAIN win = {}
  BY DEF Init, Running, Seen
<1>3. FewRunning /\ FewWindows
  BY <1>2, FS_EmptySet, ProposerAssumption DEF FewRunning, FewWindows
<1> QED  BY <1>1, <1>2, <1>3 DEF BankInv, LastToCompute, SampledFromBlock

LEMMA BankAdmit ==
    ASSUME BankInv, NEW r \in Requests, Admit(r)
    PROVE  BankInv'
<1> USE DEF BankInv
<1>1. PICK n \in IF status[r] = "new" THEN PromptLengths ELSE {length[r]} :
        /\ length' = [length EXCEPT ![r] = n]
        /\ \E cached \in 0 .. n - 1 : computed' = [computed EXCEPT ![r] = cached]
  BY DEF Admit
<1>n. n \in Nat
  BY <1>1, ProposerAssumption DEF Typed
<1>c. PICK cached \in 0 .. n - 1 : computed' = [computed EXCEPT ![r] = cached]
  BY <1>1
<1>2. /\ status' = [status EXCEPT ![r] = "running"] /\ phase = "runner"
      /\ Cardinality(Running) < MaxBatch
      /\ UNCHANGED <<drafted, phase, aux, sampled, win, lanes>>
  BY DEF Admit, stepVars, draftVars
<1>3. Typed'
  BY <1>1, <1>n, <1>c, <1>2 DEF Typed
<1>4. Running' = Running \cup {r}
  BY <1>2 DEF Running, Typed
<1>5. LastToCompute'
  BY <1>1, <1>n, <1>c, <1>2, <1>4 DEF LastToCompute, Typed, Running
<1>6. FewRunning'
  <2>1. Cardinality(Running) \in Nat
    BY FS_CardinalityType DEF FewRunning
  <2>2. IsFiniteSet(Running \cup {r})
        /\ Cardinality(Running \cup {r}) \in {Cardinality(Running), Cardinality(Running) + 1}
    BY FS_AddElement DEF FewRunning
  <2> QED  BY <1>2, <1>4, <2>1, <2>2, ProposerAssumption DEF FewRunning
<1>7. SampledFromBlock' /\ FewWindows'
  BY <1>2 DEF SampledFromBlock, FewWindows, Seen
<1> QED  BY <1>3, <1>5, <1>6, <1>7

LEMMA BankPreempt ==
    ASSUME BankInv, NEW r \in Requests, Preempt(r)
    PROVE  BankInv'
<1> USE DEF BankInv
<1>1. /\ status' = [status EXCEPT ![r] = "preempted"] /\ phase = "runner"
      /\ computed' = [computed EXCEPT ![r] = 0] /\ drafted' = [drafted EXCEPT ![r] = FALSE]
      /\ UNCHANGED <<length, phase, aux, sampled, win, lanes>>
  BY DEF Preempt, stepVars, draftVars
<1>2. Typed'
  BY <1>1 DEF Typed
<1>3. Running' = Running \ {r}
  BY <1>1 DEF Running, Typed
<1>4. LastToCompute'
  BY <1>1, <1>3 DEF LastToCompute, Typed, Running
<1>5. FewRunning'
  BY <1>3, FS_Subset, FS_CardinalityType, ProposerAssumption DEF FewRunning
<1>6. SampledFromBlock' /\ FewWindows'
  BY <1>1 DEF SampledFromBlock, FewWindows, Seen
<1> QED  BY <1>2, <1>4, <1>5, <1>6

LEMMA BankFinish ==
    ASSUME BankInv, NEW r \in Requests, Finish(r)
    PROVE  BankInv'
<1> USE DEF BankInv
<1>1. /\ status' = [status EXCEPT ![r] = "finished"] /\ phase = "runner"
      /\ UNCHANGED <<length, computed, drafted, phase, aux, sampled, win, lanes>>
  BY DEF Finish, stepVars, draftVars
<1>2. Typed'
  BY <1>1 DEF Typed
<1>3. Running' = Running \ {r}
  BY <1>1 DEF Running, Typed
<1>4. LastToCompute'
  BY <1>1, <1>3 DEF LastToCompute, Typed, Running
<1>5. FewRunning'
  BY <1>3, FS_Subset, FS_CardinalityType, ProposerAssumption DEF FewRunning
<1>6. SampledFromBlock' /\ FewWindows'
  BY <1>1 DEF SampledFromBlock, FewWindows, Seen
<1> QED  BY <1>2, <1>4, <1>5, <1>6

\* What a forward does to each request, for the blocks it was given.
Forwarded(batch, block) ==
    /\ phase = "runner" /\ batch \subseteq Running /\ batch # {}
    /\ \A r \in batch : block[r] \in Blocks(r)
    /\ \A r \in Running : drafted[r] => r \in batch
    /\ QuietSteps \/ BeingPreempted = {} \/ \E r \in batch : Samples(r, block[r]) > 0
    /\ sampled' = [r \in Requests |-> IF r \in batch THEN Samples(r, block[r]) ELSE 0]
    /\ aux' = [r \in Requests |-> IF r \in batch THEN AuxBlock(r, block[r]) ELSE <<>>]
    /\ length' = [r \in Requests |-> length[r] + sampled'[r]]
    /\ computed' = [r \in Requests |->
         IF r \notin batch THEN computed[r]
         ELSE IF sampled'[r] > 0 THEN length'[r] - 1
         ELSE computed[r] + block[r].n]
    /\ drafted' = [r \in Requests |-> drafted[r] /\ r \notin batch]
    /\ status' = [r \in Requests |->
                    IF status[r] = "preempted" THEN "waiting" ELSE status[r]]
    /\ phase' = "propose"
    /\ UNCHANGED <<win, lanes>>

LEMMA ForwardIs == Forward => \E batch, block : Forwarded(batch, block)
BY Zenon DEF Forward, Forwarded, draftVars

LEMMA BankForward ==
    ASSUME BankInv, NEW batch, NEW block, Forwarded(batch, block)
    PROVE  BankInv'
<1> USE DEF BankInv
<1>1. ASSUME NEW r \in batch
      PROVE  /\ r \in Requests /\ r \in Running
             /\ block[r].n \in Nat \ {0}
             /\ sampled'[r] = Samples(r, block[r]) /\ sampled'[r] \in 0 .. K + 1
             /\ sampled'[r] =< block[r].n
             /\ sampled'[r] = 0 => computed[r] + block[r].n < length[r]
             /\ aux'[r] = AuxBlock(r, block[r])
             /\ aux'[r] \in Seq(HiddenStates) /\ Len(aux'[r]) = block[r].n
  <2>1. r \in Requests /\ r \in Running /\ block[r] \in Blocks(r)
    BY <1>1 DEF Forwarded, Running
  <2>2. sampled'[r] = Samples(r, block[r]) /\ aux'[r] = AuxBlock(r, block[r])
    BY <1>1, <2>1 DEF Forwarded
  <2> QED  BY <2>1, <2>2, BlocksOf, AuxBlockTyped
<1>2. ASSUME NEW r \in Requests, r \notin batch
      PROVE  sampled'[r] = 0 /\ aux'[r] = <<>> /\ computed'[r] = computed[r]
  BY <1>2 DEF Forwarded
<1>3. Typed'
  <2>1. sampled' \in [Requests -> 0 .. K + 1]
    <3>1. ASSUME NEW r \in Requests PROVE sampled'[r] \in 0 .. K + 1
      BY <1>1, <1>2, ProposerAssumption
    <3> QED  BY <3>1 DEF Forwarded
  <2>2. aux' \in [Requests -> Seq(HiddenStates)]
    <3>1. ASSUME NEW r \in Requests PROVE aux'[r] \in Seq(HiddenStates)
      BY <1>1, <1>2, EmptySeq
    <3> QED  BY <3>1 DEF Forwarded
  <2>3. length' \in [Requests -> Nat]
    BY <2>1, ProposerAssumption DEF Forwarded, Typed
  <2>4. computed' \in [Requests -> Nat]
    <3>1. ASSUME NEW r \in Requests PROVE computed'[r] \in Nat
      <4>1. CASE r \notin batch
        BY <1>2, <4>1 DEF Typed
      <4>2. CASE r \in batch /\ sampled'[r] > 0
        <5>1. length'[r] \in Nat /\ length'[r] = length[r] + sampled'[r]
              /\ length[r] \in Nat /\ sampled'[r] \in Nat
          BY <2>1, <2>3, ProposerAssumption DEF Forwarded, Typed
        <5>2. computed'[r] = length'[r] - 1
          BY <4>2 DEF Forwarded
        <5> QED  BY <4>2, <5>1, <5>2
      <4>3. CASE r \in batch /\ ~(sampled'[r] > 0)
        <5>1. computed'[r] = computed[r] + block[r].n
          BY <4>3 DEF Forwarded
        <5> QED  BY <1>1, <4>3, <5>1 DEF Typed
      <4> QED  BY <4>1, <4>2, <4>3
    <3> QED  BY <3>1 DEF Forwarded
  <2>5. status' \in [Requests -> {"new", "running", "preempted", "waiting", "finished"}]
        /\ drafted' \in [Requests -> BOOLEAN] /\ phase' \in {"runner", "propose"}
        /\ win' = win
    BY DEF Forwarded, Typed
  <2> QED  BY <2>1, <2>2, <2>3, <2>4, <2>5 DEF Typed
<1>4. Running' = Running
  BY DEF Running, Typed, Forwarded
<1>5. LastToCompute'
  <2> SUFFICES ASSUME NEW r \in Running PROVE computed'[r] < length'[r]
    BY <1>4 DEF LastToCompute
  <2>0. r \in Requests
    BY DEF Running
  <2>1. /\ computed[r] \in Nat /\ length[r] \in Nat /\ computed[r] < length[r]
        /\ sampled'[r] \in Nat /\ length'[r] \in Nat
        /\ length'[r] = length[r] + sampled'[r]
    <3>1. computed[r] \in Nat /\ length[r] \in Nat /\ computed[r] < length[r]
      BY <2>0 DEF LastToCompute, Typed
    <3>2. sampled'[r] \in Nat /\ length'[r] \in Nat
      BY <1>3, <2>0, ProposerAssumption DEF Typed
    <3>3. length'[r] = length[r] + sampled'[r]
      BY <2>0 DEF Forwarded
    <3> QED  BY <3>1, <3>2, <3>3
  <2>2. CASE r \notin batch
    BY <1>2, <2>0, <2>1, <2>2
  <2>3. CASE r \in batch /\ sampled'[r] > 0
    BY <2>0, <2>1, <2>3 DEF Forwarded
  <2>4. CASE r \in batch /\ sampled'[r] = 0
    <3>1. computed'[r] = computed[r] + block[r].n
      BY <2>0, <2>1, <2>4 DEF Forwarded
    <3> QED  BY <1>1, <2>1, <2>4, <3>1
  <2> QED  BY <2>1, <2>2, <2>3, <2>4
<1>6. FewRunning' /\ FewWindows'
  BY <1>4 DEF FewRunning, FewWindows, Forwarded
<1>7. SampledFromBlock'
  <2> SUFFICES ASSUME NEW r \in Seen'
               PROVE  sampled'[r] =< Len(aux'[r]) /\ status'[r] = "running"
                      /\ sampled'[r] =< length'[r] /\ computed'[r] = length'[r] - 1
    BY DEF SampledFromBlock
  <2>1. r \in Requests /\ sampled'[r] > 0
    BY DEF Seen
  <2>2. r \in batch
    BY <1>2, <2>1
  <2>3. status'[r] = "running"
    BY <1>1, <2>1, <2>2 DEF Forwarded, Running
  <2>4. length'[r] = length[r] + sampled'[r] /\ length[r] \in Nat /\ sampled'[r] \in Nat
    BY <1>3, <2>1, ProposerAssumption DEF Forwarded, Typed
  <2>5. computed'[r] = length'[r] - 1
    BY <2>1, <2>2 DEF Forwarded
  <2>6. sampled'[r] =< length'[r]
    BY <2>4
  <2> QED  BY <1>1, <2>2, <2>3, <2>5, <2>6
<1> QED  BY <1>3, <1>5, <1>6, <1>7

\* What propose() leaves of the windows.
LEMMA ProposedWindows ==
    ASSUME BankInv, Propose
    PROVE  /\ DOMAIN win' = Seen
           /\ \A r \in Seen : win'[r] = [window |-> NewWindow(r), prev |-> length[r]]
           /\ win' = [r \in Seen |-> win'[r]]
<1>1. win' = [r \in Seen |-> IF r \in Seen THEN [window |-> NewWindow(r), prev |-> length[r]]
                                            ELSE win[r]]
  BY DEF Propose, Kept, Banked
<1> QED  BY <1>1

LEMMA BankPropose ==
    ASSUME BankInv, Propose
    PROVE  BankInv'
<1> USE DEF BankInv
<1>1. /\ phase = "propose" /\ phase' = "runner"
      /\ drafted' = [r \in Requests |-> drafted[r] \/ r \in Seen]
      /\ UNCHANGED <<status, length, computed, aux, sampled>>
  BY DEF Propose, schedVars, stepVars
<1>2. Seen \subseteq Requests /\ Seen \subseteq Running
  BY <1>1 DEF Seen, SampledFromBlock, Running
<1>3. Typed'
  <2>1. ASSUME NEW r \in Seen
        PROVE  /\ win'[r] \in [window : Seq(HiddenStates), prev : Nat]
               /\ Len(win'[r].window) \in 1 .. WindowSize
    <3>1. NewWindow(r) \in Seq(HiddenStates) /\ Len(NewWindow(r)) \in 1 .. WindowSize
      BY NewWindowTyped
    <3>2. length[r] \in Nat
      BY <1>2 DEF Typed
    <3> QED  BY <3>1, <3>2, ProposedWindows
  <2>2. win' \in [DOMAIN win' -> [window : Seq(HiddenStates), prev : Nat]]
    BY <2>1, ProposedWindows
  <2> QED  BY <1>1, <1>2, <2>1, <2>2, ProposedWindows DEF Typed
<1>4. FewRunning' /\ LastToCompute' /\ SampledFromBlock'
  BY <1>1 DEF FewRunning, LastToCompute, SampledFromBlock, Running, Seen
<1>5. FewWindows'
  <2>1. IsFiniteSet(Seen) /\ Cardinality(Seen) =< Cardinality(Running)
    BY <1>2, FS_Subset DEF FewRunning
  <2>2. Cardinality(Seen) \in Nat /\ Cardinality(Running) \in Nat
    BY <2>1, FS_CardinalityType DEF FewRunning
  <2> QED  BY <2>1, <2>2, ProposedWindows, ProposerAssumption DEF FewWindows, FewRunning
<1> QED  BY <1>3, <1>4, <1>5

LEMMA BankStep == BankInv /\ [Next]_vars => BankInv'
<1> SUFFICES ASSUME BankInv, [Next]_vars PROVE BankInv'
  OBVIOUS
<1>1. CASE \E r \in Requests : Admit(r) \/ Preempt(r) \/ Finish(r)
  BY <1>1, BankAdmit, BankPreempt, BankFinish
<1>2. CASE Forward
  BY <1>2, ForwardIs, BankForward
<1>3. CASE ProposeNothing
  BY <1>3 DEF BankInv, ProposeNothing, schedVars, stepVars, draftVars, Typed, LastToCompute,
              FewRunning, SampledFromBlock, FewWindows, Running, Seen
<1>4. CASE Propose
  BY <1>4, BankPropose
<1>5. CASE Finished \/ UNCHANGED vars
  BY <1>5 DEF BankInv, Finished, vars, schedVars, stepVars, draftVars, Typed, LastToCompute,
              FewRunning, SampledFromBlock, FewWindows, Running, Seen
<1> QED  BY <1>1, <1>2, <1>3, <1>4, <1>5 DEF Next

THEOREM BankInvariance == Spec => []BankInv
BY BankInit, BankStep, PTL DEF Spec

\* propose() keeps no more windows than requests run at a time, whatever is
\* preempted (proposer.py:338-341).
THEOREM WindowsEvicted == Spec => []WindowsBounded
<1>1. BankInv => WindowsBounded
  BY DEF BankInv, FewWindows, WindowsBounded
<1> QED  BY <1>1, BankInvariance, PTL

\* The fields of the proposer and the bookkeeping around it keep their types
\* and their bounds: a window is never empty nor longer than window_size.
THEOREM ProposerTypes == Spec => []TypeOK
<1>1. BankInv => TypeOK
  BY DEF BankInv, Typed, TypeOK
<1> QED  BY <1>1, BankInvariance, PTL

\* A decode step adds all that it confirmed to the window, up to its size
\* (proposer.py:312-323), whatever is preempted.
THEOREM WindowsAlwaysGrow == Spec => WindowsGrow
<1>1. ASSUME BankInv, Propose, NEW r \in DOMAIN win, r \in Seen,
             win[r].prev = length[r] - sampled[r]
      PROVE  Len(win'[r].window) = MinOf(WindowSize, Len(win[r].window) + sampled[r])
  <2>1. /\ r \in Requests /\ sampled[r] \in 1 .. K + 1 /\ sampled[r] =< Len(aux[r])
        /\ Len(aux[r]) \in Nat
    BY <1>1, SeenOf DEF BankInv
  <2>2. length[r] \in Nat /\ win[r].prev \in Nat
    BY <1>1, <2>1 DEF BankInv, Typed
  <2>3. length[r] - win[r].prev = sampled[r] /\ ~IsNewSeq(r)
    BY <1>1, <2>1, <2>2, ProposerAssumption DEF IsNewSeq, Known
  <2>4. MinOf(length[r] - win[r].prev, Len(aux[r])) = sampled[r]
    BY <2>1, <2>3 DEF MinOf
  <2>5. win'[r].window = Bank(r)
    BY <1>1, <2>3, ProposedWindows DEF NewWindow
  <2> QED  BY <1>1, <2>3, <2>4, <2>5, BankOf DEF BankInv
<1>2. BankInv => [\A r \in DOMAIN win :
         (Propose /\ r \in Seen /\ win[r].prev = length[r] - sampled[r]) =>
             Len(win'[r].window) = MinOf(WindowSize, Len(win[r].window) + sampled[r])]_vars
  BY <1>1
<1> QED  BY <1>2, BankInvariance, PTL DEF WindowsGrow

-----------------------------------------------------------------------------
(* RecentInv, step by step.                                                *)

LEMMA RecentInit == Init => RecentInv
<1> SUFFICES ASSUME Init PROVE RecentInv
  OBVIOUS
<1>1. DOMAIN win = {} /\ Running = {} /\ Seen = {} /\ phase = "runner"
  BY DEF Init, Running, Seen
<1>2. \A r \in Requests : drafted[r] = FALSE /\ sampled[r] = 0
  BY DEF Init
<1> QED  BY <1>1, <1>2 DEF RecentInv, WindowsRun, WindowsUsed, BlocksCurrent, NothingAhead

LEMMA RecentAdmit ==
    ASSUME BankInv, RecentInv, NEW r \in Requests, Admit(r)
    PROVE  RecentInv'
<1> USE DEF BankInv, RecentInv
<1>1. /\ status' = [status EXCEPT ![r] = "running"] /\ phase = "runner"
      /\ status[r] \in {"new", "waiting"}
      /\ UNCHANGED <<drafted, phase, aux, sampled, win, lanes>>
  BY DEF Admit, stepVars, draftVars
<1>2. \A q \in Requests : q # r => length'[q] = length[q] /\ computed'[q] = computed[q]
  BY DEF Admit, Typed
<1>3. status[r] = "waiting" => length'[r] = length[r]
  BY DEF Admit, Typed
<1>4. ~drafted[r] /\ r \notin DOMAIN win
      /\ (r \in Seen => status[r] = "waiting")
  BY <1>1 DEF NothingAhead, WindowsUsed, Seen, Running
<1>5. Seen' = Seen /\ Running' = Running \cup {r}
  BY <1>1 DEF Seen, Running, Typed
<1>6. WindowsRun' /\ BlocksCurrent'
  BY <1>1 DEF WindowsRun, BlocksCurrent, StateRun, HiddenState
<1>7. WindowsUsed'
  <2>1. \A q \in Seen : q \in DOMAIN win /\ win[q].prev = length'[q]
    BY <1>1, <1>2, <1>3, <1>4 DEF WindowsUsed, Seen
  <2>2. \A q \in Running \cup {r} :
          drafted[q] => q \in DOMAIN win /\ win[q].prev = length'[q]
                        /\ computed'[q] = length'[q] - 1
    BY <1>1, <1>2, <1>4 DEF WindowsUsed, Running
  <2>3. \A q \in DOMAIN win :
          \/ status'[q] \in {"finished", "preempted"}
          \/ status'[q] = "running" /\ drafted[q]
    BY <1>1, <1>4 DEF WindowsUsed, Typed
  <2> QED  BY <1>1, <1>5, <2>1, <2>2, <2>3 DEF WindowsUsed
<1>8. NothingAhead'
  BY <1>1 DEF NothingAhead, Typed
<1> QED  BY <1>6, <1>7, <1>8

LEMMA RecentPreempt ==
    ASSUME BankInv, RecentInv, NEW r \in Requests, Preempt(r)
    PROVE  RecentInv'
<1> USE DEF BankInv, RecentInv
<1>1. /\ status' = [status EXCEPT ![r] = "preempted"] /\ phase = "runner"
      /\ status[r] = "running"
      /\ computed' = [computed EXCEPT ![r] = 0] /\ drafted' = [drafted EXCEPT ![r] = FALSE]
      /\ UNCHANGED <<length, phase, aux, sampled, win, lanes>>
  BY DEF Preempt, stepVars, draftVars
<1>2. Seen' = Seen /\ Running' = Running \ {r}
  BY <1>1 DEF Seen, Running, Typed
<1>3. WindowsRun' /\ BlocksCurrent'
  BY <1>1 DEF WindowsRun, BlocksCurrent, StateRun, HiddenState
<1>4. WindowsUsed'
  <2>1. \A q \in Running \ {r} :
          drafted'[q] => q \in DOMAIN win /\ win[q].prev = length[q]
                         /\ computed'[q] = length[q] - 1
    BY <1>1 DEF WindowsUsed, Running, Typed
  <2>2. \A q \in DOMAIN win :
          \/ status'[q] \in {"finished", "preempted"}
          \/ status'[q] = "running" /\ drafted'[q]
    BY <1>1 DEF WindowsUsed, Typed
  <2> QED  BY <1>1, <1>2, <2>1, <2>2 DEF WindowsUsed
<1>5. NothingAhead'
  BY <1>1 DEF NothingAhead, Typed
<1> QED  BY <1>3, <1>4, <1>5

LEMMA RecentFinish ==
    ASSUME BankInv, RecentInv, NEW r \in Requests, Finish(r)
    PROVE  RecentInv'
<1> USE DEF BankInv, RecentInv
<1>1. /\ status' = [status EXCEPT ![r] = "finished"] /\ phase = "runner"
      /\ UNCHANGED <<length, computed, drafted, phase, aux, sampled, win, lanes>>
  BY DEF Finish, stepVars, draftVars
<1>2. Seen' = Seen /\ Running' = Running \ {r}
  BY <1>1 DEF Seen, Running, Typed
<1>3. WindowsRun' /\ BlocksCurrent'
  BY <1>1 DEF WindowsRun, BlocksCurrent, StateRun, HiddenState
<1>4. WindowsUsed'
  BY <1>1, <1>2 DEF WindowsUsed, Typed
<1>5. NothingAhead'
  BY <1>1 DEF NothingAhead, Typed
<1> QED  BY <1>3, <1>4, <1>5

LEMMA RecentForward ==
    ASSUME ~QuietSteps, BankInv, RecentInv, NEW batch, NEW block, Forwarded(batch, block)
    PROVE  RecentInv'
<1> USE DEF BankInv, RecentInv
<1>0. BankInv' /\ phase = "runner" /\ phase' = "propose" /\ win' = win
  BY BankForward DEF Forwarded
<1>1. Running' = Running
  BY DEF Running, Typed, Forwarded
<1>2. ASSUME NEW r \in Requests, sampled'[r] > 0
      PROVE  /\ r \in batch /\ r \in Running /\ block[r] \in Blocks(r)
             /\ sampled'[r] = Samples(r, block[r]) /\ sampled'[r] = block[r].accepted + 1
             /\ block[r].n \in Nat \ {0} /\ block[r].accepted \in 0 .. K
             /\ sampled'[r] =< block[r].n
             /\ aux'[r] = AuxBlock(r, block[r]) /\ Len(aux'[r]) = block[r].n
             /\ length'[r] = length[r] + sampled'[r]
             /\ length[r] \in Nat /\ computed[r] \in Nat /\ computed[r] < length[r]
             /\ computed[r] + block[r].n >= length[r]
  <2>1. r \in batch /\ r \in Running /\ block[r] \in Blocks(r)
        /\ sampled'[r] = Samples(r, block[r]) /\ aux'[r] = AuxBlock(r, block[r])
        /\ length'[r] = length[r] + sampled'[r]
    BY <1>2 DEF Forwarded
  <2>2. computed[r] + block[r].n >= length[r]
    BY <1>2, <2>1 DEF Samples
  <2>3. length[r] \in Nat /\ computed[r] \in Nat /\ computed[r] < length[r]
    BY <2>1 DEF Typed, LastToCompute
  <2> QED  BY <1>2, <2>1, <2>2, <2>3, BlocksOf, AuxBlockTyped
<1>3. WindowsRun'
  BY <1>0 DEF WindowsRun, StateRun, HiddenState
<1>4. ASSUME NEW r \in Seen'
      PROVE  Begins(r)' \/ Continues(r)'
  <2>1. r \in Requests /\ sampled'[r] > 0
    BY DEF Seen
  <2>2. CASE r \in DOMAIN win
    <3>1. drafted[r] /\ win[r].prev = length[r] /\ computed[r] = length[r] - 1
      BY <1>0, <1>2, <2>1, <2>2 DEF WindowsUsed, Running
    <3>2. ASSUME NEW j \in 1 .. sampled'[r]
          PROVE  aux'[r][j] = HiddenState(r, win[r].prev - 1 + j - 1, TRUE)
      <4>1. j \in 1 .. block[r].n /\ computed[r] + j - 1 < length[r] + block[r].accepted
            /\ computed[r] + j - 1 = win[r].prev - 1 + j - 1
        <5>1. /\ sampled'[r] = block[r].accepted + 1 /\ sampled'[r] =< block[r].n
              /\ block[r].n \in Nat /\ block[r].accepted \in Nat /\ length[r] \in Nat
          BY <1>2, <2>1, ProposerAssumption
        <5>2. j \in 1 .. block[r].accepted + 1 /\ j \in 1 .. block[r].n
          BY <5>1
        <5>3. win[r].prev = length[r] /\ computed[r] = length[r] - 1
          BY <3>1
        <5> HIDE DEF BankInv, RecentInv
        <5> QED  BY <5>1, <5>2, <5>3
      <4>2. aux'[r][j] = HiddenState(r, computed[r] + j - 1,
                                     computed[r] + j - 1 < length[r] + block[r].accepted)
        BY <1>2, <2>1, <4>1 DEF AuxBlock
      <4> QED  BY <4>1, <4>2
    <3>3. win[r].prev = length'[r] - sampled'[r]
      BY <1>2, <2>1, <3>1, ProposerAssumption
    <3> QED  BY <1>0, <2>2, <3>2, <3>3 DEF Continues
  <2>3. CASE r \notin DOMAIN win
    <3>1. ~drafted[r]
      BY <1>0, <1>2, <2>1, <2>3 DEF WindowsUsed
    <3>2. block[r].accepted = 0 /\ block[r].n =< length[r] - computed[r]
      BY <1>2, <2>1, <3>1 DEF Blocks
    <3>3. computed[r] + block[r].n = length[r] /\ length'[r] = length[r] + 1
      BY <1>2, <2>1, <3>2
    <3>4. \A j \in 1 .. block[r].n :
            aux'[r][j] = HiddenState(r, length'[r] - 1 - block[r].n + j - 1, TRUE)
      <4> TAKE j \in 1 .. block[r].n
      <4>1. computed[r] + j - 1 < length[r] + block[r].accepted
            /\ computed[r] + j - 1 = length'[r] - 1 - block[r].n + j - 1
        BY <1>2, <2>1, <3>2, <3>3, SMTT(40)
      <4>2. aux'[r][j] = HiddenState(r, computed[r] + j - 1,
                                     computed[r] + j - 1 < length[r] + block[r].accepted)
        BY <1>2, <2>1 DEF AuxBlock
      <4> QED  BY <4>1, <4>2
    <3>5. aux'[r] \in Seq(HiddenStates) /\ Len(aux'[r]) = block[r].n
          /\ length'[r] - 1 - block[r].n \in Int
      BY <1>0, <1>2, <2>1, <3>3 DEF Typed
    <3>6. aux'[r] = StateRun(r, length'[r] - 1 - block[r].n, block[r].n)
      BY <3>4, <3>5, RunOf
    <3> QED  BY <1>0, <2>3, <3>5, <3>6 DEF Begins, StateRun, HiddenState
  <2> QED  BY <2>2, <2>3
<1>5. ASSUME NEW r \in DOMAIN win
      PROVE  r \in Seen' \/ status'[r] = "finished" \/ Seen' # {}
  <2>1. r \in Requests
    BY DEF Typed
  <2>2. CASE status[r] = "finished"
    BY <2>1, <2>2 DEF Forwarded
  <2>3. CASE status[r] = "preempted"
    <3>1. PICK q \in batch : Samples(q, block[q]) > 0
      BY <2>1, <2>3 DEF Forwarded, BeingPreempted
    <3>2. q \in Requests /\ sampled'[q] > 0
      BY <3>1 DEF Forwarded, Running
    <3> QED  BY <3>2 DEF Seen
  <2>4. CASE status[r] = "running" /\ drafted[r]
    <3>1. r \in Running /\ r \in batch /\ block[r] \in Blocks(r)
          /\ sampled'[r] = Samples(r, block[r]) /\ computed[r] = length[r] - 1
      BY <1>0, <2>1, <2>4 DEF Forwarded, Running, WindowsUsed
    <3>2. block[r].n \in Nat \ {0} /\ block[r].accepted \in Nat /\ length[r] \in Nat
      <4>1. block[r].n \in Nat \ {0} /\ block[r].accepted \in 0 .. K
        BY <3>1, BlocksOf
      <4>2. length[r] \in Nat
        BY <2>1 DEF Typed
      <4> QED  BY <4>1, <4>2, ProposerAssumption
    <3>3. sampled'[r] = block[r].accepted + 1
      BY <3>1, <3>2 DEF Samples
    <3> QED  BY <2>1, <3>2, <3>3 DEF Seen
  <2> QED  BY <1>0, <2>2, <2>3, <2>4 DEF WindowsUsed
<1>6. \A r \in Running : ~drafted'[r]
  BY DEF Forwarded, Running
<1>7. BlocksCurrent'
  BY <1>0, <1>1, <1>4, <1>5, <1>6 DEF BlocksCurrent
<1>8. WindowsUsed'
  BY <1>0 DEF WindowsUsed
<1>9. NothingAhead'
  <2> SUFFICES ASSUME NEW r \in Requests
               PROVE  /\ status'[r] \in {"new", "preempted", "waiting"} => ~drafted'[r]
                      /\ status'[r] = "new" => sampled'[r] = 0
    BY DEF NothingAhead
  <2>1. status'[r] \in {"new", "preempted", "waiting"} => ~drafted'[r]
    BY DEF Forwarded, NothingAhead, Typed
  <2>2. status'[r] = "new" => status[r] = "new" /\ r \notin batch
    BY DEF Forwarded, Running
  <2> QED  BY <2>1, <2>2 DEF Forwarded
<1> QED  BY <1>3, <1>7, <1>8, <1>9

\* Where the places of a window are in the block of m it is the end of.
LEMMA PlacesOfSeed ==
    ASSUME NEW m \in Nat, NEW n \in 0 .. m, NEW l \in Nat, NEW j \in 1 .. n
    PROVE  /\ j + m - n \in 1 .. m
           /\ l - 1 - m + (j + m - n) - 1 = l - 1 - n + j - 1
OBVIOUS

\* A window banked in a call ends at the request's length: it is its seed or,
\* in a decode step, the window before and the front of the block.
LEMMA NewWindowRecent ==
    ASSUME BankInv, RecentInv, phase = "propose", NEW r \in Seen
    PROVE  /\ NewWindow(r) \in Seq(HiddenStates)
           /\ \A j \in 1 .. Len(NewWindow(r)) :
                NewWindow(r)[j]
                  = HiddenState(r, length[r] - 1 - Len(NewWindow(r)) + j - 1, TRUE)
<1> USE DEF BankInv, RecentInv
<1>1. /\ r \in Requests /\ sampled[r] \in 1 .. K + 1
      /\ aux[r] \in Seq(HiddenStates)
      /\ Len(aux[r]) \in Nat \ {0} /\ sampled[r] =< Len(aux[r])
  BY SeenOf
<1>2. length[r] \in Nat /\ K \in Nat
  BY <1>1, ProposerAssumption DEF Typed
<1>3. CASE Begins(r)
  <2>1. NewWindow(r) = Seed(r)
    BY <1>3 DEF Begins, NewWindow, IsNewSeq, Known
  <2> DEFINE n == Len(Seed(r))
  <2>2. /\ Seed(r) \in Seq(HiddenStates) /\ n \in Nat /\ n =< Len(aux[r])
        /\ \A j \in 1 .. n : Seed(r)[j] = aux[r][j + Len(aux[r]) - n]
    BY SeedOf, LenProperties
  <2>3. \A i \in 1 .. Len(aux[r]) :
          aux[r][i] = HiddenState(r, length[r] - 1 - Len(aux[r]) + i - 1, TRUE)
    BY <1>1, <1>3 DEF Begins, StateRun
  <2>4. ASSUME NEW j \in 1 .. n
        PROVE  Seed(r)[j] = HiddenState(r, length[r] - 1 - n + j - 1, TRUE)
    <3>0. Len(aux[r]) \in Nat /\ n \in 0 .. Len(aux[r])
      BY <1>1, <2>2
    <3> HIDE DEF n
    <3>1. j + Len(aux[r]) - n \in 1 .. Len(aux[r])
          /\ length[r] - 1 - Len(aux[r]) + (j + Len(aux[r]) - n) - 1
               = length[r] - 1 - n + j - 1
      BY <1>2, <3>0, PlacesOfSeed
    <3> QED  BY <2>2, <2>3, <3>1
  <2> QED  BY <2>1, <2>2, <2>4
<1>4. CASE Continues(r)
  <2> DEFINE w == win[r].window
             fresh == MinOf(length[r] - win[r].prev, Len(aux[r]))
             total == Len(w) + fresh
             n == Len(Bank(r))
  <2>1. win[r].prev \in Nat /\ win[r].prev = length[r] - sampled[r] /\ r \in DOMAIN win
    BY <1>1, <1>4 DEF Continues, Typed
  <2>2. ~IsNewSeq(r) /\ length[r] - win[r].prev = sampled[r]
    BY <1>1, <1>2, <2>1 DEF IsNewSeq, Known
  <2>3. fresh = sampled[r]
    BY <1>1, <2>2 DEF MinOf
  <2>4. NewWindow(r) = Bank(r)
    BY <2>2 DEF NewWindow
  <2>5. /\ Len(w) \in 1 .. WindowSize /\ WindowSize \in Nat
        /\ Bank(r) \in Seq(HiddenStates)
        /\ n \in 1 .. WindowSize /\ n =< total
        /\ \A j \in 1 .. n :
             LET i == j + total - n
             IN  Bank(r)[j] = IF i =< Len(w) THEN w[i] ELSE aux[r][i - Len(w)]
    BY <2>2, BankOf, ProposerAssumption, ZenonT(40)
  <2>6. \A i \in 1 .. Len(w) : w[i] = HiddenState(r, win[r].prev - 1 - Len(w) + i - 1, TRUE)
    <3>1. w = StateRun(r, win[r].prev - 1 - Len(w), Len(w))
      BY <2>1 DEF WindowsRun
    <3> HIDE DEF w
    <3> QED  BY <3>1 DEF StateRun
  <2>7. \A j \in 1 .. sampled[r] : aux[r][j] = HiddenState(r, win[r].prev - 1 + j - 1, TRUE)
    BY <1>4 DEF Continues
  <2>8. ASSUME NEW j \in 1 .. n
        PROVE  Bank(r)[j] = HiddenState(r, length[r] - 1 - n + j - 1, TRUE)
    <3> DEFINE i == j + total - n
    <3>0. total = Len(w) + sampled[r] /\ i = j + (Len(w) + sampled[r]) - n
      BY <2>3
    <3>5. Len(w) \in Nat /\ sampled[r] \in Nat /\ n \in 0 .. Len(w) + sampled[r]
      <4> HIDE DEF w, n, total
      <4> QED  BY <1>1, <1>2, <2>5, <3>0
    <3> HIDE DEF w, fresh, n, total, i
    <3>1. /\ i \in 1 .. Len(w) + sampled[r]
          /\ win[r].prev - 1 - Len(w) + i - 1 = length[r] - 1 - n + j - 1
          /\ ~(i =< Len(w)) => /\ i - Len(w) \in 1 .. sampled[r]
                               /\ win[r].prev - 1 + (i - Len(w)) - 1 = length[r] - 1 - n + j - 1
      <4> DEFINE l == length[r]
                 p == win[r].prev
                 v == Len(w)
                 s == sampled[r]
      <4>1. l \in Nat /\ p \in Nat /\ p = l - s /\ v \in Nat /\ s \in Nat /\ n \in 0 .. v + s
        BY <1>2, <2>1, <3>5
      <4>2. j \in 1 .. n /\ i = j + (v + s) - n
        BY <3>0 DEF n
      <4> HIDE DEF l, p, v, s
      <4>3. /\ i \in 1 .. v + s
            /\ p - 1 - v + i - 1 = l - 1 - n + j - 1
            /\ ~(i =< v) => /\ i - v \in 1 .. s
                           /\ p - 1 + (i - v) - 1 = l - 1 - n + j - 1
        BY <4>1, <4>2
      <4> QED  BY <4>3 DEF l, p, v, s
    <3>4. Bank(r)[j] = IF i =< Len(w) THEN w[i] ELSE aux[r][i - Len(w)]
      BY <2>5 DEF i
    <3>2. CASE i =< Len(w)
      <4>1. Bank(r)[j] = w[i] /\ i \in 1 .. Len(w)
        BY <3>5, <3>1, <3>2, <3>4
      <4> QED  BY <2>6, <3>1, <4>1
    <3>3. CASE ~(i =< Len(w))
      <4>1. Bank(r)[j] = aux[r][i - Len(w)]
        BY <3>3, <3>4
      <4>2. i - Len(w) \in 1 .. sampled[r]
            /\ win[r].prev - 1 + (i - Len(w)) - 1 = length[r] - 1 - n + j - 1
        BY <3>1, <3>3
      <4> QED  BY <2>7, <4>1, <4>2
    <3> QED  BY <3>2, <3>3
  <2> QED  BY <2>4, <2>5, <2>8
<1> QED  BY <1>3, <1>4 DEF BlocksCurrent

LEMMA RecentPropose ==
    ASSUME BankInv, RecentInv, Propose
    PROVE  RecentInv'
<1> USE DEF BankInv, RecentInv
<1>1. /\ phase = "propose" /\ phase' = "runner"
      /\ drafted' = [r \in Requests |-> drafted[r] \/ r \in Seen]
      /\ UNCHANGED <<status, length, computed, aux, sampled>>
  BY DEF Propose, schedVars, stepVars
<1>2. Seen' = Seen /\ Running' = Running
  BY <1>1 DEF Seen, Running
<1>3. ASSUME NEW r \in Seen
      PROVE  r \in Requests /\ status[r] = "running" /\ win'[r].prev = length[r]
             /\ win'[r].window = NewWindow(r)
  <2>1. r \in Requests /\ status[r] = "running"
    BY <1>1 DEF Seen, SampledFromBlock
  <2> QED  BY <2>1, ProposedWindows
<1>4. WindowsRun'
  <2> SUFFICES ASSUME NEW r \in Seen
               PROVE  NewWindow(r) = StateRun(r, length[r] - 1 - Len(NewWindow(r)),
                                              Len(NewWindow(r)))
    <3>1. ASSUME NEW r \in Seen,
                 NewWindow(r) = StateRun(r, length[r] - 1 - Len(NewWindow(r)), Len(NewWindow(r)))
          PROVE  win'[r].window = StateRun(r, win'[r].prev - 1 - Len(win'[r].window),
                                           Len(win'[r].window))
      BY <1>3, <3>1
    <3> QED  BY <3>1, ProposedWindows DEF WindowsRun, StateRun, HiddenState
  <2>1. /\ NewWindow(r) \in Seq(HiddenStates)
        /\ \A j \in 1 .. Len(NewWindow(r)) :
             NewWindow(r)[j] = HiddenState(r, length[r] - 1 - Len(NewWindow(r)) + j - 1, TRUE)
    BY <1>1, NewWindowRecent
  <2>2. length[r] - 1 - Len(NewWindow(r)) \in Int
    BY <1>3, <2>1, LenProperties DEF Typed
  <2> QED  BY <2>1, <2>2, RunOf
<1>5. \A r \in Seen : computed[r] = length[r] - 1
  BY <1>1 DEF SampledFromBlock
<1>6. WindowsUsed'
  <2>1. \A r \in Seen : r \in DOMAIN win' /\ win'[r].prev = length[r]
    BY <1>3, ProposedWindows
  <2>2. \A r \in Running : drafted'[r] => r \in Seen
    BY <1>1 DEF BlocksCurrent, Running
  <2>3. \A r \in DOMAIN win' : status[r] = "running" /\ drafted'[r]
    BY <1>1, <1>3, ProposedWindows
  <2> QED  BY <1>1, <1>2, <1>5, <2>1, <2>2, <2>3 DEF WindowsUsed
<1>7. BlocksCurrent' /\ NothingAhead'
  BY <1>1, <1>3 DEF BlocksCurrent, NothingAhead
<1> QED  BY <1>4, <1>6, <1>7

LEMMA RecentStep ==
    ASSUME ~QuietSteps
    PROVE  BankInv /\ RecentInv /\ [Next]_vars => RecentInv'
<1> SUFFICES ASSUME BankInv, RecentInv, [Next]_vars PROVE RecentInv'
  OBVIOUS
<1>1. CASE \E r \in Requests : Admit(r) \/ Preempt(r) \/ Finish(r)
  BY <1>1, RecentAdmit, RecentPreempt, RecentFinish
<1>2. CASE Forward
  BY <1>2, ForwardIs, RecentForward
<1>3. CASE ProposeNothing
  <2>1. Seen = {} /\ phase = "propose" /\ phase' = "runner"
        /\ UNCHANGED <<status, length, computed, drafted, aux, sampled, win, lanes>>
    BY <1>3 DEF ProposeNothing, schedVars, stepVars, draftVars
  <2>2. WindowsUsed'
    BY <2>1 DEF RecentInv, BlocksCurrent, WindowsUsed, Running, Seen
  <2> QED  BY <2>1, <2>2 DEF RecentInv, WindowsRun, BlocksCurrent, NothingAhead, StateRun,
                             HiddenState
<1>4. CASE Propose
  BY <1>4, RecentPropose
<1>5. CASE Finished \/ UNCHANGED vars
  BY <1>5, SMTT(40) DEF RecentInv, Finished, vars, schedVars, stepVars, draftVars, WindowsRun, WindowsUsed,
              BlocksCurrent, NothingAhead, Begins, Continues, StateRun, HiddenState, Running, Seen
<1> QED  BY <1>1, <1>2, <1>3, <1>4, <1>5 DEF Next

THEOREM RecentInvariance ==
    ASSUME ~QuietSteps
    PROVE  Spec => []RecentInv
BY BankInvariance, RecentInit, RecentStep, PTL DEF Spec

\* If every step that preempts samples, windows are the unbroken run of the
\* confirmed states before the last token (replay_banking.py:86-88): none is
\* missing, repeated, or of a rejected draft, whatever is accepted, cached,
\* cut into chunks, preempted and resumed.
THEOREM WindowsStayRecent ==
    ASSUME ~QuietSteps
    PROVE  Spec => []WindowsRecent
<1>1. ASSUME BankInv, RecentInv, phase = "runner", NEW r \in Seen
      PROVE  win[r].window = Recent(r, Len(win[r].window))
  <2>1. r \in DOMAIN win /\ win[r].prev = length[r]
    BY <1>1 DEF RecentInv, WindowsUsed
  <2>2. win[r].window = StateRun(r, length[r] - 1 - Len(win[r].window), Len(win[r].window))
    BY <1>1, <2>1 DEF RecentInv, WindowsRun
  <2> QED  BY <2>2 DEF StateRun, Recent
<1>2. BankInv /\ RecentInv => WindowsRecent
  BY <1>1 DEF WindowsRecent
<1> QED  BY <1>2, BankInvariance, RecentInvariance, PTL

-----------------------------------------------------------------------------
(* Lanes.                                                                  *)

\* No two requests of a batch have the same lane.
LEMMA LanesApart ==
    ASSUME NEW r \in Scheduled, NEW q \in Scheduled, LaneOf(r) = LaneOf(q)
    PROVE  r = q
<1>1. ASSUME NEW a \in Scheduled, NEW b \in Scheduled, LaneOf(a) = LaneOf(b)
      PROVE  ~(a < b)
  <2> SUFFICES ASSUME a < b PROVE FALSE
    OBVIOUS
  <2> DEFINE UpTo(x) == {p \in Scheduled : p =< x}
  <2>1. Scheduled \subseteq Nat /\ a \in Nat /\ b \in Nat
    BY ProposerAssumption DEF Scheduled
  <2>2. IsFiniteSet(UpTo(b))
    <3>1. UpTo(b) \in SUBSET Nat /\ \A x \in UpTo(b) : x =< b
      BY <2>1
    <3> HIDE DEF UpTo
    <3> QED  BY <2>1, <3>1, FS_BoundedSetOfNaturals
  <2>3. UpTo(a) \in SUBSET UpTo(b) /\ b \in UpTo(b) /\ b \notin UpTo(a)
    <3>1. \A x \in Nat : x =< a => x =< b
      BY <2>1
    <3>2. b =< b /\ ~(b =< a)
      BY <2>1
    <3> QED  BY <2>1, <3>1, <3>2
  <2>4. Cardinality(UpTo(a)) = Cardinality(UpTo(b))
    BY <1>1 DEF LaneOf
  <2> HIDE DEF UpTo
  <2> QED  BY <2>2, <2>3, <2>4, FS_Subset
<1>2. r \in Nat /\ q \in Nat
  BY ProposerAssumption DEF Scheduled
<1> QED  BY <1>1, <1>2

\* A lane filled from a window of confirmed states shows that window.
LEMMA FilledShows ==
    ASSUME NEW w \in Seq(HiddenStates), Len(w) =< WindowSize, NEW anchor,
           \A j \in 1 .. Len(w) : w[j].kept,
           NEW lane, lane = FilledLane(BlankLane, w, anchor)
    PROVE  /\ {lane.slots[j] : j \in 1 .. WindowSize} \ {Masked} = {w[j] : j \in DOMAIN w}
           /\ lane.anchor = anchor
<1> DEFINE n == Len(w)
<1>1. WindowSize \in Nat /\ n \in 0 .. WindowSize /\ DOMAIN w = 1 .. n
  BY LenProperties, ProposerAssumption
<1>2. \A j \in 1 .. WindowSize :
        lane.slots[j] = IF j > WindowSize - n THEN w[j - WindowSize + n] ELSE Masked
  BY DEF FilledLane, BlankLane
<1>3. \A j \in 1 .. n : w[j] # Masked
  BY DEF Masked
<1>4. lane.anchor = anchor
  BY DEF FilledLane
<1> HIDE DEF n
<1>5. ASSUME NEW j \in 1 .. WindowSize, lane.slots[j] # Masked
      PROVE  \E i \in 1 .. n : lane.slots[j] = w[i]
  <2>1. j > WindowSize - n /\ j - WindowSize + n \in 1 .. n
    BY <1>1, <1>2, <1>5
  <2> QED  BY <1>2, <2>1
<1>6. ASSUME NEW i \in 1 .. n
      PROVE  \E j \in 1 .. WindowSize : lane.slots[j] = w[i]
  <2>1. i + WindowSize - n \in 1 .. WindowSize /\ i + WindowSize - n > WindowSize - n
        /\ (i + WindowSize - n) - WindowSize + n = i
    BY <1>1
  <2> QED  BY <1>2, <2>1
<1>7. {lane.slots[j] : j \in 1 .. WindowSize} \ {Masked} = {w[j] : j \in 1 .. n}
  BY <1>3, <1>5, <1>6
<1> QED  BY <1>1, <1>4, <1>7

LEMMA LanesPropose ==
    ASSUME BankInv, RecentInv, Propose
    PROVE  LanesOwn'
<1>1. BankInv' /\ RecentInv' /\ Seen' = Seen /\ length' = length /\ aux' = aux
      /\ phase' = "runner"
  BY BankPropose, RecentPropose DEF Propose, Seen, schedVars, stepVars
<1>2. Seen \subseteq Scheduled
  BY SeenOf, EmptySeq DEF BankInv, Scheduled
<1>3. \A i \in 1 .. MaxBatch : Owners(i)' = Owners(i)
  BY <1>1 DEF Owners, LaneOf, Scheduled
<1>4. \A r \in Seen : Anchor(r)' = Anchor(r)
  BY <1>1 DEF Anchor
<1>5. ASSUME NEW i \in 1 .. MaxBatch
      PROVE  /\ ShownIn(i)' = UNION {WindowStates(r)' : r \in Owners(i)}
             /\ lanes'[i].anchor \in IF Owners(i) = {} THEN {Noise}
                                     ELSE {Anchor(r) : r \in Owners(i)}
  <2>1. CASE Owners(i) = {}
    <3>1. lanes'[i] = BlankLane
      BY <2>1 DEF Propose, LaneBefore, Owners
    <3>2. ShownIn(i)' = {}
      BY <3>1 DEF ShownIn, BlankLane
    <3> QED  BY <2>1, <3>1, <3>2 DEF BlankLane
  <2>2. CASE Owners(i) # {}
    <3>1. PICK r \in Seen : LaneOf(r) = i /\ r = (CHOOSE q \in Seen : LaneOf(q) = i)
      BY <2>2 DEF Owners
    <3>2. Owners(i) = {r}
      BY <1>2, <3>1, LanesApart DEF Owners
    <3>3. lanes'[i] = FilledLane(BlankLane, win'[r].window, Anchor(r))
      BY <3>1 DEF Propose, LaneBefore
    <3>4. /\ r \in DOMAIN win' /\ win'[r].window \in Seq(HiddenStates)
          /\ Len(win'[r].window) =< WindowSize
      <4>1. r \in DOMAIN win'
        BY ProposedWindows
      <4>2. win'[r].window \in Seq(HiddenStates) /\ Len(win'[r].window) \in 1 .. WindowSize
        BY <1>1, <4>1 DEF BankInv, Typed
      <4> QED  BY <4>1, <4>2, ProposerAssumption
    <3>5. \A j \in 1 .. Len(win'[r].window) : win'[r].window[j].kept
      <4>1. win'[r].window = StateRun(r, win'[r].prev - 1 - Len(win'[r].window),
                                      Len(win'[r].window))
        BY <1>1, <3>4 DEF RecentInv, WindowsRun, StateRun, HiddenState
      <4> QED  BY <4>1 DEF StateRun, HiddenState
    <3>6. ShownIn(i)' = WindowStates(r)' /\ lanes'[i].anchor = Anchor(r)
      BY <3>3, <3>4, <3>5, FilledShows DEF ShownIn, WindowStates
    <3> QED  BY <3>2, <3>6
  <2> QED  BY <2>1, <2>2
<1>6. ASSUME NEW i \in 1 .. MaxBatch
      PROVE  /\ ShownIn(i)' = UNION {WindowStates(r)' : r \in Owners(i)'}
             /\ lanes'[i].anchor \in IF Owners(i)' = {} THEN {Noise}
                                     ELSE {Anchor(r)' : r \in Owners(i)'}
  <2>1. Owners(i)' = Owners(i) /\ Owners(i) \subseteq Seen
    BY <1>3 DEF Owners
  <2>2. {Anchor(r)' : r \in Owners(i)} = {Anchor(r) : r \in Owners(i)}
    BY <1>4, <2>1
  <2> QED  BY <1>5, <2>1, <2>2
<1> QED  BY <1>6 DEF LanesOwn

\* What the lanes are compared with is not touched between two calls.
LEMMA LanesUntouched ==
    ASSUME LanesOwn, UNCHANGED <<phase, aux, sampled, win, lanes>>,
           \A r \in Seen : length'[r] = length[r]
    PROVE  LanesOwn'
<1>1. Seen' = Seen /\ Scheduled' = Scheduled
  BY DEF Seen, Scheduled
<1>2. ASSUME phase = "runner", Seen # {}, NEW i \in 1 .. MaxBatch
      PROVE  /\ ShownIn(i)' = UNION {WindowStates(r)' : r \in Owners(i)'}
             /\ lanes'[i].anchor \in IF Owners(i)' = {} THEN {Noise}
                                     ELSE {Anchor(r)' : r \in Owners(i)'}
  <2>1. Owners(i)' = Owners(i) /\ ShownIn(i)' = ShownIn(i) /\ lanes' = lanes
    BY <1>1 DEF Owners, ShownIn, LaneOf
  <2>2. \A r \in Owners(i) : Anchor(r)' = Anchor(r) /\ WindowStates(r)' = WindowStates(r)
    BY DEF Owners, Anchor, WindowStates
  <2>3. /\ {Anchor(r)' : r \in Owners(i)} = {Anchor(r) : r \in Owners(i)}
        /\ {WindowStates(r)' : r \in Owners(i)} = {WindowStates(r) : r \in Owners(i)}
    BY <2>2
  <2>4. /\ ShownIn(i) = UNION {WindowStates(r) : r \in Owners(i)}
        /\ lanes[i].anchor \in IF Owners(i) = {} THEN {Noise}
                               ELSE {Anchor(r) : r \in Owners(i)}
    BY <1>2 DEF LanesOwn
  <2> QED  BY <2>1, <2>3, <2>4
<1> QED  BY <1>1, <1>2 DEF LanesOwn

LEMMA LanesStep ==
    ASSUME ~QuietSteps
    PROVE  BankInv /\ RecentInv /\ LanesOwn /\ [Next]_vars => LanesOwn'
<1> SUFFICES ASSUME BankInv, RecentInv, LanesOwn, [Next]_vars PROVE LanesOwn'
  OBVIOUS
<1>1. CASE \E r \in Requests : Admit(r) \/ Preempt(r) \/ Finish(r)
  <2>1. UNCHANGED <<phase, aux, sampled, win, lanes>>
    BY <1>1 DEF Admit, Preempt, Finish, stepVars, draftVars
  <2>2. \A r \in Seen : length'[r] = length[r]
    BY <1>1 DEF Admit, Preempt, Finish, BankInv, Typed, RecentInv, NothingAhead, Seen
  <2> QED  BY <2>1, <2>2, LanesUntouched
<1>2. CASE Forward
  BY <1>2 DEF Forward, LanesOwn
<1>3. CASE ProposeNothing
  BY <1>3 DEF ProposeNothing, LanesOwn, Seen, stepVars
<1>4. CASE Propose
  BY <1>4, LanesPropose
<1>5. CASE Finished \/ UNCHANGED vars
  BY <1>5, LanesUntouched DEF Finished, vars, schedVars, stepVars, draftVars
<1> QED  BY <1>1, <1>2, <1>3, <1>4, <1>5 DEF Next

\* Under the same condition a lane of the draft graph shows the window and
\* the anchor of its own request, and nothing else (proposer.py:205-215).
THEOREM LanesStayOwn ==
    ASSUME ~QuietSteps
    PROVE  Spec => []LanesOwn
<1>1. Init => LanesOwn
  BY DEF Init, LanesOwn, Seen
<1> QED  BY <1>1, BankInvariance, RecentInvariance, LanesStep, PTL DEF Spec

-----------------------------------------------------------------------------
(* The lines of a call.                                                    *)

\* A finite set of numbers has its order.
LEMMA InOrderIs ==
    ASSUME NEW S, IsFiniteSet(S), S \subseteq Nat
    PROVE  /\ Cardinality(S) \in Nat
           /\ InOrder(S) \in [1 .. Cardinality(S) -> S]
           /\ \A i, j \in 1 .. Cardinality(S) : i < j => InOrder(S)[i] < InOrder(S)[j]
<1> DEFINE n == Cardinality(S)
           UpTo(x) == {y \in S : y =< x}
           rank == [x \in S |-> Cardinality(UpTo(x))]
<1>1. n \in Nat /\ IsFiniteSet(1 .. n) /\ Cardinality(1 .. n) = n
  <2>1. n \in Nat
    BY FS_CardinalityType
  <2> HIDE DEF n
  <2>2. QED  BY <2>1, FS_Interval
<1>2. ASSUME NEW x \in S
      PROVE  UpTo(x) \in SUBSET S /\ IsFiniteSet(UpTo(x)) /\ Cardinality(UpTo(x)) \in 1 .. n
  <2>1. UpTo(x) \in SUBSET S /\ x \in UpTo(x)
    OBVIOUS
  <2> HIDE DEF UpTo
  <2>2. IsFiniteSet(UpTo(x)) /\ Cardinality(UpTo(x)) =< n
    BY <2>1, FS_Subset
  <2>3. Cardinality(UpTo(x)) \in Nat /\ Cardinality(UpTo(x)) # 0
    BY <2>1, <2>2, FS_CardinalityType, FS_EmptySet
  <2>4. QED  BY <1>1, <2>1, <2>2, <2>3
<1>3. ASSUME NEW x \in S, NEW y \in S, x < y
      PROVE  rank[x] < rank[y]
  <2>1. UpTo(x) \in SUBSET UpTo(y)
    <3>1. \A z \in S : z =< x => z =< y
      BY <1>3
    <3>2. QED  BY <3>1
  <2>2. y \in UpTo(y) /\ y \notin UpTo(x)
    BY <1>3
  <2>3. rank[x] = Cardinality(UpTo(x)) /\ rank[y] = Cardinality(UpTo(y))
    OBVIOUS
  <2>4. /\ IsFiniteSet(UpTo(y)) /\ Cardinality(UpTo(x)) \in 1 .. n
        /\ Cardinality(UpTo(y)) \in 1 .. n
    BY <1>2
  <2> HIDE DEF UpTo, rank
  <2>5. Cardinality(UpTo(x)) =< Cardinality(UpTo(y)) /\ Cardinality(UpTo(x)) # Cardinality(UpTo(y))
    BY <2>1, <2>2, <2>4, FS_Subset
  <2>6. QED  BY <1>1, <2>3, <2>4, <2>5
<1>4. rank \in [S -> 1 .. n]
  <2>1. \A x \in S : Cardinality(UpTo(x)) \in 1 .. n
    BY <1>2
  <2> HIDE DEF UpTo, n
  <2>2. QED  BY <2>1
<1> HIDE DEF rank, UpTo
<1>5. \A x \in S, y \in S : rank[x] = rank[y] => x = y
  <2> SUFFICES ASSUME NEW x \in S, NEW y \in S, rank[x] = rank[y], x # y PROVE FALSE
    OBVIOUS
  <2>1. rank[x] \in Int /\ (x < y \/ y < x)
    BY <1>4
  <2>2. QED  BY <1>3, <2>1
<1>6. rank \in Injection(S, 1 .. n)
  BY <1>4, <1>5 DEF Injection, IsInjective
<1>7. rank \in Surjection(S, 1 .. n)
  BY <1>1, <1>6, FS_Injection
<1>8. \A i \in 1 .. n : \E x \in S : rank[x] = i
  BY <1>7 DEF Surjection, Range
<1> DEFINE s == [i \in 1 .. n |-> CHOOSE x \in S : rank[x] = i]
<1>9. \A i \in 1 .. n : s[i] \in S /\ rank[s[i]] = i
  BY <1>8
<1>10. s \in [1 .. n -> S]
  BY <1>9
<1> HIDE DEF s
<1>11. \A i, j \in 1 .. n : i < j => s[i] < s[j]
  <2> SUFFICES ASSUME NEW i \in 1 .. n, NEW j \in 1 .. n, i < j, ~(s[i] < s[j]) PROVE FALSE
    OBVIOUS
  <2>1. s[i] \in S /\ s[j] \in S /\ rank[s[i]] = i /\ rank[s[j]] = j
    BY <1>9
  <2>2. s[j] < s[i] \/ s[i] = s[j]
    <3>1. s[i] \in Int /\ s[j] \in Int
      <4>1. \A x \in S : x \in Int
        OBVIOUS
      <4>2. QED  BY <2>1, <4>1, Zenon
    <3>2. ~(s[i] < s[j])
      OBVIOUS
    <3> HIDE DEF n
    <3>3. QED  BY <3>1, <3>2
  <2>3. s[i] # s[j]
    BY <2>1
  <2>4. rank[s[j]] < rank[s[i]]
    BY <1>3, <2>1, <2>2, <2>3
  <2>5. QED  BY <2>1, <2>4
<1>12. \A i, j \in DOMAIN s : i < j => s[i] < s[j]
  BY <1>10, <1>11
<1> DEFINE Sorted(f) == \A i, j \in DOMAIN f : i < j => f[i] < f[j]
<1>13. InOrder(S) = CHOOSE f \in [1 .. n -> S] : Sorted(f)
  BY Zenon DEF InOrder
<1>14. Sorted(s)
  BY <1>12
<1>15. ASSUME NEW f \in [1 .. n -> S], Sorted(f)
       PROVE  \A i, j \in 1 .. n : i < j => f[i] < f[j]
  BY <1>15
<1> HIDE DEF Sorted, n
<1>16. InOrder(S) \in [1 .. n -> S] /\ Sorted(InOrder(S))
  <2>1. \E f \in [1 .. n -> S] : Sorted(f)
    BY <1>10, <1>14, Zenon
  <2>2. QED  BY <1>13, <2>1, Zenon
<1>17. QED  BY <1>1, <1>15, <1>16 DEF n

Replayed(base, lines) == FoldLeft(StepHarness, base, lines)

\* What the harness has after each of n lines.
RunOn(h, base, lines, n) ==
    /\ h[0] = base
    /\ \A i \in 1 .. n : h[i] = StepHarness(h[i - 1], lines[i])
    /\ Replayed(base, lines) = h[n]

\* Folding the harness over lines is running it on one after the other.
LEMMA ReplayUnfolds ==
    ASSUME NEW n \in Nat, NEW lines, DOMAIN lines = 1 .. n, NEW base
    PROVE  \E h : RunOn(h, base, lines, n)
<1> DEFINE Step(f, s) == IF s = {} THEN base
                         ELSE StepHarness(f[s \ {Max(s)}], lines[Max(s)])
           Is(f, m) == f = [s \in SUBSET (1 .. m) |-> Step(f, s)]
           Defined == {m \in Nat : \E f : Is(f, m)}
           fold == CHOOSE f : f = [s \in SUBSET (DOMAIN lines) |-> 
                                     IF s = {} THEN base
                                     ELSE LET x == Max(s) IN StepHarness(f[s \ {x}], lines[x])]
<1>1. Replayed(base, lines) = fold[DOMAIN lines]
  BY Zenon DEF Replayed, FoldLeft, MapThenFoldSet
<1>2. DOMAIN lines = 1 .. n
  OBVIOUS
<1>3. ASSUME NEW m \in Nat, NEW s \in SUBSET (1 .. m + 1), m + 1 \in s
      PROVE  Max(s) = m + 1
  <2>1. \A y \in s : m + 1 >= y
    OBVIOUS
  <2>2. \A x \in s : (\A y \in s : x >= y) => x = m + 1
    <3> SUFFICES ASSUME NEW x \in s, x >= m + 1 PROVE x = m + 1
      BY <1>3
    <3>1. QED  OBVIOUS
  <2>3. QED  BY <1>3, <2>1, <2>2 DEF Max
<1>4. 0 \in Defined
  <2> DEFINE f == [s \in SUBSET (1 .. 0) |-> base]
  <2>1. \A s \in SUBSET (1 .. 0) : s = {}
    OBVIOUS
  <2>2. Is(f, 0)
    BY <2>1
  <2> HIDE DEF Is, f
  <2>3. QED  BY <2>2
<1>5. ASSUME NEW m \in Nat, m \in Defined PROVE m + 1 \in Defined
  <2>1. PICK f : Is(f, m)
    BY <1>5
  <2> DEFINE g == [s \in SUBSET (1 .. m + 1) |->
                     IF m + 1 \notin s THEN f[s]
                     ELSE StepHarness(f[s \ {m + 1}], lines[m + 1])]
  <2>2. ASSUME NEW s \in SUBSET (1 .. m + 1) PROVE g[s] = Step(g, s)
    <3>1. CASE m + 1 \notin s
      <4>1. s \in SUBSET (1 .. m)
        BY <3>1
      <4>2. s \ {Max(s)} \in SUBSET (1 .. m) /\ s \ {Max(s)} \in SUBSET (1 .. m + 1)
            /\ m + 1 \notin s \ {Max(s)}
        BY <3>1, <4>1
      <4>3. g[s] = f[s] /\ g[s \ {Max(s)}] = f[s \ {Max(s)}]
        BY <3>1, <4>2
      <4> HIDE DEF g, Step
      <4>4. f[s] = Step(f, s)
        BY <2>1, <4>1
      <4>5. QED  BY <4>3, <4>4 DEF Step
    <3>2. CASE m + 1 \in s
      <4>1. Max(s) = m + 1 /\ s # {}
        BY <1>3, <3>2
      <4>2. s \ {m + 1} \in SUBSET (1 .. m + 1) /\ m + 1 \notin s \ {m + 1}
        OBVIOUS
      <4>3. g[s \ {m + 1}] = f[s \ {m + 1}]
            /\ g[s] = StepHarness(f[s \ {m + 1}], lines[m + 1])
        BY <3>2, <4>2
      <4> HIDE DEF g
      <4>4. QED  BY <4>1, <4>3
    <3>3. QED  BY <3>1, <3>2
  <2>3. DOMAIN g = SUBSET (1 .. m + 1) /\ g = [s \in DOMAIN g |-> g[s]]
    OBVIOUS
  <2> HIDE DEF g
  <2>4. g = [s \in SUBSET (1 .. m + 1) |-> Step(g, s)]
    <3> HIDE DEF Step
    <3>1. QED  BY <2>2, <2>3
  <2>5. Is(g, m + 1)
    BY <2>4
  <2> HIDE DEF Is
  <2>6. QED  BY <2>5
<1>6. \E f : Is(f, n)
  <2> HIDE DEF Is
  <2>1. Nat \subseteq Defined
    BY <1>4, <1>5, SetInduction
  <2>2. QED  BY <2>1
<1>7. fold = CHOOSE f : Is(f, n)
  BY <1>2
<1>8. Is(fold, n)
  <2> HIDE DEF Is, fold
  <2>1. QED  BY <1>6, <1>7
<1> HIDE DEF fold
<1> DEFINE h == [i \in 0 .. n |-> fold[1 .. i]]
<1>9. ASSUME NEW i \in 1 .. n PROVE h[i] = StepHarness(h[i - 1], lines[i])
  <2>1. (1 .. i) \in SUBSET (1 .. n) /\ i \in 1 .. i /\ i - 1 \in Nat /\ i - 1 + 1 = i
    OBVIOUS
  <2>2. Max(1 .. i) = i
    BY <1>3, <2>1
  <2>3. (1 .. i) \ {i} = 1 .. i - 1 /\ (1 .. i) # {}
    <3>1. \A j \in Int : j \in (1 .. i) \ {i} <=> j \in 1 .. i - 1
      OBVIOUS
    <3>2. (1 .. i) \ {i} \subseteq Int /\ 1 .. i - 1 \subseteq Int
      OBVIOUS
    <3>3. QED  BY <2>1, <3>1, <3>2
  <2>4. fold[1 .. i] = Step(fold, 1 .. i)
    <3> HIDE DEF Step
    <3>1. QED  BY <1>8, <2>1
  <2>5. Step(fold, 1 .. i) = StepHarness(fold[1 .. i - 1], lines[i])
    BY <2>2, <2>3
  <2>6. QED  BY <2>4, <2>5
<1>10. h[0] = base
  <2>1. {} \in SUBSET (1 .. n) /\ 1 .. 0 = {}
    OBVIOUS
  <2>2. fold[{}] = Step(fold, {})
    <3> HIDE DEF Step
    <3>1. QED  BY <1>8, <2>1
  <2>3. QED  BY <2>1, <2>2
<1>11. Replayed(base, lines) = h[n]
  BY <1>1, <1>2
<1> HIDE DEF h
<1>12. RunOn(h, base, lines, n)
  BY <1>9, <1>10, <1>11 DEF RunOn
<1>13. QED  BY <1>12

-----------------------------------------------------------------------------
LEMMA MinIsSwapped ==
    ASSUME NEW a \in Int, NEW b \in Int
    PROVE  MinOf(a, b) = MinOf(b, a)
BY DEF MinOf

LEMMA PositionsTyped ==
    ASSUME NEW first \in Int, NEW n \in Nat
    PROVE  /\ Positions(first, n) \in Seq(Int) /\ Len(Positions(first, n)) = n
           /\ \A j \in 1 .. n : Positions(first, n)[j] = first + j - 1
<1>1. \A j \in 1 .. n : first + j - 1 \in Int
  OBVIOUS
<1>2. Positions(first, n) \in [1 .. n -> Int]
  BY <1>1 DEF Positions
<1>3. \A j \in 1 .. n : Positions(first, n)[j] = first + j - 1
  BY DEF Positions
<1>4. QED  BY <1>2, <1>3

\* A sequence of numbers one after the other.
LEMMA PositionsAre ==
    ASSUME NEW first \in Int, NEW s \in Seq(Int),
           \A j \in 1 .. Len(s) : s[j] = first + j - 1
    PROVE  s = Positions(first, Len(s))
<1>1. s = [j \in 1 .. Len(s) |-> s[j]]
  OBVIOUS
<1>2. QED  BY <1>1 DEF Positions

\* The last of a run, and what follows it.
LEMMA LastPositions ==
    ASSUME NEW first \in Int, NEW m \in Nat, NEW n \in Nat, NEW W \in Nat,
           NEW k, k = MinOf(W, m + n)
    PROVE  LastOnes(Positions(first, m) \o Positions(first + m, n), W)
             = Positions(first + m + n - k, k)
<1> DEFINE p == Positions(first, m)
           q == Positions(first + m, n)
           both == p \o q
           last == LastOnes(both, W)
<1>1. /\ p \in Seq(Int) /\ Len(p) = m /\ \A j \in 1 .. m : p[j] = first + j - 1
      /\ q \in Seq(Int) /\ Len(q) = n /\ \A j \in 1 .. n : q[j] = first + m + j - 1
  <2>1. first + m \in Int
    OBVIOUS
  <2>2. QED  BY <2>1, PositionsTyped
<1> HIDE DEF p, q
<1>2. /\ both \in Seq(Int) /\ Len(both) = m + n
      /\ \A j \in 1 .. m + n : both[j] = IF j =< m THEN p[j] ELSE q[j - m]
  BY <1>1, ConcatProperties, ZenonT(40)
<1>3. \A j \in 1 .. m + n : both[j] = first + j - 1
  <2> SUFFICES ASSUME NEW j \in 1 .. m + n PROVE both[j] = first + j - 1
    OBVIOUS
  <2>1. CASE j =< m
    <3>1. j \in 1 .. m
      BY <2>1
    <3>2. QED  BY <1>1, <1>2, <2>1, <3>1
  <2>2. CASE ~(j =< m)
    <3>1. j - m \in 1 .. n
      BY <2>2
    <3>2. both[j] = q[j - m]
      BY <1>2, <2>2
    <3>3. q[j - m] = first + m + (j - m) - 1
      BY <1>1, <3>1
    <3>4. first + m + (j - m) - 1 = first + j - 1
      OBVIOUS
    <3>5. QED  BY <3>2, <3>3, <3>4
  <2>3. QED  BY <2>1, <2>2
<1> HIDE DEF both
<1>4. k \in 0 .. m + n
  BY DEF MinOf
<1>5. /\ last \in Seq(Int) /\ Len(last) = k
      /\ \A j \in 1 .. k : last[j] = both[j + (m + n) - k]
  <2>1. /\ LastOnes(both, W) \in Seq(Int)
        /\ Len(LastOnes(both, W)) = MinOf(W, Len(both))
        /\ \A j \in 1 .. MinOf(W, Len(both)) :
             LastOnes(both, W)[j] = both[j + Len(both) - MinOf(W, Len(both))]
    BY <1>2, LastOnesOf
  <2>2. Len(both) = m + n /\ MinOf(W, Len(both)) = k
    BY <1>2
  <2>3. QED  BY <2>1, <2>2
<1> HIDE DEF last
<1>6. \A j \in 1 .. k : last[j] = (first + m + n - k) + j - 1
  <2> SUFFICES ASSUME NEW j \in 1 .. k PROVE last[j] = (first + m + n - k) + j - 1
    OBVIOUS
  <2>1. j + (m + n) - k \in 1 .. m + n
    BY <1>4
  <2>2. last[j] = first + (j + (m + n) - k) - 1
    BY <1>3, <1>5, <2>1
  <2>3. QED  BY <1>4, <2>2
<1>7. first + m + n - k \in Int
  BY <1>4
<1>8. last = Positions(first + m + n - k, k)
  BY <1>5, <1>6, <1>7, PositionsAre
<1>9. QED  BY <1>8 DEF last, both, p, q

-----------------------------------------------------------------------------
(* The harness.                                                            *)

\* What the harness holds of a request it follows: its length at the last
\* line, the positions of its window, and, in step, how many were banked.
Holds(h, prev, size) ==
    /\ h.new.prev = prev
    /\ h.new.win = Positions(prev - 1 - size, size)
    /\ h.line.inStep => h.old.banked = prev - 1 /\ h.old.win = size

Harness == [new |-> new, old |-> old, line |-> line]

\* Between steps that is its length.
UpToDate == new.prev = length[line.req] \/ (phase = "propose" /\ Seen # {})

\* A request the harness follows has a window, and the harness holds its
\* length and positions as they are.
HarnessInv ==
    line.followed =>
        /\ line.req \in DOMAIN win
        /\ Holds(Harness, win[line.req].prev, Len(win[line.req].window))
        /\ UpToDate

LEMMA LineOf ==
    ASSUME NEW h, NEW r
    PROVE  LET starts == NewStarts(h.new, length[r])
               line1 == StepHarness(h, r).line
           IN  /\ line1.req = r
               /\ line1.followed => IF starts THEN IsNewSeq(r)
                                   ELSE h.line.followed /\ h.line.req = r /\ ~IsNewSeq(r)
               /\ line1.inStep => IF OldResets(h.old, length[r])
                                 THEN starts /\ Len(aux[r]) >= length[r] - 1
                                 ELSE h.line.inStep /\ h.line.req = r /\ ~starts
<1> DEFINE starts == NewStarts(h.new, length[r])
           line1 == StepHarness(h, r).line
<1>1. line1 = StepLine(h.line, r, starts, OldResets(h.old, length[r]))
  BY DEF StepHarness
<1> HIDE DEF starts, line1
<1>3. /\ line1.req = r
      /\ line1.followed = IF starts THEN IsNewSeq(r)
                          ELSE h.line.followed /\ h.line.req = r /\ ~IsNewSeq(r)
      /\ line1.inStep = IF OldResets(h.old, length[r])
                        THEN starts /\ Len(aux[r]) >= length[r] - 1
                        ELSE h.line.inStep /\ h.line.req = r /\ ~starts
  BY <1>1, Zenon DEF StepLine
<1>4. QED  BY <1>3, Zenon DEF starts, line1

\* A block that begins a sequence does not reach before its first token.
LEMMA BeginsFits ==
    ASSUME BankInv, NEW r \in Seen, Begins(r)
    PROVE  Len(aux[r]) =< length[r] - 1
<1>1. aux[r] \in Seq(HiddenStates) /\ Len(aux[r]) \in Nat \ {0} /\ r \in Requests
  BY SeenOf DEF BankInv
<1>2. aux[r][1] \in HiddenStates
  BY <1>1
<1>3. aux[r][1] = HiddenState(r, length[r] - 1 - Len(aux[r]) + 1 - 1, TRUE)
  <2>1. ASSUME NEW first, NEW n \in Nat \ {0}
        PROVE  StateRun(r, first, n)[1] = HiddenState(r, first + 1 - 1, TRUE)
    <3>1. 1 \in 1 .. n
      OBVIOUS
    <3>2. QED  BY <3>1, Zenon DEF StateRun
  <2>2. aux[r] = StateRun(r, length[r] - 1 - Len(aux[r]), Len(aux[r]))
    BY DEF Begins
  <2>3. StateRun(r, length[r] - 1 - Len(aux[r]), Len(aux[r]))[1]
          = HiddenState(r, length[r] - 1 - Len(aux[r]) + 1 - 1, TRUE)
    BY <1>1, <2>1
  <2>4. QED  BY <2>2, <2>3, Zenon
<1>4. aux[r][1].pos = length[r] - 1 - Len(aux[r]) + 1 - 1
  BY <1>3 DEF HiddenState
<1>5. aux[r][1].pos \in Nat /\ length[r] \in Nat
  BY <1>1, <1>2 DEF HiddenStates, BankInv, Typed
<1>6. QED  BY <1>1, <1>4, <1>5

LEMMA HarnessBegins ==
    ASSUME BankInv, RecentInv, phase = "propose", NEW r \in Seen, NEW h,
           NewStarts(h.new, length[r]), IsNewSeq(r)
    PROVE  Holds(StepHarness(h, r), length[r], Len(NewWindow(r)))
<1> DEFINE g == StepHarness(h, r)
           size == Len(NewWindow(r))
<1>1. /\ r \in Requests /\ length[r] \in Nat /\ Len(aux[r]) \in Nat
      /\ WindowSize \in Nat
  <2>1. r \in Requests /\ Len(aux[r]) \in Nat
    BY SeenOf DEF BankInv
  <2>2. QED  BY <2>1, ProposerAssumption DEF BankInv, Typed
<1>2. size = MinOf(WindowSize, Len(aux[r]))
  BY SeedOf DEF NewWindow, BankInv
<1>3. g.new.prev = length[r] /\ g.new.win = Positions(length[r] - 1 - size, size)
  <2>1. size = MinOf(Len(aux[r]), WindowSize)
    BY <1>1, <1>2, MinIsSwapped
  <2> HIDE DEF size
  <2>2. g.new = StepNew(h.new, length[r], Len(aux[r]))
    BY DEF StepHarness
  <2>3. StepNew(h.new, length[r], Len(aux[r]))
          = [prev |-> length[r], win |-> Positions(length[r] - 1 - size, size)]
    BY <2>1 DEF StepNew
  <2> HIDE DEF g
  <2>4. QED  BY <2>2, <2>3
<1>4. ASSUME g.line.inStep PROVE g.old.banked = length[r] - 1 /\ g.old.win = size
  <2>1. g.old = StepOld(h.old, length[r], Len(aux[r]))
    BY DEF StepHarness
  <2>2. OldResets(h.old, length[r]) /\ Len(aux[r]) >= length[r] - 1
    BY <1>4, LineOf, Zenon
  <2>3. Begins(r)
    <3>1. Begins(r) \/ Continues(r)
      BY DEF RecentInv, BlocksCurrent
    <3>2. ~Continues(r)
      <4> SUFFICES ASSUME Continues(r) PROVE FALSE
        OBVIOUS
      <4>1. r \in DOMAIN win /\ win[r].prev = length[r] - sampled[r]
        BY DEF Continues
      <4>2. sampled[r] \in 1 .. K + 1 /\ K \in Nat
        BY SeenOf, ProposerAssumption DEF BankInv
      <4>3. ~(length[r] =< win[r].prev) /\ ~(length[r] - win[r].prev > K + 1)
        BY <1>1, <4>1, <4>2
      <4>4. QED  BY <4>1, <4>3 DEF IsNewSeq, Known
    <3>3. QED  BY <3>1, <3>2
  <2>4. Len(aux[r]) = length[r] - 1
    BY <1>1, <2>2, <2>3, BeginsFits
  <2>5. BankedBefore(h.old, length[r]) = 0
    BY <2>2 DEF BankedBefore
  <2>6. MinOf(length[r] - 1 - 0, Len(aux[r])) = length[r] - 1
    BY <1>1, <2>4 DEF MinOf
  <2>7. g.old = [banked |-> 0 + (length[r] - 1),
                 win |-> MinOf(WindowSize, (length[r] - 1) + 0)]
    <3> HIDE DEF g
    <3>1. QED  BY <2>1, <2>2, <2>5, <2>6, Zenon DEF StepOld
  <2>8. (length[r] - 1) + 0 = Len(aux[r]) /\ 0 + (length[r] - 1) = length[r] - 1
    BY <1>1, <2>4
  <2> HIDE DEF g, size
  <2>9. QED  BY <1>2, <2>7, <2>8
<1> HIDE DEF g, size
<1>5. Holds(g, length[r], size)
  BY <1>3, <1>4 DEF Holds
<1>6. QED  BY <1>5 DEF g, size

LEMMA HarnessContinues ==
    ASSUME BankInv, RecentInv, phase = "propose", NEW r \in Seen, NEW h,
           ~NewStarts(h.new, length[r]), ~IsNewSeq(r),
           Holds(h, win[r].prev, Len(win[r].window))
    PROVE  Holds(StepHarness(h, r), length[r], Len(NewWindow(r)))
<1> DEFINE g == StepHarness(h, r)
           l == length[r]
           p == win[r].prev
           m == Len(win[r].window)
           n == MinOf(l - p, Len(aux[r]))
           size == Len(NewWindow(r))
<1>1. /\ r \in DOMAIN win /\ n \in Nat /\ m \in Nat
      /\ size = MinOf(WindowSize, m + n)
  <2>1. Typed /\ SampledFromBlock
    BY DEF BankInv
  <2>2. /\ r \in DOMAIN win /\ Len(win[r].window) \in 1 .. WindowSize
        /\ n \in 1 .. K + 1 /\ Len(Bank(r)) = MinOf(WindowSize, Len(win[r].window) + n)
    BY <2>1, BankOf
  <2>3. NewWindow(r) = Bank(r)
    BY DEF NewWindow
  <2> HIDE DEF n
  <2>4. QED  BY <2>2, <2>3, ProposerAssumption
<1>2. r \in Requests /\ l \in Nat /\ p \in Nat /\ Len(aux[r]) \in Nat /\ WindowSize \in Nat
  <2>1. r \in Requests /\ Len(aux[r]) \in Nat
    BY SeenOf DEF BankInv
  <2>2. QED  BY <1>1, <2>1, ProposerAssumption DEF BankInv, Typed
<1>3. l - p = n
  <2>1. Begins(r) \/ Continues(r)
    BY DEF RecentInv, BlocksCurrent
  <2>2. Continues(r)
    BY <1>1, <2>1 DEF Begins
  <2>3. p = l - sampled[r]
    BY <2>2 DEF Continues
  <2>4. sampled[r] \in Int /\ sampled[r] =< Len(aux[r])
    BY SeenOf, ProposerAssumption DEF BankInv
  <2> HIDE DEF l, p
  <2>5. QED  BY <1>2, <2>3, <2>4 DEF MinOf
<1>4. /\ h.new.prev = p /\ h.new.win = Positions(p - 1 - m, m)
      /\ h.line.inStep => h.old.banked = p - 1 /\ h.old.win = m
  BY DEF Holds
<1>5. /\ g.new = StepNew(h.new, l, Len(aux[r])) /\ g.old = StepOld(h.old, l, Len(aux[r]))
  BY DEF StepHarness
<1>6. g.new.prev = l /\ g.new.win = Positions(l - 1 - size, size)
  <2>1. g.new.prev = l
        /\ g.new.win = LastOnes(Positions(p - 1 - m, m) \o Positions(p - 1, n), WindowSize)
    <3> HIDE DEF g, p, m
    <3>1. QED  BY <1>4, <1>5 DEF StepNew, Confirmed
  <2> HIDE DEF g, l, p, m, n, size
  <2>2. p - 1 - m \in Int /\ (p - 1 - m) + m = p - 1
    BY <1>1, <1>2
  <2>3. LastOnes(Positions(p - 1 - m, m) \o Positions((p - 1 - m) + m, n), WindowSize)
          = Positions((p - 1 - m) + m + n - size, size)
    BY <1>1, <1>2, <2>2, LastPositions
  <2>4. size \in Int
    BY <1>1, <1>2 DEF MinOf
  <2>5. (p - 1 - m) + m + n - size = l - 1 - size
    BY <1>1, <1>2, <1>3, <2>4
  <2>6. QED  BY <2>1, <2>2, <2>3, <2>5
<1>7. ASSUME g.line.inStep PROVE g.old.banked = l - 1 /\ g.old.win = size
  <2>1. ~OldResets(h.old, l) /\ h.line.inStep
    BY <1>7, LineOf, Zenon
  <2>2. h.old.banked = p - 1 /\ h.old.win = m
    BY <1>4, <2>1
  <2>3. BankedBefore(h.old, l) = p - 1
    BY <2>1, <2>2 DEF BankedBefore
  <2> HIDE DEF g, l, p, m, n, size
  <2>4. l - 1 - (p - 1) = l - p
    BY <1>2
  <2>5. MinOf(l - 1 - (p - 1), Len(aux[r])) = n
    BY <2>4 DEF n
  <2>6. g.old = [banked |-> (p - 1) + n, win |-> MinOf(WindowSize, n + m)]
    BY <1>5, <2>1, <2>2, <2>3, <2>5, Zenon DEF StepOld
  <2>7. (p - 1) + n = l - 1 /\ n + m = m + n
    BY <1>1, <1>2, <1>3
  <2>8. QED  BY <1>1, <2>6, <2>7
<1> HIDE DEF g, l, size
<1>8. Holds(g, l, size)
  BY <1>6, <1>7 DEF Holds
<1>9. QED  BY <1>8 DEF g, l, size

\* A line that the harness follows leaves it with what propose() has.
LEMMA HarnessLine ==
    ASSUME BankInv, RecentInv, phase = "propose", NEW r \in Seen, NEW h,
           h.line.followed /\ h.line.req = r => Holds(h, win[r].prev, Len(win[r].window)),
           StepHarness(h, r).line.followed
    PROVE  Holds(StepHarness(h, r), length[r], Len(NewWindow(r)))
<1>2. CASE NewStarts(h.new, length[r])
  <2>1. IsNewSeq(r)
    BY <1>2, LineOf, Zenon
  <2>2. QED  BY <1>2, <2>1, HarnessBegins
<1>3. CASE ~NewStarts(h.new, length[r])
  <2>1. h.line.followed /\ h.line.req = r /\ ~IsNewSeq(r)
    BY <1>3, LineOf, Zenon
  <2>2. QED  BY <1>3, <2>1, HarnessContinues
<1>4. QED  BY <1>2, <1>3

\* The lines of a call leave the harness with what propose() has of the
\* request of the last of them, if it follows that one.
LEMMA HarnessCall ==
    ASSUME BankInv, RecentInv, HarnessInv, Propose, Replay
    PROVE  /\ line'.req \in Seen
           /\ line'.followed =>
                Holds(Harness', length[line'.req], Len(NewWindow(line'.req)))
<1> DEFINE n == Cardinality(Seen)
           lines == InOrder(Seen)
<1>1. /\ phase = "propose" /\ Seen # {} /\ Seen \subseteq Nat /\ IsFiniteSet(Seen)
      /\ n \in Nat \ {0}
  <2>1. phase = "propose" /\ Seen # {}
    BY DEF Propose
  <2>2. Seen \subseteq Running /\ Seen \subseteq Requests
    BY <2>1 DEF BankInv, SampledFromBlock, Running, Seen
  <2>3. IsFiniteSet(Seen)
    BY <2>2, FS_Subset DEF BankInv, FewRunning
  <2>4. Cardinality(Seen) \in Nat /\ Cardinality(Seen) # 0
    BY <2>1, <2>3, FS_CardinalityType, FS_EmptySet
  <2>5. QED  BY <2>1, <2>2, <2>3, <2>4, ProposerAssumption
<1>2. /\ lines \in [1 .. n -> Seen]
      /\ \A i, j \in 1 .. n : i < j => lines[i] < lines[j]
  BY <1>1, InOrderIs
<1> HIDE DEF lines, n
<1>3. PICK h : /\ h[0] = Harness
               /\ \A i \in 1 .. n : h[i] = StepHarness(h[i - 1], lines[i])
               /\ Replayed(Harness, lines) = h[n]
  <2>1. n \in Nat
    BY <1>1
  <2>2. DOMAIN lines = 1 .. n
    BY <1>2
  <2>3. PICK h : RunOn(h, Harness, lines, n)
    BY <2>1, <2>2, ReplayUnfolds
  <2>4. QED  BY <2>3 DEF RunOn
<1>4. new' = h[n].new /\ old' = h[n].old /\ line' = h[n].line
  <2>1. /\ new' = Replayed(Harness, lines).new
        /\ old' = Replayed(Harness, lines).old
        /\ line' = Replayed(Harness, lines).line
    BY Zenon DEF Replay, Replayed, Harness, lines
  <2>2. QED  BY <1>3, <2>1, Zenon
<1>5. \A i \in 1 .. n : lines[i] \in Seen /\ h[i].line.req = lines[i]
  BY <1>2, <1>3, LineOf
<1>6. n \in 1 .. n /\ h[n] = StepHarness(h[n - 1], lines[n]) /\ lines[n] \in Seen
  BY <1>1, <1>3, <1>5
<1>7. h[n - 1].line.followed /\ h[n - 1].line.req = lines[n] =>
        Holds(h[n - 1], win[lines[n]].prev, Len(win[lines[n]].window))
  <2>1. CASE n = 1
    <3>1. h[n - 1] = Harness
      BY <1>3, <2>1
    <3>2. h[n - 1].line = line
      BY <3>1 DEF Harness
    <3>3. QED  BY <3>1, <3>2 DEF HarnessInv
  <2>2. CASE n # 1
    <3>1. n - 1 \in 1 .. n /\ n - 1 < n
      BY <1>1, <2>2
    <3>2. h[n - 1].line.req = lines[n - 1] /\ lines[n - 1] < lines[n]
      BY <1>2, <1>5, <1>6, <3>1
    <3>3. lines[n - 1] \in Nat /\ lines[n] \in Nat
      BY <1>1, <1>5, <1>6, <3>1
    <3>4. h[n - 1].line.req # lines[n]
      BY <3>2, <3>3
    <3>5. QED  BY <3>4
  <2>3. QED  BY <2>1, <2>2
<1>8. h[n].line.followed => Holds(h[n], length[lines[n]], Len(NewWindow(lines[n])))
  BY <1>1, <1>6, <1>7, HarnessLine
<1>9. h[n].line.req = lines[n]
  BY <1>5, <1>6
<1>10. /\ Harness'.new = h[n].new /\ Harness'.old = h[n].old /\ Harness'.line = h[n].line
  BY <1>4 DEF Harness
<1>11. ASSUME NEW prev, NEW size, Holds(h[n], prev, size) PROVE Holds(Harness', prev, size)
  BY <1>10, <1>11 DEF Holds
<1>12. QED  BY <1>4, <1>6, <1>8, <1>9, <1>11

LEMMA HarnessPropose ==
    ASSUME BankInv, RecentInv, HarnessInv, Propose, Replay
    PROVE  HarnessInv'
<1>1. /\ line'.req \in Seen
      /\ line'.followed => Holds(Harness', length[line'.req], Len(NewWindow(line'.req)))
  BY HarnessCall
<1>2. line'.req \in DOMAIN win' /\ win'[line'.req].prev = length[line'.req]
      /\ win'[line'.req].window = NewWindow(line'.req)
  BY <1>1, ProposedWindows
<1>3. length' = length
  BY DEF Propose, schedVars
<1>4. line'.followed => new'.prev = length[line'.req]
  BY <1>1 DEF Holds, Harness
<1>5. QED  BY <1>1, <1>2, <1>3, <1>4, Zenon DEF HarnessInv, UpToDate

LEMMA HarnessInit == ReplayInit => HarnessInv
BY DEF ReplayInit, HarnessInv

\* A step without lines keeps what the harness has.
LEMMA HarnessWaits ==
    ASSUME HarnessInv, UNCHANGED <<win, new, old, line>>, line.followed => UpToDate'
    PROVE  HarnessInv'
<1>1. Harness' = Harness
  BY DEF Harness
<1>2. QED  BY <1>1 DEF HarnessInv, Holds

\* A length changes only when a request is admitted for the first time, and
\* when it samples.
LEMMA HarnessStep ==
    ASSUME BankInv, RecentInv, HarnessInv, [ReplayNext]_replayVars
    PROVE  HarnessInv'
<1>1. CASE Propose /\ Replay
  BY <1>1, HarnessPropose
<1>2. ASSUME NEW r \in Requests, Admit(r), UNCHANGED <<new, old, line>>
      PROVE  HarnessInv'
  <2>1. /\ phase = "runner" /\ UNCHANGED <<win, phase, sampled>>
        /\ status[r] \in {"new", "waiting"}
        /\ \E n \in IF status[r] = "new" THEN PromptLengths ELSE {length[r]} :
             length' = [length EXCEPT ![r] = n]
    BY <1>2 DEF Admit, stepVars, draftVars
  <2>2. length \in [Requests -> Nat]
    BY DEF BankInv, Typed
  <2>3. ASSUME line.followed PROVE UpToDate'
    <3>1. line.req \in DOMAIN win /\ new.prev = length[line.req]
      BY <2>1, <2>3 DEF HarnessInv, UpToDate
    <3>2. line.req # r
      BY <2>1, <3>1 DEF RecentInv, WindowsUsed
    <3>3. length'[line.req] = length[line.req]
      BY <2>1, <2>2, <3>2
    <3>4. QED  BY <1>2, <3>1, <3>3 DEF UpToDate
  <2>4. QED  BY <1>2, <2>1, <2>3, HarnessWaits
<1>3. ASSUME UNCHANGED <<win, length, new, old, line>>,
             phase = "runner" \/ Seen = {} \/ UNCHANGED <<phase, sampled>>
      PROVE  HarnessInv'
  <2>1. ASSUME line.followed PROVE UpToDate'
    BY <1>3, <2>1 DEF HarnessInv, UpToDate, Seen
  <2>2. QED  BY <1>3, <2>1, HarnessWaits
<1>4. ASSUME NEW r \in Requests, Preempt(r) \/ Finish(r), UNCHANGED <<new, old, line>>
      PROVE  HarnessInv'
  BY <1>3, <1>4 DEF Preempt, Finish, draftVars
<1>5. ASSUME Forward, UNCHANGED <<new, old, line>>
      PROVE  HarnessInv'
  <2>1. PICK batch, block : Forwarded(batch, block)
    BY <1>5, ForwardIs
  <2>2. /\ phase = "runner" /\ phase' = "propose" /\ win' = win
        /\ length' = [r \in Requests |-> length[r] + sampled'[r]]
    BY <2>1 DEF Forwarded
  <2>3. sampled' \in [Requests -> 0 .. K + 1] /\ K \in Nat
    <3>1. BankInv'
      BY <2>1, BankForward
    <3>2. QED  BY <3>1, ProposerAssumption DEF BankInv, Typed
  <2>4. ASSUME Seen' = {} PROVE length' = length
    <3>1. \A r \in Requests : sampled'[r] = 0
      BY <2>3, <2>4 DEF Seen
    <3>2. length \in [Requests -> Nat]
      BY DEF BankInv, Typed
    <3>3. QED  BY <2>2, <3>1, <3>2
  <2>5. ASSUME line.followed PROVE UpToDate'
    <3>1. new.prev = length[line.req]
      BY <2>2, <2>5 DEF HarnessInv, UpToDate
    <3>2. CASE Seen' = {}
      BY <1>5, <2>4, <3>1, <3>2 DEF UpToDate
    <3>3. CASE Seen' # {}
      BY <2>2, <3>3 DEF UpToDate
    <3>4. QED  BY <3>2, <3>3
  <2>6. QED  BY <1>5, <2>2, <2>5, HarnessWaits
<1>6. ASSUME ProposeNothing, UNCHANGED <<new, old, line>>
      PROVE  HarnessInv'
  BY <1>3, <1>6 DEF ProposeNothing, schedVars, draftVars
<1>7. ASSUME Finished, UNCHANGED <<new, old, line>>
      PROVE  HarnessInv'
  BY <1>3, <1>7 DEF Finished, vars, schedVars, draftVars
<1>8. ASSUME UNCHANGED replayVars PROVE HarnessInv'
  BY <1>3, <1>8 DEF replayVars, vars, schedVars, stepVars, draftVars
<1>9. QED  BY <1>1, <1>2, <1>4, <1>5, <1>6, <1>7, <1>8 DEF ReplayNext

\* The trace takes no part in the steps of the runner and of propose().
LEMMA ReplayFollowsSpec == ReplaySpec => Spec
<1>1. ReplayInit => Init
  BY DEF ReplayInit
<1>2. [ReplayNext]_replayVars => [Next]_vars
  BY Zenon DEF ReplayNext, Next, replayVars
<1>3. QED  BY <1>1, <1>2, PTL DEF ReplaySpec, Spec

THEOREM HarnessInvariance ==
    ASSUME ~QuietSteps
    PROVE  ReplaySpec => [](BankInv /\ RecentInv /\ HarnessInv)
<1>1. ReplaySpec => [](BankInv /\ RecentInv)
  BY ReplayFollowsSpec, BankInvariance, RecentInvariance, PTL
<1>2. BankInv /\ RecentInv /\ HarnessInv /\ [ReplayNext]_replayVars => HarnessInv'
  BY HarnessStep
<1>3. QED  BY <1>1, <1>2, HarnessInit, PTL DEF ReplaySpec

\* Where the harness can follow, it shows the window that propose() has,
\* position by position (replay_banking.py:62-65, 86-88).
THEOREM HarnessAlwaysFollows ==
    ASSUME ~QuietSteps
    PROVE  ReplaySpec => []HarnessFollows
<1>1. ASSUME BankInv, RecentInv, HarnessInv, line.followed
      PROVE  new.win = [j \in DOMAIN win[line.req].window |-> win[line.req].window[j].pos]
  <2> DEFINE w == win[line.req].window
             first == win[line.req].prev - 1 - Len(w)
  <2>1. line.req \in DOMAIN win /\ new.win = Positions(first, Len(w))
    BY <1>1 DEF HarnessInv, Holds, Harness
  <2>2. w = StateRun(line.req, first, Len(w)) /\ w \in Seq(HiddenStates)
    BY <1>1, <2>1 DEF RecentInv, WindowsRun, BankInv, Typed
  <2>3. DOMAIN w = 1 .. Len(w)
    BY <2>2
  <2>4. \A j \in 1 .. Len(w) : w[j].pos = first + j - 1
    BY <2>2 DEF StateRun, HiddenState
  <2> HIDE DEF w, first
  <2>5. [j \in DOMAIN w |-> w[j].pos] = Positions(first, Len(w))
    BY <2>3, <2>4 DEF Positions
  <2>6. QED  BY <2>1, <2>5 DEF w
<1>2. BankInv /\ RecentInv /\ HarnessInv => HarnessFollows
  BY <1>1 DEF HarnessFollows
<1>3. QED  BY <1>2, HarnessInvariance, PTL

\* As long as nothing was left out of the forwarded blocks, the old banking
\* has what the new one has (replay_banking.py:10-13).
THEOREM OldStaysInStep ==
    ASSUME ~QuietSteps
    PROVE  ReplaySpec => []OldInStep
<1>1. ASSUME BankInv, HarnessInv, phase = "runner", line.followed, line.inStep
      PROVE  old.banked = length[line.req] - 1 /\ old.win = Len(new.win)
  <2> DEFINE size == Len(win[line.req].window)
             first == new.prev - 1 - size
  <2>1. /\ line.req \in DOMAIN win /\ new.prev = win[line.req].prev
        /\ new.win = Positions(new.prev - 1 - size, size)
        /\ old.banked = new.prev - 1 /\ old.win = size
        /\ new.prev = length[line.req]
    BY <1>1 DEF HarnessInv, Holds, Harness, UpToDate
  <2>2. size \in Nat /\ new.prev \in Nat
    BY <1>1, <2>1, ProposerAssumption DEF BankInv, Typed
  <2> HIDE DEF size
  <2>3. first \in Int
    BY <2>2
  <2>4. Len(new.win) = size
    BY <2>1, <2>2, <2>3, PositionsTyped
  <2>5. QED  BY <2>1, <2>4
<1>2. BankInv /\ HarnessInv => OldInStep
  BY <1>1 DEF OldInStep
<1>3. QED  BY <1>2, HarnessInvariance, PTL
=============================================================================
