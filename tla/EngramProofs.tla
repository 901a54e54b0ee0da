---------------------------- MODULE EngramProofs ----------------------------
(***************************************************************************)
(* Proofs about EngramLookup, for any layers, id blocks and columns, and   *)
(* any number of reads, and about Prestage, for any number of steps.       *)
(***************************************************************************)
EXTENDS PrestageInv, SequenceTheorems, FiniteSetTheorems, TLAPS

-----------------------------------------------------------------------------
(* Blocks of rows.                                                         *)

LEMMA GatheredTyped ==
    ASSUME NEW l \in Layers, NEW ids \in Seq(Nat)
    PROVE  Gathered(l, ids) \in Seq(RowBlocks)
<1>1. DOMAIN ids = 1 .. Len(ids) /\ Len(ids) \in Nat
  OBVIOUS
<1>2. \A k \in 1 .. Len(ids) : [col \in 1 .. OwnCols |-> Row(l, ids[k], col)] \in RowBlocks
  BY ShapeAssumption DEF RowBlocks, Row
<1>3. QED  BY <1>1, <1>2 DEF Gathered

\* The rows gathered for some ids, padded, are those a lookup of them is
\* asked for.
LEMMA PaddedGathered ==
    ASSUME NEW l \in Layers, NEW ids \in Seq(Nat)
    PROVE  Padded(Gathered(l, ids)) = Asked(l, ids)
<1>1. DOMAIN Gathered(l, ids) = DOMAIN ids
  BY DEF Gathered
<1>2. ASSUME NEW k \in DOMAIN ids, NEW col \in 1 .. PartCols, col =< OwnCols
      PROVE  Gathered(l, ids)[k][col] = Row(l, ids[k], col)
  BY <1>2, ShapeAssumption DEF Gathered
<1>3. QED  BY <1>1, <1>2 DEF Padded, Asked

-----------------------------------------------------------------------------
(* The invariant, layer by layer.                                          *)

LEMMA NothingTyped ==
    NoKey \in Keys /\ NoCall \in Calls /\ NoPending \in [read : Nat, key : Keys]
<1>1. NoKey \in Keys
  BY DEF NoKey, Keys
<1>2. NoPending \in [read : Nat, key : Keys]
  BY <1>1 DEF NoPending
<1>3. \A ids \in Seq(Nat), key \in Keys, awaited \in SUBSET Nat :
        [at |-> "idle", ids |-> ids, key |-> key, read |-> 0, awaited |-> awaited] \in Calls
  BY DEF Calls
<1>4. <<>> \in Seq(Nat) /\ {} \in SUBSET Nat
  OBVIOUS
<1>5. NoCall \in Calls
  BY <1>1, <1>3, <1>4, Zenon DEF NoCall
<1>6. QED  BY <1>1, <1>2, <1>5

LEMMA LookupInit == Init => LookupInv
<1> SUFFICES ASSUME Init PROVE LookupInv
  OBVIOUS
<1> USE DEF Init, Unused
<1>1. NoKey \in Keys /\ NoCall \in Calls /\ NoPending \in [read : Nat, key : Keys]
  BY NothingTyped
<1>2. Shape
  <2>1. <<>> \in Seq(Nat) /\ <<>> \in Seq(Readings)
    OBVIOUS
  <2>2. buffer \in [Layers -> Seq(Nat)] /\ reads \in [Layers -> Seq(Readings)]
    BY <2>1, Zenon
  <2>3. pending \in [Layers -> [read : Nat, key : Keys]] /\ call \in [Layers -> Calls]
    BY <1>1, Zenon
  <2>4. loaded \in [Layers -> BOOLEAN] /\ capturing \in BOOLEAN
    BY Zenon
  <2>5. halves \in [Layers -> SUBSET Fields] /\ DOMAIN answer = Layers
    BY Zenon
  <2>6. QED  BY <2>2, <2>3, <2>4, <2>5, Zenon DEF Shape
<1>3. \A l \in Layers : LayerInv(l)
  BY DEF LayerInv, PendingOwn, CallCurrent, RowsOfKey, AwaitedInOrder, AnswerRight,
         NoCall, NoPending, NoAnswer
<1>4. QED  BY <1>2, <1>3 DEF LookupInv

SameAt(l) ==
    /\ buffer'[l] = buffer[l] /\ pending'[l] = pending[l] /\ reads'[l] = reads[l]
    /\ call'[l] = call[l] /\ answer'[l] = answer[l]

LEMMA SameLayer ==
    ASSUME NEW l \in Layers, LayerInv(l), SameAt(l), capturing' = capturing
    PROVE  LayerInv(l)'
BY DEF SameAt, LayerInv, PendingOwn, CallCurrent, RowsOfKey, AwaitedInOrder, AnswerRight

\* A step of one layer leaves the others as they are.
LEMMA OneLayer ==
    ASSUME LookupInv, NEW l \in Layers, Shape', LayerInv(l)', capturing' = capturing,
           \A m \in Layers \ {l} : SameAt(m)
    PROVE  LookupInv'
BY SameLayer DEF LookupInv

\* No layer's lookup is under way while the client is free.
LEMMA FreeInv ==
    ASSUME LookupInv, NEW l \in Layers, ClientFree
    PROVE  call[l].at = "idle"
BY DEF ClientFree

-----------------------------------------------------------------------------
(* The client's calls that read nothing.                                   *)

LEMMA StageKeeps ==
    ASSUME LookupInv, NEW l \in Layers, NEW field \in Fields, StageShard(l, field)
    PROVE  LookupInv'
<1>1. Shape'
  BY DEF StageShard, LookupInv, Shape
<1>2. \A m \in Layers : SameAt(m)
  BY DEF StageShard, SameAt
<1>3. capturing' = capturing
  BY DEF StageShard
<1>4. QED  BY <1>1, <1>2, <1>3, SameLayer DEF LookupInv

LEMMA RefillKeeps ==
    ASSUME LookupInv, NEW l \in Layers, Refill(l)
    PROVE  LookupInv'
<1>1. PICK ids \in IdBlocks : buffer' = [buffer EXCEPT ![l] = ids]
  BY DEF Refill
<1>2. /\ call[l].at = "idle" /\ capturing' = capturing
      /\ halves' = halves /\ loaded' = loaded
      /\ pending' = pending /\ reads' = reads /\ call' = call /\ answer' = answer
  BY FreeInv DEF Refill, tableVars
<1>3. Shape'
  BY <1>1, <1>2, ShapeAssumption DEF LookupInv, Shape
<1>4. LayerInv(l)'
  BY <1>2 DEF LookupInv, LayerInv, PendingOwn, CallCurrent, RowsOfKey,
              AwaitedInOrder, AnswerRight
<1>5. \A m \in Layers \ {l} : SameAt(m)
  BY <1>1, <1>2 DEF SameAt, LookupInv, Shape
<1>6. QED  BY <1>2, <1>3, <1>4, <1>5, OneLayer

LEMMA CaptureKeeps ==
    ASSUME LookupInv, SwitchCapture
    PROVE  LookupInv'
<1>1. /\ \A l \in Layers : call[l].at = "idle"
      /\ capturing' = ~capturing /\ buffer' = buffer /\ halves' = halves /\ loaded' = loaded
      /\ pending' = pending /\ reads' = reads /\ call' = call /\ answer' = answer
  BY DEF SwitchCapture, ClientFree, tableVars
<1>2. Shape'
  BY <1>1 DEF LookupInv, Shape
<1>3. \A l \in Layers : LayerInv(l)'
  BY <1>1 DEF LookupInv, LayerInv, PendingOwn, CallCurrent, RowsOfKey,
              AwaitedInOrder, AnswerRight
<1>4. QED  BY <1>2, <1>3 DEF LookupInv

LEMMA CancelKeeps ==
    ASSUME LookupInv, NEW l \in Layers, CancelPrefetch(l)
    PROVE  LookupInv'
<1>1. /\ pending' = [pending EXCEPT ![l] = NoPending]
      /\ capturing' = capturing /\ buffer' = buffer /\ halves' = halves /\ loaded' = loaded
      /\ reads' = reads /\ call' = call /\ answer' = answer
  BY DEF CancelPrefetch, tableVars
<1>2. NoPending \in [read : Nat, key : Keys] /\ NoPending.read = 0
  BY DEF NoPending, NoKey, Keys
<1>3. Shape' /\ pending'[l].read = 0
  BY <1>1, <1>2 DEF LookupInv, Shape
<1>4. LayerInv(l)'
  BY <1>1, <1>3 DEF LookupInv, LayerInv, PendingOwn, CallCurrent, RowsOfKey,
                    AwaitedInOrder, AnswerRight
<1>5. \A m \in Layers \ {l} : SameAt(m)
  BY <1>1 DEF SameAt, LookupInv, Shape
<1>6. QED  BY <1>1, <1>3, <1>4, <1>5, OneLayer

\* The answers that need no read: no token or no heads, and a refusal.
LEMMA AnswerKeeps ==
    ASSUME LookupInv, NEW l \in Layers,
           LookupNothing(l) \/ LookupRefused(l)
    PROVE  LookupInv'
<1>1. PICK status \in {"ok", "refused"}, ids \in {buffer[l]} :
        \E rows : /\ Answer(l, status, ids, rows, {})
                  /\ status = "ok" => rows = Asked(l, ids)
  <2>1. CASE LookupNothing(l)
    <3>1. NoLocalCols(l) /\ Answer(l, "ok", buffer[l], Zeroed(buffer[l]), {})
      BY <2>1 DEF LookupNothing
    <3>2. Zeroed(buffer[l]) = Asked(l, buffer[l])
      <4>1. CASE OwnCols = 0  BY <4>1, ShapeAssumption DEF Zeroed, Asked
      <4>2. CASE buffer[l] = <<>>  BY <4>2 DEF Zeroed, Asked
      <4>3. QED  BY <3>1, <4>1, <4>2 DEF NoLocalCols
    <3>3. QED  BY <3>1, <3>2
  <2>2. CASE LookupRefused(l)  BY <2>2 DEF LookupRefused
  <2>3. QED  BY <2>1, <2>2
<1>2. /\ capturing' = capturing /\ buffer' = buffer /\ halves' = halves /\ loaded' = loaded
      /\ pending' = pending /\ reads' = reads /\ call' = call
  BY DEF LookupNothing, LookupRefused, tableVars
<1>3. PICK rows :
        /\ answer' = [answer EXCEPT ![l] =
                        [status |-> status, ids |-> ids, rows |-> rows, awaited |-> {}]]
        /\ status = "ok" => rows = Asked(l, ids)
  BY <1>1 DEF Answer
<1>4. Shape'
  BY <1>2, <1>3 DEF LookupInv, Shape
<1>5. AnswerRight(l)'
  BY <1>2, <1>3 DEF LookupInv, Shape, AnswerRight
<1>6. LayerInv(l)'
  BY <1>2, <1>5 DEF LookupInv, LayerInv, PendingOwn, CallCurrent, RowsOfKey, AwaitedInOrder
<1>7. \A m \in Layers \ {l} : SameAt(m)
  BY <1>2, <1>3 DEF SameAt, LookupInv, Shape
<1>8. QED  BY <1>2, <1>4, <1>6, <1>7, OneLayer

-----------------------------------------------------------------------------
(* The steps that read.                                                    *)

\* A submitted gather is the last of the sequence; the others stay.
LEMMA SubmittedLast ==
    ASSUME Shape, NEW l \in Layers, NEW key \in Keys
    PROVE  /\ Submitted(l, key) \in Seq(Readings)
           /\ Len(Submitted(l, key)) = Len(reads[l]) + 1
           /\ \A i \in 1 .. Len(reads[l]) : Submitted(l, key)[i] = reads[l][i]
           /\ Submitted(l, key)[Len(reads[l]) + 1].key = key
           /\ Submitted(l, key)[Len(reads[l]) + 1].status = "running"
<1>1. reads[l] \in Seq(Readings)
  BY DEF Shape
<1>2. <<>> \in Seq(RowBlocks)
  OBVIOUS
<1>3. [key |-> key, status |-> "running", rows |-> <<>>] \in Readings
  BY <1>2 DEF Readings, Statuses
<1>4. QED  BY <1>1, <1>3 DEF Submitted

\* What a gather more does to the parts of the invariant that speak of the
\* gathers there are.
LEMMA SubmitKeeps ==
    ASSUME LookupInv, NEW l \in Layers, NEW key \in Keys,
           reads' = [reads EXCEPT ![l] = Submitted(l, key)], answer' = answer
    PROVE  /\ reads' \in [Layers -> Seq(Readings)]
           /\ reads'[l] = Submitted(l, key)
           /\ DOMAIN reads'[l] = 1 .. Len(reads[l]) + 1
           /\ \A i \in 1 .. Len(reads[l]) : reads'[l][i] = reads[l][i]
           /\ AnswerRight(l)'
<1>1. Shape /\ reads \in [Layers -> Seq(Readings)]
  BY DEF LookupInv, Shape
<1>2. reads' \in [Layers -> Seq(Readings)] /\ reads'[l] = Submitted(l, key)
  BY <1>1, SubmittedLast
<1>3. /\ DOMAIN reads[l] = 1 .. Len(reads[l]) /\ Len(reads[l]) \in Nat
      /\ DOMAIN reads'[l] = 1 .. Len(reads[l]) + 1
      /\ \A i \in 1 .. Len(reads[l]) : reads'[l][i] = reads[l][i]
  BY <1>1, <1>2, SubmittedLast
<1>4. \A i \in DOMAIN reads[l] : i \in DOMAIN reads'[l] /\ reads'[l][i] = reads[l][i]
  BY <1>3
<1>5. AnswerRight(l)'
  BY <1>4 DEF LookupInv, LayerInv, AnswerRight
<1>6. QED  BY <1>2, <1>3, <1>5

LEMMA PrefetchKeeps ==
    ASSUME LookupInv, NEW l \in Layers, Prefetch(l)
    PROVE  LookupInv'
<1> DEFINE key == PrefetchKey(l)
           last == Len(reads[l]) + 1
<1>1. /\ reads' = [reads EXCEPT ![l] = Submitted(l, key)]
      /\ pending' = [pending EXCEPT ![l] = [read |-> last, key |-> key]]
      /\ capturing' = capturing /\ buffer' = buffer /\ halves' = halves /\ loaded' = loaded
      /\ call' = call /\ answer' = answer
  BY DEF Prefetch, tableVars
<1>2. call[l].at = "idle"
  BY FreeInv DEF Prefetch
<1>3. key \in Keys /\ key.copied = TRUE
  BY DEF PrefetchKey, Keys, LookupInv, Shape
<1>4. /\ reads' \in [Layers -> Seq(Readings)] /\ reads'[l] = Submitted(l, key)
      /\ DOMAIN reads'[l] = 1 .. last
      /\ \A i \in 1 .. Len(reads[l]) : reads'[l][i] = reads[l][i]
      /\ AnswerRight(l)'
  BY <1>1, <1>3, SubmitKeeps
<1>5. Len(reads[l]) \in Nat /\ Len(reads'[l]) = last /\ reads'[l][last].key = key
      /\ reads'[l][last].status = "running"
  BY <1>3, <1>4, SubmittedLast DEF LookupInv, Shape
<1>6. Shape'
  <2>1. [read |-> last, key |-> key] \in [read : Nat, key : Keys]
    BY <1>3, <1>5
  <2>2. pending' \in [Layers -> [read : Nat, key : Keys]]
    BY <1>1, <2>1 DEF LookupInv, Shape
  <2>3. QED  BY <1>1, <1>4, <2>2 DEF LookupInv, Shape
<1>7. pending'[l].read = last /\ pending'[l].key = key
  BY <1>1 DEF LookupInv, Shape
<1>8. call[l].read \in Nat /\ call[l].read =< Len(reads[l])
  BY DEF LookupInv, Shape, LayerInv, CallCurrent, Calls
<1>9. PendingOwn(l)' /\ CallCurrent(l)'
  BY <1>1, <1>2, <1>3, <1>5, <1>7, <1>8 DEF PendingOwn, CallCurrent
<1>10. RowsOfKey(l)'
  <2>1. ASSUME NEW i \in DOMAIN reads'[l], reads'[l][i].status = "done"
        PROVE  i \in DOMAIN reads[l] /\ reads'[l][i] = reads[l][i]
    <3>1. i # last  BY <1>5, <2>1
    <3>2. i \in 1 .. Len(reads[l])  BY <1>4, <1>5, <2>1, <3>1
    <3>3. QED  BY <1>4, <3>2 DEF LookupInv, Shape
  <2>2. QED  BY <1>1, <1>2, <2>1 DEF LookupInv, LayerInv, RowsOfKey
<1>11. AwaitedInOrder(l)'
  BY <1>1, <1>2 DEF AwaitedInOrder
<1>12. \A m \in Layers \ {l} : SameAt(m)
  BY <1>1 DEF SameAt, LookupInv, Shape
<1>13. LayerInv(l)'
  BY <1>4, <1>9, <1>10, <1>11 DEF LayerInv
<1>14. QED  BY <1>1, <1>6, <1>12, <1>13, OneLayer

LEMMA TakesKeeps ==
    ASSUME LookupInv, NEW l \in Layers, LookupTakes(l)
    PROVE  LookupInv'
<1>1. /\ pending[l].read # 0 /\ pending' = [pending EXCEPT ![l] = NoPending]
      /\ call' = [call EXCEPT ![l] =
                    [at |-> "prefetched", ids |-> buffer[l], key |-> pending[l].key,
                     read |-> pending[l].read, awaited |-> {pending[l].read}]]
      /\ capturing' = capturing /\ buffer' = buffer /\ halves' = halves /\ loaded' = loaded
      /\ reads' = reads /\ answer' = answer
  BY DEF LookupTakes, tableVars, AfterTake
<1>2. ~capturing
  BY DEF LookupTakes, LookupReads, Refused
<1>3. /\ pending[l] \in [read : Nat, key : Keys] /\ buffer[l] \in Seq(Nat)
      /\ call[l].read \in Nat /\ Len(reads[l]) \in Nat /\ DOMAIN reads[l] = 1 .. Len(reads[l])
  BY DEF LookupInv, Shape, Calls
<1>4. /\ pending[l].read \in DOMAIN reads[l] /\ pending[l].key.copied
      /\ reads[l][pending[l].read].key = pending[l].key
  BY <1>1, <1>3 DEF LookupInv, LayerInv, PendingOwn
<1>5. /\ call'[l].at = "prefetched" /\ call'[l].ids = buffer[l]
      /\ call'[l].key = pending[l].key /\ call'[l].read = pending[l].read
      /\ call'[l].awaited = {pending[l].read} /\ pending'[l] = NoPending
  BY <1>1 DEF LookupInv, Shape
<1>6. Shape'
  <2>1. call' \in [Layers -> Calls]
    BY <1>1, <1>3 DEF LookupInv, Shape, Calls
  <2>2. pending' \in [Layers -> [read : Nat, key : Keys]]
    BY <1>1, NothingTyped DEF LookupInv, Shape
  <2>3. QED  BY <1>1, <2>1, <2>2 DEF LookupInv, Shape
<1>7. PendingOwn(l)'
  BY <1>5 DEF PendingOwn, NoPending
<1>8. CallCurrent(l)'
  BY <1>1, <1>2, <1>3, <1>4, <1>5 DEF CallCurrent, NoPending
<1>9. RowsOfKey(l)' /\ AwaitedInOrder(l)'
  BY <1>1, <1>5 DEF LookupInv, LayerInv, RowsOfKey, AwaitedInOrder
<1>10. AnswerRight(l)'
  BY <1>1 DEF LookupInv, LayerInv, AnswerRight
<1>11. \A m \in Layers \ {l} : SameAt(m)
  BY <1>1 DEF SameAt, LookupInv, Shape
<1>12. LayerInv(l)'
  BY <1>7, <1>8, <1>9, <1>10 DEF LayerInv
<1>13. QED  BY <1>1, <1>6, <1>11, <1>12, OneLayer

\* A lookup's own read; `awaited` are the reads it has waited for.
LEMMA OwnKeeps ==
    ASSUME LookupInv, NEW l \in Layers, NEW awaited \in SUBSET Nat,
           \A i \in awaited : i \in DOMAIN reads[l] /\ reads[l][i].status = "done",
           OwnRead(l, awaited), ~capturing, pending[l].read = 0,
           UNCHANGED <<buffer, capturing, tableVars, pending, answer>>
    PROVE  LookupInv'
<1> DEFINE key == Aliased(l)
           last == Len(reads[l]) + 1
<1>1. /\ reads' = [reads EXCEPT ![l] = Submitted(l, key)]
      /\ call' = [call EXCEPT ![l] =
                    [at |-> "own", ids |-> buffer[l], key |-> key,
                     read |-> last, awaited |-> awaited \cup {last}]]
      /\ capturing' = capturing /\ buffer' = buffer /\ halves' = halves /\ loaded' = loaded
      /\ pending' = pending /\ answer' = answer
  BY DEF OwnRead, tableVars
<1>2. key \in Keys /\ key.copied = FALSE
  BY DEF Aliased, Keys, LookupInv, Shape
<1>3. /\ reads' \in [Layers -> Seq(Readings)] /\ reads'[l] = Submitted(l, key)
      /\ DOMAIN reads'[l] = 1 .. last
      /\ \A i \in 1 .. Len(reads[l]) : reads'[l][i] = reads[l][i]
      /\ AnswerRight(l)'
  BY <1>1, <1>2, SubmitKeeps
<1>4. /\ Len(reads[l]) \in Nat /\ Len(reads'[l]) = last /\ reads'[l][last].key = key
      /\ reads'[l][last].status = "running" /\ DOMAIN reads[l] = 1 .. Len(reads[l])
  BY <1>2, <1>3, SubmittedLast DEF LookupInv, Shape
<1>5. /\ call'[l].at = "own" /\ call'[l].ids = buffer[l] /\ call'[l].key = key
      /\ call'[l].read = last /\ call'[l].awaited = awaited \cup {last}
  BY <1>1 DEF LookupInv, Shape
<1>6. Shape'
  <2>1. [at |-> "own", ids |-> buffer[l], key |-> key, read |-> last,
         awaited |-> awaited \cup {last}] \in Calls
    <3>1. last \in Nat
      BY <1>4
    <3>2. awaited \cup {last} \in SUBSET Nat
      BY <3>1, Zenon
    <3>3. buffer[l] \in Seq(Nat)
      BY DEF LookupInv, Shape
    <3>4. QED  BY <1>2, <3>1, <3>2, <3>3 DEF Calls
  <2>2. call' \in [Layers -> Calls]
    BY <1>1, <2>1 DEF LookupInv, Shape
  <2>3. QED  BY <1>1, <1>3, <2>2 DEF LookupInv, Shape
<1>7. PendingOwn(l)'
  BY <1>1 DEF PendingOwn
<1>8. CallCurrent(l)'
  BY <1>1, <1>2, <1>3, <1>4, <1>5 DEF CallCurrent
<1>9. \A i \in DOMAIN reads'[l] : i # last => i \in DOMAIN reads[l] /\ reads'[l][i] = reads[l][i]
  BY <1>3, <1>4
<1>10. RowsOfKey(l)'
  BY <1>4, <1>5, <1>9 DEF LookupInv, LayerInv, RowsOfKey
<1>11. AwaitedInOrder(l)'
  BY <1>3, <1>4, <1>5 DEF AwaitedInOrder
<1>12. \A m \in Layers \ {l} : SameAt(m)
  BY <1>1 DEF SameAt, LookupInv, Shape
<1>13. LayerInv(l)'
  BY <1>3, <1>7, <1>8, <1>10, <1>11 DEF LayerInv
<1>14. QED  BY <1>1, <1>6, <1>12, <1>13, OneLayer

LEMMA LookupOwnKeeps ==
    ASSUME LookupInv, NEW l \in Layers, LookupOwn(l)
    PROVE  LookupInv'
<1>1. /\ OwnRead(l, {}) /\ ~capturing /\ pending[l].read = 0
      /\ UNCHANGED <<buffer, capturing, tableVars, pending, answer>>
  BY DEF LookupOwn, LookupReads, Refused
<1>2. QED  BY <1>1, OwnKeeps

\* All the reads of a lookup that waits have succeeded once its last has.
LEMMA AllAwaitedDone ==
    ASSUME LookupInv, NEW l \in Layers, call[l].at # "idle", Awaited(l).status = "done"
    PROVE  \A i \in call[l].awaited : i \in DOMAIN reads[l] /\ reads[l][i].status = "done"
BY DEF LookupInv, LayerInv, AwaitedInOrder, CallCurrent, Awaited

LEMMA FallBackKeeps ==
    ASSUME LookupInv, NEW l \in Layers, FallBack(l)
    PROVE  LookupInv'
<1>1. /\ call[l].at # "idle" /\ Awaited(l).status = "done"
      /\ OwnRead(l, call[l].awaited)
      /\ UNCHANGED <<buffer, capturing, tableVars, pending, answer>>
  BY DEF FallBack
<1>2. ~capturing /\ pending[l].read = 0
  BY <1>1 DEF LookupInv, LayerInv, CallCurrent
<1>3. call[l].awaited \in SUBSET Nat
  BY DEF LookupInv, Shape, Calls
<1>4. \A i \in call[l].awaited : i \in DOMAIN reads[l] /\ reads[l][i].status = "done"
  BY <1>1, AllAwaitedDone
<1>5. QED  BY <1>1, <1>2, <1>3, <1>4, OwnKeeps, Zenon

\* The end of a lookup, by what its answer must be.
LEMMA EndKeeps ==
    ASSUME LookupInv, NEW l \in Layers, NEW status \in {"ok", "raised"}, NEW rows,
           EndLookup(l, status, rows), call[l].at # "idle",
           status = "ok" => /\ Awaited(l).status = "done"
                            /\ rows = Asked(l, buffer[l]),
           status = "raised" => Awaited(l).status = "failed",
           UNCHANGED <<buffer, capturing, tableVars, pending, reads>>
    PROVE  LookupInv'
<1>1. /\ call' = [call EXCEPT ![l].at = "idle"]
      /\ answer' = [answer EXCEPT ![l] = [status |-> status, ids |-> call[l].ids,
                                          rows |-> rows, awaited |-> call[l].awaited]]
      /\ capturing' = capturing /\ buffer' = buffer /\ halves' = halves /\ loaded' = loaded
      /\ pending' = pending /\ reads' = reads
  BY DEF EndLookup, Answer, tableVars
<1>2. Shape'
  BY <1>1, ZenonT(40) DEF LookupInv, Shape, Calls
<1>3. /\ call'[l].at = "idle" /\ call'[l].read = call[l].read
      /\ answer'[l].status = status /\ answer'[l].ids = call[l].ids
      /\ answer'[l].rows = rows /\ answer'[l].awaited = call[l].awaited
  BY <1>1 DEF LookupInv, Shape, Calls
<1>4. call[l].ids = buffer[l] /\ call[l].read \in DOMAIN reads[l] /\ call[l].read \in call[l].awaited
  BY DEF LookupInv, LayerInv, CallCurrent, AwaitedInOrder
<1>5. AnswerRight(l)'
  <2>1. CASE status = "ok"
    <3>1. \A i \in call[l].awaited : i \in DOMAIN reads[l] /\ reads[l][i].status = "done"
      BY <2>1, AllAwaitedDone
    <3>2. QED  BY <1>1, <1>3, <1>4, <2>1, <3>1 DEF AnswerRight
  <2>2. CASE status = "raised"
    BY <1>1, <1>3, <1>4, <2>2 DEF AnswerRight, Awaited
  <2>3. QED  BY <2>1, <2>2
<1>6. PendingOwn(l)' /\ CallCurrent(l)' /\ RowsOfKey(l)' /\ AwaitedInOrder(l)'
  BY <1>1, <1>3 DEF LookupInv, LayerInv, PendingOwn, CallCurrent, RowsOfKey, AwaitedInOrder
<1>7. \A m \in Layers \ {l} : SameAt(m)
  BY <1>1 DEF SameAt, LookupInv, Shape
<1>8. LayerInv(l)'
  BY <1>5, <1>6 DEF LayerInv
<1>9. QED  BY <1>1, <1>2, <1>7, <1>8, OneLayer

LEMMA ServeKeeps ==
    ASSUME LookupInv, NEW l \in Layers, ServePrefetched(l) \/ ServeOwn(l)
    PROVE  LookupInv'
<1>1. /\ call[l].at # "idle" /\ Awaited(l).status = "done"
      /\ EndLookup(l, "ok", Padded(Awaited(l).rows))
      /\ UNCHANGED <<buffer, capturing, tableVars, pending, reads>>
  BY DEF ServePrefetched, ServeOwn
<1>2. /\ call[l].read \in DOMAIN reads[l] /\ call[l].ids = buffer[l]
      /\ reads[l][call[l].read].key = call[l].key
      /\ call[l].key.copied <=> call[l].at = "prefetched"
  BY <1>1 DEF LookupInv, LayerInv, CallCurrent
<1>3. Awaited(l).rows = Gathered(l, buffer[l])
  <2>1. CASE ServePrefetched(l)
    <3>1. call[l].key.copied /\ call[l].key.ids = buffer[l]
      BY <1>2, <2>1 DEF ServePrefetched, Matches, KeyIds
    <3>2. QED  BY <1>1, <1>2, <3>1 DEF LookupInv, LayerInv, RowsOfKey, Awaited
  <2>2. CASE ServeOwn(l)
    BY <1>1, <1>2, <2>2 DEF ServeOwn, LookupInv, LayerInv, RowsOfKey, Awaited
  <2>3. QED  BY <2>1, <2>2
<1>4. Padded(Awaited(l).rows) = Asked(l, buffer[l])
  BY <1>3, PaddedGathered DEF LookupInv, Shape
<1>5. QED  BY <1>1, <1>4, EndKeeps

LEMMA RaisesKeeps ==
    ASSUME LookupInv, NEW l \in Layers, LookupRaises(l)
    PROVE  LookupInv'
<1>1. /\ call[l].at # "idle" /\ Awaited(l).status = "failed"
      /\ EndLookup(l, "raised", <<>>)
      /\ UNCHANGED <<buffer, capturing, tableVars, pending, reads>>
  BY DEF LookupRaises
<1>2. QED  BY <1>1, EndKeeps

LEMMA ReplacedAt ==
    ASSUME NEW S, NEW s \in Seq(S), NEW i \in DOMAIN s, NEW e \in S
    PROVE  /\ [s EXCEPT ![i] = e] \in Seq(S)
           /\ Len([s EXCEPT ![i] = e]) = Len(s)
           /\ DOMAIN [s EXCEPT ![i] = e] = DOMAIN s
           /\ [s EXCEPT ![i] = e][i] = e
           /\ \A j \in DOMAIN s \ {i} : [s EXCEPT ![i] = e][j] = s[j]
OBVIOUS

\* A gather ends, with its rows or with an error.
LEMMA ReadKeeps ==
    ASSUME LookupInv, NEW l \in Layers, NEW i \in DOMAIN reads[l],
           ReadDone(l, i) \/ ReadError(l, i)
    PROVE  LookupInv'
<1> DEFINE keyIds == KeyIds(l, reads[l][i].key)
<1>1. PICK status \in {"done", "failed"}, rows \in {Gathered(l, keyIds), <<>>} :
        /\ ReadEnds(l, i, status, rows)
        /\ status = "done" => rows = Gathered(l, keyIds)
  BY DEF ReadDone, ReadError
<1>2. /\ reads' = [reads EXCEPT ![l][i].status = status, ![l][i].rows = rows]
      /\ capturing' = capturing /\ buffer' = buffer /\ halves' = halves /\ loaded' = loaded
      /\ pending' = pending /\ call' = call /\ answer' = answer
  BY <1>1 DEF ReadEnds, tableVars
<1>3. reads[l][i].status = "running"
  BY <1>1 DEF ReadEnds, UnderWay, Unfinished
<1>4. /\ reads \in [Layers -> Seq(Readings)] /\ reads[l] \in Seq(Readings)
      /\ reads[l][i] \in Readings /\ buffer[l] \in Seq(Nat)
  BY DEF LookupInv, Shape
<1>5. rows \in Seq(RowBlocks)
  <2>1. keyIds \in Seq(Nat)  BY <1>4 DEF KeyIds, Readings, Keys
  <2>2. Gathered(l, keyIds) \in Seq(RowBlocks)  BY <2>1, GatheredTyped
  <2>3. <<>> \in Seq(RowBlocks)  OBVIOUS
  <2>4. QED  BY <2>2, <2>3
<1>6. PICK e \in Readings :
        /\ e.key = reads[l][i].key /\ e.status = status /\ e.rows = rows
        /\ reads' = [reads EXCEPT ![l] = [reads[l] EXCEPT ![i] = e]]
  <2>1. [reads[l][i] EXCEPT !.status = status, !.rows = rows] \in Readings
    BY <1>4, <1>5 DEF Readings, Statuses
  <2>2. reads' = [reads EXCEPT ![l] =
           [reads[l] EXCEPT ![i] = [reads[l][i] EXCEPT !.status = status, !.rows = rows]]]
    BY <1>2, <1>4
  <2>3. QED  BY <1>4, <2>1, <2>2 DEF Readings
<1>7. reads'[l] = [reads[l] EXCEPT ![i] = e] /\ \A m \in Layers \ {l} : reads'[m] = reads[m]
  BY <1>4, <1>6
<1>8. /\ reads'[l][i].key = reads[l][i].key
      /\ reads'[l][i].status = status /\ reads'[l][i].rows = rows
      /\ \A j \in DOMAIN reads[l] \ {i} : reads'[l][j] = reads[l][j]
  BY <1>4, <1>6, <1>7, ReplacedAt
<1>9. /\ reads'[l] \in Seq(Readings) /\ Len(reads'[l]) = Len(reads[l])
      /\ DOMAIN reads'[l] = DOMAIN reads[l]
  BY <1>4, <1>7, ReplacedAt
<1>10. Shape'
  <2>1. reads' \in [Layers -> Seq(Readings)]
    BY <1>4, <1>6, <1>7, <1>9
  <2>2. QED  BY <1>2, <2>1 DEF LookupInv, Shape
<1>11. \A j \in DOMAIN reads[l] : reads'[l][j].key = reads[l][j].key
  BY <1>8
<1>12. DOMAIN reads[l] = 1 .. Len(reads[l]) /\ Len(reads[l]) \in Nat /\ call[l].read \in Nat
  BY <1>4 DEF LookupInv, Shape, Calls
<1>13. PendingOwn(l) /\ CallCurrent(l) /\ RowsOfKey(l) /\ AwaitedInOrder(l) /\ AnswerRight(l)
  BY DEF LookupInv, LayerInv
<1>14. PendingOwn(l)' /\ CallCurrent(l)'
  <2>1. PendingOwn(l)'
    <3>1. pending[l].read # 0 =>
            /\ pending[l].read \in call[l].read + 1 .. Len(reads[l])
            /\ pending[l].read \in DOMAIN reads[l]
      BY <1>12, <1>13 DEF PendingOwn
    <3>2. QED  BY <1>2, <1>9, <1>11, <1>13, <3>1 DEF PendingOwn
  <2>2. CallCurrent(l)'
    BY <1>2, <1>9, <1>11, <1>13 DEF CallCurrent
  <2>3. QED  BY <2>1, <2>2
<1>15. RowsOfKey(l)'
  <2>1. ASSUME status = "done"
        PROVE  /\ reads[l][i].key.copied => rows = Gathered(l, reads[l][i].key.ids)
               /\ (call[l].at = "own" /\ call[l].read = i) => rows = Gathered(l, buffer[l])
    <3>1. rows = Gathered(l, keyIds)
      BY <1>1, <2>1
    <3>2. (call[l].at = "own" /\ call[l].read = i) => ~reads[l][i].key.copied
      BY <1>13 DEF CallCurrent
    <3>3. QED  BY <3>1, <3>2 DEF KeyIds
  <2>2. ASSUME NEW j \in DOMAIN reads[l], reads'[l][j].status = "done"
        PROVE  /\ reads'[l][j].key.copied => reads'[l][j].rows = Gathered(l, reads'[l][j].key.ids)
               /\ (call[l].at = "own" /\ call[l].read = j) => reads'[l][j].rows = Gathered(l, buffer[l])
    <3>1. CASE j = i
      BY <1>8, <2>1, <2>2, <3>1
    <3>2. CASE j # i
      BY <1>8, <1>13, <2>2, <3>2 DEF RowsOfKey
    <3>3. QED  BY <3>1, <3>2
  <2>3. buffer' = buffer /\ call' = call /\ DOMAIN reads'[l] = DOMAIN reads[l]
    BY <1>2, <1>9
  <2>4. QED  BY <2>2, <2>3 DEF RowsOfKey
<1>16. \A j \in DOMAIN reads[l] :
         reads[l][j].status \in {"done", "failed"} => reads'[l][j] = reads[l][j]
  BY <1>3, <1>8
<1>17. AwaitedInOrder(l)'
  BY <1>2, <1>9, <1>13, <1>16 DEF AwaitedInOrder
<1>18. AnswerRight(l)'
  BY <1>2, <1>9, <1>13, <1>16 DEF AnswerRight
<1>19. \A m \in Layers \ {l} : SameAt(m)
  BY <1>2, <1>7 DEF SameAt
<1>20. LayerInv(l)'
  BY <1>14, <1>15, <1>17, <1>18 DEF LayerInv
<1>21. QED  BY <1>2, <1>10, <1>19, <1>20, OneLayer

LEMMA LookupStep == LookupInv /\ [Next]_vars => LookupInv'
<1> SUFFICES ASSUME LookupInv, [Next]_vars PROVE LookupInv'
  OBVIOUS
<1>1. CASE UNCHANGED vars
  <2>1. Shape'
    BY <1>1 DEF vars, tableVars, LookupInv, Shape
  <2>2. capturing' = capturing /\ \A l \in Layers : SameAt(l)
    BY <1>1 DEF vars, SameAt
  <2>3. QED  BY <2>1, <2>2, SameLayer DEF LookupInv
<1>2. CASE SwitchCapture
  BY <1>2, CaptureKeeps
<1>3. ASSUME NEW l \in Layers, NEW field \in Fields, StageShard(l, field)
      PROVE  LookupInv'
  BY <1>3, StageKeeps
<1>4. ASSUME NEW l \in Layers, Refill(l) \/ Prefetch(l) \/ CancelPrefetch(l)
      PROVE  LookupInv'
  BY <1>4, RefillKeeps, PrefetchKeeps, CancelKeeps
<1>5. ASSUME NEW l \in Layers, LookupBegins(l)
      PROVE  LookupInv'
  BY <1>5, AnswerKeeps, TakesKeeps, LookupOwnKeeps DEF LookupBegins
<1>6. ASSUME NEW l \in Layers, LookupGoesOn(l)
      PROVE  LookupInv'
  BY <1>6, ServeKeeps, FallBackKeeps, RaisesKeeps DEF LookupGoesOn
<1>7. ASSUME NEW l \in Layers, TableStep(l)
      PROVE  LookupInv'
  BY <1>7, ReadKeeps DEF TableStep
<1>8. QED
  BY <1>1, <1>2, <1>3, <1>4, <1>5, <1>6, <1>7 DEF Next

\* The invariant of the lookup, for a client that does what the calls allow,
\* in any order.
THEOREM LookupInvariance == Spec => []LookupInv
<1>1. QED
  BY LookupInit, LookupStep, PTL DEF Spec

LEMMA LookupTyped == LookupInv => TypeOK
<1> SUFFICES ASSUME LookupInv PROVE TypeOK
  OBVIOUS
<1>1. ASSUME NEW l \in Layers
      PROVE  /\ pending[l].read \in 0 .. Len(reads[l])
             /\ \A i \in DOMAIN reads[l] :
                  /\ reads[l][i].key \in Keys
                  /\ reads[l][i].status \in {"running", "done", "failed"}
             /\ call[l].at \in {"idle", "prefetched", "own"}
             /\ call[l].at # "idle" => call[l].read \in DOMAIN reads[l]
             /\ answer[l].status \in {"none", "ok", "refused", "raised"}
  <2>1. /\ pending[l].read \in Nat /\ reads[l] \in Seq(Readings)
        /\ call[l] \in Calls
    BY DEF LookupInv, Shape
  <2>2. pending[l].read \in 0 .. Len(reads[l])
    BY <2>1 DEF LookupInv, LayerInv, PendingOwn, Calls
  <2>3. \A i \in DOMAIN reads[l] : reads[l][i] \in Readings
    BY <2>1
  <2>4. QED
    BY <2>1, <2>2, <2>3
    DEF Readings, Statuses, Calls, LookupInv, LayerInv, CallCurrent, AnswerRight
<1>2. QED  BY <1>1 DEF LookupInv, Shape, TypeOK

\* Type correctness of the lookup's state.
THEOREM LookupTypes == Spec => []TypeOK
BY LookupTyped, LookupInvariance, PTL

\* A lookup returns the rows of the ids it was asked for, and of no others,
\* however reads ran ahead of it and buffers were refilled (lines 723-726 and
\* 755-757).
THEOREM LookupServesAsked == Spec => []ServesAsked
<1>1. LookupInv => ServesAsked
  BY DEF LookupInv, LayerInv, AnswerRight, ServesAsked
<1>2. QED  BY <1>1, LookupInvariance, PTL

\* A lookup raises exactly when a read it waited for failed (lines 751-754).
THEOREM LookupFailures == Spec => []AwaitedFailuresRaised
<1>1. LookupInv => AwaitedFailuresRaised
  BY DEF LookupInv, LayerInv, AnswerRight, AwaitedFailuresRaised
<1>2. QED  BY <1>1, LookupInvariance, PTL

-----------------------------------------------------------------------------
(* What a step may not do.                                                 *)

\* Only three steps make a lookup wait for another read, a newer one.
LEMMA WaitsForNewer ==
    ASSUME LookupInv, NEW m \in Layers, LookupTakes(m) \/ LookupOwn(m) \/ FallBack(m),
           NEW l \in Layers, call'[l] # call[l]
    PROVE  call'[l].read > call[l].read
<1>1. /\ call \in [Layers -> Calls] /\ call[m].read \in Nat /\ Len(reads[m]) \in Nat
      /\ PendingOwn(m) /\ call[m].read =< Len(reads[m])
  BY DEF LookupInv, Shape, Calls, LayerInv, CallCurrent
<1>2. CASE LookupTakes(m)
  <2>1. call'[m].read = pending[m].read /\ pending[m].read # 0
        /\ \A n \in Layers \ {m} : call'[n] = call[n]
    BY <1>1, <1>2 DEF LookupTakes
  <2>2. pending[m].read \in call[m].read + 1 .. Len(reads[m])
    BY <1>1, <2>1 DEF PendingOwn
  <2>3. QED  BY <1>1, <2>1, <2>2
<1>3. CASE LookupOwn(m) \/ FallBack(m)
  <2>1. PICK awaited : OwnRead(m, awaited)
    BY <1>3 DEF LookupOwn, FallBack
  <2>2. call'[m].read = Len(reads[m]) + 1 /\ \A n \in Layers \ {m} : call'[n] = call[n]
    BY <1>1, <2>1 DEF OwnRead
  <2>3. QED  BY <1>1, <2>2
<1>4. QED  BY <1>2, <1>3

\* No read is waited for by two lookups (lines 743-745).
THEOREM LookupAwaitsOnce == Spec => ReadsAwaitedOnce
<1> DEFINE Newer == \A l \in Layers :
              (call'[l].at # "idle" /\ call'[l] # call[l]) => call'[l].read > call[l].read
<1>1. ASSUME LookupInv, Next PROVE Newer
  <2>1. ASSUME NEW m \in Layers, LookupTakes(m) \/ LookupOwn(m) \/ FallBack(m)
        PROVE  Newer
    BY <1>1, <2>1, WaitsForNewer
  <2>2. ASSUME NEW m \in Layers, ServePrefetched(m) \/ ServeOwn(m) \/ LookupRaises(m)
        PROVE  Newer
    <3>1. call' = [call EXCEPT ![m].at = "idle"]
      BY <2>2 DEF ServePrefetched, ServeOwn, LookupRaises, EndLookup
    <3>2. QED  BY <1>1, <3>1 DEF LookupInv, Shape, Calls
  <2>3. CASE call' = call
    BY <2>3
  <2>4. QED
    BY <1>1, <2>1, <2>2, <2>3
    DEF Next, SwitchCapture, StageShard, Refill, Prefetch, CancelPrefetch, LookupBegins,
        LookupNothing, LookupRefused, LookupGoesOn, TableStep, ReadDone,
        ReadError, ReadEnds
<1>2. LookupInv /\ [Next]_vars => [Newer]_vars
  BY <1>1
<1>3. QED
  BY <1>2, LookupInvariance, PTL DEF Spec, ReadsAwaitedOnce

\* While a graph is captured no read is started (lines 680-684).
THEOREM LookupNotCaptured == Spec => NothingReadUnderCapture
<1> DEFINE NoneAdded == \A l \in Layers : Len(reads'[l]) = Len(reads[l])
<1>1. ASSUME LookupInv, Next, capturing PROVE NoneAdded
  <2>1. ASSUME NEW m \in Layers, Prefetch(m) \/ LookupOwn(m) \/ FallBack(m)
        PROVE  NoneAdded
    <3>1. ~FallBack(m)
      BY <1>1 DEF FallBack, LookupInv, LayerInv, CallCurrent
    <3>2. QED
      BY <1>1, <2>1, <3>1 DEF Prefetch, LookupOwn, LookupReads, Refused
  <2>2. ASSUME NEW m \in Layers, NEW i \in DOMAIN reads[m], ReadDone(m, i) \/ ReadError(m, i)
        PROVE  NoneAdded
    <3>1. PICK status, rows :
            reads' = [reads EXCEPT ![m][i].status = status, ![m][i].rows = rows]
      BY <2>2 DEF ReadDone, ReadError, ReadEnds
    <3>2. /\ reads \in [Layers -> Seq(Readings)]
          /\ reads' \in [Layers -> Seq(Readings)]
      BY <1>1, <2>2, ReadKeeps DEF LookupInv, Shape
    <3>3. \A l \in Layers : DOMAIN reads'[l] = DOMAIN reads[l]
      BY <3>1, <3>2
    <3>4. \A l \in Layers : /\ DOMAIN reads[l] = 1 .. Len(reads[l]) /\ Len(reads[l]) \in Nat
                            /\ DOMAIN reads'[l] = 1 .. Len(reads'[l]) /\ Len(reads'[l]) \in Nat
      BY <3>2
    <3>5. QED  BY <3>3, <3>4
  <2>3. CASE reads' = reads
    BY <2>3
  <2>4. QED
    BY <1>1, <2>1, <2>2, <2>3
    DEF Next, SwitchCapture, StageShard, Refill, CancelPrefetch, LookupBegins,
        LookupNothing, LookupRefused, LookupTakes, LookupGoesOn,
        ServePrefetched, ServeOwn, LookupRaises, TableStep
<1>2. LookupInv /\ [Next]_vars => [capturing => NoneAdded]_vars
  BY <1>1
<1>3. QED
  BY <1>2, LookupInvariance, PTL DEF Spec, NothingReadUnderCapture

-----------------------------------------------------------------------------
(* Batches and rows.                                                       *)

LEMMA LayersCount ==
    LastLayer \in Nat /\ Layers = 1 .. LastLayer /\ LastLayer >= 1
<1>1. Cardinality(Layers) \in Nat
  BY StepAssumption, FS_CardinalityType
<1>2. QED  BY <1>1, StepAssumption DEF LastLayer

LEMMA BatchTyped ==
    ASSUME NEW b \in Batches
    PROVE  /\ b \in Seq(Nat) /\ Len(b) \in 1 .. MaxTokens
           /\ DOMAIN b = 1 .. Len(b) /\ MaxTokens \in Nat /\ Len(b) \in Nat
BY StepAssumption

LEMMA HashTyped ==
    ASSUME NEW b \in Batches, NEW l \in Layers
    PROVE  HashIds(l, b) \in Seq(Nat) /\ DOMAIN HashIds(l, b) = 1 .. Len(b)
<1>1. DOMAIN HashIds(l, b) = 1 .. Len(b) /\ Len(b) \in Nat
  BY BatchTyped DEF HashIds
<1>2. \A k \in 1 .. Len(b) : b[k] \in Nat
  BY BatchTyped
<1>3. l \in Nat
  BY LayersCount
<1>4. \A k \in 1 .. Len(b) : HashIds(l, b)[k] \in Nat
  BY <1>2, <1>3, BatchTyped DEF HashIds
<1>5. HashIds(l, b) \in [1 .. Len(b) -> Nat]
  BY <1>1, <1>4, BatchTyped DEF HashIds
<1>6. QED  BY <1>1, <1>5, SeqDef

LEMMA RowsTyped ==
    ASSUME NEW b \in Batches, NEW l \in Layers
    PROVE  /\ Rows(b)[l] = Asked(l, HashIds(l, b))
           /\ Rows(b)[l] \in Seq(TableRows)
           /\ Len(Rows(b)[l]) = Len(b)
<1>1. Rows(b)[l] = Asked(l, HashIds(l, b))
  BY DEF Rows
<1>2. /\ HashIds(l, b) \in Seq(Nat) /\ DOMAIN HashIds(l, b) = 1 .. Len(b)
      /\ Len(b) \in Nat
  BY HashTyped, BatchTyped
<1>3. \A k \in 1 .. Len(b) : HashIds(l, b)[k] \in Nat
  BY <1>2
<1>4. ASSUME NEW k \in 1 .. Len(b)
      PROVE  Asked(l, HashIds(l, b))[k] \in TableRows
  <2> DEFINE i == HashIds(l, b)[k]
  <2>1. i \in Nat  BY <1>3
  <2> HIDE DEF i
  <2>2. \A col \in 1 .. PartCols :
          (IF col =< OwnCols THEN Row(l, i, col) ELSE Zero)
              \in (Layers \X Nat \X Nat) \cup {Zero}
    BY <2>1, ShapeAssumption DEF Row
  <2>3. [col \in 1 .. PartCols |-> IF col =< OwnCols THEN Row(l, i, col) ELSE Zero]
          \in TableRows
    BY <2>2 DEF TableRows
  <2>4. Asked(l, HashIds(l, b))[k] =
          [col \in 1 .. PartCols |-> IF col =< OwnCols THEN Row(l, i, col) ELSE Zero]
    BY <1>2 DEF Asked, i
  <2>5. QED  BY <2>3, <2>4
<1>5. Asked(l, HashIds(l, b)) \in [1 .. Len(b) -> TableRows]
  BY <1>2, <1>4 DEF Asked
<1>6. Asked(l, HashIds(l, b)) \in Seq(TableRows)
  BY <1>2, <1>5, SeqDef
<1>7. QED  BY <1>1, <1>2, <1>5, <1>6

LEMMA CutTyped ==
    ASSUME NEW f \in [1 .. MaxTokens -> TableRows], NEW m \in Nat, m =< MaxTokens
    PROVE  /\ SubSeq(f, 1, m) \in Seq(TableRows)
           /\ Len(SubSeq(f, 1, m)) = m
           /\ \A i \in 1 .. m : SubSeq(f, 1, m)[i] = f[i]
<1>1. \A i \in 1 .. m : f[i] \in TableRows
  BY StepAssumption
<1>2. /\ SubSeq(f, 1, m) \in Seq(TableRows)
      /\ Len(SubSeq(f, 1, m)) = IF 1 =< m THEN m - 1 + 1 ELSE 0
      /\ \A i \in 1 .. m - 1 + 1 : SubSeq(f, 1, m)[i] = f[1 + i - 1]
  BY <1>1, SubSeqProperties
<1>3. QED  BY <1>2

\* What is staged for a step begins with the rows of its tokens.
LEMMA StagedRows ==
    ASSUME Stepping, NEW l \in Layers, NEW s \in DOMAIN batches, StagedFor(l, s),
           NEW m \in Nat, Len(batches[s]) =< m, m =< MaxTokens
    PROVE  SubSeq(SubSeq(staged[l], 1, m), 1, Len(batches[s])) = Rows(batches[s])[l]
<1> DEFINE b == batches[s]
           n == Len(b)
           f == staged[l]
<1>1. b \in Batches /\ f \in [1 .. MaxTokens -> TableRows]
  BY DEF Stepping
<1>2. n \in Nat /\ n >= 1 /\ DOMAIN b = 1 .. n
  BY <1>1, BatchTyped
<1>3. \A i \in 1 .. m : SubSeq(f, 1, m)[i] = f[i] /\ f[i] \in TableRows
  <2>1. \A i \in 1 .. m : SubSeq(f, 1, m)[i] = f[i]
    BY <1>1, CutTyped, Zenon
  <2>2. \A i \in 1 .. m : f[i] \in TableRows
    BY <1>1, StepAssumption
  <2>3. QED  BY <2>1, <2>2
<1> DEFINE g == SubSeq(f, 1, m)
<1> HIDE DEF g
<1>4. \A i \in 1 .. n : g[i] = f[i] /\ g[i] \in TableRows
  BY <1>2, <1>3 DEF g
<1>5. /\ SubSeq(g, 1, n) \in Seq(TableRows)
      /\ Len(SubSeq(g, 1, n)) = n
      /\ \A i \in 1 .. n : SubSeq(g, 1, n)[i] = g[i]
  <2>1. /\ SubSeq(g, 1, n) \in Seq(TableRows)
        /\ Len(SubSeq(g, 1, n)) = IF 1 =< n THEN n - 1 + 1 ELSE 0
        /\ \A i \in 1 .. n - 1 + 1 : SubSeq(g, 1, n)[i] = g[1 + i - 1]
    BY <1>2, <1>4, SubSeqProperties
  <2>2. QED  BY <1>2, <2>1
<1>6. \A i \in 1 .. n : f[i] = Rows(b)[l][i]
  BY <1>2 DEF StagedFor
<1>7. Rows(b)[l] \in Seq(TableRows) /\ Len(Rows(b)[l]) = n
  BY <1>1, RowsTyped
<1>8. SubSeq(g, 1, n) = Rows(b)[l]
  BY <1>4, <1>5, <1>6, <1>7, SeqEqual
<1>9. QED  BY <1>8 DEF g

-----------------------------------------------------------------------------
(* The lookups.                                                            *)

\* A call of one layer leaves the buffers and the other layers' calls alone.
LEMMA LookupMoves ==
    ASSUME LookupInv, NEW l \in Layers,
           Prefetch(l) \/ LookupBegins(l) \/ LookupGoesOn(l) \/ TableStep(l)
    PROVE  buffer' = buffer /\ \A m \in Layers \ {l} : call'[m] = call[m]
<1> USE DEF LookupInv, Shape
<1>1. CASE Prefetch(l)
  BY <1>1 DEF Prefetch
<1>2. CASE LookupNothing(l) \/ LookupRefused(l)
  BY <1>2 DEF LookupNothing, LookupRefused
<1>3. CASE LookupTakes(l) \/ LookupOwn(l) \/ FallBack(l)
  BY <1>3 DEF LookupTakes, LookupOwn, FallBack, OwnRead
<1>4. CASE ServePrefetched(l) \/ ServeOwn(l) \/ LookupRaises(l)
  BY <1>4 DEF ServePrefetched, ServeOwn, LookupRaises, EndLookup
<1>5. CASE TableStep(l)
  BY <1>5 DEF TableStep, ReadDone, ReadError, ReadEnds
<1>6. QED
  BY <1>1, <1>2, <1>3, <1>4, <1>5 DEF LookupBegins, LookupGoesOn

\* A lookup that ends well has the rows of the ids in the buffer.
LEMMA LookupServes ==
    ASSUME LookupInv, LookupInv', NEW l \in Layers, LookupGoesOn(l),
           call'[l].at = "idle", answer'[l].status = "ok"
    PROVE  answer'[l].rows = Asked(l, buffer[l])
<1>1. call \in [Layers -> Calls] /\ DOMAIN answer = Layers
  BY DEF LookupInv, Shape
<1>2. ~FallBack(l)
  BY <1>1 DEF FallBack, OwnRead
<1>3. call[l].at # "idle" /\ answer'[l].ids = call[l].ids
  BY <1>1, <1>2 DEF LookupGoesOn, ServePrefetched, ServeOwn, LookupRaises, EndLookup, Answer
<1>4. call[l].ids = buffer[l]
  BY <1>3 DEF LookupInv, LayerInv, CallCurrent
<1>5. answer'[l].rows = Asked(l, answer'[l].ids)
  BY DEF LookupInv, LayerInv, AnswerRight
<1>6. QED  BY <1>3, <1>4, <1>5

LEMMA BeginKeepsLookup ==
    ASSUME StepInv, BeginStep
    PROVE  LookupInv'
<1>1. PICK b \in Batches : buffer' = [l \in Layers |-> HashIds(l, b)]
  BY DEF BeginStep
<1>2. /\ \A l \in Layers : call[l].at = "idle"
      /\ capturing' = capturing /\ halves' = halves /\ loaded' = loaded
      /\ pending' = pending /\ reads' = reads /\ call' = call /\ answer' = answer
  BY DEF BeginStep, StepInv, RunnerInv, OneLookup, tableVars
<1>3. buffer' \in [Layers -> Seq(Nat)]
  BY <1>1, HashTyped
<1>4. Shape'
  BY <1>2, <1>3 DEF StepInv, LookupInv, Shape
<1>5. \A l \in Layers : LayerInv(l)'
  BY <1>2 DEF StepInv, LookupInv, LayerInv, PendingOwn, CallCurrent, RowsOfKey,
              AwaitedInOrder, AnswerRight
<1>6. QED  BY <1>4, <1>5 DEF LookupInv

\* Every step of the runner, the tables and the device is, to the lookups,
\* a step of their client or none.
LEMMA LookupKeeps ==
    ASSUME StepInv, [StepNext]_stepVars
    PROVE  LookupInv'
<1> layer \in Layers
  BY DEF StepInv, RunnerInv, Stepping
<1>1. CASE BeginStep
  BY <1>1, BeginKeepsLookup
<1>2. CASE PrefetchLayer \/ LookupLayer \/ LandLayer \/ VerifyLayer \/ CompareLayer
  <2>1. Next
    BY <1>2 DEF Next, PrefetchLayer, LookupLayer, LandLayer, VerifyLayer, CompareLayer
  <2>2. QED  BY <2>1, LookupStep DEF StepInv
<1>3. CASE ReadStep
  <2>1. Next
    BY <1>3 DEF Next, ReadStep
  <2>2. QED  BY <2>1, LookupStep DEF StepInv
<1>4. CASE Launch \/ Skip \/ RunForward \/ Finished \/ UNCHANGED stepVars
  <2>1. UNCHANGED vars
    BY <1>4 DEF Launch, Skip, RunForward, Finished, stepVars
  <2>2. QED  BY <2>1, LookupStep DEF StepInv
<1>5. QED
  BY <1>1, <1>2, <1>3, <1>4 DEF StepNext, RunnerStep

-----------------------------------------------------------------------------
(* The runner's invariant, step by step.                                   *)

LEMMA RunnerInit == StepInit => StepInv
<1> SUFFICES ASSUME StepInit PROVE StepInv
  OBVIOUS
<1>1. LookupInv
  <2> USE DEF StepInit, Unused
  <2>1. NoKey \in Keys /\ NoCall \in Calls /\ NoPending \in [read : Nat, key : Keys]
    BY NothingTyped
  <2>2. <<>> \in Seq(Nat) /\ <<>> \in Seq(Readings)
    OBVIOUS
  <2>3. /\ buffer \in [Layers -> Seq(Nat)] /\ reads \in [Layers -> Seq(Readings)]
        /\ pending \in [Layers -> [read : Nat, key : Keys]] /\ call \in [Layers -> Calls]
    BY <2>1, <2>2, Zenon
  <2>4. /\ loaded \in [Layers -> BOOLEAN] /\ capturing \in BOOLEAN
        /\ halves \in [Layers -> SUBSET Fields] /\ DOMAIN answer = Layers
    BY Zenon
  <2>5. Shape  BY <2>3, <2>4, Zenon DEF Shape
  <2>6. \A l \in Layers : LayerInv(l)
    BY DEF LayerInv, PendingOwn, CallCurrent, RowsOfKey, AwaitedInOrder, AnswerRight,
           NoCall, NoPending, NoAnswer
  <2>7. QED  BY <2>5, <2>6 DEF LookupInv
<1>2. Stepping
  <2>1. ZeroRow \in TableRows
    BY DEF ZeroRow, TableRows
  <2>2. staged \in [Layers -> [1 .. MaxTokens -> TableRows]]
    BY <2>1 DEF StepInit, FirstRow
  <2>3. verifyLeft \in 0 .. VerifyCalls
    BY StepAssumption DEF StepInit
  <2>4. prestaged \in BOOLEAN /\ bound \in BOOLEAN
    BY Zenon DEF StepInit
  <2>5. batches \in Seq(Batches) /\ results \in Seq(Results) /\ device \in Seq(Forwards)
    BY DEF StepInit
  <2>6. Len(results) = Len(batches) /\ phase = "idle" /\ layer \in Layers
    BY StepAssumption DEF StepInit
  <2>7. QED  BY <2>2, <2>3, <2>4, <2>5, <2>6 DEF Stepping
<1>3. /\ InStep /\ StagedBefore /\ DeviceBehind /\ OthersDecided
  BY DEF StepInit, InStep, StagedBefore, DeviceBehind, OthersDecided
<1>4. OneLookup
  BY DEF StepInit, Unused, OneLookup, NoCall
<1>5. QED  BY <1>1, <1>2, <1>3, <1>4 DEF StepInv, RunnerInv

LEMMA ReadRuns ==
    ASSUME StepInv, ReadStep \/ UNCHANGED stepVars
    PROVE  RunnerInv'
<1>1. UNCHANGED runnerVars /\ buffer' = buffer /\ call' = call
  BY DEF ReadStep, TableStep, ReadDone, ReadError, ReadEnds, stepVars, vars
<1> USE DEF StepInv, RunnerInv, runnerVars, Step, Batch
<1>2. Stepping'
  BY <1>1 DEF Stepping
<1>3. InStep' /\ OthersDecided' /\ OneLookup'
  BY <1>1 DEF InStep, OthersDecided, OneLookup
<1>4. \A l, s : StagedFor(l, s)' <=> StagedFor(l, s)
  BY <1>1 DEF StagedFor
<1>5. StagedBefore' /\ DeviceBehind'
  BY <1>1, <1>4 DEF StagedBefore, DeviceBehind, Drained
<1>6. QED  BY <1>2, <1>3, <1>5

LEMMA PrefetchRuns ==
    ASSUME StepInv, PrefetchLayer
    PROVE  RunnerInv'
<1>1. /\ phase = "prefetch" /\ device = <<>>
      /\ buffer' = buffer /\ call' = call
      /\ UNCHANGED <<prestaged, bound, batches, results, staged, device, verifyLeft>>
      /\ \/ phase' = "lookup" /\ layer' = 1
         \/ phase' = "prefetch" /\ layer' = layer + 1 /\ layer # LastLayer
  BY DEF PrefetchLayer, Prefetch, StreamDrained
<1> USE DEF StepInv, RunnerInv, Step, Batch
<1>2. layer' \in Layers
  BY <1>1, LayersCount DEF Stepping
<1>3. Stepping'
  BY <1>1, <1>2 DEF Stepping
<1>4. InStep' /\ OthersDecided' /\ DeviceBehind'
  BY <1>1 DEF InStep, OthersDecided, DeviceBehind
<1>5. StagedBefore' /\ OneLookup'
  BY <1>1 DEF StagedBefore, OneLookup
<1>6. QED  BY <1>3, <1>4, <1>5

\* A lookup is begun: of the layer the runner is at, on a drained stream.
LEMMA LookupRuns ==
    ASSUME StepInv, LookupLayer \/ VerifyLayer
    PROVE  RunnerInv'
<1> USE DEF StepInv, RunnerInv, Step, Batch
<1>1. /\ device = <<>> /\ LookupBegins(layer) /\ layer \in Layers
      /\ UNCHANGED <<prestaged, bound, batches, results, layer, staged, device, verifyLeft>>
      /\ \/ phase = "lookup" /\ phase' = "landing"
         \/ phase = "verify" /\ phase' = "verifying"
  BY DEF LookupLayer, VerifyLayer, StreamDrained, Stepping
<1>2. buffer' = buffer /\ \A m \in Layers \ {layer} : call'[m] = call[m]
  BY <1>1, LookupMoves
<1>3. Stepping'
  BY <1>1 DEF Stepping
<1>4. InStep' /\ OthersDecided' /\ DeviceBehind'
  BY <1>1, <1>2 DEF InStep, OthersDecided, DeviceBehind
<1>5. StagedBefore'
  BY <1>1 DEF StagedBefore, StagedFor
<1>6. OneLookup'
  BY <1>1, <1>2 DEF OneLookup
<1>7. QED  BY <1>3, <1>4, <1>5, <1>6

\* A step given up is the runner's, and the device has nothing to run.
LEMMA GivenUp ==
    ASSUME StepInv, NEW kind \in {"skipped", "failed"}, GiveUp(kind), phase # "idle",
           device = <<>>, UNCHANGED <<prestaged, bound, batches>>,
           \A l \in Layers : call'[l].at = "idle"
    PROVE  RunnerInv'
<1> USE DEF StepInv, RunnerInv, Step, Batch
<1> DEFINE res == [kind |-> kind, rows |-> <<>>]
<1>1. /\ results' = [results EXCEPT ![Len(batches)] = res] /\ phase' = "idle"
      /\ UNCHANGED <<layer, staged, device, verifyLeft>>
  BY DEF GiveUp
<1>2. res \in Results
  BY DEF Results
<1>3. results \in Seq(Results) /\ Len(results) = Len(batches) /\ Len(batches) >= 1
      /\ Len(batches) \in Nat
  BY DEF Stepping, InStep
<1>4. Len(batches) \in DOMAIN results
  BY <1>3
<1> HIDE DEF res
<1>5. /\ results' \in Seq(Results) /\ Len(results') = Len(results)
      /\ DOMAIN results' = DOMAIN results
      /\ results'[Len(batches)] = res
      /\ \A j \in DOMAIN results \ {Len(batches)} : results'[j] = results[j]
  BY <1>1, <1>2, <1>3, <1>4, ReplacedAt
<1>6. Stepping'
  BY <1>1, <1>5 DEF Stepping
<1>7. InStep' /\ StagedBefore' /\ DeviceBehind' /\ OneLookup'
  BY <1>1 DEF InStep, StagedBefore, DeviceBehind, OneLookup
<1>8. res.kind # "none"
  BY DEF res
<1>9. OthersDecided'
  BY <1>1, <1>5, <1>8 DEF OthersDecided
<1>10. QED  BY <1>6, <1>7, <1>9

\* Where a lookup goes on, only its layer is busy and nothing is launched.
LEMMA GoingOn ==
    ASSUME StepInv, LookupGoesOn(layer), phase \in {"landing", "verifying"}
    PROVE  /\ layer \in Layers /\ device = <<>> /\ buffer' = buffer
           /\ \A m \in Layers \ {layer} : call'[m].at = "idle"
           /\ Batch \in Batches /\ Len(batches) \in DOMAIN batches
           /\ buffer[layer] = HashIds(layer, Batch)
<1> USE DEF StepInv, RunnerInv, Step, Batch
<1>1. layer \in Layers /\ device = <<>>
  BY DEF Stepping, DeviceBehind, Drained
<1>2. buffer' = buffer /\ \A m \in Layers \ {layer} : call'[m] = call[m]
  BY <1>1, LookupMoves
<1>3. \A m \in Layers \ {layer} : call'[m].at = "idle"
  BY <1>2 DEF OneLookup
<1>4. Len(batches) >= 1 /\ buffer[layer] = HashIds(layer, batches[Len(batches)])
  BY <1>1 DEF InStep
<1>5. Len(batches) \in DOMAIN batches /\ batches[Len(batches)] \in Batches
  BY <1>4 DEF Stepping
<1>6. QED  BY <1>1, <1>2, <1>3, <1>4, <1>5

\* The lookup goes on and does not end.
LEMMA StillWaits ==
    ASSUME StepInv, LookupGoesOn(layer), phase \in {"landing", "verifying"},
           UNCHANGED runnerVars
    PROVE  RunnerInv'
<1> USE DEF StepInv, RunnerInv, Step, Batch, runnerVars
<1>1. /\ device = <<>> /\ buffer' = buffer
      /\ \A m \in Layers \ {layer} : call'[m].at = "idle"
  BY GoingOn
<1>2. Stepping'
  BY DEF Stepping
<1>3. InStep' /\ OthersDecided' /\ DeviceBehind'
  BY <1>1 DEF InStep, OthersDecided, DeviceBehind
<1>4. StagedBefore'
  BY DEF StagedBefore, StagedFor
<1>5. OneLookup'
  BY <1>1 DEF OneLookup
<1>6. QED  BY <1>2, <1>3, <1>4, <1>5

LEMMA LandedTyped ==
    ASSUME NEW b \in Batches, NEW l \in Layers,
           NEW old \in [1 .. MaxTokens -> TableRows]
    PROVE  /\ Landed(old, Rows(b)[l]) \in [1 .. MaxTokens -> TableRows]
           /\ \A k \in DOMAIN b : Landed(old, Rows(b)[l])[k] = Rows(b)[l][k]
<1> DEFINE rows == Rows(b)[l]
<1>1. rows \in Seq(TableRows) /\ Len(rows) = Len(b)
  BY RowsTyped
<1>2. DOMAIN b = 1 .. Len(b) /\ Len(b) \in 1 .. MaxTokens /\ MaxTokens \in Nat
  BY BatchTyped
<1> HIDE DEF rows
<1>3. \A k \in 1 .. Len(b) : rows[k] \in TableRows
  BY <1>1, <1>2
<1>4. \A k \in 1 .. MaxTokens : (IF k =< Len(rows) THEN rows[k] ELSE old[k]) \in TableRows
  BY <1>1, <1>2, <1>3
<1>5. Landed(old, rows) \in [1 .. MaxTokens -> TableRows]
  BY <1>4 DEF Landed
<1>6. \A k \in DOMAIN b : Landed(old, rows)[k] = rows[k]
  BY <1>1, <1>2 DEF Landed
<1>7. QED  BY <1>5, <1>6 DEF rows

\* A layer's rows land: they are those of the batch.
LEMMA LayerLands ==
    ASSUME StepInv, LookupInv', phase = "landing", LookupGoesOn(layer),
           call'[layer].at = "idle", answer'[layer].status = "ok",
           staged' = [staged EXCEPT ![layer] = Landed(@, answer'[layer].rows)],
           IF layer = LastLayer THEN phase' = ToForward /\ layer' = 1
                                ELSE phase' = "lookup" /\ layer' = layer + 1,
           UNCHANGED <<prestaged, bound, batches, results, device, verifyLeft>>
    PROVE  RunnerInv'
<1> DEFINE now == Len(batches)
           b == batches[now]
<1>1. /\ layer \in Layers /\ device = <<>> /\ buffer' = buffer
      /\ \A m \in Layers \ {layer} : call'[m].at = "idle"
      /\ b \in Batches /\ now \in DOMAIN batches
      /\ buffer[layer] = HashIds(layer, b)
  BY GoingOn DEF Step, Batch
<1>2. answer'[layer].rows = Rows(b)[layer]
  BY <1>1, LookupServes, RowsTyped DEF StepInv
<1>3. /\ staged \in [Layers -> [1 .. MaxTokens -> TableRows]] /\ verifyLeft \in Nat
      /\ phase' \in {"lookup", "verify", "launch"}
      /\ phase' # "lookup" => layer = LastLayer
      /\ phase' = "lookup" => layer # LastLayer /\ layer' = layer + 1
      /\ phase' # "lookup" => layer' = 1
      /\ phase' = "verify" => verifyLeft > 0
  BY StepAssumption DEF StepInv, RunnerInv, Stepping, ToForward
<1>4. staged'[layer] = Landed(staged[layer], Rows(b)[layer])
  BY <1>1, <1>2, <1>3
<1>5. \A m \in Layers \ {layer} : staged'[m] = staged[m]
  BY <1>3
<1>6. /\ staged'[layer] \in [1 .. MaxTokens -> TableRows]
      /\ \A k \in DOMAIN b : staged'[layer][k] = Rows(b)[layer][k]
  BY <1>1, <1>3, <1>4, LandedTyped
<1>7. staged' \in [Layers -> [1 .. MaxTokens -> TableRows]]
  BY <1>1, <1>2, <1>3, <1>4, <1>6
<1>8. layer' \in Layers
  BY <1>1, <1>3, LayersCount
<1>9. Stepping'
  BY <1>3, <1>7, <1>8 DEF StepInv, RunnerInv, Stepping
<1>10. \A m \in 1 .. layer : StagedFor(m, now)'
  <2>1. \A m \in 1 .. layer - 1 : StagedFor(m, now)
    BY DEF StepInv, RunnerInv, StagedBefore, Step
  <2>2. \A m \in 1 .. layer - 1 : m \in Layers \ {layer}
    BY <1>1, LayersCount
  <2>3. \A m \in 1 .. layer - 1 : StagedFor(m, now)'
    BY <1>5, <2>1, <2>2 DEF StagedFor
  <2>4. \A m \in {layer} : StagedFor(m, now)'
    BY <1>6 DEF StagedFor
  <2>5. \A m \in 1 .. layer : m \in {layer} \/ m \in 1 .. layer - 1
    BY <1>1, LayersCount
  <2>6. QED  BY <2>3, <2>4, <2>5
<1>11. StagedBefore'
  <2>1. CASE phase' = "lookup"
    <3>1. 1 .. layer' - 1 = 1 .. layer
      BY <1>1, <1>3, <2>1, LayersCount
    <3>2. QED  BY <1>10, <2>1, <3>1 DEF StagedBefore, Step
  <2>2. CASE phase' # "lookup"
    <3>1. Layers = 1 .. layer
      BY <1>3, <2>2, LayersCount
    <3>2. QED  BY <1>3, <1>10, <2>2, <3>1 DEF StagedBefore, Step
  <2>3. QED  BY <2>1, <2>2
<1>12. InStep' /\ DeviceBehind' /\ OthersDecided'
  BY <1>1, <1>3 DEF StepInv, RunnerInv, InStep, DeviceBehind, OthersDecided, Step, Batch
<1>13. OneLookup'
  BY <1>1 DEF OneLookup
<1>14. QED  BY <1>9, <1>11, <1>12, <1>13 DEF RunnerInv

LEMMA LandRuns ==
    ASSUME StepInv, LookupInv', LandLayer
    PROVE  RunnerInv'
<1>1. /\ phase = "landing" /\ LookupGoesOn(layer) /\ UNCHANGED <<prestaged, bound, batches>>
  BY DEF LandLayer
<1>2. CASE UNCHANGED <<results, phase, layer, staged, device, verifyLeft>>
  BY <1>1, <1>2, StillWaits DEF runnerVars
<1>3. CASE call'[layer].at = "idle" /\ GiveUp("failed")
  BY <1>1, <1>3, GoingOn, GivenUp
<1>4. CASE /\ call'[layer].at = "idle" /\ answer'[layer].status = "ok"
           /\ staged' = [staged EXCEPT ![layer] = Landed(@, answer'[layer].rows)]
           /\ IF layer = LastLayer THEN phase' = ToForward /\ layer' = 1
                                   ELSE phase' = "lookup" /\ layer' = layer + 1
           /\ UNCHANGED <<results, device, verifyLeft>>
  BY <1>1, <1>4, LayerLands
<1>5. QED
  BY <1>2, <1>3, <1>4 DEF LandLayer

\* The staged rows a lookup is compared with are those of the batch too.
LEMMA SameRows ==
    ASSUME StepInv, LookupInv', phase = "verifying", LookupGoesOn(layer),
           call'[layer].at = "idle", answer'[layer].status = "ok"
    PROVE  answer'[layer].rows = SubSeq(staged[layer], 1, Len(Batch))
<1> DEFINE now == Len(batches)
           b == batches[now]
<1>1. layer \in Layers /\ b \in Batches /\ buffer[layer] = HashIds(layer, b)
  BY GoingOn DEF Step, Batch
<1>2. answer'[layer].rows = Rows(b)[layer]
  BY <1>1, LookupServes, RowsTyped DEF StepInv
<1>3. StagedFor(layer, now)
  BY <1>1 DEF StepInv, RunnerInv, StagedBefore, Step
<1>4. staged[layer] \in [1 .. MaxTokens -> TableRows]
  BY <1>1 DEF StepInv, RunnerInv, Stepping
<1>5. DOMAIN b = 1 .. Len(b) /\ Len(b) \in Nat /\ Len(b) =< MaxTokens
  BY <1>1, BatchTyped
<1>6. /\ SubSeq(staged[layer], 1, Len(b)) \in Seq(TableRows)
      /\ Len(SubSeq(staged[layer], 1, Len(b))) = Len(b)
      /\ \A i \in 1 .. Len(b) : SubSeq(staged[layer], 1, Len(b))[i] = staged[layer][i]
  BY <1>4, <1>5, CutTyped
<1>7. Rows(b)[layer] \in Seq(TableRows) /\ Len(Rows(b)[layer]) = Len(b)
  BY <1>1, RowsTyped
<1>8. \A i \in 1 .. Len(b) : staged[layer][i] = Rows(b)[layer][i]
  BY <1>3, <1>5 DEF StagedFor
<1>9. Rows(b)[layer] = SubSeq(staged[layer], 1, Len(b))
  BY <1>6, <1>7, <1>8, SeqEqual
<1>10. QED  BY <1>2, <1>9 DEF Batch, Step

LEMMA CompareRuns ==
    ASSUME StepInv, LookupInv', CompareLayer
    PROVE  RunnerInv'
<1>1. /\ phase = "verifying" /\ LookupGoesOn(layer) /\ UNCHANGED <<prestaged, bound, batches>>
  BY DEF CompareLayer
<1>2. CASE UNCHANGED <<results, phase, layer, staged, device, verifyLeft>>
  BY <1>1, <1>2, StillWaits DEF runnerVars
<1>3. CASE call'[layer].at = "idle" /\ GiveUp("failed")
  BY <1>1, <1>3, GoingOn, GivenUp
<1>4. CASE /\ call'[layer].at = "idle" /\ verifyLeft' = verifyLeft - 1
           /\ IF VerifyNextLayer(verifyLeft')
              THEN phase' = "verify" /\ layer' = layer + 1
              ELSE phase' = "launch" /\ layer' = 1
           /\ UNCHANGED <<results, staged, device>>
  <2> USE DEF StepInv, RunnerInv, Step, Batch
  <2>1. /\ layer \in Layers /\ device = <<>> /\ buffer' = buffer
        /\ \A m \in Layers \ {layer} : call'[m].at = "idle"
    BY <1>1, GoingOn
  <2>2. verifyLeft \in 1 .. VerifyCalls
    BY <1>1 DEF Stepping, StagedBefore
  <2>3. /\ verifyLeft' \in 0 .. VerifyCalls /\ layer' \in Layers
        /\ phase' \in {"verify", "launch"} /\ (phase' = "verify" => verifyLeft' > 0)
    BY <1>4, <2>1, <2>2, LayersCount, StepAssumption DEF VerifyNextLayer
  <2>4. Stepping'
    BY <1>1, <1>4, <2>3 DEF Stepping
  <2>5. StagedBefore'
    BY <1>1, <1>4, <2>3 DEF StagedBefore, StagedFor
  <2>6. InStep' /\ DeviceBehind' /\ OthersDecided'
    BY <1>1, <1>4, <2>1, <2>3 DEF InStep, DeviceBehind, OthersDecided
  <2>7. OneLookup'
    BY <1>4, <2>1 DEF OneLookup
  <2>8. QED  BY <2>4, <2>5, <2>6, <2>7
<1>5. CASE call'[layer].at = "idle" /\ answer'[layer].status = "ok"
  BY <1>1, <1>4, <1>5, SameRows DEF CompareLayer
<1>6. QED
  BY <1>2, <1>3, <1>5 DEF CompareLayer

LEMMA SkipRuns ==
    ASSUME StepInv, Skip
    PROVE  RunnerInv'
<1>1. phase = "launch" /\ GiveUp("skipped") /\ UNCHANGED <<vars, prestaged, bound, batches>>
  BY DEF Skip
<1>2. device = <<>>
  BY <1>1 DEF StepInv, RunnerInv, DeviceBehind, Drained
<1>3. \A l \in Layers : call'[l].at = "idle"
  BY <1>1 DEF StepInv, RunnerInv, OneLookup, vars
<1>4. QED  BY <1>1, <1>2, <1>3, GivenUp

LEMMA LaunchRuns ==
    ASSUME StepInv, Launch
    PROVE  RunnerInv'
<1> USE DEF StepInv, RunnerInv, Step, Batch
<1> DEFINE now == Len(batches)
           b == batches[now]
<1>1. PICK m \in ForwardSizes : device' = Append(device, [step |-> now, tokens |-> m])
  BY DEF Launch
<1>2. /\ phase = "launch" /\ bound /\ phase' = "idle"
      /\ buffer' = buffer /\ call' = call
      /\ UNCHANGED <<prestaged, bound, batches, results, layer, staged, verifyLeft>>
  BY DEF Launch, vars
<1>3. device = <<>>
  BY <1>2 DEF DeviceBehind, Drained
<1>4. now \in Nat /\ now >= 1 /\ b \in Batches /\ results[now] = NoResult
  BY <1>2 DEF InStep, Stepping
<1>5. m \in 1 .. MaxTokens /\ m >= Len(b)
  <2>1. Len(b) \in 1 .. MaxTokens /\ MaxTokens \in Nat
    BY <1>4, BatchTyped
  <2>2. GraphSizes \subseteq 1 .. MaxTokens
    BY StepAssumption
  <2>3. m = Len(b) \/ (m \in GraphSizes /\ m >= Len(b))
    BY DEF ForwardSizes
  <2>4. CASE m = Len(b)
    BY <2>1, <2>4
  <2>5. CASE m \in GraphSizes /\ m >= Len(b)
    BY <2>2, <2>5
  <2>6. QED  BY <2>3, <2>4, <2>5
<1> DEFINE f == [step |-> now, tokens |-> m]
<1>6. f \in Forwards /\ f.step = now /\ f.tokens = m
  BY <1>4, <1>5 DEF Forwards
<1> HIDE DEF f
<1>7. device' = <<f>>
  BY <1>1, <1>3 DEF f
<1>8. device' \in Seq(Forwards) /\ Len(device') = 1 /\ device'[1] = f /\ device' # <<>>
  BY <1>6, <1>7
<1>9. Stepping'
  BY <1>2, <1>8 DEF Stepping
<1>10. InStep' /\ StagedBefore' /\ OneLookup'
  BY <1>2 DEF InStep, StagedBefore, OneLookup
<1>11. \A l \in Layers : StagedFor(l, now)'
  BY <1>2 DEF StagedBefore, StagedFor
<1>12. DeviceBehind'
  BY <1>2, <1>4, <1>5, <1>6, <1>8, <1>11 DEF DeviceBehind, Drained, StagedFor
<1>13. OthersDecided'
  <2>1. \A s \in DOMAIN results : results[s].kind = "none" => s = now
    BY <1>3 DEF OthersDecided
  <2>2. device'[1].step = now
    BY <1>6, <1>8
  <2>3. QED  BY <1>2, <1>8, <2>1, <2>2 DEF OthersDecided
<1>14. QED  BY <1>9, <1>10, <1>12, <1>13

\* A forward that has not run is one step behind from now on.
LEMMA BeginRuns ==
    ASSUME StepInv, BeginStep
    PROVE  RunnerInv'
<1> USE DEF StepInv, RunnerInv, Step, Batch
<1> DEFINE now == Len(batches)
<1>1. PICK b \in Batches : /\ batches' = Append(batches, b)
                           /\ buffer' = [l \in Layers |-> HashIds(l, b)]
  BY DEF BeginStep
<1>2. /\ phase = "idle" /\ results' = Append(results, NoResult)
      /\ bound' \in {bound, TRUE} /\ layer' = 1 /\ call' = call
      /\ UNCHANGED <<prestaged, staged, device, verifyLeft>>
  BY DEF BeginStep
<1>3. phase' = IF ~bound' THEN "launch" ELSE IF prestaged THEN "prefetch" ELSE "lookup"
  BY DEF BeginStep
<1>4. /\ phase' \in {"launch", "prefetch", "lookup"}
      /\ phase' = "launch" => ~bound'
      /\ bound' => phase' # "launch"
  BY <1>3
<1>5. NoResult \in Results /\ NoResult.kind = "none"
  BY DEF NoResult, Results
<1>6. /\ batches \in Seq(Batches) /\ results \in Seq(Results) /\ Len(results) = now
      /\ now \in Nat
  BY DEF Stepping
<1>7. /\ batches' \in Seq(Batches) /\ Len(batches') = now + 1
      /\ \A s \in 1 .. now : batches'[s] = batches[s]
      /\ batches'[now + 1] = b
  BY <1>1, <1>6, AppendProperties
<1>8. /\ results' \in Seq(Results) /\ Len(results') = now + 1
      /\ \A s \in 1 .. now : results'[s] = results[s]
      /\ results'[now + 1] = NoResult
  <2> HIDE DEF NoResult
  <2>1. QED  BY <1>2, <1>5, <1>6, AppendProperties
<1>9. Stepping'
  <2>1. layer' \in Layers
    BY <1>2, LayersCount
  <2>2. bound' \in BOOLEAN
    BY <1>2 DEF Stepping
  <2>3. QED  BY <1>2, <1>4, <1>7, <1>8, <2>1, <2>2, <1>6 DEF Stepping
<1>10. InStep'
  BY <1>1, <1>6, <1>7, <1>8 DEF InStep
<1>11. StagedBefore'
  BY <1>2, <1>4 DEF StagedBefore
<1>12. OneLookup'
  BY <1>2 DEF OneLookup
<1>13. DeviceBehind'
  <2> SUFFICES ASSUME device # <<>> PROVE DeviceBehind'
    BY <1>2 DEF DeviceBehind
  <2>1. /\ Len(device) = 1 /\ bound /\ device[1].step = now /\ now >= 1
        /\ results[now] = NoResult /\ device[1].tokens >= Len(batches[now])
        /\ \A l \in Layers : StagedFor(l, now)
    BY <1>2 DEF DeviceBehind
  <2>2. batches'[now] = batches[now] /\ results'[now] = NoResult
    BY <1>6, <1>7, <1>8, <2>1
  <2>3. \A l \in Layers : \A k \in DOMAIN batches'[now] :
          staged'[l][k] = Rows(batches'[now])[l][k]
    BY <1>2, <2>1, <2>2 DEF StagedFor
  <2>4. ~Drained' /\ bound'
    BY <1>2, <1>4, <2>1 DEF Drained
  <2>5. device'[1].step = now /\ Len(batches') - 1 = now /\ phase' # "idle"
    BY <1>2, <1>4, <1>6, <1>7, <2>1
  <2>6. QED  BY <1>2, <2>1, <2>2, <2>3, <2>4, <2>5 DEF DeviceBehind, StagedFor
<1>14. OthersDecided'
  <2> SUFFICES ASSUME NEW s \in 1 .. now + 1, results'[s].kind = "none"
               PROVE  \/ s = now + 1
                      \/ device # <<>> /\ s = device[1].step
    BY <1>2, <1>4, <1>6, <1>7, <1>8 DEF OthersDecided
  <2>1. CASE s \in 1 .. now
    BY <1>2, <1>6, <1>8, <2>1 DEF OthersDecided
  <2>2. QED  BY <1>6, <2>1
<1>15. QED  BY <1>9, <1>10, <1>11, <1>12, <1>13, <1>14

\* What the forward on the device finds, and what remains of it.
LEMMA HeadForward ==
    ASSUME StepInv, device # <<>>
    PROVE  /\ Head(device) = device[1] /\ Tail(device) = <<>> /\ device[1] \in Forwards
           /\ device[1].step \in DOMAIN results /\ device[1].step \in DOMAIN batches
           /\ device[1].tokens \in Nat /\ device[1].tokens =< MaxTokens
           /\ device[1].tokens >= Len(batches[device[1].step])
           /\ results[device[1].step] = NoResult
           /\ phase # "idle" => device[1].step = Len(batches) - 1
           /\ phase = "idle" => device[1].step = Len(batches)
           /\ \A l \in Layers : StagedFor(l, device[1].step)
<1> USE DEF StepInv, RunnerInv
<1>1. /\ device \in Seq(Forwards) /\ Len(device) = 1
      /\ results \in Seq(Results) /\ batches \in Seq(Batches) /\ Len(results) = Len(batches)
  BY DEF Stepping, DeviceBehind
<1>2. Head(device) = device[1] /\ device[1] \in Forwards
  BY <1>1
<1>3. Tail(device) = <<>>
  <2>1. Tail(device) \in Seq(Forwards) /\ Len(Tail(device)) = Len(device) - 1
    BY <1>1, HeadTailProperties
  <2>2. Len(Tail(device)) = 0
    BY <1>1, <2>1
  <2>3. \A q \in Seq(Forwards) : q # <<>> => Len(q) # 0
    BY EmptySeq
  <2> DEFINE q == Tail(device)
  <2> HIDE DEF q
  <2>4. q \in Seq(Forwards) /\ Len(q) = 0
    BY <2>1, <2>2 DEF q
  <2>5. q = <<>>
    BY <2>3, <2>4
  <2>6. QED  BY <2>5 DEF q
<1>4. device[1].step = (IF phase = "idle" THEN Len(batches) ELSE Len(batches) - 1)
      /\ device[1].step >= 1
  BY DEF DeviceBehind, Step
<1>5. device[1].step \in 1 .. Len(batches)
  BY <1>1, <1>2, <1>4 DEF Forwards
<1>6. device[1].tokens \in Nat /\ device[1].tokens =< MaxTokens
  BY <1>2, StepAssumption DEF Forwards
<1>7. /\ device[1].tokens >= Len(batches[device[1].step])
      /\ results[device[1].step] = NoResult
      /\ \A l \in Layers : StagedFor(l, device[1].step)
  BY DEF DeviceBehind
<1>8. QED  BY <1>1, <1>2, <1>3, <1>4, <1>5, <1>6, <1>7

LEMMA ForwardRuns ==
    ASSUME StepInv, RunForward
    PROVE  RunnerInv'
<1> USE DEF StepInv, RunnerInv, Step, Batch
<1> DEFINE f == device[1]
           res == [kind |-> "computed",
                   rows |-> [l \in Layers |-> SubSeq(staged[l], 1, f.tokens)]]
<1>1. /\ f.step \in DOMAIN results
      /\ f.tokens \in Nat /\ f.tokens =< MaxTokens /\ device # <<>>
      /\ phase # "idle" => f.step = Len(batches) - 1
      /\ phase = "idle" => f.step = Len(batches)
  BY HeadForward DEF RunForward
<1>2. /\ results' = [results EXCEPT ![f.step] = res] /\ device' = <<>>
      /\ UNCHANGED <<vars, prestaged, bound, batches, phase, layer, staged, verifyLeft>>
  BY HeadForward DEF RunForward
<1>3. res \in Results
  <2>1. staged \in [Layers -> [1 .. MaxTokens -> TableRows]]
    BY DEF Stepping
  <2>2. \A l \in Layers : SubSeq(staged[l], 1, f.tokens) \in Seq(TableRows)
    BY <1>1, <2>1, CutTyped
  <2>3. res.rows \in [Layers -> Seq(TableRows)]
    BY <2>2
  <2>4. QED  BY <2>3 DEF Results
<1>4. res.kind = "computed"
  OBVIOUS
<1> HIDE DEF res
<1>5. results \in Seq(Results) /\ Len(results) = Len(batches) /\ Len(batches) \in Nat
  BY DEF Stepping
<1>6. /\ results' \in Seq(Results) /\ Len(results') = Len(results)
      /\ DOMAIN results' = DOMAIN results
      /\ results'[f.step] = res
      /\ \A j \in DOMAIN results \ {f.step} : results'[j] = results[j]
  BY <1>1, <1>2, <1>3, <1>5, ReplacedAt
<1>7. device' \in Seq(Forwards)
  BY <1>2
<1>8. Stepping'
  BY <1>2, <1>6, <1>7 DEF Stepping
<1>9. InStep'
  <2> SUFFICES ASSUME phase # "idle" PROVE InStep'
    BY <1>2 DEF InStep
  <2>1. Len(batches) >= 1 /\ Len(batches) # f.step /\ results[Len(batches)] = NoResult
    BY <1>1, <1>5 DEF InStep
  <2>2. Len(batches) \in DOMAIN results
    BY <1>5, <2>1
  <2>3. results'[Len(batches)] = NoResult
    BY <1>6, <2>1, <2>2
  <2>4. QED  BY <1>2, <2>3 DEF InStep, vars
<1>10. StagedBefore' /\ DeviceBehind' /\ OneLookup'
  BY <1>2 DEF StagedBefore, StagedFor, DeviceBehind, OneLookup, vars
<1>11. OthersDecided'
  BY <1>2, <1>4, <1>6 DEF OthersDecided
<1>12. QED  BY <1>8, <1>9, <1>10, <1>11

LEMMA StepKeeps == StepInv /\ [StepNext]_stepVars => StepInv'
<1> SUFFICES ASSUME StepInv, [StepNext]_stepVars PROVE StepInv'
  OBVIOUS
<1>1. LookupInv'
  BY LookupKeeps
<1>2. RunnerInv'
  BY <1>1, BeginRuns, PrefetchRuns, LookupRuns, LandRuns, CompareRuns, LaunchRuns,
     SkipRuns, ForwardRuns, ReadRuns
  DEF StepNext, RunnerStep, Finished
<1>3. QED  BY <1>1, <1>2 DEF StepInv

\* The invariant of a step of the model, with the stager or without.
THEOREM StepInvariance == StepSpec => []StepInv
BY RunnerInit, StepKeeps, PTL DEF StepSpec

\* Type correctness of the runner's state and of the lookups'.
THEOREM StepTypes == StepSpec => []StepTypeOK
<1>1. ASSUME StepInv PROVE StepTypeOK
  <2>1. TypeOK
    BY <1>1, LookupTyped DEF StepInv
  <2>2. \A l \in Layers : Len(staged[l]) = MaxTokens
    <3> TAKE l \in Layers
    <3>1. staged[l] \in [1 .. MaxTokens -> TableRows]
      BY <1>1 DEF StepInv, RunnerInv, Stepping
    <3>2. QED  BY <3>1, StepAssumption
  <2>3. QED
    BY <1>1, <2>1, <2>2 DEF StepInv, RunnerInv, Stepping, StepTypeOK, Step
<1>2. QED  BY <1>1, StepInvariance, PTL

\* A forward that is padded reads rows behind those of its tokens: they are
\* zeros, or rows of the table that an earlier step left, never memory that
\* nothing has written (vlspeed-prestage.py:51-52 and 67-69).
THEOREM PaddingWritten == StepSpec => []PaddingFinite
<1>1. ASSUME StepInv, NEW s \in DOMAIN results, results[s].kind = "computed",
             NEW l \in Layers, NEW k \in DOMAIN results[s].rows[l],
             NEW col \in 1 .. PartCols
      PROVE  results[s].rows[l][k][col] # Uninitialized
  <2>1. results[s] \in Results
    BY <1>1 DEF StepInv, RunnerInv, Stepping
  <2>2. results[s].rows[l] \in Seq(TableRows)
    BY <1>1, <2>1 DEF Results
  <2>3. results[s].rows[l][k] \in TableRows
    BY <1>1, <2>2
  <2>4. results[s].rows[l][k][col] \in (Layers \X Nat \X Nat) \cup {Zero}
    BY <1>1, <2>3 DEF TableRows
  <2>5. Uninitialized \notin (Layers \X Nat \X Nat) \cup {Zero}
    BY ShapeAssumption DEF Uninitialized, Zero
  <2>6. QED  BY <2>4, <2>5
<1>2. StepInv => PaddingFinite
  BY <1>1 DEF PaddingFinite
<1>3. QED  BY <1>2, StepInvariance, PTL

-----------------------------------------------------------------------------
(***************************************************************************)
(* Prestage implements the safety of ForwardContract: each step of the     *)
(* runner and of the device begins a step of the model, decides one as the *)
(* contract allows, or is not seen.                                        *)
(***************************************************************************)

Outcomes == [s \in DOMAIN results |-> Outcome(s)]

LEMMA InitMaps == StepInit => Forward!ContractInit
<1> SUFFICES ASSUME StepInit PROVE Forward!ContractInit
  OBVIOUS
<1>1. batches = <<>> /\ results = <<>>
  BY DEF StepInit
<1>2. [s \in DOMAIN results |-> Outcome(s)] = <<>>
  BY <1>1
<1>3. QED  BY <1>1, <1>2 DEF Forward!ContractInit

LEMMA Unseen ==
    ASSUME batches' = batches, results' = results
    PROVE  UNCHANGED Forward!contractVars
BY DEF Forward!contractVars, Outcome

LEMMA BeginMaps ==
    ASSUME StepInv, BeginStep
    PROVE  Forward!BeginStep
<1> DEFINE now == Len(batches)
<1>1. PICK b \in Batches : batches' = Append(batches, b)
  BY DEF BeginStep
<1>2. results' = Append(results, NoResult)
  BY DEF BeginStep
<1>3. NoResult \in Results /\ NoResult.kind = "none"
  BY DEF NoResult, Results
<1>4. /\ batches \in Seq(Batches) /\ results \in Seq(Results) /\ Len(results) = now
      /\ now \in Nat
  BY DEF StepInv, RunnerInv, Stepping
<1>5. \A s \in 1 .. now : batches'[s] = batches[s]
  BY <1>1, <1>4, AppendProperties
<1>6. /\ DOMAIN results = 1 .. now /\ DOMAIN results' = 1 .. now + 1
      /\ \A s \in 1 .. now : results'[s] = results[s]
      /\ results'[now + 1] = NoResult
  <2> HIDE DEF NoResult
  <2>1. QED  BY <1>2, <1>3, <1>4, AppendProperties
<1>7. \A s \in 1 .. now : Outcome(s)' = Outcome(s)
  BY <1>5, <1>6 DEF Outcome
<1>8. [s \in DOMAIN results' |-> Outcome(s)'] = Append(Outcomes, Forward!Undecided)
  <2> DEFINE new == [s \in DOMAIN results' |-> Outcome(s)']
             und == Forward!Undecided
             S == {Outcomes[s] : s \in 1 .. now} \cup {und}
  <2>1. new[now + 1] = und
    <3>1. now + 1 \in DOMAIN results'
      BY <1>4, <1>6
    <3>2. \A s \in DOMAIN results' :
            results'[s].kind = "none" => new[s] = [kind |-> "none"]
      BY DEF Outcome
    <3>3. results'[now + 1].kind = "none"
      BY <1>3, <1>6
    <3> HIDE DEF new
    <3>4. QED  BY <3>1, <3>2, <3>3 DEF Forward!Undecided
  <2>2. \A s \in 1 .. now : new[s] = Outcomes[s]
    BY <1>4, <1>6, <1>7 DEF Outcomes
  <2>3. DOMAIN new = 1 .. now + 1 /\ DOMAIN Outcomes = 1 .. now
    BY <1>6 DEF Outcomes
  <2> HIDE DEF new, und
  <2>4. Outcomes \in Seq(S) /\ Len(Outcomes) = now
    <3>1. Outcomes \in [1 .. now -> S]
      BY <2>3 DEF Outcomes
    <3>2. Outcomes \in Seq(S)
      BY <1>4, <3>1, SeqDef
    <3>3. QED  BY <1>4, <2>3, <3>2
  <2>5. /\ Append(Outcomes, und) \in Seq(S)
        /\ Len(Append(Outcomes, und)) = now + 1
        /\ \A s \in 1 .. now : Append(Outcomes, und)[s] = Outcomes[s]
        /\ Append(Outcomes, und)[now + 1] = und
    <3>1. und \in S
      OBVIOUS
    <3> HIDE DEF S
    <3>2. QED  BY <2>4, <3>1, AppendProperties
  <2>6. new \in Seq(S) /\ Len(new) = now + 1
    <3>1. \A s \in 1 .. now + 1 : new[s] \in S
      BY <1>4, <2>1, <2>2, <2>3
    <3> HIDE DEF S
    <3>2. new \in [1 .. now + 1 -> S]
      BY <2>3, <3>1 DEF new
    <3>3. now + 1 \in Nat
      BY <1>4
    <3>4. new \in Seq(S)
      BY <3>2, <3>3, SeqDef
    <3>5. QED  BY <2>3, <3>3, <3>4
  <2>7. \A s \in 1 .. now + 1 : new[s] = Append(Outcomes, und)[s]
    BY <1>4, <2>1, <2>2, <2>5
  <2> HIDE DEF S
  <2>8. new = Append(Outcomes, und)
    BY <2>5, <2>6, <2>7, SeqEqual
  <2>9. QED  BY <2>8 DEF new, und
<1>9. QED
  BY <1>1, <1>8 DEF Forward!BeginStep, Outcomes

LEMMA GiveUpDecides ==
    ASSUME StepInv, NEW kind \in {"skipped", "failed"}, GiveUp(kind), phase # "idle",
           batches' = batches
    PROVE  \E s \in DOMAIN batches : Forward!Decide(s)
<1> DEFINE now == Len(batches)
<1>1. /\ now \in DOMAIN batches /\ now \in DOMAIN results /\ results[now] = NoResult
      /\ results \in Seq(Results)
  BY DEF StepInv, RunnerInv, Stepping, InStep, Step
<1>2. results' = [results EXCEPT ![now] = [kind |-> kind, rows |-> <<>>]]
  BY DEF GiveUp, Step
<1>3. Outcomes[now] = Forward!Undecided
  BY <1>1 DEF Outcomes, Outcome, NoResult, Forward!Undecided
<1>4. [s \in DOMAIN results' |-> Outcome(s)'] = [Outcomes EXCEPT ![now] = [kind |-> kind]]
  <2>1. DOMAIN results' = DOMAIN results
    BY <1>2
  <2>2. \A s \in DOMAIN results \ {now} : Outcome(s)' = Outcome(s)
    BY <1>2 DEF Outcome
  <2>3. Outcome(now)' = [kind |-> kind]
    BY <1>1, <1>2 DEF Outcome
  <2>4. now' = now
    OBVIOUS
  <2>5. QED  BY <1>1, <2>1, <2>2, <2>3, <2>4 DEF Outcomes
<1>5. Forward!Decide(now)
  BY <1>3, <1>4 DEF Forward!Decide, Outcomes
<1>6. QED  BY <1>1, <1>5

LEMMA ForwardDecides ==
    ASSUME StepInv, RunForward
    PROVE  \E s \in DOMAIN batches : Forward!Decide(s)
<1>0. PICK n \in DOMAIN batches : n = device[1].step
  BY HeadForward DEF RunForward
<1>1. PICK m \in Nat :
        /\ m = device[1].tokens /\ m =< MaxTokens /\ m >= Len(batches[n])
        /\ n \in DOMAIN results /\ results[n] = NoResult
        /\ \A l \in Layers : StagedFor(l, n)
        /\ phase = "idle" => n = Len(batches)
        /\ phase # "idle" => n = Len(batches) - 1
  BY <1>0, HeadForward DEF RunForward
<1> DEFINE res == [kind |-> "computed",
                   rows |-> [l \in Layers |-> SubSeq(staged[l], 1, m)]]
<1>2. results' = [results EXCEPT ![n] = res] /\ batches' = batches
  BY <1>0, <1>1, HeadForward DEF RunForward
<1>3. /\ results \in Seq(Results) /\ batches \in Seq(Batches) /\ Len(results) = Len(batches)
      /\ Stepping
  BY DEF StepInv, RunnerInv, Stepping
<1>4. Outcomes[n] = Forward!Undecided
  BY <1>1 DEF Outcomes, Outcome, NoResult, Forward!Undecided
<1>5. \A s \in 1 .. n - 1 : Outcomes[s] # Forward!Undecided
  <2> SUFFICES ASSUME NEW s \in 1 .. n - 1 PROVE Outcomes[s] # Forward!Undecided
    OBVIOUS
  <2>1. s \in DOMAIN results /\ s # n /\ s # Len(batches)
    BY <1>1, <1>3
  <2>2. results[s].kind # "none"
    BY <1>0, <2>1 DEF StepInv, RunnerInv, OthersDecided, Step
  <2>3. Outcomes[s].kind # "none"
    BY <2>1, <2>2 DEF Outcomes, Outcome
  <2>4. QED  BY <2>3 DEF Forward!Undecided
<1>6. [l \in Layers |-> SubSeq(res.rows[l], 1, Len(batches[n]))] = Rows(batches[n])
  <2>1. \A l \in Layers : SubSeq(SubSeq(staged[l], 1, m), 1, Len(batches[n])) = Rows(batches[n])[l]
    BY <1>1, <1>3, StagedRows
  <2>2. [l \in Layers |-> Rows(batches[n])[l]] = Rows(batches[n])
    BY DEF Rows
  <2>3. QED  BY <2>1, <2>2
<1>7. Outcome(n)' = Forward!Computed(batches[n])
  <2>1. results'[n] = res /\ res.kind = "computed"
    BY <1>1, <1>2, <1>3
  <2> HIDE DEF res
  <2>2. Outcome(n)' = [kind |-> "computed", rows |-> Rows(batches[n])]
    BY <1>2, <1>6, <2>1 DEF Outcome
  <2>3. QED  BY <2>2 DEF Forward!Computed
<1>8. [s \in DOMAIN results' |-> Outcome(s)'] =
        [Outcomes EXCEPT ![n] = Forward!Computed(batches[n])]
  <2>1. DOMAIN results' = DOMAIN results
    BY <1>2
  <2>2. \A s \in DOMAIN results \ {n} : results'[s] = results[s]
    BY <1>2
  <2>3. \A s \in DOMAIN results \ {n} : Outcome(s)' = Outcome(s)
    BY <1>2, <2>2 DEF Outcome
  <2>4. QED  BY <1>1, <1>7, <2>1, <2>3 DEF Outcomes
<1>9. Forward!Decide(n)
  BY <1>2, <1>4, <1>5, <1>8 DEF Forward!Decide, Outcomes
<1>10. QED  BY <1>0, <1>9

LEMMA StepMaps ==
    ASSUME StepInv, [StepNext]_stepVars
    PROVE  [Forward!ContractNext]_Forward!contractVars
<1>1. LookupInv'
  BY LookupKeeps
<1>2. CASE BeginStep
  BY <1>2, BeginMaps DEF Forward!ContractNext
<1>3. CASE RunForward
  BY <1>3, ForwardDecides DEF Forward!ContractNext
<1>4. ASSUME NEW kind \in {"skipped", "failed"}, GiveUp(kind), phase # "idle", batches' = batches
      PROVE  Forward!ContractNext
  BY <1>4, GiveUpDecides DEF Forward!ContractNext
<1>5. CASE Skip
  BY <1>4, <1>5 DEF Skip
<1>6. CASE PrefetchLayer \/ LookupLayer \/ VerifyLayer \/ Launch \/ ReadStep \/ Finished
           \/ UNCHANGED stepVars
  BY <1>6, Unseen DEF PrefetchLayer, LookupLayer, VerifyLayer, Launch, ReadStep, Finished,
     stepVars, runnerVars
<1>7. CASE LandLayer
  BY <1>4, <1>7, Unseen DEF LandLayer
<1>8. CASE CompareLayer
  <2>1. results' = results \/ GiveUp("failed")
    BY <1>1, <1>8, SameRows DEF CompareLayer
  <2>2. QED  BY <1>4, <1>8, <2>1, Unseen DEF CompareLayer
<1>9. QED
  BY <1>2, <1>3, <1>5, <1>6, <1>7, <1>8 DEF StepNext, RunnerStep

\* With or without the stager, for any layers, batches, paddings and numbers
\* of steps, reads that fail included: a step's forward is computed with the
\* rows of its own tokens in every layer and in its turn, or the step is
\* given up for the reasons the contract allows.  The comparison of
\* _verify_staged (vlspeed-prestage.py) never raises.
THEOREM ForwardImplements == StepSpec => KeepsForwardContract
<1>1. StepInv /\ [StepNext]_stepVars => [Forward!ContractNext]_Forward!contractVars
  BY StepMaps
<1>2. QED
  BY InitMaps, <1>1, StepInvariance, PTL DEF StepSpec, KeepsForwardContract, Forward!ContractSafety
=============================================================================
