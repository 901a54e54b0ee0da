-------------------------- MODULE EngramLookupInv --------------------------
(***************************************************************************)
(* The inductive invariant of EngramLookup: whose rows a read holds and    *)
(* which reads a lookup has still to wait for.                             *)
(***************************************************************************)
EXTENDS EngramLookup

Statuses == {"running", "done", "failed"}
RowBlocks == [1 .. OwnCols -> Layers \X Nat \X Nat]
Readings == [key : Keys, status : Statuses,
             rows : Seq(RowBlocks)]
Calls == [at : {"idle", "prefetched", "own"}, ids : Seq(Nat), key : Keys,
          read : Nat, awaited : SUBSET Nat]

Shape ==
    /\ buffer \in [Layers -> Seq(Nat)]
    /\ capturing \in BOOLEAN
    /\ halves \in [Layers -> SUBSET Fields]
    /\ loaded \in [Layers -> BOOLEAN]
    /\ pending \in [Layers -> [read : Nat, key : Keys]]
    /\ reads \in [Layers -> Seq(Readings)]
    /\ call \in [Layers -> Calls]
    /\ DOMAIN answer = Layers

\* An outstanding prefetch is newer than any read waited for, and its key is
\* a copy, the key its gather reads by.
PendingOwn(l) ==
    pending[l].read # 0 =>
        /\ pending[l].read \in call[l].read + 1 .. Len(reads[l])
        /\ pending[l].key.copied
        /\ reads[l][pending[l].read].key = pending[l].key

\* In a lookup the client does not refill its buffer, prefetch or begin a
\* capture.
CallCurrent(l) ==
    /\ call[l].read =< Len(reads[l])
    /\ call[l].at # "idle" =>
         /\ ~capturing /\ pending[l].read = 0
         /\ call[l].ids = buffer[l]
         /\ call[l].read \in DOMAIN reads[l]
         /\ reads[l][call[l].read].key = call[l].key
         /\ call[l].key.copied <=> call[l].at = "prefetched"

\* A finished read holds the rows of its key; that of a key not copied, the
\* rows of the lookup that waits for it.
RowsOfKey(l) ==
    \A i \in DOMAIN reads[l] : reads[l][i].status = "done" =>
        /\ reads[l][i].key.copied => reads[l][i].rows = Gathered(l, reads[l][i].key.ids)
        /\ (call[l].at = "own" /\ call[l].read = i) => reads[l][i].rows = Gathered(l, buffer[l])

\* Of the reads a lookup waited for all but the last have succeeded.
AwaitedInOrder(l) ==
    call[l].at # "idle" =>
        /\ call[l].read \in call[l].awaited
        /\ \A i \in call[l].awaited \ {call[l].read} :
             i \in DOMAIN reads[l] /\ reads[l][i].status = "done"

AnswerRight(l) ==
    /\ answer[l].status \in {"none", "ok", "refused", "raised"}
    /\ answer[l].status = "ok" =>
         /\ answer[l].rows = Asked(l, answer[l].ids)
         /\ \A i \in answer[l].awaited : i \in DOMAIN reads[l] /\ reads[l][i].status = "done"
    /\ answer[l].status = "raised" =>
         \E i \in answer[l].awaited : i \in DOMAIN reads[l] /\ reads[l][i].status = "failed"

LayerInv(l) ==
    PendingOwn(l) /\ CallCurrent(l) /\ RowsOfKey(l) /\ AwaitedInOrder(l) /\ AnswerRight(l)

LookupInv == Shape /\ \A l \in Layers : LayerInv(l)
=============================================================================
