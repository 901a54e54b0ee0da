---------------------------- MODULE EngramLookup ----------------------------
(***************************************************************************)
(* ParallelEngramEmbedding with its table on disk, as patched by           *)
(* src/dsv41/patch/engram-disk-table.patch: the two halves of a shard, the *)
(* prefetch of a step's rows and the lookup that takes them or reads for   *)
(* itself.                                                                 *)
(*                                                                         *)
(* One client thread calls the modules of all layers; each layer has its   *)
(* own table, whose executor runs the gathers submitted to it.  What a     *)
(* gather does inside is ReadPool's; here it ends, in its rows or in an    *)
(* error.  Ids are abstract and a row is named by layer, id and column.    *)
(***************************************************************************)
EXTENDS Integers, Sequences, FiniteSets

CONSTANTS
    Layers,      \* the engram layers, one module and one table each
    IdBlocks,    \* id blocks a client may fill its buffer with: sequences
    OwnCols,     \* hash columns this rank has heads for
    PartCols,    \* hash columns of the rectangular all-gather
    JobThreads,  \* threads of the executor `_jobs`
    FaultyReads, \* TRUE when a gather may end in an error
    MaxReads     \* bound on the gathers a layer is asked for

ASSUME ShapeAssumption ==
    /\ \A ids \in IdBlocks : ids \in Seq(Nat)
    /\ PartCols \in Nat \ {0}
    /\ OwnCols \in 0 .. PartCols
    /\ 0 \notin Layers

ASSUME LookupBoundsAssumption ==
    JobThreads \in Nat \ {0} /\ MaxReads \in Nat /\ FaultyReads \in BOOLEAN

Fields == {"weight", "scale"}

Row(l, id, col) == <<l, id, col>>
Zero == <<0, 0, 0>>

\* The block of rows a gather of `ids` returns: the columns of this rank.
Gathered(l, ids) ==
    [k \in DOMAIN ids |-> [col \in 1 .. OwnCols |-> Row(l, ids[k], col)]]

\* The missing columns are padded with zeros, to keep it rectangular.
Padded(rows) ==
    [k \in DOMAIN rows |->
        [col \in 1 .. PartCols |-> IF col =< OwnCols THEN rows[k][col] ELSE Zero]]

Zeroed(ids) == [k \in DOMAIN ids |-> [col \in 1 .. PartCols |-> Zero]]

\* What a lookup of `ids` is asked for.
Asked(l, ids) ==
    [k \in DOMAIN ids |->
        [col \in 1 .. PartCols |-> IF col =< OwnCols THEN Row(l, ids[k], col) ELSE Zero]]

VARIABLES
    buffer,     \* per layer: the id block the client holds
    capturing,  \* the stream of the client is being captured
    halves,     \* `_staged`: the halves of the shard that have arrived
    loaded,     \* `_table` is not None
    pending,    \* `_pending`: its key and the number of its gather
    reads,      \* the gathers submitted to the table, in order
    call,       \* the client's progress in `lookup`
    answer      \* what the last lookup returned or raised

tableVars == <<halves, loaded>>
vars == <<buffer, capturing, tableVars, pending, reads, call, answer>>

NoKey == [copied |-> TRUE, ids |-> <<>>]
NoPending == [read |-> 0, key |-> NoKey]
NoCall == [at |-> "idle", ids |-> <<>>, key |-> NoKey, read |-> 0, awaited |-> {}]
NoAnswer == [status |-> "none", ids |-> <<>>, rows |-> <<>>, awaited |-> {}]

\* A module that no call has used yet.
Unused ==
    /\ buffer = [l \in Layers |-> <<>>]
    /\ capturing = FALSE
    /\ halves = [l \in Layers |-> {}]
    /\ pending = [l \in Layers |-> NoPending]
    /\ reads = [l \in Layers |-> <<>>]
    /\ call = [l \in Layers |-> NoCall]
    /\ answer = [l \in Layers |-> NoAnswer]

Init == Unused /\ loaded = [l \in Layers |-> FALSE]

\* The client is one thread: it starts nothing while a lookup blocks it.
ClientFree == \A l \in Layers : call[l].at = "idle"

\* A key made without a copy shows whatever the buffer holds by now.
KeyIds(l, key) == IF key.copied THEN key.ids ELSE buffer[l]

\* `.to("cpu")` without copy hands back the client's own storage.
Aliased(l) == [copied |-> FALSE, ids |-> buffer[l]]

\* The key of a prefetch is a copy (line 727).
PrefetchKey(l) == [copied |-> TRUE, ids |-> buffer[l]]

Submitted(l, key) == Append(reads[l], [key |-> key, status |-> "running", rows |-> <<>>])

NoLocalCols(l) == OwnCols = 0 \/ buffer[l] = <<>>

-----------------------------------------------------------------------------
\* One half of the shard arrives; the second to arrive builds the row file
\* and opens the table on it.  A checkpoint is loaded once.
StageShard(l, field) ==
    /\ ClientFree
    /\ ~loaded[l]
    /\ LET both == halves[l] \cup {field} = Fields
       IN  /\ loaded' = [loaded EXCEPT ![l] = both]
           /\ halves' = [halves EXCEPT ![l] = IF both THEN {} ELSE @ \cup {field}]
    /\ UNCHANGED <<buffer, capturing, pending, reads, call, answer>>

\* The client refills its id buffer in place.
Refill(l) ==
    /\ ClientFree
    /\ \E ids \in IdBlocks \ {buffer[l]} : buffer' = [buffer EXCEPT ![l] = ids]
    /\ UNCHANGED <<capturing, tableVars, pending, reads, call, answer>>

\* The client begins or ends a graph capture.
SwitchCapture ==
    /\ ClientFree
    /\ capturing' = ~capturing
    /\ UNCHANGED <<buffer, tableVars, pending, reads, call, answer>>

\* (Mutant) a disk call is not refused under capture.
NeverRefused(l) == ~loaded[l]

\* Both calls raise before they touch anything: the assertion on the table,
\* then _refuse_capture.
Refused(l) == ~loaded[l] \/ capturing

\* prefetch(): no column to read leaves an earlier prefetch in place.
Prefetch(l) ==
    /\ ClientFree
    /\ ~Refused(l)
    /\ ~NoLocalCols(l)
    /\ Len(reads[l]) < MaxReads
    /\ reads' = [reads EXCEPT ![l] = Submitted(l, PrefetchKey(l))]
    /\ pending' = [pending EXCEPT ![l] = [read |-> Len(reads[l]) + 1, key |-> PrefetchKey(l)]]
    /\ UNCHANGED <<buffer, capturing, tableVars, call, answer>>

CancelPrefetch(l) ==
    /\ ClientFree
    /\ pending' = [pending EXCEPT ![l] = NoPending]
    /\ UNCHANGED <<buffer, capturing, tableVars, reads, call, answer>>

-----------------------------------------------------------------------------
Answer(l, status, ids, rows, awaited) ==
    answer' = [answer EXCEPT ![l] =
        [status |-> status, ids |-> ids, rows |-> rows, awaited |-> awaited]]

\* Without an id lookup() returns before anything else, an outstanding
\* prefetch included; a rank without heads has nothing on disk.
LookupNothing(l) ==
    /\ ClientFree
    /\ NoLocalCols(l)
    /\ buffer[l] # <<>> => ~Refused(l)
    /\ Answer(l, "ok", buffer[l], Zeroed(buffer[l]), {})
    /\ UNCHANGED <<buffer, capturing, tableVars, pending, reads, call>>

LookupRefused(l) ==
    /\ ClientFree
    /\ buffer[l] # <<>>
    /\ Refused(l)
    /\ Answer(l, "refused", buffer[l], <<>>, {})
    /\ UNCHANGED <<buffer, capturing, tableVars, pending, reads, call>>

LookupReads(l) ==
    /\ ClientFree
    /\ ~Refused(l)
    /\ ~NoLocalCols(l)

\* (Mutant) an entry taken is left in place.
EntryKept(l) == pending[l]

\* The entry is popped, matched or not (line 747).
AfterTake(l) == NoPending

\* (Mutant) the lookup takes an entry that is not there.
TakeNothing(l) ==
    /\ LookupReads(l)
    /\ call' = [call EXCEPT ![l] =
                  [at |-> "prefetched", ids |-> buffer[l], key |-> pending[l].key,
                   read |-> pending[l].read, awaited |-> {pending[l].read}]]
    /\ UNCHANGED <<buffer, capturing, tableVars, pending, reads, answer>>

\* With an outstanding prefetch the lookup waits for it, whatever its ids.
LookupTakes(l) ==
    /\ LookupReads(l)
    /\ pending[l].read # 0
    /\ pending' = [pending EXCEPT ![l] = AfterTake(l)]
    /\ call' = [call EXCEPT ![l] =
                  [at |-> "prefetched", ids |-> buffer[l], key |-> pending[l].key,
                   read |-> pending[l].read, awaited |-> {pending[l].read}]]
    /\ UNCHANGED <<buffer, capturing, tableVars, reads, answer>>

\* gather() of the lookup's own columns, which are not copied.
OwnRead(l, awaited) ==
    /\ reads' = [reads EXCEPT ![l] = Submitted(l, Aliased(l))]
    /\ call' = [call EXCEPT ![l] =
                  [at |-> "own", ids |-> buffer[l], key |-> Aliased(l),
                   read |-> Len(reads[l]) + 1,
                   awaited |-> awaited \cup {Len(reads[l]) + 1}]]

LookupOwn(l) ==
    /\ LookupReads(l)
    /\ pending[l].read = 0
    /\ Len(reads[l]) < MaxReads
    /\ OwnRead(l, {})
    /\ UNCHANGED <<buffer, capturing, tableVars, pending, answer>>

\* Matched on the ids themselves (lines 755-758).
Matches(l) == KeyIds(l, call[l].key) = call[l].ids

Awaited(l) == reads[l][call[l].read]

EndLookup(l, status, rows) ==
    /\ Answer(l, status, call[l].ids, rows, call[l].awaited)
    /\ call' = [call EXCEPT ![l].at = "idle"]

ServePrefetched(l) ==
    /\ call[l].at = "prefetched"
    /\ Awaited(l).status = "done"
    /\ Matches(l)
    /\ EndLookup(l, "ok", Padded(Awaited(l).rows))
    /\ UNCHANGED <<buffer, capturing, tableVars, pending, reads>>

\* Read for other ids: the lookup reads for itself.
FallBack(l) ==
    /\ call[l].at = "prefetched"
    /\ Awaited(l).status = "done"
    /\ ~Matches(l)
    /\ OwnRead(l, call[l].awaited)
    /\ UNCHANGED <<buffer, capturing, tableVars, pending, answer>>

ServeOwn(l) ==
    /\ call[l].at = "own"
    /\ Awaited(l).status = "done"
    /\ EndLookup(l, "ok", Padded(Awaited(l).rows))
    /\ UNCHANGED <<buffer, capturing, tableVars, pending, reads>>

\* (Mutant) the error of a prefetch makes the lookup read for itself.
ErrorOfPrefetchDropped(l) ==
    \/ /\ call[l].at = "own"
       /\ Awaited(l).status = "failed"
       /\ EndLookup(l, "raised", <<>>)
       /\ UNCHANGED <<buffer, capturing, tableVars, pending, reads>>
    \/ /\ call[l].at = "prefetched"
       /\ Awaited(l).status = "failed"
       /\ OwnRead(l, call[l].awaited)
       /\ UNCHANGED <<buffer, capturing, tableVars, pending, answer>>

\* (Mutant) a wait for a failed gather polls for its rows.
PollsForRows(l) ==
    /\ call[l].at # "idle"
    /\ Awaited(l).status = "failed"
    /\ UNCHANGED vars

\* wait() raises what the gather raised, also for ids nobody asks for now.
LookupRaises(l) ==
    /\ call[l].at # "idle"
    /\ Awaited(l).status = "failed"
    /\ EndLookup(l, "raised", <<>>)
    /\ UNCHANGED <<buffer, capturing, tableVars, pending, reads>>

-----------------------------------------------------------------------------
\* The executor starts gathers in order; as many are under way as it has
\* threads, and the pool below may finish either of them first.
Unfinished(l) == {i \in DOMAIN reads[l] : reads[l][i].status = "running"}
UnderWay(l) ==
    {i \in Unfinished(l) : Cardinality({j \in Unfinished(l) : j < i}) < JobThreads}

ReadEnds(l, i, status, rows) ==
    /\ i \in UnderWay(l)
    /\ reads' = [reads EXCEPT ![l][i].status = status, ![l][i].rows = rows]
    /\ UNCHANGED <<buffer, capturing, tableVars, pending, call, answer>>

ReadDone(l, i) == ReadEnds(l, i, "done", Gathered(l, KeyIds(l, reads[l][i].key)))
ReadError(l, i) == FaultyReads /\ ReadEnds(l, i, "failed", <<>>)

-----------------------------------------------------------------------------
LookupBegins(l) ==
    \/ LookupNothing(l) \/ LookupRefused(l)
    \/ LookupTakes(l) \/ LookupOwn(l)

LookupGoesOn(l) ==
    \/ ServePrefetched(l) \/ FallBack(l) \/ ServeOwn(l) \/ LookupRaises(l)

TableStep(l) == \E i \in DOMAIN reads[l] : ReadDone(l, i) \/ ReadError(l, i)

Next ==
    \/ SwitchCapture
    \/ \E l \in Layers :
         \/ \E field \in Fields : StageShard(l, field)
         \/ Refill(l) \/ Prefetch(l) \/ CancelPrefetch(l)
         \/ LookupBegins(l) \/ LookupGoesOn(l) \/ TableStep(l)

Spec == Init /\ [][Next]_vars

\* A gather that was submitted ends (ReadPool's Settles), and the client's
\* thread goes on when what it waits for is there.
Fairness ==
    \A l \in Layers : WF_vars(LookupGoesOn(l)) /\ WF_vars(TableStep(l))

FairSpec == Spec /\ Fairness

-----------------------------------------------------------------------------
Keys == [copied : BOOLEAN, ids : Seq(Nat)]

TypeOK ==
    /\ buffer \in [Layers -> Seq(Nat)]
    /\ capturing \in BOOLEAN
    /\ halves \in [Layers -> SUBSET Fields]
    /\ loaded \in [Layers -> BOOLEAN]
    /\ pending \in [Layers -> [read : Nat, key : Keys]]
    /\ \A l \in Layers :
         /\ pending[l].read \in 0 .. Len(reads[l])
         /\ \A i \in DOMAIN reads[l] :
              /\ reads[l][i].key \in Keys
              /\ reads[l][i].status \in {"running", "done", "failed"}
         /\ call[l].at \in {"idle", "prefetched", "own"}
         /\ call[l].at # "idle" => call[l].read \in DOMAIN reads[l]
         /\ answer[l].status \in {"none", "ok", "refused", "raised"}

\* A lookup that returns has exactly the rows of the ids it was asked for,
\* although its read may have run ahead, for ids in a buffer that has been
\* refilled since (lines 723-726, 755-757).
ServesAsked ==
    \A l \in Layers :
        answer[l].status = "ok" => answer[l].rows = Asked(l, answer[l].ids)

\* A lookup raises exactly when a read it waited for failed: no error is
\* taken for an absent prefetch, and none is made up.
AwaitedFailuresRaised ==
    \A l \in Layers :
        /\ answer[l].status = "ok" =>
             \A i \in answer[l].awaited : reads[l][i].status = "done"
        /\ answer[l].status = "raised" =>
             \E i \in answer[l].awaited : reads[l][i].status = "failed"

\* No read is waited for by two lookups: a prefetch is used or dropped by the
\* first lookup after it, so its error is raised once and its rows are not
\* compared with a later step's ids (lines 743-745).
ReadsAwaitedOnce ==
    [][\A l \in Layers :
         (call'[l].at # "idle" /\ call'[l] # call[l]) => call'[l].read > call[l].read]_vars

\* While the stream is being captured no read is started: a graph never
\* records the rows of the ids of its capture (lines 680-684).
NothingReadUnderCapture ==
    [][capturing => \A l \in Layers : Len(reads'[l]) = Len(reads[l])]_vars

\* Every lookup ends, abandoned reads ahead of it and failures included.
LookupsEnd == \A l \in Layers : call[l].at # "idle" ~> call[l].at = "idle"
=============================================================================
