------------------------------ MODULE ReadPool ------------------------------
(***************************************************************************)
(* The read pool of src/dsv41/patch/engram_disk.py (class _ReadPool) under *)
(* the executor threads that run DiskEngramTable._gather.                  *)
(*                                                                         *)
(* A gather fills a zeroed buffer with the rows a rank owns.  The calling  *)
(* thread publishes the gather, wakes as many pool workers as there are    *)
(* other slices, reads the first slice itself and waits for the tally of   *)
(* the workers.  A worker claims its slice when it wakes.                  *)
(*                                                                         *)
(* One action is one step of one thread between two accesses to shared     *)
(* state that another thread could slip between.  Bytes are abstracted to  *)
(* the row they come from.                                                 *)
(***************************************************************************)
EXTENDS Integers, FiniteSets

CONSTANTS
    Callers,        \* threads of the executor `_jobs`
    Workers,        \* the pool's own threads, `_workers`
    NoCaller,       \* the value of `busy` while `_busy` is free
    Requests,       \* the gathers that may be asked for: [n, owned]
    MaxGathers,     \* bound on the number of gathers of a behaviour
    Direct,         \* TRUE when the file is open with O_DIRECT
    FaultyThreads,  \* threads whose preadv may raise OSError
    MayClose        \* TRUE when the table may be closed

Threads == Callers \cup Workers

ASSUME ThreadsAssumption ==
    /\ IsFiniteSet(Workers)
    /\ Callers \cap Workers = {}
    /\ NoCaller \notin Threads
    /\ FaultyThreads \subseteq Threads

\* _gather returns before the pool when there is no row (line 215), so a
\* request has at least one.
ASSUME RequestsAssumption ==
    \A r \in Requests : /\ r.n \in Nat \ {0}
                        /\ r.owned \subseteq 0 .. r.n - 1

ASSUME BoundsAssumption ==
    /\ MaxGathers \in Nat
    /\ Direct \in BOOLEAN
    /\ MayClose \in BOOLEAN

-----------------------------------------------------------------------------
(* Rows and slices.                                                        *)

\* The content of row k of the gather `id`; Zero is what bytearray() holds.
Row(id, k) == <<id, k>>
Zero == <<0, 0>>

NoJob == [id |-> 0, n |-> 0, owned |-> {}]
NoLocals == [job |-> NoJob, k |-> 0, hi |-> 0]

MinOf(a, b) == IF a =< b THEN a ELSE b

\* A gather is cut in one slice for every thread, never more than its rows.
Parts(n) == MinOf(Cardinality(Workers) + 1, n)
Helpers(n) == Parts(n) - 1

StepOf(n) == (n + Parts(n) - 1) \div Parts(n)

Expected(r) == [k \in 0 .. r.n - 1 |->
                    IF k \in r.owned THEN Row(r.id, k) ELSE Zero]

VARIABLES
    pc,       \* where each thread is
    calls,    \* gathers asked for so far; numbers them
    req,      \* per caller: the arguments of its gather
    out,      \* per caller: what its last gather returned or raised
    busy,     \* the holder of `_busy`
    job,      \* `_job`, with `dst` split off
    dst,      \* the result buffer of the published job
    step,     \* `_step`
    claim,    \* the next value of `_claim`
    left,     \* `_left`
    error,    \* `_error` is not None
    done,     \* `_done` is set
    go,       \* permits of the semaphore `_go`
    toWake,   \* per caller: permits it has yet to release (line 302)
    part,     \* per thread: the argument of `_slice`
    loc,      \* per thread: locals of `_slice`: its job, next row, last row
    buf,      \* per thread: the row its scratch buffer holds
    closer,   \* progress of DiskEngramTable.close
    faults    \* the gathers one of whose reads failed

callVars == <<calls, req, out>>
runVars == <<busy, job, dst, step, claim, toWake>>
syncVars == <<left, error, done, go>>
sliceVars == <<part, loc, buf>>
vars == <<pc, callVars, runVars, syncVars, sliceVars, closer, faults>>

Jobs == [id : Nat, n : Nat, owned : SUBSET Nat]
Cells == Nat \X Nat

CallerPCs == {"idle", "queued", "publish", "clear", "wake", "slice", "rows",
              "copy", "wait"}
WorkerPCs == {"parked", "awake", "slice", "rows", "copy", "tally", "exited"}

Init ==
    /\ pc = [t \in Threads |-> IF t \in Callers THEN "idle" ELSE "parked"]
    /\ calls = 0
    /\ req = [c \in Callers |-> NoJob]
    /\ out = [c \in Callers |-> [status |-> "none", job |-> NoJob, rows |-> <<>>]]
    /\ busy = NoCaller
    /\ job = NoJob
    /\ dst = [k \in 0 .. NoJob.n - 1 |-> Zero]
    /\ step = 1
    /\ claim = 1
    /\ left = 0
    /\ error = FALSE
    /\ done = FALSE
    /\ go = 0
    /\ toWake = [c \in Callers |-> 0]
    /\ part = [t \in Threads |-> 0]
    /\ loc = [t \in Threads |-> NoLocals]
    /\ buf = [t \in Threads |-> Zero]
    /\ closer = "open"
    /\ faults = {}

GoTo(t, where) == pc' = [pc EXCEPT ![t] = where]
Stopped == closer # "open"
FdOpen == closer # "closed"

-----------------------------------------------------------------------------
(* run(), up to the first slice.                                           *)

\* An executor thread takes a submitted gather: _gather computes the owned
\* rows and allocates the zeroed result.
Call(c) ==
    /\ pc[c] = "idle"
    /\ calls < MaxGathers
    /\ calls' = calls + 1
    /\ \E r \in Requests :
         req' = [req EXCEPT ![c] = [id |-> calls + 1, n |-> r.n, owned |-> r.owned]]
    /\ GoTo(c, "queued")
    /\ UNCHANGED <<out, runVars, syncVars, sliceVars, closer, faults>>

AcquireBusy(c) ==
    /\ pc[c] = "queued"
    /\ busy = NoCaller
    /\ busy' = c
    /\ GoTo(c, "publish")
    /\ UNCHANGED <<callVars, job, dst, step, claim, toWake, syncVars,
                   sliceVars, closer, faults>>

\* (Mutant) one row too many.
FreshTooLong(n) == [k \in 0 .. n |-> Zero]

\* The result is a new zeroed bytearray (line 233).
Fresh(n) == [k \in 0 .. n - 1 |-> Zero]

\* (Mutant) the error of an earlier gather is kept.
ErrorKept == error

\* The error of an earlier gather is forgotten (line 299).
ErrorAtStart == FALSE

\* (Mutant) the workers may claim the caller's slice.
FirstClaimZero == 0

\* The counter the claims are drawn from is new for each gather and starts
\* at 1: slice 0 is the caller's.
FirstClaim == 1

\* _left and _error are written without `_tally`.
Publish(c) ==
    /\ pc[c] = "publish"
    /\ job' = req[c]
    /\ dst' = Fresh(req[c].n)
    /\ step' = StepOf(req[c].n)
    /\ claim' = FirstClaim
    /\ left' = Helpers(req[c].n)
    /\ error' = ErrorAtStart
    /\ GoTo(c, IF Helpers(req[c].n) > 0 THEN "clear" ELSE "slice")
    /\ UNCHANGED <<callVars, busy, toWake, done, go, sliceVars, closer, faults>>

ClearDone(c) ==
    /\ pc[c] = "clear"
    /\ done' = FALSE
    /\ toWake' = [toWake EXCEPT ![c] = Helpers(req[c].n)]
    /\ GoTo(c, "wake")
    /\ UNCHANGED <<callVars, busy, job, dst, step, claim, left, error, go,
                   sliceVars, closer, faults>>

ReleaseOne(c) ==
    /\ pc[c] = "wake"
    /\ go' = go + 1
    /\ toWake' = [toWake EXCEPT ![c] = @ - 1]
    /\ GoTo(c, IF toWake[c] = 1 THEN "slice" ELSE "wake")
    /\ UNCHANGED <<callVars, busy, job, dst, step, claim, left, error, done,
                   sliceVars, closer, faults>>

-----------------------------------------------------------------------------
(* _loop(), around the slice.                                              *)

WorkerWakes(w) ==
    /\ pc[w] = "parked"
    /\ go > 0
    /\ go' = go - 1
    /\ GoTo(w, "awake")
    /\ UNCHANGED <<callVars, runVars, left, error, done, sliceVars, closer, faults>>

\* A worker woken by close() leaves without touching the tally.
WorkerStops(w) ==
    /\ pc[w] = "awake"
    /\ Stopped
    /\ GoTo(w, "exited")
    /\ UNCHANGED <<callVars, runVars, syncVars, sliceVars, closer, faults>>

\* The slice is claimed on waking, not owned by thread identity.
ClaimedPart(w) == claim

WorkerClaims(w) ==
    /\ pc[w] = "awake"
    /\ ~Stopped
    /\ part' = [part EXCEPT ![w] = ClaimedPart(w)]
    /\ claim' = claim + 1
    /\ GoTo(w, "slice")
    /\ UNCHANGED <<callVars, busy, job, dst, step, toWake, syncVars, loc, buf,
                   closer, faults>>

\* (Mutant) the count is tested before it is taken down.
TallyTestedFirst(w) ==
    /\ pc[w] = "tally"
    /\ left' = left - 1
    /\ done' = (done \/ left = 0)
    /\ GoTo(w, "parked")
    /\ UNCHANGED <<callVars, runVars, error, go, sliceVars, closer, faults>>

\* The `finally` of the loop: under `_tally`, so one step among workers.
Tally(w) ==
    /\ pc[w] = "tally"
    /\ left' = left - 1
    /\ done' = (done \/ left = 1)
    /\ GoTo(w, "parked")
    /\ UNCHANGED <<callVars, runVars, error, go, sliceVars, closer, faults>>

-----------------------------------------------------------------------------
(* _slice(), run by callers and workers alike.                             *)

BeginSlice(t) ==
    /\ pc[t] = "slice"
    /\ LET lo == part[t] * step
       IN  loc' = [loc EXCEPT ![t] =
                     [job |-> job, k |-> lo, hi |-> MinOf(lo + step, job.n)]]
    /\ GoTo(t, "rows")
    /\ UNCHANGED <<callVars, runVars, syncVars, part, buf, closer, faults>>

AtRow(t) == pc[t] = "rows" /\ loc[t].k < loc[t].hi
NextRow(t) == loc' = [loc EXCEPT ![t].k = @ + 1]

\* `start` is -1 for a row this rank does not own.
SkipRow(t) ==
    /\ AtRow(t)
    /\ loc[t].k \notin loc[t].job.owned
    /\ NextRow(t)
    /\ UNCHANGED <<pc, callVars, runVars, syncVars, part, buf, closer, faults>>

\* A thread that is still on an earlier gather writes to that gather's
\* buffer, which its caller has let go of.
Store(t, cell) ==
    dst' = IF loc[t].job.id = job.id THEN [dst EXCEPT ![loc[t].k] = cell] ELSE dst

\* (Mutant) one scratch buffer for the pool.
SharedScratch(t) == CHOOSE w \in Workers : TRUE

\* The scratch buffer is thread-local.
ScratchOf(t) == t

\* O_DIRECT: the block lands in the scratch buffer first.
ReadBlock(t) ==
    /\ Direct
    /\ AtRow(t)
    /\ loc[t].k \in loc[t].job.owned
    /\ FdOpen
    /\ buf' = [buf EXCEPT ![ScratchOf(t)] = Row(loc[t].job.id, loc[t].k)]
    /\ GoTo(t, "copy")
    /\ UNCHANGED <<callVars, runVars, syncVars, part, loc, closer, faults>>

CopyRow(t) ==
    /\ pc[t] = "copy"
    /\ Store(t, buf[ScratchOf(t)])
    /\ NextRow(t)
    /\ GoTo(t, "rows")
    /\ UNCHANGED <<callVars, busy, job, step, claim, toWake, syncVars, part,
                   buf, closer, faults>>

\* Buffered: the row lands in the result.
ReadInPlace(t) ==
    /\ ~Direct
    /\ AtRow(t)
    /\ loc[t].k \in loc[t].job.owned
    /\ FdOpen
    /\ Store(t, Row(loc[t].job.id, loc[t].k))
    /\ NextRow(t)
    /\ UNCHANGED <<pc, callVars, busy, job, step, claim, toWake, syncVars,
                   part, buf, closer, faults>>

\* preadv raises: the thread is one whose reads may fail, or close() has
\* taken the descriptor away.
ReadFails(t) ==
    /\ AtRow(t)
    /\ loc[t].k \in loc[t].job.owned
    /\ t \in FaultyThreads \/ ~FdOpen
    /\ faults' = faults \cup {loc[t].job.id}
    /\ loc' = [loc EXCEPT ![t] = NoLocals]

\* (Mutant) the error of a worker is dropped.
WorkerSwallowsError(w) ==
    /\ ReadFails(w)
    /\ GoTo(w, "tally")
    /\ UNCHANGED <<callVars, runVars, syncVars, part, buf, closer>>

\* In a worker the loop's `except` keeps the error for the caller.
WorkerReadFails(w) ==
    /\ ReadFails(w)
    /\ error' = TRUE
    /\ GoTo(w, "tally")
    /\ UNCHANGED <<callVars, runVars, left, done, go, part, buf, closer>>

Finish(c, status, rows) ==
    /\ out' = [out EXCEPT ![c] = [status |-> status, job |-> req[c], rows |-> rows]]
    /\ busy' = NoCaller
    /\ GoTo(c, "idle")

\* In the caller it leaves run() from line 304: `_busy` is released and the
\* workers are not waited for.
CallerReadFails(c) ==
    /\ ReadFails(c)
    /\ Finish(c, "raised", <<>>)
    /\ UNCHANGED <<calls, req, job, dst, step, claim, toWake, syncVars, part,
                   buf, closer>>

EndSlice(t) ==
    /\ pc[t] = "rows"
    /\ loc[t].k >= loc[t].hi
    /\ loc' = [loc EXCEPT ![t] = NoLocals]
    /\ GoTo(t, IF t \in Callers THEN "wait" ELSE "tally")
    /\ UNCHANGED <<callVars, runVars, syncVars, part, buf, closer, faults>>

-----------------------------------------------------------------------------
(* run(), from the wait on.                                                *)

\* (Mutant) the caller does not wait.
HelpersNotAwaited(c) == TRUE

HelpersDone(c) == Helpers(req[c].n) = 0 \/ done

Return(c) ==
    /\ pc[c] = "wait"
    /\ HelpersDone(c)
    /\ ~error
    /\ Finish(c, "ok", dst)
    /\ UNCHANGED <<calls, req, job, dst, step, claim, toWake, syncVars,
                   sliceVars, closer, faults>>

Raise(c) ==
    /\ pc[c] = "wait"
    /\ HelpersDone(c)
    /\ error
    /\ Finish(c, "raised", <<>>)
    /\ UNCHANGED <<calls, req, job, dst, step, claim, toWake, syncVars,
                   sliceVars, closer, faults>>

-----------------------------------------------------------------------------
(* DiskEngramTable.close: the executor keeps running what was submitted    *)
(* (shutdown(wait=False)), the joins time out, the descriptor is closed.   *)

CloseStop ==
    /\ MayClose
    /\ closer = "open"
    /\ closer' = "stopping"
    /\ UNCHANGED <<pc, callVars, runVars, syncVars, sliceVars, faults>>

\* (Mutant) one permit for all the workers.
CloseReleasesOne ==
    /\ closer = "stopping"
    /\ go' = go + 1
    /\ closer' = "joining"
    /\ UNCHANGED <<pc, callVars, runVars, left, error, done, sliceVars, faults>>

CloseRelease ==
    /\ closer = "stopping"
    /\ go' = go + Cardinality(Workers)
    /\ closer' = "joining"
    /\ UNCHANGED <<pc, callVars, runVars, left, error, done, sliceVars, faults>>

CloseFd ==
    /\ closer = "joining"
    /\ closer' = "closed"
    /\ UNCHANGED <<pc, callVars, runVars, syncVars, sliceVars, faults>>

-----------------------------------------------------------------------------
SliceStep(t) ==
    \/ BeginSlice(t) \/ SkipRow(t) \/ ReadBlock(t) \/ CopyRow(t)
    \/ ReadInPlace(t) \/ EndSlice(t)

\* Every step of a caller but Call, which is its client's.
CallerStep(c) ==
    \/ AcquireBusy(c) \/ Publish(c) \/ ClearDone(c) \/ ReleaseOne(c)
    \/ SliceStep(c) \/ CallerReadFails(c) \/ Return(c) \/ Raise(c)

WorkerStep(w) ==
    \/ WorkerWakes(w) \/ WorkerStops(w) \/ WorkerClaims(w)
    \/ SliceStep(w) \/ WorkerReadFails(w) \/ Tally(w)

CloseStep == CloseStop \/ CloseRelease \/ CloseFd

\* All the gathers of the bound are served; nothing is left to do.
Served ==
    /\ calls = MaxGathers
    /\ \A c \in Callers : pc[c] = "idle"
    /\ UNCHANGED vars

Next ==
    \/ \E c \in Callers : Call(c) \/ CallerStep(c)
    \/ \E w \in Workers : WorkerStep(w)
    \/ CloseStep
    \/ Served

Spec == Init /\ [][Next]_vars

\* A thread that can run is eventually scheduled.  A preadv that neither
\* returns nor raises is not modelled.  `_busy` needs no strong fairness
\* because the gathers are bounded.  Nobody has to submit or to close.
Fairness ==
    /\ \A c \in Callers : WF_vars(CallerStep(c))
    /\ \A w \in Workers : WF_vars(WorkerStep(w))

FairSpec == Spec /\ Fairness

-----------------------------------------------------------------------------
PcOK ==
    /\ pc \in [Threads -> CallerPCs \cup WorkerPCs]
    /\ \A c \in Callers : pc[c] \in CallerPCs
    /\ \A w \in Workers : pc[w] \in WorkerPCs

CallOK ==
    /\ calls \in Nat
    /\ req \in [Callers -> Jobs]
    /\ DOMAIN out = Callers

RunOK ==
    /\ busy \in Callers \cup {NoCaller}
    /\ job \in Jobs
    /\ dst \in [0 .. job.n - 1 -> Cells]
    /\ step \in Nat
    /\ claim \in Nat
    /\ toWake \in [Callers -> Nat]

SyncOK == left \in Int /\ error \in BOOLEAN /\ done \in BOOLEAN /\ go \in Nat

SliceOK ==
    /\ part \in [Threads -> Nat]
    /\ loc \in [Threads -> [job : Jobs, k : Nat, hi : Nat]]
    /\ buf \in [Threads -> Cells]

RestOK ==
    /\ closer \in {"open", "stopping", "joining", "closed"}
    /\ faults \subseteq Nat

TypeOK == PcOK /\ CallOK /\ RunOK /\ SyncOK /\ SliceOK /\ RestOK

\* A gather that returns has every row it owns, and zeros elsewhere: no row
\* is left unread, none comes from another row or another gather (the
\* silent zeros of lines 256-257 and 307-309, the scratch race of 343-346).
GatherComplete ==
    \A c \in Callers :
        out[c].status = "ok" => out[c].rows = Expected(out[c].job)

\* run() raises exactly when a read of its own gather failed: a worker's
\* error is not lost, and an error of an earlier gather is not raised again.
ErrorsAreOwn ==
    \A c \in Callers :
        /\ out[c].status = "ok" => out[c].job.id \notin faults
        /\ out[c].status = "raised" => out[c].job.id \in faults

\* "One gather at a time" (line 250): every thread inside _slice, and every
\* worker awake or about to tally, works for the caller that holds `_busy`.
InGather(t) == pc[t] \in {"awake", "slice", "rows", "copy", "tally"}
OneGatherAtATime ==
    /\ \A t \in Threads : InGather(t) =>
         /\ busy \in Callers
         /\ pc[busy] \in {"wake", "slice", "rows", "copy", "wait"}
    /\ \A t \in Threads : pc[t] \in {"rows", "copy"} => loc[t].job = req[busy]

\* No two threads are ever on the same row of the result.
RowsNotShared ==
    \A t, u \in Threads :
        (t # u /\ pc[t] \in {"rows", "copy"} /\ pc[u] \in {"rows", "copy"}) =>
            (loc[t].k .. loc[t].hi - 1) \cap (loc[u].k .. loc[u].hi - 1) = {}

\* Every gather that is asked for returns or raises: the tally always
\* reaches the event the caller waits for, and `_busy` is always released.
Settles == \A c \in Callers : pc[c] = "queued" ~> pc[c] = "idle"

\* close() gives every worker the permit it leaves on, whatever permits of an
\* interrupted gather are still about: no worker thread outlives the table.
WorkersLeave == closer = "joining" ~> \A w \in Workers : pc[w] = "exited"

Promise == INSTANCE GatherContract WITH
    serving <- {c \in Callers : pc[c] # "idle"},
    asked <- calls,
    request <- req,
    outcome <- out,
    failed <- faults

\* The pool implements the contract of gather: however the threads are
\* scheduled, each call ends once, with its rows or with its own error.
KeepsContract == Promise!ContractSafety
=============================================================================
