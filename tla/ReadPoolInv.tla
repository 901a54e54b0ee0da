---------------------------- MODULE ReadPoolInv ----------------------------
(***************************************************************************)
(* The inductive invariant of ReadPool, for a pool that is not closed and  *)
(* whose callers' own reads succeed (Regime).  Outside this regime the     *)
(* invariant does not hold: the run pool_caller_fault shows what a failing *)
(* read of the caller does, pool_closing what remains true under a close.  *)
(***************************************************************************)
EXTENDS ReadPool

Regime == FaultyThreads \cap Callers = {} /\ ~MayClose

\* Where the caller holds `_busy`, and where its gather is also published.
Holding == {"publish", "clear", "wake", "slice", "rows", "copy", "wait"}
Published == Holding \ {"publish"}

Active == {w \in Workers : InGather(w)}
Awake == {w \in Workers : pc[w] = "awake"}

\* Permits the caller still has to release.
ToWake(c) == IF pc[c] = "clear" THEN Helpers(req[c].n) ELSE toWake[c]

IsOpen == closer = "open"

RequestsKept ==
    \A c \in Callers : pc[c] # "idle" =>
        req[c].n \in Nat \ {0} /\ req[c].owned \subseteq 0 .. req[c].n - 1

WakesKept ==
    \A c \in Callers :
        /\ pc[c] = "clear" => Helpers(req[c].n) > 0
        /\ pc[c] = "wake" => toWake[c] > 0
        /\ pc[c] # "wake" => toWake[c] = 0
        /\ part[c] = 0

BusyHeld == \A c \in Callers : pc[c] \in Holding <=> busy = c

\* Between two gathers no permit is left over and no worker is at work.
Quiet ==
    (busy = NoCaller \/ pc[busy] \in {"publish", "clear"}) => go = 0 /\ Active = {}

\* The tally and the claims account for every helper of the gather.
Count ==
    (busy \in Callers /\ pc[busy] \in Published) =>
        /\ left = ToWake(busy) + go + Cardinality(Active)
        /\ left =< Helpers(req[busy].n)
        /\ Helpers(req[busy].n) + 1 = claim + ToWake(busy) + go + Cardinality(Awake)
        /\ claim >= 1
        /\ (done /\ Helpers(req[busy].n) > 0 /\ pc[busy] # "clear") => left = 0

JobCurrent ==
    (busy \in Callers /\ pc[busy] \in Published) =>
        job = req[busy] /\ step = StepOf(req[busy].n)

LocalsCurrent ==
    \A t \in Threads : pc[t] \in {"rows", "copy"} =>
        /\ loc[t].job = job
        /\ loc[t].hi =< job.n
        /\ pc[t] = "copy" => /\ loc[t].k < loc[t].hi
                             /\ loc[t].k \in job.owned
                             /\ buf[t] = Row(job.id, loc[t].k)

\* Row k is still to be read: its slice is not claimed yet, or a thread has
\* its slice and has not passed it.
ToRead(k) ==
    \/ k >= claim * step
    \/ pc[busy] \in {"clear", "wake"} /\ k < step
    \/ \E t \in Threads : /\ pc[t] = "slice"
                          /\ part[t] * step =< k
                          /\ k < part[t] * step + step
    \/ \E t \in Threads : /\ pc[t] \in {"rows", "copy"}
                          /\ loc[t].k =< k
                          /\ k < loc[t].hi

RowsAccounted ==
    (busy \in Callers /\ pc[busy] \in Published) =>
        \A k \in 0 .. job.n - 1 :
            IF k \in job.owned
            THEN dst[k] = Row(job.id, k) \/ error \/ ToRead(k)
            ELSE dst[k] = Zero

\* Gathers under way and gathers that ended have numbers of their own, none
\* of them yet to be given out.
NumbersOwn ==
    /\ \A f \in faults : f =< calls
    /\ \A c \in Callers : pc[c] # "idle" => req[c].id =< calls
    /\ \A c, d \in Callers :
         (c # d /\ pc[c] # "idle" /\ pc[d] # "idle") => req[c].id # req[d].id
    /\ \A c \in Callers : out[c].status # "none" =>
         /\ out[c].job.id \in Nat /\ out[c].job.id =< calls
         /\ \A d \in Callers : pc[d] # "idle" => req[d].id # out[c].job.id

\* `_error` tells of the published gather alone.
ErrorCurrent ==
    /\ \A c \in Callers : pc[c] \in {"queued", "publish"} => req[c].id \notin faults
    /\ (busy \in Callers /\ pc[busy] \in Published) => (error <=> req[busy].id \in faults)

\* Every row of a gather is in place, is going to be read or lies in a
\* slice whose read failed; the tally knows how many workers are left, and
\* `_error` whether one of them failed.
IInv ==
    /\ TypeOK
    /\ IsOpen /\ RequestsKept /\ WakesKept
    /\ BusyHeld /\ Quiet /\ Count
    /\ JobCurrent /\ LocalsCurrent /\ RowsAccounted
    /\ NumbersOwn /\ ErrorCurrent
    /\ GatherComplete /\ ErrorsAreOwn
=============================================================================
