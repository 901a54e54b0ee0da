---------------------------- MODULE ProposerInv ----------------------------
(***************************************************************************)
(* The inductive invariants behind the properties of Proposer.             *)
(***************************************************************************)
EXTENDS Proposer

HiddenStates == [req : Requests, pos : Nat, kept : BOOLEAN]

Typed ==
    /\ status \in [Requests -> {"new", "running", "preempted", "waiting", "finished"}]
    /\ length \in [Requests -> Nat]
    /\ computed \in [Requests -> Nat]
    /\ drafted \in [Requests -> BOOLEAN]
    /\ phase \in {"runner", "propose"}
    /\ sampled \in [Requests -> 0 .. K + 1]
    /\ aux \in [Requests -> Seq(HiddenStates)]
    /\ DOMAIN win \subseteq Requests
    /\ win \in [DOMAIN win -> [window : Seq(HiddenStates), prev : Nat]]
    /\ \A r \in DOMAIN win : Len(win[r].window) \in 1 .. WindowSize

\* A running request has its last token still to be forwarded.
LastToCompute == \A r \in Running : computed[r] < length[r]

FewRunning == IsFiniteSet(Running) /\ Cardinality(Running) =< MaxBatch

\* What was sampled is accounted for by the block that was forwarded.
SampledFromBlock ==
    \A r \in Seen :
        /\ sampled[r] =< Len(aux[r])
        /\ phase = "propose" => /\ status[r] = "running"
                               /\ sampled[r] =< length[r]
                               /\ computed[r] = length[r] - 1

FewWindows == IsFiniteSet(DOMAIN win) /\ Cardinality(DOMAIN win) =< MaxBatch

\* Holds whatever the steps that preempt sample.
BankInv == Typed /\ LastToCompute /\ FewRunning /\ SampledFromBlock /\ FewWindows

-----------------------------------------------------------------------------
\* The states of the n positions from `first` on, all confirmed.
StateRun(r, first, n) == [j \in 1 .. n |-> HiddenState(r, first + j - 1, TRUE)]

\* A window ends two positions before the length it was banked at.
WindowsRun ==
    \A r \in DOMAIN win :
        LET n == Len(win[r].window)
        IN  win[r].window = StateRun(r, win[r].prev - 1 - n, n)

\* Between steps, a window is that of a request that decodes, and was banked
\* at its length; or its request waits for the step that evicts it.
WindowsUsed ==
    phase = "runner" =>
        /\ \A r \in Seen : r \in DOMAIN win /\ win[r].prev = length[r]
        /\ \A r \in Running :
             drafted[r] => /\ r \in DOMAIN win
                           /\ win[r].prev = length[r]
                           /\ computed[r] = length[r] - 1
        /\ \A r \in DOMAIN win :
             \/ status[r] \in {"finished", "preempted"}
             \/ status[r] = "running" /\ drafted[r]

\* The block of a prefill that ends: all of it confirmed, and no window yet.
Begins(r) ==
    /\ r \notin DOMAIN win
    /\ aux[r] = StateRun(r, length[r] - 1 - Len(aux[r]), Len(aux[r]))

\* The block of a decode: its front goes on where the window ends.
Continues(r) ==
    /\ r \in DOMAIN win
    /\ win[r].prev = length[r] - sampled[r]
    /\ \A j \in 1 .. sampled[r] : aux[r][j] = HiddenState(r, win[r].prev - 1 + j - 1, TRUE)

BlocksCurrent ==
    phase = "propose" =>
        /\ \A r \in Seen : Begins(r) \/ Continues(r)
        /\ \A r \in DOMAIN win : r \in Seen \/ status[r] = "finished" \/ Seen # {}
        /\ \A r \in Running : ~drafted[r]

\* Only requests at work have drafts, and only those admitted have sampled.
NothingAhead ==
    \A r \in Requests :
        /\ status[r] \in {"new", "preempted", "waiting"} => ~drafted[r]
        /\ status[r] = "new" => sampled[r] = 0

\* Holds when a step that preempts always samples.
RecentInv == WindowsRun /\ WindowsUsed /\ BlocksCurrent /\ NothingAhead
=============================================================================
