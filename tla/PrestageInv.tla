---------------------------- MODULE PrestageInv ----------------------------
(***************************************************************************)
(* The inductive invariant of Prestage, next to that of the lookups it     *)
(* makes (LookupInv): which rows are staged for which step, and which      *)
(* steps are not decided yet.                                              *)
(***************************************************************************)
EXTENDS Prestage, EngramLookupInv

\* A row of the table or of zeros.
TableRows == [1 .. PartCols -> (Layers \X Nat \X Nat) \cup {Zero}]

Forwards == [step : Nat, tokens : 1 .. MaxTokens]

Results ==
    [kind : {"none", "skipped", "failed"}, rows : {<<>>}]
        \cup [kind : {"computed"}, rows : [Layers -> Seq(TableRows)]]

Stepping ==
    /\ prestaged \in BOOLEAN /\ bound \in BOOLEAN
    /\ batches \in Seq(Batches)
    /\ results \in Seq(Results) /\ Len(results) = Len(batches)
    /\ phase \in {"idle", "prefetch", "lookup", "landing", "verify",
                  "verifying", "launch"}
    /\ layer \in Layers
    /\ staged \in [Layers -> [1 .. MaxTokens -> TableRows]]
    /\ device \in Seq(Forwards)
    /\ verifyLeft \in 0 .. VerifyCalls

\* The rows of the step's tokens are staged in a layer.
StagedFor(l, s) ==
    \A k \in DOMAIN batches[s] : staged[l][k] = Rows(batches[s])[l][k]

\* The ids of all layers are those of the step the runner is in.
InStep ==
    phase # "idle" =>
        /\ Step >= 1
        /\ buffer = [l \in Layers |-> HashIds(l, Batch)]
        /\ results[Step] = NoResult

\* Layers are staged in order, and all of them before the forward.
StagedBefore ==
    /\ phase \in {"lookup", "landing"} => \A l \in 1 .. layer - 1 : StagedFor(l, Step)
    /\ (phase \in {"verify", "verifying"} \/ (phase = "launch" /\ bound)) =>
           \A l \in Layers : StagedFor(l, Step)
    /\ phase \in {"verify", "verifying"} => verifyLeft > 0

\* The runner is past a point where the stream was drained.
Drained ==
    \/ phase \in {"landing", "verify", "verifying", "launch"}
    \/ phase = "lookup" /\ layer # 1

\* At most one forward has not run: the last launched.  Until it has, its
\* rows stay as they were staged.
DeviceBehind ==
    device # <<>> =>
        /\ Len(device) = 1 /\ bound /\ ~Drained
        /\ device[1].step = (IF phase = "idle" THEN Step ELSE Step - 1)
        /\ device[1].step >= 1
        /\ results[device[1].step] = NoResult
        /\ device[1].tokens >= Len(batches[device[1].step])
        /\ \A l \in Layers : StagedFor(l, device[1].step)

\* Only the step of the runner and that of the device are undecided.
OthersDecided ==
    \A s \in DOMAIN results : results[s].kind = "none" =>
        \/ s = Step /\ phase # "idle"
        \/ device # <<>> /\ s = device[1].step

\* No lookup is under way but that of the layer the runner is at.
OneLookup ==
    \A l \in Layers :
        call[l].at # "idle" => l = layer /\ phase \in {"landing", "verifying"}

RunnerInv ==
    /\ Stepping /\ InStep /\ StagedBefore /\ DeviceBehind /\ OthersDecided
    /\ OneLookup

StepInv == LookupInv /\ RunnerInv
=============================================================================
