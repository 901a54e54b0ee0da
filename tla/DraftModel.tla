----------------------------- MODULE DraftModel -----------------------------
(***************************************************************************)
(* The DSpark draft at work: _run_draft_batched and _capture of            *)
(* src/dspark/proposer.py, and forward, sample_block and the cross         *)
(* attention of src/dspark/model.py, after the weights are loaded.         *)
(*                                                                         *)
(* A call finds the windows of its requests, one lane each, and computes   *)
(* the drafts of all lanes in one batch, from buffers that live from call  *)
(* to call.  A tensor row is abstracted to a term: what it was computed    *)
(* from, and by which stage.                                               *)
(***************************************************************************)
EXTENDS DraftWeights

CONSTANTS
    MaxBatch,   \* max_num_seqs
    WindowSize, \* sliding_window
    BlockSize,  \* dspark_block_size
    K,          \* num_speculative_tokens
    MaxCalls    \* bound on the calls

ASSUME DraftAssumption ==
    /\ MaxBatch \in Nat \ {0} /\ WindowSize \in Nat \ {0}
    /\ BlockSize \in Nat \ {0} /\ K \in 1 .. BlockSize
    /\ MaxCalls \in Nat

VARIABLES
    calls,    \* calls so far
    windows,  \* per lane: the rows of the window in this call, 0 with no request
    lanes,    \* _g_w and _g_mask: per lane and slot
    anchors,  \* _g_anchor
    graph,    \* _graph and _graph_disabled: "none", "captured" or "disabled"
    context,  \* per stage: _main_x and _ctx_mask
    stream,   \* x, the rows of all blocks
    at,       \* the step of the call; "stage" for the stages
    stage,    \* the stage that is next
    out,      \* the block ids; _g_out when the graph is captured
    drafts    \* per lane: what propose() hands out

bufferVars == <<windows, lanes, anchors>>
runVars == <<context, stream, out>>
draftVars == <<calls, bufferVars, graph, runVars, at, stage, drafts>>
vars == <<weightVars, draftVars>>

Lanes == 1 .. MaxBatch
Slots == 1 .. WindowSize
Block == 1 .. BlockSize

-----------------------------------------------------------------------------
(* Terms.                                                                  *)

\* The j-th row of the window that lane i has in a call, and its anchor.
Row(call, i, j) == [call |-> call, lane |-> i, row |-> j]
AnchorOf(call, i) == [call |-> call, lane |-> i, row |-> 0]
Masked == Row(0, 0, 0)
Noise == AnchorOf(0, 0)

Embedded(token) == [token |-> token]
Attended(s, query, keys, weight) ==
    [stage |-> s, query |-> query, keys |-> keys, wo_a |-> weight]
Key(distance, of) == [distance |-> distance, of |-> of]
Drawn(row, after) == [row |-> row, after |-> after]

\* -1, and what memory of the graph holds that no replay has written.
NoDraft == Noise
Unwritten == [i \in Lanes |-> [n \in Block |-> Masked]]

DraftInit ==
    /\ LoadInit
    /\ calls = 0
    /\ windows = [i \in Lanes |-> 0]
    /\ lanes = [i \in Lanes |-> [j \in Slots |-> Masked]]
    /\ anchors = [i \in Lanes |-> Noise]
    /\ graph \in {"none", "disabled"}
    /\ context = [s \in Stages |-> lanes]
    /\ stream = [f \in 1 .. MaxBatch * BlockSize |-> Embedded(Noise)]
    /\ at = "idle"
    /\ stage = 0
    /\ out = Unwritten
    /\ drafts = [i \in Lanes |-> [n \in 1 .. K |-> NoDraft]]

-----------------------------------------------------------------------------
(* _run_draft_batched.                                                     *)

\* The buffers are cleared, and a window is copied to the right end of its
\* lane (lines 205-215).
Lane(call, i, n) ==
    [j \in Slots |-> IF j > WindowSize - n THEN Row(call, i, j - (WindowSize - n)) ELSE Masked]

Fill ==
    /\ load = "ready"
    /\ at = "idle"
    /\ calls < MaxCalls
    /\ calls' = calls + 1
    /\ windows' \in [Lanes -> 0 .. WindowSize]
    /\ \E i \in Lanes : windows'[i] > 0
    /\ lanes' = [i \in Lanes |-> Lane(calls', i, windows'[i])]
    /\ anchors' = [i \in Lanes |-> IF windows'[i] > 0 THEN AnchorOf(calls', i) ELSE Noise]
    /\ at' = "filled"
    /\ UNCHANGED <<weightVars, graph, runVars, stage, drafts>>

\* (Mutant) the context is given to the first stage only.
FirstThreaded == [context EXCEPT ![0] = lanes]

\* Every stage is given the projected context and its mask (430-434).
Threaded == [s \in Stages |-> lanes]

\* The warm-up runs the draft; the capture records it without running it, so
\* that the graph's own memory is written by the first replay only.
Capture ==
    /\ at = "filled" /\ graph = "none"
    /\ graph' = "captured"
    /\ context' = Threaded
    /\ out' = Unwritten
    /\ UNCHANGED <<weightVars, calls, bufferVars, stream, at, stage, drafts>>

\* Any failure of the warm-up or of the capture; the draft runs eagerly then
\* and in every later call (187-193).
CaptureFails ==
    /\ at = "filled" /\ graph = "none"
    /\ graph' = "disabled"
    /\ context' \in {context, Threaded}
    /\ UNCHANGED <<weightVars, calls, bufferVars, stream, out, at, stage, drafts>>

-----------------------------------------------------------------------------
(* forward: by the graph or eagerly, the same operations on the same       *)
(* buffers.                                                                *)

LaneOfRow(f) == ((f - 1) \div BlockSize) + 1
PlaceOfRow(f) == ((f - 1) % BlockSize) + 1
RowOf(i, p) == (i - 1) * BlockSize + p

\* Noise tokens behind the anchor of each block (436-441).
Embed ==
    /\ at = "filled" /\ graph # "none"
    /\ context' = Threaded
    /\ stream' = [f \in DOMAIN stream |->
         Embedded(IF PlaceOfRow(f) = 1 THEN anchors[LaneOfRow(f)] ELSE Noise)]
    /\ at' = "stage" /\ stage' = 0
    /\ UNCHANGED <<weightVars, calls, bufferVars, graph, out, drafts>>

\* Positions of the rope: the context from 0, the block behind it.
CtxPosition(j) == j - 1
BlkPosition(p) == WindowSize + p - 1

\* What a row of a block attends to: the unmasked slots of its lane, and the
\* rows of its block, each at its distance.
KeysOf(s, i, p) ==
    {Key(BlkPosition(p) - CtxPosition(j), context[s][i][j]) :
        j \in {j \in Slots : context[s][i][j] # Masked}}
    \cup {Key(BlkPosition(p) - BlkPosition(b), stream[RowOf(i, b)]) : b \in Block}

RunStage ==
    /\ at = "stage" /\ stage \in Stages
    /\ stream' = [f \in DOMAIN stream |->
         Attended(stage, stream[f], KeysOf(stage, LaneOfRow(f), PlaceOfRow(f)), WoA)]
    /\ stage' = stage + 1
    /\ UNCHANGED <<weightVars, calls, bufferVars, graph, context, out, at, drafts>>

\* Each token is drawn with the Markov bias of the one before it (502-507).
DrawnBlock(i) ==
    LET id[n \in 0 .. BlockSize] ==
            IF n = 0 THEN anchors[i] ELSE Drawn(stream[RowOf(i, n)], id[n - 1])
    IN  [n \in Block |-> id[n]]

SampleBlock ==
    /\ at = "stage" /\ stage = NStages
    /\ out' = [i \in Lanes |-> DrawnBlock(i)]
    /\ at' = "sampled"
    /\ UNCHANGED <<weightVars, calls, bufferVars, graph, context, stream, stage, drafts>>

\* (Mutant) one draft more is handed out.
OneMore(i) == [n \in 1 .. K + 1 |-> IF n =< BlockSize THEN out[i][n] ELSE NoDraft]

\* The first K ids behind the anchor, copied (343-349).
DraftsOf(i) == [n \in 1 .. K |-> IF windows[i] > 0 THEN out[i][n] ELSE NoDraft]

HandOut ==
    /\ at = "sampled"
    /\ drafts' = [i \in Lanes |-> DraftsOf(i)]
    /\ at' = "idle"
    /\ UNCHANGED <<weightVars, calls, bufferVars, graph, runVars, stage>>

DraftStep ==
    \/ Fill
    \/ Capture
    \/ CaptureFails
    \/ Embed
    \/ RunStage
    \/ SampleBlock
    \/ HandOut

\* The calls modelled have been made.
Done == calls = MaxCalls /\ at = "idle" /\ load = "ready" /\ UNCHANGED vars

DraftNext == (LoadNext /\ UNCHANGED draftVars) \/ DraftStep \/ Done

DraftSpec == DraftInit /\ [][DraftNext]_vars

-----------------------------------------------------------------------------
DraftTypeOK ==
    /\ calls \in 0 .. MaxCalls
    /\ windows \in [Lanes -> 0 .. WindowSize]
    /\ graph \in {"none", "captured", "disabled"}
    /\ at \in {"idle", "filled", "stage", "sampled"}
    /\ stage \in 0 .. NStages
    /\ load \in {"loading", "loaded", "ready", "failed"}
    /\ DOMAIN stream = 1 .. MaxBatch * BlockSize
    /\ \A i \in Lanes : DOMAIN lanes[i] = Slots /\ DOMAIN out[i] = Block /\ DOMAIN drafts[i] = 1 .. K

(* The reference, one request at a time: no batch, no padding, no buffers. *)

\* The rows of a request's block before each stage.  A row of the window is
\* as far from the anchor as it is old, and the weights of all stages are
\* those of the checkpoint.
ReferenceRows(call, i, n) ==
    LET rows[s \in 0 .. NStages] ==
            IF s = 0
            THEN [p \in Block |-> Embedded(IF p = 1 THEN AnchorOf(call, i) ELSE Noise)]
            ELSE [p \in Block |->
                    Attended(s - 1, rows[s - 1][p],
                        {Key(p + (n - j), Row(call, i, j)) : j \in 1 .. n}
                            \cup {Key(p - b, rows[s - 1][b]) : b \in Block},
                        "bf16")]
    IN  rows

ReferenceStream(call, i, n) == ReferenceRows(call, i, n)[NStages]

\* The block sampler "for correctness testing" (heads.py:48-80).
ReferenceBlock(call, i, n) ==
    LET rows == ReferenceStream(call, i, n)
        prev[p \in 0 .. BlockSize] ==
            IF p = 0 THEN AnchorOf(call, i) ELSE Drawn(rows[p], prev[p - 1])
    IN  [p \in Block |-> prev[p]]

\* The drafts of a request are those of the reference computed from its own
\* window and anchor: whatever other lanes hold, whatever earlier calls left
\* in the buffers, by a graph captured in this or an earlier call or without
\* one (model.py:14-17 and 411-425, proposer.py:195-199).
DraftsFollowReference ==
    (at = "idle" /\ calls > 0) =>
        \A i \in Lanes : \A n \in 1 .. K :
            drafts[i][n] = IF windows[i] = 0 THEN NoDraft
                           ELSE ReferenceBlock(calls, i, windows[i])[n]
=============================================================================
