------------------------------ MODULE Prestage ------------------------------
(***************************************************************************)
(* A model step with its engram rows on disk.  When prestaged the rows are *)
(* staged before the forward by EngramDiskStager                           *)
(* (src/dsv41/patch/vlspeed-prestage.py); without it the forward looks     *)
(* them up itself (prepare_embeddings in engram-disk-table.patch).  The    *)
(* modules of the layers are those of EngramLookup; their client is the    *)
(* model runner.                                                           *)
(*                                                                         *)
(* The runner is one host thread.  The forward it launches is run by the   *)
(* device later, in the order of the stream, and reads `staged_rows` then; *)
(* the runner may be preparing the next step by that time.                 *)
(***************************************************************************)
EXTENDS EngramLookup

CONSTANTS
    Batches,     \* token batches of a step, never empty
    MaxTokens,   \* rows of `staged_rows`
    GraphSizes,  \* token counts a forward is padded to
    VerifyCalls, \* VL41_ENGRAM_PRESTAGE_VERIFY, when it is set
    MaxSteps     \* bound on the steps of a behaviour

ASSUME StepAssumption ==
    /\ IsFiniteSet(Layers) /\ Layers = 1 .. Cardinality(Layers) /\ 1 \in Layers
    /\ OwnCols > 0
    /\ MaxTokens \in Nat /\ VerifyCalls \in Nat /\ MaxSteps \in Nat
    /\ \A b \in Batches : b \in Seq(Nat) /\ Len(b) \in 1 .. MaxTokens
    /\ GraphSizes \subseteq 1 .. MaxTokens

\* NgramHashState: each layer hashes a token to ids of its own (external).
HashIds(l, batch) == [k \in DOMAIN batch |-> 100 * l + batch[k]]

Rows(batch) == [l \in Layers |-> Asked(l, HashIds(l, batch))]

ZeroRow == [col \in 1 .. PartCols |-> Zero]
Uninitialized == <<0, 0, 1>>

VARIABLES
    prestaged,  \* the stager is in use; as the server was started
    bound,      \* the KV cache is bound: ensure_cache()
    batches,    \* the batches of the steps begun
    results,    \* per step begun: what its forward saw, or why it saw nothing
    phase,      \* where the runner is in its step
    layer,      \* the layer it is at
    staged,     \* per layer: `staged_rows`
    device,     \* forwards launched and not run
    verifyLeft  \* _VERIFY_LEFT

runnerVars == <<prestaged, bound, batches, results, phase, layer, staged, device, verifyLeft>>
stepVars == <<vars, runnerVars>>

NoResult == [kind |-> "none", rows |-> <<>>]
Step == Len(batches)
Batch == batches[Step]
LastLayer == Cardinality(Layers)

\* (Mutant) torch.empty: whatever the memory held.
EmptyRow == [col \in 1 .. PartCols |-> Uninitialized]

\* torch.zeros (lines 67-70): a row no step has staged is finite.
FirstRow == ZeroRow

StepInit ==
    /\ Unused
    /\ loaded = [l \in Layers |-> TRUE]
    /\ prestaged \in BOOLEAN
    /\ bound = FALSE
    /\ batches = <<>>
    /\ results = <<>>
    /\ phase = "idle"
    /\ layer = 1
    /\ staged = [l \in Layers |-> [k \in 1 .. MaxTokens |-> FirstRow]]
    /\ device = <<>>
    /\ verifyLeft \in {0, VerifyCalls}

\* (Mutant) copies on a stream of their own, which nothing waits for.
SideStream == TRUE

\* Copies between host and device are ordered on the stream with the
\* forwards, and the host waits for them: the ids to the CPU
\* (_local_cols), the rows to the device (out.copy_).
StreamDrained == device = <<>>

-----------------------------------------------------------------------------
(* One step of the runner.                                                 *)

\* prepare_inputs: the batch is there; hashing it fills the ids of all
\* layers.  The cache is bound at some step and stays bound.
BeginStep ==
    /\ phase = "idle"
    /\ Step < MaxSteps
    /\ \E b \in Batches :
         /\ batches' = Append(batches, b)
         /\ buffer' = [l \in Layers |-> HashIds(l, b)]
    /\ results' = Append(results, NoResult)
    /\ bound' \in {bound, TRUE}
    /\ layer' = 1
    /\ phase' = IF ~bound' THEN "launch"
                ELSE IF prestaged THEN "prefetch" ELSE "lookup"
    /\ UNCHANGED <<capturing, tableVars, pending, reads, call, answer,
                   prestaged, staged, device, verifyLeft>>

\* The first pass of stage(): every layer's read is submitted before any
\* is waited for.
PrefetchLayer ==
    /\ phase = "prefetch"
    /\ StreamDrained
    /\ Prefetch(layer)
    /\ IF layer = LastLayer THEN phase' = "lookup" /\ layer' = 1
                            ELSE phase' = "prefetch" /\ layer' = layer + 1
    /\ UNCHANGED <<prestaged, bound, batches, results, staged, device, verifyLeft>>

\* The second pass; without a stager, prepare_embeddings of each layer.
LookupLayer ==
    /\ phase = "lookup"
    /\ StreamDrained
    /\ LookupBegins(layer)
    /\ phase' = "landing"
    /\ UNCHANGED <<prestaged, bound, batches, results, layer, staged, device, verifyLeft>>

\* out.copy_ into staged_rows[:n]; the rows behind keep their content.
Landed(old, rows) == [k \in 1 .. MaxTokens |-> IF k =< Len(rows) THEN rows[k] ELSE old[k]]

\* The forward starts when the rows of all layers are there.  The counter
\* of _verify_staged is tested by each layer.
ToForward == IF prestaged /\ verifyLeft > 0 THEN "verify" ELSE "launch"

GiveUp(kind) ==
    /\ results' = [results EXCEPT ![Step] = [kind |-> kind, rows |-> <<>>]]
    /\ phase' = "idle"
    /\ UNCHANGED <<layer, staged, device, verifyLeft>>

LandLayer ==
    /\ phase = "landing"
    /\ LookupGoesOn(layer)
    /\ UNCHANGED <<prestaged, bound, batches>>
    /\ \/ /\ call'[layer].at # "idle"
          /\ UNCHANGED <<results, phase, layer, staged, device, verifyLeft>>
       \/ /\ call'[layer].at = "idle"
          /\ answer'[layer].status = "ok"
          /\ staged' = [staged EXCEPT ![layer] = Landed(@, answer'[layer].rows)]
          /\ IF layer = LastLayer THEN phase' = ToForward /\ layer' = 1
                                  ELSE phase' = "lookup" /\ layer' = layer + 1
          /\ UNCHANGED <<results, device, verifyLeft>>
       \/ /\ call'[layer].at = "idle"
          /\ answer'[layer].status = "raised"
          /\ GiveUp("failed")

\* _verify_staged, up to its lookup of the same ids.
VerifyLayer ==
    /\ phase = "verify"
    /\ StreamDrained
    /\ LookupBegins(layer)
    /\ phase' = "verifying"
    /\ UNCHANGED <<prestaged, bound, batches, results, layer, staged, device, verifyLeft>>

\* (Mutant) the layers of a step are verified although the count is used up.
VerifyWholeStep(left) == layer # LastLayer

VerifyNextLayer(left) == layer # LastLayer /\ left > 0

\* The rest of it: the rows must be those staged.  The counter is one for
\* all layers, and is tested again by the next.
CompareLayer ==
    /\ phase = "verifying"
    /\ LookupGoesOn(layer)
    /\ UNCHANGED <<prestaged, bound, batches>>
    /\ \/ /\ call'[layer].at # "idle"
          /\ UNCHANGED <<results, phase, layer, staged, device, verifyLeft>>
       \/ /\ call'[layer].at = "idle"
          /\ answer'[layer].status = "raised"
          /\ GiveUp("failed")
       \/ LET ref == answer'[layer].rows
              got == SubSeq(staged[layer], 1, Len(Batch))
          IN  /\ call'[layer].at = "idle"
              /\ answer'[layer].status = "ok"
              /\ \/ /\ ref # got
                    /\ GiveUp("mismatch")
                 \/ /\ ref = got
                    /\ verifyLeft' = verifyLeft - 1
                    /\ IF VerifyNextLayer(verifyLeft')
                       THEN phase' = "verify" /\ layer' = layer + 1
                       ELSE phase' = "launch" /\ layer' = 1
                    /\ UNCHANGED <<results, staged, device>>

\* A graph is replayed on its own size; an eager forward has just its tokens.
\* Only staged rows can be captured.
ForwardSizes ==
    {Len(Batch)} \cup {g \in GraphSizes : prestaged /\ g >= Len(Batch)}

Launch ==
    /\ phase = "launch"
    /\ bound
    /\ \E m \in ForwardSizes :
         device' = Append(device, [step |-> Step, tokens |-> m])
    /\ phase' = "idle"
    /\ UNCHANGED <<vars, prestaged, bound, batches, results, layer, staged, verifyLeft>>

\* While the cache is unbound the forward skips engram.
Skip ==
    /\ phase = "launch"
    /\ ~bound
    /\ GiveUp("skipped")
    /\ UNCHANGED <<vars, prestaged, bound, batches>>

\* The device runs the forward: every layer reads its staged rows.
RunForward ==
    /\ device # <<>>
    /\ LET f == Head(device)
       IN  results' = [results EXCEPT ![f.step] =
                         [kind |-> "computed",
                          rows |-> [l \in Layers |-> SubSeq(staged[l], 1, f.tokens)]]]
    /\ device' = Tail(device)
    /\ UNCHANGED <<vars, prestaged, bound, batches, phase, layer, staged, verifyLeft>>

ReadStep ==
    /\ \E l \in Layers : TableStep(l)
    /\ UNCHANGED runnerVars

\* All the steps of the bound are decided.
Finished ==
    /\ Step = MaxSteps
    /\ phase = "idle"
    /\ device = <<>>
    /\ UNCHANGED stepVars

RunnerStep ==
    \/ PrefetchLayer \/ LookupLayer \/ LandLayer
    \/ VerifyLayer \/ CompareLayer \/ Launch \/ Skip

StepNext == BeginStep \/ RunnerStep \/ RunForward \/ ReadStep \/ Finished

StepSpec == StepInit /\ [][StepNext]_stepVars

\* The runner, the device and the tables go on; steps need not come.
StepFairness ==
    /\ WF_stepVars(RunnerStep)
    /\ WF_stepVars(RunForward)
    /\ \A l \in Layers : WF_stepVars(TableStep(l) /\ UNCHANGED runnerVars)

FairStepSpec == StepSpec /\ StepFairness

-----------------------------------------------------------------------------
StepTypeOK ==
    /\ TypeOK
    /\ prestaged \in BOOLEAN /\ bound \in BOOLEAN
    /\ batches \in Seq(Batches)
    /\ Len(results) = Step
    /\ phase \in {"idle", "prefetch", "lookup", "landing", "verify",
                  "verifying", "launch"}
    /\ layer \in Layers
    /\ \A l \in Layers : Len(staged[l]) = MaxTokens
    /\ verifyLeft \in 0 .. VerifyCalls

\* The rows of padding tokens, which no one stages, are finite: zeros, or
\* rows of the table that an earlier step left there (lines 51-52, 67-69).
PaddingFinite ==
    \A s \in DOMAIN results :
        results[s].kind = "computed" =>
            \A l \in Layers : \A k \in DOMAIN results[s].rows[l] :
                \A col \in 1 .. PartCols : results[s].rows[l][k][col] # Uninitialized

\* What the contract sees of a step: the rows of its own tokens.
Outcome(s) ==
    IF results[s].kind = "computed"
    THEN [kind |-> "computed",
          rows |-> [l \in Layers |-> SubSeq(results[s].rows[l], 1, Len(batches[s]))]]
    ELSE [kind |-> results[s].kind]

Forward == INSTANCE ForwardContract WITH
    RowsOf <- Rows,
    asked <- batches,
    decided <- [s \in DOMAIN results |-> Outcome(s)]

\* With or without the stager a step's forward sees the rows of its own
\* tokens in every layer, although reads run ahead of it, fail, and leave
\* other layers' prefetches behind, and although the device runs late; and
\* the verification raises nothing.
KeepsForwardContract == Forward!ContractSafety

\* Every step is decided: the reads of a step that was given up do not hold
\* up the next ones, and the forwards are all run.
StepsDecided == Forward!ContractFairness
=============================================================================
