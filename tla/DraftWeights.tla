---------------------------- MODULE DraftWeights ----------------------------
(***************************************************************************)
(* Loading the DSpark draft on one tensor-parallel rank: load_weights,     *)
(* _rewrite and _wo_a_weight of src/dspark/model.py.                       *)
(*                                                                         *)
(* The checkpoint comes file by file, in any order; a file holds the       *)
(* tensors of one stage (mtp.<s>), of the model around the stages, or of   *)
(* the target model.  A name is its parts: the file, the module, the leaf, *)
(* the kind (weight, scale, bias), and the expert.  A parameter is a set   *)
(* of shards, and what is kept of a shard is the tensors written to it.    *)
(***************************************************************************)
EXTENDS Integers, FiniteSets, Sequences

CONSTANTS
    NStages,    \* dspark_n_mtp_layers
    Experts,    \* routed experts
    LocalExperts \* those FusedMoE gives this rank

NoExpert == "none"

ASSUME WeightsAssumption ==
    /\ NStages \in Nat \ {0}
    /\ LocalExperts \subseteq Experts
    /\ NoExpert \notin Experts

Stages == 0 .. NStages - 1
LastStage == NStages - 1
Outer == NStages      \* the stage of what is in no stage
Target == NStages + 1 \* the file of the target model's layers

-----------------------------------------------------------------------------
(* The checkpoint.                                                         *)

Tensor(file, mod, leaf, kind) ==
    [file |-> file, mod |-> mod, leaf |-> leaf, kind |-> kind, expert |-> NoExpert]

WeightAndScale == {"weight", "scale"}

StageTensors(s) ==
    {Tensor(s, "attn", leaf, kind) :
        leaf \in {"wq_a", "wkv", "wq_b", "wo_a", "wo_b"}, kind \in WeightAndScale}
    \cup {Tensor(s, "attn", leaf, "weight") : leaf \in {"q_norm", "kv_norm", "attn_sink"}}
    \cup {Tensor(s, "shared_experts", leaf, kind) :
              leaf \in {"w1", "w2", "w3"}, kind \in WeightAndScale}
    \cup {[Tensor(s, "experts", leaf, kind) EXCEPT !.expert = e] :
              leaf \in {"w1", "w2", "w3"}, kind \in WeightAndScale, e \in Experts}
    \cup {Tensor(s, "gate", "gate", kind) : kind \in {"weight", "bias"}}
    \cup {Tensor(s, "block", leaf, "weight") : leaf \in {"attn_norm", "ffn_norm", "hc_attn", "hc_ffn"}}

FirstTensors == {Tensor(0, "main_proj", "main_proj", kind) : kind \in WeightAndScale}
                \cup {Tensor(0, "main_norm", "main_norm", "weight")}
LastTensors ==
    {Tensor(LastStage, mod, mod, "weight") : mod \in {"norm", "hc_head", "confidence_head"}}
    \cup {Tensor(LastStage, "markov_head", leaf, "weight") : leaf \in {"markov_w1", "markov_w2"}}
OuterTensors == {Tensor(Outer, mod, mod, "weight") : mod \in {"embed", "head"}}
TargetTensors == {Tensor(Target, "attn", "wq_a", "weight")}

DraftTensors == (UNION {StageTensors(s) : s \in Stages}) \cup FirstTensors \cup LastTensors
                \cup OuterTensors
Checkpoint == DraftTensors \cup TargetTensors
Files == Stages \cup {Outer, Target}
TensorsOf(file) == {t \in Checkpoint : t.file = file}

-----------------------------------------------------------------------------
(* The parameters of the model, by __init__.  A shard is a stage, a module, *)
(* a parameter, its kind, and which part of it.                            *)

Shard(stage, mod, param, kind, part) ==
    [stage |-> stage, mod |-> mod, param |-> param, kind |-> kind, part |-> part]

Quantised == {"weight", "weight_scale_inv"}

StageShards(s) ==
    {Shard(s, "attn", "fused_wqa_wkv", kind, part) : kind \in Quantised, part \in {0, 1}}
    \cup {Shard(s, "attn", param, kind, 0) : param \in {"wq_b", "wo_a", "wo_b"}, kind \in Quantised}
    \cup {Shard(s, "attn", param, "weight", 0) : param \in {"q_norm", "kv_norm", "attn_sink"}}
    \cup {Shard(s, "shared_experts", "gate_up_proj", kind, part) : kind \in Quantised, part \in {0, 1}}
    \cup {Shard(s, "shared_experts", "down_proj", kind, 0) : kind \in Quantised}
    \cup {Shard(s, "experts", leaf, kind, e) :
              leaf \in {"w1", "w2", "w3"}, kind \in {"weight", "weight_scale"}, e \in LocalExperts}
    \cup {Shard(s, "gate", "gate", "weight", 0), Shard(s, "gate", "e_score_correction_bias", "bias", 0)}
    \cup {Shard(s, "block", param, "weight", 0) : param \in {"attn_norm", "ffn_norm", "hc_attn", "hc_ffn"}}

\* The confidence head is a Linear with a bias (heads.py:94), and the
\* checkpoint has its weight alone (heads.py:89).
NoTensor == {Shard(Outer, "confidence_head", "confidence_head", "bias", 0)}

OuterShards ==
    NoTensor
    \cup {Shard(Outer, mod, mod, "weight", 0) :
        mod \in {"embed", "head", "norm", "main_norm", "hc_head", "confidence_head"}}
    \cup {Shard(Outer, "main_proj", "main_proj", kind, 0) : kind \in Quantised}
    \cup {Shard(Outer, "markov_head", leaf, "weight", 0) : leaf \in {"markov_w1", "markov_w2"}}

Shards == (UNION {StageShards(s) : s \in Stages}) \cup OuterShards

-----------------------------------------------------------------------------
(* _rewrite and the body of load_weights, for one tensor.                  *)

OuterModules ==
    {"main_proj", "main_norm", "markov_head", "confidence_head", "norm", "hc_head",
     "embed", "head"}

StageOf(t) == IF t.mod \in OuterModules THEN Outer ELSE t.file

\* Scales of routed experts and of the rest have names of their own.
KindOf(t) ==
    IF t.kind # "scale" THEN t.kind
    ELSE IF t.mod = "experts" THEN "weight_scale" ELSE "weight_scale_inv"

\* A name in pieces, as the patterns of load_weights cut it: where one of
\* them occurs in a name it begins and ends with a piece.  What stands before
\* the module, the kind and the number of an expert have none of them in it.
Compound ==
    [shared_experts |-> <<"shared_", "experts">>, markov_head |-> <<"markov_", "head">>,
     markov_w1 |-> <<"markov_", "w1">>, markov_w2 |-> <<"markov_", "w2">>]

Dotted(word) == (IF word \in DOMAIN Compound THEN Compound[word] ELSE <<word>>) \o <<".">>

Name(t) ==
    <<".">> \o (IF t.mod \in {"block", t.leaf} THEN <<>> ELSE Dotted(t.mod)) \o Dotted(t.leaf)

\* Python's `pattern in name`.
Matches(pattern, t) ==
    \E i \in 0 .. Len(Name(t)) - Len(pattern) :
        \A k \in 1 .. Len(pattern) : Name(t)[i + k] = pattern[k]

\* The shards of stacked parameters: what is looked for in a name, and the
\* leaf that it is all of, or the end of.
Stacks ==
    <<[pattern |-> <<"w1">>, leaf |-> "w1", param |-> "gate_up_proj", part |-> 0],
      [pattern |-> <<"w3">>, leaf |-> "w3", param |-> "gate_up_proj", part |-> 1],
      [pattern |-> <<"attn", ".", "wq_a">>, leaf |-> "wq_a", param |-> "fused_wqa_wkv", part |-> 0],
      [pattern |-> <<"attn", ".", "wkv">>, leaf |-> "wkv", param |-> "fused_wqa_wkv", part |-> 1]>>

\* (Mutant) names of the Markov head are matched like the others.
ExpertsOnly(t) == ~Matches(<<".", "experts", ".">>, t)

\* Routed experts have a mapping of their own, and markov_w1 only looks like
\* a w1 (lines 557-561).
MayStack(t) == ~Matches(<<".", "experts", ".">>, t) /\ ~Matches(<<"markov_">>, t)

\* The first of the shards that is found in the name, if one is.
StackOf(t) ==
    {Stacks[n] : n \in {n \in 1 .. Len(Stacks) :
        /\ MayStack(t)
        /\ Matches(Stacks[n].pattern, t)
        /\ \A m \in 1 .. n - 1 : ~Matches(Stacks[m].pattern, t)}}

\* name.replace: a leaf of which only the end is found gets a name that no
\* parameter has, such as markov_gate_up_proj.
Replaced(t, stack) == IF t.leaf = stack.leaf THEN stack.param ELSE "no parameter"

Renamed(t) ==
    CASE t.mod = "shared_experts" /\ t.leaf = "w2" -> "down_proj"
      [] t.mod = "gate" /\ t.kind = "bias" -> "e_score_correction_bias"
      [] OTHER -> t.leaf

\* The shard a tensor is written to; a set, empty for an expert that the
\* rank has not.
Destination(t) ==
    IF StackOf(t) # {}
    THEN {Shard(StageOf(t), t.mod, Replaced(t, stack), KindOf(t), stack.part) : stack \in StackOf(t)}
    ELSE IF t.mod = "experts"
    THEN {Shard(StageOf(t), t.mod, t.leaf, KindOf(t), e) : e \in {t.expert} \cap LocalExperts}
    ELSE {Shard(StageOf(t), t.mod, Renamed(t), KindOf(t), 0)}

\* params[name] raises for a stacked or expert name the model has not; any
\* other such name is skipped with a warning.
Raises(t) == (StackOf(t) # {} \/ t.mod = "experts") /\ ~(Destination(t) \subseteq Shards)

VARIABLES
    unread,    \* the files of the checkpoint still to come
    written,   \* per shard: the tensors written to it
    format,    \* what self.wo_a.weight holds: "raw" after load, then "packed"
    cached,    \* _wo_a_bf16, what was made of it; "none" before
    load       \* "loading", "loaded", "ready" or "failed"

weightVars == <<unread, written, format, cached, load>>

LoadInit ==
    /\ unread = Files
    /\ written = [shard \in Shards |-> {}]
    /\ format = "none"
    /\ cached = "none"
    /\ load = "loading"

\* The tensors of a file, those of the target model dropped by _rewrite.
LoadFile(file) ==
    /\ load = "loading"
    /\ file \in unread
    /\ unread' = unread \ {file}
    /\ IF file # Target /\ \E t \in TensorsOf(file) : Raises(t)
       THEN load' = "failed" /\ UNCHANGED written
       ELSE /\ written' = [shard \in Shards |->
                  written[shard] \cup {t \in TensorsOf(file) \ TargetTensors : shard \in Destination(t)}]
            /\ UNCHANGED load
    /\ UNCHANGED <<format, cached>>

\* The scales go with the weight only while it is as the checkpoint has it.
\* Their blocks are taken to divide it: lines 193-196 warn of scales that do
\* not, and use the weight without them.
Dequantised(w) == IF w = "raw" THEN "bf16" ELSE "garbage"

\* load_weights ends by dequantising wo_a and keeping the result (600-606).
CachedAtLoad == Dequantised("raw")

EndLoad ==
    /\ load = "loading"
    /\ unread = {}
    /\ load' = "loaded"
    /\ format' = "raw"
    /\ cached' = CachedAtLoad
    /\ UNCHANGED <<unread, written>>

\* vLLM's process_weights_after_loading reformats wo_a in place.
ProcessWeights ==
    /\ load = "loaded"
    /\ load' = "ready"
    /\ format' = "packed"
    /\ UNCHANGED <<unread, written, cached>>

\* What _wo_a_weight returns in a forward.
WoA == IF cached # "none" THEN cached ELSE Dequantised(format)

LoadNext == (\E file \in Files : LoadFile(file)) \/ EndLoad \/ ProcessWeights

-----------------------------------------------------------------------------
\* No load raises, and in a loaded model every shard of every parameter but
\* the bias of the confidence head, which the checkpoint does not have, has
\* been written, and by one tensor only, so that the order of the files does
\* not matter; every tensor of the draft is in its place but those of other
\* ranks' experts (model.py:19-21, "a wrong tensor here silently kills accept").
TensorsInPlace ==
    /\ load # "failed"
    /\ load \in {"loaded", "ready"} =>
        /\ \A shard \in Shards \ NoTensor :
             /\ Cardinality(written[shard]) = 1
             /\ \A t \in written[shard] : shard.stage \in {t.file, Outer}
        /\ \A shard \in NoTensor : written[shard] = {}
        /\ UNION {written[shard] : shard \in Shards}
             = {t \in DraftTensors : t.expert \in LocalExperts \cup {NoExpert}}
=============================================================================
