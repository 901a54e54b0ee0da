# A verification project for joe-spark-patches

TLA+ modules, TLC runs and TLAPS proofs for the patches of this repository:
the disk-resident Engram table of DeepSeek-V4.1 (`src/dsv41/patch`), the DSpark
speculative-decoding proposer (`src/dspark`), the streaming DSML parsers
(`src/parsers`) and the launch scripts of the 4-node cluster
(`src/dsv41/launch`, `src/cluster-fabric`).

## The system

| part | source | state it keeps | operations |
|---|---|---|---|
| Engram read pool | `dsv41/patch/engram_disk.py` `_ReadPool` | lock `_busy`, job, claim counter, tally `_left`, event `_done`, semaphore `_go`, one scratch buffer per thread | `run`, `_loop`, `_slice`, `close` |
| Disk table | `engram_disk.py` `DiskEngramTable` | descriptor, alignment, span, executor of two threads | `submit`, `wait`, `gather`, `close` |
| Lookup and prefetch | `dsv41/patch/engram-disk-table.patch` | one pending prefetch per layer, staged halves of the shard, the table | `_stage_disk_shard`, `prefetch`, `cancel_prefetch`, `_take_prefetched`, `_disk_lookup` |
| Prestage stager | `dsv41/patch/vlspeed-prestage.py` | `staged_rows` per layer, verification counter | `stage`, `prepare_embeddings`, `_verify_staged` |
| DSpark proposer | `dspark/proposer.py` | per request: window of auxiliary hidden states and length seen | `propose` (bank, draft, evict) |
| Draft model and heads | `dspark/model.py`, `heads.py`, `proposer.py` `_run_draft_batched` | parameters, the dequantised `wo_a`, static buffers of a batch, the captured graph | `load_weights`, `forward`, `sample_block`, `_capture` |
| Aux capture | `dspark/v4_aux_patch.py` | a static buffer | tensor copies in the target's forward |
| Replay harness | `dspark/replay_banking.py` | previous length and window, or tokens banked | `replay_old`, `replay_new` |
| DSML split | `parsers/dsv4_dsml_split.py` | none | `dsml_split`, `stream_deltas`, `filter_think_close` |
| Reasoning parser | `parsers/dsv4_reasoning_tool_aware.py` | whether a start tag was seen, content withheld; it is given the previous and the current text | streaming and one-shot extraction |
| Tool parser | `parsers/deepseekv32_tool_parser_patched.py` | buffer, stream state, calls already sent | `_process_streaming_buffer`, `extract_tool_calls(_streaming)` |
| Launcher | `dsv41/launch/vlspeed-tp4-4node-up.sh`, `cluster-fabric/*.sh` | rank of each box, graph sizes, containers | bring-up, health poll |
| Patch scripts | `dsv41/patch/vl*.py`, `dsv41/build/*.sh` | the patched tree | assert-once substitutions |

A layer's lookup submits gathers to its table; the table's executor threads run
`_gather`, which drives the pool.  The stager prefetches and looks up every
layer before the forward, which then reads `staged_rows`.  The proposer banks
the auxiliary states of a step and has the draft model draft from the banked
windows, one lane of a batch each; with tracing on it writes the lines that the
replay harness reads.  The serving front end feeds token deltas to the
reasoning parser and, once reasoning ends, to the tool parser.

Hard parts: threads of the pool under failures and shutdown; rows served for
the ids asked and no others although reads run ahead; request windows across
preemption, resumption and re-prefill; a draft from buffers and a graph that
outlive the call; two parsers whose answer must not depend on how the text was
cut, and that withhold text from each other.

## Modules

Composition: `ReadPool` is the bottom; what it promises (`GatherContract`, and
`Settles` for the end of every gather) is what `EngramLookup` takes for granted
of a submitted read; `Prestage` EXTENDS `EngramLookup` with one copy of its state
per layer and makes the model runner its client. `ReasoningStream` and
`ToolStream` both EXTEND `DsmlSplit`, as both parsers import
`dsv4_dsml_split.py`; `ParserPipeline` EXTENDS `ToolStream`, INSTANCEs
`ReasoningStream`, and hands the stream from one to the other. `DraftModel`
EXTENDS `DraftWeights`: it drafts with what was loaded. `ReplayBanking` EXTENDS
`Proposer`: its steps are those of the proposer, whose trace lines both replays
of the harness read, so the run `proposer` checks the properties of `Proposer` under it.

| module | models | state ↔ code | actions ↔ code |
|---|---|---|---|
| `GatherContract` | promise of `gather` | callers being served, gathers asked, outcomes, failed reads | ask, deliver, refuse, a read fails |
| `ReadPool` | `_ReadPool` under the executor's threads, `close` | `busy`, `job`, `dst`, `step`, `claim`, `left`, `error`, `done`, `go` are the fields of the same name; `part`, `loc`, `buf` the locals and scratch of each thread; `pc` the line it is at | one action for each access to shared state: the lines of `run`, `_loop`, `_slice`, `close` |
| `ReadPoolInv` | | | its inductive invariant |
| `RowAddress` | bytes of a row (`engram_disk.py` 158-163, 217-231) | constants only | operators |
| `ReadPoolProofs` | | | the theorems of both |
| `EngramLookup` | `ParallelEngramEmbedding` of `engram-disk-table.patch` | `halves`/`loaded` are `_staged`/`_table`, `pending` is `_pending`, `reads` the futures of `submit`, `call` the lookup that blocks | staging, `prefetch`, `cancel_prefetch`, the branches of `lookup` before and after each wait |
| `EngramLookupInv` | | | its inductive invariant |
| `ForwardContract` | what a step's forward is owed | steps asked and decided | begin, decide |
| `Prestage` | `EngramDiskStager` and `_verify_staged` of `vlspeed-prestage.py`, `prepare_embeddings` | `staged` is `staged_rows`, `verifyLeft` is `_VERIFY_LEFT`, `device` the forwards launched | prefetch of a layer, lookup and landing of a layer, verification of a layer, launch, the forward running late |
| `PrestageInv`, `EngramProofs` | | | its inductive invariant; the theorems of the lookup and of the stager |
| `Proposer` | `DSparkProposer.propose` | `win` is `_win`, `lanes` the static buffers of the draft graph; the scheduler's view of a request around it | `Propose`, `ProposeNothing`; the runner's admit, preempt, forward, finish |
| `ProposerInv` | | | its inductive invariants |
| `ReplayBanking` | `replay_banking.py` | `new`, `old` are the locals of `replay_new`, `replay_old` | `Replay`, the lines of one `propose`, in the order of the batch |
| `ProposerProofs` | | | the theorems of the proposer and of its harness |
| `DraftWeights` | `model.py` `load_weights`, `_rewrite`, `_wo_a_weight` | `written` the tensors of each shard of a parameter, `format` what `wo_a.weight` holds, `cached` is `_wo_a_bf16` | one file, the end of the load, vLLM's reformatting |
| `DraftModel` | `_run_draft_batched`, `_capture`; `forward`, attention and sampling of `model.py` | `lanes`, `anchors`, `out` are `_g_w` with `_g_mask`, `_g_anchor`, `_g_out`; `context` is `_main_x` with `_ctx_mask` | fill, capture or its failure, embed, one stage, sample, hand out |
| `DraftProofs` | | | the inductive invariants and the theorems of both |
| `DsmlSplit` | `dsv4_dsml_split.py` | none | its functions, as operators |
| `ReasoningStream` | `dsv4_reasoning_tool_aware.py` | `tagSeen`, `pending` are `_tool_tag_seen`, `_content_pending`; `text` is `previous_text` | one action for each of the three cases, and the hand-over |
| `DsmlFacts`, `ReasoningProofs` | | | what the operators of `DsmlSplit` return; the reasoning parser's inductive invariants and theorems |
| `ToolStream` | `deepseekv32_tool_parser_patched.py` | `buffer`, `inCalls`, `active`, `param`, `held` are the parser's fields; `calls`, `content` what was sent | one action for each branch of `_process_streaming_buffer`; `ExtractToolCalls` is the one-shot parser |
| `ToolGrammar` | the outputs the tool parser is written for: what a block of calls derives from | | |
| `ToolReading`, `PipelineReading` | | | the inductive invariants, for such outputs, of the tool parser and of both parsers on one stream |
| `ParserPipeline` | both parsers on one stream, as the front end calls them | `thinking` the mode, `ahead` how far the reasoning has come | a new stream, a delta of reasoning, a delta of the tool parser |
| `ToolProofs`, `ToolReadingProofs` | | | the tool parser's shape and loop, and what its tags and its one-shot half find; what it reads of an output, alone and behind the reasoning parser |
| `MC_*` | | | values for TLC |

### What is abstracted

- `ReadPool`: the bytes of a row are the pair (gather, row). A tally under
  `_tally` is one step; `_left` and `_error`, which `run` writes without that
  lock, are steps of the caller of their own. The executor's queue is not
  there: as many callers as it has threads.
- `EngramLookup`: an id block is a short sequence of numbers; a gather is
  *running*, *done* or *failed*; as many gathers of a table are under way as its
  executor has threads, in any order of completion. A checkpoint is loaded once.
- `Prestage`: batches are never empty and a rank has columns (`OwnCols > 0`);
  an eager verification has no padding. `NgramHashState` and the device's
  stream are external: work on the stream is in order, and a copy to the host waits.
- `Proposer`: the hidden state of a position is (request, position, kept). The
  scheduler is vLLM's and external: every decoding request is scheduled in every
  step, a preempted one sits out the step that preempts it.
- `ReplayBanking`: a line of the trace is (length, rows), as the file has it: no
  request is named, so the harness follows one request at a time.
- `DraftWeights`: a tensor is its name: the module, the leaf and the kind of each, and the
  pieces that the patterns of `load_weights` are looked for in (`Name`, `Matches`): `markov_w1`
  has a `w1` in it, `shared_experts` an `experts` with no dot before it. A file of the checkpoint
  comes whole, files come in any order. The file of the target's layers stands for all of
  them. Which slice of a tensor the rank takes is left out, the sinks' included. The scales of
  `wo_a` are taken to divide its blocks (`_wo_a_weight` warns of others, 193-196).
- `DraftModel`: a row of a tensor is a term: which stage computed it, from which
  rows, at which distances, with which `wo_a`. Norms, hyper-connections and experts act on
  a row alone and are part of the stage. A token is the row it was drawn from
  and the token before it. The confidence of a block, which no caller uses, is left out.
  What a lane without a request computes is read by nobody. A graph replays the operations it
  recorded on the same buffers.
- `ParserPipeline`: vLLM's front end calls the reasoning parser until it says
  that reasoning is over, then the tool parser, first with the content of that
  delta. `MayCut` says whether that delta may end inside a tag of the block (finding 4).
- Parsers: a text is a sequence of pieces, and a tag is two to four of them. A
  cut falls between pieces, not inside one; a tag's first piece is its `<`.
  JSON is pieces too; schema coercion is a mark on the value.

## Runs

| run | question | bounds |
|---|---|---|
| `pool` | are results complete, errors one's own, gathers and slices apart; does the pool implement `GatherContract`; does each gather end; when any worker read may fail | 2 callers, 2 workers, 2 gathers of 1, 3 or 4 rows, O_DIRECT |
| `pool_closing` | does every worker leave when the table is closed at any moment | the same threads, 2 gathers of 1 or 3 rows, buffered reads |
| `pool_caller_fault` | completeness when the caller's own read fails: **violated** | one caller may fail, gathers of 2 or 3 rows |
| `lookup` | are lookups served the ids asked for; errors; capture; do they end | one layer, 3 id blocks (two of one shape), 3 reads, 1 own column of 2 |
| `prestage` | does a step's forward see its own rows, prestaged or not; is every step decided | 2 layers, 3 steps, 3 batches, padding to 2, verification of 3 calls or none |
| `proposer` | are windows recent, lanes one's own, eviction in time; does the replay harness see the same windows | 3 requests in 2 lanes, K = 1, window 2, chunks of 2, prompts of 1 or 3, lengths to 5 |
| `proposer_quiet` | are windows recent when the step that preempts samples nothing: **violated** | 2 requests, K = 2, window 3, chunks of 3, lengths to 7 |
| `reasoning` | does every cut of a clean text give its two sides | texts to 6 pieces, deltas to 3 |
| `reasoning_ends` | does `</think>` before a tag end reasoning: **violated** | texts to 6 pieces, deltas to 4 |
| `pipeline` | does every cut of an output, with or without reasoning before it, give the one-shot calls | the outputs of `MC_ParserPipeline`, deltas of any length, those of reasoning to 13, which is the end tag and all of the shortest output |
| `pipeline_cut` | `StreamAgrees` when the delta that ends reasoning may end inside a tag of the block: **violated** | whole openers only |
| `draft` | has every parameter its tensor, and only its own; are drafts those of the reference for one request | 3 stages, 1 local expert of 2, 2 lanes, window 2, block 3, K = 2, 3 calls |

Why the bounds are enough. *Pool*: 1 row has no helper, 3 rows one slice for
each thread, 4 rows for 3 threads leave the last slice empty; a second gather
meets what the first left behind. Two workers suffice for one to take
two permits, or to be late. *Lookup*: two id
blocks of one shape are what a comparison of shapes cannot tell apart; with
three reads a prefetch is abandoned, another taken for other ids and the fall
back read runs behind both. A rank without
columns submits no read; the theorems cover it.
*Prestage*: two layers so that one is ahead and the
other's read fails; three steps so that rows of two steps before may show.
*Proposer*: three requests in two lanes, so that lanes are handed over and a
window outlives its request; lengths that exceed the window by more than K + 1.
*Parsers*: every text of the bound and every cut, a tag and text on both
sides; every output of the list, in every cut, one stream after another.
*Draft*: a first, a middle and a last stage, because the projections are in the
first and the heads in the last; two lanes, because a row may be read from the
neighbour's block; windows of 0, 1 and 2 rows, because a short one is
right-aligned; K below the block, because the tail of the block is dropped;
three calls, so that a graph of the first is replayed over what the second left.

`CHECK_DEADLOCK FALSE` is in three configurations: `pool_closing`, where a
caller may wait for ever for a worker that left on close (below), and the two of
the reasoning parser, whose stream ends at the bound of the text.

### Properties, by what they are for

- *No silent zeros* (`GatherComplete`), *errors reach their own gather*
  (`ErrorsAreOwn`), *gathers and slices apart* (`OneGatherAtATime`,
  `RowsNotShared`), *every gather ends* (`Settles`), *no thread outlives the
  table* (`WorkersLeave`), all of it as a contract (`KeepsContract`).
- *Rows are those of the ids asked for* (`ServesAsked`) although reads run
  ahead; *errors are raised by who waits* (`AwaitedFailuresRaised`), once
  (`ReadsAwaitedOnce`); *nothing is captured* (`NothingReadUnderCapture`);
  *lookups end* (`LookupsEnd`); the step as a whole (`KeepsForwardContract`,
  `PaddingFinite`), and that it is decided (`StepsDecided`).
- *Windows are the unbroken recent past* (`WindowsRecent`), *keep growing*
  (`WindowsGrow`), *reach their own lane only* (`LanesOwn`), *are evicted*
  (`WindowsBounded`). *The harness shows the proposer's windows* where its trace
  lets it (`HarnessFollows`), and the old banking is right until a position is
  missing, which is what it was replaced for (`OldInStep`).
- *The draft is complete* on every rank, whatever the order of the files and whatever their
  names look like, but for the bias that no file has (`TensorsInPlace`); *batching, padding and the graph change no draft*
  (`DraftsFollowReference`): it compares with a computation of one request
  without lanes, masks or buffers.
- *The two channels are the two sides of the terminator* (`StreamsSplit`),
  *the tag is whole* (`MarkerWhole`), *the one-shot parser agrees*
  (`OneShotAgrees`).
- *The streamed calls are the one-shot calls* (`StreamAgrees`), *nothing sent
  is taken back* (`ArgumentsGrow`), *the parser keeps its place in the output*
  (`KeepsItsPlace`), *no markup in the content, and no text lost but what recovery at the
  invoke drops* (`ContentClean`), *a repaired opener reads as an intact one*
  (`HeadlessSame`), *thoughts stay thoughts* (`ThoughtsWhole`), *the loop of a
  delta ends* (`LoopEnds`).

### Fairness

- Pool: weak fairness of every thread's steps. The operating system
  schedules a thread that can run, a `preadv` returns or raises. Nobody has to
  submit or to close. `_busy` is a plain lock that two callers compete for;
  the gathers of a run are bounded, so weak fairness of the waiting caller is
  enough and no fair lock is assumed.
- Lookup: weak fairness of the lookup that waits and of the table; the second
  is what `Settles` shows of the pool, in its regime.
- Prestage: the same, and weak fairness of the runner's thread and of the
  device. Steps need not come.
- Proposer, draft and parsers: none. `LoopEnds` states the end of the tool parser's
  loop as a rank that falls with every round that goes on.

## Findings

1. **A failed read of the calling thread leaves its workers behind**
   (`pool_caller_fault`, `engram_disk.py:304`). `run` calls `self._slice(0)`
   inside `with self._busy` and nothing else catches its exception: the lock is
   released while helpers of the gather are still awake or have permits waiting.
   The next gather publishes its job, stale decrements reach its `_left`, and it
   returns before its own helpers have read: rows of zeros, the failure lines
   307-309 were written against.
2. **A quiet step keeps the window of a preempted request** (`proposer_quiet`,
   `proposer.py:270`). When the step that preempts a request samples nothing,
   `propose` returns before the eviction of lines 339-341. The request comes
   back with its old window, its length has not jumped, and one row of its new
   prefill is banked behind states of an earlier position.
3. **`</think>` in one delta with a start tag goes to the reasoning channel**
   (`reasoning_ends`, `dsv4_reasoning_tool_aware.py:219`). Case 3 splits at the
   start tag alone and does not look for what ended reasoning before it; lines
   15-17 say "Whichever terminator appears first in the stream splits the output".
4. **The `<` of an invoke is withheld for ever when reasoning ends behind it**
   (`pipeline_cut`, `dsv4_reasoning_tool_aware.py:230`). The delta that ends
   reasoning goes one `<` into the block. The filter of close tags withholds
   that `<` in the reasoning parser, which is never called again; the tool
   parser waits for an invoke for the rest of the stream, and the call is lost.
   `dsv4_dsml_split.py:118-119` says that stripping there "cannot affect
   tool_calls".

Seen while modelling, stated in no run:

- A worker woken after `close` leaves at line 317 without its decrement: a
  gather already submitted may wait for ever on `_done`, holding `_busy`.
  `close` itself does not wait for it. The number of a closed descriptor may be
  given to another file; the model lets every read after the close fail.
- Text withheld by case 3 of the reasoning parser is in no state of the parser:
  if the `<` at the end of a delta turns out to open nothing, case 2 gives out
  the next delta alone and the `<` is lost. A stray `</think>` cut behind its `<`
  loses the `<` to the split of start tags and passes the filter.
- The one-shot tool parser repairs an opener that lost its `<`, not one that
  lost more (217-224); streaming recovers both. It drops text behind the block
  (258-259), which streaming sends.
- A wrapper outside the schema followed by other parameters: streaming takes
  the wrapper off (399-409), the one-shot parser only if it stands alone (167-179).
- Anything but a tag between invokes or parameters is waited on for ever (540,
  603). The tail withheld outside a block is given out by an empty last
  delta only (672). A tail of an opener of fewer than four characters is sent as text.
- The object of a parameter is streamed as it comes, also when it does not parse.
- An end tag in the delta whose opener was lost: the split takes the
  `DSML|tool_calls>` of the end tag for an opener that lost its `<`, which the tool parser
  guards against (459-460, 474-478) and `dsv4_dsml_split.py` (28-29, 62-70) does not. If
  `</think>`, what is left of such an opener and the whole block come in one delta, the calls
  go to the reasoning. `~MayCut` excludes it (`EndTaken`). `</think>` and a `<` in one
  delta go to the reasoning channel, as in finding 3.
- Recovery at the invoke drops all of the buffer before it (462-464): the words of the
  content that came in one delta with a truncated opener and its invoke, and those alone, are lost.
- `proposer.py:81-84` describes a gap of 0 between window and anchor, the code of
  148-152 has 1; `v4_aux_patch.py:19-20` speaks of a shift that 118-120 of the
  proposer does not make. `DraftsFollowReference` takes the code's distances.
- `_dspark_aux_T` is written by Python and is stale when the target's graph is replayed; lines
  259-261 of the proposer therefore do not read it.
- With K above the block size the copy of the drafts would not fit (343-349);
  `DraftAssumption` excludes it. More requests than `max_num_seqs` have no lane.
- `confidence_threshold` is read and `heads.py:84-89` says that the block is cut by it, but
  `confident_prefix_length` has no caller.
- The `proj` of the confidence head is a `Linear` with a bias (`heads.py:94`), and line 89 there
  names `proj.weight` alone of the checkpoint: the
  bias stays as PyTorch made it, at random, and `load_weights` does not notice. No draft depends on
  it, since `proposer.py:163` throws the confidence away. `TensorsInPlace` says that this parameter
  (`NoTensor`) is unwritten, and no other.
- A call that gives a parameter twice: streaming sends both, the dict of the one-shot parser (151-157)
  keeps the last value at the place of the first, so the arguments differ.
- `wo_a` is dequantised once: a second `load_weights` would find it reformatted.
- `replay_banking.py` keeps `prev` across requests and `parse_trace` reads no
  request: a second request that begins at a length the first was about to reach is
  taken for it.
- `vl41-build-image.sh:76` says "Fail loudly if absent"; lines 80-84 fall back
  to `torch.ops._C`. The launcher polls box 0 of its table, not the box of rank
  0 (207, 210); in the default order they are the same.

## Proofs

`tlapm` proves the following for every value of the constants: any number of
callers and workers (finitely many workers), any requests, any layers (finitely
many for a step), columns, id blocks and batches, any window, lanes and depth of
speculation, any bound.

| theorem | states | assumes |
|---|---|---|
| `ReadPoolProofs!TypeCorrect` | `Spec => []TypeOK` | nothing: failing reads and `close` included |
| `ReadPoolProofs!Invariance` | `Spec => []IInv` | `Regime` |
| `ReadPoolProofs!NoSilentZeros` | `Spec => []GatherComplete` | `Regime` |
| `ReadPoolProofs!OwnErrors` | `Spec => []ErrorsAreOwn` | `Regime` |
| `ReadPoolProofs!OneGather` | `Spec => []OneGatherAtATime` | `Regime` |
| `ReadPoolProofs!RowsApart` | `Spec => []RowsNotShared` | `Regime` |
| `ReadPoolProofs!Implements` | `Spec => KeepsContract` | `Regime` |
| `EngramProofs!LookupInvariance` | `Spec => []LookupInv` | nothing |
| `EngramProofs!LookupTypes` | `Spec => []TypeOK` | nothing |
| `EngramProofs!LookupServesAsked` | `Spec => []ServesAsked` | nothing |
| `EngramProofs!LookupFailures` | `Spec => []AwaitedFailuresRaised` | nothing |
| `EngramProofs!LookupAwaitsOnce` | `Spec => ReadsAwaitedOnce` | nothing |
| `EngramProofs!LookupNotCaptured` | `Spec => NothingReadUnderCapture` | nothing |
| `EngramProofs!StepInvariance` | `StepSpec => []StepInv` | nothing |
| `EngramProofs!StepTypes` | `StepSpec => []StepTypeOK` | nothing |
| `EngramProofs!PaddingWritten` | `StepSpec => []PaddingFinite` | nothing |
| `EngramProofs!ForwardImplements` | `StepSpec => KeepsForwardContract` | nothing |
| `ProposerProofs!BankInvariance` | `Spec => []BankInv` | nothing |
| `ProposerProofs!ProposerTypes` | `Spec => []TypeOK` | nothing |
| `ProposerProofs!WindowsEvicted` | `Spec => []WindowsBounded` | nothing: quiet steps included |
| `ProposerProofs!WindowsAlwaysGrow` | `Spec => WindowsGrow` | nothing |
| `ProposerProofs!WindowsStayRecent` | `Spec => []WindowsRecent` | `~QuietSteps` |
| `ProposerProofs!LanesStayOwn` | `Spec => []LanesOwn` | `~QuietSteps` |
| `ProposerProofs!HarnessInvariance` | `ReplaySpec => [](BankInv /\ RecentInv /\ HarnessInv)` | `~QuietSteps` |
| `ProposerProofs!HarnessAlwaysFollows` | `ReplaySpec => []HarnessFollows` | `~QuietSteps` |
| `ProposerProofs!OldStaysInStep` | `ReplaySpec => []OldInStep` | `~QuietSteps` |
| `DraftProofs!TensorsAreInPlace` | `DraftSpec => []TensorsInPlace` | nothing |
| `DraftProofs!DraftTypeCorrect` | `DraftSpec => []DraftTypeOK` | nothing |
| `DraftProofs!DraftsFollow` | `DraftSpec => []DraftsFollowReference` | nothing |
| `ReasoningProofs!ReasoningTypeCorrect` | `Spec => []TypeOK` | nothing |
| `ReasoningProofs!MarkerStaysWhole` | `Spec => []MarkerWhole` | nothing |
| `ReasoningProofs!StreamsSplitCleanly` | `Spec => []StreamsSplit` | `CLOSE \notin Tokens` |
| `ReasoningProofs!StreamsAsOneShot` | `Spec => []OneShotAgrees` | `CLOSE \notin Tokens` |
| `ToolProofs!ToolTypeCorrect` | `Spec => []TypeOK` | nothing |
| `ToolProofs!ToolLoopEnds` | `Spec => LoopEnds` | nothing |
| `ToolReadingProofs!ToolHeadlessSame` | `Spec => []HeadlessSame` | `OneOpener` |
| `ToolReadingProofs!ToolStreamAgrees` | `Spec => []StreamAgrees` | `WellFormedOutputs` |
| `ToolReadingProofs!ToolArgumentsGrow` | `Spec => []ArgumentsGrow` | `WellFormedOutputs` |
| `ToolReadingProofs!PipeTypeCorrect` | `PipeSpec => []TypeOK` | nothing |
| `ToolReadingProofs!PipeLoopEnds` | `PipeSpec => LoopEnds` | nothing |
| `ToolReadingProofs!PipeHeadlessSame` | `PipeSpec => []HeadlessSame` | `OneOpener` |
| `ToolReadingProofs!PipeStreamAgrees` | `PipeSpec => []StreamAgrees` | `PlainOutputs`, `~MayCut` |
| `ToolReadingProofs!PipeArgumentsGrow` | `PipeSpec => []ArgumentsGrow` | `PlainOutputs`, `~MayCut` |
| `ToolReadingProofs!PipeThoughtsWhole` | `PipeSpec => []ThoughtsWhole` | `PlainOutputs`, `~MayCut` |
| `ReadPoolProofs!StartMarksOwned` | a start is negative for other ranks' rows only | sizes are positive |
| `ReadPoolProofs!RowCovered` | the aligned read contains the row | sizes are positive |

The assumptions are those the modules name (`ThreadsAssumption`,
`RequestsAssumption`, `ShapeAssumption`, `StepAssumption`, `ProposerAssumption`,
`WeightsAssumption`, `DraftAssumption`, `StreamAssumption`, `OutputAssumption`,
`ParamsAssumption`, `DeltaAssumption`, `ThoughtsAssumption`), which TLC evaluates in the
runs: sizes are numbers, a missing expert is no expert, the schema gives a parameter one
kind, outputs and thoughts are sequences; "sizes are positive" is `AddressAssumption`, a hypothesis of
its two theorems.
`Regime` says that the callers' own reads succeed and the table is not closed
under a gather. It is needed: finding 1 is a behaviour outside it that breaks
`GatherComplete`, `OneGatherAtATime` and `IInv`. Reads of workers fail freely in it.
`~QuietSteps` says that a step that preempts a request samples another; it is
needed because of finding 2.
`CLOSE \notin Tokens` says that `</think>` comes as the one token `END`, which is what the
upstream parser looks for. It is needed: with `CLOSE` a token of its own TLC finds a text
`</think>` that the stream leaves in the reasoning and the one-shot parser, which searches the
text, does not. The run `reasoning` has no such token.

`WellFormedOutputs` says that every output derives from a list of calls as `ToolGrammar`
has it: any number of calls and parameters, any values, spaces where the template has them,
an opener that lost any part of its head, text around the block. `OneOpener` is the part of
it about the opener alone. They are needed: of a malformed output the two halves of the
parser may make different calls (above). What a value may not hold is its own end tag, a
lone wrapped object may not have company, and no call gives a parameter twice.
`PlainOutputs` adds, for the theorems behind the reasoning parser, that no value holds the
marker of a start tag or `</think>`: the first ends reasoning a second time in the text the
reasoning parser splits, the second its filter takes out of the delta that ends reasoning.
`~MayCut` says that the delta that ends reasoning does not end inside a tag of the block, and
is not one in which the block's end tag is taken for a start tag that lost its `<` (`EndTaken`: the
opener has lost more, and reasoning ends at its end tag); it is needed because of finding 4. The configuration `ParserPipeline.cfg` satisfies all of them, as TLC
evaluates (`OutputsWellFormed`, `MayCut = FALSE`).

`GatherComplete` is far from inductive: it speaks of results already
returned. `IInv` adds what makes the return safe:

1. *Who holds the lock* (`BusyHeld`): the callers between `publish` and `wait`
   are exactly the holder of `_busy`.
2. *The count* (`Quiet`, `Count`): while a gather is published, `_left` is the
   permits still to release, those released and the workers active; the claims
   are counted the same way; between gathers there is none of them. So when
   `_done` is set nobody is active, and every slice has been claimed.
3. *The job* (`JobCurrent`, `LocalsCurrent`): the published job, and the job
   every thread in a slice took, are the holder's.
4. *The rows* (`RowsAccounted`): each owned row is in place, or an error is
   recorded, or some thread or some unclaimed slice has yet to read it
   (`ToRead`). `SlicesCover` shows that the slices reach the last row.
5. *The errors* (`NumbersOwn`, `ErrorCurrent`): `_error` tells of a failed
   read of the published gather and of no other.

At `Return` nobody is active (2), no slice is unclaimed (2 and `SlicesCover`) and
there is no error, so every row is in place (4): `ReturnComplete`. The step
of each conjunct is a lemma of its own (`CountStep`, `JobStep`, `LocalsStep`,
`RowsStep`, `FaultsStep`), split by action. `Implements` maps `Call` to
`Ask`, `Return` to `Deliver` (by `ReturnComplete` and `ErrorCurrent`), `Raise` to
`Refuse`, a worker's failed read to `ReadError` of the holder, and shows the
other steps to be stutters.

`RowsNotShared` needs the slices beside: in a gather no two workers hold the
same claim, a claim held is below the counter and not the caller's 0, and the
rows a thread has left lie between `part * step` and the next slice
(`PartsApart`). A new gather resets the counter when nobody is in a slice
(`PublishAlone`, from the count). Slices of different claims are disjoint.

The invariant of the lookup, `LookupInv`, is about whose rows a read holds. A
prefetch outstanding has a key that is a copy, and its gather reads by that
key (`PendingOwn`); while a lookup waits its buffer is not refilled and nothing
is outstanding (`CallCurrent`); so a finished read holds the rows of its
copied ids, or, if they were not copied, those of the lookup that waits for it
(`RowsOfKey`). Of the reads waited for all but the last have succeeded
(`AwaitedInOrder`). `PaddedGathered` turns the rows of the ids into the answer.
The two action properties follow from the same invariant: an outstanding
prefetch is newer than every read waited for, and no lookup is under way in a
capture. It has one step lemma for each action; `OneLayer` and `SameLayer` carry
the other layers.

The stager rests on that invariant and on `RunnerInv`. Layers are staged in order, and
all of them before the forward of a prestaged step (`StagedBefore`). The device
is at most one forward behind, and not at all once the runner has been past a
copy to the host, which drains the stream (`DeviceBehind`): so the rows a late
forward reads are still those staged for it. Only the runner's step and the
device's are undecided (`OthersDecided`). `ForwardImplements` maps the decisions to
those of `ForwardContract`; a forward that computes has its own rows by `StagedFor`, or by
`ServesAsked` when it looks up itself, and a verification that compared found
what the lookup gives, so it never raises.

The proposer has two invariants. `BankInv` holds in every behaviour: at most
`MaxBatch` requests run, what they sampled fits their block, and what is kept
of them after an eviction is at most what was in the batch. `RecentInv` holds
without quiet steps. A window is an unbroken run that ends at `prev - 2`
(`WindowsRun`). Between steps, every window is that of a decoding request banked
at its present length, or its request waits for the step that evicts it
(`WindowsUsed`). When `propose` starts, each block either begins a window that does not
exist, or goes on exactly behind the window (`BlocksCurrent`); both branches of the
code then give a run again. `WindowsUsed` is what a quiet step breaks.

The harness reads the lines of one `propose` as a fold over the batch. `HarnessInv` says
that a request it follows has a window in the proposer, that `prev` is the length of its
last line, and that both windows are runs of the same size which end where that length
says (`Holds`). The fold is taken apart by induction over how many lines have been read
(`RunOn`, `ReplayUnfolds`): a line of another request ends the following, a line of the
request itself is a step of `propose` on it, and by `RecentInv` both bank the same
positions. `ReplaySpec` implies `Spec`, so every theorem of the proposer holds under it.

The loading of the draft has `LoadInv`: what is written is exactly what the files that have
come send there, and no load raises. Beside it, lemmas about the names: what is found in a name by
its pieces (`ModuleFound` and the like), hence which of the four patterns takes a tensor
(`AttnFound`, `SharedExpertsFound`, `ExpertsNotFound`, `OthersNotFound`); and about `Destination`:
each shard but the bias of the confidence head is that of one tensor, of its own stage or of none. `DraftInv` follows a call of the draft through its steps: the
lanes and anchors are those of the call, the context of every stage is the lanes once the
stream is embedded, and before stage s each row of the stream is the reference's for its own lane
(`ReferenceRows`). What a stage attends to is the same set of keys although the reference
has no masks: distances from the anchor agree, the masked slots are left out, and
`RowOf` is injective. That `wo_a` is the dequantised one is `LoadInv`'s. The blocks are
equal by induction over their places.

For the parsers, `DsmlFacts` has what the operators of `DsmlSplit` return for texts
of any length: the first occurrence of a tag, what may be withheld, that taking close tags
out leaves start tags whole. `ReasoningInv` says that the latch is set exactly when a tag is in
the text, as long as the parser sees the text, and that the content holds a whole tag
from then on: the filter withholds at most a trailing `<`, which no start tag
ends in.

That the channels are the two sides of the terminator (`StreamsSplit`) is about clean
texts only, and a clean text has grown out of texts that were not: a prefix may end inside a
tag. `StreamInv` therefore speaks of *tidy* texts, a condition on neighbouring pieces that
every prefix inherits (`TidyBefore`; `CleanTidy` shows it the weaker one). A tidy text is in
one of three phases (`Phases`): before any terminator, behind the close tag at `c`, or behind
the start tag whose marker is at `d`; and so was each of its prefixes, or it was before
any terminator. In the first, reasoning is what the text shows, the partial tag at its end
held back (`HeldIs` says what that is); in the second, the channels are the text before and
behind the tag; in the third, those of the split of the whole text, its content without close tags. Each
phase has its step lemma (`ThinkingStep`, `EndedStep`, `OpenedStep`): nothing is held back when
a close tag comes (`NoneHeld`), no tag begins before what was already shown (`ShownGrows`), the
split of a text goes on with what comes behind it (`SplitContinues`), and the filter takes from
two deltas what it takes from the two joined, unless a tag lies across them
(`WithoutCloseJoins`, `FilterAll`). What the channels hold in a phase is what
`StreamsSplit` asks, and what the one-shot parser returns.

`ToolInv` ties the fields of the tool parser to each other: the call under way is the last
one, and a parameter is under way in a call only. A round that goes on takes pieces off
the buffer, or puts one on and finds the whole opener in the next: `Rank` falls (`Nearer`).
`PipeInv` adds that the reasoning parser's content, with which the tool parser begins, is a text.

That the streamed calls are the one-shot calls rests on `Reading` (`ToolReading`), which says
where in the derivation of an output the parser is: before the block, its opener in one of the three
states of disrepair (`Opening`); between two calls (`Between`); in a call after i of its
parameters (`WithinCall`); in a value, of which a part has been sent or kept (`InValue`); or behind
the block (`ReadAll`). In each, what is left of the output, in the buffer or still to come, is
what the derivation has left, and the calls sent are those of the part read. `StreamAgrees`
is not inductive without it: it speaks of the end alone. Every branch of the loop is
shown to go from one place to the next, and a branch that waits to wait for something that is to come: so
when all has been fed the parser is behind the block.
This needs what the searches of the code find in a text of which a part is known only: that a
tag found in the buffer is the next one of the derivation, that none is missed across two
deltas, that what is withheld is at least what a tag may begin with (`SafeLen`, `Sendable`),
and that a tail of an opener is never mistaken (`ToolProofs`, on `DsmlFacts`). The other
half is the one-shot parser: what `FindAll` finds in such a text is each call and each parameter of
the derivation, one after another, so its calls are `CallsIn`. `ArgumentsGrow` follows
from the same place: the arguments after i parameters, and part of a value, are a
prefix of the whole call's.

Behind the reasoning parser the place of both is `PipeReading` (`PipelineReading`). While
reasoning goes on (`StillThinking`) its channel has the thoughts that have come, and of the
output there is no more than the front of an opener, which is withheld as a partial tag
(`PlainThink`). One delta ends it. If the end tag of the thoughts is in it, what came of the
output behind that tag is handed over as it came, or with its tag put whole, or, when it is
the front of an opener and no more, not at all (`EndThink`). If a start tag ends it, the
hand-over is the whole tag and what came behind its marker. In each case the hand-over with
what is still to come is the output, its opener repaired or short of more of its head: the
tool parser begins there (`OpenerAhead`), as it would have with a delta of its own. That
needs that no second tag is in the text, none is withheld at the end of the delta, and none
is taken out as a close tag, which is where `PlainOutputs` and `~MayCut` are used
(`EndHasCome`, `GivenReads`). From there on `Reading` goes on as it does alone: `Awaits`
says that a tool parser that has been given nothing awaits the opener, however it comes.

Induction over numbers is a lemma about sets (`SetInduction`), proved from the least element
that the well-founded order of the numbers gives; the library's induction theorems take an operator,
which the installed provers cannot instantiate. With it what `FlattenSeq`, the
folds and the recursive function of `FindAll` return is proved for every length.

Only model-checked: liveness (`Settles`, `WorkersLeave`, `LookupsEnd`,
`StepsDecided`), which the prover cannot do; the pool under `close`, but for its types;
the content of the tool parser's stream (`ContentClean`).
The invariants above were checked with TLC on the instances of the runs before they were
proved.

## Not modelled

- The capture of auxiliary states (most of `v4_aux_patch.py`): copies of tensors into a
  static buffer inside the target's forward. What it leaves for the proposer is an
  input of `Proposer`.
- The mathematics of the draft's layers, and the confidence head, which nothing
  acts on.
- `gen_synthetic` and `summarize` of `replay_banking.py`: one fixed trace, and printing.
- The alignment probe of the table and the decoding of fp8 values.
- The launcher and the fabric scripts: they keep no state of their own and run one
  command after another; what may go wrong between two of them is state of docker
  and vLLM on four machines, which the repository does not hold.
- Image builds, textual patch scripts, the operator shim: sequential set-up of a
  tree or an image; the code they patch is not in the repository.
- The repository's self-tests, which were read for what they expect of the code.

Two informal checks went beyond the listed mutants: left-aligned lanes, a token drawn
after the anchor alone, an uncached `wo_a`, and blocks interleaved between lanes each
violate `DraftsFollowReference`.

## Plan

Done, in this order: `ReadPool` with its contract, invariant and proofs;
`EngramLookup` with its invariant and proofs; `Prestage` on top of it; `Proposer`; `DsmlSplit`,
`ReasoningStream`, `ToolStream`; `RowAddress`; then `DraftWeights` and
`DraftModel`, `ParserPipeline`, `ReplayBanking`, and the proofs of the
slices, the stager and the proposer; then the proofs of the draft, of the replay
harness, of the reasoning parser (its latch, then its channels), of the tool parser's loop,
of what it reads, and of what both read on one stream.

To come:

1. An invariant for `ContentClean`: where in the text before and behind the block the content is.
2. Proofs about the pool under `close`: that what is outstanding is bounded by
   the workers that left.
3. The launcher's rank table and health poll, if its order can be derived from
   the machines' answers.
