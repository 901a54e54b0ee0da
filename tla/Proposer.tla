------------------------------ MODULE Proposer ------------------------------
(***************************************************************************)
(* DSparkProposer.propose (src/dspark/proposer.py): the window of          *)
(* auxiliary hidden states kept for each request, and the lanes of the     *)
(* draft graph filled from it.                                             *)
(*                                                                         *)
(* The runner around it is vLLM's, known from how propose() uses it: a     *)
(* step forwards a block of each scheduled request (a chunk of what is     *)
(* still to be computed, or the last token followed by drafts), samples    *)
(* the requests whose block reached their end, and calls propose().        *)
(* A row of the auxiliary buffer is abstracted to the request and position *)
(* it was computed for, and whether the token there was kept.              *)
(***************************************************************************)
EXTENDS Integers, Sequences, FiniteSets

CONSTANTS
    Requests,      \* request ids, integers: batches list them in order
    PromptLengths, \* lengths a request may arrive with
    K,             \* num_speculative_tokens
    WindowSize,    \* window_size
    MaxBatch,      \* max_num_seqs
    MaxChunk,      \* bound on the tokens a prefill forwards in a step
    MaxLength,     \* bound on the length of a request
    MayPreempt,    \* TRUE when a request may be preempted
    QuietSteps     \* TRUE when a step that preempts may sample nothing

ASSUME ProposerAssumption ==
    /\ Requests \subseteq Nat
    /\ PromptLengths \subseteq Nat \ {0}
    /\ K \in Nat /\ MaxLength \in Nat
    /\ WindowSize \in Nat \ {0} /\ MaxBatch \in Nat \ {0} /\ MaxChunk \in Nat \ {0}
    /\ MayPreempt \in BOOLEAN /\ QuietSteps \in BOOLEAN

VARIABLES
    status,    \* per request: where the scheduler has it
    length,    \* per request: its tokens, num_tokens_no_spec
    computed,  \* per request: the positions forwarded or cached
    drafted,   \* per request: it has drafts to verify
    phase,     \* whose turn it is: the runner's or propose()'s
    aux,       \* per request: its block in _dspark_aux_buffer
    sampled,   \* per request: how many tokens it sampled in this step
    win,       \* `_win`
    lanes      \* `_g_w`, `_g_mask` and `_g_anchor`

schedVars == <<status, length, computed>>
stepVars == <<aux, sampled>>
draftVars == <<win, lanes>>
vars == <<schedVars, drafted, phase, stepVars, draftVars>>

MinOf(a, b) == IF a =< b THEN a ELSE b
LastOnes(s, n) == SubSeq(s, Len(s) - MinOf(n, Len(s)) + 1, Len(s))

HiddenState(r, pos, kept) == [req |-> r, pos |-> pos, kept |-> kept]

\* A slot of a lane whose mask is -inf, and the anchor of a lane not in use.
Masked == [req |-> 0, pos |-> 0, kept |-> FALSE]
Noise == <<0, 0>>
BlankLane == [slots |-> [j \in 1 .. WindowSize |-> Masked], anchor |-> Noise]

Running == {r \in Requests : status[r] = "running"}
BeingPreempted == {r \in Requests : status[r] = "preempted"}

Init ==
    /\ status = [r \in Requests |-> "new"]
    /\ length = [r \in Requests |-> 0]
    /\ computed = [r \in Requests |-> 0]
    /\ drafted = [r \in Requests |-> FALSE]
    /\ phase = "runner"
    /\ aux = [r \in Requests |-> <<>>]
    /\ sampled = [r \in Requests |-> 0]
    /\ win = <<>>
    /\ lanes = [i \in 1 .. MaxBatch |-> BlankLane]

-----------------------------------------------------------------------------
(* The runner.                                                             *)

\* A request is admitted, or a preempted one resumed.  A prefix of it may be
\* in the cache, never its last token.
Admit(r) ==
    /\ phase = "runner" /\ BeingPreempted = {}
    /\ status[r] \in {"new", "waiting"}
    /\ Cardinality(Running) < MaxBatch
    /\ status' = [status EXCEPT ![r] = "running"]
    /\ \E n \in IF status[r] = "new" THEN PromptLengths ELSE {length[r]} :
         /\ length' = [length EXCEPT ![r] = n]
         /\ \E cached \in 0 .. n - 1 : computed' = [computed EXCEPT ![r] = cached]
    /\ UNCHANGED <<drafted, phase, stepVars, draftVars>>

\* A step may preempt a request to run the others.  The request loses its
\* cache and its drafts, and sits out that step.
Preempt(r) ==
    /\ MayPreempt
    /\ phase = "runner" /\ BeingPreempted = {}
    /\ status[r] = "running"
    /\ Running # {r}
    /\ \A q \in Running : length[q] < MaxLength
    /\ QuietSteps \/ \E q \in Running \ {r} : length[q] - computed[q] =< MaxChunk
    /\ status' = [status EXCEPT ![r] = "preempted"]
    /\ computed' = [computed EXCEPT ![r] = 0]
    /\ drafted' = [drafted EXCEPT ![r] = FALSE]
    /\ UNCHANGED <<length, phase, stepVars, draftVars>>

Finish(r) ==
    /\ phase = "runner" /\ BeingPreempted = {}
    /\ status[r] = "running"
    /\ status' = [status EXCEPT ![r] = "finished"]
    /\ UNCHANGED <<length, computed, drafted, phase, stepVars, draftVars>>

\* A block of n tokens: a chunk of those not computed yet, or the last token
\* and drafts, of which `accepted` are kept.
Blocks(r) ==
    {b \in [n : 1 .. MaxChunk, accepted : 0 .. K] :
        \/ b.n =< length[r] - computed[r] /\ b.accepted = 0
        \/ drafted[r] /\ computed[r] = length[r] - 1 /\ b.accepted < b.n /\ b.n =< K + 1}

\* How many tokens a block samples: none before it reaches the end.
Samples(r, b) == IF computed[r] + b.n >= length[r] THEN b.accepted + 1 ELSE 0

\* The capture of v4_aux_patch.py: one row for each token of the block.
AuxBlock(r, b) ==
    [j \in 1 .. b.n |->
        HiddenState(r, computed[r] + j - 1, computed[r] + j - 1 < length[r] + b.accepted)]

Forward ==
    /\ phase = "runner"
    /\ \E batch \in (SUBSET Running) \ {{}} :
       \E block \in [batch -> UNION {Blocks(r) : r \in batch}] :
         /\ \A r \in batch : /\ block[r] \in Blocks(r)
                             /\ length[r] + Samples(r, block[r]) =< MaxLength
         /\ \A r \in Running : drafted[r] => r \in batch
         /\ \/ QuietSteps \/ BeingPreempted = {}
            \/ \E r \in batch : Samples(r, block[r]) > 0
         /\ sampled' = [r \in Requests |->
                          IF r \in batch THEN Samples(r, block[r]) ELSE 0]
         /\ aux' = [r \in Requests |->
              IF r \in batch THEN AuxBlock(r, block[r]) ELSE <<>>]
         /\ length' = [r \in Requests |-> length[r] + sampled'[r]]
         /\ computed' = [r \in Requests |->
              IF r \notin batch THEN computed[r]
              ELSE IF sampled'[r] > 0 THEN length'[r] - 1
              ELSE computed[r] + block[r].n]
         /\ drafted' = [r \in Requests |-> drafted[r] /\ r \notin batch]
    /\ status' = [r \in Requests |->
                    IF status[r] = "preempted" THEN "waiting" ELSE status[r]]
    /\ phase' = "propose"
    /\ UNCHANGED draftVars

-----------------------------------------------------------------------------
(* propose().                                                              *)

Known(r) == r \in DOMAIN win

\* First call, drop, or jump of more than k + 1 (line 304).
IsNewSeq(r) ==
    \/ ~Known(r)
    \/ length[r] =< win[r].prev
    \/ length[r] - win[r].prev > K + 1

\* The tail of the block just forwarded (lines 308-309).
Seed(r) == LastOnes(aux[r], WindowSize)

\* (Mutant) the whole block is banked, rejected drafts included.
BankAll(r) == LastOnes(win[r].window \o aux[r], WindowSize)

\* (Mutant) the window is not cut to its size.
BankUncut(r) ==
    win[r].window \o SubSeq(aux[r], 1, MinOf(length[r] - win[r].prev, Len(aux[r])))

\* The front of the block: the anchor and the accepted drafts (315-323).
Bank(r) ==
    LET new == MinOf(length[r] - win[r].prev, Len(aux[r]))
    IN  LastOnes(win[r].window \o SubSeq(aux[r], 1, new), WindowSize)

\* (Mutant) every step starts the window anew.
ResetStorm(r) == Seed(r)

NewWindow(r) == IF IsNewSeq(r) THEN Seed(r) ELSE Bank(r)

Seen == {r \in Requests : sampled[r] > 0}

\* (Mutant) nothing is evicted.
KeepAll == DOMAIN win \cup Seen

\* Only the requests that sampled in this call are kept (lines 339-341).
Kept == Seen

Banked(keep) ==
    [r \in keep |-> IF r \in Seen THEN [window |-> NewWindow(r), prev |-> length[r]]
                                  ELSE win[r]]

\* The batch lists the scheduled requests in order; each has a lane.
Scheduled == {r \in Requests : aux[r] # <<>>}
LaneOf(r) == Cardinality({q \in Scheduled : q =< r})

\* The anchor is the last token the request sampled.
Anchor(r) == <<r, length[r] - 1>>

\* (Mutant) the lanes keep what this call does not write.
LanesKept(i) == lanes[i]

\* Every lane is blanked first (lines 205-207).
LaneBefore(i) == BlankLane

\* A window lies at the right end of its lane.
FilledLane(old, w, anchor) ==
    [slots |-> [j \in 1 .. WindowSize |->
                  IF j > WindowSize - Len(w) THEN w[j - WindowSize + Len(w)]
                  ELSE old.slots[j]],
     anchor |-> anchor]

\* Nothing sampled: propose() returns before it looks at any window.
ProposeNothing ==
    /\ phase = "propose"
    /\ Seen = {}
    /\ phase' = "runner"
    /\ UNCHANGED <<schedVars, drafted, stepVars, draftVars>>

Propose ==
    /\ phase = "propose"
    /\ Seen # {}
    /\ win' = Banked(Kept)
    /\ lanes' = [i \in 1 .. MaxBatch |->
         IF \E r \in Seen : LaneOf(r) = i
         THEN LET r == CHOOSE q \in Seen : LaneOf(q) = i
              IN  FilledLane(LaneBefore(i), win'[r].window, Anchor(r))
         ELSE LaneBefore(i)]
    /\ drafted' = [r \in Requests |-> drafted[r] \/ r \in Seen]
    /\ phase' = "runner"
    /\ UNCHANGED <<schedVars, stepVars>>

\* Every request has come and gone, or has come to the bound of its length.
Finished ==
    /\ phase = "runner"
    /\ \A r \in Requests : status[r] = "finished"
    /\ UNCHANGED vars

Next ==
    \/ \E r \in Requests : Admit(r) \/ Preempt(r) \/ Finish(r)
    \/ Forward
    \/ ProposeNothing
    \/ Propose
    \/ Finished

Spec == Init /\ [][Next]_vars

-----------------------------------------------------------------------------
TypeOK ==
    /\ status \in [Requests -> {"new", "running", "preempted", "waiting", "finished"}]
    /\ length \in [Requests -> Nat]
    /\ computed \in [Requests -> Nat]
    /\ drafted \in [Requests -> BOOLEAN]
    /\ phase \in {"runner", "propose"}
    /\ sampled \in [Requests -> 0 .. K + 1]
    /\ DOMAIN win \subseteq Requests
    /\ \A r \in DOMAIN win : Len(win[r].window) \in 1 .. WindowSize /\ win[r].prev \in Nat

\* The states of the positions `length - 1 - n` to `length - 2` of a request.
\* The last token has not been forwarded.
Recent(r, n) == [j \in 1 .. n |-> HiddenState(r, length[r] - 1 - n + j - 1, TRUE)]

\* After propose() the window of a request is the unbroken run of its most
\* recent confirmed hidden states: none is missing, repeated, or that of a
\* rejected draft (the contiguity check of replay_banking.py:86-88).
WindowsRecent ==
    phase = "runner" =>
        \A r \in Seen : win[r].window = Recent(r, Len(win[r].window))

\* A request that goes on decoding never loses context: its window grows by
\* what it confirmed until it is full (replay_banking.py:21-23).
WindowsGrow ==
    [][\A r \in DOMAIN win :
         (Propose /\ r \in Seen /\ win[r].prev = length[r] - sampled[r]) =>
             Len(win'[r].window) = MinOf(WindowSize, Len(win[r].window) + sampled[r])]_vars

Owners(i) == {r \in Seen : LaneOf(r) = i}
ShownIn(i) == {lanes[i].slots[j] : j \in 1 .. WindowSize} \ {Masked}
WindowStates(r) == {win[r].window[j] : j \in DOMAIN win[r].window}

\* The draft graph sees, for each request that sampled, its window and its
\* anchor, and nothing of a request that has left or had the lane before.
LanesOwn ==
    (phase = "runner" /\ Seen # {}) =>
        \A i \in 1 .. MaxBatch :
            /\ ShownIn(i) = UNION {WindowStates(r) : r \in Owners(i)}
            /\ lanes[i].anchor \in IF Owners(i) = {} THEN {Noise}
                                   ELSE {Anchor(r) : r \in Owners(i)}

\* No more windows are kept than requests can run at a time.
WindowsBounded == Cardinality(DOMAIN win) =< MaxBatch
=============================================================================
