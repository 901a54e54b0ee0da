---------------------------- MODULE ReplayBanking ----------------------------
(***************************************************************************)
(* The replay harness of src/dspark/replay_banking.py, fed with the trace  *)
(* that propose() writes: one line (seqlen, n_in) for each request that    *)
(* sampled, in the order of the batch, without the request's name.         *)
(* replay_new keeps a window of positions, replay_old the length of one.   *)
(***************************************************************************)
EXTENDS Proposer, SequencesExt

VARIABLES
    new,   \* of replay_new: prev, and win
    old,   \* of replay_old: banked, and win as a length
    line   \* of the last line: its request, and whether the harness can know of it

replayVars == <<vars, new, old, line>>

NoLine == -1

ReplayInit ==
    /\ Init
    /\ new = [prev |-> NoLine, win |-> <<>>]
    /\ old = [banked |-> 0, win |-> 0]
    /\ line = [req |-> NoLine, followed |-> FALSE, inStep |-> FALSE]

Positions(first, n) == [j \in 1 .. n |-> first + j - 1]

-----------------------------------------------------------------------------
(* replay_new, for one line (lines 69-85).                                 *)

NewStarts(h, seqlen) ==
    h.prev = NoLine \/ seqlen =< h.prev \/ seqlen - h.prev > K + 1

\* (Mutant) the anchor is counted from prev.
LateAnchor(h, n) == Positions(h.prev, n)

Confirmed(h, n) == Positions(h.prev - 1, n)

StepNew(h, seqlen, n_in) ==
    LET seed == MinOf(n_in, WindowSize)
        n == MinOf(seqlen - h.prev, n_in)
    IN  [prev |-> seqlen,
         win |-> IF NewStarts(h, seqlen) THEN Positions(seqlen - 1 - seed, seed)
                 ELSE LastOnes(h.win \o Confirmed(h, n), WindowSize)]

(* replay_old, for one line (lines 38-52).                                 *)

OldResets(h, seqlen) == seqlen - 1 - h.banked \notin 1 .. K + 1

\* (Mutant) a reset forgets the window but not what was banked.
KeepsBanked(h, seqlen) == h.banked

BankedBefore(h, seqlen) == IF OldResets(h, seqlen) THEN 0 ELSE h.banked

StepOld(h, seqlen, n_in) ==
    LET before == BankedBefore(h, seqlen)
        n == MinOf(seqlen - 1 - before, n_in)
    IN  [banked |-> before + n,
         win |-> MinOf(WindowSize, n + IF OldResets(h, seqlen) THEN 0 ELSE h.win)]

-----------------------------------------------------------------------------
\* The harness follows propose() from a line on which both begin a sequence,
\* as long as the lines are of that request.  It is in step while, besides,
\* no token before was left out of the forwarded blocks.
StepLine(l, r, starts, resets) ==
    [req |-> r,
     followed |-> IF starts THEN IsNewSeq(r) ELSE l.followed /\ l.req = r /\ ~IsNewSeq(r),
     inStep |-> IF resets THEN starts /\ Len(aux[r]) >= length[r] - 1
                ELSE l.inStep /\ l.req = r /\ ~starts]

StepHarness(h, r) ==
    [new |-> StepNew(h.new, length[r], Len(aux[r])),
     old |-> StepOld(h.old, length[r], Len(aux[r])),
     line |-> StepLine(h.line, r, NewStarts(h.new, length[r]), OldResets(h.old, length[r]))]

\* A batch lists its requests in order.
InOrder(S) ==
    CHOOSE s \in [1 .. Cardinality(S) -> S] : \A i, j \in DOMAIN s : i < j => s[i] < s[j]

\* propose() writes its lines; the harness reads them later, and gets the
\* same from them then.
Replay ==
    LET lines == InOrder(Seen)
        after == FoldLeft(StepHarness, [new |-> new, old |-> old, line |-> line], lines)
    IN  new' = after.new /\ old' = after.old /\ line' = after.line

ReplayNext ==
    \/ Propose /\ Replay
    \/ /\ \/ \E r \in Requests : Admit(r) \/ Preempt(r) \/ Finish(r)
          \/ Forward \/ ProposeNothing \/ Finished
       /\ UNCHANGED <<new, old, line>>

ReplaySpec == ReplayInit /\ [][ReplayNext]_replayVars

-----------------------------------------------------------------------------
\* Where the harness can follow, the window it shows is the one propose()
\* has, position by position (lines 62-65 and 86-88).
HarnessFollows ==
    phase = "runner" /\ line.followed =>
        LET window == win[line.req].window
        IN  new.win = [j \in DOMAIN window |-> window[j].pos]

\* The old banking has all confirmed positions, and a window as long as the
\* new one's, for as long as nothing was cached or forwarded in an earlier
\* chunk: it is these that put it out of step (lines 10-13).
OldInStep ==
    phase = "runner" /\ line.followed /\ line.inStep =>
        old.banked = length[line.req] - 1 /\ old.win = Len(new.win)
=============================================================================
