--------------------------- MODULE ForwardContract ---------------------------
(***************************************************************************)
(* What a model step is owed of its engram rows, whether they are looked   *)
(* up inside the forward (src/dsv41/patch/engram-disk-table.patch) or      *)
(* staged before it (src/dsv41/patch/vlspeed-prestage.py).                 *)
(*                                                                         *)
(* Steps begin one after the other, and each is decided once: its forward  *)
(* sees, in every layer, the rows of its own tokens; or it is skipped,     *)
(* because the KV cache is not bound yet; or a read of its own failed.     *)
(***************************************************************************)
EXTENDS Integers, Sequences

CONSTANTS
    Batches,     \* the token batches a step may be given
    RowsOf(_)    \* the rows of a batch, for every layer

VARIABLES
    asked,    \* the batches of the steps begun, in order
    decided   \* per step begun: what became of it

contractVars == <<asked, decided>>

ContractInit == asked = <<>> /\ decided = <<>>

Undecided == [kind |-> "none"]
Computed(b) == [kind |-> "computed", rows |-> RowsOf(b)]

BeginStep ==
    \E b \in Batches : /\ asked' = Append(asked, b)
                       /\ decided' = Append(decided, Undecided)

\* Forwards are computed in the order of their steps; a step that is not
\* computed is given up before the next one begins.
Decide(s) ==
    /\ decided[s] = Undecided
    /\ UNCHANGED asked
    /\ \/ /\ \A r \in 1 .. s - 1 : decided[r] # Undecided
          /\ decided' = [decided EXCEPT ![s] = Computed(asked[s])]
       \/ /\ s = Len(asked)
          /\ \E kind \in {"skipped", "failed"} :
               decided' = [decided EXCEPT ![s] = [kind |-> kind]]

ContractNext == BeginStep \/ \E s \in DOMAIN asked : Decide(s)

ContractSafety == ContractInit /\ [][ContractNext]_contractVars

\* Every step that begins is decided.
ContractFairness == WF_contractVars(\E s \in DOMAIN asked : Decide(s))
=============================================================================
