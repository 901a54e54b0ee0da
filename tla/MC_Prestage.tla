---------------------------- MODULE MC_Prestage ----------------------------
(* Instances of Prestage for TLC. *)
EXTENDS Prestage

TwoLayers == {1, 2}

\* Two batches of one shape and one of another.
SmallBatches == {<<1>>, <<2>>, <<1, 2>>}
=============================================================================
