--------------------------- MODULE MC_DraftModel ---------------------------
(* Instances of DraftModel for TLC. *)
EXTENDS DraftModel
=============================================================================
