---------------------------- MODULE MC_Proposer ----------------------------
(* Instances of Proposer for TLC. *)
EXTENDS ReplayBanking
=============================================================================
