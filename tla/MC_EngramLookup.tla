-------------------------- MODULE MC_EngramLookup --------------------------
(* Instances of EngramLookup for TLC. *)
EXTENDS EngramLookupInv

\* No token, and two blocks of one shape.
SameShapes == {<<>>, <<1>>, <<2>>}
=============================================================================
