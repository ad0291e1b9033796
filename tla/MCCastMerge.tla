----------------------------- MODULE MCCastMerge -----------------------------
(* Instances of CastMerge for TLC. *)
EXTENDS CastMerge, TLC

TwoCasts == 1..2
ThreeCasts == 1..3

Symmetry == Permutations(Requests) \cup Permutations(Values)
=============================================================================
