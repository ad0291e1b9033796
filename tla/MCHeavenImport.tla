--------------------------- MODULE MCHeavenImport ---------------------------
(* Instances of HeavenImport for TLC. *)
EXTENDS HeavenImport, TLC

OneDay == {1}
Month  == 29..31

(* Every file has a value for every name on every day. *)
FullSheet == [c \in Contents |-> [n \in Names |-> Days]]

(* The Town alias of every name points to one cast. *)
TownAgrees == [n \in Names |-> CHOOSE k \in Casts : TRUE]

Symmetry == Permutations(Requests) \cup Permutations(Contents)
=============================================================================
