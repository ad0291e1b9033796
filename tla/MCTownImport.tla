---------------------------- MODULE MCTownImport -----------------------------
(* Instances of TownImport for TLC: a cast who is known, one who is not,   *)
(* and an unknown id among the casts that the pages show too.              *)
EXTENDS TownImport, TLC

CONSTANTS n1, n2, c1

MCRows == [k \in Kinds |-> IF k = "CAST" THEN {n1, n2} ELSE {n2}]
MCNamed == [n \in Names |-> IF n = n1 THEN c1 ELSE None]
MCIdNames == {n2}
MCSymmetry == Permutations(Batches) \cup Permutations(Requests)
=============================================================================
