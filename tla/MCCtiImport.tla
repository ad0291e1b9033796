---------------------------- MODULE MCCtiImport -----------------------------
(* Instances of CtiImport for TLC. *)
EXTENDS CtiImport, TLC

CONSTANTS n1

(* Two reports of one day with a row each; no cast has the name of the row *)
(* until it is linked, and no value is in error.                           *)
OneDay == 1..1
SameDay == [f \in Files |-> 1]
OneRow == [f \in Files |-> {n1}]
NoErrors == [f \in Files |-> {}]
NoCast == [n \in Names |-> None]

Symmetry == Permutations(Requests) \cup Permutations(Batches) \cup Permutations(Files)
=============================================================================
