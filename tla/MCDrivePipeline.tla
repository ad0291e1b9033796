-------------------------- MODULE MCDrivePipeline ---------------------------
(* Instances of DrivePipeline for TLC. *)
EXTENDS DrivePipeline, TLC

CONSTANTS g1, g2

MCFamilyCti == [g \in Folders |-> "CTI"]
MCFamilyTown == [g \in Folders |-> "TOWN"]
MCFamilyHeaven == [g \in Folders |-> "HEAVEN"]
MCFamilyMixed == [g \in Folders |-> IF g = g1 THEN "CTI" ELSE "TOWN"]

(* Batches and contents are interchangeable where every content is dated.  *)
MCSymmetry == Permutations(BatchIds) \cup Permutations(Contents)
=============================================================================
