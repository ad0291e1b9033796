-------------------------- MODULE MCCastMemberships --------------------------
(* Instances of CastMemberships for TLC. *)
EXTENDS CastMemberships, TLC

TwoDays == 1..2
ThreeDays == 1..3

(* ON_LEAVE is written by setOnLeave alone. *)
EveryPeriod == {f \in Form : f.status # "ON_LEAVE"}

(* Open periods, from the start or from the second day. *)
OpenPeriods == {f \in Form : f.status = "ACTIVE" /\ f.joined \in {None, 2} /\ f.left = None}

Symmetry == Permutations(Requests) \cup Permutations(Ids)
=============================================================================
