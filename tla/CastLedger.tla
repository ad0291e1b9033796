------------------------------ MODULE CastLedger ------------------------------
(***************************************************************************)
(* What the cast tables promise their readers, with no request, snapshot   *)
(* or lock in sight: imports store rows one at a time, and a merge is one  *)
(* step.  It joins two casts that are both still their own, sends whoever  *)
(* was merged into the source to the target, and hands rows of the source  *)
(* to the target, whose own rows win.  CastMerge is shown to implement     *)
(* this module.                                                            *)
(***************************************************************************)
CONSTANTS Casts, Moved, Unmoved, Values, None

Keys == Moved \cup Unmoved

VARIABLES into,   \* [Casts -> the cast it was merged into, or None]
          fact    \* [Casts \X Keys -> the value of its row, or None]

vars == <<into, fact>>

Init == /\ into = [c \in Casts |-> None]
        /\ fact = [r \in Casts \X Keys |-> None]

(* An import stores a row; it may have found its cast long ago. *)
Import(c, k, v) == /\ fact' = [fact EXCEPT ![<<c, k>>] = v]
                   /\ UNCHANGED into

(* Which rows go is left open: those stored since the merge looked stay.   *)
Merge(s, t, ks) ==
  /\ s # t /\ into[s] = None /\ into[t] = None
  /\ \A k \in ks : fact[<<s, k>>] # None
  /\ into' = [c \in Casts |-> IF c = s \/ into[c] = s THEN t ELSE into[c]]
  /\ fact' = [r \in Casts \X Keys |->
                IF r[1] = s /\ r[2] \in ks THEN None
                ELSE IF r[1] = t /\ r[2] \in ks /\ fact[r] = None THEN fact[<<s, r[2]>>]
                ELSE fact[r]]

Next == \/ \E c \in Casts, k \in Keys, v \in Values : Import(c, k, v)
        \/ \E s, t \in Casts, ks \in SUBSET Moved : Merge(s, t, ks)

Spec == Init /\ [][Next]_vars
=============================================================================
