------------------------------ MODULE CastMerge ------------------------------
(***************************************************************************)
(* The merge of two cast records that are one person                       *)
(* (src/lib/casts/merge-service.ts), beside what writes the same rows: a   *)
(* rename (name-service.ts) and an import that stores the rows of a cast   *)
(* it resolved when its preview was made.  A Request is one such call, or  *)
(* an administrator's preview of a merge and its execution.                *)
(*                                                                         *)
(* The merge and the rename are SERIALIZABLE: every read is of one         *)
(* snapshot, and a write to a row that another transaction has written     *)
(* since makes the transaction fail.  The snapshot is taken by the first   *)
(* statement, which is the one that waits for the first lock.  since[p]    *)
(* holds what others have written since p looked, be it a preview or a     *)
(* snapshot: the fingerprint is compared by it, and the write conflicts    *)
(* are found by it.  The imports are READ COMMITTED and take no lock.      *)
(*                                                                         *)
(* Of a row only its key, its cast and its value are kept.  A definition   *)
(* commented "Slip" is the one below it with a plausible bug, for the      *)
(* mutation runs.                                                          *)
(***************************************************************************)
EXTENDS Integers, FiniteSets

CONSTANTS
  Casts,       \* numbers stand for the ids: the locks are taken in their order
  Moved,       \* keys of the rows a merge moves: CTI, Town, aliases, listings
  Unmoved,     \* keys of the others: Heaven, memberships, listing histories
  Values,
  Requests,
  None

Keys == Moved \cup Unmoved

(* What a transaction can write: the row <<c>> of a cast, or a row it owns. *)
Self(cs) == {<<c>> : c \in cs}
Items == Self(Casts) \cup (Casts \X Keys)

ASSUME MergeAssumption ==
  /\ Casts \subseteq Nat
  /\ Moved \cap Unmoved = {}
  /\ None \notin Casts \cup Values \cup Requests

VARIABLES
  into,       \* [Casts -> mergedIntoCastId]
  fact,       \* [Casts \X Keys -> value of the row, or None]
  castLock,   \* [Casts -> holder of cast-merge:<cast>, or None]
  since,      \* [Requests -> items others have written since the request looked]
  pc, loc     \* [Requests -> where the call is, and its local variables]

vars == <<into, fact, castLock, since, pc, loc>>

(* from, to: source and target, from also the cast of the other calls.     *)
(* key: of an import.  shown: the source's rows at the preview.            *)
(* moves, dups, older: the keys the source has in the snapshot, those of   *)
(* them the target has too, and the casts merged into the source before.   *)
Local == [from: Casts \cup {None}, to: Casts \cup {None}, key: Keys \cup {None},
          shown: [Moved -> Values \cup {None}],
          moves: SUBSET Moved, dups: SUBSET Moved, older: SUBSET Casts]
Blank == [from |-> None, to |-> None, key |-> None, shown |-> [k \in Moved |-> None],
          moves |-> {}, dups |-> {}, older |-> {}]

Labels == {"off", "previewed", "lock1", "lock2", "merge", "rename", "resolved"}

Init ==
  /\ into = [c \in Casts |-> None]
  /\ fact = [r \in Casts \X Keys |-> None]
  /\ castLock = [c \in Casts |-> None]
  /\ since = [p \in Requests |-> {}]
  /\ pc = [p \in Requests |-> "off"]
  /\ loc = [p \in Requests |-> Blank]

-----------------------------------------------------------------------------
(* Helpers. *)

Goto(p, l) == pc' = [pc EXCEPT ![p] = l]
Set(p, r) == loc' = [loc EXCEPT ![p] = r]
Return(p) ==
  /\ Goto(p, "off") /\ Set(p, Blank)
  /\ castLock' = [c \in Casts |-> IF castLock[c] = p THEN None ELSE castLock[c]]

(* p looks at the database: nothing has been written since. *)
Look(p) == since' = [since EXCEPT ![p] = {}]

(* p commits writes w: every other call under way has them behind it. *)
Commit(p, w) ==
  since' = [q \in Requests |-> IF q = p \/ pc[q] = "off" THEN {} ELSE since[q] \cup w]

(* What inspectWithTx reads, and digests: both casts, their moved rows. *)
Scope(s, t) == Self({s, t}) \cup ({s, t} \X Moved)

(* Slip: READ COMMITTED, where a write to a row others wrote goes through. *)
NoConflictReadCommitted(p, w) == TRUE

(* First updater wins. *)
NoConflict(p, w) == since[p] \cap w = {}

-----------------------------------------------------------------------------
(* previewCastMerge and executeCastMerge. *)

Unmerged(c) == into[c] = None

(* Slip: only the source is looked at. *)
MayMergeAnyTarget(s, t) == s # t /\ Unmerged(s)

(* The refusals of loadState. *)
MayMerge(s, t) == s # t /\ Unmerged(s) /\ Unmerged(t)

Held(c) == {k \in Moved : fact[<<c, k>>] # None}

(* findCollisions: rows of both with one key. *)
Collisions(s, t) == Held(s) \cap Held(t)

(* Slip: the values are not compared. *)
CanMergeAny(s, t) == TRUE

(* canMerge: no collision with different values. *)
CanMerge(s, t) == \A k \in Collisions(s, t) : fact[<<s, k>>] = fact[<<t, k>>]

Preview(p, s, t) ==
  /\ pc[p] = "off"
  /\ MayMerge(s, t) /\ CanMerge(s, t)
  /\ Set(p, [Blank EXCEPT !.from = s, !.to = t, !.shown = [k \in Moved |-> fact[<<s, k>>]]])
  /\ Goto(p, "previewed")
  /\ Look(p)
  /\ UNCHANGED <<into, fact, castLock>>

(* Slip: the fingerprint is not compared. *)
SameFingerprintAlways(p) == TRUE

SameFingerprint(p) == since[p] \cap Scope(loc[p].from, loc[p].to) = {}

(* The first statement of the transaction: what all its reads see.  A call *)
(* that its snapshot refuses would wait for the locks only to return them, *)
(* and is over at once.                                                    *)
Begin(p) ==
  LET s == loc[p].from  t == loc[p].to
      ok == MayMerge(s, t) /\ SameFingerprint(p) /\ CanMerge(s, t)
  IN /\ pc[p] = "previewed"
     /\ \/ /\ ok
           /\ Set(p, [loc[p] EXCEPT !.moves = Held(s), !.dups = Collisions(s, t),
                                    !.older = {c \in Casts : into[c] = s}])
           /\ Goto(p, "lock1") /\ UNCHANGED castLock
        \/ ~ok /\ Return(p)
     /\ Look(p)
     /\ UNCHANGED <<into, fact>>

(* Slip: a busy lock is ignored. *)
LockIgnoresBusy(p, c, l) ==
  /\ castLock' = [castLock EXCEPT ![c] = p]
  /\ Goto(p, l)
  /\ UNCHANGED <<into, fact, since, loc>>

Lock(p, c, l) ==
  /\ castLock[c] = None
  /\ castLock' = [castLock EXCEPT ![c] = p]
  /\ Goto(p, l)
  /\ UNCHANGED <<into, fact, since, loc>>

(* Slip: in the order of the request. *)
FirstAsGiven(p) == loc[p].from

(* The locks are taken in the order of the ids, whichever is the source.   *)
First(p) == IF loc[p].from < loc[p].to THEN loc[p].from ELSE loc[p].to

Second(p) == IF First(p) = loc[p].from THEN loc[p].to ELSE loc[p].from

Lock1(p) == pc[p] = "lock1" /\ Lock(p, First(p), "lock2")
Lock2(p) == pc[p] = "lock2" /\ Lock(p, Second(p), "merge")

(* Rows that others inserted for the source after the snapshot stay there. *)
Moves(s, t, moves) ==
  [r \in Casts \X Keys |->
     IF r[1] = s /\ r[2] \in moves THEN None
     ELSE IF r[1] = t /\ r[2] \in moves /\ fact[r] = None THEN fact[<<s, r[2]>>]
     ELSE fact[r]]

(* Slip: the casts merged into the source still point there. *)
RedirectSource(p) == [into EXCEPT ![loc[p].from] = loc[p].to]

Redirect(p) ==
  [c \in Casts |-> IF c = loc[p].from \/ c \in loc[p].older THEN loc[p].to ELSE into[c]]

(* The deletions of duplicates, the updates of cast_id, and the redirects. *)
(* A row inserted for the target meanwhile violates the unique key.        *)
Merge(p) ==
  LET s == loc[p].from  t == loc[p].to
      written == Self({s, t} \cup loc[p].older) \cup ({s} \X loc[p].moves)
  IN /\ pc[p] = "merge"
     /\ NoConflict(p, written)
     /\ \A k \in loc[p].moves \ loc[p].dups : fact[<<t, k>>] = None
     /\ fact' = Moves(s, t, loc[p].moves)
     /\ into' = Redirect(p)
     /\ Commit(p, written \cup ({t} \X loc[p].moves))
     /\ Return(p)

-----------------------------------------------------------------------------
(* renameCast: snapshot, then the name and its history. *)

Rename(p, c) ==
  /\ pc[p] = "off" /\ Unmerged(c)
  /\ Set(p, [Blank EXCEPT !.from = c])
  /\ Goto(p, "rename")
  /\ Look(p)
  /\ UNCHANGED <<into, fact, castLock>>

RenameWrite(p) ==
  /\ pc[p] = "rename"
  /\ NoConflict(p, Self({loc[p].from}))
  /\ Commit(p, Self({loc[p].from}))
  /\ Return(p)
  /\ UNCHANGED <<into, fact>>

-----------------------------------------------------------------------------
(* An import: the preview resolves a cast, the confirmation upserts a row  *)
(* of that cast without another look at it.                                *)

Resolve(p, c, k) ==
  /\ pc[p] = "off" /\ Unmerged(c)
  /\ Set(p, [Blank EXCEPT !.from = c, !.key = k])
  /\ Goto(p, "resolved")
  /\ Look(p)
  /\ UNCHANGED <<into, fact, castLock>>

Confirm(p, v) ==
  LET r == <<loc[p].from, loc[p].key>>
  IN /\ pc[p] = "resolved"
     /\ fact' = [fact EXCEPT ![r] = v]
     /\ Commit(p, {r})
     /\ Return(p)
     /\ UNCHANGED into

-----------------------------------------------------------------------------
(* The call is given up: by the person, by a serialization failure, a      *)
(* violated key, a deadlock or a crash; the transaction rolls back.        *)
Abort(p) ==
  /\ pc[p] # "off"
  /\ Return(p)
  /\ Look(p)
  /\ UNCHANGED <<into, fact>>

Start(p) ==
  \/ \E s, t \in Casts : Preview(p, s, t)
  \/ \E c \in Casts : Rename(p, c)
  \/ \E c \in Casts, k \in Keys : Resolve(p, c, k)

Work(p) ==
  \/ Begin(p) \/ Lock1(p) \/ Lock2(p) \/ Merge(p)
  \/ RenameWrite(p)
  \/ \E v \in Values : Confirm(p, v)

Next == \E p \in Requests : Start(p) \/ Work(p) \/ Abort(p)

Spec == Init /\ [][Next]_vars

-----------------------------------------------------------------------------
(* Properties. *)

(* Types, and that a merge is executed under the locks of both casts.      *)
TypeOK ==
  /\ into \in [Casts -> Casts \cup {None}]
  /\ fact \in [Casts \X Keys -> Values \cup {None}]
  /\ castLock \in [Casts -> Requests \cup {None}]
  /\ since \in [Requests -> SUBSET Items]
  /\ pc \in [Requests -> Labels]
  /\ loc \in [Requests -> Local]
  /\ \A p \in Requests : pc[p] = "merge" => castLock[loc[p].from] = p /\ castLock[loc[p].to] = p

(* CAST_MERGE.md: merged_into_cast_id names an unmerged cast, whatever     *)
(* merges form a chain or race on a snapshot older than their locks.       *)
RedirectsAreDirect ==
  \A c \in Casts : into[c] # None => into[c] # c /\ Unmerged(into[c])

(* The lock a merge asks for next, and whether q has it. *)
Wanted(p) == IF pc[p] = "lock1" THEN First(p) ELSE Second(p)
WaitsFor(p, q) == pc[p] \in {"lock1", "lock2"} /\ castLock[Wanted(p)] = q

(* A merge that waits for one that waits itself wants a lower lock than    *)
(* that one: merges that wait for each other never close a circle, however *)
(* long, not even when two of them swap source and target.                 *)
NoWaitingCircle ==
  \A p, q, r \in Requests :
    WaitsFor(p, q) /\ WaitsFor(q, r) => Wanted(p) < Wanted(q)

(* The step in which cast s is merged. *)
Merging(s) == into[s] = None /\ into'[s] # None

(* A merge loses and overwrites no value: the rows of the target stay as   *)
(* they are, and each row of the source is then the target's, stays behind *)
(* unseen, or was a duplicate whose target an import has corrected since.  *)
MergeKeepsValues ==
  [][\A s \in Casts, k \in Moved : Merging(s) =>
       LET t == into'[s]
           v == fact[<<s, k>>]
       IN /\ fact[<<t, k>>] # None => fact'[<<t, k>>] = fact[<<t, k>>]
          /\ v # None => \/ fact'[<<t, k>>] = v
                         \/ fact'[<<s, k>>] = v
                         \/ \E p \in Requests : pc[p] = "merge" /\ <<t, k>> \in since[p]]_vars

(* The rows a merge takes from the source have the values that the person  *)
(* who asked for it was shown, although the preview is long past.          *)
MergedAsPreviewed ==
  [][\A p \in Requests, k \in Moved :
       LET s == loc[p].from
       IN pc[p] = "merge" /\ pc'[p] = "off" /\ Merging(s)
            /\ fact[<<s, k>>] # None /\ fact'[<<s, k>>] = None
          => fact[<<s, k>>] = loc[p].shown[k]]_vars

(* SPECIFICATION.md: a merge moves all the data of the source.             *)
MergedOwnsNothing ==
  \A c \in Casts, k \in Keys : ~Unmerged(c) => fact[<<c, k>>] = None

(* Readers of the casts and of their rows see each merge as one step on    *)
(* what is there when it commits, for all that it has read before.         *)
Ledger == INSTANCE CastLedger
LedgerSpec == Ledger!Spec
=============================================================================
