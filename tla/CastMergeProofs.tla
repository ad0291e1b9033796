--------------------------- MODULE CastMergeProofs ---------------------------
(***************************************************************************)
(* For any number of casts, rows and concurrent requests: redirects are    *)
(* direct, a merge keeps every value, and it moves what the preview        *)
(* showed.  Each rests on what a request still knows of the database:      *)
(* whatever is not in since[p] is as it was when p looked.                 *)
(***************************************************************************)
EXTENDS CastMerge, TLAPS

USE MergeAssumption

-----------------------------------------------------------------------------
(* Types, and what a request holds at each label. *)

Running == {"lock1", "lock2", "merge"}

BaseType ==
  /\ into \in [Casts -> Casts \cup {None}]
  /\ fact \in [Casts \X Keys -> Values \cup {None}]
  /\ castLock \in [Casts -> Requests \cup {None}]
  /\ since \in [Requests -> SUBSET Items]
  /\ pc \in [Requests -> Labels]
  /\ loc \in [Requests -> Local]

ShapeOf(p) ==
  /\ pc[p] \in Running \cup {"previewed", "rename", "resolved"} => loc[p].from \in Casts
  /\ pc[p] \in Running \cup {"previewed"} => loc[p].to \in Casts /\ loc[p].from # loc[p].to
  /\ pc[p] = "resolved" => loc[p].key \in Keys

HoldsOf(p) ==
  /\ pc[p] = "lock2" => castLock[First(p)] = p
  /\ pc[p] = "merge" => castLock[loc[p].from] = p /\ castLock[loc[p].to] = p

(* The rows of the source that nobody has written since the preview are    *)
(* the ones shown.                                                         *)
ShownOf(p) ==
  pc[p] \in Running \cup {"previewed"} =>
    \A k \in Moved : <<loc[p].from, k>> \notin since[p]
                       => fact[<<loc[p].from, k>>] = loc[p].shown[k]

(* The casts that nobody has written since the snapshot are as in it.      *)
CastsOf(p) ==
  pc[p] \in Running =>
    /\ <<loc[p].from>> \notin since[p] => into[loc[p].from] = None
    /\ <<loc[p].to>> \notin since[p] => into[loc[p].to] = None
    /\ \A c \in Casts : <<loc[p].from>> \notin since[p] /\ into[c] = loc[p].from
                          => c \in loc[p].older
    /\ \A c \in loc[p].older : <<c>> \notin since[p] => into[c] = loc[p].from

(* So are the rows of both casts.                                          *)
RowsOf(p) ==
  pc[p] \in Running =>
    \A k \in Moved :
      <<loc[p].from, k>> \notin since[p] =>
        /\ k \in loc[p].moves <=> fact[<<loc[p].from, k>>] # None
        /\ k \in loc[p].dups /\ <<loc[p].to, k>> \notin since[p]
             => fact[<<loc[p].from, k>>] = fact[<<loc[p].to, k>>]

KnowsOf(p) == ShapeOf(p) /\ HoldsOf(p) /\ ShownOf(p) /\ CastsOf(p) /\ RowsOf(p)

Inv == BaseType /\ (\A p \in Requests : KnowsOf(p)) /\ RedirectsAreDirect

LEMMA BlankType == Blank \in Local
BY DEF Blank, Local

LEMMA InvInit == Init => Inv
BY BlankType DEF Init, Inv, BaseType, KnowsOf, ShapeOf, HoldsOf, ShownOf, CastsOf, RowsOf,
   Running, RedirectsAreDirect, Labels, Items

-----------------------------------------------------------------------------
(* What a step of p leaves the other requests. *)

Noticed(p) ==
  \A q \in Requests \ {p} :
    /\ pc'[q] = pc[q] /\ loc'[q] = loc[q]
    /\ \A c \in Casts : castLock[c] = q => castLock'[c] = q
    /\ pc[q] # "off" =>
         /\ since[q] \subseteq since'[q]
         /\ \A c \in Casts : into'[c] # into[c] => <<c>> \in since'[q] /\ <<into'[c]>> \in since'[q]
         /\ \A r \in Casts \X Keys : fact'[r] # fact[r] => r \in since'[q]

LEMMA OthersKnow ==
  ASSUME Inv, BaseType', NEW p \in Requests, Noticed(p), NEW q \in Requests \ {p}
  PROVE  KnowsOf(q)'
<1>1. CASE pc[q] = "off"
  BY <1>1 DEF Noticed, KnowsOf, ShapeOf, HoldsOf, ShownOf, CastsOf, RowsOf, Running
<1>2. CASE pc[q] # "off"
  <2>1. KnowsOf(q) /\ BaseType
    BY DEF Inv
  <2>2. /\ pc'[q] = pc[q] /\ loc'[q] = loc[q]
        /\ \A c \in Casts : castLock[c] = q => castLock'[c] = q
        /\ since[q] \subseteq since'[q]
        /\ \A c \in Casts : into'[c] # into[c] => <<c>> \in since'[q] /\ <<into'[c]>> \in since'[q]
        /\ \A r \in Casts \X Keys : fact'[r] # fact[r] => r \in since'[q]
    BY <1>2 DEF Noticed
  <2>3. ShapeOf(q)'
    BY <2>1, <2>2 DEF KnowsOf, ShapeOf
  <2>4. HoldsOf(q)'
    BY <2>1, <2>2 DEF KnowsOf, ShapeOf, HoldsOf, First, Running
  <2>5. ShownOf(q)'
    <3> SUFFICES ASSUME pc[q] \in Running \cup {"previewed"}, NEW k \in Moved,
                        <<loc[q].from, k>> \notin since'[q]
                 PROVE  fact'[<<loc[q].from, k>>] = loc[q].shown[k]
      BY <2>2 DEF ShownOf
    <3>1. <<loc[q].from, k>> \in Casts \X Keys
      BY <2>1 DEF KnowsOf, ShapeOf, Keys
    <3> QED
      BY <2>1, <2>2, <3>1 DEF KnowsOf, ShownOf
  <2>6. CastsOf(q)'
    <3> SUFFICES ASSUME pc[q] \in Running PROVE CastsOf(q)'
      BY <2>2 DEF CastsOf
    <3>1. loc[q].from \in Casts /\ loc[q].to \in Casts /\ loc[q].older \subseteq Casts
      BY <2>1 DEF KnowsOf, ShapeOf, BaseType, Local
    <3>2. /\ <<loc[q].from>> \notin since[q] => into[loc[q].from] = None
          /\ <<loc[q].to>> \notin since[q] => into[loc[q].to] = None
          /\ \A c \in Casts : <<loc[q].from>> \notin since[q] /\ into[c] = loc[q].from
                                => c \in loc[q].older
          /\ \A c \in loc[q].older : <<c>> \notin since[q] => into[c] = loc[q].from
      BY <2>1 DEF KnowsOf, CastsOf
    <3>3. \A c \in Casts : <<c>> \notin since'[q] => <<c>> \notin since[q] /\ into'[c] = into[c]
      BY <2>2
    <3>4. <<loc[q].from>> \notin since'[q] => into'[loc[q].from] = None
      BY <3>1, <3>2, <3>3
    <3>5. <<loc[q].to>> \notin since'[q] => into'[loc[q].to] = None
      BY <3>1, <3>2, <3>3
    <3>6. ASSUME NEW c \in Casts, <<loc[q].from>> \notin since'[q], into'[c] = loc[q].from
          PROVE  c \in loc[q].older
      <4>1. into'[c] = into[c]
        BY <2>2, <3>6
      <4> QED
        BY <4>1, <3>1, <3>2, <3>3, <3>6
    <3>7. \A c \in loc[q].older : <<c>> \notin since'[q] => into'[c] = loc[q].from
      BY <3>1, <3>2, <3>3
    <3> QED
      BY <2>2, <3>4, <3>5, <3>6, <3>7 DEF CastsOf
  <2>7. RowsOf(q)'
    <3> SUFFICES ASSUME pc[q] \in Running, NEW k \in Moved, <<loc[q].from, k>> \notin since'[q]
                 PROVE  /\ k \in loc[q].moves <=> fact'[<<loc[q].from, k>>] # None
                        /\ k \in loc[q].dups /\ <<loc[q].to, k>> \notin since'[q]
                             => fact'[<<loc[q].from, k>>] = fact'[<<loc[q].to, k>>]
      BY <2>2 DEF RowsOf
    <3>1. <<loc[q].from, k>> \in Casts \X Keys /\ <<loc[q].to, k>> \in Casts \X Keys
      BY <2>1 DEF KnowsOf, ShapeOf, Keys
    <3> QED
      BY <2>1, <2>2, <3>1 DEF KnowsOf, RowsOf
  <2> QED
    BY <2>3, <2>4, <2>5, <2>6, <2>7 DEF KnowsOf
<1> QED
  BY <1>1, <1>2

(* A request that ends knows nothing any more. *)
LEMMA EndedKnows ==
  ASSUME NEW p \in Requests, pc'[p] = "off" PROVE KnowsOf(p)'
BY DEF KnowsOf, ShapeOf, HoldsOf, ShownOf, CastsOf, RowsOf, Running

LEMMA Returned ==
  ASSUME BaseType, NEW p \in Requests, Return(p)
  PROVE  /\ castLock' \in [Casts -> Requests \cup {None}]
         /\ pc' \in [Requests -> Labels] /\ loc' \in [Requests -> Local]
         /\ pc'[p] = "off"
         /\ \A q \in Requests \ {p} : pc'[q] = pc[q] /\ loc'[q] = loc[q]
         /\ \A q \in Requests \ {p}, c \in Casts : castLock[c] = q => castLock'[c] = q
<1>1. castLock' \in [Casts -> Requests \cup {None}]
  BY DEF Return, BaseType
<1>2. pc' \in [Requests -> Labels] /\ loc' \in [Requests -> Local]
  BY BlankType DEF Return, Goto, Set, BaseType, Labels
<1>3. pc'[p] = "off" /\ \A q \in Requests \ {p} : pc'[q] = pc[q] /\ loc'[q] = loc[q]
  BY DEF Return, Goto, Set, BaseType
<1>4. \A q \in Requests \ {p}, c \in Casts : castLock[c] = q => castLock'[c] = q
  BY DEF Return, BaseType
<1> QED
  BY <1>1, <1>2, <1>3, <1>4

LEMMA Looked ==
  ASSUME BaseType, NEW p \in Requests, Look(p)
  PROVE  /\ since' \in [Requests -> SUBSET Items]
         /\ since'[p] = {}
         /\ \A q \in Requests \ {p} : since'[q] = since[q]
BY DEF Look, BaseType

LEMMA Committed ==
  ASSUME BaseType, NEW p \in Requests, NEW w \in SUBSET Items, Commit(p, w)
  PROVE  /\ since' \in [Requests -> SUBSET Items]
         /\ \A q \in Requests \ {p} : pc[q] # "off" => since'[q] = since[q] \cup w
BY DEF Commit, BaseType

(* A step that writes nothing: all that is left to show is what p knows.   *)
LEMMA QuietStep ==
  ASSUME Inv, NEW p \in Requests, UNCHANGED <<into, fact>>, BaseType',
         \A q \in Requests \ {p} : /\ pc'[q] = pc[q] /\ loc'[q] = loc[q]
                                   /\ since[q] \subseteq since'[q]
                                   /\ \A c \in Casts : castLock[c] = q => castLock'[c] = q,
         KnowsOf(p)'
  PROVE  Inv'
<1>1. Noticed(p)
  BY DEF Noticed
<1>2. \A q \in Requests \ {p} : KnowsOf(q)'
  BY <1>1, OthersKnow
<1>3. RedirectsAreDirect'
  BY DEF Inv, RedirectsAreDirect, Unmerged
<1> QED
  BY <1>2, <1>3 DEF Inv

-----------------------------------------------------------------------------
(* The steps. *)

LEMMA ReturnKeeps ==
  ASSUME Inv, NEW p \in Requests, Return(p), UNCHANGED <<into, fact>>,
         since' \in [Requests -> SUBSET Items],
         \A q \in Requests \ {p} : pc[q] # "off" => since[q] \subseteq since'[q]
  PROVE  Inv'
<1>1. BaseType
  BY DEF Inv
<1>2. BaseType'
  BY <1>1, Returned DEF BaseType
<1>3. KnowsOf(p)'
  BY <1>1, Returned, EndedKnows
<1>4. Noticed(p)
  BY <1>1, Returned DEF Noticed
<1>5. \A q \in Requests \ {p} : KnowsOf(q)'
  BY <1>2, <1>4, OthersKnow
<1>6. RedirectsAreDirect'
  BY DEF Inv, RedirectsAreDirect, Unmerged
<1> QED
  BY <1>2, <1>3, <1>5, <1>6 DEF Inv

LEMMA SetType ==
  ASSUME BaseType, NEW p \in Requests, NEW r \in Local, NEW l \in Labels,
         Set(p, r), Goto(p, l)
  PROVE  /\ pc' \in [Requests -> Labels] /\ loc' \in [Requests -> Local]
         /\ pc'[p] = l /\ loc'[p] = r
         /\ \A q \in Requests \ {p} : pc'[q] = pc[q] /\ loc'[q] = loc[q]
BY DEF Set, Goto, BaseType

LEMMA PreviewStep ==
  ASSUME Inv, NEW p \in Requests, NEW s \in Casts, NEW t \in Casts, Preview(p, s, t)
  PROVE  Inv'
<1> DEFINE r == [Blank EXCEPT !.from = s, !.to = t, !.shown = [k \in Moved |-> fact[<<s, k>>]]]
<1>1. BaseType
  BY DEF Inv
<1>2. r \in Local /\ r.from = s /\ r.to = t /\ r.shown = [k \in Moved |-> fact[<<s, k>>]]
  BY <1>1, BlankType DEF Local, Blank, BaseType, Keys
<1> HIDE DEF r
<1>3. Set(p, r) /\ Goto(p, "previewed") /\ Look(p) /\ UNCHANGED <<into, fact, castLock>> /\ s # t
  BY DEF Preview, MayMerge, r
<1>4. BaseType'
  BY <1>1, <1>2, <1>3, SetType, Looked DEF BaseType, Labels
<1>5. pc'[p] = "previewed" /\ loc'[p] = r /\ since'[p] = {}
  BY <1>1, <1>2, <1>3, SetType, Looked DEF Labels
<1>6. KnowsOf(p)'
  BY <1>2, <1>3, <1>5 DEF KnowsOf, ShapeOf, HoldsOf, ShownOf, CastsOf, RowsOf, Running
<1> QED
  BY <1>1, <1>2, <1>3, <1>4, <1>6, SetType, Looked, QuietStep DEF Labels

LEMMA LookStep ==
  ASSUME Inv, NEW p \in Requests, NEW r \in Local, NEW l \in {"rename", "resolved"},
         r.from \in Casts, l = "resolved" => r.key \in Keys,
         Set(p, r), Goto(p, l), Look(p), UNCHANGED <<into, fact, castLock>>
  PROVE  Inv'
<1>1. BaseType
  BY DEF Inv
<1>2. BaseType'
  BY <1>1, SetType, Looked DEF BaseType, Labels
<1>3. KnowsOf(p)'
  BY <1>1, SetType DEF KnowsOf, ShapeOf, HoldsOf, ShownOf, CastsOf, RowsOf, Running, Labels
<1> QED
  BY <1>1, <1>2, <1>3, SetType, Looked, QuietStep DEF Labels

LEMMA RenameStep ==
  ASSUME Inv, NEW p \in Requests, NEW c \in Casts, Rename(p, c)
  PROVE  Inv'
<1>1. [Blank EXCEPT !.from = c] \in Local /\ [Blank EXCEPT !.from = c].from = c
  BY BlankType DEF Local, Blank
<1> QED
  BY <1>1, LookStep DEF Rename

LEMMA ResolveStep ==
  ASSUME Inv, NEW p \in Requests, NEW c \in Casts, NEW k \in Keys, Resolve(p, c, k)
  PROVE  Inv'
<1> DEFINE r == [Blank EXCEPT !.from = c, !.key = k]
<1>1. r \in Local /\ r.from = c /\ r.key = k
  BY BlankType DEF Local, Blank
<1> QED
  BY <1>1, LookStep DEF Resolve

LEMMA BeginStep ==
  ASSUME Inv, NEW p \in Requests, Begin(p)
  PROVE  Inv'
<1> DEFINE s == loc[p].from
           t == loc[p].to
           old == {c \in Casts : into[c] = s}
           r == [loc[p] EXCEPT !.moves = Held(s), !.dups = Collisions(s, t), !.older = old]
<1>1. BaseType /\ KnowsOf(p)
  BY DEF Inv
<1>2. pc[p] = "previewed" /\ Look(p) /\ UNCHANGED <<into, fact>>
  BY DEF Begin
<1>3. CASE Return(p)
  BY <1>1, <1>2, <1>3, Looked, ReturnKeeps
<1>4. CASE /\ MayMerge(s, t) /\ SameFingerprint(p) /\ CanMerge(s, t)
           /\ Set(p, r) /\ Goto(p, "lock1") /\ UNCHANGED castLock
  <2>1. s \in Casts /\ t \in Casts /\ s # t
    BY <1>1, <1>2 DEF KnowsOf, ShapeOf
  <2>2. /\ r \in Local /\ r.from = s /\ r.to = t /\ r.shown = loc[p].shown
        /\ r.moves = Held(s) /\ r.dups = Collisions(s, t) /\ r.older = old
    <3>1. Held(s) \in SUBSET Moved /\ Collisions(s, t) \in SUBSET Moved
      BY DEF Held, Collisions
    <3>2. old \in SUBSET Casts /\ loc[p] \in Local
      BY <1>1 DEF BaseType
    <3> HIDE DEF old
    <3> QED
      BY <3>1, <3>2 DEF Local
  <2> HIDE DEF r, s, t, old
  <2>3. BaseType'
    BY <1>1, <1>2, <1>4, <2>2, SetType, Looked DEF BaseType, Labels
  <2>4. pc'[p] = "lock1" /\ loc'[p] = r /\ since'[p] = {}
    BY <1>1, <1>2, <1>4, <2>2, SetType, Looked DEF Labels
  <2>5. ShapeOf(p)' /\ HoldsOf(p)'
    BY <2>1, <2>2, <2>4 DEF ShapeOf, HoldsOf
  <2>6. ShownOf(p)'
    <3>1. \A k \in Moved : <<s, k>> \notin since[p]
      BY <1>1, <1>4, <2>1 DEF SameFingerprint, Scope, Keys, s, t
    <3>2. \A k \in Moved : fact[<<s, k>>] = loc[p].shown[k]
      BY <1>1, <1>2, <3>1 DEF KnowsOf, ShownOf, s
    <3> QED
      BY <1>2, <2>2, <2>4, <3>2 DEF ShownOf
  <2>7. CastsOf(p)'
    BY <1>2, <1>4, <2>2, <2>4 DEF CastsOf, MayMerge, Unmerged, old
  <2>8. RowsOf(p)'
    BY <1>2, <1>4, <2>2, <2>4 DEF RowsOf, CanMerge, Collisions, Held
  <2>9. KnowsOf(p)'
    BY <2>5, <2>6, <2>7, <2>8 DEF KnowsOf
  <2> QED
    BY <1>1, <1>2, <1>4, <2>2, <2>3, <2>9, SetType, Looked, QuietStep DEF Labels
<1> QED
  BY <1>3, <1>4 DEF Begin

LEMMA LockStep ==
  ASSUME Inv, NEW p \in Requests, Lock1(p) \/ Lock2(p)
  PROVE  Inv'
<1>1. BaseType /\ KnowsOf(p) /\ pc[p] \in Running
  BY DEF Inv, Lock1, Lock2, Running
<1>2. loc[p].from \in Casts /\ loc[p].to \in Casts /\ loc[p].from # loc[p].to
  BY <1>1 DEF KnowsOf, ShapeOf
<1>3. PICK c \in {First(p), Second(p)}, l \in {"lock2", "merge"} :
        /\ Lock(p, c, l)
        /\ \/ pc[p] = "lock1" /\ c = First(p) /\ l = "lock2"
           \/ pc[p] = "lock2" /\ c = Second(p) /\ l = "merge"
  BY DEF Lock1, Lock2
<1>4. c \in Casts /\ {First(p), Second(p)} = {loc[p].from, loc[p].to}
  BY <1>2 DEF First, Second
<1>5. castLock' = [castLock EXCEPT ![c] = p] /\ castLock[c] = None /\ UNCHANGED <<into, fact, since, loc>>
      /\ pc' = [pc EXCEPT ![p] = l]
  BY <1>3 DEF Lock, Goto
<1>6. BaseType'
  BY <1>1, <1>4, <1>5, <1>3 DEF BaseType, Labels
<1>7. pc'[p] = l /\ castLock'[c] = p /\ \A d \in Casts : castLock[d] # None => castLock'[d] = castLock[d]
  BY <1>1, <1>4, <1>5 DEF BaseType
<1>8. HoldsOf(p)'
  <2>1. l = "lock2" => castLock'[First(p)] = p
    BY <1>3, <1>7
  <2>2. l = "merge" => castLock'[First(p)] = p /\ castLock'[Second(p)] = p
    BY <1>1, <1>2, <1>3, <1>4, <1>7, ZenonT(60) DEF KnowsOf, HoldsOf
  <2>3. First(p)' = First(p)
    BY <1>5 DEF First
  <2> QED
    BY <1>4, <1>5, <1>7, <2>1, <2>2, <2>3 DEF HoldsOf
<1>9. ShapeOf(p)' /\ ShownOf(p)' /\ CastsOf(p)' /\ RowsOf(p)'
  BY <1>1, <1>5, <1>7 DEF KnowsOf, ShapeOf, ShownOf, CastsOf, RowsOf, Running
<1>10. \A q \in Requests \ {p} : /\ pc'[q] = pc[q] /\ loc'[q] = loc[q]
                                 /\ since[q] \subseteq since'[q]
                                 /\ \A d \in Casts : castLock[d] = q => castLock'[d] = q
  BY <1>1, <1>5, <1>7 DEF BaseType
<1> QED
  BY <1>5, <1>6, <1>8, <1>9, <1>10, QuietStep DEF KnowsOf

(* What a merge finds: none of what it is about to write has changed.      *)
LEMMA MergeFinds ==
  ASSUME Inv, NEW p \in Requests, Merge(p)
  PROVE  LET s == loc[p].from  t == loc[p].to  IN
         /\ s \in Casts /\ t \in Casts /\ s # t /\ into[s] = None /\ into[t] = None
         /\ loc[p].older = {c \in Casts : into[c] = s}
         /\ loc[p].moves \subseteq Moved
         /\ \A k \in Moved : k \in loc[p].moves =>
              /\ fact[<<s, k>>] # None /\ fact[<<s, k>>] = loc[p].shown[k]
              /\ fact[<<t, k>>] # None /\ <<t, k>> \notin since[p] => fact[<<t, k>>] = fact[<<s, k>>]
<1> DEFINE s == loc[p].from
           t == loc[p].to
<1>1. BaseType /\ KnowsOf(p) /\ pc[p] \in Running
  BY DEF Inv, Merge, Running
<1>2. s \in Casts /\ t \in Casts /\ s # t
  BY <1>1 DEF KnowsOf, ShapeOf
<1>3. since[p] \cap (Self({s, t} \cup loc[p].older) \cup ({s} \X loc[p].moves)) = {}
  BY DEF Merge, NoConflict
<1>4. <<s>> \notin since[p] /\ <<t>> \notin since[p] /\ \A c \in loc[p].older : <<c>> \notin since[p]
  BY <1>3 DEF Self
<1>5. \A k \in loc[p].moves : <<s, k>> \notin since[p]
  BY <1>3
<1>6. loc[p].moves \subseteq Moved /\ loc[p].older \subseteq Casts
  BY <1>1 DEF BaseType, Local
<1>7. into[s] = None /\ into[t] = None
  BY <1>1, <1>4 DEF KnowsOf, CastsOf
<1>8. \A c \in Casts : into[c] = s => c \in loc[p].older
  BY <1>1, <1>4 DEF KnowsOf, CastsOf
<1>9. \A c \in loc[p].older : into[c] = s
  BY <1>1, <1>4 DEF KnowsOf, CastsOf
<1>10. loc[p].older = {c \in Casts : into[c] = s}
  BY <1>6, <1>8, <1>9
<1>11. ASSUME NEW k \in Moved, k \in loc[p].moves
       PROVE  /\ fact[<<s, k>>] # None /\ fact[<<s, k>>] = loc[p].shown[k]
              /\ fact[<<t, k>>] # None /\ <<t, k>> \notin since[p] => fact[<<t, k>>] = fact[<<s, k>>]
  <2>1. <<s, k>> \notin since[p]
    BY <1>5, <1>11
  <2>2. fact[<<s, k>>] # None
    BY <1>1, <1>11, <2>1 DEF KnowsOf, RowsOf
  <2>3. fact[<<s, k>>] = loc[p].shown[k]
    BY <1>1, <2>1 DEF KnowsOf, ShownOf
  <2>4. ASSUME fact[<<t, k>>] # None, <<t, k>> \notin since[p] PROVE fact[<<t, k>>] = fact[<<s, k>>]
    <3>1. k \in loc[p].dups
      BY <1>11, <2>4 DEF Merge
    <3> QED
      BY <1>1, <2>1, <2>4, <3>1 DEF KnowsOf, RowsOf
  <2> QED
    BY <2>2, <2>3, <2>4
<1> QED
  BY <1>2, <1>6, <1>7, <1>10, <1>11

LEMMA MergeStep ==
  ASSUME Inv, NEW p \in Requests, Merge(p)
  PROVE  Inv'
<1> DEFINE s == loc[p].from
           t == loc[p].to
           moves == loc[p].moves
           older == loc[p].older
           w == Self({s, t} \cup older) \cup ({s} \X moves) \cup ({t} \X moves)
<1>1. BaseType
  BY DEF Inv
<1>2. /\ s \in Casts /\ t \in Casts /\ s # t /\ into[s] = None /\ into[t] = None
      /\ older = {c \in Casts : into[c] = s} /\ moves \subseteq Moved
  BY MergeFinds
<1>3. /\ fact' = Moves(s, t, moves)
      /\ into' = [c \in Casts |-> IF c = s \/ c \in older THEN t ELSE into[c]]
      /\ Commit(p, w) /\ Return(p)
  BY DEF Merge, Redirect
<1>4. w \in SUBSET Items
  BY <1>2 DEF Items, Self, Keys
<1>5. fact' \in [Casts \X Keys -> Values \cup {None}]
  <2>1. \A k \in moves : fact[<<s, k>>] \in Values \cup {None}
    BY <1>1, <1>2 DEF BaseType, Keys
  <2>2. \A r \in Casts \X Keys : r[1] = t /\ r[2] \in moves => fact[<<s, r[2]>>] \in Values \cup {None}
    BY <2>1
  <2> QED
    BY <1>1, <1>3, <2>2 DEF BaseType, Moves
<1>6. into' \in [Casts -> Casts \cup {None}]
  BY <1>1, <1>2, <1>3 DEF BaseType
<1>7. BaseType'
  BY <1>1, <1>3, <1>4, <1>5, <1>6, Returned, Committed DEF BaseType
<1>8. \A r \in Casts \X Keys : fact'[r] # fact[r] => r \in w
  <2> SUFFICES ASSUME NEW r \in Casts \X Keys, fact'[r] # fact[r]
               PROVE  r \in w
    OBVIOUS
  <2> PICK c \in Casts, k \in Keys : r = <<c, k>>
    OBVIOUS
  <2>1. fact'[<<c, k>>] = IF c = s /\ k \in moves THEN None
                          ELSE IF c = t /\ k \in moves /\ fact[<<c, k>>] = None THEN fact[<<s, k>>]
                          ELSE fact[<<c, k>>]
    BY <1>3 DEF Moves
  <2> QED
    BY <2>1
<1>9. \A c \in Casts : into'[c] # into[c] => <<c>> \in w /\ <<into'[c]>> \in w
  BY <1>2, <1>3 DEF Self
<1>10. Noticed(p)
  <2> HIDE DEF w, s, t, moves, older
  <2>1. ASSUME NEW q \in Requests \ {p}
        PROVE  /\ pc'[q] = pc[q] /\ loc'[q] = loc[q]
               /\ \A c \in Casts : castLock[c] = q => castLock'[c] = q
               /\ pc[q] # "off" => since'[q] = since[q] \cup w
    BY <1>1, <1>3, <1>4, Returned, Committed
  <2> QED
    BY <1>8, <1>9, <2>1 DEF Noticed
<1>11. \A q \in Requests \ {p} : KnowsOf(q)'
  BY <1>7, <1>10, OthersKnow
<1>12. KnowsOf(p)'
  BY <1>1, <1>3, Returned, EndedKnows
<1>13. RedirectsAreDirect'
  <2> SUFFICES ASSUME NEW c \in Casts, into'[c] # None
               PROVE  into'[c] # c /\ into'[into'[c]] = None
    BY DEF RedirectsAreDirect, Unmerged
  <2>1. into'[t] = None
    BY <1>2, <1>3
  <2>2. CASE c = s \/ c \in older
    BY <1>2, <1>3, <2>1, <2>2
  <2>3. CASE ~(c = s \/ c \in older)
    <3>1. into'[c] = into[c] /\ into[c] \in Casts /\ into[c] # s
      BY <1>1, <1>2, <1>3, <2>3 DEF BaseType
    <3>2. into[c] # c /\ into[into[c]] = None
      BY <3>1 DEF Inv, RedirectsAreDirect, Unmerged
    <3> QED
      BY <1>2, <1>3, <3>1, <3>2
  <2> QED
    BY <2>2, <2>3
<1> QED
  BY <1>7, <1>11, <1>12, <1>13 DEF Inv

LEMMA ConfirmStep ==
  ASSUME Inv, NEW p \in Requests, NEW v \in Values, Confirm(p, v)
  PROVE  Inv'
<1> DEFINE r == <<loc[p].from, loc[p].key>>
<1>1. BaseType /\ KnowsOf(p) /\ pc[p] = "resolved"
  BY DEF Inv, Confirm
<1>2. r \in Casts \X Keys
  BY <1>1 DEF KnowsOf, ShapeOf
<1>3. fact' = [fact EXCEPT ![r] = v] /\ Commit(p, {r}) /\ Return(p) /\ into' = into
  BY DEF Confirm
<1> HIDE DEF r
<1>4. {r} \in SUBSET Items
  BY <1>2 DEF Items
<1>5. BaseType'
  BY <1>1, <1>2, <1>3, <1>4, Returned, Committed DEF BaseType
<1>6. Noticed(p)
  BY <1>1, <1>2, <1>3, <1>4, Returned, Committed DEF Noticed, BaseType
<1>7. \A q \in Requests \ {p} : KnowsOf(q)'
  BY <1>5, <1>6, OthersKnow
<1>8. KnowsOf(p)'
  BY <1>1, <1>3, Returned, EndedKnows
<1>9. RedirectsAreDirect'
  BY <1>3 DEF Inv, RedirectsAreDirect, Unmerged
<1> QED
  BY <1>5, <1>7, <1>8, <1>9 DEF Inv

LEMMA RenameWriteStep ==
  ASSUME Inv, NEW p \in Requests, RenameWrite(p)
  PROVE  Inv'
<1>1. BaseType /\ KnowsOf(p) /\ pc[p] = "rename"
  BY DEF Inv, RenameWrite
<1>2. Self({loc[p].from}) \in SUBSET Items
  BY <1>1 DEF KnowsOf, ShapeOf, Self, Items
<1> QED
  BY <1>1, <1>2, Committed, ReturnKeeps DEF RenameWrite

LEMMA InvStep == Inv /\ [Next]_vars => Inv'
<1> SUFFICES ASSUME Inv, [Next]_vars PROVE Inv'
  OBVIOUS
<1>1. CASE UNCHANGED vars
  <2>1. BaseType' /\ RedirectsAreDirect'
    BY <1>1 DEF vars, Inv, BaseType, RedirectsAreDirect, Unmerged
  <2>2. ASSUME NEW p \in Requests PROVE KnowsOf(p)'
    <3>1. KnowsOf(p)
      BY DEF Inv
    <3> QED
      BY <1>1, <3>1 DEF vars, KnowsOf, ShapeOf, HoldsOf, ShownOf, CastsOf, RowsOf, Unmerged, First
  <2> QED
    BY <2>1, <2>2 DEF Inv
<1>2. CASE Next
  <2> PICK p \in Requests : Start(p) \/ Work(p) \/ Abort(p)
    BY <1>2 DEF Next
  <2>1. CASE Start(p)
    BY <2>1, PreviewStep, RenameStep, ResolveStep DEF Start
  <2>2. CASE Begin(p)
    BY <2>2, BeginStep
  <2>3. CASE Lock1(p) \/ Lock2(p)
    BY <2>3, LockStep
  <2>4. CASE Merge(p)
    BY <2>4, MergeStep
  <2>5. CASE RenameWrite(p)
    BY <2>5, RenameWriteStep
  <2>6. CASE \E v \in Values : Confirm(p, v)
    BY <2>6, ConfirmStep
  <2>7. CASE Abort(p)
    <3>1. BaseType
      BY DEF Inv
    <3> QED
      BY <2>7, <3>1, Looked, ReturnKeeps DEF Abort
  <2> QED
    BY <2>1, <2>2, <2>3, <2>4, <2>5, <2>6, <2>7 DEF Work
<1> QED
  BY <1>1, <1>2

LEMMA InvHolds == Spec => []Inv
BY InvInit, InvStep, PTL DEF Spec

-----------------------------------------------------------------------------
(* The theorems. *)

(* Every variable keeps its type, and a merge is executed under the locks  *)
(* of both casts.                                                          *)
THEOREM MergeTypeCorrect == Spec => []TypeOK
<1>1. Inv => TypeOK
  BY DEF Inv, BaseType, TypeOK, KnowsOf, HoldsOf
<1> QED
  BY <1>1, InvHolds, PTL

(* However merges chain and race, a merged cast points at an unmerged one. *)
THEOREM RedirectsStayDirect == Spec => []RedirectsAreDirect
<1>1. Inv => RedirectsAreDirect
  BY DEF Inv
<1> QED
  BY <1>1, InvHolds, PTL

(* Only Merge merges a cast, and the one it merges is its source.          *)
LEMMA MergingIsMerge ==
  ASSUME Inv, [Next]_vars, NEW s \in Casts, Merging(s)
  PROVE  \E p \in Requests : Merge(p) /\ s = loc[p].from
<1>1. into' # into
  BY DEF Merging
<1>2. PICK p \in Requests : Start(p) \/ Work(p) \/ Abort(p)
  BY <1>1 DEF Next, vars
<1>3. Merge(p)
  BY <1>1, <1>2 DEF Start, Work, Abort, Preview, Rename, Resolve, Begin, Lock1, Lock2, Lock,
     RenameWrite, Confirm
<1>4. into' = [c \in Casts |-> IF c = loc[p].from \/ c \in loc[p].older THEN loc[p].to ELSE into[c]]
  BY <1>3 DEF Merge, Redirect
<1>5. loc[p].older = {c \in Casts : into[c] = loc[p].from} /\ loc[p].from \in Casts
  BY <1>3, MergeFinds
<1>6. s = loc[p].from
  BY <1>4, <1>5 DEF Merging
<1> QED
  BY <1>3, <1>6

LEMMA MergeRows ==
  ASSUME Inv, NEW p \in Requests, Merge(p), NEW k \in Moved
  PROVE  LET s == loc[p].from  t == loc[p].to  IN
         /\ into'[s] = t
         /\ fact'[<<s, k>>] = IF k \in loc[p].moves THEN None ELSE fact[<<s, k>>]
         /\ fact'[<<t, k>>] = IF k \in loc[p].moves /\ fact[<<t, k>>] = None
                              THEN fact[<<s, k>>] ELSE fact[<<t, k>>]
<1>1. loc[p].from \in Casts /\ loc[p].to \in Casts /\ loc[p].from # loc[p].to /\ k \in Keys
  BY MergeFinds DEF Keys
<1> QED
  BY <1>1 DEF Merge, Redirect, Moves

(* A merge loses and overwrites no value.                                  *)
THEOREM MergeLosesNothing == Spec => MergeKeepsValues
<1>1. ASSUME Inv, [Next]_vars, NEW s \in Casts, NEW k \in Moved, Merging(s)
      PROVE  LET t == into'[s]
                 v == fact[<<s, k>>]
             IN /\ fact[<<t, k>>] # None => fact'[<<t, k>>] = fact[<<t, k>>]
                /\ v # None => \/ fact'[<<t, k>>] = v
                               \/ fact'[<<s, k>>] = v
                               \/ \E p \in Requests : pc[p] = "merge" /\ <<t, k>> \in since[p]
  <2>1. PICK p \in Requests : Merge(p) /\ s = loc[p].from
    BY <1>1, MergingIsMerge
  <2>2. pc[p] = "merge"
    BY <2>1 DEF Merge
  <2> DEFINE t == loc[p].to
  <2>3. into'[s] = t
    BY <2>1, MergeRows, <1>1
  <2>4. /\ fact'[<<s, k>>] = IF k \in loc[p].moves THEN None ELSE fact[<<s, k>>]
        /\ fact'[<<t, k>>] = IF k \in loc[p].moves /\ fact[<<t, k>>] = None
                             THEN fact[<<s, k>>] ELSE fact[<<t, k>>]
    BY <2>1, MergeRows, <1>1
  <2>5. k \in loc[p].moves /\ fact[<<t, k>>] # None /\ <<t, k>> \notin since[p]
          => fact[<<t, k>>] = fact[<<s, k>>]
    BY <2>1, MergeFinds, <1>1
  <2> QED
    BY <2>2, <2>3, <2>4, <2>5
<1>2. Inv /\ [Next]_vars =>
        [\A s \in Casts, k \in Moved : Merging(s) =>
           LET t == into'[s]
               v == fact[<<s, k>>]
           IN /\ fact[<<t, k>>] # None => fact'[<<t, k>>] = fact[<<t, k>>]
              /\ v # None => \/ fact'[<<t, k>>] = v
                             \/ fact'[<<s, k>>] = v
                             \/ \E p \in Requests : pc[p] = "merge" /\ <<t, k>> \in since[p]]_vars
  BY <1>1
<1> QED
  BY <1>2, InvHolds, PTL DEF Spec, MergeKeepsValues

(* What a merge takes is what the preview showed.                          *)
THEOREM MergeIsAsPreviewed == Spec => MergedAsPreviewed
<1>1. ASSUME Inv, [Next]_vars, NEW p \in Requests, NEW k \in Moved,
             pc[p] = "merge", pc'[p] = "off", Merging(loc[p].from),
             fact[<<loc[p].from, k>>] # None, fact'[<<loc[p].from, k>>] = None
      PROVE  fact[<<loc[p].from, k>>] = loc[p].shown[k]
  <2>1. loc[p].from \in Casts
    BY <1>1 DEF Inv, KnowsOf, ShapeOf, Running
  <2>2. PICK q \in Requests : Merge(q) /\ loc[p].from = loc[q].from
    BY <1>1, <2>1, MergingIsMerge
  <2>3. q = p
    BY <1>1, <2>2 DEF Merge, Return, Goto, Inv, BaseType
  <2> QED
    BY <1>1, <2>2, <2>3, MergeRows, MergeFinds
<1>2. Inv /\ [Next]_vars =>
        [\A p \in Requests, k \in Moved :
           LET s == loc[p].from
           IN pc[p] = "merge" /\ pc'[p] = "off" /\ Merging(s)
                /\ fact[<<s, k>>] # None /\ fact'[<<s, k>>] = None
              => fact[<<s, k>>] = loc[p].shown[k]]_vars
  BY <1>1
<1> QED
  BY <1>2, InvHolds, PTL DEF Spec, MergedAsPreviewed

-----------------------------------------------------------------------------
(* The locks: who has one is inside executeCastMerge, and which it has is  *)
(* told by its label.                                                      *)

NoLockLeft ==
  \A c \in Casts, q \in Requests : castLock[c] = q =>
    \/ pc[q] = "lock2" /\ c = First(q)
    \/ pc[q] = "merge"

LEMMA LocksInit == Init => NoLockLeft
BY DEF Init, NoLockLeft

(* A call that returns, or is given up, has no lock any more.              *)
LEMMA ReturnLocks ==
  ASSUME BaseType, NoLockLeft, NEW p \in Requests, Return(p)
  PROVE  NoLockLeft'
<1> SUFFICES ASSUME NEW c \in Casts, NEW q \in Requests, castLock'[c] = q
             PROVE  (pc'[q] = "lock2" /\ c = First(q)') \/ pc'[q] = "merge"
  BY DEF NoLockLeft
<1>1. castLock[c] = q /\ q # p
  BY DEF Return, BaseType
<1>2. pc'[q] = pc[q] /\ loc'[q] = loc[q]
  BY <1>1 DEF Return, Goto, Set, BaseType
<1> QED
  BY <1>1, <1>2 DEF NoLockLeft, First

(* The others keep theirs while p, at a label without locks, goes on.      *)
LEMMA FreeLocks ==
  ASSUME BaseType, NoLockLeft, NEW p \in Requests, pc[p] \notin {"lock2", "merge"},
         UNCHANGED castLock,
         \A q \in Requests \ {p} : pc'[q] = pc[q] /\ loc'[q] = loc[q]
  PROVE  NoLockLeft'
<1> SUFFICES ASSUME NEW c \in Casts, NEW q \in Requests, castLock'[c] = q
             PROVE  (pc'[q] = "lock2" /\ c = First(q)') \/ pc'[q] = "merge"
  BY DEF NoLockLeft
<1>1. castLock[c] = q
  OBVIOUS
<1>2. q # p
  BY <1>1 DEF NoLockLeft
<1> QED
  BY <1>1, <1>2 DEF NoLockLeft, First

LEMMA TakeLocks ==
  ASSUME BaseType, NoLockLeft, NEW p \in Requests, Lock1(p) \/ Lock2(p)
  PROVE  NoLockLeft'
<1> SUFFICES ASSUME NEW c \in Casts, NEW q \in Requests, castLock'[c] = q
             PROVE  (pc'[q] = "lock2" /\ c = First(q)') \/ pc'[q] = "merge"
  BY DEF NoLockLeft
<1>1. UNCHANGED loc /\ First(q)' = First(q)
  BY DEF Lock1, Lock2, Lock, First
<1>2. CASE Lock1(p)
  <2>1. pc' = [pc EXCEPT ![p] = "lock2"] /\ castLock' = [castLock EXCEPT ![First(p)] = p] /\ pc[p] = "lock1"
    BY <1>2 DEF Lock1, Lock, Goto
  <2>2. CASE castLock[c] = q
    BY <1>1, <2>1, <2>2 DEF NoLockLeft, BaseType
  <2>3. CASE castLock[c] # q
    BY <1>1, <2>1, <2>3 DEF BaseType
  <2> QED
    BY <2>2, <2>3
<1>3. CASE Lock2(p)
  <2>1. pc' = [pc EXCEPT ![p] = "merge"] /\ castLock' = [castLock EXCEPT ![Second(p)] = p]
    BY <1>3 DEF Lock2, Lock, Goto
  <2>2. CASE castLock[c] = q
    BY <1>1, <2>1, <2>2 DEF NoLockLeft, BaseType
  <2>3. CASE castLock[c] # q
    BY <1>1, <2>1, <2>3 DEF BaseType
  <2> QED
    BY <2>2, <2>3
<1> QED
  BY <1>2, <1>3

LEMMA LocksStep == BaseType /\ NoLockLeft /\ [Next]_vars => NoLockLeft'
<1> SUFFICES ASSUME BaseType, NoLockLeft, [Next]_vars PROVE NoLockLeft'
  OBVIOUS
<1>1. CASE UNCHANGED vars
  BY <1>1 DEF vars, NoLockLeft, First
<1>2. CASE Next
  <2> PICK p \in Requests : Start(p) \/ Work(p) \/ Abort(p)
    BY <1>2 DEF Next
  <2>1. CASE Start(p)
    <3>1. /\ pc[p] = "off" /\ UNCHANGED castLock
          /\ \A q \in Requests \ {p} : pc'[q] = pc[q] /\ loc'[q] = loc[q]
      BY <2>1 DEF Start, Preview, Rename, Resolve, Goto, Set, BaseType
    <3> QED
      BY <3>1, FreeLocks
  <2>2. CASE Begin(p)
    <3>1. CASE Return(p)
      BY <3>1, ReturnLocks
    <3>2. CASE ~Return(p)
      <4>1. /\ pc[p] = "previewed" /\ UNCHANGED castLock
            /\ \A q \in Requests \ {p} : pc'[q] = pc[q] /\ loc'[q] = loc[q]
        BY <2>2, <3>2 DEF Begin, Goto, Set, BaseType
      <4> QED
        BY <4>1, FreeLocks
    <3> QED
      BY <3>1, <3>2
  <2>3. CASE Lock1(p) \/ Lock2(p)
    BY <2>3, TakeLocks
  <2>4. CASE Merge(p) \/ RenameWrite(p) \/ (\E v \in Values : Confirm(p, v)) \/ Abort(p)
    BY <2>4, ReturnLocks DEF Merge, RenameWrite, Confirm, Abort
  <2> QED
    BY <2>1, <2>2, <2>3, <2>4 DEF Work
<1> QED
  BY <1>1, <1>2

(* However many merges wait, they never wait for each other in a circle.   *)
THEOREM MergesNeverDeadlock == Spec => []NoWaitingCircle
<1>1. ASSUME Inv, NoLockLeft, NEW p \in Requests, NEW q \in Requests, NEW r \in Requests,
             WaitsFor(p, q), WaitsFor(q, r)
      PROVE  Wanted(p) < Wanted(q)
  <2>1. ShapeOf(p) /\ ShapeOf(q) /\ pc[p] \in {"lock1", "lock2"} /\ pc[q] \in {"lock1", "lock2"}
    BY <1>1 DEF Inv, KnowsOf, WaitsFor
  <2>2. /\ loc[p].from \in Casts /\ loc[p].to \in Casts
        /\ loc[q].from \in Casts /\ loc[q].to \in Casts /\ loc[q].from # loc[q].to
    BY <2>1 DEF ShapeOf, Running
  <2>3. Wanted(p) \in Casts
    BY <2>2 DEF Wanted, First, Second
  <2>4. pc[q] = "lock2" /\ Wanted(p) = First(q)
    BY <1>1, <2>1, <2>3 DEF WaitsFor, NoLockLeft
  <2>5. First(q) < Second(q)
    <3>1. loc[q].from \in Nat /\ loc[q].to \in Nat
      BY <2>2, MergeAssumption
    <3>2. CASE loc[q].from < loc[q].to
      BY <3>2 DEF First, Second
    <3>3. CASE loc[q].to < loc[q].from
      BY <3>1, <3>3 DEF First, Second
    <3> QED
      BY <2>2, <3>1, <3>2, <3>3
  <2> QED
    BY <2>4, <2>5 DEF Wanted
<1>2. Inv /\ NoLockLeft => NoWaitingCircle
  BY <1>1 DEF NoWaitingCircle
<1>3. Inv => BaseType
  BY DEF Inv
<1> QED
  BY <1>2, <1>3, LocksInit, LocksStep, InvHolds, PTL DEF Spec

-----------------------------------------------------------------------------
(* The refinement of CastLedger. *)

LEMMA LedgerInit == Init => Ledger!Init
BY DEF Init, Ledger!Init, Ledger!Keys, Keys

(* A merge that commits is the merge of the ledger: its snapshot still     *)
(* tells which casts point at the source, and that both are unmerged.      *)
LEMMA LedgerMerge ==
  ASSUME Inv, NEW p \in Requests, Merge(p)
  PROVE  Ledger!Next
<1> DEFINE s == loc[p].from
           t == loc[p].to
           ks == loc[p].moves
<1>1. /\ s \in Casts /\ t \in Casts /\ s # t /\ into[s] = None /\ into[t] = None
      /\ loc[p].older = {c \in Casts : into[c] = s}
      /\ ks \subseteq Moved
      /\ \A k \in Moved : k \in ks => fact[<<s, k>>] # None
  BY MergeFinds
<1>2. into' = [c \in Casts |-> IF c = s \/ into[c] = s THEN t ELSE into[c]]
  <2>1. \A c \in Casts : c \in loc[p].older <=> into[c] = s
    BY <1>1
  <2> QED
    BY <2>1 DEF Merge, Redirect
<1>3. fact' = [r \in Casts \X Keys |->
                 IF r[1] = s /\ r[2] \in ks THEN None
                 ELSE IF r[1] = t /\ r[2] \in ks /\ fact[r] = None THEN fact[<<s, r[2]>>]
                 ELSE fact[r]]
  BY DEF Merge, Moves
<1>4. Ledger!Merge(s, t, ks)
  BY <1>1, <1>2, <1>3 DEF Ledger!Merge, Ledger!Keys, Keys
<1> QED
  BY <1>1, <1>4 DEF Ledger!Next

LEMMA LedgerStep == Inv /\ [Next]_vars => [Ledger!Next]_Ledger!vars
<1> SUFFICES ASSUME Inv, Next, ~UNCHANGED <<into, fact>> PROVE Ledger!Next
  BY DEF vars, Ledger!vars
<1> PICK p \in Requests : Start(p) \/ Work(p) \/ Abort(p)
  BY DEF Next
<1>1. Merge(p) \/ \E v \in Values : Confirm(p, v)
  BY DEF Start, Work, Abort, Preview, Rename, Resolve, Begin, Lock1, Lock2, Lock, RenameWrite
<1>2. CASE Merge(p)
  BY <1>2, LedgerMerge
<1>3. CASE \E v \in Values : Confirm(p, v)
  <2> PICK v \in Values : Confirm(p, v)
    BY <1>3
  <2>1. loc[p].from \in Casts /\ loc[p].key \in Keys
    BY DEF Inv, KnowsOf, ShapeOf, Confirm
  <2>2. Ledger!Import(loc[p].from, loc[p].key, v)
    BY DEF Confirm, Ledger!Import
  <2> QED
    BY <2>1, <2>2 DEF Ledger!Next, Ledger!Keys, Keys
<1> QED
  BY <1>1, <1>2, <1>3

(* Snapshots, locks and fingerprints come to this: every merge is one step *)
(* on the casts and rows that are there when it commits.                   *)
THEOREM MergeIsAtomic == Spec => LedgerSpec
BY LedgerInit, LedgerStep, InvHolds, PTL DEF Spec, LedgerSpec, Ledger!Spec
=============================================================================
