------------------------- MODULE CastMembershipProofs -------------------------
(***************************************************************************)
(* Proofs about CastMemberships, for any number of stores, days, rows and  *)
(* requests.  The table has no constraint against overlapping periods, nor *)
(* one against two exit days: each rests on what a call saw before its     *)
(* write, and on the lock that keeps it true until then.  KnowsOf(p) is    *)
(* that knowledge; Noticed(p) is what a step of p leaves to the others: a  *)
(* row that p writes is covered by a lock that p holds.                    *)
(***************************************************************************)
EXTENDS CastMemberships, TLAPS

Scoping   == {"lock", "check", "write"}
Initing   == {"initLock", "initCheck", "initWrite"}
Exiting   == {"exitLock", "exitCast", "exitRows", "exitWrite"}
Reentering == {"reentryLock", "reenterCast", "reenterRows", "reenterMedia", "reenterWrite"}
Repairing == {"repairLock", "repairWrite"}

Local ==
  [id: Ids \cup {None}, next: Row \cup {None}, date: Bounds, repair: BOOLEAN,
   aliases: (SUBSET Stores) \cup (SUBSET (Stores \X Bounds)), stores: SUBSET Stores,
   store: Stores \cup {None}, found: (SUBSET Stores) \cup (SUBSET Ids)]

BaseType ==
  /\ TypeOK
  /\ loc \in [Requests -> Local]

(* Row j was written under the lock of the scope of s. *)
ScopedIn(j, s) == Exists(j) /\ rows[j].store = s /\ rows[j].by \in Scoped
ReenteredIn(j, s) == Exists(j) /\ rows[j].store = s /\ rows[j].by = "reenter"

(* What each kind of call knows of the database, by where it is.           *)
ScopingOf(p) == pc[p] \in Scoping =>
  /\ loc[p].next \in Row /\ Valid(loc[p].next) /\ loc[p].next.by \in Scoped
  /\ loc[p].id # None => Exists(loc[p].id)
  /\ pc[p] \in {"check", "write"} => scopeLock[loc[p].next.store] = p
  /\ pc[p] = "write" =>
       \A j \in Ids \ {loc[p].id} :
         ScopedIn(j, loc[p].next.store) => ~Overlap(loc[p].next, rows[j])

InitingOf(p) == pc[p] \in Initing =>
  /\ loc[p].found \subseteq Stores
  /\ \A s \in loc[p].found : scopeLock[s] = p /\ \A j \in Ids : ~ScopedIn(j, s)
  /\ pc[p] = "initCheck" => loc[p].store \in Stores /\ scopeLock[loc[p].store] = p

ExitingOf(p) == pc[p] \in Exiting =>
  /\ loc[p].date \in Dates
  /\ pc[p] # "exitLock" => exitLock = p
  /\ pc[p] = "exitWrite" =>
       /\ loc[p].found \subseteq Ids
       /\ \A i \in loc[p].found : Exists(i)
       /\ \A i \in Ids : Exists(i) /\ rows[i].by = "exit" => rows[i].left = loc[p].date

ReenteringOf(p) == pc[p] \in Reentering =>
  /\ loc[p].date \in Dates
  /\ loc[p].found \subseteq Stores /\ loc[p].aliases \subseteq Stores
  /\ pc[p] # "reentryLock" => reentryLock = p
  /\ pc[p] \in {"reentryLock", "reenterCast"} => loc[p].found = {}
  /\ \A s \in loc[p].found, j \in Ids :
       ReenteredIn(j, s) => ~Overlap(Current(s, loc[p].date, "reenter"), rows[j])

RepairingOf(p) == pc[p] \in Repairing =>
  /\ loc[p].date \in Dates
  /\ loc[p].aliases \subseteq Stores \X Bounds
  /\ \A s \in loc[p].stores : listing[s] # None

KnowsOf(p) ==
  ScopingOf(p) /\ InitingOf(p) /\ ExitingOf(p) /\ ReenteringOf(p) /\ RepairingOf(p)

(* The exit writes LEFT, and whoever reopens such a row is its last writer. *)
ExitLeaves == \A i \in Ids : Exists(i) /\ rows[i].by = "exit" => rows[i].status = "LEFT"

Inv ==
  /\ BaseType
  /\ \A p \in Requests : KnowsOf(p)
  /\ ExitLeaves
  /\ OverlapOnlyAcrossLocks
  /\ OneLeaveDate
  /\ NothingOpenBeforeExit

-----------------------------------------------------------------------------
(* What a step of p leaves to the other requests. *)

OthersStay(p) ==
  \A q \in Requests \ {p} :
    /\ pc'[q] = pc[q] /\ loc'[q] = loc[q]
    /\ \A s \in Stores : scopeLock[s] = q => scopeLock'[s] = q
    /\ exitLock = q => exitLock' = q
    /\ reentryLock = q => reentryLock' = q

(* The rows a step of p has written, with the locks of p behind them. *)
RowsCovered(p) ==
  /\ \A i \in Ids : Exists(i) => Exists(i)'
  /\ \A i \in Ids : rows'[i] # rows[i] =>
       /\ rows'[i] # None
       /\ rows'[i].by \in Scoped => scopeLock[rows'[i].store] = p
       /\ rows'[i].by = "exit" => exitLock = p
       /\ rows'[i].by = "reenter" => reentryLock = p

Noticed(p) ==
  /\ OthersStay(p)
  /\ RowsCovered(p)
  /\ \A s \in Stores : listing[s] # None => listing'[s] # None

LEMMA OthersKnow ==
  ASSUME Inv, NEW p \in Requests, Noticed(p), BaseType'
  PROVE  \A q \in Requests \ {p} : KnowsOf(q)'
<1> SUFFICES ASSUME NEW q \in Requests \ {p}
             PROVE  KnowsOf(q)'
  OBVIOUS
<1>1. /\ KnowsOf(q) /\ BaseType
      /\ pc'[q] = pc[q] /\ loc'[q] = loc[q]
  BY DEF Inv, Noticed, OthersStay
<1>2. ScopingOf(q)'
  <2> SUFFICES ASSUME pc'[q] \in Scoping
               PROVE  ScopingOf(q)'
    BY DEF ScopingOf
  <2>1. ScopingOf(q) /\ pc[q] \in Scoping
    BY <1>1 DEF KnowsOf
  <2>2. /\ loc[q].next \in Row /\ Valid(loc[q].next) /\ loc[q].next.by \in Scoped
        /\ loc[q].id # None => Exists(loc[q].id)
        /\ pc[q] \in {"check", "write"} => scopeLock[loc[q].next.store] = q
    BY <2>1 DEF ScopingOf
  <2>3. loc[q].id \in Ids \cup {None} /\ loc[q].next.store \in Stores
    BY <1>1, <2>2 DEF BaseType, Local, Row
  <2>4. loc[q].id # None => Exists(loc[q].id)'
    BY <1>1, <2>2, <2>3 DEF Noticed, RowsCovered, Exists
  <2>5. pc[q] \in {"check", "write"} => scopeLock'[loc[q].next.store] = q
    BY <2>2, <2>3 DEF Noticed, OthersStay
  <2>6. ASSUME pc[q] = "write", NEW j \in Ids \ {loc[q].id}, ScopedIn(j, loc[q].next.store)'
        PROVE  ~Overlap(loc[q].next, rows'[j])
    <3>1. rows'[j] = rows[j]
      BY <1>1, <2>2, <2>3, <2>6 DEF ScopedIn, Noticed, RowsCovered
    <3> QED
      BY <1>1, <2>1, <2>6, <3>1 DEF ScopingOf, ScopedIn, Exists
  <2> QED
    BY <1>1, <2>2, <2>4, <2>5, <2>6 DEF ScopingOf, Valid
<1>3. InitingOf(q)'
  <2> SUFFICES ASSUME pc'[q] \in Initing
               PROVE  InitingOf(q)'
    BY DEF InitingOf
  <2>1. InitingOf(q) /\ pc[q] \in Initing
    BY <1>1 DEF KnowsOf
  <2>2. ASSUME NEW s \in loc[q].found
        PROVE  s \in Stores /\ scopeLock[s] = q /\ scopeLock'[s] = q /\ \A j \in Ids : ~ScopedIn(j, s)
    BY <2>1, <2>2 DEF InitingOf, Noticed, OthersStay
  <2>3. ASSUME NEW s \in loc[q].found, NEW j \in Ids, ScopedIn(j, s)'
        PROVE  FALSE
    <3>1. rows'[j] = rows[j]
      BY <2>2, <2>3 DEF ScopedIn, Noticed, RowsCovered
    <3> QED
      BY <2>2, <2>3, <3>1 DEF ScopedIn, Exists
  <2>4. pc[q] = "initCheck" => loc[q].store \in Stores /\ scopeLock'[loc[q].store] = q
    BY <2>1 DEF InitingOf, Noticed, OthersStay
  <2>5. loc[q].found \subseteq Stores
    BY <2>1 DEF InitingOf
  <2> QED
    BY <1>1, <2>2, <2>3, <2>4, <2>5 DEF InitingOf
<1>4. ExitingOf(q)'
  <2> SUFFICES ASSUME pc'[q] \in Exiting
               PROVE  ExitingOf(q)'
    BY DEF ExitingOf
  <2>1. ExitingOf(q) /\ pc[q] \in Exiting
    BY <1>1 DEF KnowsOf
  <2>2. pc[q] # "exitLock" => exitLock = q /\ exitLock' = q
    BY <2>1 DEF ExitingOf, Noticed, OthersStay
  <2>3. ASSUME pc[q] = "exitWrite", NEW i \in Ids, Exists(i)', rows'[i].by = "exit"
        PROVE  rows'[i].left = loc[q].date
    <3>1. rows'[i] = rows[i]
      BY <2>2, <2>3 DEF Noticed, RowsCovered
    <3> QED
      BY <2>1, <2>3, <3>1 DEF ExitingOf, Exists
  <2>4. pc[q] = "exitWrite" => loc[q].found \subseteq Ids /\ \A i \in loc[q].found : Exists(i)'
    BY <2>1 DEF ExitingOf, Noticed, RowsCovered
  <2> QED
    BY <1>1, <2>1, <2>2, <2>3, <2>4 DEF ExitingOf
<1>5. ReenteringOf(q)'
  <2> SUFFICES ASSUME pc'[q] \in Reentering
               PROVE  ReenteringOf(q)'
    BY DEF ReenteringOf
  <2>1. ReenteringOf(q) /\ pc[q] \in Reentering
    BY <1>1 DEF KnowsOf
  <2>2. pc[q] # "reentryLock" => reentryLock = q /\ reentryLock' = q
    BY <2>1 DEF ReenteringOf, Noticed, OthersStay
  <2>3. ASSUME NEW s \in loc[q].found, NEW j \in Ids, ReenteredIn(j, s)'
        PROVE  ~Overlap(Current(s, loc[q].date, "reenter"), rows'[j])
    <3>1. reentryLock = q
      BY <2>1, <2>2, <2>3 DEF ReenteringOf
    <3>2. rows'[j] = rows[j]
      BY <2>3, <3>1 DEF ReenteredIn, Noticed, RowsCovered
    <3> QED
      BY <2>1, <2>3, <3>2 DEF ReenteringOf, ReenteredIn, Exists
  <2> QED
    BY <1>1, <2>1, <2>2, <2>3 DEF ReenteringOf
<1>6. RepairingOf(q)'
  <2>1. loc[q].stores \subseteq Stores
    BY <1>1 DEF BaseType, Local
  <2> QED
    BY <1>1, <2>1 DEF KnowsOf, RepairingOf, Noticed
<1> QED
  BY <1>2, <1>3, <1>4, <1>5, <1>6 DEF KnowsOf

-----------------------------------------------------------------------------
(* The initial state, and the steps that write nothing. *)

LEMMA InvInit == Init => Inv
<1> SUFFICES ASSUME Init PROVE Inv
  OBVIOUS
<1>1. TypeOK
  <2>1. listing \in [Stores -> Listing \cup {None}]
    BY DEF Init, Listing, Bounds
  <2>2. alias \in [Stores \X Bounds -> {"none", "open", "closed", "ignored"}]
    BY DEF Init
  <2> QED
    BY <2>1, <2>2 DEF Init, TypeOK, Exists, Bounds, Locations
<1>2. Blank \in Local
  BY DEF Blank, Local, Bounds
<1>3. loc \in [Requests -> Local] /\ \A p \in Requests : pc[p] = "off"
  BY <1>2 DEF Init
<1>4. \A p \in Requests : KnowsOf(p)
  BY <1>3 DEF KnowsOf, ScopingOf, InitingOf, ExitingOf, ReenteringOf, RepairingOf,
     Scoping, Initing, Exiting, Reentering, Repairing
<1>5. ExitLeaves /\ OverlapOnlyAcrossLocks /\ OneLeaveDate
  BY DEF Init, ExitLeaves, OverlapOnlyAcrossLocks, OneLeaveDate, Exists
<1>6. NothingOpenBeforeExit
  BY DEF Init, NothingOpenBeforeExit
<1> QED
  BY <1>1, <1>3, <1>4, <1>5, <1>6 DEF Inv, BaseType

Locks ==
  /\ scopeLock \in [Stores -> Requests \cup {None}]
  /\ exitLock \in Requests \cup {None}
  /\ reentryLock \in Requests \cup {None}
  /\ repairLock \in Requests \cup {None}

Calls == pc \in [Requests -> Locations] /\ loc \in [Requests -> Local]

LEMMA QuietStep ==
  ASSUME Inv, NEW p \in Requests, UNCHANGED data, Locks', Calls', OthersStay(p), KnowsOf(p)'
  PROVE  Inv'
<1>1. BaseType'
  BY DEF Inv, BaseType, TypeOK, Locks, Calls, data, media, Exists, Valid
<1>2. Noticed(p)
  BY DEF Noticed, RowsCovered, data, media, Exists
<1>3. \A q \in Requests \ {p} : KnowsOf(q)'
  BY <1>1, <1>2, OthersKnow
<1>4. (ExitLeaves /\ OverlapOnlyAcrossLocks /\ OneLeaveDate /\ NothingOpenBeforeExit)'
  BY DEF Inv, ExitLeaves, OverlapOnlyAcrossLocks, OneLeaveDate, NothingOpenBeforeExit,
     data, media, Exists, Overlap, Shown, Later
<1> QED
  BY <1>1, <1>3, <1>4 DEF Inv

LEMMA Returned ==
  ASSUME BaseType, NEW p \in Requests, Return(p)
  PROVE  Locks' /\ Calls' /\ OthersStay(p) /\ KnowsOf(p)'
<1>1. Blank \in Local
  BY DEF Blank, Local, Bounds
<1>2. Calls'
  BY <1>1 DEF Return, Goto, Set, BaseType, TypeOK, Calls, Locations
<1>3. Locks' /\ OthersStay(p)
  BY DEF Return, Goto, Set, Release, BaseType, TypeOK, Locks, OthersStay
<1>4. pc'[p] = "off"
  BY DEF Return, Goto, BaseType, TypeOK
<1> QED
  BY <1>2, <1>3, <1>4 DEF KnowsOf, ScopingOf, InitingOf, ExitingOf, ReenteringOf, RepairingOf,
     Scoping, Initing, Exiting, Reentering, Repairing

LEMMA ReturnKeeps ==
  ASSUME Inv, NEW p \in Requests, Return(p), UNCHANGED data
  PROVE  Inv'
BY Returned, QuietStep DEF Inv

(* p goes on with local variables r and its locks. *)
LEMMA GoesOn ==
  ASSUME BaseType, NEW p \in Requests, NEW l \in Locations, NEW r \in Local, Goto(p, l), Set(p, r)
  PROVE  /\ Calls'
         /\ pc'[p] = l /\ loc'[p] = r
         /\ \A q \in Requests \ {p} : pc'[q] = pc[q] /\ loc'[q] = loc[q]
BY DEF Goto, Set, BaseType, TypeOK, Calls

LEMMA StartStep ==
  ASSUME Inv, NEW p \in Requests, Start(p)
  PROVE  Inv'
<1>1. BaseType /\ Blank \in Local
  BY DEF Inv, Blank, Local, Bounds
<1>2. ASSUME NEW l \in Locations, NEW r \in Local, Goto(p, l), Set(p, r), UNCHANGED <<data, locks>>,
             KnowsOf(p)'
      PROVE  Inv'
  <2>1. Locks' /\ Calls' /\ OthersStay(p)
    BY <1>1, <1>2, GoesOn DEF locks, BaseType, TypeOK, Locks, OthersStay
  <2> QED
    BY <1>2, <2>1, QuietStep
<1>3. ASSUME NEW f \in Forms, Create(p, f) PROVE Inv'
  <2> DEFINE r == [Blank EXCEPT !.next = Written(f, "create")]
  <2>1. Written(f, "create") \in Row /\ Valid(Written(f, "create"))
    BY <1>3, MembershipAssumption DEF Create, Written, Row, Form, Valid, Writers, Scoped
  <2>2. r \in Local
    BY <1>1, <2>1 DEF Local, Blank
  <2>3. pc'[p] = "lock" /\ loc'[p] = r
    BY <1>1, <1>3, <2>2, GoesOn DEF Create, Locations
  <2>4. KnowsOf(p)'
    BY <2>1, <2>3 DEF KnowsOf, ScopingOf, InitingOf, ExitingOf, ReenteringOf, RepairingOf,
       Scoping, Initing, Exiting, Reentering, Repairing, Blank, Written, Scoped, Valid
  <2> QED
    BY <1>2, <1>3, <2>2, <2>4 DEF Create, Locations
<1>4. ASSUME NEW i \in Ids, Update(p, i) PROVE Inv'
  <2>1. PICK n \in Updates(rows[i]) :
          Valid(n) /\ Set(p, [Blank EXCEPT !.id = i, !.next = n])
    BY <1>4 DEF Update
  <2> DEFINE r == [Blank EXCEPT !.id = i, !.next = n]
  <2>2. rows[i] \in Row
    BY <1>1, <1>4 DEF Update, Exists, BaseType, TypeOK
  <2>3. n \in Row /\ n.by = "update"
    <3>1. CASE \E f \in Forms : n = Written(f, "update")
      BY <3>1, MembershipAssumption DEF Written, Row, Form, Writers, Scoped
    <3>2. CASE \E d \in Dates : n = [rows[i] EXCEPT !.left = d, !.status = "LEFT", !.by = "update"]
      BY <2>2, <3>2 DEF Row, Writers, Scoped, Status, Bounds
    <3>3. CASE \E st \in Open : n = [rows[i] EXCEPT !.status = st, !.by = "update"]
      BY <2>2, <3>3 DEF Row, Writers, Scoped, Status
    <3> QED
      BY <2>1, <3>1, <3>2, <3>3 DEF Updates
  <2>4. r \in Local
    BY <1>1, <2>3 DEF Local, Blank
  <2>5. pc'[p] = "lock" /\ loc'[p] = r
    BY <1>1, <1>4, <2>1, <2>4, GoesOn DEF Update, Locations
  <2>6. Exists(i)'
    BY <1>4 DEF Update, Exists, data
  <2>7. KnowsOf(p)'
    BY <2>1, <2>3, <2>5, <2>6 DEF KnowsOf, ScopingOf, InitingOf, ExitingOf, ReenteringOf,
       RepairingOf, Scoping, Initing, Exiting, Reentering, Repairing, Blank, Scoped, Valid
  <2> QED
    BY <1>2, <1>4, <2>1, <2>4, <2>7 DEF Update, Locations
<1>5. ASSUME NEW ss \in SUBSET Stores, Initialize(p, ss) PROVE Inv'
  <2> DEFINE r == [Blank EXCEPT !.stores = ss]
  <2>1. r \in Local
    BY <1>1 DEF Local, Blank
  <2>2. pc'[p] = "initLock" /\ loc'[p] = r
    BY <1>1, <1>5, <2>1, GoesOn DEF Initialize, Locations
  <2>3. KnowsOf(p)'
    BY <2>2 DEF KnowsOf, ScopingOf, InitingOf, ExitingOf, ReenteringOf, RepairingOf,
       Scoping, Initing, Exiting, Reentering, Repairing, Blank
  <2> QED
    BY <1>2, <1>5, <2>1, <2>3 DEF Initialize, Locations
<1>6. ASSUME NEW d \in Dates, NEW repair \in BOOLEAN, Exit(p, d, repair) PROVE Inv'
  <2> DEFINE r == [Blank EXCEPT !.date = d, !.repair = repair]
  <2>1. r \in Local
    BY <1>1 DEF Local, Blank, Bounds
  <2>2. pc'[p] = "exitLock" /\ loc'[p] = r
    BY <1>1, <1>6, <2>1, GoesOn DEF Exit, Locations
  <2>3. KnowsOf(p)'
    BY <2>2 DEF KnowsOf, ScopingOf, InitingOf, ExitingOf, ReenteringOf, RepairingOf,
       Scoping, Initing, Exiting, Reentering, Repairing, Blank
  <2> QED
    BY <1>2, <1>6, <2>1, <2>3 DEF Exit, Locations
<1>7. ASSUME NEW d \in Dates, NEW ss \in SUBSET Stores, NEW as \in SUBSET Stores,
             Reenter(p, d, ss, as)
      PROVE  Inv'
  <2> DEFINE r == [Blank EXCEPT !.date = d, !.stores = ss, !.aliases = as]
  <2>1. r \in Local
    BY <1>1 DEF Local, Blank, Bounds
  <2>2. pc'[p] = "reentryLock" /\ loc'[p] = r
    BY <1>1, <1>7, <2>1, GoesOn DEF Reenter, Locations
  <2>3. KnowsOf(p)'
    BY <2>2 DEF KnowsOf, ScopingOf, InitingOf, ExitingOf, ReenteringOf, RepairingOf,
       Scoping, Initing, Exiting, Reentering, Repairing, Blank
  <2> QED
    BY <1>2, <1>7, <2>1, <2>3 DEF Reenter, Locations
<1>8. ASSUME NEW as \in SUBSET (Stores \X Bounds), NEW ss \in SUBSET Stores, Repair(p, as, ss)
      PROVE  Inv'
  <2> DEFINE r == [Blank EXCEPT !.date = ended, !.aliases = as, !.stores = ss]
  <2>1. ended \in Dates
    BY <1>1, <1>8 DEF Repair, BaseType, TypeOK, Bounds
  <2>2. r \in Local
    BY <1>1, <2>1 DEF Local, Blank, Bounds
  <2>3. pc'[p] = "repairLock" /\ loc'[p] = r
    BY <1>1, <1>8, <2>2, GoesOn DEF Repair, Locations
  <2>4. \A s \in ss : listing'[s] # None
    BY <1>8 DEF Repair, Shown, data, media
  <2>5. KnowsOf(p)'
    BY <2>1, <2>3, <2>4 DEF KnowsOf, ScopingOf, InitingOf, ExitingOf, ReenteringOf, RepairingOf,
       Scoping, Initing, Exiting, Reentering, Repairing, Blank
  <2> QED
    BY <1>2, <1>8, <2>2, <2>5 DEF Repair, Locations
<1> QED
  BY <1>3, <1>4, <1>5, <1>6, <1>7, <1>8 DEF Start

-----------------------------------------------------------------------------
(* The steps that look and lock. *)

(* A step that writes nothing and changes at most the locks of p. *)
LEMMA LookStep ==
  ASSUME Inv, NEW p \in Requests, UNCHANGED data,
         NEW l \in Locations, NEW r \in Local, Goto(p, l), Set(p, r),
         Locks', \A q \in Requests \ {p} : /\ \A s \in Stores : scopeLock[s] = q => scopeLock'[s] = q
                                           /\ exitLock = q => exitLock' = q
                                           /\ reentryLock = q => reentryLock' = q,
         KnowsOf(p)'
  PROVE  Inv'
<1>1. Calls' /\ OthersStay(p)
  BY GoesOn DEF Inv, OthersStay
<1> QED
  BY <1>1, QuietStep

LEMMA SetSame ==
  ASSUME BaseType, NEW p \in Requests, UNCHANGED loc
  PROVE  loc[p] \in Local /\ Set(p, loc[p])
BY DEF BaseType, Set

LEMMA ScopeLockStep ==
  ASSUME Inv, NEW p \in Requests, ScopeLock(p)
  PROVE  Inv'
<1>1. BaseType /\ ScopingOf(p) /\ pc[p] = "lock"
  BY DEF Inv, KnowsOf, ScopeLock
<1> DEFINE s == loc[p].next.store
<1>2. s \in Stores /\ loc[p].id \in Ids \cup {None}
  BY <1>1 DEF ScopingOf, Scoping, Row, BaseType, Local
<1>3. loc[p] \in Local /\ Set(p, loc[p])
  BY <1>1, SetSame DEF ScopeLock
<1>4. scopeLock' = [scopeLock EXCEPT ![s] = p] /\ scopeLock[s] = None
  BY DEF ScopeLock
<1>5. Locks' /\ \A q \in Requests \ {p}, t \in Stores : scopeLock[t] = q => scopeLock'[t] = q
  BY <1>1, <1>2, <1>4, MembershipAssumption DEF ScopeLock, Locks, BaseType, TypeOK
<1>6. pc'[p] = "check" /\ loc'[p] = loc[p]
  BY <1>1 DEF ScopeLock, Goto, BaseType, TypeOK
<1>7. ScopingOf(p)'
  BY <1>1, <1>2, <1>4, <1>6 DEF ScopingOf, Scoping, ScopeLock, data, Exists, BaseType, TypeOK, Valid
<1>8. KnowsOf(p)'
  BY <1>6, <1>7 DEF KnowsOf, InitingOf, ExitingOf, ReenteringOf, RepairingOf,
     Initing, Exiting, Reentering, Repairing
<1> QED
  BY <1>3, <1>5, <1>8, LookStep DEF ScopeLock, Locations

LEMMA CheckStep ==
  ASSUME Inv, NEW p \in Requests, Check(p)
  PROVE  Inv'
<1>1. BaseType /\ ScopingOf(p) /\ pc[p] = "check"
  BY DEF Inv, KnowsOf, Check
<1>2. CASE Return(p)
  BY <1>2, ReturnKeeps DEF Check
<1>3. CASE Free(loc[p].next, loc[p].id) /\ Goto(p, "write") /\ UNCHANGED <<loc, locks>>
  <2>1. pc'[p] = "write" /\ loc'[p] = loc[p] /\ UNCHANGED <<rows, scopeLock>>
    BY <1>1, <1>3 DEF Check, Goto, BaseType, TypeOK, data, locks
  <2>2. \A j \in Ids \ {loc[p].id} :
          ScopedIn(j, loc[p].next.store) => ~Overlap(loc[p].next, rows[j])
    BY <1>3 DEF Free, InStore, ScopedIn
  <2>3. ScopingOf(p)'
    BY <1>1, <2>1, <2>2 DEF ScopingOf, Scoping, Exists, Valid, Overlap, ScopedIn
  <2>4. KnowsOf(p)'
    BY <2>1, <2>3 DEF KnowsOf, InitingOf, ExitingOf, ReenteringOf, RepairingOf,
       Initing, Exiting, Reentering, Repairing
  <2>5. Locks' /\ loc[p] \in Local /\ Set(p, loc[p])
    BY <1>1, <1>3, SetSame DEF locks, Locks, BaseType, TypeOK
  <2> QED
    BY <1>3, <2>4, <2>5, LookStep DEF Check, Locations, locks
<1> QED
  BY <1>2, <1>3 DEF Check

LEMMA InitLockStep ==
  ASSUME Inv, NEW p \in Requests, InitLock(p)
  PROVE  Inv'
<1>1. BaseType /\ InitingOf(p) /\ pc[p] = "initLock"
  BY DEF Inv, KnowsOf, InitLock
<1>2. PICK s \in loc[p].stores :
        /\ scopeLock[s] = None /\ scopeLock' = [scopeLock EXCEPT ![s] = p]
        /\ Set(p, [loc[p] EXCEPT !.stores = loc[p].stores \ {s}, !.store = s])
        /\ Goto(p, "initCheck")
        /\ UNCHANGED <<data, exitLock, reentryLock, repairLock>>
  BY DEF InitLock
<1> DEFINE r == [loc[p] EXCEPT !.stores = loc[p].stores \ {s}, !.store = s]
<1>3. s \in Stores /\ r \in Local
  BY <1>1 DEF BaseType, Local
<1>4. Locks' /\ \A q \in Requests \ {p}, t \in Stores : scopeLock[t] = q => scopeLock'[t] = q
  BY <1>1, <1>2, <1>3, MembershipAssumption DEF Locks, BaseType, TypeOK
<1>5. pc'[p] = "initCheck" /\ loc'[p] = r
  BY <1>1, <1>2, <1>3, GoesOn DEF Locations
<1>6. loc'[p].found = loc[p].found /\ loc'[p].store = s
  BY <1>1, <1>5 DEF BaseType, Local
<1>7. InitingOf(p)'
  BY <1>1, <1>2, <1>3, <1>5, <1>6 DEF InitingOf, Initing, ScopedIn, Exists, data, BaseType, TypeOK
<1>8. KnowsOf(p)'
  BY <1>5, <1>7 DEF KnowsOf, ScopingOf, ExitingOf, ReenteringOf, RepairingOf,
     Scoping, Exiting, Reentering, Repairing
<1> QED
  BY <1>2, <1>3, <1>4, <1>8, LookStep DEF Locations

LEMMA InitCheckStep ==
  ASSUME Inv, NEW p \in Requests, InitCheck(p)
  PROVE  Inv'
<1>1. BaseType /\ InitingOf(p) /\ pc[p] = "initCheck"
  BY DEF Inv, KnowsOf, InitCheck
<1> DEFINE s == loc[p].store
           made == IF InStore(s) = {} THEN {s} ELSE {}
           r == [loc[p] EXCEPT !.found = loc[p].found \cup made]
           l == IF loc[p].stores = {} THEN "initWrite" ELSE "initLock"
<1>2. Set(p, r) /\ Goto(p, l) /\ UNCHANGED <<data, locks>>
  BY DEF InitCheck
<1>3. s \in Stores /\ scopeLock[s] = p /\ loc[p].found \subseteq Stores
  BY <1>1 DEF InitingOf, Initing
<1>4. r \in Local /\ l \in Locations
  BY <1>1, <1>3 DEF BaseType, Local, Locations
<1>5. pc'[p] = l /\ loc'[p] = r
  BY <1>1, <1>2, <1>4, GoesOn
<1>6. loc'[p].found = loc[p].found \cup made
  BY <1>1, <1>5 DEF BaseType, Local
<1>7. InStore(s) = {} => \A j \in Ids : ~ScopedIn(j, s)
  BY DEF InStore, ScopedIn
<1>8. InitingOf(p)'
  BY <1>1, <1>2, <1>3, <1>5, <1>6, <1>7 DEF InitingOf, Initing, ScopedIn, Exists, data, locks
<1>9. KnowsOf(p)'
  BY <1>5, <1>8 DEF KnowsOf, ScopingOf, ExitingOf, ReenteringOf, RepairingOf,
     Scoping, Exiting, Reentering, Repairing
<1>10. Locks'
  BY <1>1, <1>2 DEF Locks, locks, BaseType, TypeOK
<1> HIDE DEF r, l
<1> QED
  BY <1>2, <1>4, <1>9, <1>10, LookStep DEF locks

LEMMA ExitLookStep ==
  ASSUME Inv, NEW p \in Requests, ExitLock(p) \/ ExitCast(p) \/ ExitRows(p)
  PROVE  Inv'
<1>1. BaseType /\ ExitingOf(p)
  BY DEF Inv, KnowsOf
<1>2. CASE Return(p)
  BY <1>2, ReturnKeeps DEF ExitLock, ExitCast, ExitRows, Return, Goto, data, BaseType, TypeOK
<1>3. CASE ExitLock(p)
  <2>1. loc[p] \in Local /\ Set(p, loc[p])
    BY <1>1, <1>3, SetSame DEF ExitLock
  <2>2. pc'[p] = "exitCast" /\ loc'[p] = loc[p] /\ exitLock' = p /\ exitLock = None /\ pc[p] = "exitLock"
    BY <1>1, <1>3 DEF ExitLock, Goto, BaseType, TypeOK
  <2>3. KnowsOf(p)'
    BY <1>1, <2>2 DEF KnowsOf, ScopingOf, InitingOf, ExitingOf, ReenteringOf, RepairingOf,
       Scoping, Initing, Exiting, Reentering, Repairing
  <2>4. Locks'
    BY <1>1, <1>3 DEF ExitLock, Locks, BaseType, TypeOK
  <2> QED
    BY <1>3, <2>1, <2>2, <2>3, <2>4, MembershipAssumption, LookStep DEF ExitLock, Locations
<1>4. CASE ExitCast(p) /\ Goto(p, "exitRows") /\ UNCHANGED <<loc, locks>>
  <2>1. loc[p] \in Local /\ Set(p, loc[p])
    BY <1>1, <1>4, SetSame
  <2>2. pc'[p] = "exitRows" /\ loc'[p] = loc[p] /\ pc[p] = "exitCast"
    BY <1>1, <1>4 DEF ExitCast, Goto, BaseType, TypeOK
  <2>3. KnowsOf(p)'
    BY <1>1, <1>4, <2>2 DEF KnowsOf, ScopingOf, InitingOf, ExitingOf, ReenteringOf, RepairingOf,
       Scoping, Initing, Exiting, Reentering, Repairing, locks
  <2>4. Locks'
    BY <1>1, <1>4 DEF locks, Locks, BaseType, TypeOK
  <2> QED
    BY <1>4, <2>1, <2>3, <2>4, LookStep DEF ExitCast, Locations, locks
<1>5. CASE /\ ExitRows(p) /\ Consistent(loc[p].date)
           /\ Set(p, [loc[p] EXCEPT !.found = {i \in Ids : Exists(i) /\ rows[i].status \in Open}])
           /\ Goto(p, "exitWrite") /\ UNCHANGED locks
  <2> DEFINE r == [loc[p] EXCEPT !.found = {i \in Ids : Exists(i) /\ rows[i].status \in Open}]
  <2>1. r \in Local
    BY <1>1 DEF BaseType, Local
  <2>2. pc'[p] = "exitWrite" /\ loc'[p] = r /\ pc[p] = "exitRows"
    BY <1>1, <1>5, <2>1, GoesOn DEF ExitRows, Locations
  <2>3. /\ loc'[p].date = loc[p].date
        /\ loc'[p].found = {i \in Ids : Exists(i) /\ rows[i].status \in Open}
    BY <1>1, <2>2 DEF BaseType, Local
  <2>4. \A i \in Ids : Exists(i) /\ rows[i].by = "exit" => rows[i].left = loc[p].date
    BY <1>5 DEF Consistent, LeftDates, Inv, ExitLeaves
  <2>5. ExitingOf(p)'
    BY <1>1, <1>5, <2>2, <2>3, <2>4 DEF ExitingOf, Exiting, ExitRows, data, locks, Exists
  <2>6. KnowsOf(p)'
    BY <2>2, <2>5 DEF KnowsOf, ScopingOf, InitingOf, ReenteringOf, RepairingOf,
       Scoping, Initing, Reentering, Repairing
  <2>7. Locks'
    BY <1>1, <1>5 DEF locks, Locks, BaseType, TypeOK
  <2> QED
    BY <1>5, <2>1, <2>6, <2>7, LookStep DEF ExitRows, Locations, locks
<1> QED
  BY <1>2, <1>3, <1>4, <1>5 DEF ExitCast, ExitRows

LEMMA ReenterLookStep ==
  ASSUME Inv, NEW p \in Requests,
         ReentryLock(p) \/ ReenterCast(p) \/ ReenterRows(p) \/ ReenterMedia(p)
  PROVE  Inv'
<1>1. BaseType /\ ReenteringOf(p)
  BY DEF Inv, KnowsOf
<1>2. CASE Return(p)
  BY <1>2, ReturnKeeps DEF ReentryLock, ReenterCast, ReenterRows, ReenterMedia, Return, Goto, data,
     BaseType, TypeOK
<1>3. CASE ReentryLock(p)
  <2>1. loc[p] \in Local /\ Set(p, loc[p])
    BY <1>1, <1>3, SetSame DEF ReentryLock
  <2>2. /\ pc'[p] = "reenterCast" /\ loc'[p] = loc[p] /\ reentryLock' = p /\ reentryLock = None
        /\ pc[p] = "reentryLock"
    BY <1>1, <1>3 DEF ReentryLock, Goto, BaseType, TypeOK
  <2>3. KnowsOf(p)'
    BY <1>1, <2>2 DEF KnowsOf, ScopingOf, InitingOf, ExitingOf, ReenteringOf, RepairingOf,
       Scoping, Initing, Exiting, Reentering, Repairing
  <2>4. Locks'
    BY <1>1, <1>3 DEF ReentryLock, Locks, BaseType, TypeOK
  <2> QED
    BY <1>3, <2>1, <2>2, <2>3, <2>4, MembershipAssumption, LookStep DEF ReentryLock, Locations
<1>4. ASSUME NEW l \in {"reenterRows", "reenterWrite"}, Goto(p, l), UNCHANGED <<data, loc, locks>>,
             pc[p] \in {"reenterCast", "reenterMedia"}
      PROVE  Inv'
  <2>1. loc[p] \in Local /\ Set(p, loc[p])
    BY <1>1, <1>4, SetSame
  <2>2. pc'[p] = l /\ loc'[p] = loc[p]
    BY <1>1, <1>4 DEF Goto, BaseType, TypeOK
  <2>3. ReenteringOf(p)'
    BY <1>1, <1>4, <2>2 DEF ReenteringOf, Reentering, locks, data, ReenteredIn, Exists
  <2>4. KnowsOf(p)'
    BY <1>4, <2>2, <2>3 DEF KnowsOf, ScopingOf, InitingOf, ExitingOf, RepairingOf,
       Scoping, Initing, Exiting, Repairing
  <2>5. Locks'
    BY <1>1, <1>4 DEF locks, Locks, BaseType, TypeOK
  <2>6. l \in Locations
    BY <1>4 DEF Locations
  <2> QED
    BY <1>4, <2>1, <2>4, <2>5, <2>6, LookStep DEF locks
<1>5. ASSUME NEW s \in loc[p].stores, pc[p] = "reenterRows",
             Free(Current(s, loc[p].date, "reenter"), None),
             Set(p, [loc[p] EXCEPT !.stores = loc[p].stores \ {s}, !.found = loc[p].found \cup {s}]),
             Goto(p, IF loc[p].stores \ {s} = {} THEN "reenterMedia" ELSE "reenterRows"),
             UNCHANGED <<data, locks>>
      PROVE  Inv'
  <2> DEFINE r == [loc[p] EXCEPT !.stores = loc[p].stores \ {s}, !.found = loc[p].found \cup {s}]
             l == IF loc[p].stores \ {s} = {} THEN "reenterMedia" ELSE "reenterRows"
  <2>1. s \in Stores /\ loc[p].found \subseteq Stores
    BY <1>1, <1>5 DEF BaseType, Local, ReenteringOf, Reentering
  <2>2. r \in Local /\ l \in Locations
    BY <1>1, <2>1 DEF BaseType, Local, Locations
  <2>3. pc'[p] = l /\ loc'[p] = r
    BY <1>1, <1>5, <2>2, GoesOn
  <2>4. /\ loc'[p].found = loc[p].found \cup {s} /\ loc'[p].date = loc[p].date
        /\ loc'[p].aliases = loc[p].aliases
    BY <1>1, <2>3 DEF BaseType, Local
  <2>5. \A j \in Ids : ReenteredIn(j, s) => ~Overlap(Current(s, loc[p].date, "reenter"), rows[j])
    BY <1>5, MembershipAssumption DEF Free, InStore, ReenteredIn, Current, Written
  <2>6. \A t \in loc[p].found, j \in Ids :
          ReenteredIn(j, t) => ~Overlap(Current(t, loc[p].date, "reenter"), rows[j])
    BY <1>1, <1>5 DEF ReenteringOf, Reentering
  <2>7. reentryLock = p
    BY <1>1, <1>5 DEF ReenteringOf, Reentering
  <2>8. UNCHANGED <<rows, reentryLock>>
    BY <1>5 DEF data, locks
  <2>9. \A t \in loc'[p].found, j \in Ids :
          ReenteredIn(j, t)' => ~Overlap(Current(t, loc'[p].date, "reenter"), rows'[j])
    BY <2>4, <2>5, <2>6, <2>8 DEF ReenteredIn, Exists
  <2>10. loc'[p].date \in Dates /\ loc'[p].found \subseteq Stores /\ loc'[p].aliases \subseteq Stores
    BY <1>1, <1>5, <2>1, <2>4 DEF ReenteringOf, Reentering
  <2>11. ReenteringOf(p)'
    BY <2>3, <2>7, <2>8, <2>9, <2>10 DEF ReenteringOf
  <2>12. KnowsOf(p)'
    BY <2>3, <2>11 DEF KnowsOf, ScopingOf, InitingOf, ExitingOf, RepairingOf,
       Scoping, Initing, Exiting, Repairing
  <2>13. Locks'
    BY <1>1, <1>5 DEF Locks, locks, BaseType, TypeOK
  <2> HIDE DEF r, l
  <2> QED
    BY <1>5, <2>2, <2>12, <2>13, LookStep DEF locks, r, l
<1>6. CASE ReenterRows(p)
  <2>1. PICK s \in loc[p].stores :
          LET free == Free(Current(s, loc[p].date, "reenter"), None)
              rest == loc[p].stores \ {s}
          IN /\ pc[p] = "reenterRows"
             /\ \/ /\ free
                   /\ Set(p, [loc[p] EXCEPT !.stores = rest, !.found = @ \cup {s}])
                   /\ Goto(p, IF rest = {} THEN "reenterMedia" ELSE "reenterRows")
                   /\ UNCHANGED locks
                \/ ~free /\ Return(p)
             /\ UNCHANGED data
    BY <1>6 DEF ReenterRows
  <2> QED
    BY <1>2, <1>5, <2>1
<1> QED
  BY <1>2, <1>3, <1>4, <1>6 DEF ReenterCast, ReenterMedia

LEMMA RepairLockStep ==
  ASSUME Inv, NEW p \in Requests, RepairLock(p)
  PROVE  Inv'
<1>1. BaseType /\ RepairingOf(p)
  BY DEF Inv, KnowsOf
<1>2. loc[p] \in Local /\ Set(p, loc[p])
  BY <1>1, SetSame DEF RepairLock
<1>3. pc'[p] = "repairWrite" /\ loc'[p] = loc[p] /\ pc[p] = "repairLock"
  BY <1>1 DEF RepairLock, Goto, BaseType, TypeOK
<1>4. KnowsOf(p)'
  BY <1>1, <1>3 DEF KnowsOf, ScopingOf, InitingOf, ExitingOf, ReenteringOf, RepairingOf,
     Scoping, Initing, Exiting, Reentering, Repairing, RepairLock, data, media
<1>5. Locks'
  BY <1>1 DEF RepairLock, Locks, BaseType, TypeOK
<1> QED
  BY <1>2, <1>4, <1>5, LookStep DEF RepairLock, Locations

-----------------------------------------------------------------------------
(* The steps that write. *)

(* Insert puts the new rows, each once, in place of nothing. *)
LEMMA Inserted ==
  ASSUME BaseType, NEW new \in SUBSET Row, \A r \in new : Valid(r), Insert(new)
  PROVE  /\ rows' \in [Ids -> Row \cup {None}]
         /\ \A i \in Ids : Exists(i)' => Valid(rows'[i])
         /\ \A i \in Ids : rows'[i] = rows[i] \/ (rows[i] = None /\ rows'[i] \in new)
         /\ \A i, j \in Ids : i # j /\ rows[i] = None /\ rows[j] = None /\ rows'[i] # None
                                => rows'[i] # rows'[j]
<1>1. PICK f \in Injection(new, {i \in Ids : ~Exists(i)}) :
        rows' = [i \in Ids |-> IF \E r \in new : f[r] = i THEN CHOOSE r \in new : f[r] = i
                                                          ELSE rows[i]]
  BY DEF Insert
<1>2. /\ \A r \in new : f[r] \in Ids /\ ~Exists(f[r])
      /\ \A r, q \in new : f[r] = f[q] => r = q
  BY DEF Injection, IsInjective
<1>3. \A i \in Ids : \/ \E r \in new : f[r] = i /\ rows'[i] = r
                     \/ rows'[i] = rows[i] /\ ~\E r \in new : f[r] = i
  BY <1>1
<1>4. rows \in [Ids -> Row \cup {None}] /\ \A i \in Ids : Exists(i) => Valid(rows[i])
  BY DEF BaseType, TypeOK
<1>5. DOMAIN rows' = Ids /\ rows' = [i \in Ids |-> rows'[i]]
  BY <1>1
<1>6. \A i \in Ids : rows'[i] \in Row \cup {None}
  BY <1>3, <1>4
<1>7. \A i \in Ids : rows'[i] = rows[i] \/ (rows[i] = None /\ rows'[i] \in new)
  BY <1>2, <1>3 DEF Exists
<1>8. \A i, j \in Ids : i # j /\ rows[i] = None /\ rows[j] = None /\ rows'[i] # None
                          => rows'[i] # rows'[j]
  BY <1>2, <1>3
<1>9. \A i \in Ids : Exists(i)' => Valid(rows'[i])
  BY <1>4, <1>7 DEF Exists, Valid
<1> QED
  BY <1>5, <1>6, <1>7, <1>8, <1>9

(* A call that ends with a write leaves the rest to what it wrote. *)
LEMMA LastStep ==
  ASSUME Inv, NEW p \in Requests, Return(p), RowsCovered(p),
         \A s \in Stores : listing[s] # None => listing'[s] # None,
         rows' \in [Ids -> Row \cup {None}], \A i \in Ids : Exists(i)' => Valid(rows'[i]),
         ended' \in Bounds,
         listing' \in [Stores -> Listing \cup {None}],
         alias' \in [Stores \X Bounds -> {"none", "open", "closed", "ignored"}],
         ExitLeaves', OverlapOnlyAcrossLocks', OneLeaveDate', NothingOpenBeforeExit'
  PROVE  Inv'
<1>1. Locks' /\ Calls' /\ OthersStay(p) /\ KnowsOf(p)'
  BY Returned DEF Inv
<1>2. BaseType'
  BY <1>1 DEF BaseType, TypeOK, Locks, Calls
<1>3. \A q \in Requests \ {p} : KnowsOf(q)'
  BY <1>1, <1>2, OthersKnow DEF Noticed
<1> QED
  BY <1>1, <1>2, <1>3 DEF Inv

LEMMA OverlapSymmetric == ASSUME NEW r, NEW q, Overlap(r, q) PROVE Overlap(q, r)
BY DEF Overlap

(* When only new pairs could overlap, the pairs of unchanged rows need no  *)
(* second look.                                                            *)
LEMMA StillApart ==
  ASSUME Inv,
         \A i, j \in Ids :
           /\ i # j /\ Exists(i)' /\ Exists(j)' /\ rows'[i] # rows[i]
           /\ rows'[i].store = rows'[j].store
           /\ \/ rows'[i].by \in Scoped /\ rows'[j].by \in Scoped
              \/ rows'[i].by = "reenter" /\ rows'[j].by = "reenter"
           => ~Overlap(rows'[i], rows'[j])
  PROVE  OverlapOnlyAcrossLocks'
<1> SUFFICES ASSUME NEW i \in Ids, NEW j \in Ids, i # j, Exists(i)', Exists(j)',
                    rows'[i].store = rows'[j].store, Overlap(rows'[i], rows'[j]),
                    \/ rows'[i].by \in Scoped /\ rows'[j].by \in Scoped
                    \/ rows'[i].by = "reenter" /\ rows'[j].by = "reenter"
             PROVE  FALSE
  BY DEF OverlapOnlyAcrossLocks, Overlap
<1>1. CASE rows'[i] = rows[i] /\ rows'[j] = rows[j]
  BY <1>1 DEF Inv, OverlapOnlyAcrossLocks, Exists
<1>2. CASE rows'[i] # rows[i]
  BY <1>2
<1>3. CASE rows'[j] # rows[j]
  BY <1>3, OverlapSymmetric
<1> QED
  BY <1>1, <1>2, <1>3

LEMMA WriteStep ==
  ASSUME Inv, NEW p \in Requests, Write(p)
  PROVE  Inv'
<1> DEFINE n == loc[p].next
           id == loc[p].id
<1>1. BaseType /\ pc[p] = "write" /\ ScopingOf(p) /\ Return(p) /\ UNCHANGED <<ended, media>>
  BY DEF Inv, KnowsOf, Write
<1>2. n \in Row /\ Valid(n) /\ n.by \in Scoped /\ id \in Ids \cup {None} /\ scopeLock[n.store] = p
  BY <1>1 DEF ScopingOf, Scoping, BaseType, Local
<1>3. \A j \in Ids \ {id} : ScopedIn(j, n.store) => ~Overlap(n, rows[j])
  BY <1>1 DEF ScopingOf, Scoping
<1>4. /\ rows' \in [Ids -> Row \cup {None}]
      /\ \A i \in Ids : Exists(i)' => Valid(rows'[i])
      /\ \A i \in Ids : Exists(i) => Exists(i)'
      /\ \A i \in Ids : rows'[i] # rows[i] => rows'[i] = n /\ id \in {i, None}
      /\ \A i, j \in Ids : i # j => rows'[i] = rows[i] \/ rows'[j] = rows[j]
  <2>1. CASE id = None
    <3>1. Insert({n})
      BY <2>1, MembershipAssumption, <1>1, <1>2 DEF Write
    <3>2. {n} \in SUBSET Row /\ \A r \in {n} : Valid(r)
      BY <1>2
    <3> HIDE DEF n
    <3>3. /\ rows' \in [Ids -> Row \cup {None}]
          /\ \A i \in Ids : Exists(i)' => Valid(rows'[i])
          /\ \A i \in Ids : rows'[i] = rows[i] \/ (rows[i] = None /\ rows'[i] \in {n})
          /\ \A i, j \in Ids : i # j /\ rows[i] = None /\ rows[j] = None /\ rows'[i] # None
                                => rows'[i] # rows'[j]
      BY <1>1, <3>1, <3>2, Inserted
    <3> QED
      BY <2>1, <3>3 DEF Exists
  <2>2. CASE id # None
    <3>1. rows' = [rows EXCEPT ![id] = n] /\ id \in Ids /\ n # None
      BY <1>2, <2>2, MembershipAssumption DEF Write
    <3> QED
      BY <1>1, <1>2, <2>2, <3>1 DEF BaseType, TypeOK, Exists, Valid
  <2> QED
    BY <2>1, <2>2
<1> HIDE DEF n, id
<1>5. RowsCovered(p)
  BY <1>2, <1>4, MembershipAssumption DEF RowsCovered, Scoped
<1>6. ExitLeaves' /\ OneLeaveDate'
  BY <1>1, <1>2, <1>4 DEF Inv, ExitLeaves, OneLeaveDate, Scoped, Exists
<1>7. OverlapOnlyAcrossLocks'
  <2> SUFFICES ASSUME NEW i \in Ids, NEW j \in Ids, i # j, Exists(i)', Exists(j)', rows'[i] # rows[i],
                      rows'[i].store = rows'[j].store,
                      \/ rows'[i].by \in Scoped /\ rows'[j].by \in Scoped
                      \/ rows'[i].by = "reenter" /\ rows'[j].by = "reenter"
               PROVE  ~Overlap(rows'[i], rows'[j])
    BY StillApart
  <2>1. rows'[i] = n /\ rows'[j] = rows[j] /\ rows[j].by \in Scoped /\ j # id
    BY <1>2, <1>4, MembershipAssumption DEF Scoped
  <2>2. ScopedIn(j, n.store)
    BY <2>1 DEF ScopedIn, Exists
  <2> QED
    BY <1>3, <2>1, <2>2
<1>8. NothingOpenBeforeExit'
  BY <1>1 DEF Inv, NothingOpenBeforeExit, media, Shown, Later
<1>9. /\ ended' \in Bounds
      /\ listing' \in [Stores -> Listing \cup {None}]
      /\ alias' \in [Stores \X Bounds -> {"none", "open", "closed", "ignored"}]
      /\ \A s \in Stores : listing[s] # None => listing'[s] # None
  BY <1>1 DEF media, BaseType, TypeOK
<1> QED
  BY <1>1, <1>4, <1>5, <1>6, <1>7, <1>8, <1>9, LastStep

LEMMA InitWriteStep ==
  ASSUME Inv, NEW p \in Requests, InitWrite(p)
  PROVE  Inv'
<1> DEFINE new == {Current(s, None, "initialize") : s \in loc[p].found}
<1>1. BaseType /\ InitingOf(p) /\ pc[p] = "initWrite" /\ Return(p) /\ Insert(new)
      /\ UNCHANGED <<ended, media>>
  BY DEF Inv, KnowsOf, InitWrite
<1>2. loc[p].found \subseteq Stores
      /\ \A s \in loc[p].found : scopeLock[s] = p /\ \A j \in Ids : ~ScopedIn(j, s)
  BY <1>1 DEF InitingOf, Initing
<1>3. \A r \in new : /\ r \in Row /\ Valid(r) /\ r.by = "initialize"
                     /\ r.store \in loc[p].found /\ r = Current(r.store, None, "initialize")
  BY <1>2 DEF Current, Written, Row, Valid, Bounds, Status, Open, Writers, Scoped
<1> HIDE DEF new
<1>4. /\ rows' \in [Ids -> Row \cup {None}]
      /\ \A i \in Ids : Exists(i)' => Valid(rows'[i])
      /\ \A i \in Ids : rows'[i] = rows[i] \/ (rows[i] = None /\ rows'[i] \in new)
      /\ \A i, j \in Ids : i # j /\ rows[i] = None /\ rows[j] = None /\ rows'[i] # None
                            => rows'[i] # rows'[j]
  BY <1>1, <1>3, Inserted
<1>5. RowsCovered(p)
  BY <1>2, <1>3, <1>4, MembershipAssumption DEF RowsCovered, Exists, Scoped
<1>6. ExitLeaves' /\ OneLeaveDate'
  BY <1>1, <1>3, <1>4 DEF Inv, ExitLeaves, OneLeaveDate, Exists
<1>7. OverlapOnlyAcrossLocks'
  <2> SUFFICES ASSUME NEW i \in Ids, NEW j \in Ids, i # j, Exists(i)', Exists(j)', rows'[i] # rows[i],
                      rows'[i].store = rows'[j].store,
                      \/ rows'[i].by \in Scoped /\ rows'[j].by \in Scoped
                      \/ rows'[i].by = "reenter" /\ rows'[j].by = "reenter"
               PROVE  FALSE
    BY StillApart
  <2>1. rows[i] = None /\ rows'[i] \in new /\ rows'[i].store \in loc[p].found /\ rows'[i].by = "initialize"
    BY <1>3, <1>4
  <2>2. rows'[j].by \in Scoped
    BY <2>1 DEF Scoped
  <2>3. CASE rows'[j] = rows[j]
    BY <1>2, <2>1, <2>2, <2>3 DEF ScopedIn, Exists
  <2>4. CASE rows'[j] # rows[j]
    BY <1>3, <1>4, <2>1, <2>4 DEF Exists
  <2> QED
    BY <2>3, <2>4
<1>8. NothingOpenBeforeExit'
  BY <1>1 DEF Inv, NothingOpenBeforeExit, media, Shown, Later
<1>9. /\ ended' \in Bounds
      /\ listing' \in [Stores -> Listing \cup {None}]
      /\ alias' \in [Stores \X Bounds -> {"none", "open", "closed", "ignored"}]
      /\ \A s \in Stores : listing[s] # None => listing'[s] # None
  BY <1>1 DEF media, BaseType, TypeOK
<1> QED
  BY <1>1, <1>4, <1>5, <1>6, <1>7, <1>8, <1>9, LastStep

LEMMA ExitWriteStep ==
  ASSUME Inv, NEW p \in Requests, ExitWrite(p)
  PROVE  Inv'
<1> DEFINE d == loc[p].date
           found == loc[p].found
<1>1. /\ BaseType /\ ExitingOf(p) /\ pc[p] = "exitWrite" /\ Return(p) /\ DateOrder(found, d)
      /\ ended' = d
      /\ rows' = [i \in Ids |-> IF i \in found
                                THEN [rows[i] EXCEPT !.left = d, !.status = "LEFT", !.by = "exit"]
                                ELSE rows[i]]
      /\ CloseListings(d, loc[p].repair) /\ CloseAliases(d, loc[p].repair)
  BY DEF Inv, KnowsOf, ExitWrite
<1>2. /\ d \in Dates /\ exitLock = p /\ found \subseteq Ids
      /\ \A i \in found : Exists(i)
      /\ \A i \in Ids : Exists(i) /\ rows[i].by = "exit" => rows[i].left = d
  BY <1>1 DEF ExitingOf, Exiting
<1> HIDE DEF d, found
<1>3. ASSUME NEW i \in found
      PROVE  /\ rows'[i] \in Row /\ Valid(rows'[i])
             /\ rows'[i].by = "exit" /\ rows'[i].status = "LEFT" /\ rows'[i].left = d
  <2>1. i \in Ids /\ rows[i] \in Row /\ rows'[i] = [rows[i] EXCEPT !.left = d, !.status = "LEFT", !.by = "exit"]
    BY <1>1, <1>2, <1>3 DEF BaseType, TypeOK, Exists
  <2>2. /\ rows'[i] \in Row /\ rows'[i].by = "exit" /\ rows'[i].status = "LEFT"
        /\ rows'[i].left = d /\ rows'[i].joined = rows[i].joined
    BY <1>2, <2>1 DEF Row, Bounds, Status, Writers
  <2>3. rows[i].joined \in Bounds /\ ~Later(rows[i].joined, d)
    BY <1>1, <1>3, <2>1 DEF DateOrder, Row
  <2>4. rows'[i].joined # None => rows'[i].joined <= d
    <3>1. d \in Nat /\ (rows[i].joined # None => rows[i].joined \in Nat)
      BY <1>2, <2>3, MembershipAssumption DEF Bounds
    <3>2. \A a, b \in Nat : ~(a > b) => a <= b
      OBVIOUS
    <3> QED
      BY <2>2, <2>3, <3>1, <3>2 DEF Later
  <2> QED
    BY <1>2, <2>2, <2>4, MembershipAssumption DEF Valid
<1>4. \A i \in Ids \ found : rows'[i] = rows[i]
  BY <1>1
<1>5. /\ rows' \in [Ids -> Row \cup {None}]
      /\ \A i \in Ids : Exists(i)' => Valid(rows'[i])
  <2>1. \A i \in Ids : rows'[i] \in Row \cup {None} /\ (Exists(i)' => Valid(rows'[i]))
    BY <1>1, <1>3, <1>4 DEF BaseType, TypeOK, Exists, Valid
  <2>2. DOMAIN rows' = Ids /\ rows' = [i \in Ids |-> rows'[i]]
    BY <1>1
  <2> QED
    BY <2>1, <2>2
<1>6. RowsCovered(p)
  BY <1>2, <1>3, <1>4, MembershipAssumption DEF RowsCovered, Exists, Scoped
<1>7. ExitLeaves' /\ OneLeaveDate'
  BY <1>1, <1>2, <1>3, <1>4 DEF Inv, ExitLeaves, OneLeaveDate, Exists
<1>8. OverlapOnlyAcrossLocks'
  <2>1. \A i \in Ids : rows'[i] # rows[i] => rows'[i].by = "exit"
    BY <1>3, <1>4
  <2> QED
    BY <2>1, StillApart DEF Scoped
<1>9. /\ listing' \in [Stores -> Listing \cup {None}]
      /\ \A s \in Stores : listing[s] # None => listing'[s] # None
      /\ \A s \in Stores : listing'[s] # None /\ listing'[s].listed => Later(listing'[s].from, d)
  <2>1. ASSUME NEW s \in Stores
        PROVE  /\ listing'[s] \in Listing \cup {None}
               /\ listing[s] # None => listing'[s] # None
               /\ listing'[s] # None /\ listing'[s].listed => Later(listing'[s].from, d)
    <3>1. listing[s] \in Listing \cup {None}
      BY <1>1 DEF BaseType, TypeOK
    <3>2. listing'[s] = IF Shown(s) /\ (loc[p].repair \/ ~Later(listing[s].from, d))
                        THEN [listing[s] EXCEPT !.listed = FALSE] ELSE listing[s]
      BY <1>1 DEF CloseListings
    <3>3. CASE Shown(s) /\ (loc[p].repair \/ ~Later(listing[s].from, d))
      <4>1. listing[s] # None /\ listing[s] \in Listing
        BY <3>1, <3>3 DEF Shown
      <4>2. listing'[s] \in Listing /\ listing'[s].listed = FALSE
        BY <3>2, <3>3, <4>1 DEF Listing
      <4> QED
        BY <4>2, MembershipAssumption
    <3>4. CASE ~(Shown(s) /\ (loc[p].repair \/ ~Later(listing[s].from, d)))
      BY <3>1, <3>2, <3>4 DEF Shown
    <3> QED
      BY <3>3, <3>4
  <2>2. DOMAIN listing' = Stores /\ listing' = [s \in Stores |-> listing'[s]]
    BY <1>1 DEF CloseListings
  <2> QED
    BY <2>1, <2>2
<1>10. /\ alias' \in [Stores \X Bounds -> {"none", "open", "closed", "ignored"}]
       /\ \A a \in Stores \X Bounds : alias'[a] = "open" => Later(a[2], d)
  BY <1>1 DEF CloseAliases, BaseType, TypeOK
<1>11. NothingOpenBeforeExit'
  BY <1>1, <1>9, <1>10 DEF NothingOpenBeforeExit, Shown, Later
<1>12. ended' \in Bounds
  BY <1>1, <1>2 DEF Bounds
<1> QED
  BY <1>1, <1>5, <1>6, <1>7, <1>8, <1>9, <1>10, <1>11, <1>12, LastStep

LEMMA ReenterWriteStep ==
  ASSUME Inv, NEW p \in Requests, ReenterWrite(p)
  PROVE  Inv'
<1> DEFINE d == loc[p].date
           found == loc[p].found
           new == {Current(s, d, "reenter") : s \in found}
<1>1. /\ BaseType /\ ReenteringOf(p) /\ pc[p] = "reenterWrite" /\ Return(p) /\ Insert(new)
      /\ listing' = [s \in Stores |-> IF s \in found /\ listing[s] # None
                                      THEN [from |-> d, listed |-> TRUE] ELSE listing[s]]
      /\ alias' = [a \in Stores \X Bounds |-> IF a[1] \in loc[p].aliases /\ a[2] = d
                                             THEN "open" ELSE alias[a]]
      /\ ended' = None
  BY DEF Inv, KnowsOf, ReenterWrite
<1>2. /\ d \in Dates /\ found \subseteq Stores /\ reentryLock = p
      /\ \A s \in found, j \in Ids : ReenteredIn(j, s) => ~Overlap(Current(s, d, "reenter"), rows[j])
  BY <1>1 DEF ReenteringOf, Reentering
<1>3. \A r \in new : /\ r \in Row /\ Valid(r) /\ r.by = "reenter"
                     /\ r.store \in found /\ r = Current(r.store, d, "reenter")
  BY <1>2 DEF Current, Written, Row, Valid, Bounds, Status, Open, Writers, Scoped
<1> HIDE DEF d, found, new
<1>4. /\ rows' \in [Ids -> Row \cup {None}]
      /\ \A i \in Ids : Exists(i)' => Valid(rows'[i])
      /\ \A i \in Ids : rows'[i] = rows[i] \/ (rows[i] = None /\ rows'[i] \in new)
      /\ \A i, j \in Ids : i # j /\ rows[i] = None /\ rows[j] = None /\ rows'[i] # None
                            => rows'[i] # rows'[j]
  BY <1>1, <1>3, Inserted
<1>5. RowsCovered(p)
  BY <1>2, <1>3, <1>4, MembershipAssumption DEF RowsCovered, Exists, Scoped
<1>6. ExitLeaves' /\ OneLeaveDate'
  BY <1>1, <1>3, <1>4 DEF Inv, ExitLeaves, OneLeaveDate, Exists
<1>7. OverlapOnlyAcrossLocks'
  <2> SUFFICES ASSUME NEW i \in Ids, NEW j \in Ids, i # j, Exists(i)', Exists(j)', rows'[i] # rows[i],
                      rows'[i].store = rows'[j].store,
                      \/ rows'[i].by \in Scoped /\ rows'[j].by \in Scoped
                      \/ rows'[i].by = "reenter" /\ rows'[j].by = "reenter"
               PROVE  ~Overlap(rows'[i], rows'[j])
    BY StillApart
  <2>1. /\ rows[i] = None /\ rows'[i] \in new /\ rows'[i].store \in found
        /\ rows'[i] = Current(rows'[i].store, d, "reenter")
    BY <1>3, <1>4
  <2>2. rows'[j].by = "reenter"
    BY <1>3, <2>1 DEF Scoped
  <2>3. CASE rows'[j] = rows[j]
    BY <1>2, <2>1, <2>2, <2>3 DEF ReenteredIn, Exists
  <2>4. CASE rows'[j] # rows[j]
    BY <1>3, <1>4, <2>1, <2>4 DEF Exists
  <2> QED
    BY <2>3, <2>4
<1>8. NothingOpenBeforeExit'
  BY <1>1 DEF NothingOpenBeforeExit
<1>9. /\ listing' \in [Stores -> Listing \cup {None}]
      /\ \A s \in Stores : listing[s] # None => listing'[s] # None
  <2>1. [from |-> d, listed |-> TRUE] \in Listing
    BY <1>2 DEF Listing, Bounds
  <2> QED
    BY <1>1, <2>1, MembershipAssumption DEF BaseType, TypeOK
<1>10. ended' \in Bounds /\ alias' \in [Stores \X Bounds -> {"none", "open", "closed", "ignored"}]
  BY <1>1 DEF BaseType, TypeOK, Bounds
<1> QED
  BY <1>1, <1>4, <1>5, <1>6, <1>7, <1>8, <1>9, <1>10, LastStep

LEMMA RepairWriteStep ==
  ASSUME Inv, NEW p \in Requests, RepairWrite(p)
  PROVE  Inv'
<1>1. BaseType /\ RepairingOf(p) /\ pc[p] = "repairWrite" /\ Return(p) /\ UNCHANGED <<rows, ended>>
  BY DEF Inv, KnowsOf, RepairWrite
<1>2. ASSUME NEW s \in Stores
      PROVE  /\ listing'[s] \in Listing \cup {None}
             /\ listing[s] # None => listing'[s] # None
             /\ Shown(s)' => listing'[s] = listing[s]
  <2>1. listing[s] \in Listing \cup {None}
    BY <1>1 DEF BaseType, TypeOK
  <2>2. CASE s \in loc[p].stores
    <3>1. listing[s] \in Listing /\ listing'[s] = [listing[s] EXCEPT !.listed = FALSE]
      BY <1>1, <2>1, <2>2 DEF RepairingOf, Repairing, RepairWrite
    <3>2. listing'[s] \in Listing /\ listing'[s].listed = FALSE
      BY <3>1 DEF Listing
    <3> QED
      BY <3>2, MembershipAssumption DEF Shown
  <2>3. CASE s \notin loc[p].stores
    <3>1. listing'[s] = listing[s]
      BY <2>3 DEF RepairWrite
    <3> QED
      BY <2>1, <3>1
  <2> QED
    BY <2>2, <2>3
<1>3. listing' \in [Stores -> Listing \cup {None}]
  BY <1>2 DEF RepairWrite
<1>4. /\ alias' \in [Stores \X Bounds -> {"none", "open", "closed", "ignored"}]
      /\ \A a \in Stores \X Bounds : alias'[a] = "open" => alias[a] = "open"
  BY <1>1 DEF RepairWrite, BaseType, TypeOK
<1>5. NothingOpenBeforeExit'
  <2> SUFFICES ASSUME ended # None
               PROVE  NothingOpenBeforeExit'
    BY <1>1 DEF NothingOpenBeforeExit
  <2>1. \A s \in Stores : Shown(s)' => Shown(s) /\ listing'[s] = listing[s]
    BY <1>2 DEF Shown
  <2> QED
    BY <1>1, <1>4, <2>1 DEF Inv, NothingOpenBeforeExit, Later
<1>6. ExitLeaves' /\ OneLeaveDate' /\ RowsCovered(p) /\ \A i \in Ids : Exists(i)' => Valid(rows'[i])
  BY <1>1 DEF Inv, ExitLeaves, OneLeaveDate, RowsCovered, Exists, BaseType, TypeOK, Valid
<1>7. OverlapOnlyAcrossLocks'
  BY <1>1, StillApart
<1>8. rows' \in [Ids -> Row \cup {None}] /\ ended' \in Bounds
  BY <1>1 DEF BaseType, TypeOK
<1> QED
  BY <1>1, <1>2, <1>3, <1>4, <1>5, <1>6, <1>7, <1>8, LastStep

LEMMA InvStep == Inv /\ [Next]_vars => Inv'
<1> SUFFICES ASSUME Inv, [Next]_vars PROVE Inv'
  OBVIOUS
<1>1. CASE UNCHANGED vars
  BY <1>1 DEF vars, locks, media, Inv, BaseType, TypeOK, KnowsOf, ScopingOf, InitingOf, ExitingOf,
     ReenteringOf, RepairingOf, ExitLeaves, OverlapOnlyAcrossLocks, OneLeaveDate,
     NothingOpenBeforeExit, Exists, ScopedIn, ReenteredIn, Shown, Valid, Later, Overlap
<1>2. CASE Next
  <2> PICK p \in Requests : Start(p) \/ Work(p) \/ Abort(p)
    BY <1>2 DEF Next
  <2>1. CASE Start(p)
    BY <2>1, StartStep
  <2>2. CASE ScopeLock(p) \/ Check(p) \/ Write(p)
    BY <2>2, ScopeLockStep, CheckStep, WriteStep
  <2>3. CASE InitLock(p) \/ InitCheck(p) \/ InitWrite(p)
    BY <2>3, InitLockStep, InitCheckStep, InitWriteStep
  <2>4. CASE ExitLock(p) \/ ExitCast(p) \/ ExitRows(p) \/ ExitWrite(p)
    BY <2>4, ExitLookStep, ExitWriteStep
  <2>5. CASE ReentryLock(p) \/ ReenterCast(p) \/ ReenterRows(p) \/ ReenterMedia(p) \/ ReenterWrite(p)
    BY <2>5, ReenterLookStep, ReenterWriteStep
  <2>6. CASE RepairLock(p) \/ RepairWrite(p)
    BY <2>6, RepairLockStep, RepairWriteStep
  <2>7. CASE Abort(p)
    BY <2>7, ReturnKeeps DEF Abort
  <2> QED
    BY <2>1, <2>2, <2>3, <2>4, <2>5, <2>6, <2>7 DEF Work
<1> QED
  BY <1>1, <1>2

LEMMA InvHolds == Spec => []Inv
BY InvInit, InvStep, PTL DEF Spec

-----------------------------------------------------------------------------
(* The theorems. *)

(* The rows keep their types and satisfy the CHECK constraints.            *)
THEOREM MembershipTypeCorrect == Spec => []TypeOK
<1>1. Inv => TypeOK
  BY DEF Inv, BaseType
<1> QED
  BY <1>1, InvHolds, PTL

(* Periods that were written under one kind of lock never overlap.         *)
THEOREM PeriodsStayApart == Spec => []OverlapOnlyAcrossLocks
<1>1. Inv => OverlapOnlyAcrossLocks
  BY DEF Inv
<1> QED
  BY <1>1, InvHolds, PTL

(* Exits never leave a cast with two last days.                            *)
THEOREM OneDayOfLeaving == Spec => []OneLeaveDate
<1>1. Inv => OneLeaveDate
  BY DEF Inv
<1> QED
  BY <1>1, InvHolds, PTL

(* No medium shows a cast who has left from a day before the last one.     *)
THEOREM MediaCloseWithExit == Spec => []NothingOpenBeforeExit
<1>1. Inv => NothingOpenBeforeExit
  BY DEF Inv
<1> QED
  BY <1>1, InvHolds, PTL
=============================================================================
