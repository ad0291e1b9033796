--------------------------- MODULE CastMemberships ---------------------------
(***************************************************************************)
(* The memberships of one cast in the stores (src/lib/casts/               *)
(* membership-service.ts).  A row is a period of the cast in a store; two  *)
(* periods in one store must not overlap, and no constraint of the table   *)
(* says so: the functions look for an overlap before they write.  Create,  *)
(* initialise and update hold cast-membership:<cast>:<store> meanwhile,    *)
(* the cast-level exit holds cast-exit:<cast>, the re-entry                *)
(* cast-reentry:<cast>.  A Request is a call of one of the functions.      *)
(* Their transactions are READ COMMITTED: each read is a step and sees     *)
(* what is committed by then, what a transaction writes appears with its   *)
(* last step, and its locks are free after it.                             *)
(*                                                                         *)
(* The exit and the re-entry also close and open what the media show of    *)
(* the cast: one listing and the aliases of one name for each store.  A    *)
(* definition commented "Slip" is the one below it with a plausible bug,   *)
(* for the mutation runs.                                                  *)
(***************************************************************************)
EXTENDS Integers, FiniteSets, Functions

CONSTANTS
  Stores,
  Dates,       \* business days
  Ids,         \* ids of membership rows: the bound on the rows created
  Requests,
  Forms,       \* [store, joined, left, status] as filled in: bounds the calls
  Listed,      \* the stores whose media show the cast at the start
  None

Bounds == Dates \cup {None}   \* a date or NULL
Open   == {"ACTIVE", "ON_LEAVE"}
Status == Open \cup {"LEFT"}

(* by: the function that wrote the row last.  No column records it.        *)
Scoped  == {"create", "initialize", "update"}
Writers == Scoped \cup {"exit", "reenter"}

Row  == [store: Stores, joined: Bounds, left: Bounds, status: Status, by: Writers]
Form == [store: Stores, joined: Bounds, left: Bounds, status: Status]
Listing == [from: Bounds, listed: BOOLEAN]

ASSUME MembershipAssumption ==
  /\ Dates \subseteq Nat
  /\ Forms \subseteq Form
  /\ Listed \subseteq Stores
  /\ None \notin Dates \cup Stores \cup Ids \cup Requests \cup Row \cup Listing

VARIABLES
  rows,       \* [Ids -> the membership row, or None]
  ended,      \* endedOn of the cast; it is INACTIVE exactly when this is a date
  listing,    \* [Stores -> Listing, or None]
  alias,      \* [Stores \X Bounds -> state of the alias valid from there]
  scopeLock,  \* [Stores -> holder of cast-membership:<cast>:<store>, or None]
  exitLock, reentryLock, repairLock,   \* holders, or None
  pc,         \* [Requests -> where the call is]
  loc         \* [Requests -> its local variables]

locks == <<scopeLock, exitLock, reentryLock, repairLock>>
media == <<listing, alias>>
vars == <<rows, ended, media, locks, pc, loc>>

(* id: the row an update writes.  next: the row to be written.             *)
(* date, repair, aliases: arguments of the other functions.  stores: the   *)
(* stores they have yet to look at.  store: the one initialise looks at.   *)
(* found: the stores, or the rows, they will write.                        *)
Blank == [id |-> None, next |-> None, date |-> None, repair |-> FALSE,
          aliases |-> {}, stores |-> {}, store |-> None, found |-> {}]

Init ==
  /\ rows = [i \in Ids |-> None]
  /\ ended = None
  /\ listing = [s \in Stores |-> IF s \in Listed THEN [from |-> None, listed |-> TRUE]
                                                 ELSE None]
  /\ alias = [a \in Stores \X Bounds |-> IF a[1] \in Listed /\ a[2] = None THEN "open"
                                                                        ELSE "none"]
  /\ scopeLock = [s \in Stores |-> None]
  /\ exitLock = None /\ reentryLock = None /\ repairLock = None
  /\ pc = [p \in Requests |-> "off"]
  /\ loc = [p \in Requests |-> Blank]

-----------------------------------------------------------------------------
(* Helpers. *)

(* membershipPeriodsOverlap: both ends belong to the period, NULL is open. *)
Overlap(r, q) ==
  /\ r.joined = None \/ q.left = None \/ r.joined <= q.left
  /\ q.joined = None \/ r.left = None \/ q.joined <= r.left

(* validateMembershipInput, and the CHECK constraints of the table. *)
Valid(r) ==
  /\ r.joined # None /\ r.left # None => r.joined <= r.left
  /\ (r.status = "LEFT") <=> (r.left # None)

Exists(i) == rows[i] # None

InStore(s) == {i \in Ids : Exists(i) /\ rows[i].store = s}

(* assertNoOverlap; i is excludeId, or None. *)
Free(r, i) == \A j \in InStore(r.store) \ {i} : ~Overlap(r, rows[j])

Goto(p, l) == pc' = [pc EXCEPT ![p] = l]
Set(p, r) == loc' = [loc EXCEPT ![p] = r]
Release(p) ==
  /\ scopeLock' = [s \in Stores |-> IF scopeLock[s] = p THEN None ELSE scopeLock[s]]
  /\ exitLock' = IF exitLock = p THEN None ELSE exitLock
  /\ reentryLock' = IF reentryLock = p THEN None ELSE reentryLock
  /\ repairLock' = IF repairLock = p THEN None ELSE repairLock

(* The call returns or throws; its transaction ends. *)
Return(p) == Goto(p, "off") /\ Set(p, Blank) /\ Release(p)

data == <<rows, ended, media>>

(* Insert the rows of new under ids of their own. *)
Insert(new) ==
  \E f \in Injection(new, {i \in Ids : ~Exists(i)}) :
    rows' = [i \in Ids |-> IF \E r \in new : f[r] = i THEN CHOOSE r \in new : f[r] = i
                                                      ELSE rows[i]]

-----------------------------------------------------------------------------
(* createMembership and updateMembership. *)

Written(f, by) ==
  [store |-> f.store, joined |-> f.joined, left |-> f.left, status |-> f.status, by |-> by]

Create(p, f) ==
  /\ pc[p] = "off"
  /\ Valid(f)
  /\ Set(p, [Blank EXCEPT !.next = Written(f, "create")])
  /\ Goto(p, "lock")
  /\ UNCHANGED <<data, locks>>

(* The row a call of updateMembership makes of the row it read: the form   *)
(* gives every column, closeMembership the last day, setOnLeave and        *)
(* resumeFromLeave the status.                                             *)
Updates(cur) ==
       {Written(f, "update") : f \in Forms}
  \cup {[cur EXCEPT !.left = d, !.status = "LEFT", !.by = "update"] : d \in Dates}
  \cup {[cur EXCEPT !.status = st, !.by = "update"] : st \in Open}

(* The row is read before the lock, and the values of the call are added   *)
(* to that read.                                                           *)
Update(p, i) ==
  /\ pc[p] = "off" /\ Exists(i)
  /\ \E r \in Updates(rows[i]) :
       /\ Valid(r)
       /\ Set(p, [Blank EXCEPT !.id = i, !.next = r])
  /\ Goto(p, "lock")
  /\ UNCHANGED <<data, locks>>

(* Slip: the scope is not locked. *)
ScopeLockOpen(p) ==
  /\ pc[p] = "lock"
  /\ Goto(p, "check")
  /\ UNCHANGED <<data, locks, loc>>

(* The lock names the store the row will be in. *)
ScopeLock(p) ==
  LET s == loc[p].next.store
  IN /\ pc[p] = "lock" /\ scopeLock[s] = None
     /\ scopeLock' = [scopeLock EXCEPT ![s] = p]
     /\ Goto(p, "check")
     /\ UNCHANGED <<data, exitLock, reentryLock, repairLock, loc>>

Check(p) ==
  LET free == Free(loc[p].next, loc[p].id)
  IN /\ pc[p] = "check"
     /\ \/ free /\ Goto(p, "write") /\ UNCHANGED <<loc, locks>>
        \/ ~free /\ Return(p)
     /\ UNCHANGED data

Write(p) ==
  /\ pc[p] = "write"
  /\ \/ /\ loc[p].id = None /\ Insert({loc[p].next})
     \/ /\ loc[p].id # None /\ rows' = [rows EXCEPT ![loc[p].id] = loc[p].next]
  /\ Return(p)
  /\ UNCHANGED <<ended, media>>

-----------------------------------------------------------------------------
(* initializeCurrentMemberships: one transaction for several stores; a     *)
(* store with any row of the cast is passed over.                          *)

Initialize(p, ss) ==
  /\ pc[p] = "off" /\ ss # {}
  /\ Set(p, [Blank EXCEPT !.stores = ss])
  /\ Goto(p, "initLock")
  /\ UNCHANGED <<data, locks>>

InitLock(p) ==
  \E s \in loc[p].stores :
    /\ pc[p] = "initLock" /\ scopeLock[s] = None
    /\ scopeLock' = [scopeLock EXCEPT ![s] = p]
    /\ Set(p, [loc[p] EXCEPT !.stores = loc[p].stores \ {s}, !.store = s])
    /\ Goto(p, "initCheck")
    /\ UNCHANGED <<data, exitLock, reentryLock, repairLock>>

InitCheck(p) ==
  LET s == loc[p].store
      made == IF InStore(s) = {} THEN {s} ELSE {}
  IN /\ pc[p] = "initCheck"
     /\ Set(p, [loc[p] EXCEPT !.found = loc[p].found \cup made])
     /\ Goto(p, IF loc[p].stores = {} THEN "initWrite" ELSE "initLock")
     /\ UNCHANGED <<data, locks>>

Current(s, from, by) ==
  Written([store |-> s, joined |-> from, left |-> None, status |-> "ACTIVE"], by)

InitWrite(p) ==
  /\ pc[p] = "initWrite"
  /\ Insert({Current(s, None, "initialize") : s \in loc[p].found})
  /\ Return(p)
  /\ UNCHANGED <<ended, media>>

-----------------------------------------------------------------------------
(* exitCast: the cast leaves every store on one day. *)

(* A period, a listing or an alias that begins at b begins after day d. *)
Later(b, d) == b # None /\ b > d

Shown(s) == listing[s] # None /\ listing[s].listed

Exit(p, d, repair) ==
  /\ pc[p] = "off"
  /\ Set(p, [Blank EXCEPT !.date = d, !.repair = repair])
  /\ Goto(p, "exitLock")
  /\ UNCHANGED <<data, locks>>

(* Slip: the lock is tried, and a busy one ignored. *)
ExitLockIgnoresBusy(p) ==
  /\ pc[p] = "exitLock"
  /\ exitLock' = p
  /\ Goto(p, "exitCast")
  /\ UNCHANGED <<data, scopeLock, reentryLock, repairLock, loc>>

ExitLock(p) ==
  /\ pc[p] = "exitLock" /\ exitLock = None
  /\ exitLock' = p
  /\ Goto(p, "exitCast")
  /\ UNCHANGED <<data, scopeLock, reentryLock, repairLock, loc>>

ExitCast(p) ==
  LET same == ended \in {None, loc[p].date}
  IN /\ pc[p] = "exitCast"
     /\ \/ same /\ Goto(p, "exitRows") /\ UNCHANGED <<loc, locks>>
        \/ ~same /\ Return(p)
     /\ UNCHANGED data

LeftDates == {rows[i].left : i \in {j \in Ids : Exists(j) /\ rows[j].status = "LEFT"}}

(* validateExitDateConsistency on the rows. *)
Consistent(d) == LeftDates \subseteq {d}

(* What the media show of the cast begins after d. *)
Conflict(d) ==
  \/ \E a \in Stores \X Bounds : alias[a] = "open" /\ Later(a[2], d)
  \/ \E s \in Stores : Shown(s) /\ Later(listing[s].from, d)

ExitRows(p) ==
  LET ok == Consistent(loc[p].date) /\ (loc[p].repair \/ ~Conflict(loc[p].date))
  IN /\ pc[p] = "exitRows"
     /\ \/ /\ ok
           /\ Set(p, [loc[p] EXCEPT !.found =
                         {i \in Ids : Exists(i) /\ rows[i].status \in Open}])
           /\ Goto(p, "exitWrite") /\ UNCHANGED locks
        \/ ~ok /\ Return(p)
     /\ UNCHANGED data

(* Slip: a listing without a first day is not closed. *)
CloseListingsDated(d, repair) ==
  listing' = [s \in Stores |->
    IF Shown(s) /\ listing[s].from # None /\ (repair \/ ~Later(listing[s].from, d))
    THEN [listing[s] EXCEPT !.listed = FALSE] ELSE listing[s]]

CloseListings(d, repair) ==
  listing' = [s \in Stores |->
    IF Shown(s) /\ (repair \/ ~Later(listing[s].from, d))
    THEN [listing[s] EXCEPT !.listed = FALSE] ELSE listing[s]]

CloseAliases(d, repair) ==
  alias' = [a \in Stores \X Bounds |->
    IF alias[a] # "open" THEN alias[a]
    ELSE IF ~Later(a[2], d) THEN "closed"
    ELSE IF repair THEN "ignored" ELSE "open"]

(* Slip: the table has no such constraint. *)
DateOrderUnchecked(is, d) == TRUE

(* cast_store_memberships_date_order_check: the transaction aborts when a  *)
(* row would end before it begins.  The code looks at media dates alone.   *)
DateOrder(is, d) == \A i \in is : ~Later(rows[i].joined, d)

(* The rows are written by the ids read, whatever they are by now.         *)
ExitWrite(p) ==
  LET d == loc[p].date
  IN /\ pc[p] = "exitWrite"
     /\ DateOrder(loc[p].found, d)
     /\ rows' = [i \in Ids |-> IF i \in loc[p].found
                               THEN [rows[i] EXCEPT !.left = d, !.status = "LEFT", !.by = "exit"]
                               ELSE rows[i]]
     /\ CloseListings(d, loc[p].repair)
     /\ CloseAliases(d, loc[p].repair)
     /\ ended' = d
     /\ Return(p)

-----------------------------------------------------------------------------
(* reenterCast: the cast enters stores ss again, as with aliases in as.    *)

Reenter(p, d, ss, as) ==
  /\ pc[p] = "off" /\ ss # {} /\ as \subseteq ss
  /\ Set(p, [Blank EXCEPT !.date = d, !.stores = ss, !.aliases = as])
  /\ Goto(p, "reentryLock")
  /\ UNCHANGED <<data, locks>>

ReentryLock(p) ==
  /\ pc[p] = "reentryLock" /\ reentryLock = None
  /\ reentryLock' = p
  /\ Goto(p, "reenterCast")
  /\ UNCHANGED <<data, scopeLock, exitLock, repairLock, loc>>

ReenterCast(p) ==
  LET ok == ended # None /\ loc[p].date > ended
  IN /\ pc[p] = "reenterCast"
     /\ \/ ok /\ Goto(p, "reenterRows") /\ UNCHANGED <<loc, locks>>
        \/ ~ok /\ Return(p)
     /\ UNCHANGED data

(* An open row overlaps the new one too: one test says both refusals. *)
ReenterRows(p) ==
  \E s \in loc[p].stores :
    LET free == Free(Current(s, loc[p].date, "reenter"), None)
        rest == loc[p].stores \ {s}
    IN /\ pc[p] = "reenterRows"
       /\ \/ /\ free
             /\ Set(p, [loc[p] EXCEPT !.stores = rest, !.found = @ \cup {s}])
             /\ Goto(p, IF rest = {} THEN "reenterMedia" ELSE "reenterRows")
             /\ UNCHANGED locks
          \/ ~free /\ Return(p)
       /\ UNCHANGED data

ReenterMedia(p) ==
  LET ok == /\ \A s \in loc[p].aliases : /\ alias[<<s, loc[p].date>>] = "none"
                                        /\ \A b \in Bounds : alias[<<s, b>>] # "ignored"
            /\ \A s \in loc[p].found : ~Shown(s)
  IN /\ pc[p] = "reenterMedia"
     /\ \/ ok /\ Goto(p, "reenterWrite") /\ UNCHANGED <<loc, locks>>
        \/ ~ok /\ Return(p)
     /\ UNCHANGED data

(* The old listing also goes to media_listing_histories, which nothing reads. *)
ReenterWrite(p) ==
  LET d == loc[p].date
  IN /\ pc[p] = "reenterWrite"
     /\ Insert({Current(s, d, "reenter") : s \in loc[p].found})
     /\ listing' = [s \in Stores |-> IF s \in loc[p].found /\ listing[s] # None
                                     THEN [from |-> d, listed |-> TRUE] ELSE listing[s]]
     /\ alias' = [a \in Stores \X Bounds |-> IF a[1] \in loc[p].aliases /\ a[2] = d
                                            THEN "open" ELSE alias[a]]
     /\ ended' = None
     /\ Return(p)

-----------------------------------------------------------------------------
(* repairLegacyMediaConflicts: media that still show a cast who has left.  *)
(* The candidates are read before the lock and not again after it.         *)

Repair(p, as, ss) ==
  /\ pc[p] = "off" /\ ended # None
  /\ as \cup ss # {}
  /\ \A a \in as : alias[a] = "open"
  /\ \A s \in ss : Shown(s)
  /\ Set(p, [Blank EXCEPT !.date = ended, !.aliases = as, !.stores = ss])
  /\ Goto(p, "repairLock")
  /\ UNCHANGED <<data, locks>>

RepairLock(p) ==
  /\ pc[p] = "repairLock" /\ repairLock = None
  /\ repairLock' = p
  /\ Goto(p, "repairWrite")
  /\ UNCHANGED <<data, scopeLock, exitLock, reentryLock, loc>>

RepairWrite(p) ==
  /\ pc[p] = "repairWrite"
  /\ alias' = [a \in Stores \X Bounds |->
                 IF a \notin loc[p].aliases THEN alias[a]
                 ELSE IF Later(a[2], loc[p].date) THEN "ignored"
                 ELSE IF alias[a] = "open" THEN "closed" ELSE alias[a]]
  /\ listing' = [s \in Stores |-> IF s \in loc[p].stores
                                  THEN [listing[s] EXCEPT !.listed = FALSE] ELSE listing[s]]
  /\ Return(p)
  /\ UNCHANGED <<rows, ended>>

-----------------------------------------------------------------------------
(* A constraint is violated, or the process dies: the transaction rolls    *)
(* back.                                                                   *)
Abort(p) ==
  /\ pc[p] # "off"
  /\ Return(p)
  /\ UNCHANGED data

Start(p) ==
  \/ \E f \in Forms : Create(p, f)
  \/ \E i \in Ids : Update(p, i)
  \/ \E ss \in SUBSET Stores : Initialize(p, ss)
  \/ \E d \in Dates, repair \in BOOLEAN : Exit(p, d, repair)
  \/ \E d \in Dates, ss, as \in SUBSET Stores : Reenter(p, d, ss, as)
  \/ \E as \in SUBSET (Stores \X Bounds), ss \in SUBSET Stores : Repair(p, as, ss)

Work(p) ==
  \/ ScopeLock(p) \/ Check(p) \/ Write(p)
  \/ InitLock(p) \/ InitCheck(p) \/ InitWrite(p)
  \/ ExitLock(p) \/ ExitCast(p) \/ ExitRows(p) \/ ExitWrite(p)
  \/ ReentryLock(p) \/ ReenterCast(p) \/ ReenterRows(p) \/ ReenterMedia(p)
  \/ ReenterWrite(p)
  \/ RepairLock(p) \/ RepairWrite(p)

Next == \E p \in Requests : Start(p) \/ Work(p) \/ Abort(p)

Spec == Init /\ [][Next]_vars

-----------------------------------------------------------------------------
(* Properties. *)

Locations ==
  {"off", "lock", "check", "write", "initLock", "initCheck", "initWrite",
   "exitLock", "exitCast", "exitRows", "exitWrite", "reentryLock", "reenterCast",
   "reenterRows", "reenterMedia", "reenterWrite", "repairLock", "repairWrite"}

(* The rows satisfy the CHECK constraints of the table, whichever          *)
(* transactions wrote them together, and the media have their states.      *)
TypeOK ==
  /\ rows \in [Ids -> Row \cup {None}]
  /\ \A i \in Ids : Exists(i) => Valid(rows[i])
  /\ ended \in Bounds
  /\ listing \in [Stores -> Listing \cup {None}]
  /\ alias \in [Stores \X Bounds -> {"none", "open", "closed", "ignored"}]
  /\ scopeLock \in [Stores -> Requests \cup {None}]
  /\ exitLock \in Requests \cup {None}
  /\ reentryLock \in Requests \cup {None}
  /\ repairLock \in Requests \cup {None}
  /\ pc \in [Requests -> Locations]

(* Two periods that the functions under cast-membership wrote in one store *)
(* never overlap, nor do two that the re-entry wrote: a check of the rows  *)
(* and a lock stand for the missing constraint.  Across different locks    *)
(* they can overlap.                                                       *)
OverlapOnlyAcrossLocks ==
  \A i, j \in Ids :
    /\ i # j /\ Exists(i) /\ Exists(j)
    /\ rows[i].store = rows[j].store /\ Overlap(rows[i], rows[j])
    => /\ ~(rows[i].by \in Scoped /\ rows[j].by \in Scoped)
       /\ ~(rows[i].by = "reenter" /\ rows[j].by = "reenter")

(* The rows that an exit closed and nothing has written since have the     *)
(* day the cast ended on, however exits and re-entries follow one another: *)
(* two exits never leave a cast with two last days.                        *)
OneLeaveDate ==
  \A i \in Ids : Exists(i) /\ rows[i].by = "exit" => ended \in {None, rows[i].left}

(* What the media still show of a cast who has left began after the last   *)
(* day: an exit closes everything else, also what a re-entry opens.        *)
NothingOpenBeforeExit ==
  ended # None =>
    /\ \A s \in Stores : Shown(s) => Later(listing[s].from, ended)
    /\ \A a \in Stores \X Bounds : alias[a] = "open" => Later(a[2], ended)

(* PHASE_J0_CAST_MEMBERSHIP_UI.md: the exit of a cast takes one day and    *)
(* makes every open membership LEFT on it.  There is a day on which the    *)
(* exit of a cast with open memberships is accepted.                       *)
OpenCastCanExit ==
  LET open == {i \in Ids : Exists(i) /\ rows[i].status \in Open}
  IN ended = None /\ open # {} =>
       \E d \in Dates : Consistent(d) /\ DateOrder(open, d)
=============================================================================
