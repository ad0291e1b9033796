-------------------------- MODULE HeavenImportProofs --------------------------
(***************************************************************************)
(* For any number of files, names, casts, batches and concurrent requests: *)
(* the types, that a file is completed at most once, that a completed      *)
(* batch is never cancelled, and that a batch completed without warnings   *)
(* has every row of its preview stored.                                    *)
(***************************************************************************)
EXTENDS HeavenImport, TLAPS

USE HeavenAssumption DEF BatchIds

-----------------------------------------------------------------------------
(* Types, and what a request holds at each label. *)

DataType ==
  /\ batch \in [BatchIds -> Batch \cup {None}]
  /\ preview \in [BatchIds -> Rows \cup {None}]
  /\ alias \in Rows
  /\ fact \in [Casts \X Days -> BatchIds \cup {None}]

LockType ==
  /\ shaLock \in [Contents -> Requests \cup {None}]
  /\ aliasLock \in [Names -> Requests \cup {None}]
  /\ bulkLock \in [BatchIds -> Requests \cup {None}]

CallType ==
  /\ pc \in [Requests -> Labels]
  /\ loc \in [Requests -> Local]

OnBatch == Labels \ {"off", "active", "create"}

ShapeOf(p) ==
  /\ pc[p] \in {"active", "create"} => loc[p].sha \in Contents
  /\ pc[p] \in OnBatch => loc[p].batch \in BatchIds /\ batch[loc[p].batch] # None
  /\ pc[p] \in {"aliasLock", "aliasCheck", "aliasWrite"} =>
       loc[p].name \in Names /\ loc[p].cast \in Casts

TypeInv == DataType /\ LockType /\ CallType /\ \A p \in Requests : ShapeOf(p)

LEMMA BlankType == Blank \in Local
BY DEF Blank, Local, Unread, Rows

LEMMA TypeInit == Init => TypeInv
BY BlankType DEF Init, TypeInv, DataType, LockType, CallType, ShapeOf, Labels, OnBatch, Rows

(* What Return does. *)
LEMMA Returned ==
  ASSUME LockType, CallType, NEW p \in Requests, Return(p)
  PROVE  /\ LockType' /\ CallType'
         /\ pc'[p] = "off"
         /\ \A q \in Requests \ {p} : pc'[q] = pc[q] /\ loc'[q] = loc[q]
         /\ \A q \in Requests \ {p}, c \in Contents : shaLock[c] = q => shaLock'[c] = q
<1>1. LockType'
  BY DEF Return, Release, LockType
<1>2. CallType'
  BY BlankType DEF Return, Goto, Set, CallType, Labels
<1>3. pc'[p] = "off" /\ \A q \in Requests \ {p} : pc'[q] = pc[q] /\ loc'[q] = loc[q]
  BY DEF Return, Goto, Set, CallType
<1>4. \A q \in Requests \ {p}, c \in Contents : shaLock[c] = q => shaLock'[c] = q
  BY DEF Return, Release, LockType
<1> QED
  BY <1>1, <1>2, <1>3, <1>4

-----------------------------------------------------------------------------
(* What a step does to the batches: a batch stays and keeps its digest, a  *)
(* new one is being validated, and only Complete completes one.            *)

Evolves ==
  /\ batch' \in [BatchIds -> Batch \cup {None}]
  /\ \A b \in BatchIds : batch[b] # None => batch'[b] # None /\ batch'[b].sha = batch[b].sha

NoneCompleted ==
  \A b \in BatchIds : batch'[b] # None /\ batch'[b].status \in Completed =>
                        batch[b] # None /\ batch[b].status \in Completed

NoneCancelled ==
  \A b \in BatchIds : batch'[b] # None /\ batch'[b].status = "CANCELLED" =>
                        batch[b] # None /\ batch[b].status = "CANCELLED"

LEMMA SetStatus ==
  ASSUME DataType, NEW b \in BatchIds, batch[b] # None, NEW s \in Statuses,
         batch' = [batch EXCEPT ![b].status = s]
  PROVE  /\ Evolves
         /\ batch'[b] # None /\ batch'[b].status = s
         /\ \A a \in BatchIds \ {b} : batch'[a] = batch[a]
         /\ s \notin Completed => NoneCompleted
         /\ s # "CANCELLED" => NoneCancelled
<1> DEFINE r == [batch[b] EXCEPT !.status = s]
<1>1. batch[b] \in Batch
  BY DEF DataType
<1>2. r \in Batch /\ r.sha = batch[b].sha /\ r.status = s
  BY <1>1 DEF Batch
<1>3. batch' = [batch EXCEPT ![b] = r]
  OBVIOUS
<1> HIDE DEF r
<1>4. batch'[b] = r /\ \A a \in BatchIds \ {b} : batch'[a] = batch[a]
  BY <1>3 DEF DataType
<1>5. r # None
  BY <1>1, <1>2
<1> QED
  BY <1>2, <1>3, <1>4, <1>5 DEF Evolves, NoneCompleted, NoneCancelled, DataType
LEMMA SameBatches == ASSUME DataType, UNCHANGED batch
                     PROVE  Evolves /\ NoneCompleted /\ NoneCancelled
BY DEF DataType, Evolves, NoneCompleted, NoneCancelled

-----------------------------------------------------------------------------
(* A step of p keeps the types, leaves the other requests and their locks  *)
(* alone and brings p to a label where it has what the label needs.        *)

Frame(p) ==
  \A q \in Requests \ {p} :
    /\ pc'[q] = pc[q] /\ loc'[q] = loc[q]
    /\ \A c \in Contents : shaLock[c] = q => shaLock'[c] = q

Sound(p) == DataType' /\ LockType' /\ CallType' /\ Evolves /\ Frame(p) /\ ShapeOf(p)'

(* Steps that end the call without writing. *)
LEMMA SoundReturn ==
  ASSUME TypeInv, NEW p \in Requests, Return(p), UNCHANGED data
  PROVE  Sound(p)
<1>1. DataType' /\ Evolves
  BY SameBatches DEF TypeInv, DataType, data
<1>2. LockType' /\ CallType' /\ Frame(p) /\ pc'[p] = "off"
  BY Returned DEF TypeInv, Frame
<1> QED
  BY <1>1, <1>2 DEF Sound, ShapeOf, OnBatch

(* Steps that only move p to another label. *)
LEMMA SoundGoto ==
  ASSUME TypeInv, NEW p \in Requests, UNCHANGED <<data, locks>>,
         NEW l \in Labels, NEW r \in Local,
         pc' = [pc EXCEPT ![p] = l], loc' = [loc EXCEPT ![p] = r],
         l \in {"active", "create"} => r.sha \in Contents,
         l \in OnBatch => r.batch \in BatchIds /\ batch[r.batch] # None,
         l \in {"aliasLock", "aliasCheck", "aliasWrite"} => r.name \in Names /\ r.cast \in Casts
  PROVE  Sound(p)
<1>1. DataType' /\ LockType' /\ Evolves
  BY SameBatches DEF TypeInv, DataType, LockType, data, locks
<1>2. CallType'
  BY DEF TypeInv, CallType
<1>3. Frame(p)
  BY DEF TypeInv, CallType, Frame, locks
<1>4. ShapeOf(p)'
  BY DEF TypeInv, CallType, ShapeOf, data
<1> QED
  BY <1>1, <1>2, <1>3, <1>4 DEF Sound

(* A request begins. *)
LEMMA SoundStart ==
  ASSUME TypeInv, NEW p \in Requests, Start(p)
  PROVE  Sound(p)
<1> USE DEF Goto, Set
<1>1. ASSUME NEW c \in Contents, Upload(p, c)
      PROVE  Sound(p)
  <2>1. [Blank EXCEPT !.sha = c] \in Local
    BY BlankType DEF Local
  <2>2. [Blank EXCEPT !.sha = c].sha = c
    BY DEF Blank
  <2> QED
    BY <1>1, <2>1, <2>2, SoundGoto DEF Upload, Labels, OnBatch
<1>2. ASSUME NEW b \in BatchIds, Reparse(p, b)
      PROVE  Sound(p)
  <2>1. [Blank EXCEPT !.batch = b] \in Local
    BY BlankType DEF Local
  <2>2. [Blank EXCEPT !.batch = b].batch = b
    BY DEF Blank
  <2> QED
    BY <1>2, <2>1, <2>2, SoundGoto DEF Reparse, Labels, OnBatch
<1>3. ASSUME NEW b \in BatchIds, Approve(p, b)
      PROVE  Sound(p)
  <2> DEFINE r == [Blank EXCEPT !.batch = b, !.plan = Candidates(b)]
  <2>1. Candidates(b) \subseteq Names
    BY DEF Candidates, Unresolved, Columns
  <2>2. r \in Local /\ r.batch = b
    BY <2>1, BlankType DEF Local, Blank
  <2> QED
    BY <1>3, <2>2, SoundGoto DEF Approve, Labels, OnBatch
<1>4. ASSUME NEW b \in BatchIds, Confirm(p, b)
      PROVE  Sound(p)
  <2> DEFINE r == [Blank EXCEPT !.batch = b, !.rows = preview[b]]
  <2>1. preview[b] \in Rows
    BY <1>4 DEF Confirm, TypeInv, DataType
  <2>2. r \in Local /\ r.batch = b
    BY <2>1, BlankType DEF Local, Blank
  <2> QED
    BY <1>4, <2>2, SoundGoto DEF Confirm, Labels, OnBatch
<1>5. ASSUME NEW b \in BatchIds, Cancel(p, b)
      PROVE  Sound(p)
  <2> DEFINE u == batch[b].status \notin Completed
             r == [Blank EXCEPT !.batch = b, !.usable = u]
  <2>1. u \in BOOLEAN /\ Set(p, r)
    BY <1>5 DEF Cancel
  <2> HIDE DEF u
  <2>2. r \in Local /\ r.batch = b
    BY <2>1, BlankType DEF Local, Blank
  <2> HIDE DEF r
  <2> QED
    BY <1>5, <2>1, <2>2, SoundGoto DEF Cancel, Set, Labels, OnBatch
<1>6. ASSUME NEW b \in BatchIds, NEW n \in Names, NEW k \in Casts, Link(p, b, n, k)
      PROVE  Sound(p)
  <2> DEFINE r == [Blank EXCEPT !.batch = b, !.name = n, !.cast = k]
  <2>1. r \in Local /\ r.batch = b /\ r.name = n /\ r.cast = k
    BY BlankType DEF Local, Blank
  <2>2. loc' = [loc EXCEPT ![p] = r] /\ pc' = [pc EXCEPT ![p] = "aliasLock"]
        /\ UNCHANGED <<data, locks>> /\ batch[b] # None
    BY <1>6 DEF Link, Set, Goto
  <2> HIDE DEF r
  <2> QED
    BY <2>1, <2>2, SoundGoto DEF Labels, OnBatch
<1> QED
  BY <1>1, <1>2, <1>3, <1>4, <1>5, <1>6 DEF Start
(* Steps that move on with the locals they have. *)
LEMMA SoundStay ==
  ASSUME TypeInv, NEW p \in Requests, UNCHANGED <<data, locks, loc>>,
         NEW l \in OnBatch, pc[p] \in OnBatch, Goto(p, l),
         l \in {"aliasLock", "aliasCheck", "aliasWrite"} =>
           pc[p] \in {"aliasLock", "aliasCheck", "aliasWrite"}
  PROVE  Sound(p)
<1>1. loc' = [loc EXCEPT ![p] = loc[p]] /\ loc[p] \in Local
  BY DEF TypeInv, CallType
<1> QED
  BY <1>1, SoundGoto DEF TypeInv, ShapeOf, Goto, OnBatch

(* The reads. *)
LEMMA SoundRead ==
  ASSUME TypeInv, NEW p \in Requests,
         \/ FindActive(p) \/ ReparseRead(p) \/ ResolveRows(p) \/ LinkCheck(p)
         \/ BulkRead(p) \/ BulkCheck(p) \/ ConfirmRead(p) \/ ConfirmFind(p) \/ CancelFind(p)
  PROVE  Sound(p)
<1>0. loc[p] \in Local /\ ShapeOf(p) /\ alias \in Rows
  BY DEF TypeInv, CallType, DataType
<1>1. CASE FindActive(p)
  <2>1. CASE Return(p)
    BY <1>1, <2>1, SoundReturn DEF FindActive
  <2>2. CASE ~Return(p)
    <3>1. Goto(p, "create") /\ UNCHANGED <<data, locks, loc>> /\ pc[p] = "active"
      BY <1>1, <2>2 DEF FindActive
    <3>2. loc' = [loc EXCEPT ![p] = loc[p]]
      BY <3>1 DEF TypeInv, CallType
    <3> QED
      BY <1>0, <3>1, <3>2, SoundGoto DEF Goto, ShapeOf, Labels, OnBatch
  <2> QED
    BY <2>1, <2>2
<1>2. CASE ReparseRead(p)
  BY <1>2, SoundReturn, SoundStay DEF ReparseRead, Labels, OnBatch
<1>3. CASE ResolveRows(p)
  <2> DEFINE r == [loc[p] EXCEPT !.rows = Resolve]
  <2>1. r \in Local /\ r.batch = loc[p].batch
    BY <1>0 DEF Local, Resolve
  <2> QED
    BY <1>0, <1>3, <2>1, SoundGoto DEF ResolveRows, Goto, Set, ShapeOf, Labels, OnBatch
<1>4. CASE LinkCheck(p)
  BY <1>4, SoundReturn, SoundStay DEF LinkCheck, Labels, OnBatch
<1>5. CASE BulkRead(p)
  <2>1. CASE Return(p)
    BY <1>5, <2>1, SoundReturn DEF BulkRead
  <2>2. CASE ~Return(p)
    <3> DEFINE r == [loc[p] EXCEPT !.snap = alias]
    <3>1. r \in Local /\ r.batch = loc[p].batch
      BY <1>0 DEF Local
    <3> QED
      BY <1>0, <1>5, <2>2, <3>1, SoundGoto DEF BulkRead, Goto, Set, ShapeOf, Labels, OnBatch
  <2> QED
    BY <2>1, <2>2
<1>6. CASE BulkCheck(p)
  BY <1>6, SoundReturn, SoundStay DEF BulkCheck, Labels, OnBatch
<1>7. CASE ConfirmRead(p)
  <2> DEFINE u == batch[loc[p].batch].status \in Confirmable
             r == [loc[p] EXCEPT !.usable = u]
  <2>1. loc[p].batch \in BatchIds /\ batch[loc[p].batch] # None
    BY <1>0, <1>7 DEF ConfirmRead, ShapeOf, OnBatch, Labels
  <2>2. u \in BOOLEAN /\ Set(p, r)
    BY <1>7 DEF ConfirmRead
  <2> HIDE DEF u
  <2>3. r \in Local /\ r.batch = loc[p].batch
    BY <1>0, <2>2 DEF Local
  <2> QED
    BY <1>7, <2>1, <2>2, <2>3, SoundGoto DEF ConfirmRead, Goto, Set, Labels, OnBatch
<1>8. CASE ConfirmFind(p)
  BY <1>8, SoundReturn, SoundStay DEF ConfirmFind, Labels, OnBatch
<1>9. CASE CancelFind(p)
  BY <1>9, SoundReturn, SoundStay DEF CancelFind, Labels, OnBatch
<1> QED
  BY <1>1, <1>2, <1>3, <1>4, <1>5, <1>6, <1>7, <1>8, <1>9

(* The locks. *)
LEMMA SoundLock ==
  ASSUME TypeInv, NEW p \in Requests, LinkLock(p) \/ BulkLock(p) \/ ShaLock(p)
  PROVE  Sound(p)
<1>0. pc[p] \in OnBatch /\ ShapeOf(p)
  BY DEF TypeInv, LinkLock, BulkLock, ShaLock, OnBatch, Labels
<1>1. loc[p].batch \in BatchIds /\ Of(loc[p].batch) \in Contents
  BY <1>0 DEF ShapeOf, Of, TypeInv, DataType, Batch
<1>2. DataType' /\ Evolves
  BY SameBatches DEF LinkLock, BulkLock, ShaLock, TypeInv, DataType, data
<1>3. LockType'
  <2>1. CASE LinkLock(p)
    <3>1. loc[p].name \in Names
      BY <1>0, <2>1 DEF LinkLock, ShapeOf
    <3> QED
      BY <2>1, <3>1 DEF LinkLock, TypeInv, LockType
  <2>2. CASE BulkLock(p)
    BY <1>1, <2>2 DEF BulkLock, TypeInv, LockType
  <2>3. CASE ShaLock(p)
    BY <1>1, <2>3 DEF ShaLock, TypeInv, LockType
  <2> QED
    BY <2>1, <2>2, <2>3
<1>4. CallType'
  BY DEF LinkLock, BulkLock, ShaLock, TypeInv, CallType, Goto, Labels
<1>5. Frame(p)
  BY <1>1 DEF LinkLock, BulkLock, ShaLock, TypeInv, CallType, LockType, Goto, Frame
<1>6. ShapeOf(p)'
  BY <1>0 DEF LinkLock, BulkLock, ShaLock, TypeInv, CallType, Goto, ShapeOf, OnBatch, Labels, data
<1> QED
  BY <1>2, <1>3, <1>4, <1>5, <1>6 DEF Sound

-----------------------------------------------------------------------------
(* The writes. *)

LEMMA SoundCreate ==
  ASSUME TypeInv, NEW p \in Requests, CreateBatch(p)
  PROVE  Sound(p) /\ NoneCompleted /\ NoneCancelled
<1>1. loc[p] \in Local /\ loc[p].sha \in Contents
  BY DEF CreateBatch, TypeInv, CallType, ShapeOf
<1>2. PICK b \in BatchIds :
         /\ batch[b] = None
         /\ batch' = [batch EXCEPT ![b] = [sha |-> loc[p].sha, status |-> "VALIDATING"]]
         /\ Set(p, [loc[p] EXCEPT !.batch = b, !.creating = TRUE])
  BY DEF CreateBatch
<1> DEFINE r == [loc[p] EXCEPT !.batch = b, !.creating = TRUE]
           new == [sha |-> loc[p].sha, status |-> "VALIDATING"]
<1>3. r \in Local /\ r.batch = b
  BY <1>1 DEF Local
<1>4. new \in Batch /\ new # None /\ new.status = "VALIDATING"
  BY <1>1 DEF Batch, Statuses, NonTerminal
<1>5. batch' = [batch EXCEPT ![b] = new] /\ loc' = [loc EXCEPT ![p] = r]
  BY <1>2 DEF Set
<1> HIDE DEF r, new
<1>6. DataType' /\ Evolves /\ NoneCompleted /\ NoneCancelled
  BY <1>2, <1>4, <1>5
  DEF CreateBatch, TypeInv, DataType, Evolves, NoneCompleted, NoneCancelled, Completed
<1>7. LockType' /\ CallType' /\ Frame(p)
  BY <1>3, <1>5 DEF CreateBatch, TypeInv, LockType, CallType, Frame, Goto, Labels, locks
<1>8. ShapeOf(p)'
  BY <1>3, <1>4, <1>5 DEF CreateBatch, TypeInv, DataType, CallType, ShapeOf, Goto
<1> QED
  BY <1>6, <1>7, <1>8 DEF Sound

(* The steps that end a call with a status for its batch. *)
LEMMA SoundSettled ==
  ASSUME TypeInv, NEW p \in Requests, pc[p] \in OnBatch, Return(p), NEW s \in Statuses,
         batch' = [batch EXCEPT ![loc[p].batch].status = s],
         UNCHANGED <<preview, alias>>, fact' \in [Casts \X Days -> BatchIds \cup {None}]
  PROVE  /\ Sound(p)
         /\ s \notin Completed => NoneCompleted
         /\ s # "CANCELLED" => NoneCancelled
<1>1. loc[p].batch \in BatchIds /\ batch[loc[p].batch] # None
  BY DEF TypeInv, ShapeOf
<1>2. Evolves /\ (s \notin Completed => NoneCompleted) /\ (s # "CANCELLED" => NoneCancelled)
  BY <1>1, SetStatus DEF TypeInv
<1>3. DataType'
  BY <1>2 DEF Evolves, TypeInv, DataType
<1>4. LockType' /\ CallType' /\ Frame(p) /\ pc'[p] = "off"
  BY Returned DEF TypeInv, Frame
<1> QED
  BY <1>2, <1>3, <1>4 DEF Sound, ShapeOf, OnBatch

LEMMA Rewrites ==
  ASSUME TypeInv, NEW p \in Requests, CreateFail(p) \/ Settle(p) \/ CancelWrite(p)
  PROVE  Sound(p) /\ NoneCompleted
<1>0. fact' \in [Casts \X Days -> BatchIds \cup {None}]
  BY DEF CreateFail, Settle, CancelWrite, TypeInv, DataType
<1>1. CASE CreateFail(p)
  <2>1. "FAILED" \in Statuses /\ "FAILED" \notin Completed
    BY DEF Statuses, NonTerminal, Completed
  <2>2. pc[p] \in OnBatch
    BY <1>1 DEF CreateFail, OnBatch, Labels
  <2> QED
    BY <1>0, <1>1, <2>1, <2>2, SoundSettled DEF CreateFail
<1>2. CASE Settle(p)
  <2>1. /\ PreviewStatus(Of(loc[p].batch), loc[p].rows) \in Statuses
        /\ PreviewStatus(Of(loc[p].batch), loc[p].rows) \notin Completed
    BY DEF PreviewStatus, Statuses, NonTerminal, Confirmable, Completed
  <2> QED
    BY <1>0, <1>2, <2>1, SoundSettled DEF Settle, OnBatch, Labels
<1>3. CASE CancelWrite(p)
  <2>1. "CANCELLED" \in Statuses /\ "CANCELLED" \notin Completed
    BY DEF Statuses, Completed
  <2>2. pc[p] \in OnBatch
    BY <1>3 DEF CancelWrite, OnBatch, Labels
  <2> QED
    BY <1>0, <1>3, <2>1, <2>2, SoundSettled DEF CancelWrite
<1> QED
  BY <1>1, <1>2, <1>3

LEMMA SoundComplete ==
  ASSUME TypeInv, NEW p \in Requests, Complete(p)
  PROVE  Sound(p)
<1>1. loc[p].batch \in BatchIds
  BY DEF Complete, TypeInv, ShapeOf, OnBatch, Labels
<1>2. fact' \in [Casts \X Days -> BatchIds \cup {None}]
  BY <1>1 DEF Complete, TypeInv, DataType
<1>3. CompletionStatus(loc[p].batch, loc[p].rows) \in Statuses
  BY DEF CompletionStatus, Statuses, Completed
<1> QED
  BY <1>2, <1>3, SoundSettled DEF Complete, OnBatch, Labels

(* The steps that write the preview or an alias. *)
LEMMA SoundWrite ==
  ASSUME TypeInv, NEW p \in Requests, WritePreview(p) \/ LinkWrite(p) \/ BulkWrite(p)
  PROVE  Sound(p)
<1>0. /\ loc[p] \in Local /\ ShapeOf(p) /\ pc[p] \in OnBatch
      /\ UNCHANGED batch
  BY DEF TypeInv, CallType, WritePreview, LinkWrite, BulkWrite, OnBatch, Labels
<1>1. Evolves
  BY <1>0, SameBatches DEF TypeInv
<1>2. CASE Return(p)
  <2>1. LockType' /\ CallType' /\ Frame(p) /\ pc'[p] = "off"
    BY <1>2, Returned DEF TypeInv, Frame
  <2>2. DataType'
    BY <1>2, <2>1 DEF WritePreview, LinkWrite, BulkWrite, ReparseNext, Goto, TypeInv, CallType,
       DataType
  <2> QED
    BY <1>1, <2>1, <2>2 DEF Sound, ShapeOf, OnBatch
<1>3. CASE ~Return(p)
  <2>0. PICK r \in Local : /\ loc' = [loc EXCEPT ![p] = r] /\ r.batch = loc[p].batch
                           /\ Goto(p, "settle") \/ Goto(p, "reparse")
                           /\ UNCHANGED locks \/ Release(p)
    <3> DEFINE t == [Blank EXCEPT !.batch = loc[p].batch]
    <3>1. t \in Local /\ t.batch = loc[p].batch
      BY <1>0, BlankType DEF Local, Blank
    <3>2. WritePreview(p) => loc' = [loc EXCEPT ![p] = loc[p]]
      BY DEF WritePreview, TypeInv, CallType
    <3> QED
      BY <1>0, <1>3, <3>1, <3>2 DEF WritePreview, LinkWrite, BulkWrite, ReparseNext, Set
  <2>1. loc'[p] = r /\ loc' = [loc EXCEPT ![p] = r]
    BY <2>0 DEF TypeInv, CallType
  <2>2. DataType'
    <3>1. CASE WritePreview(p)
      <4>1. loc[p].rows \in Rows
        BY <1>0 DEF Local
      <4> QED
        BY <3>1, <4>1 DEF WritePreview, TypeInv, DataType
    <3>2. CASE LinkWrite(p)
      <4>1. loc[p].name \in Names /\ loc[p].cast \in Casts
        BY <1>0, <3>2 DEF LinkWrite, ShapeOf
      <4> QED
        BY <3>2, <4>1 DEF LinkWrite, TypeInv, DataType, Rows
    <3>3. CASE BulkWrite(p)
      <4>1. alias' = [n \in Names |-> IF n \in loc[p].plan THEN Town[n] ELSE alias[n]]
        BY <1>3, <3>3 DEF BulkWrite
      <4> QED
        BY <3>3, <4>1 DEF BulkWrite, TypeInv, DataType, Rows
    <3> QED
      BY <3>1, <3>2, <3>3
  <2>3. LockType'
    BY <2>0 DEF TypeInv, LockType, locks, Release
  <2>4. CallType'
    BY <2>0, <2>1 DEF TypeInv, CallType, Goto, Labels
  <2>5. Frame(p)
    BY <2>0, <2>1 DEF TypeInv, CallType, LockType, Goto, Frame, Release, locks
  <2>6. ShapeOf(p)'
    BY <1>0, <2>0, <2>1 DEF TypeInv, CallType, Goto, ShapeOf, OnBatch, Labels
  <2> QED
    BY <1>1, <2>2, <2>3, <2>4, <2>5, <2>6 DEF Sound
<1> QED
  BY <1>2, <1>3
-----------------------------------------------------------------------------
(* The types are kept. *)

LEMMA SoundNext ==
  ASSUME TypeInv, NEW p \in Requests, Start(p) \/ Work(p) \/ Abort(p)
  PROVE  Sound(p)
BY SoundStart, SoundRead, SoundLock, SoundCreate, Rewrites, SoundComplete, SoundWrite, SoundReturn
   DEF Work, Abort

LEMMA ShapeKept ==
  ASSUME TypeInv, NEW p \in Requests, Sound(p)
  PROVE  TypeInv'
<1>1. ASSUME NEW q \in Requests, q # p
      PROVE  ShapeOf(q)'
  <2>1. ShapeOf(q) /\ pc'[q] = pc[q] /\ loc'[q] = loc[q] /\ Evolves
    BY <1>1 DEF TypeInv, Sound, Frame
  <2> QED
    BY <2>1 DEF ShapeOf, Evolves
<1> QED
  BY <1>1 DEF TypeInv, Sound

LEMMA TypeStep == TypeInv /\ [Next]_vars => TypeInv'
<1> SUFFICES ASSUME TypeInv, [Next]_vars PROVE TypeInv'
  OBVIOUS
<1>1. CASE Next
  BY <1>1, SoundNext, ShapeKept DEF Next
<1>2. CASE UNCHANGED vars
  BY <1>2 DEF TypeInv, DataType, LockType, CallType, ShapeOf, vars, locks
<1> QED
  BY <1>1, <1>2

(* Every variable keeps its type, and every request has what its label     *)
(* needs.                                                                  *)
THEOREM TypesHold == Spec => []TypeInv
BY TypeInit, TypeStep, PTL DEF Spec

(* The type invariant the run checks. *)
THEOREM HeavenTypeCorrect == Spec => []TypeOK
<1>1. TypeInv => TypeOK
  BY DEF TypeInv, DataType, LockType, CallType, TypeOK
<1> QED
  BY <1>1, TypesHold, PTL

-----------------------------------------------------------------------------
(* The lock on the digest.  Between the search for a completed batch and   *)
(* the write that rests on it a request holds the lock of the digest, so   *)
(* no other request completes a batch of that digest.                      *)

ShaHeld == {"confirmFind", "cancelFind", "cancel", "complete"}

HoldsOf(p) == pc[p] \in ShaHeld => shaLock[Of(loc[p].batch)] = p

DecidedOf(p) ==
  /\ pc[p] = "complete" => CompletedDuplicates(loc[p].batch) = {}
  /\ pc[p] = "cancel" => batch[loc[p].batch].status \notin Completed

OnceInv ==
  /\ OneCompletedPerContent
  /\ \A p \in Requests : HoldsOf(p) /\ DecidedOf(p)

LEMMA OnceInit == Init => OnceInv
BY DEF Init, OnceInv, OneCompletedPerContent, HoldsOf, DecidedOf, ShaHeld

(* A step of p keeps the locks the others hold. *)
LEMMA HoldsKept ==
  ASSUME TypeInv, NEW p \in Requests, Sound(p), NEW q \in Requests \ {p}, HoldsOf(q)
  PROVE  HoldsOf(q)'
<1>1. CASE pc[q] \in ShaHeld
  <2>1. loc[q].batch \in BatchIds /\ batch[loc[q].batch] # None
    BY <1>1 DEF TypeInv, ShapeOf, ShaHeld, OnBatch, Labels
  <2>2. Of(loc[q].batch) \in Contents /\ batch'[loc[q].batch].sha = Of(loc[q].batch)
    BY <2>1 DEF Of, Sound, Evolves, TypeInv, DataType, Batch
  <2> QED
    BY <1>1, <2>2 DEF HoldsOf, Of, Sound, Frame
<1>2. CASE pc[q] \notin ShaHeld
  BY <1>2 DEF HoldsOf, Sound, Frame
<1> QED
  BY <1>1, <1>2

(* As long as nothing completes, a decision made stays right. *)
LEMMA DecisionKept ==
  ASSUME TypeInv, NEW p \in Requests, Sound(p), NoneCompleted,
         NEW q \in Requests, pc'[q] = pc[q], loc'[q] = loc[q], DecidedOf(q)
  PROVE  DecidedOf(q)'
<1>1. CASE pc[q] \in {"complete", "cancel"}
  <2>1. loc[q].batch \in BatchIds /\ batch[loc[q].batch] # None
    BY <1>1 DEF TypeInv, ShapeOf, OnBatch, Labels
  <2>2. /\ batch'[loc[q].batch] # None
        /\ batch'[loc[q].batch].sha = batch[loc[q].batch].sha
        /\ batch' \in [BatchIds -> Batch \cup {None}]
    BY <2>1 DEF Sound, Evolves
  <2> QED
    <3>1. CASE pc[q] = "complete"
      <4>1. \A a \in BatchIds : batch'[a] # None /\ batch'[a].status \in Completed =>
                batch[a] # None /\ batch[a].status \in Completed /\ batch'[a].sha = batch[a].sha
        BY DEF NoneCompleted, Sound, Evolves
      <4> QED
        BY <2>1, <2>2, <3>1, <4>1 DEF DecidedOf, CompletedDuplicates, WithDigest, Of
    <3>2. CASE pc[q] = "cancel"
      BY <2>1, <2>2, <3>2 DEF DecidedOf, NoneCompleted
    <3> QED
      BY <1>1, <3>1, <3>2
<1>2. CASE pc[q] \notin {"complete", "cancel"}
  BY <1>2 DEF DecidedOf
<1> QED
  BY <1>1, <1>2

LEMMA OnceKept ==
  ASSUME TypeInv, NEW p \in Requests, Sound(p), NoneCompleted, OneCompletedPerContent
  PROVE  OneCompletedPerContent'
BY DEF OneCompletedPerContent, NoneCompleted, Sound, Evolves
(* Complete and CancelWrite apart, no step completes or cancels a batch. *)
LEMMA OtherSteps ==
  ASSUME TypeInv, NEW p \in Requests, Start(p) \/ Work(p) \/ Abort(p)
  PROVE  /\ ~Complete(p) => NoneCompleted
         /\ ~CancelWrite(p) => NoneCancelled
<1>1. CASE UNCHANGED batch
  BY <1>1, SameBatches DEF TypeInv
<1>2. CASE CreateBatch(p)
  BY <1>2, SoundCreate
<1>3. CASE CreateFail(p) \/ Settle(p) \/ CancelWrite(p)
  <2>1. NoneCompleted
    BY <1>3, Rewrites
  <2>2. CASE CreateFail(p) \/ Settle(p)
    <3>1. PICK s \in {"FAILED", "WAITING_FOR_CAST_LINK", "PREVIEW_READY"} :
             batch' = [batch EXCEPT ![loc[p].batch].status = s]
      BY <2>2 DEF CreateFail, Settle, PreviewStatus
    <3>2. s \in Statuses /\ s # "CANCELLED"
      BY DEF Statuses, NonTerminal, Confirmable
    <3>3. loc[p].batch \in BatchIds /\ batch[loc[p].batch] # None
      BY <2>2 DEF CreateFail, Settle, TypeInv, ShapeOf, OnBatch, Labels
    <3>4. NoneCancelled
      BY <3>1, <3>2, <3>3, SetStatus DEF TypeInv
    <3> QED
      BY <2>1, <3>4
  <2> QED
    BY <1>3, <2>1, <2>2
<1>4. CASE Complete(p)
  <2>1. CompletionStatus(loc[p].batch, loc[p].rows) \in Statuses \ {"CANCELLED"}
    BY DEF CompletionStatus, Statuses, Completed
  <2>2. loc[p].batch \in BatchIds /\ batch[loc[p].batch] # None
    BY <1>4 DEF Complete, TypeInv, ShapeOf, OnBatch, Labels
  <2>3. NoneCancelled
    BY <1>4, <2>1, <2>2, SetStatus DEF Complete, TypeInv
  <2> QED
    BY <1>4, <2>3
<1>5. UNCHANGED batch \/ CreateBatch(p) \/ CreateFail(p) \/ Settle(p) \/ CancelWrite(p)
        \/ Complete(p)
  BY DEF Start, Upload, Reparse, Approve, Confirm, Cancel, Link, Work, FindActive, ReparseRead,
         ResolveRows, WritePreview, LinkLock, LinkCheck, LinkWrite, BulkRead, BulkLock,
         BulkCheck, BulkWrite, ConfirmRead, ShaLock, ConfirmFind, CancelFind, Abort, data
<1> QED
  BY <1>1, <1>2, <1>3, <1>4, <1>5

(* Where the request that steps arrives. *)
LEMMA OwnDecision ==
  ASSUME TypeInv, OnceInv, NEW p \in Requests, Start(p) \/ Work(p) \/ Abort(p)
  PROVE  HoldsOf(p)' /\ DecidedOf(p)'
<1>0. ShapeOf(p) /\ HoldsOf(p) /\ pc \in [Requests -> Labels] /\ loc \in [Requests -> Local]
  BY DEF TypeInv, OnceInv, CallType
<1>1. CASE Return(p)
  BY <1>0, <1>1 DEF Return, Goto, HoldsOf, DecidedOf, ShaHeld
<1>2. CASE ShaLock(p)
  <2>1. loc[p].batch \in BatchIds /\ batch[loc[p].batch] # None
    BY <1>0, <1>2 DEF ShaLock, ShapeOf, OnBatch, Labels
  <2>2. Of(loc[p].batch) \in Contents
    BY <2>1 DEF Of, TypeInv, DataType, Batch
  <2> QED
    BY <1>0, <1>2, <2>2
    DEF ShaLock, Goto, HoldsOf, DecidedOf, ShaHeld, TypeInv, LockType, Of, data
<1>3. CASE ConfirmFind(p) /\ ~Return(p)
  <2>1. /\ pc[p] = "confirmFind" /\ UNCHANGED <<data, locks, loc>>
        /\ \/ CompletedDuplicates(loc[p].batch) # {} /\ pc'[p] = "cancel"
           \/ CompletedDuplicates(loc[p].batch) = {} /\ pc'[p] = "complete"
    BY <1>0, <1>3 DEF ConfirmFind, Goto
  <2>2. loc[p].batch \in BatchIds /\ batch[loc[p].batch] # None
    BY <1>0, <2>1 DEF ShapeOf, OnBatch, Labels
  <2>3. CompletedDuplicates(loc[p].batch) # {} => batch[loc[p].batch].status \notin Completed
    BY <2>2 DEF CompletedDuplicates, WithDigest, Of, OnceInv, OneCompletedPerContent
  <2>4. HoldsOf(p)'
    BY <1>0, <2>1 DEF HoldsOf, ShaHeld, Of, data, locks
  <2>5. DecidedOf(p)'
    BY <2>1, <2>3 DEF DecidedOf, CompletedDuplicates, WithDigest, Of, data
  <2> QED
    BY <2>4, <2>5
<1>4. CASE CancelFind(p) /\ ~Return(p)
  <2>1. /\ pc[p] = "cancelFind" /\ UNCHANGED <<data, locks, loc>>
        /\ CompletedDuplicates(loc[p].batch) # {} /\ pc'[p] = "cancel"
    BY <1>0, <1>4 DEF CancelFind, Goto
  <2>2. loc[p].batch \in BatchIds /\ batch[loc[p].batch] # None
    BY <1>0, <2>1 DEF ShapeOf, OnBatch, Labels
  <2>3. batch[loc[p].batch].status \notin Completed
    BY <2>1, <2>2 DEF CompletedDuplicates, WithDigest, Of, OnceInv, OneCompletedPerContent
  <2>4. HoldsOf(p)'
    BY <1>0, <2>1 DEF HoldsOf, ShaHeld, Of, data, locks
  <2>5. DecidedOf(p)'
    BY <2>1, <2>3 DEF DecidedOf, data
  <2> QED
    BY <2>4, <2>5
<1>5. CASE pc'[p] \notin ShaHeld
  BY <1>5 DEF HoldsOf, DecidedOf, ShaHeld
<1>6. Return(p) \/ ShaLock(p) \/ ConfirmFind(p) \/ CancelFind(p) \/ pc'[p] \notin ShaHeld
  <2>1. CASE Start(p)
    BY <1>0, <2>1 DEF Start, Upload, Reparse, Approve, Confirm, Cancel, Link, Goto, ShaHeld
  <2>2. CASE FindActive(p) \/ CreateBatch(p) \/ ReparseRead(p) \/ ResolveRows(p)
               \/ WritePreview(p) \/ LinkLock(p) \/ LinkCheck(p) \/ LinkWrite(p)
    BY <1>0, <2>2 DEF FindActive, CreateBatch, ReparseRead, ResolveRows, WritePreview, LinkLock,
                      LinkCheck, LinkWrite, ReparseNext, Goto, ShaHeld
  <2>3. CASE BulkRead(p) \/ BulkLock(p) \/ BulkCheck(p) \/ BulkWrite(p) \/ ConfirmRead(p)
    BY <1>0, <2>3 DEF BulkRead, BulkLock, BulkCheck, BulkWrite, ReparseNext, ConfirmRead, Goto,
                      ShaHeld
  <2>4. CASE CreateFail(p) \/ Settle(p) \/ CancelWrite(p) \/ Complete(p) \/ Abort(p)
    BY <2>4 DEF CreateFail, Settle, CancelWrite, Complete, Abort
  <2> QED
    BY <2>1, <2>2, <2>3, <2>4 DEF Work
<1> QED
  BY <1>1, <1>2, <1>3, <1>4, <1>5, <1>6
(* The step that completes a batch: no other batch of its digest is        *)
(* completed, and no other request has decided about that digest.          *)
LEMMA OnceComplete ==
  ASSUME TypeInv, OnceInv, NEW p \in Requests, Complete(p), Sound(p)
  PROVE  /\ OneCompletedPerContent'
         /\ \A q \in Requests \ {p} : DecidedOf(q)'
<1> DEFINE b == loc[p].batch
<1>1. /\ b \in BatchIds /\ batch[b] # None
      /\ CompletedDuplicates(b) = {} /\ shaLock[Of(b)] = p
  BY DEF Complete, TypeInv, ShapeOf, OnBatch, Labels, OnceInv, DecidedOf, HoldsOf, ShaHeld
<1>2. CompletionStatus(b, loc[p].rows) \in Statuses
  BY DEF CompletionStatus, Statuses, Completed
<1>3. \A a \in BatchIds \ {b} : batch'[a] = batch[a]
  BY <1>1, <1>2, SetStatus DEF Complete, TypeInv
<1>4. batch'[b] # None /\ batch'[b].sha = Of(b)
  BY <1>1 DEF Sound, Evolves, Of
<1> HIDE DEF b
<1>5. \A a \in BatchIds \ {b} :
         ~(batch[a] # None /\ batch[a].sha = Of(b) /\ batch[a].status \in Completed)
  BY <1>1 DEF CompletedDuplicates, WithDigest
<1>6. OneCompletedPerContent'
  BY <1>1, <1>3, <1>4, <1>5 DEF OneCompletedPerContent, OnceInv
<1>7. ASSUME NEW q \in Requests \ {p}
      PROVE  DecidedOf(q)'
  <2>1. pc'[q] = pc[q] /\ loc'[q] = loc[q] /\ DecidedOf(q) /\ HoldsOf(q)
    BY DEF Sound, Frame, OnceInv
  <2>2. CASE pc[q] \in {"complete", "cancel"}
    <3> DEFINE a == loc[q].batch
    <3>1. a \in BatchIds /\ batch[a] # None
      BY <2>2 DEF TypeInv, ShapeOf, OnBatch, Labels
    <3>2. shaLock[Of(a)] = q
      BY <2>1, <2>2 DEF HoldsOf, ShaHeld
    <3>3. Of(a) # Of(b) /\ a # b
      BY <1>1, <3>2
    <3>4. batch'[a] = batch[a]
      BY <1>3, <3>1, <3>3
    <3>5. pc[q] = "complete" => CompletedDuplicates(a)' = {}
      <4>1. ASSUME pc[q] = "complete", NEW d \in CompletedDuplicates(a)'
            PROVE  FALSE
        <5>1. /\ d \in BatchIds \ {a} /\ batch'[d] # None
              /\ batch'[d].sha = Of(a) /\ batch'[d].status \in Completed
          BY <2>1, <3>4, <4>1 DEF CompletedDuplicates, WithDigest, Of
        <5>2. d # b
          BY <1>4, <3>3, <5>1
        <5>3. d \in CompletedDuplicates(a)
          BY <1>3, <5>1, <5>2 DEF CompletedDuplicates, WithDigest
        <5> QED
          BY <2>1, <4>1, <5>3 DEF DecidedOf
      <4> QED
        BY <4>1
    <3>6. pc[q] = "cancel" => batch'[a].status \notin Completed
      BY <2>1, <3>4 DEF DecidedOf
    <3> QED
      BY <2>1, <3>5, <3>6 DEF DecidedOf
  <2>3. CASE pc[q] \notin {"complete", "cancel"}
    BY <2>1, <2>3 DEF DecidedOf
  <2> QED
    BY <2>2, <2>3
<1> QED
  BY <1>6, <1>7

LEMMA OnceStep == TypeInv /\ OnceInv /\ [Next]_vars => OnceInv'
<1> SUFFICES ASSUME TypeInv, OnceInv, [Next]_vars PROVE OnceInv'
  OBVIOUS
<1>1. ASSUME NEW p \in Requests, Start(p) \/ Work(p) \/ Abort(p)
      PROVE  OnceInv'
  <2>1. Sound(p)
    BY <1>1, SoundNext
  <2>2. HoldsOf(p)' /\ DecidedOf(p)'
    BY <1>1, OwnDecision
  <2>3. \A q \in Requests \ {p} : HoldsOf(q)'
    BY <2>1, HoldsKept DEF OnceInv
  <2>4. OneCompletedPerContent' /\ \A q \in Requests \ {p} : DecidedOf(q)'
    <3>1. CASE Complete(p)
      BY <2>1, <3>1, OnceComplete
    <3>2. CASE ~Complete(p)
      <4>1. NoneCompleted
        BY <1>1, <3>2, OtherSteps
      <4>2. \A q \in Requests \ {p} : pc'[q] = pc[q] /\ loc'[q] = loc[q] /\ DecidedOf(q)
        BY <2>1 DEF Sound, Frame, OnceInv
      <4> QED
        BY <2>1, <4>1, <4>2, OnceKept, DecisionKept DEF OnceInv
    <3> QED
      BY <3>1, <3>2
  <2> QED
    BY <2>2, <2>3, <2>4 DEF OnceInv
<1>2. CASE UNCHANGED vars
  BY <1>2 DEF OnceInv, OneCompletedPerContent, HoldsOf, DecidedOf, CompletedDuplicates,
              WithDigest, Of, vars, locks
<1> QED
  BY <1>1, <1>2 DEF Next

(* A file is imported once: whatever uploads, reparses and confirmations   *)
(* race, at most one batch of a digest is completed (service.ts:360-361).  *)
THEOREM FileIsCompletedOnce == Spec => []OneCompletedPerContent
<1>1. Init => TypeInv /\ OnceInv
  BY TypeInit, OnceInit
<1>2. TypeInv /\ OnceInv /\ [Next]_vars => (TypeInv /\ OnceInv)'
  BY TypeStep, OnceStep
<1>3. OnceInv => OneCompletedPerContent
  BY DEF OnceInv
<1> QED
  BY <1>1, <1>2, <1>3, PTL DEF Spec

(* A completed batch is never cancelled as a duplicate, although its       *)
(* status was read before the lock (service.ts:117, 358-368).              *)
THEOREM CompletedStaysUncancelled == Spec => CompletedNotCancelled
<1> DEFINE Kept == \A b \in BatchIds : batch[b] # None /\ batch[b].status \in Completed
                                        => batch'[b].status # "CANCELLED"
<1>1. Init => TypeInv /\ OnceInv
  BY TypeInit, OnceInit
<1>2. TypeInv /\ OnceInv /\ [Next]_vars => (TypeInv /\ OnceInv)'
  BY TypeStep, OnceStep
<1>3. TypeInv /\ OnceInv /\ [Next]_vars => [Kept]_vars
  <2> SUFFICES ASSUME TypeInv, OnceInv, Next PROVE Kept
    OBVIOUS
  <2>1. PICK p \in Requests : Start(p) \/ Work(p) \/ Abort(p)
    BY DEF Next
  <2>2. CASE CancelWrite(p)
    <3>1. /\ loc[p].batch \in BatchIds /\ batch[loc[p].batch] # None
          /\ batch[loc[p].batch].status \notin Completed
      BY <2>2 DEF CancelWrite, TypeInv, ShapeOf, OnBatch, Labels, OnceInv, DecidedOf
    <3>2. "CANCELLED" \in Statuses /\ "CANCELLED" \notin Completed
      BY DEF Statuses, Completed
    <3>3. \A a \in BatchIds \ {loc[p].batch} : batch'[a] = batch[a]
      BY <2>2, <3>1, <3>2, SetStatus DEF CancelWrite, TypeInv
    <3> QED
      BY <3>1, <3>2, <3>3
  <2>3. CASE ~CancelWrite(p)
    <3>1. NoneCancelled /\ Sound(p)
      BY <2>1, <2>3, OtherSteps, SoundNext
    <3>2. "CANCELLED" \notin Completed
      BY DEF Completed
    <3> QED
      BY <3>1, <3>2 DEF NoneCancelled, Sound, Evolves
  <2> QED
    BY <2>2, <2>3
<1> QED
  BY <1>1, <1>2, <1>3, PTL DEF Spec, CompletedNotCancelled

-----------------------------------------------------------------------------
(* What is stored.  A fact is replaced, never removed, and COMPLETED is    *)
(* written only with the rows it stands for.                               *)

LEMMA CompletedIsOld ==
  ASSUME TypeInv, NEW p \in Requests, Start(p) \/ Work(p) \/ Abort(p), ~Complete(p),
         NEW b \in BatchIds, batch'[b] # None, batch'[b].status \in Completed
  PROVE  batch'[b] = batch[b]
<1>1. CASE UNCHANGED batch
  BY <1>1
<1>2. CASE CreateBatch(p)
  <2>1. PICK a \in BatchIds :
          batch' = [batch EXCEPT ![a] = [sha |-> loc[p].sha, status |-> "VALIDATING"]]
    BY <1>2 DEF CreateBatch
  <2>2. "VALIDATING" \notin Completed
    BY DEF Completed
  <2> QED
    BY <2>1, <2>2 DEF TypeInv, DataType
<1>3. CASE CreateFail(p) \/ Settle(p) \/ CancelWrite(p)
  <2>1. PICK s \in {"FAILED", "WAITING_FOR_CAST_LINK", "PREVIEW_READY", "CANCELLED"} :
          batch' = [batch EXCEPT ![loc[p].batch].status = s]
    BY <1>3 DEF CreateFail, Settle, PreviewStatus, CancelWrite
  <2>2. s \in Statuses /\ s \notin Completed
    BY DEF Statuses, NonTerminal, Confirmable, Completed
  <2>3. loc[p].batch \in BatchIds /\ batch[loc[p].batch] # None
    BY <1>3 DEF CreateFail, Settle, CancelWrite, TypeInv, ShapeOf, OnBatch, Labels
  <2> QED
    BY <2>1, <2>2, <2>3, SetStatus DEF TypeInv
<1>4. UNCHANGED batch \/ CreateBatch(p) \/ CreateFail(p) \/ Settle(p) \/ CancelWrite(p)
  BY DEF Start, Upload, Reparse, Approve, Confirm, Cancel, Link, Work, FindActive, ReparseRead,
         ResolveRows, WritePreview, LinkLock, LinkCheck, LinkWrite, BulkRead, BulkLock,
         BulkCheck, BulkWrite, ConfirmRead, ShaLock, ConfirmFind, CancelFind, Abort, data
<1> QED
  BY <1>1, <1>2, <1>3, <1>4

LEMMA FactsStay ==
  ASSUME TypeInv, NEW p \in Requests, Start(p) \/ Work(p) \/ Abort(p),
         NEW k \in Casts \X Days, fact[k] # None
  PROVE  fact'[k] # None
<1>1. CASE Complete(p)
  <2>1. loc[p].batch # None
    BY <1>1 DEF Complete, TypeInv, ShapeOf, OnBatch, Labels
  <2> QED
    BY <1>1, <2>1 DEF Complete
<1>2. UNCHANGED fact \/ Complete(p)
  BY DEF Start, Upload, Reparse, Approve, Confirm, Cancel, Link, Work, FindActive, CreateBatch,
         CreateFail, Settle, CancelWrite, ReparseRead,
         ResolveRows, WritePreview, LinkLock, LinkCheck, LinkWrite, BulkRead, BulkLock,
         BulkCheck, BulkWrite, ConfirmRead, ShaLock, ConfirmFind, CancelFind, Abort, data
<1> QED
  BY <1>1, <1>2

Filled(b) ==
  batch[b] # None /\ batch[b].status = "COMPLETED" =>
    \A n \in Columns(Of(b)) : \A d \in Parsed(Of(b), n) :
      \E k \in Casts : fact[<<k, d>>] # None

LEMMA ParsedDays ==
  ASSUME NEW c \in Contents, NEW n \in Names, NEW d \in Parsed(c, n)
  PROVE  d \in Days
BY DEF Parsed

(* A batch that stays as it is keeps its rows. *)
LEMMA FilledStays ==
  ASSUME TypeInv, NEW p \in Requests, Start(p) \/ Work(p) \/ Abort(p),
         NEW b \in BatchIds, Filled(b), batch'[b] = batch[b]
  PROVE  Filled(b)'
<1> SUFFICES ASSUME batch[b] # None, batch[b].status = "COMPLETED",
                    NEW n \in Columns(Of(b)), NEW d \in Parsed(Of(b), n)
             PROVE  \E k \in Casts : fact'[<<k, d>>] # None
  BY DEF Filled, Of, Columns, Parsed
<1>1. PICK k \in Casts : fact[<<k, d>>] # None
  BY DEF Filled
<1>2. Of(b) \in Contents /\ n \in Names
  BY DEF TypeInv, DataType, Batch, Of, Columns
<1>3. <<k, d>> \in Casts \X Days
  BY <1>2, ParsedDays
<1> QED
  BY <1>1, <1>3, FactsStay

(* The rows that are stored are those the status is computed from. *)
LEMMA FilledByComplete ==
  ASSUME TypeInv, NEW p \in Requests, Complete(p), NEW b \in BatchIds, loc[p].batch = b
  PROVE  Filled(b)'
<1> DEFINE rows == loc[p].rows
           stores(k) == \E n \in Columns(Of(b)) : rows[n] = k[1] /\ k[2] \in Parsed(Of(b), n)
<1>1. batch[b] # None /\ b # None /\ batch[b] \in Batch /\ rows \in Rows
  BY DEF Complete, TypeInv, DataType, CallType, ShapeOf, OnBatch, Labels, Local
<1>2. /\ fact' = [k \in Casts \X Days |-> IF stores(k) THEN b ELSE fact[k]]
      /\ batch' = [batch EXCEPT ![b].status = CompletionStatus(b, rows)]
  BY DEF Complete
<1>3. batch'[b].sha = Of(b) /\ batch'[b].status = CompletionStatus(b, rows)
  BY <1>1, <1>2 DEF TypeInv, DataType, Batch, Of
<1>4. Of(b) \in Contents
  BY <1>1 DEF Of, Batch
<1> HIDE DEF stores
<1>5. ASSUME CompletionStatus(b, rows) = "COMPLETED",
             NEW n \in Columns(Of(b)), NEW d \in Parsed(Of(b), n)
      PROVE  \E k \in Casts : fact'[<<k, d>>] # None
  <2>1. rows[n] # None
    BY <1>5 DEF CompletionStatus, Unresolved
  <2>2. n \in Names /\ rows[n] \in Casts /\ d \in Days
    BY <1>1, <1>4, <2>1, ParsedDays DEF Columns, Rows
  <2>3. stores(<<rows[n], d>>) /\ <<rows[n], d>> \in Casts \X Days
    BY <2>2 DEF stores
  <2>4. fact'[<<rows[n], d>>] = b
    BY <1>2, <2>3
  <2> QED
    BY <1>1, <2>2, <2>4
<1>6. Of(b)' = Of(b)
  BY <1>3 DEF Of
<1> QED
  BY <1>3, <1>5, <1>6 DEF Filled, Columns, Parsed

(* COMPLETED, without warnings, means that every row the parser handed on  *)
(* is stored, though preview file and status are written apart and by      *)
(* several reparses at once.                                               *)
THEOREM CompletedIsWhole == Spec => []CompletedHasNoGap
<1> DEFINE Whole == \A b \in BatchIds : Filled(b)
<1>1. Init => TypeInv /\ Whole
  BY TypeInit DEF Init, Filled
<1>2. TypeInv /\ Whole /\ [Next]_vars => (TypeInv /\ Whole)'
  <2> SUFFICES ASSUME TypeInv, Whole, [Next]_vars, NEW b \in BatchIds PROVE Filled(b)'
    BY TypeStep
  <2>1. ASSUME NEW p \in Requests, Start(p) \/ Work(p) \/ Abort(p)
        PROVE  Filled(b)'
    <3>1. CASE Complete(p) /\ loc[p].batch = b
      BY <3>1, FilledByComplete
    <3>2. CASE Complete(p) /\ loc[p].batch # b
      <4>1. batch'[b] = batch[b]
        BY <3>2 DEF Complete, TypeInv, DataType
      <4> QED
        BY <2>1, <4>1, FilledStays
    <3>3. CASE ~Complete(p) /\ batch'[b] = batch[b]
      BY <2>1, <3>3, FilledStays
    <3>4. CASE ~Complete(p) /\ batch'[b] # batch[b]
      <4>1. ~(batch'[b] # None /\ batch'[b].status \in Completed)
        BY <2>1, <3>4, CompletedIsOld
      <4> QED
        BY <4>1 DEF Filled, Completed
    <3> QED
      BY <3>1, <3>2, <3>3, <3>4
  <2>2. CASE UNCHANGED vars
    BY <2>2 DEF Filled, Of, Columns, Parsed, vars
  <2> QED
    BY <2>1, <2>2 DEF Next
<1>3. Whole => CompletedHasNoGap
  BY DEF Filled, CompletedHasNoGap
<1> QED
  BY <1>1, <1>2, <1>3, PTL DEF Spec

-----------------------------------------------------------------------------
(* The refinement of HeavenLedger. *)

(* What a reader of the ledger sees of the batches. *)
Content == [b \in BatchIds |-> IF batch[b] = None THEN None ELSE Of(b)]

LEMMA LedgerInit == Init => Ledger!Init
BY DEF Init, Ledger!Init, With

LEMMA LedgerStutter ==
  ASSUME UNCHANGED <<batch, fact>> PROVE UNCHANGED Ledger!vars
BY DEF Ledger!vars, With, Of

LEMMA LedgerCreate ==
  ASSUME TypeInv, NEW p \in Requests, CreateBatch(p)
  PROVE  Ledger!Next
<1>1. PICK c \in Contents : c = loc[p].sha
  BY DEF CreateBatch, TypeInv, ShapeOf
<1>2. PICK b \in BatchIds :
         /\ batch[b] = None
         /\ batch' = [batch EXCEPT ![b] = [sha |-> c, status |-> "VALIDATING"]]
  BY <1>1 DEF CreateBatch
<1> DEFINE new == [sha |-> c, status |-> "VALIDATING"]
<1>3. new # None /\ new.sha = c /\ new.status \notin Completed /\ new.status # "COMPLETED"
  BY <1>1 DEF Batch, Statuses, NonTerminal, Completed
<1>4. batch' = [batch EXCEPT ![b] = new]
  BY <1>2
<1> HIDE DEF new
<1>5. batch'[b] = new /\ \A a \in BatchIds \ {b} : batch'[a] = batch[a]
  BY <1>4 DEF TypeInv, DataType
<1>6. Content' = [Content EXCEPT ![b] = c]
  BY <1>3, <1>5 DEF Content, Of
<1>7. With(Completed)' = With(Completed) /\ With({"COMPLETED"})' = With({"COMPLETED"})
  BY <1>2, <1>3, <1>5 DEF With
<1>8. Content[b] = None /\ UNCHANGED fact
  BY <1>2 DEF Content, CreateBatch
<1>9. Ledger!Create(b, c)
  BY <1>6, <1>7, <1>8 DEF Ledger!Create, Content
<1> QED
  BY <1>9 DEF Ledger!Next

(* A status other than a completed one reopens a completed batch, and is   *)
(* none of the reader's business otherwise.                                *)
LEMMA LedgerRewrite ==
  ASSUME TypeInv, NEW p \in Requests, CreateFail(p) \/ Settle(p) \/ CancelWrite(p)
  PROVE  Ledger!Next \/ UNCHANGED Ledger!vars
<1> DEFINE b == loc[p].batch
<1>1. b \in BatchIds /\ batch[b] # None /\ UNCHANGED fact
  BY DEF CreateFail, Settle, CancelWrite, TypeInv, ShapeOf, OnBatch, Labels
<1>2. PICK s \in {"FAILED", "WAITING_FOR_CAST_LINK", "PREVIEW_READY", "CANCELLED"} :
        batch' = [batch EXCEPT ![b].status = s]
  BY DEF CreateFail, Settle, PreviewStatus, CancelWrite
<1>3. s \in Statuses /\ s \notin Completed /\ s # "COMPLETED"
  BY DEF Statuses, NonTerminal, Confirmable, Completed
<1> HIDE DEF b
<1>4. /\ batch'[b] # None /\ batch'[b].status = s /\ batch'[b].sha = batch[b].sha
      /\ \A a \in BatchIds \ {b} : batch'[a] = batch[a]
  BY <1>1, <1>2, <1>3, SetStatus DEF TypeInv, Evolves
<1>5. Content' = Content
  BY <1>1, <1>4 DEF Content, Of
<1>6. /\ With(Completed)' = With(Completed) \ {b}
      /\ With({"COMPLETED"})' = With({"COMPLETED"}) \ {b}
  BY <1>3, <1>4 DEF With
<1>7. CASE b \in With(Completed)
  <2>1. Ledger!Reopen(b)
    BY <1>1, <1>5, <1>6, <1>7 DEF Ledger!Reopen, Content
  <2> QED
    BY <1>1, <2>1 DEF Ledger!Next
<1>8. CASE b \notin With(Completed)
  <2>1. b \notin With({"COMPLETED"})
    BY <1>8 DEF With, Completed
  <2>2. With(Completed) \ {b} = With(Completed)
    BY <1>8
  <2>3. With({"COMPLETED"}) \ {b} = With({"COMPLETED"})
    BY <2>1
  <2>4. With(Completed)' = With(Completed) /\ With({"COMPLETED"})' = With({"COMPLETED"})
    BY <1>6, <2>2, <2>3
  <2> QED
    BY <1>1, <1>5, <2>4 DEF Ledger!vars, Content
<1> QED
  BY <1>7, <1>8

(* The lock on the digest makes the confirmation one import: no other      *)
(* batch of the CSV is counted.                                            *)
LEMMA LedgerImport ==
  ASSUME TypeInv, OnceInv, NEW p \in Requests, Complete(p)
  PROVE  Ledger!Next
<1> DEFINE b == loc[p].batch
           rows == loc[p].rows
<1>1. /\ b \in BatchIds /\ batch[b] # None /\ rows \in Rows
      /\ Of(b) \in Contents /\ CompletedDuplicates(b) = {}
  BY DEF Complete, TypeInv, DataType, CallType, Local, Batch, Of, ShapeOf, OnBatch, Labels,
         OnceInv, DecidedOf
<1>2. /\ fact' = [k \in Casts \X Days |->
                    IF \E n \in Columns(Of(b)) : rows[n] = k[1] /\ k[2] \in Parsed(Of(b), n)
                    THEN b ELSE fact[k]]
      /\ batch' = [batch EXCEPT ![b].status = CompletionStatus(b, rows)]
  BY DEF Complete
<1>3. CompletionStatus(b, rows) \in Completed /\ CompletionStatus(b, rows) \in Statuses
  BY DEF CompletionStatus, Completed, Statuses
<1>4. CompletionStatus(b, rows) = "COMPLETED" <=> \A n \in Columns(Of(b)) : rows[n] # None
  BY DEF CompletionStatus, Unresolved
<1> HIDE DEF b, rows
<1>5. /\ batch'[b] # None /\ batch'[b].sha = batch[b].sha
      /\ batch'[b].status = CompletionStatus(b, rows)
      /\ \A a \in BatchIds \ {b} : batch'[a] = batch[a]
  BY <1>1, <1>2, <1>3, SetStatus DEF TypeInv, Evolves
<1>6. Content' = Content /\ Content[b] = Of(b) /\ Of(b) # None
  BY <1>1, <1>5 DEF Content, Of
<1>7. With(Completed)' = With(Completed) \cup {b}
  BY <1>1, <1>3, <1>5 DEF With
<1>8. With({"COMPLETED"})' = IF \A n \in Columns(Of(b)) : rows[n] # None
                             THEN With({"COMPLETED"}) \cup {b} ELSE With({"COMPLETED"}) \ {b}
  BY <1>1, <1>4, <1>5 DEF With
<1>9. \A a \in With(Completed) \ {b} : Content[a] # Content[b]
  BY <1>1, <1>6 DEF With, Content, Of, CompletedDuplicates, WithDigest
<1>10. Columns(Of(b)) \subseteq Names
  BY DEF Columns
<1>11. Ledger!Store(b, rows)
  <2> DEFINE header == [c \in Contents |-> Columns(c)]
             parts == [c \in Contents |-> [n \in Names |-> Parsed(c, n)]]
  <2>1. header[Of(b)] = Columns(Of(b)) /\ \A n \in Names : parts[Of(b)][n] = Parsed(Of(b), n)
    BY <1>1
  <2> HIDE DEF header, parts
  <2>2. fact' = [k \in Casts \X Days |->
                   IF \E n \in header[Content[b]] : rows[n] = k[1] /\ k[2] \in parts[Content[b]][n]
                   THEN b ELSE fact[k]]
    BY <1>2, <1>6, <1>10, <2>1
  <2>3. With({"COMPLETED"})' = IF \A n \in header[Content[b]] : rows[n] # None
                               THEN With({"COMPLETED"}) \cup {b} ELSE With({"COMPLETED"}) \ {b}
    BY <1>6, <1>8, <2>1
  <2> QED
    BY <2>2, <2>3 DEF Ledger!Store, Content, header, parts
<1>12. Ledger!Import(b)
  BY <1>1, <1>6, <1>7, <1>9, <1>11 DEF Ledger!Import, Content, Rows
<1> QED
  BY <1>1, <1>12 DEF Ledger!Next

LEMMA LedgerStep == TypeInv /\ OnceInv /\ [Next]_vars => [Ledger!Next]_Ledger!vars
<1> SUFFICES ASSUME TypeInv, OnceInv, [Next]_vars PROVE Ledger!Next \/ UNCHANGED Ledger!vars
  OBVIOUS
<1>1. CASE UNCHANGED vars
  BY <1>1, LedgerStutter DEF vars
<1>2. ASSUME NEW p \in Requests, Start(p) \/ Work(p) \/ Abort(p)
      PROVE  Ledger!Next \/ UNCHANGED Ledger!vars
  <2>1. \/ UNCHANGED <<batch, fact>> \/ CreateBatch(p) \/ Complete(p)
        \/ CreateFail(p) \/ Settle(p) \/ CancelWrite(p)
    BY <1>2 DEF Start, Upload, Reparse, Approve, Confirm, Cancel, Link, Work, FindActive,
         ReparseRead, ResolveRows, WritePreview, LinkLock, LinkCheck, LinkWrite, BulkRead,
         BulkLock, BulkCheck, BulkWrite, ConfirmRead, ShaLock, ConfirmFind, CancelFind, Abort, data
  <2> QED
    BY <2>1, LedgerStutter, LedgerCreate, LedgerRewrite, LedgerImport
<1> QED
  BY <1>1, <1>2 DEF Next

(* Readers see the requests together as a ledger of imports: each CSV is   *)
(* counted once, and its days appear in one step with the count.           *)
THEOREM HeavenIsLedger == Spec => LedgerSpec
<1>1. Init => TypeInv /\ OnceInv
  BY TypeInit, OnceInit
<1>2. TypeInv /\ OnceInv /\ [Next]_vars => (TypeInv /\ OnceInv)'
  BY TypeStep, OnceStep
<1> QED
  BY <1>1, <1>2, LedgerInit, LedgerStep, PTL DEF Spec, LedgerSpec, Ledger!Spec
=============================================================================
