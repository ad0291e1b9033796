----------------------------- MODULE HeavenImport -----------------------------
(***************************************************************************)
(* The Heaven import (src/lib/imports/heaven/service.ts) of the one store  *)
(* that has it: a CSV becomes a batch with a preview, administrators link  *)
(* the names of the preview to casts, and a confirmation stores the days   *)
(* of the resolved names as facts.  A Request is a call of one of its      *)
(* functions, by an API route or a Drive executor; requests run            *)
(* concurrently, and a step of one is a statement that others can come     *)
(* between.  The preview is a file beside the database: no transaction     *)
(* covers it.  pg_advisory_xact_lock is held to the end of its transaction *)
(* and what a transaction writes appears with its last step.               *)
(*                                                                         *)
(* A shop CSV has no names: its rows resolve at once, and it behaves as a  *)
(* content all of whose names are linked.  A definition commented "Slip"   *)
(* is the one below it with a plausible bug, for the mutation runs.        *)
(***************************************************************************)
EXTENDS Integers, FiniteSets, FiniteSetsExt

CONSTANTS
  Contents,    \* CSV files, and their SHA-256 digests
  Names,       \* normalised cast names
  Casts,
  Days,        \* the days of the month, in the order of their rows
  Sheet,       \* [Contents -> [Names -> the days with a value]]
  Town,        \* [Names -> the cast its Town alias names, or None]
  MaxBatches,  \* bound on the batches created
  Requests,
  None

BatchIds == 1..MaxBatches

Completed   == {"COMPLETED", "COMPLETED_WITH_WARNINGS"}
Confirmable == {"PREVIEW_READY", "WAITING_FOR_CAST_LINK"}
NonTerminal == Confirmable \cup {"VALIDATING", "FAILED"}
Reparsable  == Confirmable \cup {"FAILED", "COMPLETED_WITH_WARNINGS"}
Statuses    == NonTerminal \cup Completed \cup {"CANCELLED"}

Batch == [sha: Contents, status: Statuses]

ASSUME HeavenAssumption ==
  /\ MaxBatches \in Nat
  /\ Days \subseteq Nat
  /\ Sheet \in [Contents -> [Names -> SUBSET Days]]
  /\ Town \in [Names -> Casts \cup {None}]
  /\ None \notin Casts \cup Contents \cup Names \cup Requests \cup BatchIds \cup Batch

VARIABLES
  batch,      \* [BatchIds -> [sha, status], or None: not created]
  preview,    \* [BatchIds -> what the preview file says of each name, or None]
  alias,      \* [Names -> the cast the Heaven alias of the name points to, or None]
  fact,       \* [Casts \X Days -> importBatchId of the stored row, or None]
  shaLock,    \* [Contents -> holder of heaven-sha:<digest>, or None]
  aliasLock,  \* [Names -> holder of heaven-alias:<store>:<name>, or None]
  bulkLock,   \* [BatchIds -> holder of heaven-bulk-alias:<batch>, or None]
  pc,         \* [Requests -> where the call is]
  loc         \* [Requests -> its local variables]

locks == <<shaLock, aliasLock, bulkLock>>
vars == <<batch, preview, alias, fact, locks, pc, loc>>

Unread == [n \in Names |-> None]

(* creating: the call is an upload that has created its batch.             *)
(* usable: the status it read, before it had the lock, lets it go on.      *)
(* rows: the preview it read or computed.                                  *)
(* snap: the aliases in the snapshot of its Serializable transaction.      *)
Blank == [sha |-> None, batch |-> None, creating |-> FALSE, usable |-> FALSE,
          rows |-> Unread, name |-> None, cast |-> None, plan |-> {}, snap |-> Unread]

Init ==
  /\ batch = [b \in BatchIds |-> None]
  /\ preview = [b \in BatchIds |-> None]
  /\ alias = [n \in Names |-> None]
  /\ fact = [k \in Casts \X Days |-> None]
  /\ shaLock = [c \in Contents |-> None]
  /\ aliasLock = [n \in Names |-> None]
  /\ bulkLock = [b \in BatchIds |-> None]
  /\ pc = [p \in Requests |-> "off"]
  /\ loc = [p \in Requests |-> Blank]

-----------------------------------------------------------------------------
(* Helpers. *)

(* parseHeavenCsvText takes rows.slice(1, 31): thirty rows below the header. *)
RowLimit == 30

(* The days of name n that the parser hands on with a value. *)
Parsed(c, n) == {d \in Sheet[c][n] : d <= RowLimit}

(* The names of a file: its columns. *)
Columns(c) == {n \in Names : Sheet[c][n] # {}}

(* resolveHeavenRows: the cast of each name by its alias. *)
Resolve == alias

Unresolved(c, rows) == {n \in Columns(c) : rows[n] = None}

(* The status of a preview. *)
PreviewStatus(c, rows) ==
  IF Unresolved(c, rows) # {} THEN "WAITING_FOR_CAST_LINK" ELSE "PREVIEW_READY"

Of(b) == batch[b].sha

WithDigest(c, ss) ==
  {b \in BatchIds : batch[b] # None /\ batch[b].sha = c /\ batch[b].status \in ss}

(* Slip: the search for a completed batch does not leave out b itself. *)
CompletedDuplicatesOrSelf(b) == WithDigest(Of(b), Completed)

(* findCompletedHeavenDuplicate with excludeBatchId. *)
CompletedDuplicates(b) == WithDigest(Of(b), Completed) \ {b}

Goto(p, l) == pc' = [pc EXCEPT ![p] = l]
Set(p, r) == loc' = [loc EXCEPT ![p] = r]
Release(p) ==
  /\ shaLock' = [c \in Contents |-> IF shaLock[c] = p THEN None ELSE shaLock[c]]
  /\ aliasLock' = [n \in Names |-> IF aliasLock[n] = p THEN None ELSE aliasLock[n]]
  /\ bulkLock' = [b \in BatchIds |-> IF bulkLock[b] = p THEN None ELSE bulkLock[b]]

(* The call returns or throws; a transaction it is in ends. *)
Return(p) == Goto(p, "off") /\ Set(p, Blank) /\ Release(p)

data == <<batch, preview, alias, fact>>

-----------------------------------------------------------------------------
(* createHeavenPreview. *)

(* The digest, then the search for a completed batch. *)
Upload(p, c) ==
  /\ pc[p] = "off"
  /\ WithDigest(c, Completed) = {}
  /\ Set(p, [Blank EXCEPT !.sha = c])
  /\ Goto(p, "active")
  /\ UNCHANGED <<data, locks>>

(* The newest batch under way is handed back if its preview can be read. *)
FindActive(p) ==
  LET active == WithDigest(loc[p].sha, NonTerminal)
      reuses == active # {} /\ preview[Max(active)] # None
  IN /\ pc[p] = "active"
     /\ \/ reuses /\ Return(p)
        \/ ~reuses /\ Goto(p, "create") /\ UNCHANGED <<loc, locks>>
     /\ UNCHANGED data

(* Slip: the batch is created with the column's default status. *)
CreateBatchUploaded(p) ==
  /\ pc[p] = "create"
  /\ \E b \in BatchIds :
       /\ batch[b] = None /\ \A a \in 1..(b - 1) : batch[a] # None
       /\ batch' = [batch EXCEPT ![b] = [sha |-> loc[p].sha, status |-> "UPLOADED"]]
       /\ Set(p, [loc[p] EXCEPT !.batch = b, !.creating = TRUE])
  /\ Goto(p, "resolve")
  /\ UNCHANGED <<preview, alias, fact, locks>>

CreateBatch(p) ==
  /\ pc[p] = "create"
  /\ \E b \in BatchIds :
       /\ batch[b] = None /\ \A a \in 1..(b - 1) : batch[a] # None
       /\ batch' = [batch EXCEPT ![b] = [sha |-> loc[p].sha, status |-> "VALIDATING"]]
       /\ Set(p, [loc[p] EXCEPT !.batch = b, !.creating = TRUE])
  /\ Goto(p, "resolve")
  /\ UNCHANGED <<preview, alias, fact, locks>>

(* Its catch. *)
CreateFail(p) ==
  /\ pc[p] \in {"resolve", "write", "settle"} /\ loc[p].creating
  /\ batch' = [batch EXCEPT ![loc[p].batch].status = "FAILED"]
  /\ Return(p)
  /\ UNCHANGED <<preview, alias, fact>>

-----------------------------------------------------------------------------
(* reparseHeavenBatch, and the end of createHeavenPreview: resolve the     *)
(* names, write the preview file, update the batch.  The advisory lock     *)
(* heaven-reparse is taken in a transaction of its own that ends at once,  *)
(* so it excludes nothing.                                                 *)

Reparse(p, b) ==
  /\ pc[p] = "off" /\ batch[b] # None
  /\ Set(p, [Blank EXCEPT !.batch = b])
  /\ Goto(p, "reparse")
  /\ UNCHANGED <<data, locks>>

(* A call that has stored aliases goes on with a reparse of its batch. *)
ReparseNext(p) == Goto(p, "reparse") /\ Set(p, [Blank EXCEPT !.batch = loc[p].batch])

ReparseRead(p) ==
  /\ pc[p] = "reparse"
  /\ \/ /\ batch[loc[p].batch].status \in Reparsable
        /\ Goto(p, "resolve") /\ UNCHANGED <<loc, locks>>
     \/ batch[loc[p].batch].status \notin Reparsable /\ Return(p)
  /\ UNCHANGED data

ResolveRows(p) ==
  /\ pc[p] = "resolve"
  /\ Set(p, [loc[p] EXCEPT !.rows = Resolve])
  /\ Goto(p, "write")
  /\ UNCHANGED <<data, locks>>

WritePreview(p) ==
  /\ pc[p] = "write"
  /\ preview' = [preview EXCEPT ![loc[p].batch] = loc[p].rows]
  /\ Goto(p, "settle")
  /\ UNCHANGED <<batch, alias, fact, loc, locks>>

(* The update has no condition on the status. *)
Settle(p) ==
  LET b == loc[p].batch
  IN /\ pc[p] = "settle"
     /\ batch' = [batch EXCEPT ![b].status = PreviewStatus(Of(b), loc[p].rows)]
     /\ Return(p)
     /\ UNCHANGED <<preview, alias, fact>>

-----------------------------------------------------------------------------
(* createHeavenAliasAndResolve: one name to one cast, then a reparse. *)

Link(p, b, n, k) ==
  /\ pc[p] = "off" /\ batch[b] # None /\ preview[b] # None
  /\ n \in Unresolved(Of(b), preview[b])
  /\ Set(p, [Blank EXCEPT !.batch = b, !.name = n, !.cast = k])
  /\ Goto(p, "aliasLock")
  /\ UNCHANGED <<data, locks>>

LinkLock(p) ==
  LET n == loc[p].name
  IN /\ pc[p] = "aliasLock" /\ aliasLock[n] = None
     /\ aliasLock' = [aliasLock EXCEPT ![n] = p]
     /\ Goto(p, "aliasCheck")
     /\ UNCHANGED <<data, shaLock, bulkLock, loc>>

(* An alias of the name that points to another cast stops the call. *)
LinkCheck(p) ==
  LET free == alias[loc[p].name] \in {None, loc[p].cast}
  IN /\ pc[p] = "aliasCheck"
     /\ \/ free /\ Goto(p, "aliasWrite") /\ UNCHANGED <<loc, locks>>
        \/ ~free /\ Return(p)
     /\ UNCHANGED data

(* The upsert: READ COMMITTED, it writes over whatever is there by now. *)
LinkWrite(p) ==
  /\ pc[p] = "aliasWrite"
  /\ alias' = [alias EXCEPT ![loc[p].name] = loc[p].cast]
  /\ Release(p) /\ ReparseNext(p)
  /\ UNCHANGED <<batch, preview, fact>>

-----------------------------------------------------------------------------
(* approveHeavenBulkAliases: the names whose Town alias names one cast. *)

(* getHeavenBulkAliasApprovalPreview: the candidates, unless a name already *)
(* has a Heaven alias to another cast.                                     *)
Candidates(b) == {n \in Unresolved(Of(b), preview[b]) : Town[n] # None}
Collision(b) == \E n \in Candidates(b) : alias[n] \notin {None, Town[n]}
Approvable(b) == batch[b].status = "WAITING_FOR_CAST_LINK" /\ ~Collision(b)

Approve(p, b) ==
  /\ pc[p] = "off" /\ batch[b] # None /\ preview[b] # None
  /\ Approvable(b) /\ Candidates(b) # {}
  /\ Set(p, [Blank EXCEPT !.batch = b, !.plan = Candidates(b)])
  /\ Goto(p, "bulkRead")
  /\ UNCHANGED <<data, locks>>

(* The first query of the Serializable transaction fixes its snapshot. *)
BulkRead(p) ==
  LET waiting == batch[loc[p].batch].status = "WAITING_FOR_CAST_LINK"
  IN /\ pc[p] = "bulkRead"
     /\ \/ /\ waiting /\ Set(p, [loc[p] EXCEPT !.snap = alias])
           /\ Goto(p, "bulkLock") /\ UNCHANGED locks
        \/ ~waiting /\ Return(p)
     /\ UNCHANGED data

BulkLock(p) ==
  LET b == loc[p].batch
  IN /\ pc[p] = "bulkLock" /\ bulkLock[b] = None
     /\ bulkLock' = [bulkLock EXCEPT ![b] = p]
     /\ Goto(p, "bulkCheck")
     /\ UNCHANGED <<data, shaLock, aliasLock, loc>>

(* The plan is made again, outside the snapshot; only its size and its     *)
(* collisions are compared.                                                *)
BulkCheck(p) ==
  LET b == loc[p].batch
      same == Cardinality(Candidates(b)) = Cardinality(loc[p].plan) /\ ~Collision(b)
  IN /\ pc[p] = "bulkCheck"
     /\ \/ same /\ Goto(p, "bulkWrite") /\ UNCHANGED <<loc, locks>>
        \/ ~same /\ Return(p)
     /\ UNCHANGED data

(* Conflicts are looked for in the snapshot; an alias written since then   *)
(* makes the upsert fail to serialise.                                     *)
BulkWrite(p) ==
  LET plan == loc[p].plan
      writes == \A n \in plan : /\ loc[p].snap[n] \in {None, Town[n]}
                                /\ alias[n] = loc[p].snap[n]
  IN /\ pc[p] = "bulkWrite"
     /\ \/ /\ writes
           /\ alias' = [n \in Names |-> IF n \in plan THEN Town[n] ELSE alias[n]]
           /\ Release(p) /\ ReparseNext(p)
        \/ ~writes /\ Return(p) /\ UNCHANGED alias
     /\ UNCHANGED <<batch, preview, fact>>

-----------------------------------------------------------------------------
(* confirmHeavenImport and cancelDuplicateHeavenBatch. *)

(* The preview is read before the transaction. *)
Confirm(p, b) ==
  /\ pc[p] = "off" /\ batch[b] # None /\ preview[b] # None
  /\ Set(p, [Blank EXCEPT !.batch = b, !.rows = preview[b]])
  /\ Goto(p, "confirmRead")
  /\ UNCHANGED <<data, locks>>

(* The status is read before the lock is asked for; what it says of the    *)
(* call is looked at after (ConfirmFind, CancelFind).                      *)
ConfirmRead(p) ==
  /\ pc[p] = "confirmRead"
  /\ Set(p, [loc[p] EXCEPT !.usable = batch[loc[p].batch].status \in Confirmable])
  /\ Goto(p, "confirmLock")
  /\ UNCHANGED <<data, locks>>

Cancel(p, b) ==
  /\ pc[p] = "off" /\ batch[b] # None
  /\ Set(p, [Blank EXCEPT !.batch = b, !.usable = batch[b].status \notin Completed])
  /\ Goto(p, "cancelLock")
  /\ UNCHANGED <<data, locks>>

(* Slip: the two functions lock the batch they work on, not its digest. *)
ShaLockOfBatch(p) ==
  /\ pc[p] \in {"confirmLock", "cancelLock"}
  /\ Goto(p, IF pc[p] = "confirmLock" THEN "confirmFind" ELSE "cancelFind")
  /\ UNCHANGED <<data, locks, loc>>

ShaLock(p) ==
  LET c == Of(loc[p].batch)
  IN /\ pc[p] \in {"confirmLock", "cancelLock"} /\ shaLock[c] = None
     /\ shaLock' = [shaLock EXCEPT ![c] = p]
     /\ Goto(p, IF pc[p] = "confirmLock" THEN "confirmFind" ELSE "cancelFind")
     /\ UNCHANGED <<data, aliasLock, bulkLock, loc>>

ConfirmFind(p) ==
  LET duplicate == CompletedDuplicates(loc[p].batch) # {}
      usable == loc[p].usable
  IN /\ pc[p] = "confirmFind"
     /\ \/ duplicate /\ Goto(p, "cancel") /\ UNCHANGED <<loc, locks>>
        \/ ~duplicate /\ usable /\ Goto(p, "complete") /\ UNCHANGED <<loc, locks>>
        \/ ~duplicate /\ ~usable /\ Return(p)
     /\ UNCHANGED data

CancelFind(p) ==
  LET cancels == CompletedDuplicates(loc[p].batch) # {} /\ loc[p].usable
  IN /\ pc[p] = "cancelFind"
     /\ \/ cancels /\ Goto(p, "cancel") /\ UNCHANGED <<loc, locks>>
        \/ ~cancels /\ Return(p)
     /\ UNCHANGED data

CancelWrite(p) ==
  /\ pc[p] = "cancel"
  /\ batch' = [batch EXCEPT ![loc[p].batch].status = "CANCELLED"]
  /\ Return(p)
  /\ UNCHANGED <<preview, alias, fact>>

(* Slip: the status tells whether something is pending, not the preview    *)
(* whose rows are stored.                                                  *)
CompletionStatusOfBatch(b, rows) ==
  IF batch[b].status = "WAITING_FOR_CAST_LINK" THEN "COMPLETED_WITH_WARNINGS"
                                               ELSE "COMPLETED"

(* heavenConfirmCompletionFields. *)
CompletionStatus(b, rows) ==
  IF Unresolved(Of(b), rows) # {} THEN "COMPLETED_WITH_WARNINGS" ELSE "COMPLETED"

(* The upserts of the resolved rows and the update of the batch. *)
Complete(p) ==
  LET b == loc[p].batch
      rows == loc[p].rows
      stores(k) == \E n \in Columns(Of(b)) : rows[n] = k[1] /\ k[2] \in Parsed(Of(b), n)
  IN /\ pc[p] = "complete"
     /\ fact' = [k \in Casts \X Days |-> IF stores(k) THEN b ELSE fact[k]]
     /\ batch' = [batch EXCEPT ![b].status = CompletionStatus(b, rows)]
     /\ Return(p)
     /\ UNCHANGED <<preview, alias>>

-----------------------------------------------------------------------------
(* A request dies, or its transaction is rolled back (an interactive       *)
(* transaction has a time limit): what it has not committed is lost, its   *)
(* locks are free.                                                         *)
Abort(p) ==
  /\ pc[p] # "off"
  /\ Return(p)
  /\ UNCHANGED data

Start(p) ==
  \/ \E c \in Contents : Upload(p, c)
  \/ \E b \in BatchIds : Reparse(p, b) \/ Approve(p, b) \/ Confirm(p, b) \/ Cancel(p, b)
  \/ \E b \in BatchIds, n \in Names, k \in Casts : Link(p, b, n, k)

Work(p) ==
  \/ FindActive(p) \/ CreateBatch(p) \/ CreateFail(p)
  \/ ReparseRead(p) \/ ResolveRows(p) \/ WritePreview(p) \/ Settle(p)
  \/ LinkLock(p) \/ LinkCheck(p) \/ LinkWrite(p)
  \/ BulkRead(p) \/ BulkLock(p) \/ BulkCheck(p) \/ BulkWrite(p)
  \/ ConfirmRead(p) \/ ShaLock(p) \/ ConfirmFind(p) \/ CancelFind(p)
  \/ CancelWrite(p) \/ Complete(p)

Next == \E p \in Requests : Start(p) \/ Work(p) \/ Abort(p)

Spec == Init /\ [][Next]_vars

-----------------------------------------------------------------------------
(* Properties. *)

Rows == [Names -> Casts \cup {None}]

Labels == {"off", "active", "create", "reparse", "resolve", "write", "settle",
           "aliasLock", "aliasCheck", "aliasWrite", "bulkRead", "bulkLock", "bulkCheck",
           "bulkWrite", "confirmRead", "confirmLock", "confirmFind", "cancelLock",
           "cancelFind", "cancel", "complete"}

Local == [sha: Contents \cup {None}, batch: BatchIds \cup {None}, creating: BOOLEAN,
          usable: BOOLEAN, rows: Rows, name: Names \cup {None},
          cast: Casts \cup {None}, plan: SUBSET Names, snap: Rows]

(* Every variable has its type; a batch only has the statuses Heaven uses. *)
TypeOK ==
  /\ batch \in [BatchIds -> Batch \cup {None}]
  /\ preview \in [BatchIds -> Rows \cup {None}]
  /\ alias \in Rows
  /\ fact \in [Casts \X Days -> BatchIds \cup {None}]
  /\ shaLock \in [Contents -> Requests \cup {None}]
  /\ aliasLock \in [Names -> Requests \cup {None}]
  /\ bulkLock \in [BatchIds -> Requests \cup {None}]
  /\ pc \in [Requests -> Labels]
  /\ loc \in [Requests -> Local]

(* A file is imported once: of the batches that hold the same CSV at most  *)
(* one is completed, whatever uploads, reparses and confirmations race     *)
(* (service.ts:360-361, HEAVEN_IMPORT_DESIGN.md:70).                       *)
OneCompletedPerContent ==
  \A b, c \in BatchIds :
    /\ batch[b] # None /\ batch[c] # None
    /\ batch[b].status \in Completed /\ batch[c].status \in Completed
    /\ batch[b].sha = batch[c].sha
    => b = c

(* A completed batch is never cancelled as a duplicate, although both      *)
(* callers judge it by a status they read before they had the lock         *)
(* (service.ts:117, 358).                                                  *)
CompletedNotCancelled ==
  [][\A b \in BatchIds :
       batch[b] # None /\ batch[b].status \in Completed
         => batch'[b].status # "CANCELLED"]_vars

(* COMPLETED, without warnings, means that every row the parser handed on  *)
(* is stored, though preview file and status are written apart and by      *)
(* several reparses at once.                                               *)
CompletedHasNoGap ==
  \A b \in BatchIds :
    batch[b] # None /\ batch[b].status = "COMPLETED" =>
      \A n \in Columns(Of(b)) : \A d \in Parsed(Of(b), n) :
        \E k \in Casts : fact[<<k, d>>] # None

(* What the requests do together is, for readers, a ledger of imports:     *)
(* each confirmation stores all the days of its preview in one step, and   *)
(* no other step touches a fact or counts a file twice.                    *)
With(ss) == {b \in BatchIds : batch[b] # None /\ batch[b].status \in ss}
Ledger == INSTANCE HeavenLedger WITH
            content <- [b \in BatchIds |-> IF batch[b] = None THEN None ELSE Of(b)],
            counted <- With(Completed),
            whole <- With({"COMPLETED"}),
            Header <- [c \in Contents |-> Columns(c)],
            Parts <- [c \in Contents |-> [n \in Names |-> Parsed(c, n)]]
LedgerSpec == Ledger!Spec

-----------------------------------------------------------------------------
(* What a document says and the code does not do. *)

(* HEAVEN_IMPORT_DESIGN.md:10: daily values are not lost.  Here: a         *)
(* COMPLETED batch has stored every day of its file that has a value.      *)
NoDayIsLost ==
  \A b \in BatchIds :
    batch[b] # None /\ batch[b].status = "COMPLETED" =>
      \A n \in Columns(Of(b)) : \A d \in Sheet[Of(b)][n] :
        \E k \in Casts : fact[<<k, d>>] # None
=============================================================================
