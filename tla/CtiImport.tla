------------------------------ MODULE CtiImport ------------------------------
(***************************************************************************)
(* The import of CTI daily reports (src/lib/imports/cti): upload, bulk     *)
(* processing of a folder, decisions about names, reparse, confirmation.   *)
(* A batch is a row of import_batches with a preview file beside it.  No   *)
(* call holds a database lock or looks at the status again when it writes: *)
(* a Request is one call, a step of it the work between two awaits, and    *)
(* what it read before is in loc.  Two maps of the process keep a second   *)
(* bulk call for a file name, and a second reparse of a batch, from        *)
(* starting; a process that dies takes its calls with it.                  *)
(*                                                                         *)
(* There is one store, casts are employed on all days, an alias never      *)
(* ends, COMPLETED stands for COMPLETED_WITH_WARNINGS too (no condition    *)
(* tells them apart), and the files are daily and have the right sheets.   *)
(* A definition commented "Slip" is the one below it with a plausible bug, *)
(* for the mutation runs.                                                  *)
(***************************************************************************)
EXTENDS Integers, FiniteSets

CONSTANTS
  Dates, Casts, Names,
  Files,       \* contents, by their SHA-256
  DateOf,      \* [Files -> Dates]: the file name gives the day
  Rows,        \* [Files -> SUBSET Names]: the rows that are not excluded
  Errors,      \* [Files -> SUBSET Names]: those of them with a value in error
  Named,       \* [Names -> the cast of that display name, or None]
  Batches,     \* ids: the bound on the batches created
  Requests,
  Choices,     \* the decisions about a row: a cast, Skipped, None
  Skipped, None

Status   == {"VALIDATING", "PREVIEW_READY", "WAITING_FOR_CAST_LINK", "COMPLETED", "FAILED"}
Editable == {"PREVIEW_READY", "WAITING_FOR_CAST_LINK"}

(* A row of import_batches.  dup: metadata.duplicateCompletedBatchId is    *)
(* set.  safe: ctiBulk.autoConfirmSafe, None without ctiBulk.  known, in   *)
(* no column: the batches of other contents there were when it was found.  *)
Batch == [file: Files, status: Status, dup: BOOLEAN, safe: BOOLEAN \cup {None},
          known: SUBSET Batches]

Preview == [Names -> Casts \cup {Skipped, None}]   \* None: pending
Stored  == [batch: Batches, name: Names]
Seen    == {"OPEN", "COMPLETED"}   \* of a status that a call read, all that tells later

ASSUME CtiAssumption ==
  /\ Dates \subseteq Nat
  /\ DateOf \in [Files -> Dates]
  /\ Rows \in [Files -> SUBSET Names]
  /\ Errors \in [Files -> SUBSET Names]
  /\ Named \in [Names -> Casts \cup {None}]
  /\ Choices \subseteq Casts \cup {Skipped, None}
  /\ Skipped \notin Casts \cup {None}
  /\ None \notin Casts \cup Batches \cup Files \cup Names \cup Batch \cup Preview \cup Stored
  /\ None \notin Seen /\ None \notin BOOLEAN

VARIABLES
  batch,      \* [Batches -> the row of import_batches, or None]
  preview,    \* [Batches -> the file beside it, or None]
  alias,      \* set of <<name, first day, cast>>
  fact,       \* [Dates \X Casts -> the row it was stored from, or None]
  pc, loc     \* [Requests -> where the call is, and its local variables]

vars == <<batch, preview, alias, fact, pc, loc>>

(* bulk: the action of a bulk call.  choice: the decision about name.      *)
(* seen, safe, rows, dup: status, flags and preview the call has in hand.  *)
Local == [id: Batches \cup {None}, file: Files \cup {None},
          bulk: {"", "VALIDATE", "CONFIRM_SAFE"},
          name: Names \cup {None}, choice: Casts \cup {Skipped, None},
          seen: Seen \cup {None}, safe: BOOLEAN \cup {None}, dup: BOOLEAN,
          rows: Preview, known: SUBSET Batches]
Blank == [id |-> None, file |-> None, bulk |-> "", name |-> None,
          choice |-> None, seen |-> None, safe |-> None, dup |-> FALSE,
          rows |-> [n \in Names |-> None], known |-> {}]

Labels == {"off", "create", "search", "analyze", "status", "bulkNew", "bulkOld", "bulkCheck",
           "confirm", "confirmPreview", "confirmWrite", "resolve", "link", "put",
           "resolveStatus", "reparse", "reparsePut", "reparseStatus"}

Init ==
  /\ batch = [b \in Batches |-> None]
  /\ preview = [b \in Batches |-> None]
  /\ alias = {}
  /\ fact = [k \in Dates \X Casts |-> None]
  /\ pc = [p \in Requests |-> "off"]
  /\ loc = [p \in Requests |-> Blank]

-----------------------------------------------------------------------------
(* Helpers. *)

Goto(p, l, r) == pc' = [pc EXCEPT ![p] = l] /\ loc' = [loc EXCEPT ![p] = r]
Return(p) == Goto(p, "off", Blank)

Exists(b) == batch[b] # None
Saw(b) == IF batch[b].status = "COMPLETED" THEN "COMPLETED" ELSE "OPEN"
SetStatus(b, s) == batch' = [batch EXCEPT ![b].status = s]

SameHash(f) == {b \in Batches : Exists(b) /\ batch[b].file = f}

(* Slip: batches that wait for a confirmation are no correction. *)
CorrectionsCompleted(f) ==
  {b \in Batches : /\ Exists(b) /\ batch[b].file # f /\ DateOf[batch[b].file] = DateOf[f]
                   /\ batch[b].status = "COMPLETED"}

(* Batches of the same day with another SHA-256, whatever their status. *)
Corrections(f) ==
  {b \in Batches : Exists(b) /\ batch[b].file # f /\ DateOf[batch[b].file] = DateOf[f]}

(* resolvePreviewRow: the alias valid on the day, else the display name.   *)
(* Several casts are AMBIGUOUS: pending, like no cast.                     *)
Resolved(n, d) ==
  LET found == {a[3] : a \in {x \in alias : x[1] = n /\ x[2] <= d}}
  IN IF found = {} THEN Named[n]
     ELSE IF \E c \in Casts : found = {c} THEN CHOOSE c \in Casts : found = {c}
     ELSE None

(* analyzeCtiWorkbook *)
Analysis(f) == [n \in Names |-> IF n \in Rows[f] THEN Resolved(n, DateOf[f]) ELSE None]

Pending(f, v) == \E n \in Rows[f] : v[n] = None

(* Slip: a row in error is stored too. *)
EligibleErrors(f, v) == {n \in Rows[f] : v[n] \in Casts}

(* eligible *)
Eligible(f, v) == {n \in Rows[f] \ Errors[f] : v[n] \in Casts}

(* The status an analysis or a decision leaves. *)
Ready(f, v) == IF Pending(f, v) THEN "WAITING_FOR_CAST_LINK" ELSE "PREVIEW_READY"

(* inspectCtiBulkPreviewSafety *)
Safe(f, v, others) ==
  /\ Errors[f] = {} /\ ~Pending(f, v) /\ Eligible(f, v) # {} /\ others = {}

-----------------------------------------------------------------------------
(* createCtiPreview, by an upload or for the bulk processing. *)

Duplicate(f) == \E b \in SameHash(f) : batch[b].status = "COMPLETED"

Upload(p, f) ==
  /\ pc[p] = "off"
  /\ Goto(p, "create", [Blank EXCEPT !.file = f, !.dup = Duplicate(f)])
  /\ UNCHANGED <<batch, preview, alias, fact>>

Search(p) ==
  /\ pc[p] = "search"
  /\ Goto(p, "create", [loc[p] EXCEPT !.dup = Duplicate(loc[p].file)])
  /\ UNCHANGED <<batch, preview, alias, fact>>

Create(p, b) ==
  LET r == loc[p]
  IN /\ pc[p] = "create" /\ ~Exists(b)
     /\ batch' = [batch EXCEPT ![b] =
          [file |-> r.file, status |-> "VALIDATING", dup |-> r.dup, known |-> {},
           safe |-> IF r.bulk = "" THEN None ELSE FALSE]]
     /\ Goto(p, "analyze", [r EXCEPT !.id = b, !.dup = FALSE])
     /\ UNCHANGED <<preview, alias, fact>>

(* Slip: the preview stays in memory. *)
AnalyzeUnsaved(p) ==
  /\ pc[p] = "analyze"
  /\ Goto(p, "status", [loc[p] EXCEPT !.rows = Analysis(loc[p].file)])
  /\ UNCHANGED <<batch, preview, alias, fact>>

(* Nobody reads the preview of a batch that is VALIDATING. *)
Analyze(p) ==
  LET v == Analysis(loc[p].file)
  IN /\ pc[p] = "analyze"
     /\ preview' = [preview EXCEPT ![loc[p].id] = v]
     /\ Goto(p, "status", [loc[p] EXCEPT !.rows = v])
     /\ UNCHANGED <<batch, alias, fact>>

PutStatus(p) ==
  /\ pc[p] = "status"
  /\ SetStatus(loc[p].id, Ready(loc[p].file, loc[p].rows))
  /\ \/ loc[p].bulk = "" /\ Return(p)
     \/ loc[p].bulk # "" /\ Goto(p, "bulkCheck", loc[p])
  /\ UNCHANGED <<preview, alias, fact>>

(* The catch. *)
CreateFails(p) ==
  /\ pc[p] \in {"analyze", "status"}
  /\ SetStatus(loc[p].id, "FAILED")
  /\ Return(p)
  /\ UNCHANGED <<preview, alias, fact>>

-----------------------------------------------------------------------------
(* processCtiBulkFile.  The key is a file name, of which there is one for  *)
(* each day; its content f may change between two calls.  With a completed *)
(* batch of the content nothing is done; with another, whichever the order *)
(* of creation says is the newest, only CONFIRM_SAFE of a preview that is  *)
(* ready and not known to be unsafe does something, and with retryFailed   *)
(* a failed one is imported anew.                                          *)

Bulk(p, f, action, retry) ==
  LET r == [Blank EXCEPT !.file = f, !.bulk = action]
  IN /\ pc[p] = "off"
     /\ \A q \in Requests : loc[q].bulk # "" => DateOf[loc[q].file] # DateOf[f]
     /\ ~Duplicate(f)
     /\ \/ /\ SameHash(f) = {} \/ (retry /\ \E b \in SameHash(f) : batch[b].status = "FAILED")
           /\ Goto(p, "bulkNew", r)
        \/ \E b \in SameHash(f) :
             /\ action = "CONFIRM_SAFE" /\ batch[b].status = "PREVIEW_READY"
             /\ \/ batch[b].safe = TRUE /\ Goto(p, "confirm", [r EXCEPT !.id = b,
                                                                 !.known = batch[b].known])
                \/ batch[b].safe = None /\ Goto(p, "bulkOld", [r EXCEPT !.id = b])
     /\ UNCHANGED <<batch, preview, alias, fact>>

Others(f) == {b \in Batches : Exists(b) /\ batch[b].file # f}

BulkNew(p) ==
  LET r == loc[p]
  IN /\ pc[p] = "bulkNew"
     /\ Goto(p, "search", [r EXCEPT !.safe = Corrections(r.file) = {}, !.known = Others(r.file)])
     /\ UNCHANGED <<batch, preview, alias, fact>>

(* A batch without ctiBulk is inspected; the flag of another stands. *)
BulkOld(p) ==
  LET r == loc[p]
      safe == Safe(r.file, preview[r.id], Corrections(r.file))
  IN /\ pc[p] = "bulkOld"
     /\ \/ safe /\ Goto(p, "confirm", [r EXCEPT !.known = Others(r.file)])
        \/ ~safe /\ Return(p)
     /\ UNCHANGED <<batch, preview, alias, fact>>

(* The preview is read back and judged with the corrections found before,  *)
(* and the judgement is written beside them.                               *)
BulkCheck(p) ==
  LET r == loc[p]
      safe == r.safe = TRUE /\ Safe(r.file, preview[r.id], {})
      go == r.bulk = "CONFIRM_SAFE" /\ safe /\ ~Pending(r.file, r.rows)
  IN /\ pc[p] = "bulkCheck"
     /\ batch' = [batch EXCEPT ![r.id].safe = safe,
                               ![r.id].known = IF safe THEN r.known ELSE {}]
     /\ \/ go /\ Goto(p, "confirm", [r EXCEPT !.safe = None, !.rows = Blank.rows])
        \/ ~go /\ Return(p)
     /\ UNCHANGED <<preview, alias, fact>>

-----------------------------------------------------------------------------
(* confirmCtiImport, by an administrator or at the end of a bulk call. *)

(* Slip: a completed batch may be confirmed again. *)
ConfirmableAgain(b, force) ==
  batch[b].status \in Editable \cup {"COMPLETED"} /\ (batch[b].dup => force)

Confirmable(b, force) == batch[b].status \in Editable /\ (batch[b].dup => force)

Confirm(p, b, force) ==
  /\ pc[p] = "off" /\ Exists(b) /\ Confirmable(b, force)
  /\ Goto(p, "confirmPreview", [Blank EXCEPT !.id = b, !.file = batch[b].file,
                                   !.seen = Saw(b), !.safe = batch[b].safe])
  /\ UNCHANGED <<batch, preview, alias, fact>>

BulkConfirm(p) ==
  LET b == loc[p].id
  IN /\ pc[p] = "confirm"
     /\ \/ /\ Confirmable(b, FALSE)
           /\ Goto(p, "confirmPreview", [loc[p] EXCEPT !.seen = Saw(b),
                                                       !.safe = batch[b].safe])
        \/ ~Confirmable(b, FALSE) /\ Return(p)
     /\ UNCHANGED <<batch, preview, alias, fact>>

ConfirmPreview(p) ==
  LET v == preview[loc[p].id]
      ok == Eligible(loc[p].file, v) # {}
  IN /\ pc[p] = "confirmPreview"
     /\ \/ ok /\ Goto(p, "confirmWrite", [loc[p] EXCEPT !.rows = v])
        \/ ~ok /\ Return(p)
     /\ UNCHANGED <<batch, preview, alias, fact>>

(* The transaction: of two rows of one cast the later is stored. *)
ConfirmWrite(p) ==
  LET r == loc[p]
      rowsOf(k) == {n \in Eligible(r.file, r.rows) : k = <<DateOf[r.file], r.rows[n]>>}
  IN /\ pc[p] = "confirmWrite"
     /\ \E last \in [Casts -> Names] :
          /\ \A k \in Dates \X Casts : rowsOf(k) # {} => last[k[2]] \in rowsOf(k)
          /\ fact' = [k \in Dates \X Casts |->
               IF rowsOf(k) # {} THEN [batch |-> r.id, name |-> last[k[2]]] ELSE fact[k]]
     /\ batch' = [batch EXCEPT ![r.id].status = "COMPLETED", ![r.id].safe = r.safe]
     /\ Return(p)
     /\ UNCHANGED <<preview, alias>>

(* The catch: the transaction has rolled back. *)
ConfirmFails(p) ==
  /\ pc[p] = "confirmWrite"
  /\ SetStatus(loc[p].id, "FAILED")
  /\ Return(p)
  /\ UNCHANGED <<preview, alias, fact>>

-----------------------------------------------------------------------------
(* resolveCtiPreviewRow: a cast, SKIP or PENDING (None) for a row. *)

Decide(p, b, n, c) ==
  /\ pc[p] = "off" /\ Exists(b)
  /\ batch[b].status \in Editable /\ n \in Rows[batch[b].file]
  /\ Goto(p, "resolve", [Blank EXCEPT !.id = b, !.file = batch[b].file, !.name = n,
                                      !.choice = c, !.seen = Saw(b)])
  /\ UNCHANGED <<batch, preview, alias, fact>>

ResolvePreview(p) ==
  /\ pc[p] = "resolve"
  /\ Goto(p, IF loc[p].choice \in Casts THEN "link" ELSE "put",
          [loc[p] EXCEPT !.rows = preview[loc[p].id]])
  /\ UNCHANGED <<batch, preview, alias, fact>>

(* Slip: the alias is left to the next analysis. *)
LinkLater(p) ==
  /\ pc[p] = "link"
  /\ Goto(p, "put", loc[p])
  /\ UNCHANGED <<batch, preview, fact, alias>>

(* Any alias of the cast for the name will do, also one that begins later; *)
(* a second one from the same day violates the unique key.                 *)
Link(p) ==
  LET n == loc[p].name  c == loc[p].choice  d == DateOf[loc[p].file]
      linked == \E x \in Dates : <<n, x, c>> \in alias
  IN /\ pc[p] = "link"
     /\ \/ linked /\ UNCHANGED alias
        \/ /\ ~linked /\ \A x \in Casts : <<n, d, x>> \notin alias
           /\ alias' = alias \cup {<<n, d, c>>}
     /\ Goto(p, "put", loc[p])
     /\ UNCHANGED <<batch, preview, fact>>

ResolvePut(p) ==
  LET v == [loc[p].rows EXCEPT ![loc[p].name] = loc[p].choice]
  IN /\ pc[p] = "put"
     /\ preview' = [preview EXCEPT ![loc[p].id] = v]
     /\ Goto(p, "resolveStatus", [loc[p] EXCEPT !.rows = v, !.name = None, !.choice = None])
     /\ UNCHANGED <<batch, alias, fact>>

ResolveStatus(p) ==
  /\ pc[p] = "resolveStatus"
  /\ SetStatus(loc[p].id, Ready(loc[p].file, loc[p].rows))
  /\ Return(p)
  /\ UNCHANGED <<preview, alias, fact>>

-----------------------------------------------------------------------------
(* reparseCtiBatch *)

Reparse(p, b) ==
  /\ pc[p] = "off" /\ Exists(b)
  /\ batch[b].status \in {"FAILED", "WAITING_FOR_CAST_LINK", "COMPLETED"}
  /\ \A q \in Requests : pc[q] \in {"reparse", "reparsePut", "reparseStatus"} => loc[q].id # b
  /\ Goto(p, "reparse", [Blank EXCEPT !.id = b, !.file = batch[b].file,
                                      !.seen = Saw(b)])
  /\ UNCHANGED <<batch, preview, alias, fact>>

ReparseAnalyze(p) ==
  /\ pc[p] = "reparse"
  /\ Goto(p, "reparsePut", [loc[p] EXCEPT !.rows = Analysis(loc[p].file)])
  /\ UNCHANGED <<batch, preview, alias, fact>>

ReparsePut(p) ==
  /\ pc[p] = "reparsePut"
  /\ preview' = [preview EXCEPT ![loc[p].id] = loc[p].rows]
  /\ Goto(p, "reparseStatus", loc[p])
  /\ UNCHANGED <<batch, alias, fact>>

(* Slip: a completed batch is treated like the others. *)
StatusAfterReadyAlways(seen, f, v) == Ready(f, v)

StatusAfter(seen, f, v) == IF seen = "COMPLETED" THEN seen ELSE Ready(f, v)

ReparseStatus(p) ==
  /\ pc[p] = "reparseStatus"
  /\ SetStatus(loc[p].id, StatusAfter(loc[p].seen, loc[p].file, loc[p].rows))
  /\ Return(p)
  /\ UNCHANGED <<preview, alias, fact>>

-----------------------------------------------------------------------------
(* An await fails outside of a catch, or the process dies. *)
Abort(p) ==
  /\ pc[p] # "off"
  /\ Return(p)
  /\ UNCHANGED <<batch, preview, alias, fact>>

Start(p) ==
  \/ \E f \in Files : Upload(p, f)
  \/ \E f \in Files, action \in {"VALIDATE", "CONFIRM_SAFE"}, retry \in BOOLEAN :
       Bulk(p, f, action, retry)
  \/ \E b \in Batches, force \in BOOLEAN : Confirm(p, b, force)
  \/ \E b \in Batches, n \in Names, c \in Choices : Decide(p, b, n, c)
  \/ \E b \in Batches : Reparse(p, b)

Work(p) ==
  \/ Search(p) \/ (\E b \in Batches : Create(p, b)) \/ Analyze(p)
  \/ PutStatus(p) \/ CreateFails(p)
  \/ BulkNew(p) \/ BulkOld(p) \/ BulkCheck(p) \/ BulkConfirm(p)
  \/ ConfirmPreview(p) \/ ConfirmWrite(p) \/ ConfirmFails(p)
  \/ ResolvePreview(p) \/ Link(p) \/ ResolvePut(p) \/ ResolveStatus(p)
  \/ ReparseAnalyze(p) \/ ReparsePut(p) \/ ReparseStatus(p)

Next == \E p \in Requests : Start(p) \/ Work(p) \/ Abort(p)

Spec == Init /\ [][Next]_vars

-----------------------------------------------------------------------------
(* Properties. *)

(* Types, and that a batch is offered for decisions and confirmation only  *)
(* with a preview, whichever writers of its status race.                   *)
TypeOK ==
  /\ batch \in [Batches -> Batch \cup {None}]
  /\ preview \in [Batches -> Preview \cup {None}]
  /\ alias \subseteq Names \X Dates \X Casts
  /\ fact \in [Dates \X Casts -> Stored \cup {None}]
  /\ pc \in [Requests -> Labels]
  /\ loc \in [Requests -> Local]
  /\ \A b \in Batches : Exists(b) /\ batch[b].status \in Editable \cup {"COMPLETED"}
                          => preview[b] # None

(* What is stored of a cast on a day is a row without errors of a file of  *)
(* that day, whose name has the cast's display name or was linked to the   *)
(* cast by an alias: the alias is committed before the preview names the   *)
(* cast, and the preview is written before anybody confirms it.            *)
StoredIsLinked ==
  \A d \in Dates, c \in Casts : fact[<<d, c>>] # None =>
    LET n == fact[<<d, c>>].name
        f == batch[fact[<<d, c>>].batch].file
    IN /\ DateOf[f] = d /\ n \in Rows[f] \ Errors[f]
       /\ Named[n] = c \/ \E x \in Dates : <<n, x, c>> \in alias

(* SPECIFICATION.md: a completed batch stays completed.  Only a call that  *)
(* read its status before the confirmation committed takes it back.        *)
UncompletedOnlyByStale ==
  [][\A b \in Batches :
       Exists(b) /\ batch[b].status = "COMPLETED" /\ batch'[b].status # "COMPLETED" =>
         \E p \in Requests : /\ loc[p].id = b /\ pc'[p] = "off"
                             /\ pc[p] \in {"confirmWrite", "resolveStatus", "reparseStatus"}
                             /\ loc[p].seen \notin {"COMPLETED", None}]_vars

(* IMPORT_CTI.md: no automatic confirmation beside a batch of the day with *)
(* another SHA-256.  A bulk confirmation replaces rows of another content  *)
(* only if their batch came after the safety of its own was judged.        *)
BulkSparesKnown ==
  [][\A p \in Requests, k \in Dates \X Casts :
       LET old == batch[fact[k].batch].file
       IN pc[p] = "confirmWrite" /\ pc'[p] = "off" /\ loc[p].bulk # ""
            /\ fact'[k] # fact[k] /\ fact[k] # None
          => old = loc[p].file \/ fact[k].batch \notin loc[p].known]_vars

(* IMPORT_CTI.md: one transaction stores the rows of a file and its status.*)
(* All calls together implement CtiLedger, where previews, flags and the   *)
(* steps of a call are not seen, but what it read of its batch is: a batch *)
(* is imported in one step by a call that saw it open, and a call that     *)
(* writes a status leaves the batch as completed as it saw it.             *)
Ledger == INSTANCE CtiLedger WITH
            Callers <- Requests,
            Valid <- [f \in Files |-> Rows[f] \ Errors[f]],
            content <- [b \in Batches |-> IF Exists(b) THEN batch[b].file ELSE None],
            counted <- {b \in Batches : Exists(b) /\ batch[b].status = "COMPLETED"},
            on <- [p \in Requests |-> IF loc[p].seen = None THEN None ELSE loc[p].id],
            done <- {p \in Requests : loc[p].seen = "COMPLETED"}
LedgerSpec == Ledger!Spec
=============================================================================
