----------------------------- MODULE TownImport ------------------------------
(***************************************************************************)
(* The import of Town reports (src/lib/imports/town): upload, decisions    *)
(* about names, reparse, confirmation of all or of part of a preview.      *)
(* As in CtiImport a batch is a row of import_batches with a preview file  *)
(* beside it, a Request is one call, a step of it the work between two     *)
(* awaits, and what it read before is in loc.  The database part of a      *)
(* transaction is one step; but a decision writes the preview files inside *)
(* its transaction, and a file does not roll back with it (LinkTorn).      *)
(*                                                                         *)
(* There is one store and one day, casts are employed on it, no row has a  *)
(* value in error or another warning than a name without a cast, and each  *)
(* kind of report has one content, so that there are no corrections.  A    *)
(* landing page report is like a URL report, and a store report names      *)
(* nobody; media listings are left out, and with them what sets            *)
(* CAST_ONLY_HOLD_PARTIAL apart from the full confirmation.                *)
(* A definition commented "Slip" is the one below it with a plausible bug, *)
(* for the mutation runs.                                                  *)
(***************************************************************************)
CONSTANTS
  Casts, Names,
  Rows,        \* [Kinds -> SUBSET Names]
  Named,       \* [Names -> the cast of that display name, or None]
  IdNames,     \* the names of the form "ID:123"
  Batches,     \* ids: the bound on the batches created
  Requests,
  Skipped, None

Kinds     == {"CAST", "URL"}
Editable  == {"PREVIEW_READY", "WAITING_FOR_CAST_LINK"}
Completed == {"COMPLETED", "COMPLETED_WITH_WARNINGS"}
Status    == {"VALIDATING", "FAILED"} \cup Editable \cup Completed

(* A row of import_batches.  partial: metadata.importEvents tells of a     *)
(* confirmation that held unknown ids                                      *)
(* (TOWN_ID_NO_SOURCE_URL_HOLD_PARTIAL_CONFIRM).                           *)
Batch   == [kind: Kinds, status: Status, partial: BOOLEAN]
Preview == [Names -> Casts \cup {Skipped, None}]   \* None: UNMATCHED
Seen    == [status: Status, partial: BOOLEAN]       \* of a Batch that a call read

ASSUME TownAssumption ==
  /\ Rows \in [Kinds -> SUBSET Names]
  /\ Named \in [Names -> Casts \cup {None}]
  /\ IdNames \subseteq Names
  /\ Skipped \notin Casts \cup {None}
  /\ None \notin Casts \cup Names \cup Batches \cup Batch \cup Preview \cup Seen

VARIABLES
  batch,      \* [Batches -> the row of import_batches, or None]
  preview,    \* [Batches -> the file beside it, or None]
  open,       \* [Batches -> the names with an OPEN error UNMATCHED_CAST]
  alias,      \* [Names -> the cast of the store's alias, or None]
  castFact,   \* [Casts -> the row town_cast_daily holds of the cast, or None]
  urlFact,    \* [Names -> the row town_url_daily holds of the page, or None]
  pc, loc,    \* [Requests -> where the call is, and its local variables]
  confirmed,  \* history: the batches a person has confirmed
  aliased     \* history: <<name, cast>> the aliases have held, torn decisions too

facts == <<castFact, urlFact>>
ghost == <<confirmed, aliased>>
vars  == <<batch, preview, open, alias, facts, pc, loc, ghost>>

(* seen, rows: the batch rows and previews the call has in hand.           *)
Local == [id: Batches \cup {None}, name: Names \cup {None},
          choice: Casts \cup {Skipped, None}, mode: {"ALL", "ID"},
          seen: [Batches -> Seen \cup {None}], rows: [Batches -> Preview \cup {None}]]
Nothing == [b \in Batches |-> None]
Blank == [id |-> None, name |-> None, choice |-> None, mode |-> "ALL",
          seen |-> Nothing, rows |-> Nothing]

Labels == {"off", "analyze", "confirmPreview", "confirmWrite", "skip",
           "candidates", "link", "reparsePut", "reparseWrite"}

Init ==
  /\ batch = Nothing /\ preview = Nothing
  /\ open = [b \in Batches |-> {}]
  /\ alias = [n \in Names |-> None]
  /\ castFact = [c \in Casts |-> None] /\ urlFact = [n \in Names |-> None]
  /\ pc = [p \in Requests |-> "off"] /\ loc = [p \in Requests |-> Blank]
  /\ confirmed = {} /\ aliased = {}

-----------------------------------------------------------------------------
(* Helpers. *)

Goto(p, l, r) == pc' = [pc EXCEPT ![p] = l] /\ loc' = [loc EXCEPT ![p] = r]
Return(p) == Goto(p, "off", Blank)

Exists(b) == batch[b] # None
Seeing(b) == [status |-> batch[b].status, partial |-> batch[b].partial]
With(r, b) == [r EXCEPT !.id = b, !.seen[b] = Seeing(b)]

(* resolveTownPreviewRow of resolver.ts: the alias, else the display name. *)
Resolved(n) == IF alias[n] # None THEN alias[n] ELSE Named[n]

(* parseTownCsv and resolveTownPreviewRows. *)
Analysis(k) == [n \in Names |-> IF n \in Rows[k] THEN Resolved(n) ELSE None]

Unmatched(k, v) == {n \in Rows[k] : v[n] = None}

(* The status an analysis leaves: only rows of casts are worth waiting for. *)
Ready(k, v) == IF k = "CAST" /\ Unmatched(k, v) # {} THEN "WAITING_FOR_CAST_LINK"
                                                    ELSE "PREVIEW_READY"

(* The completed status: the only warnings are the names without a cast.   *)
CompletedWith(names) ==
  IF names # {} THEN "COMPLETED_WITH_WARNINGS" ELSE "COMPLETED"

(* eligible *)
Eligible(k, v) == {n \in Rows[k] : v[n] \in Casts \/ (k = "URL" /\ v[n] = None)}

(* assertIdNoSourceUrlPartial: but for unknown ids all casts are known.    *)
OnlyIdsHeld(k, s, v) ==
  /\ k = "CAST" /\ s = "WAITING_FOR_CAST_LINK"
  /\ Unmatched(k, v) # {} /\ Unmatched(k, v) \subseteq IdNames
  /\ \E n \in Rows[k] : v[n] \in Casts

-----------------------------------------------------------------------------
(* createTownPreview: the new row, then the analysis.  Nobody looks at a   *)
(* VALIDATING batch.  duplicateCompletedBatchId, noted here for the        *)
(* confirmation, is left out (see Confirm); preview, errors and status are *)
(* one step, as nobody sees them before the status.                        *)

Upload(p, k, b) ==
  /\ pc[p] = "off" /\ ~Exists(b)
  /\ batch' = [batch EXCEPT ![b] = [kind |-> k, status |-> "VALIDATING", partial |-> FALSE]]
  /\ Goto(p, "analyze", [Blank EXCEPT !.id = b])
  /\ UNCHANGED <<preview, open, alias, facts, ghost>>

(* Slip: the preview stays in memory. *)
AnalyzeUnsaved(p) ==
  LET b == loc[p].id  k == batch[b].kind
  IN /\ pc[p] = "analyze"
     /\ open' = [open EXCEPT ![b] = Unmatched(k, Analysis(k))]
     /\ batch' = [batch EXCEPT ![b].status = Ready(k, Analysis(k))]
     /\ Return(p)
     /\ UNCHANGED <<preview, alias, facts, ghost>>

Analyze(p) ==
  LET b == loc[p].id  k == batch[b].kind
  IN /\ pc[p] = "analyze"
     /\ preview' = [preview EXCEPT ![b] = Analysis(k)]
     /\ open' = [open EXCEPT ![b] = Unmatched(k, Analysis(k))]
     /\ batch' = [batch EXCEPT ![b].status = Ready(k, Analysis(k))]
     /\ Return(p)
     /\ UNCHANGED <<alias, facts, ghost>>

(* The catch. *)
CreateFails(p) ==
  /\ pc[p] = "analyze"
  /\ batch' = [batch EXCEPT ![loc[p].id].status = "FAILED"]
  /\ Return(p)
  /\ UNCHANGED <<preview, open, alias, facts, ghost>>

-----------------------------------------------------------------------------
(* confirmTownImport.  mode ALL: on the review page, where the             *)
(* administrator may set forceDuplicate, so that a duplicate noted at the  *)
(* upload stops nothing.  mode ID: ID_NO_SOURCE_URL_HOLD_PARTIAL, by       *)
(* processTownBulkFile, which leaves a content with a completed batch as   *)
(* it is now.                                                              *)

Confirm(p, b, mode) ==
  /\ pc[p] = "off" /\ Exists(b) /\ batch[b].status \in Editable
  /\ mode = "ID" => \A o \in Batches :
       Exists(o) /\ batch[o].kind = batch[b].kind => batch[o].status \notin Completed
  /\ Goto(p, "confirmPreview", With([Blank EXCEPT !.mode = mode], b))
  /\ UNCHANGED <<batch, preview, open, alias, facts, ghost>>

ConfirmPreview(p) ==
  LET b == loc[p].id  k == batch[b].kind  v == preview[b]
      ok == /\ Eligible(k, v) # {}
            /\ loc[p].mode = "ID" => OnlyIdsHeld(k, loc[p].seen[b].status, v)
  IN /\ pc[p] = "confirmPreview"
     /\ \/ ok /\ Goto(p, "confirmWrite", [loc[p] EXCEPT !.rows[b] = v])
        \/ ~ok /\ Return(p)
     /\ UNCHANGED <<batch, preview, open, alias, facts, ghost>>

(* The upserts of a report: of two rows of one cast the later is stored.   *)
Upsert(b, v) ==
  LET k == batch[b].kind
      rowsOf(c) == {n \in Eligible(k, v) : v[n] = c}
  IN \/ /\ k = "CAST"
        /\ castFact' \in [Casts -> {castFact[c] : c \in Casts}
                                     \cup {[batch |-> b, name |-> n] : n \in Names}]
        /\ \A c \in Casts : IF rowsOf(c) = {} THEN castFact'[c] = castFact[c]
                            ELSE \E n \in rowsOf(c) : castFact'[c] = [batch |-> b, name |-> n]
        /\ UNCHANGED urlFact
     \/ /\ k = "URL"
        /\ urlFact' = [n \in Names |-> IF n \in Eligible(k, v) THEN [batch |-> b, cast |-> v[n]]
                                                               ELSE urlFact[n]]
        /\ UNCHANGED castFact

(* The transaction.  Only mode ID looks at the status again, under its     *)
(* lock; the metadata are those read before, with one more event.          *)
ConfirmWrite(p) ==
  LET b == loc[p].id  k == batch[b].kind  v == loc[p].rows[b]
      id == loc[p].mode = "ID"
  IN /\ pc[p] = "confirmWrite"
     /\ id => OnlyIdsHeld(k, batch[b].status, v)
     /\ Upsert(b, v)
     /\ batch' = [batch EXCEPT ![b].status = CompletedWith(Unmatched(k, v)),
                               ![b].partial = loc[p].seen[b].partial \/ id]
     /\ confirmed' = confirmed \cup {b}
     /\ Return(p)
     /\ UNCHANGED <<preview, open, alias, aliased>>

(* The catch: also of mode ID, when the batch is no longer waiting. *)
ConfirmFails(p) ==
  /\ pc[p] = "confirmWrite"
  /\ batch' = [batch EXCEPT ![loc[p].id].status = "FAILED"]
  /\ Return(p)
  /\ UNCHANGED <<preview, open, alias, facts, ghost>>

-----------------------------------------------------------------------------
(* resolveTownPreviewRow of resolution-service.ts: a cast or SKIP for a    *)
(* row.  PENDING changes nothing.                                          *)

Resolvable == Editable \cup Completed

(* loadResolutionTarget: the batch, and the preview where n is pending. *)
Decide(p, b, n, c) ==
  /\ pc[p] = "off" /\ Exists(b)
  /\ batch[b].status \in Resolvable /\ n \in open[b] /\ preview[b][n] = None
  /\ Goto(p, IF c = Skipped THEN "skip" ELSE "candidates",
          [With(Blank, b) EXCEPT !.name = n, !.choice = c, !.rows[b] = preview[b]])
  /\ UNCHANGED <<batch, preview, open, alias, facts, ghost>>

(* Slip: a batch completed with warnings is treated like an open one. *)
RecountReady(s, k, v, o) ==
  IF s = "COMPLETED" THEN CompletedWith(o)
  ELSE IF Unmatched(k, v) \cap o # {} THEN "WAITING_FOR_CAST_LINK" ELSE "PREVIEW_READY"

(* recountBatch: the status after a decision, of the status s that was     *)
(* read, the new preview v and the names o whose error is still open.      *)
Recount(s, k, v, o) ==
  IF s \in Completed THEN CompletedWith(o)
  ELSE IF Unmatched(k, v) \cap o # {} THEN "WAITING_FOR_CAST_LINK" ELSE "PREVIEW_READY"

(* The rows of the batches in ks after a decision about name. *)
Settled(ks, name, seen, rows) ==
  [k \in Batches |->
     IF k \notin ks THEN batch[k]
     ELSE [batch[k] EXCEPT !.partial = seen[k].partial, !.status =
             Recount(seen[k].status, batch[k].kind, rows[k], open[k] \ {name})]]

Closed(ks, name) == [k \in Batches |-> IF k \in ks THEN open[k] \ {name} ELSE open[k]]

Skip(p) ==
  LET b == loc[p].id  n == loc[p].name
      v == [loc[p].rows EXCEPT ![b][n] = Skipped]
  IN /\ pc[p] = "skip"
     /\ preview' = [preview EXCEPT ![b] = v[b]]
     /\ batch' = Settled({b}, n, loc[p].seen, v)
     /\ open' = Closed({b}, n)
     /\ Return(p)
     /\ UNCHANGED <<alias, facts, ghost>>

(* The batches with the name open, b read again among them, and their      *)
(* previews, but for b's, which the call has; those where the row is no    *)
(* longer pending drop out.                                                *)
Candidates(p) ==
  LET r == loc[p]
      found == {b \in Batches : Exists(b) /\ batch[b].status \in Resolvable /\ r.name \in open[b]}
      file(b) == IF b = r.id THEN r.rows[b] ELSE preview[b]
      in(b) == b \in found /\ file(b)[r.name] = None
  IN /\ pc[p] = "candidates"
     /\ \/ r.id \notin found /\ Return(p)
        \/ /\ r.id \in found
           /\ Goto(p, "link", [r EXCEPT
                !.seen = [b \in Batches |-> IF in(b) THEN Seeing(b) ELSE None],
                !.rows = [b \in Batches |-> IF in(b) THEN file(b) ELSE None]])
     /\ UNCHANGED <<batch, preview, open, alias, facts, ghost>>

Chosen(r) == [b \in Batches |-> IF r.seen[b] = None THEN None
                                ELSE [r.rows[b] EXCEPT ![r.name] = r.choice]]

(* Slip: the row is stored whatever the status of its batch. *)
PersistedAlways(r) == {b \in Batches : r.seen[b] # None}

(* The batches that were completed when the call read them. *)
Persisted(r) == {b \in Batches : r.seen[b] # None /\ r.seen[b].status \in Completed}

(* Slip: the alias is left to the next analysis. *)
LinkUnaliased(p) ==
  LET r == loc[p]  v == Chosen(r)
      ks == {b \in Batches : r.seen[b] # None}
  IN /\ pc[p] = "link"
     /\ preview' = [b \in Batches |-> IF b \in ks THEN v[b] ELSE preview[b]]
     /\ batch' = Settled(ks, r.name, r.seen, v)
     /\ open' = Closed(ks, r.name)
     /\ Return(p)
     /\ UNCHANGED <<alias, facts, ghost>>

(* The transaction: the alias, re-pointed if it was there, and for every   *)
(* candidate its errors, its facts if it was completed (persistTownRow     *)
(* leaves a row of the same batch), its preview file and its row.          *)
Link(p) ==
  LET r == loc[p]  v == Chosen(r)
      ks == {b \in Batches : r.seen[b] # None}
      stored(k) == {b \in Persisted(r) : batch[b].kind = k}
      kept == \A b \in stored("CAST") : castFact[r.choice] # None /\ castFact[r.choice].batch = b
  IN /\ pc[p] = "link"
     /\ alias' = [alias EXCEPT ![r.name] = r.choice]
     /\ preview' = [b \in Batches |-> IF b \in ks THEN v[b] ELSE preview[b]]
     /\ batch' = Settled(ks, r.name, r.seen, v)
     /\ open' = Closed(ks, r.name)
     /\ \/ kept /\ UNCHANGED castFact
        \/ ~kept /\ \E b \in stored("CAST") :
             castFact' = [castFact EXCEPT ![r.choice] = [batch |-> b, name |-> r.name]]
     /\ \/ stored("URL") = {} /\ UNCHANGED urlFact
        \/ \E b \in stored("URL") :
             urlFact' = [urlFact EXCEPT ![r.name] = [batch |-> b, cast |-> r.choice]]
     /\ aliased' = aliased \cup {<<r.name, r.choice>>}
     /\ Return(p)
     /\ UNCHANGED confirmed

(* The transaction rolls back, by an error, its timeout or the end of the  *)
(* process, after some of the files were written.                          *)
LinkTorn(p) ==
  LET r == loc[p]  v == Chosen(r)
  IN /\ pc[p] \in {"link", "skip"}
     /\ \E ks \in SUBSET {b \in Batches : r.rows[b] # None} :
          /\ ks # {}
          /\ preview' = [b \in Batches |-> IF b \in ks THEN v[b] ELSE preview[b]]
     /\ aliased' = aliased \cup ({r.name} \X ({r.choice} \cap Casts))
     /\ Return(p)
     /\ UNCHANGED <<batch, open, alias, facts, confirmed>>

-----------------------------------------------------------------------------
(* reparseTownBatch, once at a time for a batch: the batch, and the file   *)
(* resolved by the casts and aliases there are, then the preview file.     *)

Reparse(p, b) ==
  /\ pc[p] = "off" /\ Exists(b)
  /\ batch[b].status \in {"FAILED", "COMPLETED_WITH_WARNINGS"} \cup Editable
  /\ \A q \in Requests : pc[q] \in {"reparsePut", "reparseWrite"} => loc[q].id # b
  /\ Goto(p, "reparsePut", [With(Blank, b) EXCEPT !.rows[b] = Analysis(batch[b].kind)])
  /\ UNCHANGED <<batch, preview, open, alias, facts, ghost>>

ReparsePut(p) ==
  LET b == loc[p].id
  IN /\ pc[p] = "reparsePut"
     /\ preview' = [preview EXCEPT ![b] = loc[p].rows[b]]
     /\ Goto(p, "reparseWrite", loc[p])
     /\ UNCHANGED <<batch, open, alias, facts, ghost>>

(* The status after a reparse: only the event of a confirmation that held  *)
(* unknown ids says that the batch was completed.                          *)
StatusAfter(partial, k, v) ==
  IF partial THEN CompletedWith(Unmatched(k, v)) ELSE Ready(k, v)

(* The transaction.  After a partial confirmation it stores the rows whose *)
(* cast has none yet.                                                      *)
ReparseWrite(p) ==
  LET b == loc[p].id  k == batch[b].kind  v == loc[p].rows[b]
      partial == loc[p].seen[b].partial
      missing(c) == {n \in Eligible(k, v) : v[n] = c /\ castFact[c] = None}
  IN /\ pc[p] = "reparseWrite"
     /\ open' = [open EXCEPT ![b] = Unmatched(k, v)]
     /\ batch' = [batch EXCEPT ![b].status = StatusAfter(partial, k, v), ![b].partial = partial]
     /\ \/ ~(partial /\ k = "CAST") /\ UNCHANGED castFact
        \/ /\ partial /\ k = "CAST"
           /\ \E first \in [Casts -> Names] :
                /\ \A c \in Casts : missing(c) # {} => first[c] \in missing(c)
                /\ castFact' = [c \in Casts |-> IF missing(c) # {}
                                  THEN [batch |-> b, name |-> first[c]] ELSE castFact[c]]
     /\ Return(p)
     /\ UNCHANGED <<preview, alias, urlFact, ghost>>

-----------------------------------------------------------------------------
(* An await fails outside of a catch, or the process dies.  Elsewhere the  *)
(* call has written nothing, and ends as if it had never been made.        *)
Abort(p) ==
  /\ pc[p] \in {"analyze", "reparseWrite"}
  /\ Return(p)
  /\ UNCHANGED <<batch, preview, open, alias, facts, ghost>>

Start(p) ==
  \/ \E k \in Kinds, b \in Batches : Upload(p, k, b)
  \/ \E b \in Batches, mode \in {"ALL", "ID"} : Confirm(p, b, mode)
  \/ \E b \in Batches, n \in Names, c \in Casts \cup {Skipped} : Decide(p, b, n, c)
  \/ \E b \in Batches : Reparse(p, b)

Work(p) ==
  \/ Analyze(p) \/ CreateFails(p)
  \/ ConfirmPreview(p) \/ ConfirmWrite(p) \/ ConfirmFails(p)
  \/ Skip(p) \/ Candidates(p) \/ Link(p) \/ LinkTorn(p)
  \/ ReparsePut(p) \/ ReparseWrite(p)

Next == \E p \in Requests : Start(p) \/ Work(p) \/ Abort(p)

Spec == Init /\ [][Next]_vars

-----------------------------------------------------------------------------
(* Properties. *)

(* Types, and that a batch is offered for decisions and confirmation only  *)
(* with a preview, whichever writers of its status race.                   *)
TypeOK ==
  /\ batch \in [Batches -> Batch \cup {None}]
  /\ preview \in [Batches -> Preview \cup {None}]
  /\ open \in [Batches -> SUBSET Names]
  /\ alias \in [Names -> Casts \cup {None}]
  /\ castFact \in [Casts -> [batch: Batches, name: Names] \cup {None}]
  /\ urlFact \in [Names -> [batch: Batches, cast: Casts \cup {None}] \cup {None}]
  /\ pc \in [Requests -> Labels]
  /\ loc \in [Requests -> Local]
  /\ confirmed \subseteq Batches
  /\ aliased \subseteq Names \X Casts
  /\ \A b \in Batches : Exists(b) /\ batch[b].status \in Resolvable => preview[b] # None

(* IMPORT_TOWN.md: nothing of an unconfirmed batch is stored.  The writers *)
(* trust a status or an event they read before, so this says that none of  *)
(* them, stale as it may be, is there without a confirmation.              *)
StoredWasConfirmed ==
  /\ \A c \in Casts : castFact[c] # None => castFact[c].batch \in confirmed
  /\ \A n \in Names : urlFact[n] # None => urlFact[n].batch \in confirmed

(* What is stored under a cast has the cast's display name, or the alias   *)
(* of the name was the cast once: a preview written before a decision, or  *)
(* by one whose transaction rolled back, is confirmed and resolved later.  *)
StoredIsLinked ==
  LET Linked(n, c) == Named[n] = c \/ <<n, c>> \in aliased
  IN /\ \A c \in Casts : castFact[c] # None => Linked(castFact[c].name, c)
     /\ \A n \in Names : urlFact[n] # None /\ urlFact[n].cast # None
                           => Linked(n, urlFact[n].cast)

(* SPECIFICATION.md: a batch completed in part stays completed.  It is     *)
(* taken back only by a call that read its status before the confirmation, *)
(* and by a reparse that read no event of held ids.                        *)
UncompletedOnlyByStale ==
  [][\A b \in Batches :
       Exists(b) /\ batch[b].status \in Completed /\ batch'[b].status \notin Completed =>
         \E p \in Requests :
           /\ pc[p] # "off" /\ pc'[p] = "off" /\ loc[p].seen[b] # None
           /\ \/ loc[p].seen[b].status \notin Completed
              \/ pc[p] = "reparseWrite" /\ ~loc[p].seen[b].partial]_vars

-----------------------------------------------------------------------------
(* What a document says of the import and the code does not do.            *)

(* API.md: the reparse of a completed batch is refused; SPECIFICATION.md:  *)
(* a batch completed in part is never a preview again.                     *)
ReparseKeepsCompleted ==
  [][\A p \in Requests :
       LET b == loc[p].id
       IN pc[p] = "reparseWrite" /\ pc'[p] # pc[p] /\ loc[p].seen[b].status \in Completed
            /\ batch[b].status \in Completed => batch'[b].status \in Completed]_vars
=============================================================================
