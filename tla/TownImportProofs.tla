-------------------------- MODULE TownImportProofs --------------------------
(***************************************************************************)
(* For any number of batches, names, casts and concurrent calls: nothing   *)
(* of an unconfirmed batch is stored, what is stored under a cast is       *)
(* linked to the cast, and a completed batch is taken back only by a call  *)
(* with a stale status or by a reparse.  As in CtiImportProofs the         *)
(* argument rests on what only grows: the batches, the previews once       *)
(* written, the confirmations and the aliases there ever were.             *)
(***************************************************************************)
EXTENDS TownImport, TLAPS

-----------------------------------------------------------------------------
(* What a call still knows. *)

Linked(n, c) == Named[n] = c \/ <<n, c>> \in aliased
LinkedRows(v) == \A n \in Names : v[n] \in Casts => Linked(n, v[n])

(* A status or an event that tells of a confirmation.                      *)
Tells(s) == s.status \in Completed \/ s.partial

SeenOf(p) ==
  \A b \in Batches : loc[p].seen[b] # None =>
    /\ Exists(b)
    /\ Tells(loc[p].seen[b]) => b \in confirmed
    /\ pc[p] # "reparsePut" => preview[b] # None

RowsOf(p) == \A b \in Batches : loc[p].rows[b] # None => LinkedRows(loc[p].rows[b])

HandOf(p) ==
  /\ pc[p] = "off" => loc[p] = Blank
  /\ pc[p] # "off" => loc[p].id \in Batches /\ Exists(loc[p].id)
  /\ pc[p] \notin {"off", "analyze", "link"} => loc[p].seen[loc[p].id] # None
  /\ pc[p] \notin {"off", "analyze", "link", "confirmPreview"} => loc[p].rows[loc[p].id] # None

StepOf(p) ==
  /\ pc[p] \in {"confirmPreview", "confirmWrite"} => loc[p].seen[loc[p].id].status \in Editable
  /\ pc[p] \in {"skip", "candidates", "link"} => loc[p].name \in Names
  /\ pc[p] = "skip" => loc[p].choice = Skipped
  /\ pc[p] \in {"candidates", "link"} => loc[p].choice \in Casts
  /\ pc[p] \in {"skip", "link"} =>
       \A b \in Batches : loc[p].rows[b] # None <=> loc[p].seen[b] # None
  /\ pc[p] = "reparsePut" => \A b \in Batches : loc[p].seen[b] # None => b = loc[p].id

(* The creator of a batch is alone with it until its status is written. *)
OwnerOf(p) ==
  pc[p] = "analyze" =>
    /\ batch[loc[p].id].status = "VALIDATING"
    /\ \A q \in Requests \ {p} : loc[q].id # loc[p].id /\ loc[q].seen[loc[p].id] = None

CallOK(p) == SeenOf(p) /\ RowsOf(p) /\ HandOf(p) /\ StepOf(p) /\ OwnerOf(p)

BatchOK(b) ==
  /\ Exists(b) /\ Tells(batch[b]) => b \in confirmed
  /\ preview[b] # None => LinkedRows(preview[b])

AliasOK(n) == alias[n] # None => <<n, alias[n]>> \in aliased

CastOK(c) == castFact[c] # None => castFact[c].batch \in confirmed /\ Linked(castFact[c].name, c)

UrlOK(n) ==
  urlFact[n] # None => /\ urlFact[n].batch \in confirmed
                       /\ urlFact[n].cast # None => Linked(n, urlFact[n].cast)

Inv ==
  /\ TypeOK
  /\ \A p \in Requests : CallOK(p)
  /\ \A b \in Batches : BatchOK(b)
  /\ \A n \in Names : AliasOK(n) /\ UrlOK(n)
  /\ \A c \in Casts : CastOK(c)

LEMMA BlankOK ==
  /\ Blank \in Local /\ Blank.id = None
  /\ \A b \in Batches : Blank.seen[b] = None /\ Blank.rows[b] = None
BY DEF Blank, Local, Nothing

LEMMA InvInit == Init => Inv
<1> SUFFICES ASSUME Init PROVE Inv
  OBVIOUS
<1>1. TypeOK
  BY BlankOK DEF Init, TypeOK, Labels, Exists, Nothing
<1>2. ASSUME NEW p \in Requests PROVE CallOK(p)
  BY BlankOK DEF Init, CallOK, SeenOf, RowsOf, HandOf, StepOf, OwnerOf
<1>3. \A b \in Batches : BatchOK(b)
  BY DEF Init, BatchOK, Exists, Nothing
<1>4. (\A n \in Names : AliasOK(n) /\ UrlOK(n)) /\ (\A c \in Casts : CastOK(c))
  BY DEF Init, AliasOK, UrlOK, CastOK
<1> QED
  BY <1>1, <1>2, <1>3, <1>4 DEF Inv

-----------------------------------------------------------------------------
(* What a step of p leaves the other calls. *)

Grows ==
  /\ aliased \subseteq aliased' /\ confirmed \subseteq confirmed'
  /\ \A b \in Batches : /\ Exists(b) => Exists(b)'
                        /\ preview[b] # None => preview'[b] # None

Apart(p) ==
  \A q \in Requests \ {p} :
    /\ pc'[q] = pc[q] /\ loc'[q] = loc[q]
    /\ pc[q] = "analyze" => /\ batch'[loc[q].id].status = batch[loc[q].id].status
                            /\ loc'[p].id # loc[q].id
                            /\ loc'[p].seen[loc[q].id] = None

LEMMA RowsStay ==
  ASSUME aliased \subseteq aliased', NEW v, LinkedRows(v)
  PROVE  LinkedRows(v)'
BY DEF LinkedRows, Linked

LEMMA OthersKeep ==
  ASSUME Inv, Grows, NEW p \in Requests, Apart(p), NEW q \in Requests \ {p}
  PROVE  CallOK(q)'
<1>1. CallOK(q) /\ pc'[q] = pc[q] /\ loc'[q] = loc[q]
  BY DEF Inv, Apart
<1>2. SeenOf(q)'
  BY <1>1 DEF CallOK, SeenOf, Grows
<1>3. RowsOf(q)'
  BY <1>1 DEF CallOK, RowsOf, LinkedRows, Linked, Grows
<1>4. HandOf(q)' /\ StepOf(q)'
  BY <1>1 DEF CallOK, HandOf, StepOf, Grows
<1>5. OwnerOf(q)'
  <2>1. ASSUME NEW r \in Requests \ {q}, pc[q] = "analyze"
        PROVE  loc'[r].id # loc'[q].id /\ loc'[r].seen[loc'[q].id] = None
    BY <1>1, <2>1 DEF CallOK, OwnerOf, Apart
  <2> QED
    BY <1>1, <2>1 DEF CallOK, OwnerOf, Apart
<1> QED
  BY <1>2, <1>3, <1>4, <1>5 DEF CallOK

(* A step that keeps what it must of the batches and of what is stored. *)
LEMMA Keep ==
  ASSUME Inv, TypeOK', Grows, NEW p \in Requests, Apart(p), CallOK(p)',
         \A b \in Batches : batch'[b] # batch[b] /\ Exists(b)' /\ Tells(batch'[b])
                              => b \in confirmed',
         \A b \in Batches : preview'[b] # preview[b] => LinkedRows(preview[b])',
         \A n \in Names : alias'[n] # alias[n] => AliasOK(n)',
         \A n \in Names : urlFact'[n] # urlFact[n] => UrlOK(n)',
         \A c \in Casts : castFact'[c] # castFact[c] => CastOK(c)'
  PROVE  Inv'
<1>1. \A q \in Requests : CallOK(q)'
  BY OthersKeep
<1>2. ASSUME NEW b \in Batches PROVE BatchOK(b)'
  <2>1. BatchOK(b)
    BY DEF Inv
  <2>2. (Exists(b) /\ Tells(batch[b]) => b \in confirmed)'
    BY <2>1 DEF BatchOK, Grows, Exists, Tells
  <2>3. (preview[b] # None => LinkedRows(preview[b]))'
    BY <2>1 DEF BatchOK, Grows, LinkedRows, Linked
  <2> QED
    BY <2>2, <2>3 DEF BatchOK
<1>3. ASSUME NEW n \in Names PROVE AliasOK(n)' /\ UrlOK(n)'
  <2>1. AliasOK(n) /\ UrlOK(n)
    BY DEF Inv
  <2>2. AliasOK(n)'
    BY <2>1 DEF AliasOK, Grows
  <2>3. UrlOK(n)'
    BY <2>1 DEF UrlOK, Linked, Grows
  <2> QED
    BY <2>2, <2>3
<1>4. ASSUME NEW c \in Casts PROVE CastOK(c)'
  BY DEF Inv, CastOK, Linked, Grows
<1> QED
  BY <1>1, <1>2, <1>3, <1>4 DEF Inv

(* The part of a step that is about the call itself. *)
Steps(p) ==
  /\ pc' = [pc EXCEPT ![p] = pc'[p]] /\ pc'[p] \in Labels
  /\ loc' = [loc EXCEPT ![p] = loc'[p]] /\ loc'[p] \in Local

LEMMA GotoSteps ==
  ASSUME TypeOK, NEW p \in Requests, NEW l \in Labels, NEW r \in Local, Goto(p, l, r)
  PROVE  Steps(p) /\ pc'[p] = l /\ loc'[p] = r
BY DEF TypeOK, Goto, Steps

LEMMA ReturnSteps ==
  ASSUME TypeOK, NEW p \in Requests, Return(p)
  PROVE  Steps(p) /\ pc'[p] = "off" /\ loc'[p] = Blank
BY GotoSteps, BlankOK DEF Return, Labels

(* A call that has returned knows nothing.                                 *)
LEMMA ReturnOK ==
  ASSUME NEW p \in Requests, pc'[p] = "off", loc'[p] = Blank
  PROVE  CallOK(p)'
BY BlankOK DEF CallOK, SeenOf, RowsOf, HandOf, StepOf, OwnerOf

(* A batch that another call is creating. *)
LEMMA NotCreated ==
  ASSUME Inv, NEW p \in Requests, NEW q \in Requests \ {p}, pc[q] = "analyze"
  PROVE  /\ batch[loc[q].id].status = "VALIDATING"
         /\ loc[p].id # loc[q].id /\ loc[p].seen[loc[q].id] = None
         /\ loc[q].id \in Batches /\ loc[q].id # None /\ Exists(loc[q].id)
BY TownAssumption DEF Inv, CallOK, OwnerOf, HandOf

-----------------------------------------------------------------------------
(* Steps that only move the call on.                                       *)

data == <<batch, preview, open, alias, facts, ghost>>

(* The call takes no batch in hand that another is creating.               *)
Avoids(p) ==
  \A q \in Requests \ {p} : pc[q] = "analyze" =>
    loc'[p].id # loc[q].id /\ loc'[p].seen[loc[q].id] = None

LEMMA MoveKeeps ==
  ASSUME Inv, NEW p \in Requests, UNCHANGED data, Steps(p), Avoids(p), CallOK(p)'
  PROVE  Inv'
<1>1. TypeOK'
  BY DEF Inv, TypeOK, Steps, data, facts, ghost, Exists
<1>2. Grows
  BY DEF Grows, data, ghost, Exists
<1>3. Apart(p)
  BY DEF Inv, TypeOK, Apart, Steps, Avoids, data
<1>4. UNCHANGED <<batch, preview, alias, urlFact, castFact>>
  BY DEF data, facts
<1> QED
  BY <1>1, <1>2, <1>3, <1>4, Keep

LEMMA ReturnKeeps ==
  ASSUME Inv, NEW p \in Requests, Return(p), UNCHANGED data
  PROVE  Inv'
<1>1. Steps(p) /\ pc'[p] = "off" /\ loc'[p] = Blank
  BY ReturnSteps DEF Inv
<1>2. Avoids(p)
  BY <1>1, BlankOK, NotCreated DEF Avoids
<1> QED
  BY <1>1, <1>2, ReturnOK, MoveKeeps

LEMMA SeeingOK ==
  ASSUME Inv, NEW b \in Batches, Exists(b)
  PROVE  /\ Seeing(b) \in Seen /\ Seeing(b) # None
         /\ Seeing(b).status = batch[b].status /\ Seeing(b).partial = batch[b].partial
         /\ Tells(Seeing(b)) => b \in confirmed
<1>1. batch[b] \in Batch
  BY DEF Inv, TypeOK, Exists
<1>2. Seeing(b) \in Seen /\ Seeing(b).status = batch[b].status
      /\ Seeing(b).partial = batch[b].partial
  BY <1>1 DEF Seeing, Seen, Batch
<1> QED
  BY <1>2, TownAssumption DEF Inv, BatchOK, Tells

LEMMA WithOK ==
  ASSUME Inv, NEW r \in Local, NEW b \in Batches, Exists(b)
  PROVE  /\ With(r, b) \in Local
         /\ With(r, b).id = b /\ With(r, b).rows = r.rows /\ With(r, b).mode = r.mode
         /\ With(r, b).seen = [r.seen EXCEPT ![b] = Seeing(b)]
         /\ With(r, b).seen[b] = Seeing(b)
         /\ \A o \in Batches : o # b => With(r, b).seen[o] = r.seen[o]
<1>1. Seeing(b) \in Seen
  BY SeeingOK
<1>2. r.seen \in [Batches -> Seen \cup {None}]
  BY DEF Local
<1>3. /\ With(r, b).id = b /\ With(r, b).rows = r.rows /\ With(r, b).mode = r.mode
      /\ With(r, b).seen = [r.seen EXCEPT ![b] = Seeing(b)]
  BY DEF With, Local
<1>4. With(r, b) \in Local
  BY <1>1, <1>2 DEF With, Local
<1> QED
  BY <1>2, <1>3, <1>4

(* A call that begins with a batch nobody is creating.                     *)
LEMMA BeginKeeps ==
  ASSUME Inv, NEW p \in Requests, NEW b \in Batches, Exists(b), batch[b].status # "VALIDATING",
         UNCHANGED data, Steps(p), CallOK(p)', loc'[p].id = b,
         \A o \in Batches : o # b => loc'[p].seen[o] = None
  PROVE  Inv'
<1>1. Avoids(p)
  BY NotCreated DEF Avoids
<1> QED
  BY <1>1, MoveKeeps

LEMMA ConfirmKeeps ==
  ASSUME Inv, NEW p \in Requests, NEW b \in Batches, NEW mode \in {"ALL", "ID"},
         Confirm(p, b, mode)
  PROVE  Inv'
<1> DEFINE blank == [Blank EXCEPT !.mode = mode]
           r == With(blank, b)
<1>1. blank \in Local /\ blank.seen = Blank.seen /\ blank.rows = Blank.rows
  BY BlankOK DEF Local
<1>3. Exists(b) /\ batch[b].status \in Editable /\ Goto(p, "confirmPreview", r) /\ UNCHANGED data
  BY DEF Confirm, data
<1> HIDE DEF blank
<1>4. /\ r \in Local /\ r.id = b /\ r.rows = Blank.rows /\ r.seen[b] = Seeing(b)
      /\ \A o \in Batches : o # b => r.seen[o] = None
  <2> blank \in Local /\ Inv /\ b \in Batches /\ Exists(b)
    BY <1>1, <1>3
  <2>1. /\ With(blank, b) \in Local /\ With(blank, b).id = b
        /\ With(blank, b).rows = blank.rows /\ With(blank, b).seen[b] = Seeing(b)
        /\ \A o \in Batches : o # b => With(blank, b).seen[o] = blank.seen[o]
    BY WithOK
  <2> QED
    BY <1>1, <2>1, BlankOK
<1> HIDE DEF r
<1>5. Steps(p) /\ pc'[p] = "confirmPreview" /\ loc'[p] = r
  BY <1>3, <1>4, GotoSteps DEF Inv, Labels
<1>6. preview[b] # None
  BY <1>3 DEF Inv, TypeOK, Resolvable
<1>7. SeenOf(p)'
  BY <1>3, <1>4, <1>5, <1>6, SeeingOK DEF SeenOf, Exists, data, ghost, Tells
<1>8. RowsOf(p)' /\ OwnerOf(p)'
  BY <1>4, <1>5, BlankOK DEF RowsOf, OwnerOf
<1>9. HandOf(p)' /\ StepOf(p)'
  BY <1>3, <1>4, <1>5, SeeingOK DEF HandOf, StepOf, Exists, data
<1> QED
  BY <1>3, <1>4, <1>5, <1>7, <1>8, <1>9, BeginKeeps DEF CallOK, Editable

LEMMA ConfirmPreviewKeeps ==
  ASSUME Inv, NEW p \in Requests, ConfirmPreview(p)
  PROVE  Inv'
<1> DEFINE b == loc[p].id  v == preview[b]
           r == [loc[p] EXCEPT !.rows[b] = v]
<1>1. CallOK(p) /\ loc[p] \in Local /\ pc[p] = "confirmPreview" /\ TypeOK
      /\ b \in Batches /\ Exists(b) /\ loc[p].seen[b] # None
  BY DEF Inv, TypeOK, ConfirmPreview, CallOK, HandOf
<1>2. v # None /\ v \in Preview /\ LinkedRows(v)
  BY <1>1 DEF Inv, TypeOK, CallOK, SeenOf, BatchOK
<1>3. UNCHANGED data /\ (Return(p) \/ Goto(p, "confirmWrite", r))
  BY DEF ConfirmPreview, data
<1>4. CASE Return(p)
  BY <1>3, <1>4, ReturnKeeps
<1>5. CASE Goto(p, "confirmWrite", r)
  <2>1. /\ r \in Local /\ r.id = b /\ r.seen = loc[p].seen
        /\ r.rows = [loc[p].rows EXCEPT ![b] = v] /\ loc[p].rows \in [Batches -> Preview \cup {None}]
    BY <1>1, <1>2 DEF Local
  <2> HIDE DEF r
  <2>2. Steps(p) /\ pc'[p] = "confirmWrite" /\ loc'[p] = r
    BY <1>1, <1>5, <2>1, GotoSteps DEF Labels
  <2>3. r.rows[b] = v /\ \A o \in Batches : o # b => r.rows[o] = loc[p].rows[o]
    BY <1>1, <2>1
  <2> HIDE DEF v
  <2>4. SeenOf(p)'
    BY <1>1, <1>3, <2>1, <2>2 DEF CallOK, SeenOf, Exists, data, ghost
  <2>5. RowsOf(p)'
    BY <1>1, <1>2, <1>3, <2>2, <2>3 DEF CallOK, RowsOf, LinkedRows, Linked, data, ghost
  <2>6. HandOf(p)' /\ StepOf(p)' /\ OwnerOf(p)'
    BY <1>1, <1>2, <1>3, <2>1, <2>2, <2>3 DEF CallOK, HandOf, StepOf, OwnerOf, Exists, data
  <2>7. Avoids(p)
    BY <2>1, <2>2, NotCreated DEF Avoids
  <2> QED
    BY <1>3, <2>2, <2>4, <2>5, <2>6, <2>7, MoveKeeps DEF CallOK
<1> QED
  BY <1>3, <1>4, <1>5

LEMMA AnalysisOK ==
  ASSUME Inv, NEW k
  PROVE  /\ Analysis(k) \in Preview /\ Analysis(k) # None /\ LinkedRows(Analysis(k))
<1>1. \A n \in Names : Resolved(n) \in Casts \cup {None}
  BY TownAssumption DEF Inv, TypeOK, Resolved
<1>2. Analysis(k) \in Preview
  BY <1>1 DEF Analysis, Preview
<1>3. \A n \in Names : Resolved(n) \in Casts => Linked(n, Resolved(n))
  BY TownAssumption DEF Inv, AliasOK, Resolved, Linked
<1>4. \A n \in Names : Analysis(k)[n] \in {Resolved(n), None}
  BY DEF Analysis
<1> QED
  BY <1>2, <1>3, <1>4, TownAssumption DEF LinkedRows

LEMMA DecideKeeps ==
  ASSUME Inv, NEW p \in Requests, NEW b \in Batches, NEW n \in Names,
         NEW c \in Casts \cup {Skipped}, Decide(p, b, n, c)
  PROVE  Inv'
<1> DEFINE seen == With(Blank, b)
           r == [seen EXCEPT !.name = n, !.choice = c, !.rows[b] = preview[b]]
           l == IF c = Skipped THEN "skip" ELSE "candidates"
<1>1. Exists(b) /\ batch[b].status \in Resolvable /\ Goto(p, l, r) /\ UNCHANGED data
  BY DEF Decide, data
<1>2. preview[b] # None /\ preview[b] \in Preview /\ LinkedRows(preview[b])
  BY <1>1 DEF Inv, TypeOK, BatchOK
<1>3. /\ seen \in Local /\ seen.id = b /\ seen.rows = Blank.rows /\ seen.seen[b] = Seeing(b)
      /\ \A o \in Batches : o # b => seen.seen[o] = None
  <2> Blank \in Local /\ Inv /\ b \in Batches /\ Exists(b)
    BY <1>1, BlankOK
  <2>1. /\ With(Blank, b) \in Local /\ With(Blank, b).id = b
        /\ With(Blank, b).rows = Blank.rows /\ With(Blank, b).seen[b] = Seeing(b)
        /\ \A o \in Batches : o # b => With(Blank, b).seen[o] = Blank.seen[o]
    BY WithOK
  <2> QED
    BY <2>1, BlankOK
<1>4. Blank.rows \in [Batches -> Preview \cup {None}]
  BY BlankOK DEF Local
<1> HIDE DEF seen, l
<1>5. /\ r \in Local /\ r.id = b /\ r.seen = seen.seen /\ r.name = n /\ r.choice = c
      /\ r.rows = [Blank.rows EXCEPT ![b] = preview[b]]
  BY <1>2, <1>3, <1>4 DEF Local
<1> HIDE DEF r
<1>6. r.rows[b] = preview[b] /\ \A o \in Batches : o # b => r.rows[o] = None
  BY <1>4, <1>5, BlankOK
<1>7. l \in Labels /\ l \in {"skip", "candidates"} /\ (l = "skip" <=> c = Skipped)
  BY DEF l, Labels
<1>8. Steps(p) /\ pc'[p] = l /\ loc'[p] = r
  BY <1>1, <1>5, <1>7, GotoSteps DEF Inv
<1>9. SeenOf(p)'
  BY <1>1, <1>2, <1>3, <1>5, <1>7, <1>8, SeeingOK DEF SeenOf, Exists, data, ghost, Tells
<1>10. RowsOf(p)'
  BY <1>1, <1>2, <1>6, <1>8 DEF RowsOf, LinkedRows, Linked, data, ghost
<1>11. OwnerOf(p)' /\ HandOf(p)'
  <2>1. Seeing(b) # None
    BY <1>1, SeeingOK
  <2> QED
    BY <1>1, <1>2, <1>3, <1>5, <1>6, <1>7, <1>8, <2>1 DEF OwnerOf, HandOf, Exists, data
<1>12. StepOf(p)'
  <2>1. Seeing(b) # None
    BY <1>1, SeeingOK
  <2> QED
    BY <1>2, <1>3, <1>5, <1>6, <1>7, <1>8, <2>1 DEF StepOf
<1>13. batch[b].status # "VALIDATING"
  BY <1>1 DEF Resolvable, Editable, Completed
<1> QED
  BY <1>1, <1>3, <1>5, <1>8, <1>9, <1>10, <1>11, <1>12, <1>13, BeginKeeps DEF CallOK

LEMMA ReparseKeeps ==
  ASSUME Inv, NEW p \in Requests, NEW b \in Batches, Reparse(p, b)
  PROVE  Inv'
<1> DEFINE seen == With(Blank, b)
           v == Analysis(batch[b].kind)
           r == [seen EXCEPT !.rows[b] = v]
<1>1. /\ Exists(b) /\ batch[b].status # "VALIDATING" /\ Goto(p, "reparsePut", r)
      /\ UNCHANGED data
  BY DEF Reparse, data, Editable
<1>2. v # None /\ v \in Preview /\ LinkedRows(v)
  BY <1>1, AnalysisOK
<1>3. /\ seen \in Local /\ seen.id = b /\ seen.rows = Blank.rows /\ seen.seen[b] = Seeing(b)
      /\ \A o \in Batches : o # b => seen.seen[o] = None
  <2> Blank \in Local /\ Inv /\ b \in Batches /\ Exists(b)
    BY <1>1, BlankOK
  <2>1. /\ With(Blank, b) \in Local /\ With(Blank, b).id = b
        /\ With(Blank, b).rows = Blank.rows /\ With(Blank, b).seen[b] = Seeing(b)
        /\ \A o \in Batches : o # b => With(Blank, b).seen[o] = Blank.seen[o]
    BY WithOK
  <2> QED
    BY <2>1, BlankOK
<1>4. Blank.rows \in [Batches -> Preview \cup {None}]
  BY BlankOK DEF Local
<1> HIDE DEF seen, v
<1>5. /\ r \in Local /\ r.id = b /\ r.seen = seen.seen
      /\ r.rows = [Blank.rows EXCEPT ![b] = v]
  BY <1>2, <1>3, <1>4 DEF Local
<1> HIDE DEF r
<1>6. r.rows[b] = v /\ \A o \in Batches : o # b => r.rows[o] = None
  BY <1>4, <1>5, BlankOK
<1>7. Steps(p) /\ pc'[p] = "reparsePut" /\ loc'[p] = r
  BY <1>1, <1>5, GotoSteps DEF Inv, Labels
<1>8. SeenOf(p)'
  BY <1>1, <1>3, <1>5, <1>7, SeeingOK DEF SeenOf, Exists, data, ghost, Tells
<1>9. RowsOf(p)'
  BY <1>1, <1>2, <1>6, <1>7 DEF RowsOf, LinkedRows, Linked, data, ghost
<1>10. OwnerOf(p)' /\ StepOf(p)'
  BY <1>3, <1>5, <1>7 DEF OwnerOf, StepOf
<1>11. Seeing(b) # None
  BY <1>1, SeeingOK
<1>12. HandOf(p)'
  BY <1>1, <1>2, <1>3, <1>5, <1>6, <1>7, <1>11 DEF HandOf, Exists, data
<1> QED
  BY <1>1, <1>3, <1>5, <1>7, <1>8, <1>9, <1>10, <1>12, BeginKeeps DEF CallOK

(* The batches and previews a decision goes on with.                       *)
LEMMA CandidatesKeeps ==
  ASSUME Inv, NEW p \in Requests, Candidates(p)
  PROVE  Inv'
<1> DEFINE b == loc[p].id
           found == {o \in Batches : /\ Exists(o) /\ batch[o].status \in Resolvable
                                     /\ loc[p].name \in open[o]}
           file(o) == IF o = b THEN loc[p].rows[o] ELSE preview[o]
           in(o) == o \in found /\ file(o)[loc[p].name] = None
           seen == [o \in Batches |-> IF in(o) THEN Seeing(o) ELSE None]
           rows == [o \in Batches |-> IF in(o) THEN file(o) ELSE None]
           r == [loc[p] EXCEPT !.seen = seen, !.rows = rows]
<1>1. CallOK(p) /\ loc[p] \in Local /\ pc[p] = "candidates" /\ TypeOK
      /\ b \in Batches /\ Exists(b) /\ loc[p].rows[b] # None
      /\ loc[p].name \in Names /\ loc[p].choice \in Casts
  BY DEF Inv, TypeOK, Candidates, CallOK, HandOf, StepOf
<1>2. UNCHANGED data /\ (Return(p) \/ Goto(p, "link", r))
  BY DEF Candidates, data
<1>3. CASE Return(p)
  BY <1>2, <1>3, ReturnKeeps
<1>4. CASE Goto(p, "link", r)
  <2>1. \A o \in found : Exists(o) /\ preview[o] # None /\ batch[o].status # "VALIDATING"
    BY <1>1 DEF TypeOK, Resolvable, Editable, Completed
  <2>2. \A o \in found : file(o) # None /\ file(o) \in Preview /\ LinkedRows(file(o))
    <3>1. \A o \in found : o # b => preview[o] \in Preview /\ LinkedRows(preview[o])
      BY <1>1, <2>1 DEF Inv, TypeOK, BatchOK
    <3>2. loc[p].rows[b] \in Preview /\ LinkedRows(loc[p].rows[b])
      BY <1>1 DEF Local, CallOK, RowsOf
    <3> QED
      BY <1>1, <2>1, <3>1, <3>2
  <2>3. \A o \in found : Seeing(o) \in Seen /\ Seeing(o) # None
                         /\ (Tells(Seeing(o)) => o \in confirmed)
    BY <2>1, SeeingOK
  <2> HIDE DEF file
  <2>4. \A o \in Batches : in(o) => o \in found
    OBVIOUS
  <2> HIDE DEF found, in
  <2>5. /\ seen \in [Batches -> Seen \cup {None}] /\ rows \in [Batches -> Preview \cup {None}]
        /\ \A o \in Batches : seen[o] # None <=> rows[o] # None
        /\ \A o \in Batches : seen[o] # None =>
             /\ Exists(o) /\ preview[o] # None /\ batch[o].status # "VALIDATING"
             /\ Tells(seen[o]) => o \in confirmed
             /\ LinkedRows(rows[o])
    BY <2>1, <2>2, <2>3, <2>4
  <2> HIDE DEF seen, rows
  <2>6. /\ r \in Local /\ r.id = b /\ r.seen = seen /\ r.rows = rows
        /\ r.name = loc[p].name /\ r.choice = loc[p].choice
    BY <1>1, <2>5 DEF Local
  <2> HIDE DEF r
  <2>7. Steps(p) /\ pc'[p] = "link" /\ loc'[p] = r
    BY <1>1, <1>4, <2>6, GotoSteps DEF Labels
  <2>8. SeenOf(p)' /\ RowsOf(p)'
    BY <1>2, <2>5, <2>6, <2>7 DEF SeenOf, RowsOf, LinkedRows, Linked, Exists, data, ghost
  <2>9. HandOf(p)' /\ StepOf(p)' /\ OwnerOf(p)'
    BY <1>1, <1>2, <2>5, <2>6, <2>7 DEF HandOf, StepOf, OwnerOf, Exists, data
  <2>10. Avoids(p)
    <3>1. ASSUME NEW q \in Requests \ {p}, pc[q] = "analyze"
          PROVE  loc'[p].seen[loc[q].id] = None
      BY <2>5, <2>6, <2>7, <3>1, NotCreated
    <3> QED
      BY <2>6, <2>7, <3>1, NotCreated DEF Avoids
  <2> QED
    BY <1>2, <2>7, <2>8, <2>9, <2>10, MoveKeeps DEF CallOK
<1> QED
  BY <1>2, <1>3, <1>4

-----------------------------------------------------------------------------
(* Steps that write, and with which most calls return.                     *)

Touched(p, b) == loc[p].id = b \/ loc[p].seen[b] # None

TypesOK ==
  /\ batch \in [Batches -> Batch \cup {None}]
  /\ preview \in [Batches -> Preview \cup {None}]
  /\ open \in [Batches -> SUBSET Names]
  /\ alias \in [Names -> Casts \cup {None}]
  /\ castFact \in [Casts -> [batch: Batches, name: Names] \cup {None}]
  /\ urlFact \in [Names -> [batch: Batches, cast: Casts \cup {None}] \cup {None}]
  /\ confirmed \subseteq Batches
  /\ aliased \subseteq Names \X Casts

LEMMA EndKeeps ==
  ASSUME Inv, NEW p \in Requests, Return(p), TypesOK',
         aliased \subseteq aliased', confirmed \subseteq confirmed',
         \A b \in Batches : batch'[b] # batch[b] =>
           /\ Touched(p, b) /\ batch'[b] # None
           /\ Tells(batch'[b]) => b \in confirmed'
           /\ batch'[b].status \in Resolvable => preview'[b] # None,
         \A b \in Batches : preview'[b] # preview[b] =>
           preview'[b] # None /\ LinkedRows(preview[b])',
         \A n \in Names : alias'[n] # alias[n] => AliasOK(n)',
         \A n \in Names : urlFact'[n] # urlFact[n] => UrlOK(n)',
         \A c \in Casts : castFact'[c] # castFact[c] => CastOK(c)'
  PROVE  Inv'
<1>1. Steps(p) /\ pc'[p] = "off" /\ loc'[p] = Blank /\ TypeOK
  BY ReturnSteps DEF Inv
<1>2. \A b \in Batches : preview[b] # None => preview'[b] # None
  OBVIOUS
<1>3. \A b \in Batches : Exists(b)' /\ batch'[b].status \in Resolvable => preview'[b] # None
  BY <1>1, <1>2 DEF TypeOK, Exists
<1>4. TypeOK'
  BY <1>1, <1>3 DEF TypeOK, TypesOK, Steps
<1>5. Grows
  BY <1>2 DEF Grows, Exists
<1>6. Apart(p)
  <2>1. ASSUME NEW q \in Requests \ {p}
        PROVE  pc'[q] = pc[q] /\ loc'[q] = loc[q]
    BY <1>1 DEF Steps, TypeOK
  <2>2. ASSUME NEW q \in Requests \ {p}, pc[q] = "analyze"
        PROVE  /\ batch'[loc[q].id].status = batch[loc[q].id].status
               /\ loc'[p].id # loc[q].id /\ loc'[p].seen[loc[q].id] = None
    <3>1. /\ loc[q].id \in Batches /\ loc[q].id # None
          /\ loc[p].id # loc[q].id /\ loc[p].seen[loc[q].id] = None
      BY <2>2, NotCreated
    <3> QED
      BY <1>1, <3>1, BlankOK DEF Touched
  <2> QED
    BY <2>1, <2>2 DEF Apart
<1>7. CallOK(p)'
  BY <1>1, ReturnOK
<1> QED
  BY <1>4, <1>5, <1>6, <1>7, Keep

LEMMA TypesHold == TypeOK => TypesOK
BY DEF TypeOK, TypesOK

LEMMA AbortKeeps ==
  ASSUME Inv, NEW p \in Requests, Abort(p)
  PROVE  Inv'
BY ReturnKeeps DEF Abort, data

(* What a call knows of its batch when it writes.                          *)
LEMMA HandKnown ==
  ASSUME Inv, NEW p \in Requests, pc[p] # "off"
  PROVE  /\ CallOK(p) /\ loc[p] \in Local /\ TypeOK /\ TypesOK
         /\ loc[p].id \in Batches /\ batch[loc[p].id] \in Batch /\ batch[loc[p].id] # None
BY TypesHold DEF Inv, TypeOK, CallOK, HandOf, Exists

(* The status of the call's batch becomes one that says nothing.           *)
LEMMA StatusKeeps ==
  ASSUME Inv, NEW p \in Requests, pc[p] # "off", Return(p),
         NEW s \in Status \ Completed, s \in Resolvable => preview'[loc[p].id] # None,
         batch' = [batch EXCEPT ![loc[p].id].status = s],
         preview' \in [Batches -> Preview \cup {None}], open' \in [Batches -> SUBSET Names],
         \A b \in Batches : preview'[b] # preview[b] =>
           preview'[b] # None /\ LinkedRows(preview[b])',
         UNCHANGED <<alias, facts, ghost>>
  PROVE  Inv'
<1> DEFINE b == loc[p].id  new == [batch[b] EXCEPT !.status = s]
<1>1. CallOK(p) /\ TypeOK /\ TypesOK /\ b \in Batches /\ batch[b] \in Batch /\ batch[b] # None
  BY HandKnown
<1>2. new \in Batch /\ new.status = s /\ new.partial = batch[b].partial
  BY <1>1 DEF Batch
<1>3. batch' = [batch EXCEPT ![b] = new]
  BY <1>1 DEF TypeOK, Batch
<1>4. new.partial => b \in confirmed
  BY <1>1, <1>2 DEF Inv, BatchOK, Tells, Exists
<1> HIDE DEF new
<1>5. batch'[b] = new /\ new # None /\ \A o \in Batches : o # b => batch'[o] = batch[o]
  BY <1>1, <1>2, <1>3, TownAssumption DEF TypeOK
<1>6. TypesOK'
  BY <1>1, <1>2, <1>3 DEF TypesOK, facts, ghost
<1>7. \A o \in Batches : batch'[o] # batch[o] =>
        /\ Touched(p, o) /\ batch'[o] # None
        /\ Tells(batch'[o]) => o \in confirmed'
        /\ batch'[o].status \in Resolvable => preview'[o] # None
  BY <1>2, <1>4, <1>5 DEF Touched, Tells, ghost
<1>8. UNCHANGED <<alias, urlFact, castFact, confirmed, aliased>>
  BY DEF facts, ghost
<1> QED
  BY <1>6, <1>7, <1>8, EndKeeps

LEMMA AnalyzeKeeps ==
  ASSUME Inv, NEW p \in Requests, Analyze(p)
  PROVE  Inv'
<1> DEFINE b == loc[p].id  k == batch[b].kind  v == Analysis(k)  s == Ready(k, v)
           names == Unmatched(k, v)
<1>1. TypeOK /\ b \in Batches /\ batch[b] \in Batch /\ pc[p] # "off"
  BY HandKnown DEF Analyze
<1>2. v \in Preview /\ v # None /\ LinkedRows(v)
  BY AnalysisOK
<1>3. /\ preview' = [preview EXCEPT ![b] = v] /\ open' = [open EXCEPT ![b] = names]
      /\ batch' = [batch EXCEPT ![b].status = s]
      /\ Return(p) /\ UNCHANGED <<alias, facts, ghost>>
  BY DEF Analyze
<1>4. names \subseteq Names
  BY <1>1, TownAssumption DEF Unmatched, Batch
<1>5. s \in Status \ Completed
  BY DEF Ready, Status, Editable, Completed
<1> HIDE DEF v, s, names
<1>7. preview'[b] = v /\ \A o \in Batches : o # b => preview'[o] = preview[o]
  BY <1>1, <1>3 DEF TypeOK
<1>8. preview' \in [Batches -> Preview \cup {None}] /\ open' \in [Batches -> SUBSET Names]
  BY <1>1, <1>2, <1>3, <1>4 DEF TypeOK
<1>9. ASSUME NEW o \in Batches, preview'[o] # preview[o]
      PROVE  preview'[o] # None /\ LinkedRows(preview[o])'
  <2>1. preview'[o] = v /\ aliased' = aliased
    BY <1>3, <1>7, <1>9 DEF ghost
  <2> QED
    BY <1>2, <2>1 DEF LinkedRows, Linked
<1> QED
  BY <1>1, <1>2, <1>3, <1>5, <1>7, <1>8, <1>9, StatusKeeps

LEMMA FailsKeeps ==
  ASSUME Inv, NEW p \in Requests, CreateFails(p) \/ ConfirmFails(p)
  PROVE  Inv'
<1>1. /\ pc[p] # "off" /\ Return(p) /\ TypeOK
      /\ batch' = [batch EXCEPT ![loc[p].id].status = "FAILED"]
      /\ preview' = preview /\ open' = open /\ UNCHANGED <<alias, facts, ghost>>
  BY DEF Inv, CreateFails, ConfirmFails
<1>2. "FAILED" \in Status \ Completed /\ "FAILED" \notin Resolvable
  BY DEF Status, Completed, Resolvable, Editable
<1>3. preview' \in [Batches -> Preview \cup {None}] /\ open' \in [Batches -> SUBSET Names]
  BY <1>1 DEF TypeOK
<1> QED
  BY <1>1, <1>2, <1>3, StatusKeeps

LEMMA UploadKeeps ==
  ASSUME Inv, NEW p \in Requests, NEW k \in Kinds, NEW b \in Batches, Upload(p, k, b)
  PROVE  Inv'
<1> DEFINE r == [Blank EXCEPT !.id = b]
           new == [kind |-> k, status |-> "VALIDATING", partial |-> FALSE]
<1>1. /\ batch[b] = None /\ Goto(p, "analyze", r) /\ batch' = [batch EXCEPT ![b] = new]
      /\ UNCHANGED <<preview, open, alias, facts, ghost>> /\ TypeOK
  BY DEF Inv, Upload, Exists
<1>2. new \in Batch /\ new.status = "VALIDATING" /\ ~new.partial /\ ~Tells(new)
  BY DEF Batch, Status, Tells, Completed
<1>3. r \in Local /\ r.id = b /\ r.seen = Blank.seen /\ r.rows = Blank.rows
  BY BlankOK DEF Local
<1> HIDE DEF r, new
<1>4. Steps(p) /\ pc'[p] = "analyze" /\ loc'[p] = r
  BY <1>1, <1>3, GotoSteps DEF Labels
<1>5. batch'[b] = new /\ new # None /\ \A o \in Batches : o # b => batch'[o] = batch[o]
  BY <1>1, <1>2, TownAssumption DEF TypeOK
<1>6. TypeOK'
  <2>1. batch' \in [Batches -> Batch \cup {None}]
    BY <1>1, <1>2 DEF TypeOK
  <2>2. \A o \in Batches : Exists(o)' /\ batch'[o].status \in Resolvable => preview'[o] # None
    BY <1>1, <1>2, <1>5 DEF TypeOK, Exists, Resolvable, Editable, Completed
  <2> QED
    BY <1>1, <1>4, <2>1, <2>2 DEF TypeOK, Steps, facts, ghost
<1>7. Grows
  BY <1>1, <1>5 DEF Grows, Exists, ghost
(* Whatever another call has in hand existed before. *)
<1>8. ASSUME NEW q \in Requests \ {p} PROVE loc[q].id # b /\ loc[q].seen[b] = None
  <2>1. CallOK(q)
    BY DEF Inv
  <2>2. loc[q].id # b
    BY <1>1, <2>1, BlankOK, TownAssumption DEF CallOK, HandOf, Exists
  <2> QED
    BY <1>1, <2>1, <2>2 DEF CallOK, SeenOf, Exists
<1>9. Apart(p)
  <2>1. ASSUME NEW q \in Requests \ {p}
        PROVE  pc'[q] = pc[q] /\ loc'[q] = loc[q]
    BY <1>1, <1>4 DEF Steps, TypeOK
  <2>2. ASSUME NEW q \in Requests \ {p}, pc[q] = "analyze"
        PROVE  /\ batch'[loc[q].id].status = batch[loc[q].id].status
               /\ loc'[p].id # loc[q].id /\ loc'[p].seen[loc[q].id] = None
    BY <1>3, <1>4, <1>5, <1>8, <2>2, NotCreated, BlankOK
  <2> QED
    BY <2>1, <2>2 DEF Apart
<1>10. OwnerOf(p)'
  BY <1>2, <1>3, <1>4, <1>5, <1>8, <1>9 DEF OwnerOf, Apart
<1>11. SeenOf(p)' /\ RowsOf(p)' /\ HandOf(p)' /\ StepOf(p)'
  BY <1>3, <1>4, <1>5, BlankOK DEF SeenOf, RowsOf, HandOf, StepOf, Exists
<1>12. \A o \in Batches : batch'[o] # batch[o] /\ Exists(o)' /\ Tells(batch'[o])
                             => o \in confirmed'
  BY <1>2, <1>5
<1>13. UNCHANGED <<preview, alias, urlFact, castFact>>
  BY <1>1 DEF facts
<1> QED
  BY <1>6, <1>7, <1>9, <1>10, <1>11, <1>12, <1>13, Keep DEF CallOK

LEMMA ReparsePutKeeps ==
  ASSUME Inv, NEW p \in Requests, ReparsePut(p)
  PROVE  Inv'
<1> DEFINE b == loc[p].id  v == loc[p].rows[b]
<1>1. /\ CallOK(p) /\ loc[p] \in Local /\ TypeOK /\ b \in Batches /\ pc[p] = "reparsePut"
      /\ v # None /\ v \in Preview /\ LinkedRows(v) /\ loc[p].seen[b] # None
  BY HandKnown DEF ReparsePut, CallOK, HandOf, RowsOf, Local
<1>2. /\ preview' = [preview EXCEPT ![b] = v] /\ Goto(p, "reparseWrite", loc[p])
      /\ UNCHANGED <<batch, open, alias, facts, ghost>>
  BY DEF ReparsePut
<1>3. Steps(p) /\ pc'[p] = "reparseWrite" /\ loc'[p] = loc[p]
  BY <1>1, <1>2, GotoSteps DEF Labels
<1> HIDE DEF v
<1>5. preview'[b] = v /\ \A o \in Batches : o # b => preview'[o] = preview[o]
  BY <1>1, <1>2 DEF TypeOK
<1>6. TypeOK'
  <2>1. preview' \in [Batches -> Preview \cup {None}]
    BY <1>1, <1>2 DEF TypeOK
  <2>2. \A o \in Batches : Exists(o)' /\ batch'[o].status \in Resolvable => preview'[o] # None
    BY <1>1, <1>2, <1>5 DEF TypeOK, Exists
  <2> QED
    BY <1>1, <1>2, <1>3, <2>1, <2>2 DEF TypeOK, Steps, facts, ghost
<1>7. Grows
  BY <1>1, <1>2, <1>5 DEF Grows, Exists, ghost
<1>8. Apart(p)
  <2>1. Avoids(p)
    BY <1>3, NotCreated DEF Avoids
  <2> QED
    BY <1>1, <1>2, <1>3, <2>1 DEF Apart, Avoids, Steps, TypeOK
<1>9. SeenOf(p)'
  <2>1. \A o \in Batches : loc[p].seen[o] # None => o = b
    BY <1>1 DEF CallOK, StepOf
  <2> QED
    BY <1>1, <1>2, <1>3, <1>5, <2>1 DEF CallOK, SeenOf, Exists, ghost
<1>10. RowsOf(p)'
  BY <1>1, <1>2, <1>3 DEF CallOK, RowsOf, LinkedRows, Linked, ghost
<1>11. HandOf(p)' /\ StepOf(p)' /\ OwnerOf(p)'
  BY <1>1, <1>2, <1>3 DEF CallOK, HandOf, StepOf, OwnerOf, Exists, v
<1>12. ASSUME NEW o \in Batches, preview'[o] # preview[o]
       PROVE  LinkedRows(preview[o])'
  <2>1. preview'[o] = v /\ aliased' = aliased
    BY <1>2, <1>5, <1>12 DEF ghost
  <2> QED
    BY <1>1, <2>1 DEF LinkedRows, Linked
<1>13. UNCHANGED <<batch, alias, urlFact, castFact>>
  BY <1>2 DEF facts
<1> QED
  BY <1>6, <1>7, <1>8, <1>9, <1>10, <1>11, <1>12, <1>13, Keep DEF CallOK

-----------------------------------------------------------------------------
(* Decisions.                                                              *)

(* A preview with the decision in it. *)
LEMMA ChosenOK ==
  ASSUME Inv, NEW p \in Requests, pc[p] \in {"skip", "link"},
         NEW b \in Batches, loc[p].rows[b] # None
  PROVE  LET v == [loc[p].rows[b] EXCEPT ![loc[p].name] = loc[p].choice]
         IN /\ v \in Preview /\ v # None
            /\ \A n \in Names : v[n] \in Casts =>
                 Linked(n, v[n]) \/ <<n, v[n]>> \in {loc[p].name} \X ({loc[p].choice} \cap Casts)
<1> DEFINE w == loc[p].rows[b]  v == [w EXCEPT ![loc[p].name] = loc[p].choice]
<1>1. CallOK(p) /\ loc[p] \in Local
  BY HandKnown
<1>2. w \in Preview /\ LinkedRows(w) /\ loc[p].name \in Names
      /\ loc[p].choice \in Casts \cup {Skipped}
  BY <1>1 DEF Local, CallOK, RowsOf, StepOf
<1> HIDE DEF w
<1>3. v \in Preview
  BY <1>2 DEF Preview
<1>4. \A n \in Names : v[n] = IF n = loc[p].name THEN loc[p].choice ELSE w[n]
  BY <1>2 DEF Preview
<1> HIDE DEF v
<1>5. v # None
  BY <1>3, TownAssumption
<1>6. ASSUME NEW n \in Names, v[n] \in Casts
      PROVE  Linked(n, v[n]) \/ <<n, v[n]>> \in {loc[p].name} \X ({loc[p].choice} \cap Casts)
  BY <1>2, <1>4, <1>6 DEF LinkedRows
<1> QED
  BY <1>3, <1>5, <1>6 DEF v, w

(* The rows of the batches a decision has read.                            *)
LEMMA SettledOK ==
  ASSUME Inv, NEW p \in Requests, pc[p] \in {"skip", "link"},
         NEW ks \in SUBSET Batches, \A k \in ks : loc[p].seen[k] # None, NEW rows,
         batch' = Settled(ks, loc[p].name, loc[p].seen, rows),
         confirmed' = confirmed
  PROVE  /\ batch' \in [Batches -> Batch \cup {None}]
         /\ \A b \in Batches : batch'[b] # batch[b] =>
              b \in ks /\ batch'[b] # None /\ (Tells(batch'[b]) => b \in confirmed')
<1>1. CallOK(p) /\ loc[p] \in Local /\ TypeOK /\ loc[p].name \in Names
  BY HandKnown DEF CallOK, StepOf
<1> DEFINE s(k) == Recount(loc[p].seen[k].status, batch[k].kind, rows[k], open[k] \ {loc[p].name})
           new(k) == [batch[k] EXCEPT !.partial = loc[p].seen[k].partial, !.status = s(k)]
<1>2. ASSUME NEW k \in ks PROVE new(k) \in Batch /\ (Tells(new(k)) => k \in confirmed)
  <2>1. loc[p].seen[k] \in Seen /\ batch[k] \in Batch /\ (Tells(loc[p].seen[k]) => k \in confirmed)
    BY <1>1, <1>2 DEF CallOK, SeenOf, Local, TypeOK, Exists
  <2>2. s(k) \in Status /\ (s(k) \in Completed => loc[p].seen[k].status \in Completed)
    BY DEF Recount, CompletedWith, Status, Completed, Editable
  <2> HIDE DEF s
  <2> QED
    BY <2>1, <2>2 DEF Batch, Seen, Tells
<1>3. batch' = [k \in Batches |-> IF k \notin ks THEN batch[k] ELSE new(k)]
  BY DEF Settled
<1> HIDE DEF new
<1> QED
  BY <1>1, <1>2, <1>3, TownAssumption DEF TypeOK

LEMMA SkipKeeps ==
  ASSUME Inv, NEW p \in Requests, Skip(p)
  PROVE  Inv'
<1> DEFINE b == loc[p].id  n == loc[p].name
           w == [loc[p].rows[b] EXCEPT ![n] = Skipped]
           v == [loc[p].rows EXCEPT ![b][n] = Skipped]
<1>1. /\ pc[p] = "skip" /\ CallOK(p) /\ loc[p] \in Local /\ TypeOK /\ TypesOK /\ b \in Batches
      /\ loc[p].rows[b] # None /\ loc[p].seen[b] # None /\ preview[b] # None
      /\ loc[p].choice = Skipped
  BY HandKnown DEF Skip, CallOK, HandOf, SeenOf, StepOf
<1>2. /\ preview' = [preview EXCEPT ![b] = v[b]] /\ batch' = Settled({b}, n, loc[p].seen, v)
      /\ open' = Closed({b}, n) /\ Return(p) /\ UNCHANGED <<alias, facts, ghost>>
  BY DEF Skip
<1>3. v[b] = w
  BY <1>1 DEF Local
<1>4. /\ w \in Preview /\ w # None
      /\ \A m \in Names : w[m] \in Casts =>
           Linked(m, w[m]) \/ <<m, w[m]>> \in {n} \X ({Skipped} \cap Casts)
  BY <1>1, ChosenOK
<1> HIDE DEF w, v
<1>5. \A m \in Names : w[m] \in Casts => Linked(m, w[m])
  BY <1>4, TownAssumption
<1>6. {b} \in SUBSET Batches /\ \A k \in {b} : loc[p].seen[k] # None
  BY <1>1
<1>7. /\ batch' \in [Batches -> Batch \cup {None}]
      /\ \A k \in Batches : batch'[k] # batch[k] =>
           k \in {b} /\ batch'[k] # None /\ (Tells(batch'[k]) => k \in confirmed')
  BY <1>1, <1>2, <1>6, SettledOK DEF ghost
<1>8. preview'[b] = w /\ \A o \in Batches : o # b => preview'[o] = preview[o]
  BY <1>1, <1>2, <1>3 DEF TypeOK
<1>9. TypesOK'
  <2>1. open' \in [Batches -> SUBSET Names]
    BY <1>1, <1>2 DEF TypeOK, Closed
  <2>2. preview' \in [Batches -> Preview \cup {None}]
    BY <1>1, <1>2, <1>3, <1>4 DEF TypeOK
  <2> QED
    BY <1>1, <1>2, <1>7, <2>1, <2>2 DEF TypesOK, facts, ghost
<1>10. ASSUME NEW o \in Batches, preview'[o] # preview[o]
       PROVE  preview'[o] # None /\ LinkedRows(preview[o])'
  <2>1. preview'[o] = w /\ aliased' = aliased
    BY <1>2, <1>8, <1>10 DEF ghost
  <2> QED
    BY <1>4, <1>5, <2>1 DEF LinkedRows, Linked
<1>11. \A o \in Batches : batch'[o] # batch[o] =>
         /\ Touched(p, o) /\ batch'[o] # None
         /\ Tells(batch'[o]) => o \in confirmed'
         /\ batch'[o].status \in Resolvable => preview'[o] # None
  BY <1>4, <1>7, <1>8 DEF Touched
<1>12. UNCHANGED <<alias, urlFact, castFact, confirmed, aliased>>
  BY <1>2 DEF facts, ghost
<1> QED
  BY <1>2, <1>9, <1>10, <1>11, <1>12, EndKeeps

(* The previews and the aliases a decision about a cast leaves. *)
LEMMA PutOK ==
  ASSUME Inv, NEW p \in Requests, pc[p] \in {"skip", "link"},
         NEW ks \in SUBSET Batches, \A k \in ks : loc[p].rows[k] # None,
         preview' = [b \in Batches |-> IF b \in ks THEN Chosen(loc[p])[b] ELSE preview[b]],
         aliased' = aliased \cup ({loc[p].name} \X ({loc[p].choice} \cap Casts))
  PROVE  /\ preview' \in [Batches -> Preview \cup {None}]
         /\ aliased' \subseteq Names \X Casts /\ aliased \subseteq aliased'
         /\ \A b \in ks : preview'[b] # None
         /\ \A b \in Batches : preview'[b] # preview[b] =>
              preview'[b] # None /\ LinkedRows(preview[b])'
<1> DEFINE w(b) == [loc[p].rows[b] EXCEPT ![loc[p].name] = loc[p].choice]
<1>1. CallOK(p) /\ loc[p] \in Local /\ TypeOK /\ loc[p].name \in Names
  BY HandKnown DEF CallOK, StepOf
<1>2. \A b \in ks : /\ w(b) \in Preview /\ w(b) # None
                    /\ \A n \in Names : w(b)[n] \in Casts =>
                         \/ Linked(n, w(b)[n])
                         \/ <<n, w(b)[n]>> \in {loc[p].name} \X ({loc[p].choice} \cap Casts)
  BY ChosenOK
<1>3. \A b \in ks : loc[p].seen[b] # None
  BY <1>1 DEF CallOK, HandOf, StepOf
<1>4. \A b \in Batches : b \in ks => Chosen(loc[p])[b] = w(b)
  BY <1>3 DEF Chosen
<1> HIDE DEF w
<1>5. \A b \in Batches : preview'[b] = IF b \in ks THEN w(b) ELSE preview[b]
  BY <1>4
<1>6. preview' \in [Batches -> Preview \cup {None}]
  BY <1>1, <1>2, <1>4 DEF TypeOK
<1>7. ASSUME NEW b \in Batches, b \in ks
      PROVE  preview'[b] # None /\ LinkedRows(preview[b])'
  <2>1. preview'[b] = w(b)
    BY <1>5, <1>7
  <2> QED
    BY <1>2, <1>7, <2>1 DEF LinkedRows, Linked
<1>8. \A b \in Batches : preview'[b] # preview[b] => b \in ks
  BY <1>5
<1> QED
  BY <1>1, <1>6, <1>7, <1>8 DEF TypeOK

LEMMA LinkTornKeeps ==
  ASSUME Inv, NEW p \in Requests, LinkTorn(p)
  PROVE  Inv'
<1>1. PICK ks \in SUBSET {b \in Batches : loc[p].rows[b] # None} :
        preview' = [b \in Batches |-> IF b \in ks THEN Chosen(loc[p])[b] ELSE preview[b]]
  BY DEF LinkTorn
<1>2. /\ pc[p] \in {"skip", "link"} /\ Return(p) /\ UNCHANGED <<batch, open, alias, facts, confirmed>>
      /\ aliased' = aliased \cup ({loc[p].name} \X ({loc[p].choice} \cap Casts))
  BY DEF LinkTorn
<1>3. ks \in SUBSET Batches /\ \A k \in ks : loc[p].rows[k] # None
  BY <1>1
<1>4. /\ preview' \in [Batches -> Preview \cup {None}]
      /\ aliased' \subseteq Names \X Casts /\ aliased \subseteq aliased'
      /\ \A b \in Batches : preview'[b] # preview[b] =>
           preview'[b] # None /\ LinkedRows(preview[b])'
  BY <1>1, <1>2, <1>3, PutOK
<1>5. TypesOK
  BY TypesHold DEF Inv
<1>6. TypesOK' /\ UNCHANGED <<batch, alias, urlFact, castFact, confirmed>>
  BY <1>2, <1>4, <1>5 DEF TypesOK, facts
<1> QED
  BY <1>2, <1>4, <1>6, EndKeeps

LEMMA LinkKeeps ==
  ASSUME Inv, NEW p \in Requests, Link(p)
  PROVE  Inv'
<1> DEFINE n == loc[p].name  c == loc[p].choice
           ks == {b \in Batches : loc[p].seen[b] # None}
           of(k) == {b \in Persisted(loc[p]) : batch[b].kind = k}
           cast(b) == [batch |-> b, name |-> n]
           url(b) == [batch |-> b, cast |-> c]
<1>1. /\ pc[p] = "link" /\ CallOK(p) /\ loc[p] \in Local /\ TypeOK /\ TypesOK
      /\ n \in Names /\ c \in Casts
  BY HandKnown DEF Link, CallOK, StepOf
<1>2. /\ preview' = [b \in Batches |-> IF b \in ks THEN Chosen(loc[p])[b] ELSE preview[b]]
      /\ batch' = Settled(ks, n, loc[p].seen, Chosen(loc[p])) /\ open' = Closed(ks, n)
      /\ alias' = [alias EXCEPT ![n] = c] /\ aliased' = aliased \cup {<<n, c>>}
      /\ Return(p) /\ confirmed' = confirmed
  BY DEF Link
<1>3. /\ \/ castFact' = castFact
         \/ \E b \in of("CAST") : castFact' = [castFact EXCEPT ![c] = cast(b)]
      /\ \/ urlFact' = urlFact
         \/ \E b \in of("URL") : urlFact' = [urlFact EXCEPT ![n] = url(b)]
  BY DEF Link
<1>4. ks \in SUBSET Batches /\ \A k \in ks : loc[p].seen[k] # None /\ loc[p].rows[k] # None
  BY <1>1 DEF CallOK, StepOf
<1>5. aliased' = aliased \cup ({n} \X ({c} \cap Casts))
  BY <1>1, <1>2
<1>6. /\ preview' \in [Batches -> Preview \cup {None}]
      /\ aliased' \subseteq Names \X Casts /\ aliased \subseteq aliased'
      /\ \A b \in ks : preview'[b] # None
      /\ \A b \in Batches : preview'[b] # preview[b] =>
           preview'[b] # None /\ LinkedRows(preview[b])'
  BY <1>1, <1>2, <1>4, <1>5, PutOK
<1>7. /\ batch' \in [Batches -> Batch \cup {None}]
      /\ \A b \in Batches : batch'[b] # batch[b] =>
           b \in ks /\ batch'[b] # None /\ (Tells(batch'[b]) => b \in confirmed')
  BY <1>1, <1>2, <1>4, SettledOK
<1>8. \A k : \A b \in of(k) : b \in Batches /\ b \in confirmed
  BY <1>1 DEF Persisted, CallOK, SeenOf, Tells
<1>9. open' \in [Batches -> SUBSET Names] /\ alias' \in [Names -> Casts \cup {None}]
  BY <1>1, <1>2 DEF TypeOK, Closed
<1>10. <<n, c>> \in aliased'
  BY <1>2
<1> HIDE DEF of, n, c, ks
<1>11. /\ castFact' \in [Casts -> [batch: Batches, name: Names] \cup {None}]
       /\ \A d \in Casts : castFact'[d] # castFact[d] =>
            d = c /\ \E b \in confirmed : castFact'[d] = cast(b)
  BY <1>1, <1>3, <1>8 DEF TypeOK
<1>12. /\ urlFact' \in [Names -> [batch: Batches, cast: Casts \cup {None}] \cup {None}]
       /\ \A m \in Names : urlFact'[m] # urlFact[m] =>
            m = n /\ \E b \in confirmed : urlFact'[m] = url(b)
  BY <1>1, <1>3, <1>8 DEF TypeOK
<1>13. \A d \in Casts : castFact'[d] # castFact[d] => CastOK(d)'
  BY <1>2, <1>10, <1>11 DEF CastOK, Linked
<1>14. \A m \in Names : urlFact'[m] # urlFact[m] => UrlOK(m)'
  BY <1>2, <1>10, <1>12 DEF UrlOK, Linked
<1>15. \A m \in Names : alias'[m] # alias[m] => AliasOK(m)'
  BY <1>1, <1>2, <1>10 DEF TypeOK, AliasOK
<1>16. TypesOK'
  BY <1>1, <1>2, <1>6, <1>7, <1>9, <1>11, <1>12 DEF TypesOK
<1>17. \A b \in Batches : batch'[b] # batch[b] =>
         /\ Touched(p, b) /\ batch'[b] # None
         /\ Tells(batch'[b]) => b \in confirmed'
         /\ batch'[b].status \in Resolvable => preview'[b] # None
  BY <1>4, <1>6, <1>7 DEF Touched
<1> QED
  BY <1>2, <1>6, <1>13, <1>14, <1>15, <1>16, <1>17, EndKeeps

-----------------------------------------------------------------------------
(* The transactions of a confirmation and of a reparse.                    *)

(* What an upsert of the rows of a call stores. *)
LEMMA UpsertOK ==
  ASSUME Inv, NEW p \in Requests, NEW b \in Batches, batch[b] # None,
         loc[p].rows[b] # None, Upsert(b, loc[p].rows[b])
  PROVE  /\ castFact' \in [Casts -> [batch: Batches, name: Names] \cup {None}]
         /\ urlFact' \in [Names -> [batch: Batches, cast: Casts \cup {None}] \cup {None}]
         /\ \A c \in Casts : castFact'[c] # castFact[c] =>
              castFact'[c].batch = b /\ Linked(castFact'[c].name, c)
         /\ \A n \in Names : urlFact'[n] # urlFact[n] =>
              /\ urlFact'[n].batch = b
              /\ urlFact'[n].cast # None => Linked(n, urlFact'[n].cast)
<1> DEFINE v == loc[p].rows[b]  k == batch[b].kind
           rowsOf(c) == {n \in Eligible(k, v) : v[n] = c}
           cast(n) == [batch |-> b, name |-> n]
           url(n) == [batch |-> b, cast |-> v[n]]
<1>1. /\ v \in Preview /\ LinkedRows(v)
      /\ castFact \in [Casts -> [batch: Batches, name: Names] \cup {None}]
      /\ urlFact \in [Names -> [batch: Batches, cast: Casts \cup {None}] \cup {None}]
  BY DEF Inv, TypeOK, Local, CallOK, RowsOf
<1>2. Eligible(k, v) \subseteq Names
  BY TownAssumption DEF Inv, TypeOK, Batch, Eligible
<1>3. CASE /\ castFact' \in [Casts -> {castFact[c] : c \in Casts} \cup {cast(n) : n \in Names}]
           /\ \A c \in Casts : IF rowsOf(c) = {} THEN castFact'[c] = castFact[c]
                               ELSE \E n \in rowsOf(c) : castFact'[c] = cast(n)
           /\ UNCHANGED urlFact
  <2>1. {castFact[c] : c \in Casts} \cup {cast(n) : n \in Names}
          \subseteq [batch: Batches, name: Names] \cup {None}
    BY <1>1
  <2>2. castFact' \in [Casts -> [batch: Batches, name: Names] \cup {None}]
    BY <1>3, <2>1
  <2>3. ASSUME NEW c \in Casts, castFact'[c] # castFact[c]
        PROVE  castFact'[c].batch = b /\ Linked(castFact'[c].name, c)
    <3>1. PICK n \in rowsOf(c) : castFact'[c] = cast(n)
      BY <1>3, <2>3
    <3>2. v[n] = c /\ (n \in Names => Linked(n, c))
      BY <1>1, <3>1 DEF LinkedRows
    <3>3. n \in Names
      BY <3>1, <1>2
    <3> QED
      BY <3>1, <3>2, <3>3
  <2> QED
    BY <1>1, <1>3, <2>2, <2>3
<1>4. CASE /\ urlFact' = [n \in Names |-> IF n \in Eligible(k, v) THEN url(n) ELSE urlFact[n]]
           /\ UNCHANGED castFact
  <2>1. \A n \in Names : n \in Eligible(k, v) => v[n] \in Casts \cup {None}
    BY DEF Eligible
  <2>2. urlFact' \in [Names -> [batch: Batches, cast: Casts \cup {None}] \cup {None}]
    BY <1>1, <1>4, <2>1
  <2>3. ASSUME NEW n \in Names, urlFact'[n] # urlFact[n]
        PROVE  /\ urlFact'[n].batch = b
               /\ urlFact'[n].cast # None => Linked(n, urlFact'[n].cast)
    <3>1. urlFact'[n] = url(n) /\ v[n] \in Casts \cup {None}
      BY <1>4, <2>1, <2>3
    <3> QED
      BY <1>1, <3>1 DEF LinkedRows
  <2> QED
    BY <1>1, <1>4, <2>2, <2>3
<1> QED
  BY <1>3, <1>4 DEF Upsert

LEMMA ConfirmWriteKeeps ==
  ASSUME Inv, NEW p \in Requests, ConfirmWrite(p)
  PROVE  Inv'
<1> DEFINE b == loc[p].id  k == batch[b].kind  v == loc[p].rows[b]
           s == CompletedWith(Unmatched(k, v))
           partial == loc[p].seen[b].partial \/ loc[p].mode = "ID"
           new == [batch[b] EXCEPT !.status = s, !.partial = partial]
<1>1. /\ pc[p] = "confirmWrite" /\ CallOK(p) /\ loc[p] \in Local /\ TypeOK /\ TypesOK
      /\ b \in Batches /\ batch[b] \in Batch /\ batch[b] # None
      /\ v # None /\ preview[b] # None
  BY HandKnown DEF ConfirmWrite, CallOK, HandOf, SeenOf
<1>2. /\ Upsert(b, v) /\ Return(p) /\ confirmed' = confirmed \cup {b}
      /\ batch' = [batch EXCEPT ![b].status = s, ![b].partial = partial]
      /\ UNCHANGED <<preview, open, alias, aliased>>
  BY DEF ConfirmWrite
<1>3. /\ castFact' \in [Casts -> [batch: Batches, name: Names] \cup {None}]
      /\ urlFact' \in [Names -> [batch: Batches, cast: Casts \cup {None}] \cup {None}]
      /\ \A c \in Casts : castFact'[c] # castFact[c] =>
           castFact'[c].batch = b /\ Linked(castFact'[c].name, c)
      /\ \A n \in Names : urlFact'[n] # urlFact[n] =>
           /\ urlFact'[n].batch = b
           /\ urlFact'[n].cast # None => Linked(n, urlFact'[n].cast)
  BY <1>1, <1>2, UpsertOK
<1>4. s \in Status /\ partial \in BOOLEAN
  BY <1>1 DEF CompletedWith, Status, Completed
<1> HIDE DEF s, partial
<1>5. new \in Batch /\ batch' = [batch EXCEPT ![b] = new]
  BY <1>1, <1>2, <1>4 DEF Batch, TypeOK
<1> HIDE DEF new
<1>6. batch'[b] = new /\ new # None /\ \A o \in Batches : o # b => batch'[o] = batch[o]
  BY <1>1, <1>5, TownAssumption DEF TypeOK
<1>7. TypesOK'
  BY <1>1, <1>2, <1>3, <1>5 DEF TypesOK
<1>8. \A o \in Batches : batch'[o] # batch[o] =>
        /\ Touched(p, o) /\ batch'[o] # None
        /\ Tells(batch'[o]) => o \in confirmed'
        /\ batch'[o].status \in Resolvable => preview'[o] # None
  BY <1>1, <1>2, <1>6 DEF Touched
<1>9. \A n \in Names : urlFact'[n] # urlFact[n] => UrlOK(n)'
  BY <1>2, <1>3 DEF UrlOK, Linked
<1>10. \A c \in Casts : castFact'[c] # castFact[c] => CastOK(c)'
  BY <1>2, <1>3 DEF CastOK, Linked
<1> QED
  BY <1>2, <1>7, <1>8, <1>9, <1>10, EndKeeps

LEMMA ReparseWriteKeeps ==
  ASSUME Inv, NEW p \in Requests, ReparseWrite(p)
  PROVE  Inv'
<1> DEFINE b == loc[p].id  k == batch[b].kind  v == loc[p].rows[b]
           partial == loc[p].seen[b].partial
           s == StatusAfter(partial, k, v)
           new == [batch[b] EXCEPT !.status = s, !.partial = partial]
           missing(c) == {n \in Eligible(k, v) : v[n] = c /\ castFact[c] = None}
           names == Unmatched(k, v)
           cast(n) == [batch |-> b, name |-> n]
<1>1. /\ pc[p] = "reparseWrite" /\ CallOK(p) /\ loc[p] \in Local /\ TypeOK /\ TypesOK
      /\ b \in Batches /\ batch[b] \in Batch /\ v # None /\ preview[b] # None
      /\ loc[p].seen[b] \in Seen /\ (partial => b \in confirmed) /\ LinkedRows(v)
  <2>1. /\ pc[p] = "reparseWrite" /\ CallOK(p) /\ loc[p] \in Local /\ TypeOK /\ TypesOK
        /\ b \in Batches /\ batch[b] \in Batch
    BY HandKnown DEF ReparseWrite
  <2>2. v # None /\ loc[p].seen[b] # None
    BY <2>1 DEF CallOK, HandOf
  <2>3. preview[b] # None /\ (Tells(loc[p].seen[b]) => b \in confirmed)
    BY <2>1, <2>2 DEF CallOK, SeenOf
  <2>4. loc[p].seen[b] \in Seen
    BY <2>1, <2>2 DEF Local
  <2> QED
    BY <2>1, <2>2, <2>3, <2>4 DEF CallOK, RowsOf, Tells
<1>2. /\ open' = [open EXCEPT ![b] = names] /\ Return(p)
      /\ batch' = [batch EXCEPT ![b].status = s, ![b].partial = partial]
      /\ UNCHANGED <<preview, alias, urlFact, ghost>>
  BY DEF ReparseWrite
<1>3. names \subseteq Names
  BY <1>1, TownAssumption DEF Unmatched, Batch
<1>4. s \in Status /\ partial \in BOOLEAN /\ (s \in Completed => partial)
  BY <1>1 DEF StatusAfter, CompletedWith, Ready, Status, Completed, Editable, Seen
<1>5. /\ castFact' \in [Casts -> [batch: Batches, name: Names] \cup {None}]
      /\ \A c \in Casts : castFact'[c] # castFact[c] =>
           partial /\ castFact'[c].batch = b /\ Linked(castFact'[c].name, c)
  <2>1. CASE UNCHANGED castFact
    BY <1>1, <2>1 DEF TypeOK
  <2>2. ASSUME partial, NEW first \in [Casts -> Names],
               \A c \in Casts : missing(c) # {} => first[c] \in missing(c),
               castFact' = [c \in Casts |-> IF missing(c) # {} THEN cast(first[c]) ELSE castFact[c]]
        PROVE  <1>5!1 /\ <1>5!2
    <3>1. \A c \in Casts : missing(c) # {} => Linked(first[c], c)
      BY <1>1, <2>2 DEF LinkedRows
    <3> HIDE DEF missing
    <3>2. \A c \in Casts : first[c] \in Names
      BY <2>2
    <3>3. \A c \in Casts : castFact'[c] # castFact[c] => castFact'[c] = cast(first[c]) /\ missing(c) # {}
      BY <2>2
    <3> QED
      BY <1>1, <2>2, <3>1, <3>2, <3>3 DEF TypeOK
  <2> QED
    BY <2>1, <2>2 DEF ReparseWrite
<1> HIDE DEF s, partial, names
<1>6. new \in Batch /\ batch' = [batch EXCEPT ![b] = new]
      /\ new.status = s /\ new.partial = partial
  BY <1>1, <1>2, <1>4 DEF Batch, TypeOK
<1> HIDE DEF new
<1>7. batch'[b] = new /\ new # None /\ \A o \in Batches : o # b => batch'[o] = batch[o]
  BY <1>1, <1>6, TownAssumption DEF TypeOK
<1>8. TypesOK'
  BY <1>1, <1>2, <1>3, <1>5, <1>6 DEF TypesOK, ghost
<1>9. \A o \in Batches : batch'[o] # batch[o] =>
        /\ Touched(p, o) /\ batch'[o] # None
        /\ Tells(batch'[o]) => o \in confirmed'
        /\ batch'[o].status \in Resolvable => preview'[o] # None
  <2>1. partial => b \in confirmed
    BY <1>1 DEF partial
  <2> QED
    BY <1>1, <1>2, <1>4, <1>6, <1>7, <2>1 DEF Touched, Tells, ghost
<1>10. \A c \in Casts : castFact'[c] # castFact[c] => CastOK(c)'
  <2>1. partial => b \in confirmed
    BY <1>1 DEF partial
  <2> QED
    BY <1>2, <1>5, <2>1 DEF CastOK, Linked, ghost
<1>11. UNCHANGED <<preview, alias, urlFact, confirmed, aliased>>
  BY <1>2 DEF ghost
<1> QED
  BY <1>2, <1>8, <1>9, <1>10, <1>11, EndKeeps

LEMMA InvNext == Inv /\ [Next]_vars => Inv'
<1> SUFFICES ASSUME Inv, [Next]_vars PROVE Inv'
  OBVIOUS
<1>1. ASSUME NEW p \in Requests, Start(p) PROVE Inv'
  BY <1>1, UploadKeeps, ConfirmKeeps, DecideKeeps, ReparseKeeps DEF Start
<1>2. ASSUME NEW p \in Requests, Work(p) PROVE Inv'
  BY <1>2, AnalyzeKeeps, FailsKeeps, ConfirmPreviewKeeps, ConfirmWriteKeeps, SkipKeeps,
     CandidatesKeeps, LinkKeeps, LinkTornKeeps, ReparsePutKeeps, ReparseWriteKeeps DEF Work
<1>3. ASSUME NEW p \in Requests, Abort(p) PROVE Inv'
  BY <1>3, AbortKeeps
<1>4. ASSUME UNCHANGED vars PROVE Inv'
  <2>1. TypeOK'
    BY <1>4 DEF Inv, TypeOK, vars, facts, ghost, Exists
  <2> QED
    BY <1>4, <2>1 DEF Inv, CallOK, SeenOf, RowsOf, HandOf, StepOf, OwnerOf, BatchOK, AliasOK,
       CastOK, UrlOK, LinkedRows, Linked, vars, facts, ghost, Exists
<1> QED
  BY <1>1, <1>2, <1>3, <1>4 DEF Next

LEMMA InvAlways == Spec => []Inv
BY InvInit, InvNext, PTL DEF Spec

-----------------------------------------------------------------------------
(* Results. *)

(* Every reachable state is typed, and whoever races for the status of a   *)
(* batch, a batch is offered for decisions only with its preview.          *)
THEOREM TownTypeCorrect == Spec => []TypeOK
<1>1. Inv => TypeOK
  BY DEF Inv
<1> QED
  BY <1>1, InvAlways, PTL

(* Nothing of a batch that nobody confirmed is ever in the daily tables,   *)
(* although decisions and reparses store rows on a status, or an event,    *)
(* that they read in an earlier step.                                      *)
THEOREM TownStoresConfirmed == Spec => []StoredWasConfirmed
<1>1. Inv => StoredWasConfirmed
  BY DEF Inv, CastOK, UrlOK, StoredWasConfirmed
<1> QED
  BY <1>1, InvAlways, PTL

(* A row is stored only under a cast that its name belongs to, or was      *)
(* linked to by a decision, even by one whose transaction rolled back.     *)
THEOREM TownStoresLinked == Spec => []StoredIsLinked
<1>1. Inv => StoredIsLinked
  BY DEF Inv, CastOK, UrlOK, StoredIsLinked, Linked
<1> QED
  BY <1>1, InvAlways, PTL

(* The only steps that write the status of a batch there is. *)
LEMMA StatusWrites ==
  ASSUME NEW p \in Requests, Work(p), batch' # batch
  PROVE  \/ Analyze(p) \/ CreateFails(p) \/ ConfirmWrite(p) \/ ConfirmFails(p)
         \/ Skip(p) \/ Link(p) \/ ReparseWrite(p)
BY DEF Work, ConfirmPreview, Candidates, LinkTorn, ReparsePut

LEMMA OtherStatus ==
  ASSUME TypeOK, NEW b \in Batches, NEW o \in Batches, NEW s, b # o,
         batch' = [batch EXCEPT ![o].status = s]
  PROVE  batch'[b] = batch[b]
BY DEF TypeOK

LEMMA WorkUncompletes ==
  ASSUME Inv, NEW p \in Requests, Work(p), NEW b \in Batches, batch[b] # None,
         batch[b].status \in Completed, batch'[b].status \notin Completed
  PROVE  /\ pc[p] # "off" /\ pc'[p] = "off" /\ loc[p].seen[b] # None
         /\ \/ loc[p].seen[b].status \notin Completed
            \/ pc[p] = "reparseWrite" /\ ~loc[p].seen[b].partial
<1>1. \/ Analyze(p) \/ CreateFails(p) \/ ConfirmWrite(p) \/ ConfirmFails(p)
      \/ Skip(p) \/ Link(p) \/ ReparseWrite(p)
  BY StatusWrites
<1>2. pc[p] # "off" /\ Return(p)
  BY <1>1 DEF Analyze, CreateFails, ConfirmWrite, ConfirmFails, Skip, Link, ReparseWrite
<1>3. pc'[p] = "off"
  BY <1>2, ReturnSteps DEF Inv
<1>4. CallOK(p) /\ loc[p] \in Local /\ TypeOK /\ loc[p].id \in Batches /\ batch[b] \in Batch
  BY <1>2, HandKnown DEF TypeOK
<1>5. ~Analyze(p) /\ ~CreateFails(p)
  <2>1. ASSUME NEW s, pc[p] = "analyze", batch' = [batch EXCEPT ![loc[p].id].status = s]
        PROVE  FALSE
    <3>1. batch[loc[p].id].status = "VALIDATING"
      BY <1>4, <2>1 DEF CallOK, OwnerOf
    <3>2. b # loc[p].id
      BY <3>1 DEF Completed
    <3> QED
      BY <1>4, <2>1, <3>2, OtherStatus
  <2> QED
    BY <2>1 DEF Analyze, CreateFails
<1>6. ~ConfirmWrite(p)
  <2> SUFFICES ASSUME ConfirmWrite(p) PROVE batch'[b].status \in Completed
    OBVIOUS
  <2> DEFINE o == loc[p].id
             s == CompletedWith(Unmatched(batch[o].kind, loc[p].rows[o]))
             partial == loc[p].seen[o].partial \/ loc[p].mode = "ID"
  <2>1. batch' = [batch EXCEPT ![o].status = s, ![o].partial = partial]
    BY DEF ConfirmWrite
  <2>2. s \in Completed
    BY DEF CompletedWith, Completed
  <2> HIDE DEF s, partial
  <2> QED
    BY <1>4, <2>1, <2>2 DEF TypeOK, Batch
<1>7. CASE ConfirmFails(p)
  <2>1. pc[p] = "confirmWrite" /\ batch' = [batch EXCEPT ![loc[p].id].status = "FAILED"]
    BY <1>7 DEF ConfirmFails
  <2>2. b = loc[p].id
    BY <1>4, <2>1, OtherStatus
  <2>3. loc[p].seen[b] # None /\ loc[p].seen[b].status \notin Completed
    BY <1>4, <2>1, <2>2 DEF CallOK, HandOf, StepOf, Editable, Completed
  <2> QED
    BY <1>2, <1>3, <2>3
<1>8. CASE Skip(p) \/ Link(p)
  <2> DEFINE Reads(ks) == \A k \in ks : loc[p].seen[k] # None
  <2>1. \E ks \in SUBSET Batches :
          Reads(ks) /\ \E rows : batch' = Settled(ks, loc[p].name, loc[p].seen, rows)
    <3>1. CASE Skip(p)
      <4>1. loc[p].seen[loc[p].id] # None
        BY <1>4, <3>1 DEF CallOK, HandOf, Skip
      <4>2. {loc[p].id} \in SUBSET Batches /\ Reads({loc[p].id})
        BY <1>4, <4>1
      <4> QED
        BY <3>1, <4>2 DEF Skip
    <3>2. CASE Link(p)
      BY <3>2 DEF Link
    <3> QED
      BY <1>8, <3>1, <3>2
  <2>2. PICK ks \in SUBSET Batches :
          Reads(ks) /\ \E rows : batch' = Settled(ks, loc[p].name, loc[p].seen, rows)
    BY <2>1
  <2>3. PICK rows : batch' = Settled(ks, loc[p].name, loc[p].seen, rows)
    BY <2>2
  <2>4. b \in ks
    BY <2>3 DEF Settled
  <2> DEFINE s == Recount(loc[p].seen[b].status, batch[b].kind, rows[b], open[b] \ {loc[p].name})
  <2>5. batch'[b] = [batch[b] EXCEPT !.partial = loc[p].seen[b].partial, !.status = s]
    BY <2>3, <2>4 DEF Settled
  <2>6. loc[p].seen[b].status \in Completed => s \in Completed
    BY DEF Recount, CompletedWith, Completed
  <2> HIDE DEF s
  <2>7. batch'[b].status = s
    BY <1>4, <2>5 DEF Batch
  <2> QED
    BY <1>2, <1>3, <2>2, <2>4, <2>6, <2>7
<1>9. CASE ReparseWrite(p)
  <2> DEFINE o == loc[p].id  partial == loc[p].seen[o].partial
             s == StatusAfter(partial, batch[o].kind, loc[p].rows[o])
  <2>1. /\ pc[p] = "reparseWrite"
        /\ batch' = [batch EXCEPT ![o].status = s, ![o].partial = partial]
    BY <1>9 DEF ReparseWrite
  <2>2. partial => s \in Completed
    BY DEF StatusAfter, CompletedWith, Completed
  <2> HIDE DEF s, partial
  <2>3. b = o /\ batch'[b].status = s
    BY <1>4, <2>1 DEF TypeOK, Batch
  <2>4. loc[p].seen[b] # None
    BY <1>4, <2>1, <2>3 DEF CallOK, HandOf
  <2> QED
    BY <1>2, <1>3, <2>1, <2>2, <2>3, <2>4 DEF partial
<1> QED
  BY <1>1, <1>5, <1>6, <1>7, <1>8, <1>9

(* A completed batch is taken back only by a call that read its status     *)
(* before it was completed, and by a reparse that read no event of a       *)
(* confirmation that held unknown ids.                                     *)
THEOREM TownUncompletesOnlyStale == Spec => UncompletedOnlyByStale
<1>1. ASSUME Inv, [Next]_vars, NEW b \in Batches, Exists(b), batch[b].status \in Completed,
             batch'[b].status \notin Completed
      PROVE  \E p \in Requests :
               /\ pc[p] # "off" /\ pc'[p] = "off" /\ loc[p].seen[b] # None
               /\ \/ loc[p].seen[b].status \notin Completed
                  \/ pc[p] = "reparseWrite" /\ ~loc[p].seen[b].partial
  <2>1. batch' # batch
    BY <1>1
  <2>2. ASSUME NEW p \in Requests, Start(p) PROVE batch'[b] = batch[b]
    BY <1>1, <2>2 DEF Inv, TypeOK, Start, Upload, Confirm, Decide, Reparse, Exists
  <2>3. PICK p \in Requests : Work(p)
    BY <1>1, <2>1, <2>2 DEF Next, Abort, vars
  <2> QED
    BY <1>1, <2>3, WorkUncompletes DEF Exists
<1>2. Inv /\ [Next]_vars => [\A b \in Batches :
        Exists(b) /\ batch[b].status \in Completed /\ batch'[b].status \notin Completed =>
          \E p \in Requests :
            /\ pc[p] # "off" /\ pc'[p] = "off" /\ loc[p].seen[b] # None
            /\ \/ loc[p].seen[b].status \notin Completed
               \/ pc[p] = "reparseWrite" /\ ~loc[p].seen[b].partial]_vars
  BY <1>1
<1> QED
  BY <1>2, InvAlways, PTL DEF Spec, UncompletedOnlyByStale
=============================================================================
