--------------------------- MODULE CtiImportProofs ---------------------------
(***************************************************************************)
(* For any number of batches, names and concurrent calls: a stored row is  *)
(* linked, only a call with a stale status takes a completed batch back,   *)
(* and an automatic confirmation spares what it knew of.  No call of this  *)
(* component holds a lock, so the argument rests on what only grows: the   *)
(* batches and their files, the previews once written, and the aliases.    *)
(***************************************************************************)
EXTENDS CtiImport, TLAPS

-----------------------------------------------------------------------------
(* What a call still knows. *)

Creating == {"analyze", "status"}
Idle     == {"off", "create", "search", "bulkNew"}      \* no batch in hand
Deciding == {"resolve", "link", "put", "resolveStatus"}
Reparsing == {"reparse", "reparsePut", "reparseStatus"}
Confirming == {"confirmPreview", "confirmWrite"}

Linked(n, c) == Named[n] = c \/ \E x \in Dates : <<n, x, c>> \in alias
LinkedRows(v) == \A n \in Names : v[n] \in Casts => Linked(n, v[n])

(* K holds no batch of another content for the day of f. *)
Spared(K, f) ==
  \A o \in K : /\ o \in Batches /\ Exists(o)
               /\ DateOf[batch[o].file] = DateOf[f] => batch[o].file = f

BatchOf(p) ==
  /\ pc[p] \in Idle => loc[p].id = None
  /\ pc[p] \notin Idle => /\ loc[p].id \in Batches /\ Exists(loc[p].id)
                          /\ batch[loc[p].id].file = loc[p].file
  /\ pc[p] # "off" => loc[p].file \in Files

SeenOf(p) ==
  /\ pc[p] \in Confirming \cup Deciding => loc[p].seen = "OPEN"
  /\ pc[p] \in Reparsing => loc[p].seen \in Seen
  /\ pc[p] \notin Confirming \cup Deciding \cup Reparsing => loc[p].seen = None

PreviewOf(p) ==
  /\ pc[p] \notin Idle \cup {"analyze", "reparse", "reparsePut"} => preview[loc[p].id] # None
  /\ pc[p] = "confirmWrite" => Eligible(loc[p].file, loc[p].rows) # {}

ChoiceOf(p) ==
  /\ pc[p] \in {"resolve", "link", "put"} => loc[p].name \in Names
  /\ pc[p] = "link" => loc[p].choice \in Casts
  /\ pc[p] = "put" /\ loc[p].choice \in Casts => Linked(loc[p].name, loc[p].choice)

KnownOf(p) ==
  /\ pc[p] \in {"search", "create", "analyze", "status", "bulkCheck"} /\ loc[p].safe = TRUE
       => Spared(loc[p].known, loc[p].file)
  /\ pc[p] \in {"confirm", "confirmPreview", "confirmWrite"}
       => Spared(loc[p].known, loc[p].file)

(* The creator of a batch is alone with it until its status is written. *)
OwnerOf(p) ==
  pc[p] \in Creating =>
    /\ batch[loc[p].id].status = "VALIDATING"
    /\ \A q \in Requests \ {p} : loc[q].id # loc[p].id

CallOK(p) ==
  /\ BatchOf(p) /\ SeenOf(p) /\ PreviewOf(p) /\ ChoiceOf(p) /\ KnownOf(p) /\ OwnerOf(p)
  /\ LinkedRows(loc[p].rows)

BatchOK(b) ==
  /\ Exists(b) => Spared(batch[b].known, batch[b].file)
  /\ preview[b] # None => LinkedRows(preview[b])

StoredOK(k) ==
  fact[k] # None =>
    LET n == fact[k].name
        b == fact[k].batch
    IN /\ Exists(b) /\ DateOf[batch[b].file] = k[1]
       /\ n \in Rows[batch[b].file] \ Errors[batch[b].file]
       /\ Linked(n, k[2])

Inv ==
  /\ TypeOK
  /\ \A p \in Requests : CallOK(p)
  /\ \A b \in Batches : BatchOK(b)
  /\ \A k \in Dates \X Casts : StoredOK(k)

LEMMA BlankOK ==
  /\ Blank \in Local /\ Blank.id = None /\ Blank.seen = None /\ Blank.known = {}
  /\ LinkedRows(Blank.rows)
<1>1. [n \in Names |-> None] \in Preview
  BY DEF Preview
<1>2. LinkedRows([n \in Names |-> None])
  BY CtiAssumption DEF LinkedRows
<1> QED
  BY <1>1, <1>2 DEF Blank, Local

LEMMA InvInit == Init => Inv
<1> SUFFICES ASSUME Init PROVE Inv
  OBVIOUS
<1>1. TypeOK
  BY BlankOK DEF Init, TypeOK, Labels, Exists
<1>2. ASSUME NEW p \in Requests PROVE CallOK(p)
  BY BlankOK DEF Init, CallOK, BatchOf, SeenOf, PreviewOf, ChoiceOf, KnownOf, OwnerOf, Idle,
     Creating, Deciding, Reparsing, Confirming
<1>3. (\A b \in Batches : BatchOK(b)) /\ (\A k \in Dates \X Casts : StoredOK(k))
  BY DEF Init, BatchOK, StoredOK, Exists
<1> QED
  BY <1>1, <1>2, <1>3 DEF Inv

-----------------------------------------------------------------------------
(* What a step of p leaves the other calls. *)

Grows ==
  /\ alias \subseteq alias'
  /\ \A b \in Batches : /\ Exists(b) => Exists(b)' /\ batch'[b].file = batch[b].file
                        /\ preview[b] # None => preview'[b] # None

Apart(p) ==
  \A q \in Requests \ {p} :
    /\ pc'[q] = pc[q] /\ loc'[q] = loc[q]
    /\ pc[q] \in Creating => /\ batch'[loc[q].id].status = batch[loc[q].id].status
                             /\ loc'[p].id # loc[q].id

LEMMA LinkedStays ==
  ASSUME alias \subseteq alias', NEW n, NEW c, Linked(n, c)
  PROVE  Named[n] = c \/ \E x \in Dates : <<n, x, c>> \in alias'
BY DEF Linked

LEMMA RowsStay ==
  ASSUME alias \subseteq alias', NEW v, LinkedRows(v)
  PROVE  \A n \in Names : v[n] \in Casts =>
           Named[n] = v[n] \/ \E x \in Dates : <<n, x, v[n]>> \in alias'
BY DEF LinkedRows, Linked

LEMMA OthersKeep ==
  ASSUME Inv, Grows, NEW p \in Requests, Apart(p), NEW q \in Requests \ {p}
  PROVE  CallOK(q)'
<1>1. CallOK(q) /\ pc'[q] = pc[q] /\ loc'[q] = loc[q]
  BY DEF Inv, Apart
<1>2. BatchOf(q)' /\ SeenOf(q)' /\ PreviewOf(q)'
  BY <1>1 DEF CallOK, BatchOf, SeenOf, PreviewOf, Grows
<1>3. ChoiceOf(q)'
  BY <1>1 DEF CallOK, ChoiceOf, Linked, Grows
<1>4. KnownOf(q)'
  <2>1. ASSUME Spared(loc[q].known, loc[q].file) PROVE Spared(loc[q].known, loc[q].file)'
    BY <1>1, <2>1 DEF Grows, Spared, Exists
  <2>2. KnownOf(q)
    BY <1>1 DEF CallOK
  <2> QED
    BY <1>1, <2>1, <2>2 DEF KnownOf
<1>5. OwnerOf(q)'
  <2>1. ASSUME NEW r \in Requests \ {q}, pc[q] \in Creating PROVE loc'[r].id # loc'[q].id
    BY <1>1, <2>1 DEF CallOK, OwnerOf, Apart
  <2> QED
    BY <1>1, <2>1 DEF CallOK, OwnerOf, Apart
<1>6. LinkedRows(loc[q].rows)'
  <2>1. \A n \in Names : loc[q].rows[n] \in Casts =>
          \/ Named[n] = loc[q].rows[n]
          \/ \E x \in Dates : <<n, x, loc[q].rows[n]>> \in alias'
    BY <1>1, RowsStay DEF CallOK, Grows
  <2> QED
    BY <1>1, <2>1 DEF LinkedRows, Linked
<1> QED
  BY <1>2, <1>3, <1>4, <1>5, <1>6 DEF CallOK

(* A step that keeps what it must of the batches and of what is stored. *)
LEMMA Keep ==
  ASSUME Inv, TypeOK', Grows, NEW p \in Requests, Apart(p), CallOK(p)',
         \A b \in Batches : Exists(b)' =>
           \/ Exists(b) /\ batch'[b].known = batch[b].known
           \/ Spared(batch[b].known, batch[b].file)',
         \A b \in Batches : preview'[b] # preview[b] => LinkedRows(preview[b])',
         \A k \in Dates \X Casts : fact'[k] # fact[k] => StoredOK(k)'
  PROVE  Inv'
<1>1. \A q \in Requests : CallOK(q)'
  BY OthersKeep
<1>2. ASSUME NEW b \in Batches PROVE BatchOK(b)'
  <2>1. BatchOK(b)
    BY DEF Inv
  <2>2. (Exists(b) => Spared(batch[b].known, batch[b].file))'
    <3>1. CASE Exists(b) /\ batch'[b].known = batch[b].known
      <4>1. batch'[b].file = batch[b].file
        BY <3>1 DEF Grows
      <4>2. \A o \in batch[b].known :
              /\ o \in Batches /\ batch'[o] # None
              /\ DateOf[batch'[o].file] = DateOf[batch[b].file]
                   => batch'[o].file = batch[b].file
        <5>1. Spared(batch[b].known, batch[b].file)
          BY <2>1, <3>1 DEF BatchOK
        <5> QED
          BY <5>1 DEF Spared, Grows, Exists
      <4> QED
        BY <3>1, <4>1, <4>2 DEF Spared, Exists
    <3> QED
      BY <3>1
  <2>3. (preview[b] # None => LinkedRows(preview[b]))'
    <3>1. CASE preview'[b] = preview[b]
      <4>1. preview[b] # None => \A n \in Names : preview[b][n] \in Casts =>
              \/ Named[n] = preview[b][n]
              \/ \E x \in Dates : <<n, x, preview[b][n]>> \in alias'
        BY <2>1, RowsStay DEF BatchOK, Grows
      <4> QED
        BY <3>1, <4>1 DEF LinkedRows, Linked
    <3> QED
      BY <3>1
  <2> QED
    BY <2>2, <2>3 DEF BatchOK
<1>3. ASSUME NEW k \in Dates \X Casts PROVE StoredOK(k)'
  <2>1. CASE fact'[k] = fact[k]
    <3>1. StoredOK(k) /\ (fact[k] # None => fact[k].batch \in Batches)
      BY DEF Inv, TypeOK, Stored
    <3>2. CASE fact[k] # None
      <4>1. /\ batch'[fact[k].batch] # None
            /\ batch'[fact[k].batch].file = batch[fact[k].batch].file
        <5>1. fact[k].batch \in Batches /\ batch[fact[k].batch] # None
          BY <3>1, <3>2 DEF StoredOK, Exists
        <5> QED
          BY <5>1 DEF Grows, Exists
      <4>2. \/ Named[fact[k].name] = k[2]
            \/ \E x \in Dates : <<fact[k].name, x, k[2]>> \in alias'
        BY <3>1, <3>2, LinkedStays DEF StoredOK, Grows
      <4> QED
        BY <2>1, <3>1, <3>2, <4>1, <4>2 DEF StoredOK, Linked, Exists
    <3> QED
      BY <2>1, <3>2 DEF StoredOK
  <2> QED
    BY <2>1
<1> QED
  BY <1>1, <1>2, <1>3 DEF Inv

-----------------------------------------------------------------------------
(* Steps that only move the call on.  A batch it takes in hand is one that *)
(* nobody is creating.                                                     *)

Moved(p) ==
  /\ UNCHANGED <<batch, preview, alias, fact>>
  /\ pc' = [pc EXCEPT ![p] = pc'[p]] /\ pc'[p] \in Labels
  /\ loc' = [loc EXCEPT ![p] = loc'[p]] /\ loc'[p] \in Local

LEMMA MoveKeeps ==
  ASSUME Inv, NEW p \in Requests, Moved(p), CallOK(p)',
         \A q \in Requests \ {p} : pc[q] \in Creating => loc'[p].id # loc[q].id
  PROVE  Inv'
<1>1. TypeOK'
  BY DEF Inv, TypeOK, Moved, Exists
<1>2. Grows
  BY DEF Grows, Moved, Exists
<1>3. Apart(p)
  BY DEF Inv, TypeOK, Apart, Moved
<1>4. \A b \in Batches : Exists(b)' => Exists(b) /\ batch'[b].known = batch[b].known
  BY DEF Moved, Exists
<1>5. /\ \A b \in Batches : preview'[b] = preview[b]
      /\ \A k \in Dates \X Casts : fact'[k] = fact[k]
  BY DEF Moved
<1> QED
  BY <1>1, <1>2, <1>3, <1>4, <1>5, Keep

(* A batch that has left VALIDATING, or the one the call already has, is   *)
(* not being created by another call.                                      *)
LEMMA NotCreated ==
  ASSUME Inv, NEW p \in Requests, NEW q \in Requests \ {p}, pc[q] \in Creating
  PROVE  /\ batch[loc[q].id].status = "VALIDATING"
         /\ loc[p].id # loc[q].id
         /\ loc[q].id \in Batches /\ loc[q].id # None
  BY CtiAssumption DEF Inv, CallOK, OwnerOf, BatchOf, Idle, Creating

LEMMA ReturnKeeps ==
  ASSUME Inv, NEW p \in Requests, Return(p), UNCHANGED <<batch, preview, alias, fact>>
  PROVE  Inv'
<1>1. pc'[p] = "off" /\ loc'[p] = Blank /\ Moved(p)
  BY BlankOK DEF Return, Goto, Inv, TypeOK, Moved, Labels
<1>2. LinkedRows(loc[p].rows)'
  BY <1>1, BlankOK DEF LinkedRows, Linked, Moved
<1>3. CallOK(p)'
  BY <1>1, <1>2, BlankOK DEF CallOK, BatchOf, SeenOf, PreviewOf, ChoiceOf, KnownOf, OwnerOf,
     Idle, Creating, Deciding, Reparsing, Confirming
<1> QED
  BY <1>1, <1>3, BlankOK, NotCreated, MoveKeeps

LEMMA UploadKeeps ==
  ASSUME Inv, NEW p \in Requests, NEW f \in Files, Upload(p, f)
  PROVE  Inv'
<1> DEFINE r == [Blank EXCEPT !.file = f, !.dup = Duplicate(f)]
<1>1. /\ r \in Local /\ r.id = None /\ r.file = f /\ r.safe = None /\ r.rows = Blank.rows
      /\ r.seen = None
  BY BlankOK DEF Local, Duplicate, Blank
<1>2. pc'[p] = "create" /\ loc'[p] = r /\ Moved(p)
  BY <1>1 DEF Upload, Goto, Inv, TypeOK, Moved, Labels
<1> HIDE DEF r
<1>3. LinkedRows(loc[p].rows)'
  BY <1>1, <1>2, BlankOK DEF LinkedRows, Linked, Moved
<1>4. CallOK(p)'
  BY <1>1, <1>2, <1>3, CtiAssumption DEF CallOK, BatchOf, SeenOf, PreviewOf, ChoiceOf, KnownOf,
     OwnerOf, Idle, Creating, Deciding, Reparsing, Confirming
<1> QED
  BY <1>1, <1>2, <1>4, NotCreated, MoveKeeps

LEMMA SearchKeeps ==
  ASSUME Inv, NEW p \in Requests, Search(p)
  PROVE  Inv'
<1> DEFINE r == [loc[p] EXCEPT !.dup = Duplicate(loc[p].file)]
<1>1. CallOK(p) /\ loc[p] \in Local /\ pc[p] = "search"
  BY DEF Inv, TypeOK, Search
<1>2. /\ r \in Local /\ r.id = loc[p].id /\ r.file = loc[p].file /\ r.safe = loc[p].safe
      /\ r.rows = loc[p].rows /\ r.known = loc[p].known /\ r.seen = loc[p].seen
  BY <1>1 DEF Local, Duplicate
<1>3. pc'[p] = "create" /\ loc'[p] = r /\ Moved(p)
  BY <1>2, ZenonT(60) DEF Search, Goto, Inv, TypeOK, Moved, Labels
<1> HIDE DEF r
<1>4. LinkedRows(loc[p].rows)'
  BY <1>1, <1>2, <1>3 DEF CallOK, LinkedRows, Linked, Moved
<1>5. KnownOf(p)'
  BY <1>1, <1>2, <1>3 DEF CallOK, KnownOf, Spared, Exists, Moved
<1>6. CallOK(p)'
  BY <1>1, <1>2, <1>3, <1>4, <1>5, CtiAssumption DEF CallOK, BatchOf, SeenOf, PreviewOf,
     ChoiceOf, OwnerOf, Idle, Creating, Deciding, Reparsing, Confirming
<1> QED
  BY <1>2, <1>3, <1>6, NotCreated, MoveKeeps

LEMMA BulkKeeps ==
  ASSUME Inv, NEW p \in Requests, NEW f \in Files, NEW action \in {"VALIDATE", "CONFIRM_SAFE"},
         NEW retry \in BOOLEAN, Bulk(p, f, action, retry)
  PROVE  Inv'
<1> DEFINE r == [Blank EXCEPT !.file = f, !.bulk = action]
<1>1. /\ r \in Local /\ r.id = None /\ r.file = f /\ r.safe = None /\ r.rows = Blank.rows
      /\ r.known = {} /\ r.seen = None
  BY BlankOK DEF Local, Blank
<1>2. UNCHANGED <<batch, preview, alias, fact>>
  BY DEF Bulk
<1> HIDE DEF r
<1>3. CASE Goto(p, "bulkNew", r)
  <2>1. pc'[p] = "bulkNew" /\ loc'[p] = r /\ Moved(p)
    BY <1>1, <1>2, <1>3 DEF Goto, Inv, TypeOK, Moved, Labels
  <2>2. LinkedRows(loc[p].rows)'
    BY <1>1, <2>1, BlankOK DEF LinkedRows, Linked, Moved
  <2>3. CallOK(p)'
    BY <1>1, <2>1, <2>2, CtiAssumption DEF CallOK, BatchOf, SeenOf, PreviewOf, ChoiceOf,
       KnownOf, OwnerOf, Idle, Creating, Deciding, Reparsing, Confirming
  <2> QED
    BY <1>1, <2>1, <2>3, NotCreated, MoveKeeps
<1>4. ASSUME NEW b \in SameHash(f), batch[b].status = "PREVIEW_READY",
             \/ Goto(p, "confirm", [r EXCEPT !.id = b, !.known = batch[b].known])
             \/ Goto(p, "bulkOld", [r EXCEPT !.id = b])
      PROVE  Inv'
  <2>1. /\ b \in Batches /\ Exists(b) /\ batch[b].file = f /\ BatchOK(b) /\ batch[b] \in Batch
        /\ preview[b] # None
    BY <1>4 DEF SameHash, Inv, TypeOK, Exists, Editable
  <2>2. PICK t \in Local : /\ t.id = b /\ t.file = f /\ t.rows = Blank.rows /\ t.seen = None
                           /\ \/ t.known = batch[b].known /\ Goto(p, "confirm", t)
                              \/ Goto(p, "bulkOld", t)
    <3>1. [r EXCEPT !.id = b, !.known = batch[b].known] \in Local
      BY <1>1, <2>1 DEF Local, Batch
    <3>2. [r EXCEPT !.id = b] \in Local
      BY <1>1, <2>1 DEF Local
    <3> QED
      BY <1>1, <1>4, <3>1, <3>2 DEF Local
  <2>3. pc'[p] \in {"confirm", "bulkOld"} /\ loc'[p] = t /\ Moved(p)
    BY <1>2, <2>2 DEF Goto, Inv, TypeOK, Moved, Labels
  <2>4. LinkedRows(loc[p].rows)'
    BY <2>2, <2>3, BlankOK DEF LinkedRows, Linked, Moved
  <2>5. pc'[p] = "confirm" => Spared(loc[p].known, loc[p].file)'
    <3>1. pc'[p] = "confirm" => t.known = batch[b].known
      BY <2>2 DEF Goto, Inv, TypeOK
    <3>2. Spared(batch[b].known, f)
      BY <2>1 DEF BatchOK
    <3> QED
      BY <3>1, <3>2, <2>2, <2>3 DEF Spared, Exists, Moved
  <2>6. CallOK(p)'
    BY <1>2, <2>1, <2>2, <2>3, <2>4, <2>5, CtiAssumption DEF CallOK, BatchOf, SeenOf, PreviewOf,
       ChoiceOf, KnownOf, OwnerOf, Idle, Creating, Deciding, Reparsing, Confirming, Exists
  <2> QED
    BY <1>4, <2>2, <2>3, <2>6, NotCreated, MoveKeeps
<1> QED
  BY <1>3, <1>4 DEF Bulk, r

LEMMA BulkNewKeeps ==
  ASSUME Inv, NEW p \in Requests, BulkNew(p)
  PROVE  Inv'
<1> DEFINE r == [loc[p] EXCEPT !.safe = Corrections(loc[p].file) = {},
                               !.known = Others(loc[p].file)]
<1>1. CallOK(p) /\ loc[p] \in Local /\ pc[p] = "bulkNew"
  BY DEF Inv, TypeOK, BulkNew
<1>2. /\ r \in Local /\ r.id = loc[p].id /\ r.file = loc[p].file /\ r.rows = loc[p].rows
      /\ r.safe = (Corrections(loc[p].file) = {}) /\ r.known = Others(loc[p].file)
      /\ r.seen = loc[p].seen
  BY <1>1 DEF Local, Others
<1>3. pc'[p] = "search" /\ loc'[p] = r /\ Moved(p)
  BY <1>2, ZenonT(60) DEF BulkNew, Goto, Inv, TypeOK, Moved, Labels
<1> HIDE DEF r
<1>4. LinkedRows(loc[p].rows)'
  BY <1>1, <1>2, <1>3 DEF CallOK, LinkedRows, Linked, Moved
<1>5. loc'[p].safe = TRUE => Spared(loc[p].known, loc[p].file)'
  <2>1. Corrections(loc[p].file) = {} => Spared(Others(loc[p].file), loc[p].file)
    BY DEF Corrections, Others, Spared
  <2> QED
    BY <1>2, <1>3, <2>1, ZenonT(60) DEF Spared, Exists, Moved
<1>6. CallOK(p)'
  BY <1>1, <1>2, <1>3, <1>4, <1>5, CtiAssumption DEF CallOK, BatchOf, SeenOf, PreviewOf,
     ChoiceOf, KnownOf, OwnerOf, Idle, Creating, Deciding, Reparsing, Confirming
<1> QED
  BY <1>2, <1>3, <1>6, NotCreated, MoveKeeps

LEMMA BulkOldKeeps ==
  ASSUME Inv, NEW p \in Requests, BulkOld(p)
  PROVE  Inv'
<1> DEFINE r == [loc[p] EXCEPT !.known = Others(loc[p].file)]
<1>1. CallOK(p) /\ loc[p] \in Local /\ pc[p] = "bulkOld"
  BY DEF Inv, TypeOK, BulkOld
<1>2. /\ r \in Local /\ r.id = loc[p].id /\ r.file = loc[p].file /\ r.rows = loc[p].rows
      /\ r.known = Others(loc[p].file) /\ r.seen = loc[p].seen
  BY <1>1 DEF Local, Others
<1>3. CASE Corrections(loc[p].file) = {} /\ Goto(p, "confirm", r)
  <2>1. pc'[p] = "confirm" /\ loc'[p] = r /\ Moved(p)
    BY <1>2, <1>3 DEF BulkOld, Goto, Inv, TypeOK, Moved, Labels
  <2> HIDE DEF r
  <2>2. LinkedRows(loc[p].rows)'
    BY <1>1, <1>2, <2>1 DEF CallOK, LinkedRows, Linked, Moved
  <2>3. Spared(loc[p].known, loc[p].file)'
    <3>1. Spared(Others(loc[p].file), loc[p].file)
      BY <1>3 DEF Corrections, Others, Spared
    <3> QED
      BY <1>2, <2>1, <3>1 DEF Spared, Exists, Moved
  <2>4. CallOK(p)'
    BY <1>1, <1>2, <2>1, <2>2, <2>3 DEF CallOK, BatchOf, SeenOf, PreviewOf, ChoiceOf, KnownOf,
       OwnerOf, Idle, Creating, Deciding, Reparsing, Confirming, Exists, Moved
  <2> QED
    BY <1>2, <2>1, <2>4, NotCreated, MoveKeeps
<1>4. CASE Return(p)
  BY <1>4, ReturnKeeps DEF BulkOld
<1> QED
  BY <1>3, <1>4 DEF BulkOld, Safe

LEMMA ConfirmKeeps ==
  ASSUME Inv, NEW p \in Requests, NEW b \in Batches, NEW force \in BOOLEAN, Confirm(p, b, force)
  PROVE  Inv'
<1> DEFINE r == [Blank EXCEPT !.id = b, !.file = batch[b].file,
                              !.seen = Saw(b), !.safe = batch[b].safe]
<1>1. /\ Exists(b) /\ batch[b] \in Batch /\ batch[b].status \in Editable /\ preview[b] # None
      /\ batch[b].status # "VALIDATING" /\ Saw(b) = "OPEN"
  BY DEF Confirm, Confirmable, Saw, Inv, TypeOK, Exists, Editable
<1>2. /\ r \in Local /\ r.id = b /\ r.file = batch[b].file /\ r.seen = "OPEN"
      /\ r.rows = Blank.rows /\ r.known = {}
  BY <1>1, BlankOK DEF Local, Blank, Batch, Seen
<1>3. pc'[p] = "confirmPreview" /\ loc'[p] = r /\ Moved(p)
  BY <1>2 DEF Confirm, Goto, Inv, TypeOK, Moved, Labels
<1> HIDE DEF r
<1>4. LinkedRows(loc[p].rows)'
  BY <1>2, <1>3, BlankOK DEF LinkedRows, Linked, Moved
<1>5. KnownOf(p)'
  BY <1>2, <1>3 DEF KnownOf, Spared
<1>6. CallOK(p)'
  BY <1>1, <1>2, <1>3, <1>4, <1>5 DEF CallOK, BatchOf, SeenOf, PreviewOf, ChoiceOf, OwnerOf,
     Idle, Creating, Deciding, Reparsing, Confirming, Exists, Moved, Batch
<1> QED
  BY <1>1, <1>2, <1>3, <1>6, NotCreated, MoveKeeps

LEMMA BulkConfirmKeeps ==
  ASSUME Inv, NEW p \in Requests, BulkConfirm(p)
  PROVE  Inv'
<1> DEFINE b == loc[p].id
           r == [loc[p] EXCEPT !.seen = Saw(b), !.safe = batch[b].safe]
<1>1. CallOK(p) /\ loc[p] \in Local /\ pc[p] = "confirm" /\ b \in Batches /\ batch[b] \in Batch
  BY DEF Inv, TypeOK, BulkConfirm, CallOK, BatchOf, Idle, Exists
<1>2. /\ r \in Local /\ r.id = loc[p].id /\ r.file = loc[p].file /\ r.rows = loc[p].rows
      /\ r.known = loc[p].known /\ (batch[b].status \in Editable => r.seen = "OPEN")
  <2>1. /\ Saw(b) \in Seen
        /\ batch[b].status \in Editable => Saw(b) = "OPEN"
    BY DEF Saw, Seen, Editable
  <2>2. batch[b].safe \in BOOLEAN \cup {None}
    BY <1>1 DEF Batch
  <2>3. r.seen = Saw(b)
    BY <1>1 DEF Local
  <2> QED
    BY <1>1, <2>1, <2>2, <2>3 DEF Local
<1>3. CASE Confirmable(b, FALSE) /\ Goto(p, "confirmPreview", r)
  <2>1. pc'[p] = "confirmPreview" /\ loc'[p] = r /\ Moved(p)
    BY <1>2, <1>3 DEF BulkConfirm, Goto, Inv, TypeOK, Moved, Labels
  <2> HIDE DEF r
  <2>2. LinkedRows(loc[p].rows)'
    BY <1>1, <1>2, <2>1 DEF CallOK, LinkedRows, Linked, Moved
  <2>3. KnownOf(p)'
    BY <1>1, <1>2, <2>1 DEF CallOK, KnownOf, Spared, Exists, Moved
  <2>4. CallOK(p)'
    BY <1>1, <1>2, <1>3, <2>1, <2>2, <2>3 DEF CallOK, BatchOf, SeenOf, PreviewOf, ChoiceOf,
       OwnerOf, Confirmable, Idle, Creating, Deciding, Reparsing, Confirming, Exists, Moved
  <2> QED
    BY <1>2, <2>1, <2>4, NotCreated, MoveKeeps
<1>4. CASE Return(p)
  BY <1>4, ReturnKeeps DEF BulkConfirm
<1> QED
  BY <1>3, <1>4 DEF BulkConfirm

LEMMA ConfirmPreviewKeeps ==
  ASSUME Inv, NEW p \in Requests, ConfirmPreview(p)
  PROVE  Inv'
<1> DEFINE v == preview[loc[p].id]
           r == [loc[p] EXCEPT !.rows = v]
<1>1. CallOK(p) /\ loc[p] \in Local /\ pc[p] = "confirmPreview"
  BY DEF Inv, TypeOK, ConfirmPreview
<1>2. v \in Preview /\ LinkedRows(v)
  BY <1>1 DEF Inv, TypeOK, CallOK, BatchOf, PreviewOf, BatchOK, Idle
<1>3. /\ r \in Local /\ r.id = loc[p].id /\ r.file = loc[p].file /\ r.rows = v
      /\ r.known = loc[p].known /\ r.seen = loc[p].seen
  BY <1>1, <1>2 DEF Local
<1>4. CASE Goto(p, "confirmWrite", r) /\ Eligible(loc[p].file, v) # {}
  <2>1. pc'[p] = "confirmWrite" /\ loc'[p] = r /\ Moved(p)
    BY <1>3, <1>4 DEF ConfirmPreview, Goto, Inv, TypeOK, Moved, Labels
  <2> HIDE DEF r
  <2>2. LinkedRows(loc[p].rows)'
    BY <1>2, <1>3, <2>1 DEF LinkedRows, Linked, Moved
  <2>3. KnownOf(p)'
    BY <1>1, <1>3, <2>1 DEF CallOK, KnownOf, Spared, Exists, Moved
  <2>4. (Eligible(loc[p].file, loc[p].rows) # {})'
    BY <1>3, <1>4, <2>1 DEF Eligible
  <2>5. CallOK(p)'
    BY <1>1, <1>3, <2>1, <2>2, <2>3, <2>4 DEF CallOK, BatchOf, SeenOf, PreviewOf, ChoiceOf, OwnerOf,
       Idle, Creating, Deciding, Reparsing, Confirming, Exists, Moved
  <2> QED
    BY <1>3, <2>1, <2>5, NotCreated, MoveKeeps
<1>5. CASE Return(p)
  BY <1>5, ReturnKeeps DEF ConfirmPreview
<1> QED
  BY <1>4, <1>5 DEF ConfirmPreview

LEMMA DecideKeeps ==
  ASSUME Inv, NEW p \in Requests, NEW b \in Batches, NEW n \in Names, NEW c \in Choices,
         Decide(p, b, n, c)
  PROVE  Inv'
<1> DEFINE r == [Blank EXCEPT !.id = b, !.file = batch[b].file, !.name = n,
                              !.choice = c, !.seen = Saw(b)]
<1>1. /\ Exists(b) /\ batch[b] \in Batch /\ batch[b].status \in Editable /\ preview[b] # None
      /\ batch[b].status # "VALIDATING" /\ Saw(b) = "OPEN"
  BY DEF Decide, Saw, Inv, TypeOK, Exists, Editable
<1>2. /\ r \in Local /\ r.id = b /\ r.file = batch[b].file /\ r.seen = "OPEN"
      /\ r.rows = Blank.rows /\ r.name = n
  BY <1>1, BlankOK, CtiAssumption DEF Local, Blank, Batch, Seen
<1>3. pc'[p] = "resolve" /\ loc'[p] = r /\ Moved(p)
  BY <1>2 DEF Decide, Goto, Inv, TypeOK, Moved, Labels
<1> HIDE DEF r
<1>4. LinkedRows(loc[p].rows)'
  BY <1>2, <1>3, BlankOK DEF LinkedRows, Linked, Moved
<1>5. CallOK(p)'
  BY <1>1, <1>2, <1>3, <1>4 DEF CallOK, BatchOf, SeenOf, PreviewOf, ChoiceOf, KnownOf, OwnerOf,
     Idle, Creating, Deciding, Reparsing, Confirming, Exists, Moved, Batch
<1> QED
  BY <1>1, <1>2, <1>3, <1>5, NotCreated, MoveKeeps

LEMMA ResolvePreviewKeeps ==
  ASSUME Inv, NEW p \in Requests, ResolvePreview(p)
  PROVE  Inv'
<1> DEFINE v == preview[loc[p].id]
           r == [loc[p] EXCEPT !.rows = v]
<1>1. CallOK(p) /\ loc[p] \in Local /\ pc[p] = "resolve"
  BY DEF Inv, TypeOK, ResolvePreview
<1>2. v \in Preview /\ LinkedRows(v)
  BY <1>1 DEF Inv, TypeOK, CallOK, BatchOf, PreviewOf, BatchOK, Idle
<1>3. /\ r \in Local /\ r.id = loc[p].id /\ r.file = loc[p].file /\ r.rows = v
      /\ r.seen = loc[p].seen /\ r.name = loc[p].name /\ r.choice = loc[p].choice
  BY <1>1, <1>2 DEF Local
<1>4. /\ pc'[p] = IF loc[p].choice \in Casts THEN "link" ELSE "put"
      /\ loc'[p] = r /\ Moved(p)
  BY <1>3 DEF ResolvePreview, Goto, Inv, TypeOK, Moved, Labels
<1> HIDE DEF r
<1>5. LinkedRows(loc[p].rows)'
  BY <1>2, <1>3, <1>4 DEF LinkedRows, Linked, Moved
<1>6. CallOK(p)'
  BY <1>1, <1>3, <1>4, <1>5 DEF CallOK, BatchOf, SeenOf, PreviewOf, ChoiceOf, KnownOf, OwnerOf,
     Idle, Creating, Deciding, Reparsing, Confirming, Exists, Moved
<1> QED
  BY <1>3, <1>4, <1>6, NotCreated, MoveKeeps

LEMMA ReparseKeeps ==
  ASSUME Inv, NEW p \in Requests, NEW b \in Batches, Reparse(p, b)
  PROVE  Inv'
<1> DEFINE r == [Blank EXCEPT !.id = b, !.file = batch[b].file, !.seen = Saw(b)]
<1>1. /\ Exists(b) /\ batch[b] \in Batch /\ batch[b].status # "VALIDATING"
      /\ Saw(b) \in Seen
  BY DEF Reparse, Saw, Seen, Inv, TypeOK, Exists
<1>2. /\ r \in Local /\ r.id = b /\ r.file = batch[b].file /\ r.seen = Saw(b)
      /\ r.rows = Blank.rows
  BY <1>1, BlankOK DEF Local, Blank, Batch
<1>3. pc'[p] = "reparse" /\ loc'[p] = r /\ Moved(p)
  BY <1>2 DEF Reparse, Goto, Inv, TypeOK, Moved, Labels
<1> HIDE DEF r
<1>4. LinkedRows(loc[p].rows)'
  BY <1>2, <1>3, BlankOK DEF LinkedRows, Linked, Moved
<1>5. CallOK(p)'
  BY <1>1, <1>2, <1>3, <1>4 DEF CallOK, BatchOf, SeenOf, PreviewOf, ChoiceOf, KnownOf, OwnerOf,
     Idle, Creating, Deciding, Reparsing, Confirming, Exists, Moved, Batch
<1> QED
  BY <1>1, <1>2, <1>3, <1>5, NotCreated, MoveKeeps

-----------------------------------------------------------------------------
(* An analysis names casts only where they are linked. *)

LEMMA AnalysisLinked ==
  ASSUME TypeOK, NEW f \in Files
  PROVE  Analysis(f) \in Preview /\ LinkedRows(Analysis(f))
<1>1. ASSUME NEW n \in Names
      PROVE  /\ Resolved(n, DateOf[f]) \in Casts \cup {None}
             /\ Resolved(n, DateOf[f]) \in Casts => Linked(n, Resolved(n, DateOf[f]))
  <2> DEFINE found == {a[3] : a \in {x \in alias : x[1] = n /\ x[2] <= DateOf[f]}}
  <2>1. Resolved(n, DateOf[f]) = IF found = {} THEN Named[n]
          ELSE IF \E c \in Casts : found = {c} THEN CHOOSE c \in Casts : found = {c} ELSE None
    BY DEF Resolved
  <2>2. CASE found = {}
    BY <2>1, <2>2, CtiAssumption DEF Linked
  <2>3. CASE found # {} /\ \E c \in Casts : found = {c}
    <3>1. PICK c \in Casts : found = {c} /\ Resolved(n, DateOf[f]) = c
      BY <2>1, <2>3
    <3>2. PICK a \in alias : a[1] = n /\ a[3] = c
      BY <3>1
    <3>3. a = <<n, a[2], c>> /\ a[2] \in Dates
      BY <3>2 DEF TypeOK
    <3> QED
      BY <3>1, <3>2, <3>3 DEF Linked
  <2>4. CASE found # {} /\ ~(\E c \in Casts : found = {c})
    BY <2>1, <2>4, CtiAssumption
  <2> QED
    BY <2>2, <2>3, <2>4
<1> QED
  BY <1>1, CtiAssumption DEF Analysis, Preview, LinkedRows

LEMMA ReparseAnalyzeKeeps ==
  ASSUME Inv, NEW p \in Requests, ReparseAnalyze(p)
  PROVE  Inv'
<1> DEFINE v == Analysis(loc[p].file)
           r == [loc[p] EXCEPT !.rows = v]
<1>1. CallOK(p) /\ loc[p] \in Local /\ pc[p] = "reparse"
  BY DEF Inv, TypeOK, ReparseAnalyze
<1>2. v \in Preview /\ LinkedRows(v)
  BY <1>1, AnalysisLinked DEF Inv, CallOK, BatchOf
<1> HIDE DEF v
<1>3. /\ r \in Local /\ r.id = loc[p].id /\ r.file = loc[p].file /\ r.rows = v
      /\ r.seen = loc[p].seen
  BY <1>1, <1>2 DEF Local
<1>4. pc'[p] = "reparsePut" /\ loc'[p] = r /\ Moved(p)
  BY <1>3 DEF ReparseAnalyze, Goto, Inv, TypeOK, Moved, Labels, v
<1> HIDE DEF r
<1>5. LinkedRows(loc[p].rows)'
  BY <1>2, <1>3, <1>4 DEF LinkedRows, Linked, Moved
<1>6. CallOK(p)'
  BY <1>1, <1>3, <1>4, <1>5 DEF CallOK, BatchOf, SeenOf, PreviewOf, ChoiceOf, KnownOf, OwnerOf,
     Idle, Creating, Deciding, Reparsing, Confirming, Exists, Moved
<1> QED
  BY <1>3, <1>4, <1>6, NotCreated, MoveKeeps

-----------------------------------------------------------------------------
(* Steps that write a status. *)

Steps(p) ==
  /\ pc' = [pc EXCEPT ![p] = pc'[p]] /\ pc'[p] \in Labels
  /\ loc' = [loc EXCEPT ![p] = loc'[p]] /\ loc'[p] \in Local

LEMMA StatusKeeps ==
  ASSUME Inv, NEW p \in Requests, pc[p] \notin Idle, NEW s \in Status,
         SetStatus(loc[p].id, s), UNCHANGED <<preview, alias, fact>>,
         s \in Editable \cup {"COMPLETED"} => preview[loc[p].id] # None,
         Steps(p), loc'[p].id \in {loc[p].id, None}, CallOK(p)'
  PROVE  Inv'
<1>1. loc[p].id \in Batches /\ Exists(loc[p].id) /\ batch[loc[p].id] \in Batch /\ TypeOK
  BY DEF Inv, CallOK, BatchOf, TypeOK, Exists
<1>2. /\ batch' = [batch EXCEPT ![loc[p].id] = [batch[loc[p].id] EXCEPT !.status = s]]
      /\ [batch[loc[p].id] EXCEPT !.status = s] \in Batch
  BY <1>1 DEF SetStatus, Batch, TypeOK
<1>3. \A b \in Batches :
        /\ b # loc[p].id => batch'[b] = batch[b]
        /\ batch'[b] # None <=> batch[b] # None
        /\ batch[b] # None => batch'[b].file = batch[b].file /\ batch'[b].known = batch[b].known
  BY <1>1, <1>2, CtiAssumption DEF TypeOK, Batch, Exists
<1>4. batch'[loc[p].id].status = s
  BY <1>1, <1>2 DEF TypeOK, Batch
<1>5. TypeOK'
  <2>1. batch' \in [Batches -> Batch \cup {None}]
    BY <1>1, <1>2 DEF TypeOK
  <2>2. ASSUME NEW b \in Batches, batch'[b] # None,
               batch'[b].status \in Editable \cup {"COMPLETED"}
        PROVE  preview'[b] # None
    BY <1>1, <1>3, <1>4, <2>2 DEF TypeOK, Exists
  <2> QED
    BY <1>1, <2>1, <2>2 DEF TypeOK, Exists, Steps
<1>6. Grows
  BY <1>3 DEF Grows, Exists
<1>7. Apart(p)
  <2>1. ASSUME NEW q \in Requests \ {p}
        PROVE  pc'[q] = pc[q] /\ loc'[q] = loc[q]
    BY <1>1 DEF Steps, TypeOK
  <2> QED
    BY <1>3, <2>1, NotCreated DEF Apart
<1>8. \A b \in Batches : Exists(b)' => Exists(b) /\ batch'[b].known = batch[b].known
  BY <1>3 DEF Exists
<1> QED
  BY <1>5, <1>6, <1>7, <1>8, Keep

LEMMA StatusEnds ==
  ASSUME Inv, NEW p \in Requests, pc[p] \notin Idle, NEW s \in Status,
         SetStatus(loc[p].id, s), UNCHANGED <<preview, alias, fact>>,
         s \in Editable \cup {"COMPLETED"} => preview[loc[p].id] # None, Return(p)
  PROVE  Inv'
<1>1. pc'[p] = "off" /\ loc'[p] = Blank /\ Steps(p)
  BY BlankOK DEF Return, Goto, Inv, TypeOK, Steps, Labels
<1>2. LinkedRows(loc[p].rows)'
  BY <1>1, BlankOK DEF LinkedRows, Linked
<1>3. CallOK(p)'
  BY <1>1, <1>2, BlankOK DEF CallOK, BatchOf, SeenOf, PreviewOf, ChoiceOf, KnownOf, OwnerOf,
     Idle, Creating, Deciding, Reparsing, Confirming
<1> QED
  BY <1>1, <1>3, BlankOK, StatusKeeps

LEMMA ReadyStatus ==
  ASSUME NEW f, NEW v
  PROVE  Ready(f, v) \in Editable /\ Editable \subseteq Status
  BY DEF Ready, Editable, Status

LEMMA PutStatusKeeps ==
  ASSUME Inv, NEW p \in Requests, PutStatus(p)
  PROVE  Inv'
<1> DEFINE s == Ready(loc[p].file, loc[p].rows)
           r == loc[p]
<1>1. /\ CallOK(p) /\ loc[p] \in Local /\ pc[p] = "status" /\ pc[p] \notin Idle
      /\ s \in Status /\ SetStatus(loc[p].id, s) /\ UNCHANGED <<preview, alias, fact>>
      /\ preview[loc[p].id] # None
  BY ReadyStatus DEF Inv, TypeOK, PutStatus, Idle, CallOK, PreviewOf
<1>2. CASE Return(p)
  BY <1>1, <1>2, StatusEnds
<1>3. CASE Goto(p, "bulkCheck", r)
  <2> HIDE DEF s
  <2>2. /\ r \in Local /\ r.id = loc[p].id /\ r.file = loc[p].file /\ r.rows = loc[p].rows
        /\ r.known = loc[p].known /\ r.safe = loc[p].safe /\ r.seen = loc[p].seen
    BY <1>1
  <2>3. pc'[p] = "bulkCheck" /\ loc'[p] = r /\ Steps(p)
    BY <1>3, <2>2 DEF Goto, Inv, TypeOK, Steps, Labels
  <2> HIDE DEF r
  <2>4. LinkedRows(loc[p].rows)'
    BY <1>1, <2>2, <2>3 DEF CallOK, LinkedRows, Linked
  <2>5. \A b \in Batches : /\ batch'[b] # None <=> batch[b] # None
                           /\ batch[b] # None => batch'[b].file = batch[b].file
    <3>1. /\ loc[p].id \in Batches /\ batch[loc[p].id] \in Batch
          /\ batch \in [Batches -> Batch \cup {None}]
      BY <1>1 DEF CallOK, BatchOf, Inv, TypeOK, Exists
    <3>2. /\ batch' = [batch EXCEPT ![loc[p].id] = [batch[loc[p].id] EXCEPT !.status = s]]
          /\ [batch[loc[p].id] EXCEPT !.status = s].file = batch[loc[p].id].file
          /\ [batch[loc[p].id] EXCEPT !.status = s] \in Batch
      BY <1>1, <3>1 DEF SetStatus, Batch
    <3> QED
      BY <3>1, <3>2, CtiAssumption
  <2>6. KnownOf(p)'
    <3>1. loc'[p].safe = TRUE => Spared(loc[p].known, loc[p].file)
      BY <1>1, <2>2, <2>3 DEF CallOK, KnownOf
    <3>2. ASSUME loc'[p].safe = TRUE PROVE Spared(loc[p].known, loc[p].file)'
      BY <2>2, <2>3, <2>5, <3>1, <3>2 DEF Spared, Exists
    <3> QED
      BY <2>3, <3>2 DEF KnownOf
  <2>7. CallOK(p)'
    BY <1>1, <2>2, <2>3, <2>4, <2>5, <2>6 DEF CallOK, BatchOf, SeenOf, PreviewOf, ChoiceOf,
       OwnerOf, Idle, Creating, Deciding, Reparsing, Confirming, Exists
  <2> QED
    BY <1>1, <2>2, <2>3, <2>7, StatusKeeps
<1> QED
  BY <1>2, <1>3 DEF PutStatus

LEMMA CreateFailsKeeps ==
  ASSUME Inv, NEW p \in Requests, CreateFails(p)
  PROVE  Inv'
  BY StatusEnds DEF CreateFails, Idle, Status, Editable

LEMMA ConfirmFailsKeeps ==
  ASSUME Inv, NEW p \in Requests, ConfirmFails(p)
  PROVE  Inv'
  BY StatusEnds DEF ConfirmFails, Idle, Status, Editable

LEMMA ResolveStatusKeeps ==
  ASSUME Inv, NEW p \in Requests, ResolveStatus(p)
  PROVE  Inv'
<1>1. pc[p] \notin Idle /\ preview[loc[p].id] # None
  BY DEF Inv, CallOK, PreviewOf, ResolveStatus, Idle
<1> QED
  BY <1>1, StatusEnds, ReadyStatus DEF ResolveStatus

LEMMA ReparseStatusKeeps ==
  ASSUME Inv, NEW p \in Requests, ReparseStatus(p)
  PROVE  Inv'
<1>1. pc[p] \notin Idle /\ preview[loc[p].id] # None
  BY DEF Inv, CallOK, PreviewOf, ReparseStatus, Idle
<1>2. StatusAfter(loc[p].seen, loc[p].file, loc[p].rows) \in Status
  BY ReadyStatus DEF StatusAfter, Status
<1> QED
  BY <1>1, <1>2, StatusEnds DEF ReparseStatus

-----------------------------------------------------------------------------
(* Steps that write a row of import_batches and more. *)

(* A new batch: its creator is the only call that has it. *)
LEMMA CreateKeeps ==
  ASSUME Inv, NEW p \in Requests, NEW b \in Batches, Create(p, b)
  PROVE  Inv'
<1> DEFINE r == [loc[p] EXCEPT !.id = b, !.dup = FALSE]
           new == [file |-> loc[p].file, status |-> "VALIDATING", dup |-> loc[p].dup,
                   known |-> {}, safe |-> IF loc[p].bulk = "" THEN None ELSE FALSE]
<1>1. /\ CallOK(p) /\ loc[p] \in Local /\ pc[p] = "create" /\ loc[p].file \in Files
      /\ batch[b] = None /\ TypeOK
  BY DEF Inv, TypeOK, Create, CallOK, BatchOf, Exists
<1>2. /\ new \in Batch /\ new.file = loc[p].file /\ new.status = "VALIDATING" /\ new.known = {}
  BY <1>1 DEF Batch, Status, Local
<1>3. /\ r \in Local /\ r.id = b /\ r.file = loc[p].file /\ r.safe = loc[p].safe
      /\ r.rows = loc[p].rows /\ r.known = loc[p].known /\ r.seen = loc[p].seen
  BY <1>1 DEF Local
<1>4. /\ batch' = [batch EXCEPT ![b] = new] /\ pc'[p] = "analyze" /\ loc'[p] = r /\ Steps(p)
      /\ UNCHANGED <<preview, alias, fact>>
  BY <1>1, <1>3 DEF Create, Goto, TypeOK, Steps, Labels
<1> HIDE DEF r, new
<1>5. /\ batch'[b] = new /\ new # None
      /\ \A o \in Batches : o # b => batch'[o] = batch[o]
  BY <1>1, <1>2, <1>4, CtiAssumption DEF TypeOK
<1>6. TypeOK'
  <2>1. batch' \in [Batches -> Batch \cup {None}]
    BY <1>1, <1>2, <1>4 DEF TypeOK
  <2>2. ASSUME NEW o \in Batches, batch'[o] # None,
               batch'[o].status \in Editable \cup {"COMPLETED"}
        PROVE  preview'[o] # None
    BY <1>1, <1>2, <1>4, <1>5, <2>2 DEF TypeOK, Exists, Editable
  <2> QED
    BY <1>1, <1>4, <2>1, <2>2 DEF TypeOK, Exists, Steps
<1>7. Grows
  BY <1>1, <1>4, <1>5 DEF Grows, Exists
(* Whatever another call has in hand existed before. *)
<1>8. \A q \in Requests \ {p} : loc[q].id # b
  BY <1>1, CtiAssumption DEF Inv, CallOK, BatchOf, Idle, Exists
<1>9. Apart(p)
  <2>1. ASSUME NEW q \in Requests \ {p}
        PROVE  pc'[q] = pc[q] /\ loc'[q] = loc[q]
    BY <1>1, <1>4 DEF Steps, TypeOK
  <2> QED
    BY <1>3, <1>4, <1>5, <1>8, <2>1, NotCreated DEF Apart
<1>10. LinkedRows(loc[p].rows)'
  BY <1>1, <1>3, <1>4 DEF CallOK, LinkedRows, Linked
<1>11. KnownOf(p)'
  <2>1. ASSUME loc'[p].safe = TRUE PROVE Spared(loc[p].known, loc[p].file)'
    <3>1. Spared(loc[p].known, loc[p].file)
      BY <1>1, <1>3, <1>4, <2>1 DEF CallOK, KnownOf
    <3> QED
      BY <1>1, <1>3, <1>4, <1>5, <3>1 DEF Spared, Exists
  <2> QED
    BY <1>4, <2>1 DEF KnownOf
<1>12. OwnerOf(p)'
  <2>1. ASSUME NEW q \in Requests \ {p} PROVE loc'[q].id # loc'[p].id
    BY <1>3, <1>4, <1>8, <1>9 DEF Apart
  <2> QED
    BY <1>2, <1>3, <1>4, <1>5, <2>1 DEF OwnerOf
<1>13. CallOK(p)'
  BY <1>1, <1>2, <1>3, <1>4, <1>5, <1>10, <1>11, <1>12 DEF CallOK, BatchOf, SeenOf, PreviewOf,
     ChoiceOf, Idle, Deciding, Reparsing, Confirming, Exists
<1>14. \A o \in Batches : Exists(o)' =>
         \/ Exists(o) /\ batch'[o].known = batch[o].known
         \/ Spared(batch[o].known, batch[o].file)'
  BY <1>2, <1>5 DEF Exists, Spared
<1> QED
  BY <1>4, <1>6, <1>7, <1>9, <1>13, <1>14, Keep

(* A bulk call writes what it found with the corrections it knew of. *)
LEMMA BulkCheckKeeps ==
  ASSUME Inv, NEW p \in Requests, BulkCheck(p)
  PROVE  Inv'
<1> DEFINE b == loc[p].id
           safe == loc[p].safe = TRUE /\ Safe(loc[p].file, preview[b], {})
           known == IF safe THEN loc[p].known ELSE {}
           new == [batch[b] EXCEPT !.safe = safe, !.known = known]
           r == [loc[p] EXCEPT !.safe = None, !.rows = Blank.rows]
<1>1. /\ CallOK(p) /\ loc[p] \in Local /\ pc[p] = "bulkCheck" /\ TypeOK
      /\ b \in Batches /\ batch[b] \in Batch /\ batch[b] # None /\ batch[b].file = loc[p].file
      /\ preview[b] # None
  BY DEF Inv, TypeOK, BulkCheck, CallOK, BatchOf, PreviewOf, Idle, Exists
<1>2. /\ safe \in BOOLEAN
      /\ safe => Spared(loc[p].known, loc[p].file)
      /\ Spared(known, loc[p].file) /\ known \subseteq Batches
  BY <1>1 DEF CallOK, KnownOf, Spared, Local
<1>3. /\ r \in Local /\ r.id = loc[p].id /\ r.file = loc[p].file
      /\ r.rows = Blank.rows /\ r.known = loc[p].known /\ r.seen = loc[p].seen
  <2>1. Blank.rows \in Preview
    BY BlankOK DEF Local
  <2> QED
    BY <1>1, <2>1 DEF Local
<1>4. /\ batch' = [batch EXCEPT ![b] = new] /\ UNCHANGED <<preview, alias, fact>>
      /\ \/ safe /\ Goto(p, "confirm", r)
         \/ Return(p)
  BY <1>1 DEF BulkCheck, TypeOK, Batch
<1>5. /\ new \in Batch /\ new.file = batch[b].file /\ new.known = known
      /\ new.status = batch[b].status
  BY <1>1, <1>2 DEF Batch
<1> HIDE DEF new, known, safe, r
<1>6. /\ \A o \in Batches : o # b => batch'[o] = batch[o]
      /\ batch'[b] = new /\ new # None
  BY <1>1, <1>4, <1>5, CtiAssumption DEF TypeOK
<1>7. \A o \in Batches : /\ batch'[o] # None <=> batch[o] # None
                         /\ batch[o] # None => /\ batch'[o].file = batch[o].file
                                               /\ batch'[o].status = batch[o].status
  BY <1>1, <1>5, <1>6
<1>8. Steps(p) /\ \/ safe /\ pc'[p] = "confirm" /\ loc'[p] = r
                  \/ pc'[p] = "off" /\ loc'[p] = Blank
  BY <1>1, <1>3, <1>4, BlankOK DEF Goto, Return, TypeOK, Steps, Labels
<1>9. TypeOK'
  <2>1. batch' \in [Batches -> Batch \cup {None}]
    BY <1>1, <1>4, <1>5 DEF TypeOK
  <2> QED
    BY <1>1, <1>4, <1>7, <1>8, <2>1 DEF TypeOK, Exists, Steps
<1>10. Grows
  BY <1>4, <1>7 DEF Grows, Exists
<1>11. Apart(p)
  <2>1. ASSUME NEW q \in Requests \ {p}
        PROVE  pc'[q] = pc[q] /\ loc'[q] = loc[q]
    BY <1>1, <1>8 DEF Steps, TypeOK
  <2>2. loc'[p].id \in {loc[p].id, None}
    BY <1>3, <1>8, BlankOK
  <2>3. ASSUME NEW q \in Requests \ {p}, pc[q] \in Creating
        PROVE  batch'[loc[q].id].status = batch[loc[q].id].status /\ loc'[p].id # loc[q].id
    <3>1. loc[q].id \in Batches /\ loc[q].id # None /\ loc[p].id # loc[q].id
      BY <2>3, NotCreated
    <3> QED
      BY <1>6, <2>2, <3>1
  <2> QED
    BY <2>1, <2>3 DEF Apart
<1>12. LinkedRows(loc[p].rows)'
  BY <1>3, <1>4, <1>8, BlankOK DEF LinkedRows, Linked
<1>13. safe => Spared(loc[p].known, loc[p].file)
  BY <1>2
<1>14. KnownOf(p)'
  <2>1. CASE safe /\ pc'[p] = "confirm" /\ loc'[p] = r
    <3>1. Spared(loc[p].known, loc[p].file)
      BY <1>13, <2>1
    <3>2. Spared(loc[p].known, loc[p].file)'
      BY <1>3, <1>7, <2>1, <3>1 DEF Spared, Exists
    <3> QED
      BY <2>1, <3>2 DEF KnownOf
  <2>2. CASE pc'[p] = "off"
    BY <2>2 DEF KnownOf
  <2> QED
    BY <1>8, <2>1, <2>2
<1>15. CallOK(p)'
  BY <1>1, <1>3, <1>4, <1>7, <1>8, <1>12, <1>14, BlankOK DEF CallOK, BatchOf, SeenOf, PreviewOf,
     ChoiceOf, OwnerOf, Idle, Creating, Deciding, Reparsing, Confirming, Exists
<1>16. ASSUME NEW o \in Batches, Exists(o)'
       PROVE  \/ Exists(o) /\ batch'[o].known = batch[o].known
              \/ Spared(batch[o].known, batch[o].file)'
  <2>1. CASE o # b
    BY <1>6, <1>16, <2>1 DEF Exists
  <2>2. CASE o = b
    <3>1. Spared(known, loc[p].file)
      BY <1>2
    <3>2. batch'[o].known = known /\ batch'[o].file = loc[p].file
      BY <1>1, <1>5, <1>6, <2>2
    <3> QED
      BY <1>7, <3>1, <3>2 DEF Spared, Exists
  <2> QED
    BY <2>1, <2>2
<1> QED
  BY <1>4, <1>9, <1>10, <1>11, <1>15, <1>16, Keep

-----------------------------------------------------------------------------
(* Steps that write the preview or an alias. *)

LEMMA PutKeeps ==
  ASSUME Inv, NEW p \in Requests, pc[p] \notin Idle, NEW v \in Preview, LinkedRows(v),
         preview' = [preview EXCEPT ![loc[p].id] = v], UNCHANGED <<batch, alias, fact>>,
         Steps(p), loc'[p].id = loc[p].id, CallOK(p)'
  PROVE  Inv'
<1>1. loc[p].id \in Batches /\ v # None /\ TypeOK
  BY CtiAssumption DEF Inv, CallOK, BatchOf
<1>2. \A b \in Batches : preview[b] # None => preview'[b] # None
  BY <1>1 DEF TypeOK
<1>3. TypeOK'
  <2>1. preview' \in [Batches -> Preview \cup {None}]
    BY <1>1 DEF TypeOK
  <2> QED
    BY <1>1, <1>2, <2>1 DEF TypeOK, Exists, Steps
<1>4. Grows
  BY <1>2 DEF Grows, Exists
<1>5. Apart(p)
  <2>1. ASSUME NEW q \in Requests \ {p}
        PROVE  pc'[q] = pc[q] /\ loc'[q] = loc[q]
    BY <1>1 DEF Steps, TypeOK
  <2> QED
    BY <2>1, NotCreated DEF Apart
<1>6. ASSUME NEW b \in Batches, preview'[b] # preview[b] PROVE LinkedRows(preview[b])'
  <2>1. preview'[b] = v
    BY <1>1, <1>6 DEF TypeOK
  <2> QED
    BY <2>1 DEF LinkedRows, Linked
<1>7. \A b \in Batches : Exists(b)' => Exists(b) /\ batch'[b].known = batch[b].known
  BY DEF Exists
<1> QED
  BY <1>3, <1>4, <1>5, <1>6, <1>7, Keep

LEMMA AnalyzeKeeps ==
  ASSUME Inv, NEW p \in Requests, Analyze(p)
  PROVE  Inv'
<1> DEFINE v == Analysis(loc[p].file)
           r == [loc[p] EXCEPT !.rows = v]
<1>1. CallOK(p) /\ loc[p] \in Local /\ pc[p] = "analyze" /\ pc[p] \notin Idle
  BY DEF Inv, TypeOK, Analyze, Idle
<1>2. v \in Preview /\ LinkedRows(v)
  BY <1>1, AnalysisLinked DEF Inv, CallOK, BatchOf
<1> HIDE DEF v
<1>3. /\ r \in Local /\ r.id = loc[p].id /\ r.file = loc[p].file /\ r.rows = v
      /\ r.known = loc[p].known /\ r.safe = loc[p].safe /\ r.seen = loc[p].seen
  BY <1>1, <1>2 DEF Local
<1>4. /\ preview' = [preview EXCEPT ![loc[p].id] = v] /\ UNCHANGED <<batch, alias, fact>>
      /\ pc'[p] = "status" /\ loc'[p] = r /\ Steps(p)
  BY <1>3 DEF Analyze, Goto, Inv, TypeOK, Steps, Labels, v
<1> HIDE DEF r
<1>5. LinkedRows(loc[p].rows)'
  BY <1>2, <1>3, <1>4 DEF LinkedRows, Linked
<1>6. KnownOf(p)'
  BY <1>1, <1>3, <1>4 DEF CallOK, KnownOf, Spared, Exists
<1>7. PreviewOf(p)'
  <2>1. loc[p].id \in Batches /\ preview'[loc[p].id] = v /\ v # None
    BY <1>1, <1>2, <1>4, CtiAssumption DEF CallOK, BatchOf, Inv, TypeOK
  <2> QED
    BY <1>3, <1>4, <2>1 DEF PreviewOf
<1>8. OwnerOf(p)'
  <2>1. ASSUME NEW q \in Requests \ {p} PROVE loc'[q].id # loc'[p].id
    BY <1>1, <1>3, <1>4 DEF CallOK, OwnerOf, Creating, Steps, Inv, TypeOK
  <2> QED
    BY <1>1, <1>3, <1>4, <2>1 DEF CallOK, OwnerOf, Creating
<1>9. CallOK(p)'
  BY <1>1, <1>3, <1>4, <1>5, <1>6, <1>7, <1>8 DEF CallOK, BatchOf, SeenOf, ChoiceOf, Idle,
     Deciding, Reparsing, Confirming, Exists
<1> QED
  BY <1>1, <1>2, <1>3, <1>4, <1>9, PutKeeps

LEMMA ReparsePutKeeps ==
  ASSUME Inv, NEW p \in Requests, ReparsePut(p)
  PROVE  Inv'
<1>1. /\ CallOK(p) /\ loc[p] \in Local /\ pc[p] = "reparsePut" /\ pc[p] \notin Idle
      /\ loc[p].rows \in Preview /\ LinkedRows(loc[p].rows) /\ loc[p].id \in Batches
  BY DEF Inv, TypeOK, ReparsePut, Idle, Local, CallOK, BatchOf
<1>2. /\ preview' = [preview EXCEPT ![loc[p].id] = loc[p].rows]
      /\ UNCHANGED <<batch, alias, fact>>
      /\ pc'[p] = "reparseStatus" /\ loc'[p] = loc[p] /\ Steps(p)
  BY <1>1 DEF ReparsePut, Goto, Inv, TypeOK, Steps, Labels
<1>3. LinkedRows(loc[p].rows)'
  BY <1>1, <1>2 DEF LinkedRows, Linked
<1>4. PreviewOf(p)'
  <2>1. preview'[loc[p].id] = loc[p].rows /\ loc[p].rows # None
    BY <1>1, <1>2, CtiAssumption DEF Inv, TypeOK
  <2> QED
    BY <1>2, <2>1 DEF PreviewOf
<1>5. CallOK(p)'
  BY <1>1, <1>2, <1>3, <1>4 DEF CallOK, BatchOf, SeenOf, ChoiceOf, KnownOf, OwnerOf, Idle,
     Creating, Deciding, Reparsing, Confirming, Exists
<1> QED
  BY <1>1, <1>2, <1>5, PutKeeps

LEMMA ResolvePutKeeps ==
  ASSUME Inv, NEW p \in Requests, ResolvePut(p)
  PROVE  Inv'
<1> DEFINE v == [loc[p].rows EXCEPT ![loc[p].name] = loc[p].choice]
           r == [loc[p] EXCEPT !.rows = v, !.name = None, !.choice = None]
<1>1. /\ CallOK(p) /\ loc[p] \in Local /\ pc[p] = "put" /\ pc[p] \notin Idle
      /\ loc[p].rows \in Preview /\ LinkedRows(loc[p].rows) /\ loc[p].id \in Batches
      /\ loc[p].name \in Names /\ loc[p].choice \in Casts \cup {Skipped, None}
  BY DEF Inv, TypeOK, ResolvePut, Idle, Local, CallOK, BatchOf, ChoiceOf
<1>2. v \in Preview
  BY <1>1 DEF Preview
<1>3. LinkedRows(v)
  <2>1. loc[p].choice \in Casts => Linked(loc[p].name, loc[p].choice)
    BY <1>1 DEF CallOK, ChoiceOf
  <2>2. \A n \in Names : v[n] = IF n = loc[p].name THEN loc[p].choice ELSE loc[p].rows[n]
    BY <1>1 DEF Preview
  <2> QED
    BY <1>1, <2>1, <2>2 DEF LinkedRows
<1> HIDE DEF v
<1>4. /\ r \in Local /\ r.id = loc[p].id /\ r.file = loc[p].file /\ r.rows = v
      /\ r.seen = loc[p].seen
  BY <1>1, <1>2 DEF Local
<1>5. /\ preview' = [preview EXCEPT ![loc[p].id] = v] /\ UNCHANGED <<batch, alias, fact>>
      /\ pc'[p] = "resolveStatus" /\ loc'[p] = r /\ Steps(p)
  BY <1>4 DEF ResolvePut, Goto, Inv, TypeOK, Steps, Labels, v
<1> HIDE DEF r
<1>6. LinkedRows(loc[p].rows)'
  BY <1>3, <1>4, <1>5 DEF LinkedRows, Linked
<1>7. PreviewOf(p)'
  <2>1. preview'[loc[p].id] = v /\ v # None
    BY <1>1, <1>2, <1>5, CtiAssumption DEF Inv, TypeOK
  <2> QED
    BY <1>4, <1>5, <2>1 DEF PreviewOf
<1>8. CallOK(p)'
  BY <1>1, <1>4, <1>5, <1>6, <1>7 DEF CallOK, BatchOf, SeenOf, ChoiceOf, KnownOf, OwnerOf, Idle,
     Creating, Deciding, Reparsing, Confirming, Exists
<1> QED
  BY <1>1, <1>2, <1>3, <1>4, <1>5, <1>8, PutKeeps

LEMMA LinkKeeps ==
  ASSUME Inv, NEW p \in Requests, Link(p)
  PROVE  Inv'
<1> DEFINE n == loc[p].name  c == loc[p].choice  d == DateOf[loc[p].file]
<1>1. /\ CallOK(p) /\ loc[p] \in Local /\ pc[p] = "link" /\ pc[p] \notin Idle /\ TypeOK
      /\ n \in Names /\ c \in Casts /\ d \in Dates
  BY CtiAssumption DEF Inv, TypeOK, Link, Idle, Local, CallOK, BatchOf, ChoiceOf
<1>2. /\ alias \subseteq alias' /\ alias' \subseteq Names \X Dates \X Casts
      /\ \E x \in Dates : <<n, x, c>> \in alias'
  <2>1. \/ (\E x \in Dates : <<n, x, c>> \in alias) /\ alias' = alias
        \/ alias' = alias \cup {<<n, d, c>>}
    BY DEF Link
  <2>2. n \in Names /\ c \in Casts /\ d \in Dates /\ alias \subseteq Names \X Dates \X Casts
    BY <1>1 DEF TypeOK
  <2> HIDE DEF n, c, d
  <2>3. <<n, d, c>> \in Names \X Dates \X Casts
    BY <2>2
  <2>4. CASE alias' = alias
    BY <2>1, <2>2, <2>3, <2>4
  <2>5. CASE alias' = alias \cup {<<n, d, c>>}
    BY <2>2, <2>3, <2>5
  <2> QED
    BY <2>1, <2>4, <2>5
<1>3. /\ UNCHANGED <<batch, preview, fact>>
      /\ pc'[p] = "put" /\ loc'[p] = loc[p] /\ Steps(p)
  BY <1>1 DEF Link, Goto, TypeOK, Steps, Labels
<1>4. TypeOK'
  BY <1>1, <1>2, <1>3 DEF TypeOK, Exists, Steps
<1>5. Grows
  BY <1>2, <1>3 DEF Grows, Exists
<1>6. Apart(p)
  <2>1. ASSUME NEW q \in Requests \ {p}
        PROVE  pc'[q] = pc[q] /\ loc'[q] = loc[q]
    BY <1>1, <1>3 DEF Steps, TypeOK
  <2> QED
    BY <1>3, <2>1, NotCreated DEF Apart
<1>7. LinkedRows(loc[p].rows)'
  BY <1>1, <1>2, <1>3 DEF CallOK, LinkedRows, Linked
<1>8. ChoiceOf(p)'
  BY <1>1, <1>2, <1>3 DEF ChoiceOf, Linked
<1>9. CallOK(p)'
  BY <1>1, <1>3, <1>7, <1>8 DEF CallOK, BatchOf, SeenOf, PreviewOf, KnownOf, OwnerOf, Idle,
     Creating, Deciding, Reparsing, Confirming, Exists
<1>10. \A b \in Batches : Exists(b)' => Exists(b) /\ batch'[b].known = batch[b].known
  BY <1>3 DEF Exists
<1> QED
  BY <1>3, <1>4, <1>5, <1>6, <1>9, <1>10, Keep

-----------------------------------------------------------------------------
(* The confirmation. *)

LEMMA StoredFrom ==
  ASSUME Inv, NEW p \in Requests, ConfirmWrite(p), NEW k \in Dates \X Casts
  PROVE  /\ fact'[k] \in Stored \cup {None}
         /\ fact'[k] # fact[k] =>
              \E n \in Names :
                /\ fact'[k] = [batch |-> loc[p].id, name |-> n]
                /\ n \in Rows[loc[p].file] \ Errors[loc[p].file]
                /\ k[1] = DateOf[loc[p].file] /\ k[2] \in Casts /\ loc[p].rows[n] = k[2]
<1> DEFINE rowsOf == {n \in Eligible(loc[p].file, loc[p].rows) :
                        k = <<DateOf[loc[p].file], loc[p].rows[n]>>}
<1>1. /\ loc[p].id \in Batches /\ loc[p].file \in Files /\ fact[k] \in Stored \cup {None}
      /\ Rows[loc[p].file] \subseteq Names
  BY CtiAssumption DEF Inv, CallOK, BatchOf, ConfirmWrite, Idle, TypeOK
<1>2. PICK last \in [Casts -> Names] :
        /\ rowsOf # {} => last[k[2]] \in rowsOf
        /\ fact'[k] = IF rowsOf # {} THEN [batch |-> loc[p].id, name |-> last[k[2]]] ELSE fact[k]
  BY DEF ConfirmWrite
<1>3. CASE rowsOf # {}
  <2>1. last[k[2]] \in rowsOf /\ fact'[k] = [batch |-> loc[p].id, name |-> last[k[2]]]
    BY <1>2, <1>3
  <2>2. last[k[2]] \in Names /\ fact'[k] \in Stored
    BY <1>1, <2>1 DEF Eligible, Stored
  <2> QED
    BY <2>1, <2>2 DEF Eligible
<1>4. CASE rowsOf = {}
  BY <1>1, <1>2, <1>4
<1> QED
  BY <1>3, <1>4

LEMMA ConfirmWriteKeeps ==
  ASSUME Inv, NEW p \in Requests, ConfirmWrite(p)
  PROVE  Inv'
<1> DEFINE b == loc[p].id
           new == [batch[b] EXCEPT !.status = "COMPLETED", !.safe = loc[p].safe]
<1>1. /\ CallOK(p) /\ loc[p] \in Local /\ pc[p] = "confirmWrite" /\ TypeOK
      /\ b \in Batches /\ batch[b] \in Batch /\ batch[b] # None /\ batch[b].file = loc[p].file
      /\ preview[b] # None /\ LinkedRows(loc[p].rows)
  BY DEF Inv, TypeOK, ConfirmWrite, CallOK, BatchOf, PreviewOf, Idle, Exists
<1>2. /\ batch' = [batch EXCEPT ![b] = new] /\ UNCHANGED <<preview, alias>>
      /\ pc' = [pc EXCEPT ![p] = "off"] /\ loc' = [loc EXCEPT ![p] = Blank]
  BY <1>1 DEF ConfirmWrite, Return, Goto, TypeOK, Batch
<1>3. /\ new \in Batch /\ new.file = batch[b].file /\ new.known = batch[b].known
      /\ new.status = "COMPLETED"
  BY <1>1 DEF Batch, Status, Local
<1> HIDE DEF new
<1>4. /\ \A o \in Batches : o # b => batch'[o] = batch[o]
      /\ batch'[b] = new /\ new # None
  BY <1>1, <1>2, <1>3, CtiAssumption DEF TypeOK
<1>5. \A o \in Batches :
        /\ batch'[o] # None <=> batch[o] # None
        /\ batch[o] # None => batch'[o].file = batch[o].file /\ batch'[o].known = batch[o].known
  BY <1>1, <1>3, <1>4
<1>6. pc'[p] = "off" /\ loc'[p] = Blank /\ Steps(p)
  BY <1>1, <1>2, BlankOK DEF TypeOK, Steps, Labels
<1>7. TypeOK'
  <2>1. batch' \in [Batches -> Batch \cup {None}]
    BY <1>1, <1>2, <1>3 DEF TypeOK
  <2>2. ASSUME NEW o \in Batches, batch'[o] # None,
               batch'[o].status \in Editable \cup {"COMPLETED"}
        PROVE  preview'[o] # None
    BY <1>1, <1>2, <1>4, <2>2 DEF TypeOK, Exists
  <2>3. fact' \in [Dates \X Casts -> Stored \cup {None}]
    <3>1. \E last \in [Casts -> Names] : fact' = [k \in Dates \X Casts |->
            IF {n \in Eligible(loc[p].file, loc[p].rows) :
                  k = <<DateOf[loc[p].file], loc[p].rows[n]>>} # {}
            THEN [batch |-> b, name |-> last[k[2]]] ELSE fact[k]]
      BY DEF ConfirmWrite
    <3>2. \A k \in Dates \X Casts : fact'[k] \in Stored \cup {None}
      BY StoredFrom
    <3> QED
      BY <3>1, <3>2
  <2> QED
    BY <1>1, <1>2, <1>6, <2>1, <2>2, <2>3 DEF TypeOK, Exists, Steps
<1>8. Grows
  BY <1>2, <1>5 DEF Grows, Exists
<1>9. Apart(p)
  <2>1. ASSUME NEW q \in Requests \ {p}
        PROVE  pc'[q] = pc[q] /\ loc'[q] = loc[q]
    BY <1>1, <1>6 DEF Steps, TypeOK
  <2>2. ASSUME NEW q \in Requests \ {p}, pc[q] \in Creating
        PROVE  batch'[loc[q].id].status = batch[loc[q].id].status /\ loc'[p].id # loc[q].id
    <3>1. loc[q].id \in Batches /\ loc[q].id # None /\ loc[p].id # loc[q].id
      BY <2>2, NotCreated
    <3> QED
      BY <1>4, <1>6, <3>1, BlankOK
  <2> QED
    BY <2>1, <2>2 DEF Apart
<1>10. CallOK(p)'
  <2>1. LinkedRows(loc[p].rows)'
    <3>1. alias' = alias /\ loc'[p].rows = Blank.rows
      BY <1>2, <1>6
    <3>2. \A n \in Names : Blank.rows[n] \in Casts =>
            Named[n] = Blank.rows[n] \/ \E x \in Dates : <<n, x, Blank.rows[n]>> \in alias'
      BY <3>1, BlankOK, RowsStay
    <3> QED
      BY <3>1, <3>2 DEF LinkedRows, Linked
  <2> QED
    BY <1>6, <2>1, BlankOK DEF CallOK, BatchOf, SeenOf, PreviewOf, ChoiceOf, KnownOf, OwnerOf,
       Idle, Creating, Deciding, Reparsing, Confirming
<1>11. ASSUME NEW k \in Dates \X Casts, fact'[k] # fact[k] PROVE StoredOK(k)'
  <2>1. PICK n \in Names : /\ fact'[k] = [batch |-> b, name |-> n]
                           /\ n \in Rows[loc[p].file] \ Errors[loc[p].file]
                           /\ k[1] = DateOf[loc[p].file] /\ k[2] \in Casts
                           /\ loc[p].rows[n] = k[2]
    BY <1>11, StoredFrom
  <2>2. fact'[k].batch = b /\ fact'[k].name = n
    BY <2>1
  <2>3. batch'[b] # None /\ batch'[b].file = loc[p].file
    BY <1>1, <1>5
  <2>4. Linked(n, k[2])
    BY <1>1, <2>1 DEF LinkedRows
  <2>5. Named[n] = k[2] \/ \E x \in Dates : <<n, x, k[2]>> \in alias'
    BY <1>2, <2>4 DEF Linked
  <2> QED
    BY <2>1, <2>2, <2>3, <2>5 DEF StoredOK, Exists, Linked
<1>12. \A o \in Batches : Exists(o)' => Exists(o) /\ batch'[o].known = batch[o].known
  BY <1>5 DEF Exists
<1> QED
  BY <1>2, <1>7, <1>8, <1>9, <1>10, <1>11, <1>12, Keep

-----------------------------------------------------------------------------
(* The invariant, and what follows from it. *)

LEMMA InvNext == Inv /\ [Next]_vars => Inv'
<1> SUFFICES ASSUME Inv, [Next]_vars PROVE Inv'
  OBVIOUS
<1>1. ASSUME NEW p \in Requests, Start(p) PROVE Inv'
  BY <1>1, UploadKeeps, BulkKeeps, ConfirmKeeps, DecideKeeps, ReparseKeeps DEF Start
<1>2. ASSUME NEW p \in Requests, Work(p) PROVE Inv'
  BY <1>2, SearchKeeps, CreateKeeps, AnalyzeKeeps, PutStatusKeeps, CreateFailsKeeps,
     BulkNewKeeps, BulkOldKeeps, BulkCheckKeeps, BulkConfirmKeeps,
     ConfirmPreviewKeeps, ConfirmWriteKeeps, ConfirmFailsKeeps,
     ResolvePreviewKeeps, LinkKeeps, ResolvePutKeeps, ResolveStatusKeeps,
     ReparseAnalyzeKeeps, ReparsePutKeeps, ReparseStatusKeeps DEF Work
<1>3. ASSUME NEW p \in Requests, Abort(p) PROVE Inv'
  BY <1>3, ReturnKeeps DEF Abort
<1>4. CASE UNCHANGED vars
  <2>1. TypeOK'
    BY <1>4 DEF vars, Inv, TypeOK, Exists
  <2>2. ASSUME NEW p \in Requests PROVE CallOK(p)'
    <3>1. CallOK(p)
      BY DEF Inv
    <3> QED
      BY <1>4, <3>1, SMTT(30) DEF vars, CallOK, BatchOf, SeenOf, PreviewOf, ChoiceOf, KnownOf,
         OwnerOf, LinkedRows, Linked, Spared, Exists
  <2>3. ASSUME NEW b \in Batches PROVE BatchOK(b)'
    <3>1. BatchOK(b)
      BY DEF Inv
    <3> QED
      BY <1>4, <3>1 DEF vars, BatchOK, LinkedRows, Linked, Spared, Exists
  <2>4. ASSUME NEW k \in Dates \X Casts PROVE StoredOK(k)'
    <3>1. StoredOK(k)
      BY DEF Inv
    <3> QED
      BY <1>4, <3>1 DEF vars, StoredOK, Linked, Exists
  <2> QED
    BY <2>1, <2>2, <2>3, <2>4 DEF Inv
<1> QED
  BY <1>1, <1>2, <1>3, <1>4 DEF Next

LEMMA InvAlways == Spec => []Inv
  BY InvInit, InvNext, PTL DEF Spec

(* Types, and that a batch is offered for decisions and confirmation only  *)
(* when it has a preview.                                                  *)
THEOREM CtiTypeCorrect == Spec => []TypeOK
<1>1. Inv => TypeOK
  BY DEF Inv
<1> QED
  BY <1>1, InvAlways, PTL

(* What is stored of a cast is a row without errors of a file of the day,  *)
(* under a name linked to the cast.                                        *)
THEOREM CtiStoresLinkedRows == Spec => []StoredIsLinked
<1>1. Inv => StoredIsLinked
  <2> SUFFICES ASSUME Inv, NEW d \in Dates, NEW c \in Casts, fact[<<d, c>>] # None
               PROVE  LET n == fact[<<d, c>>].name
                          f == batch[fact[<<d, c>>].batch].file
                      IN /\ DateOf[f] = d /\ n \in Rows[f] \ Errors[f]
                         /\ Named[n] = c \/ \E x \in Dates : <<n, x, c>> \in alias
    BY DEF StoredIsLinked
  <2>1. <<d, c>> \in Dates \X Casts /\ <<d, c>>[1] = d /\ <<d, c>>[2] = c
    OBVIOUS
  <2>2. StoredOK(<<d, c>>)
    BY <2>1 DEF Inv
  <2> QED
    BY <2>1, <2>2 DEF StoredOK, Linked
<1> QED
  BY <1>1, InvAlways, PTL

-----------------------------------------------------------------------------
(* The two action properties. *)

(* Only a call that read another status before takes COMPLETED back: the   *)
(* creator of a batch is alone with it, and a reparse that saw COMPLETED   *)
(* writes COMPLETED.                                                       *)
LEMMA StatusWrites ==
  ASSUME Inv, NEW p \in Requests, NEW b \in Batches, NEW s, SetStatus(loc[p].id, s),
         pc[p] \notin Idle
  PROVE  /\ b # loc[p].id => batch'[b] = batch[b]
         /\ batch'[loc[p].id].status = s
<1>1. loc[p].id \in Batches /\ batch[loc[p].id] \in Batch /\ TypeOK
  BY DEF Inv, TypeOK, CallOK, BatchOf, Exists
<1> QED
  BY <1>1 DEF SetStatus, TypeOK, Batch

StaleWrite(b) ==
  \E p \in Requests : /\ loc[p].id = b /\ pc'[p] = "off"
                      /\ pc[p] \in {"confirmWrite", "resolveStatus", "reparseStatus"}
                      /\ loc[p].seen \notin {"COMPLETED", None}

(* Starting or giving up a call changes neither batches nor facts. *)
LEMMA WorkChanges ==
  ASSUME [Next]_vars, batch' # batch \/ fact' # fact
  PROVE  \E p \in Requests : Work(p)
<1>1. PICK p \in Requests : Start(p) \/ Work(p) \/ Abort(p)
  BY DEF Next, vars
<1>2. ~Abort(p)
  BY DEF Abort
<1>3. ~Start(p)
  <2>1. \A f \in Files : ~Upload(p, f)
    BY DEF Upload
  <2>2. \A f \in Files, action \in {"VALIDATE", "CONFIRM_SAFE"}, retry \in BOOLEAN :
          ~Bulk(p, f, action, retry)
    BY DEF Bulk
  <2>3. \A b \in Batches, force \in BOOLEAN : ~Confirm(p, b, force)
    BY DEF Confirm
  <2>4. \A b \in Batches, n \in Names, c \in Choices : ~Decide(p, b, n, c)
    BY DEF Decide
  <2>5. \A b \in Batches : ~Reparse(p, b)
    BY DEF Reparse
  <2> QED
    BY <2>1, <2>2, <2>3, <2>4, <2>5 DEF Start
<1> QED
  BY <1>1, <1>2, <1>3

LEMMA WorkUncompletes ==
  ASSUME Inv, NEW p \in Requests, Work(p), NEW b \in Batches, Exists(b),
         batch[b].status = "COMPLETED", batch'[b].status # "COMPLETED"
  PROVE  StaleWrite(b)
<1>1. TypeOK /\ CallOK(p) /\ pc[p] \in Labels
  BY DEF Inv, TypeOK
<1>2. batch' # batch
  OBVIOUS
<1>3. ~(\E o \in Batches : Create(p, o))
  <2> SUFFICES ASSUME NEW o \in Batches, Create(p, o) PROVE FALSE
    OBVIOUS
  <2>1. o # b /\ batch'[b] = batch[b]
    BY <1>1 DEF Create, TypeOK
  <2> QED
    BY <2>1
<1>4. ~PutStatus(p) /\ ~CreateFails(p)
  <2> SUFFICES ASSUME PutStatus(p) \/ CreateFails(p) PROVE FALSE
    OBVIOUS
  <2>1. pc[p] \in Creating /\ pc[p] \notin Idle
    BY DEF PutStatus, CreateFails, Creating, Idle
  <2>2. batch[loc[p].id].status = "VALIDATING"
    BY <1>1, <2>1 DEF CallOK, OwnerOf
  <2>3. \E s : SetStatus(loc[p].id, s)
    BY DEF PutStatus, CreateFails
  <2> QED
    BY <2>1, <2>2, <2>3, StatusWrites
<1>5. ~BulkCheck(p)
  <2> SUFFICES ASSUME BulkCheck(p) PROVE FALSE
    OBVIOUS
  <2>1. loc[p].id \in Batches /\ batch[loc[p].id] \in Batch
    BY <1>1 DEF BulkCheck, CallOK, BatchOf, Idle, TypeOK, Exists
  <2>2. batch'[b].status = batch[b].status
    BY <1>1, <2>1 DEF BulkCheck, TypeOK, Batch
  <2> QED
    BY <2>2
<1>6. ~ConfirmWrite(p)
  <2> SUFFICES ASSUME ConfirmWrite(p) PROVE FALSE
    OBVIOUS
  <2>1. loc[p].id \in Batches /\ batch[loc[p].id] \in Batch
    BY <1>1 DEF ConfirmWrite, CallOK, BatchOf, Idle, TypeOK, Exists
  <2>2. batch'[b].status \in {batch[b].status, "COMPLETED"}
    BY <1>1, <2>1 DEF ConfirmWrite, TypeOK, Batch
  <2> QED
    BY <2>2
<1>7. ConfirmFails(p) \/ ResolveStatus(p) \/ ReparseStatus(p)
  BY <1>2, <1>3, <1>4, <1>5, <1>6 DEF Work, Search, Analyze, BulkNew, BulkOld, BulkConfirm,
     ConfirmPreview, ResolvePreview, Link, ResolvePut, ReparseAnalyze, ReparsePut
<1>8. /\ pc[p] \in {"confirmWrite", "resolveStatus", "reparseStatus"} /\ pc'[p] = "off"
      /\ pc[p] \notin Idle
  BY <1>1, <1>7 DEF ConfirmFails, ResolveStatus, ReparseStatus, Return, Goto, TypeOK, Idle
<1>9. loc[p].id = b /\ loc[p].seen # "COMPLETED"
  <2>1. PICK s : SetStatus(loc[p].id, s) /\ (ReparseStatus(p) /\ loc[p].seen = "COMPLETED"
                                               => s = "COMPLETED")
    BY <1>7 DEF ConfirmFails, ResolveStatus, ReparseStatus, StatusAfter
  <2>2. loc[p].id = b /\ s # "COMPLETED"
    BY <1>8, <2>1, StatusWrites
  <2>3. ~ReparseStatus(p) => loc[p].seen = "OPEN"
    BY <1>1, <1>7 DEF CallOK, SeenOf, ConfirmFails, ResolveStatus, Deciding, Confirming
  <2> QED
    BY <2>1, <2>2, <2>3
<1>10. loc[p].seen \in Seen
  BY <1>1, <1>8 DEF CallOK, SeenOf, Deciding, Reparsing, Confirming, Seen
<1> QED
  BY <1>8, <1>9, <1>10, CtiAssumption DEF StaleWrite

THEOREM CtiUncompletesOnlyStale == Spec => UncompletedOnlyByStale
<1>1. ASSUME Inv, [Next]_vars, NEW b \in Batches, Exists(b), batch[b].status = "COMPLETED",
             batch'[b].status # "COMPLETED"
      PROVE  StaleWrite(b)
  <2>1. batch' # batch
    BY <1>1
  <2>2. PICK p \in Requests : Work(p)
    BY <1>1, <2>1, WorkChanges
  <2> QED
    BY <1>1, <2>2, WorkUncompletes
<1>2. Inv /\ [Next]_vars =>
        [\A b \in Batches :
           Exists(b) /\ batch[b].status = "COMPLETED" /\ batch'[b].status # "COMPLETED" =>
             \E p \in Requests : /\ loc[p].id = b /\ pc'[p] = "off"
                                 /\ pc[p] \in {"confirmWrite", "resolveStatus", "reparseStatus"}
                                 /\ loc[p].seen \notin {"COMPLETED", None}]_vars
  BY <1>1 DEF StaleWrite
<1> QED
  BY <1>2, InvAlways, PTL DEF Spec, UncompletedOnlyByStale

(* An automatic confirmation replaces rows of another content only if      *)
(* their batch came after the safety of its own was judged.                *)
THEOREM CtiBulkSpares == Spec => BulkSparesKnown
<1>1. ASSUME Inv, [Next]_vars, NEW p \in Requests, NEW k \in Dates \X Casts,
             pc[p] = "confirmWrite", pc'[p] = "off", loc[p].bulk # "",
             fact'[k] # fact[k], fact[k] # None
      PROVE  \/ batch[fact[k].batch].file = loc[p].file
             \/ fact[k].batch \notin loc[p].known
  <2>1. TypeOK /\ CallOK(p) /\ StoredOK(k)
    BY <1>1 DEF Inv
  <2>2. PICK q \in Requests : ConfirmWrite(q)
    <3>1. fact' # fact
      BY <1>1
    <3>2. PICK q \in Requests : Work(q)
      BY <1>1, <3>1, WorkChanges
    <3>3. ~(\/ Search(q) \/ (\E b \in Batches : Create(q, b)) \/ Analyze(q)
            \/ PutStatus(q) \/ CreateFails(q))
      BY <3>1 DEF Search, Create, Analyze, PutStatus, CreateFails
    <3>4. ~(\/ BulkNew(q) \/ BulkOld(q) \/ BulkCheck(q) \/ BulkConfirm(q)
            \/ ConfirmPreview(q) \/ ConfirmFails(q))
      BY <3>1 DEF BulkNew, BulkOld, BulkCheck, BulkConfirm, ConfirmPreview, ConfirmFails
    <3>5. ~(\/ ResolvePreview(q) \/ Link(q) \/ ResolvePut(q) \/ ResolveStatus(q)
            \/ ReparseAnalyze(q) \/ ReparsePut(q) \/ ReparseStatus(q))
      BY <3>1 DEF ResolvePreview, Link, ResolvePut, ResolveStatus, ReparseAnalyze, ReparsePut,
         ReparseStatus
    <3> QED
      BY <3>2, <3>3, <3>4, <3>5 DEF Work
  <2>3. q = p
    BY <1>1, <2>1, <2>2 DEF ConfirmWrite, Return, Goto, TypeOK
  <2>4. k[1] = DateOf[loc[p].file]
    BY <1>1, <2>2, <2>3, StoredFrom
  <2>5. DateOf[batch[fact[k].batch].file] = k[1]
    BY <1>1, <2>1 DEF StoredOK
  <2>6. Spared(loc[p].known, loc[p].file)
    BY <1>1, <2>1 DEF CallOK, KnownOf
  <2> QED
    BY <2>4, <2>5, <2>6 DEF Spared
<1>2. Inv /\ [Next]_vars =>
        [\A p \in Requests, k \in Dates \X Casts :
           LET old == batch[fact[k].batch].file
           IN pc[p] = "confirmWrite" /\ pc'[p] = "off" /\ loc[p].bulk # ""
                /\ fact'[k] # fact[k] /\ fact[k] # None
              => old = loc[p].file \/ fact[k].batch \notin loc[p].known]_vars
  BY <1>1
<1> QED
  BY <1>2, InvAlways, PTL DEF Spec, BulkSparesKnown

-----------------------------------------------------------------------------
(* The refinement of CtiLedger. *)

(* What a reader of the ledger sees of the batches and of the calls. *)
Content == [b \in Batches |-> IF Exists(b) THEN batch[b].file ELSE None]
Counted == {b \in Batches : Exists(b) /\ batch[b].status = "COMPLETED"}
On == [p \in Requests |-> IF loc[p].seen = None THEN None ELSE loc[p].id]
Done == {p \in Requests : loc[p].seen = "COMPLETED"}

LEMMA LedgerInit == Init => Ledger!Init
<1> SUFFICES ASSUME Init PROVE Ledger!Init
  OBVIOUS
<1>1. \A p \in Requests : loc[p].seen = None
  BY BlankOK DEF Init
<1>2. \A b \in Batches : ~Exists(b)
  BY DEF Init, Exists
<1>3. "COMPLETED" # None
  BY CtiAssumption DEF Seen
<1> QED
  BY <1>1, <1>2, <1>3 DEF Init, Ledger!Init

LEMMA LedgerStutter ==
  ASSUME UNCHANGED <<Content, Counted, alias, fact, On, Done>> PROVE UNCHANGED Ledger!vars
BY DEF Ledger!vars, Content, Counted, On, Done

(* A step of p changes what the ledger knows of p only. *)
LEMMA LedgerCall ==
  ASSUME TypeOK, NEW p \in Requests, NEW r, loc' = [loc EXCEPT ![p] = r]
  PROVE  /\ On' = [On EXCEPT ![p] = IF r.seen = None THEN None ELSE r.id]
         /\ Done' = IF r.seen = "COMPLETED" THEN Done \cup {p} ELSE Done \ {p}
<1>1. loc'[p] = r /\ \A q \in Requests : q # p => loc'[q] = loc[q]
  BY DEF TypeOK
<1>2. On' = [On EXCEPT ![p] = IF r.seen = None THEN None ELSE r.id]
  <2>1. On'[p] = IF r.seen = None THEN None ELSE r.id
    BY <1>1 DEF On
  <2>2. \A q \in Requests : q # p => On'[q] = On[q]
    BY <1>1 DEF On
  <2>3. On = [q \in Requests |-> On[q]] /\ On' = [q \in Requests |-> On'[q]]
    BY DEF On
  <2> QED
    BY <2>1, <2>2, <2>3
<1>3. \A q \in Requests : q \in Done' <=> IF q = p THEN r.seen = "COMPLETED" ELSE q \in Done
  BY <1>1 DEF Done
<1>4. Done \subseteq Requests /\ Done' \subseteq Requests
  BY DEF Done
<1> QED
  BY <1>2, <1>3, <1>4

LEMMA LedgerSame ==
  ASSUME UNCHANGED batch PROVE UNCHANGED <<Content, Counted>>
BY DEF Content, Counted, Exists

(* A call has read the status of its batch exactly while it decides,       *)
(* reparses or confirms.                                                   *)
LEMMA LedgerOn ==
  ASSUME Inv, NEW p \in Requests
  PROVE  /\ loc[p].seen = None => On[p] = None /\ p \notin Done
         /\ loc[p].seen # None => /\ On[p] = loc[p].id /\ loc[p].id \in Batches
                                  /\ loc[p].id # None /\ Exists(loc[p].id)
         /\ loc[p].seen = "OPEN" => loc[p].seen # None /\ p \notin Done
         /\ p \in Done <=> loc[p].seen = "COMPLETED"
<1>1. CallOK(p) /\ None \notin Seen /\ None \notin Batches
  BY CtiAssumption DEF Inv
<1>2. loc[p].seen # None => pc[p] \notin Idle
  BY <1>1 DEF CallOK, SeenOf, Idle, Confirming, Deciding, Reparsing
<1> QED
  BY <1>1, <1>2 DEF CallOK, BatchOf, On, Done, Seen

(* A step that changes no row, alias or fact: the call goes on with the    *)
(* status it has read, forgets it, or reads it.                            *)
LEMMA LedgerMove ==
  ASSUME Inv, NEW p \in Requests, NEW r, loc' = [loc EXCEPT ![p] = r],
         UNCHANGED <<batch, alias, fact>>,
         \/ r.seen = loc[p].seen /\ r.id = loc[p].id
         \/ r.seen = None
         \/ loc[p].seen = None /\ r.id \in Batches /\ Exists(r.id) /\ r.seen = Saw(r.id)
  PROVE  Ledger!Next \/ UNCHANGED Ledger!vars
<1>1. /\ On' = [On EXCEPT ![p] = IF r.seen = None THEN None ELSE r.id]
      /\ Done' = IF r.seen = "COMPLETED" THEN Done \cup {p} ELSE Done \ {p}
      /\ UNCHANGED <<Content, Counted>>
  BY LedgerCall, LedgerSame DEF Inv
<1>2. On \in [Requests -> Batches \cup {None}] /\ Done \subseteq Requests
      /\ None # "COMPLETED"
  <2>1. \A q \in Requests : On[q] \in Batches \cup {None}
    BY LedgerOn
  <2> QED
    BY <2>1, CtiAssumption DEF On, Done, Seen
<1>3. CASE r.seen = loc[p].seen /\ r.id = loc[p].id
  <2>1. On' = On
    BY <1>1, <1>2, <1>3 DEF On
  <2>2. Done' = Done
    BY <1>1, <1>2, <1>3, LedgerOn
  <2> QED
    BY <1>1, <2>1, <2>2, LedgerStutter
<1>4. CASE r.seen = None /\ loc[p].seen = None
  <2>1. On' = On /\ Done' = Done
    BY <1>1, <1>2, <1>4, LedgerOn
  <2> QED
    BY <1>1, <2>1, LedgerStutter
<1>5. CASE r.seen = None /\ loc[p].seen # None
  <2>1. /\ On[p] # None /\ On' = [On EXCEPT ![p] = None] /\ Done' = Done \ {p}
        /\ UNCHANGED <<Content, Counted, alias, fact>>
    BY <1>1, <1>2, <1>5, LedgerOn
  <2>2. Ledger!End(p)
    BY <2>1 DEF Ledger!End, On, Done, Content, Counted
  <2> QED
    BY <2>2 DEF Ledger!Next
<1>6. CASE loc[p].seen = None /\ r.id \in Batches /\ Exists(r.id) /\ r.seen = Saw(r.id)
  <2> DEFINE b == r.id
  <2>1. On[p] = None /\ p \notin Done
    BY <1>6, LedgerOn
  <2>2. Content[b] # None
    BY <1>6, CtiAssumption DEF Content, Inv, TypeOK, Exists, Batch
  <2>3. (r.seen = "COMPLETED" <=> b \in Counted) /\ r.seen # None
    BY <1>6, CtiAssumption DEF Counted, Saw, Seen
  <2>4. /\ On' = [On EXCEPT ![p] = b]
        /\ Done' = IF b \in Counted THEN Done \cup {p} ELSE Done
    BY <1>1, <2>1, <2>3
  <2>5. Ledger!Look(p, b)
    BY <1>1, <2>1, <2>2, <2>4 DEF Ledger!Look, On, Done, Content, Counted
  <2> QED
    BY <1>6, <2>5 DEF Ledger!Next
<1> QED
  BY <1>3, <1>4, <1>5, <1>6

(* A call that has read no status goes on without one. *)
LEMMA LedgerQuiet ==
  ASSUME Inv, NEW p \in Requests, loc[p].seen = None, NEW r, r.seen = None,
         loc' = [loc EXCEPT ![p] = r]
  PROVE  On' = On /\ Done' = Done
<1>1. On[p] = None /\ p \notin Done /\ None # "COMPLETED"
  BY LedgerOn, CtiAssumption DEF Seen
<1>2. On' = [On EXCEPT ![p] = None] /\ Done' = Done \ {p}
  BY <1>1, LedgerCall DEF Inv
<1> QED
  BY <1>1, <1>2 DEF On

(* The row of an existing batch is written. *)
LEMMA LedgerRow ==
  ASSUME TypeOK, NEW b \in Batches, Exists(b), NEW new \in Batch, new.file = batch[b].file,
         batch' = [batch EXCEPT ![b] = new]
  PROVE  /\ Content' = Content
         /\ Counted' = IF new.status = "COMPLETED" THEN Counted \cup {b} ELSE Counted \ {b}
<1>1. /\ \A o \in Batches : o # b => batch'[o] = batch[o]
      /\ batch'[b] # None /\ batch'[b].file = batch[b].file /\ batch'[b] = new
  BY CtiAssumption DEF TypeOK
<1>2. Content' = Content
  BY <1>1 DEF Content, Exists
<1>3. \A o \in Batches :
        o \in Counted' <=> IF o = b THEN new.status = "COMPLETED" ELSE o \in Counted
  BY <1>1 DEF Counted, Exists
<1>4. Counted \subseteq Batches /\ Counted' \subseteq Batches
  BY DEF Counted
<1> QED
  BY <1>2, <1>3, <1>4

LEMMA LedgerStatus ==
  ASSUME Inv, NEW p \in Requests, pc[p] \notin Idle, NEW s \in Status,
         SetStatus(loc[p].id, s)
  PROVE  /\ Content' = Content
         /\ Counted' = IF s = "COMPLETED" THEN Counted \cup {loc[p].id}
                                          ELSE Counted \ {loc[p].id}
<1> DEFINE new == [batch[loc[p].id] EXCEPT !.status = s]
<1>1. loc[p].id \in Batches /\ Exists(loc[p].id) /\ batch[loc[p].id] \in Batch /\ TypeOK
  BY DEF Inv, CallOK, BatchOf, TypeOK, Exists
<1>2. batch' = [batch EXCEPT ![loc[p].id] = new]
  BY <1>1 DEF SetStatus, Batch, TypeOK
<1>3. new \in Batch /\ new.file = batch[loc[p].id].file /\ new.status = s
  BY <1>1 DEF Batch
<1> HIDE DEF new
<1> QED
  BY <1>1, <1>2, <1>3, LedgerRow

(* The creator's statuses are no completion and no loss of one: the batch  *)
(* is VALIDATING until then.                                               *)
LEMMA LedgerCreator ==
  ASSUME Inv, NEW p \in Requests, PutStatus(p) \/ CreateFails(p)
  PROVE  UNCHANGED Ledger!vars
<1>1. /\ pc[p] \in Creating /\ pc[p] \notin Idle /\ TypeOK /\ CallOK(p)
      /\ UNCHANGED <<alias, fact>>
  BY DEF PutStatus, CreateFails, Creating, Idle, Inv
<1>2. PICK s \in Status : SetStatus(loc[p].id, s) /\ s # "COMPLETED"
  BY ReadyStatus DEF PutStatus, CreateFails, Status, Editable
<1>3. loc[p].id \notin Counted
  BY <1>1 DEF CallOK, OwnerOf, Counted
<1>4. Content' = Content /\ Counted' = Counted
  BY <1>1, <1>2, <1>3, LedgerStatus
<1>5. PICK r : loc' = [loc EXCEPT ![p] = r] /\ r.seen = None
  <2>1. loc[p].seen = None /\ Blank.seen = None
    BY <1>1, BlankOK DEF CallOK, SeenOf, Creating, Confirming, Deciding, Reparsing
  <2> QED
    BY <2>1 DEF PutStatus, CreateFails, Return, Goto
<1>6. loc[p].seen = None
  BY <1>1 DEF CallOK, SeenOf, Creating, Confirming, Deciding, Reparsing
<1>7. On' = On /\ Done' = Done
  BY <1>5, <1>6, LedgerQuiet
<1> QED
  BY <1>1, <1>4, <1>7, LedgerStutter

(* A call that ends with a status leaves the batch as it saw it.           *)
LEMMA LedgerSettle ==
  ASSUME Inv, NEW p \in Requests, ConfirmFails(p) \/ ResolveStatus(p) \/ ReparseStatus(p)
  PROVE  Ledger!Next
<1> DEFINE b == loc[p].id
<1>1. /\ pc[p] \in {"confirmWrite", "resolveStatus", "reparseStatus"} /\ pc[p] \notin Idle
      /\ TypeOK /\ CallOK(p) /\ UNCHANGED <<alias, fact>> /\ Return(p)
  BY DEF ConfirmFails, ResolveStatus, ReparseStatus, Idle, Inv
<1>2. loc[p].seen \in Seen /\ (~ReparseStatus(p) => loc[p].seen = "OPEN")
  BY <1>1 DEF CallOK, SeenOf, Confirming, Deciding, Reparsing, Seen, ConfirmFails, ResolveStatus
<1>3. PICK s \in Status : SetStatus(b, s) /\ (s = "COMPLETED" <=> loc[p].seen = "COMPLETED")
  <2>1. CASE ConfirmFails(p)
    <3>1. ~ReparseStatus(p)
      BY <2>1 DEF ConfirmFails, ReparseStatus
    <3> QED
      BY <1>2, <2>1, <3>1 DEF ConfirmFails, Status
  <2>2. CASE ResolveStatus(p)
    <3>1. ~ReparseStatus(p)
      BY <2>2 DEF ResolveStatus, ReparseStatus
    <3>2. Ready(loc[p].file, loc[p].rows) \in Status \ {"COMPLETED"}
      BY DEF Ready, Status
    <3> QED
      BY <1>2, <2>2, <3>1, <3>2 DEF ResolveStatus
  <2>3. CASE ReparseStatus(p)
    <3>1. Ready(loc[p].file, loc[p].rows) \in Status \ {"COMPLETED"}
      BY DEF Ready, Status
    <3> QED
      BY <2>3, <3>1 DEF ReparseStatus, StatusAfter, Status
  <2> QED
    BY <2>1, <2>2, <2>3
<1>4. b = On[p] /\ On[p] # None /\ (p \in Done <=> loc[p].seen = "COMPLETED")
  BY <1>2, LedgerOn, CtiAssumption
<1>5. /\ Content' = Content
      /\ Counted' = IF p \in Done THEN Counted \cup {On[p]} ELSE Counted \ {On[p]}
  BY <1>1, <1>3, <1>4, LedgerStatus
<1>6. On' = [On EXCEPT ![p] = None] /\ Done' = Done \ {p}
  <2>1. loc' = [loc EXCEPT ![p] = Blank] /\ Blank.seen = None /\ None # "COMPLETED"
    BY <1>1, BlankOK, CtiAssumption DEF Return, Goto, Seen
  <2> QED
    BY <1>1, <2>1, LedgerCall
<1>7. Ledger!Settle(p)
  BY <1>1, <1>5 DEF Ledger!Settle, Counted, On, Done
<1>8. Ledger!End(p)
  BY <1>1, <1>4, <1>5, <1>6, <1>7 DEF Ledger!End, Content, On, Done
<1> QED
  BY <1>8 DEF Ledger!Next

(* What a bulk call found is no part of the ledger. *)
LEMMA LedgerCheck ==
  ASSUME Inv, NEW p \in Requests, BulkCheck(p)
  PROVE  UNCHANGED Ledger!vars
<1> DEFINE b == loc[p].id
           safe == loc[p].safe = TRUE /\ Safe(loc[p].file, preview[b], {})
           known == IF safe THEN loc[p].known ELSE {}
           new == [batch[b] EXCEPT !.safe = safe, !.known = known]
           r == [loc[p] EXCEPT !.safe = None, !.rows = Blank.rows]
<1>1. /\ CallOK(p) /\ loc[p] \in Local /\ pc[p] = "bulkCheck" /\ TypeOK
      /\ b \in Batches /\ batch[b] \in Batch /\ Exists(b) /\ loc[p].seen = None
  BY DEF Inv, TypeOK, BulkCheck, CallOK, BatchOf, SeenOf, Idle, Confirming, Deciding, Reparsing,
     Exists
<1>2. safe \in BOOLEAN /\ known \subseteq Batches
  BY <1>1 DEF Local
<1>3. /\ batch' = [batch EXCEPT ![b] = new] /\ UNCHANGED <<alias, fact>>
      /\ Goto(p, "confirm", r) \/ Return(p)
  BY <1>1 DEF BulkCheck, TypeOK, Batch
<1>4. new \in Batch /\ new.file = batch[b].file /\ new.status = batch[b].status
  BY <1>1, <1>2 DEF Batch
<1>5. r.seen = None
  BY <1>1 DEF Local
<1> HIDE DEF safe, known, new, r
<1>6. Content' = Content /\ Counted' = Counted
  <2>1. b \in Counted <=> new.status = "COMPLETED"
    BY <1>1, <1>4 DEF Counted
  <2> HIDE DEF b
  <2>2. /\ Content' = Content
        /\ Counted' = IF new.status = "COMPLETED" THEN Counted \cup {b} ELSE Counted \ {b}
    BY <1>1, <1>3, <1>4, LedgerRow
  <2> QED
    BY <2>1, <2>2
<1>7. On' = On /\ Done' = Done
  BY <1>1, <1>3, <1>5, BlankOK, LedgerQuiet DEF Goto, Return
<1> QED
  BY <1>3, <1>6, <1>7, LedgerStutter

LEMMA LedgerCreate ==
  ASSUME Inv, NEW p \in Requests, NEW b \in Batches, Create(p, b)
  PROVE  Ledger!Next
<1> DEFINE f == loc[p].file
           r == [loc[p] EXCEPT !.id = b, !.dup = FALSE]
<1>1. /\ CallOK(p) /\ loc[p] \in Local /\ f \in Files /\ batch[b] = None /\ TypeOK
      /\ loc[p].seen = None /\ UNCHANGED <<alias, fact>> /\ loc' = [loc EXCEPT ![p] = r]
  BY DEF Inv, TypeOK, Create, CallOK, BatchOf, SeenOf, Goto, Confirming, Deciding, Reparsing,
     Exists
<1>2. PICK new \in Batch : /\ batch' = [batch EXCEPT ![b] = new]
                           /\ new.file = f /\ new.status = "VALIDATING"
  <2> DEFINE new == [file |-> f, status |-> "VALIDATING", dup |-> loc[p].dup, known |-> {},
                     safe |-> IF loc[p].bulk = "" THEN None ELSE FALSE]
  <2>1. new \in Batch
    BY <1>1 DEF Batch, Status, Local
  <2> QED
    BY <2>1 DEF Create
<1>3. r.seen = None
  BY <1>1 DEF Local
<1> HIDE DEF f, r
<1>4. batch'[b] = new /\ new # None /\ \A o \in Batches : o # b => batch'[o] = batch[o]
  BY <1>1, <1>2, CtiAssumption DEF TypeOK
<1>5. Content' = [Content EXCEPT ![b] = f] /\ Content[b] = None
  <2>1. \A o \in Batches : Content'[o] = IF o = b THEN f ELSE Content[o]
    BY <1>2, <1>4 DEF Content, Exists
  <2> QED
    BY <1>1, <2>1 DEF Content, Exists
<1>6. Counted' = Counted
  BY <1>1, <1>2, <1>4 DEF Counted, Exists
<1>7. On' = On /\ Done' = Done
  BY <1>1, <1>3, LedgerQuiet
<1>8. Ledger!Create(b)
  BY <1>1, <1>5, <1>6, <1>7 DEF Ledger!Create, Content, Counted, On, Done
<1> QED
  BY <1>8 DEF Ledger!Next

LEMMA LedgerLink ==
  ASSUME Inv, NEW p \in Requests, Link(p)
  PROVE  Ledger!Next \/ UNCHANGED Ledger!vars
<1> DEFINE n == loc[p].name  c == loc[p].choice  d == DateOf[loc[p].file]
<1>1. /\ TypeOK /\ n \in Names /\ c \in Casts /\ d \in Dates
      /\ UNCHANGED <<batch, fact, loc>>
  BY CtiAssumption DEF Inv, TypeOK, Link, Goto, CallOK, BatchOf, ChoiceOf
<1>2. UNCHANGED <<Content, Counted, On, Done>>
  BY <1>1, LedgerSame DEF On, Done
<1>3. CASE UNCHANGED alias
  BY <1>1, <1>2, <1>3, LedgerStutter
<1>4. CASE /\ ~\E x \in Dates : <<n, x, c>> \in alias
           /\ \A x \in Casts : <<n, d, x>> \notin alias
           /\ alias' = alias \cup {<<n, d, c>>}
  <2> HIDE DEF n, c, d
  <2>1. Ledger!Link(n, d, c)
    BY <1>1, <1>2, <1>4 DEF Ledger!Link, Content, Counted, On, Done
  <2> QED
    BY <1>1, <2>1 DEF Ledger!Next
<1> QED
  BY <1>3, <1>4 DEF Link

(* The transaction: the rows of a cast that the preview names and the      *)
(* status of a batch that the call saw open.                               *)
LEMMA LedgerImport ==
  ASSUME Inv, NEW p \in Requests, ConfirmWrite(p)
  PROVE  Ledger!Next
<1> DEFINE b == loc[p].id
           f == loc[p].file
           v == loc[p].rows
           new == [batch[b] EXCEPT !.status = "COMPLETED", !.safe = loc[p].safe]
           of(k) == {n \in Eligible(f, v) : k = <<DateOf[f], v[n]>>}
           rowsOf(c) == {n \in Eligible(f, v) : v[n] = c}
<1>1. /\ CallOK(p) /\ loc[p] \in Local /\ TypeOK /\ b \in Batches /\ Exists(b)
      /\ batch[b] \in Batch /\ batch[b].file = f /\ f \in Files /\ loc[p].seen = "OPEN"
      /\ LinkedRows(v) /\ Eligible(f, v) # {} /\ UNCHANGED alias
  BY DEF Inv, TypeOK, ConfirmWrite, CallOK, BatchOf, SeenOf, PreviewOf, Idle, Confirming, Exists
<1>2. /\ batch' = [batch EXCEPT ![b] = new] /\ loc' = [loc EXCEPT ![p] = Blank]
  BY <1>1 DEF ConfirmWrite, Return, Goto, TypeOK, Batch
<1>3. new \in Batch /\ new.file = batch[b].file /\ new.status = "COMPLETED"
  BY <1>1 DEF Batch, Status, Local
<1>4. Content' = Content /\ Counted' = Counted \cup {b}
  <2> HIDE DEF b, new
  <2> QED
    BY <1>1, <1>2, <1>3, LedgerRow
<1>5. /\ On[p] = b /\ On[p] # None /\ p \notin Done
      /\ On' = [On EXCEPT ![p] = None] /\ Done' = Done \ {p}
  <2>1. Blank.seen = None /\ None # "COMPLETED"
    BY BlankOK, CtiAssumption DEF Seen
  <2> QED
    BY <1>1, <1>2, <2>1, LedgerOn, LedgerCall
<1>6. PICK last \in [Casts -> Names] :
        /\ \A k \in Dates \X Casts : of(k) # {} => last[k[2]] \in of(k)
        /\ fact' = [k \in Dates \X Casts |->
             IF of(k) # {} THEN [batch |-> b, name |-> last[k[2]]] ELSE fact[k]]
  BY DEF ConfirmWrite
<1> DEFINE row == [c \in Casts |-> IF rowsOf(c) # {} THEN last[c] ELSE None]
<1>7. DateOf[f] \in Dates /\ None \notin Names
  BY <1>1, CtiAssumption
<1>8. \A k \in Dates \X Casts : of(k) = IF k[1] = DateOf[f] THEN rowsOf(k[2]) ELSE {}
  OBVIOUS
<1>9. ASSUME NEW c \in Casts, rowsOf(c) # {}
      PROVE  /\ row[c] = last[c] /\ row[c] # None
             /\ last[c] \in Names /\ last[c] \in Eligible(f, v) /\ v[last[c]] = c
  <2>1. <<DateOf[f], c>> \in Dates \X Casts /\ <<DateOf[f], c>>[1] = DateOf[f]
        /\ <<DateOf[f], c>>[2] = c
    BY <1>7
  <2>2. of(<<DateOf[f], c>>) = rowsOf(c)
    BY <1>8, <2>1
  <2>3. last[c] \in rowsOf(c)
    BY <1>6, <1>9, <2>1, <2>2
  <2> QED
    BY <1>7, <1>9, <2>3
<1>10. row \in [Casts -> Names \cup {None}] /\ \A c \in Casts : row[c] # None <=> rowsOf(c) # {}
  BY <1>9
<1>11. \E c \in Casts : row[c] # None
  <2>1. PICK n : n \in Eligible(f, v)
    BY <1>1
  <2>2. v[n] \in Casts /\ n \in rowsOf(v[n])
    BY <2>1 DEF Eligible
  <2> QED
    BY <1>10, <2>2
<1>12. ASSUME NEW c \in Casts, row[c] # None
       PROVE  /\ row[c] \in Rows[f] \ Errors[f]
              /\ Named[row[c]] = c \/ \E d \in Dates : <<row[c], d, c>> \in alias
              /\ \A x \in Casts : row[x] = row[c] => x = c
  <2>1. rowsOf(c) # {}
    BY <1>10, <1>12
  <2>2. /\ row[c] \in Names /\ v[row[c]] = c
        /\ row[c] \in Eligible(f, v)
    BY <1>9, <2>1
  <2>3. row[c] \in Rows[f] \ Errors[f]
    BY <2>2 DEF Eligible
  <2>4. Linked(row[c], c)
    BY <1>1, <2>2 DEF LinkedRows
  <2>5. ASSUME NEW x \in Casts, row[x] = row[c] PROVE x = c
    <3>1. v[row[x]] = x
      BY <1>9, <1>10, <1>12, <2>5
    <3> QED
      BY <2>2, <2>5, <3>1
  <2> QED
    BY <2>3, <2>4, <2>5 DEF Linked
<1>13. fact' = [k \in Dates \X Casts |-> IF k[1] = DateOf[f] /\ row[k[2]] # None
                  THEN [batch |-> b, name |-> row[k[2]]] ELSE fact[k]]
  <2>1. ASSUME NEW k \in Dates \X Casts
        PROVE  /\ of(k) # {} <=> k[1] = DateOf[f] /\ row[k[2]] # None
               /\ of(k) # {} => last[k[2]] = row[k[2]]
    <3>1. k[2] \in Casts
      OBVIOUS
    <3> QED
      BY <1>8, <1>9, <1>10, <3>1
  <2> HIDE DEF of, row
  <2> QED
    BY <1>6, <2>1
<1> HIDE DEF row, rowsOf, of, v, new
<1>14. Content[b] = f
  BY <1>1 DEF Content
<1> HIDE DEF b, f
<1>15. Ledger!Import(p)
  <2> DEFINE valid == [x \in Files |-> Rows[x] \ Errors[x]]
  <2>1. On[p] = b /\ Content[On[p]] = f /\ valid[f] = Rows[f] \ Errors[f]
    BY <1>1, <1>5, <1>14
  <2>2. ASSUME NEW c \in Casts, row[c] # None
        PROVE  /\ row[c] \in valid[Content[On[p]]] /\ Ledger!Linked(row[c], c)
               /\ \A x \in Casts : row[x] = row[c] => x = c
    <3> HIDE DEF valid
    <3>1. row[c] \in valid[Content[On[p]]]
      BY <1>12, <2>1, <2>2
    <3> QED
      BY <1>12, <2>2, <3>1 DEF Ledger!Linked
  <2>3. fact' = [k \in Dates \X Casts |->
                   IF k[1] = DateOf[Content[On[p]]] /\ row[k[2]] # None
                   THEN [batch |-> On[p], name |-> row[k[2]]] ELSE fact[k]]
    BY <1>13, <2>1
  <2>4. \E w \in [Casts -> Names \cup {None}] :
          /\ \E c \in Casts : w[c] # None
          /\ \A c \in Casts : w[c] # None =>
               /\ w[c] \in valid[Content[On[p]]] /\ Ledger!Linked(w[c], c)
               /\ \A x \in Casts : w[x] = w[c] => x = c
          /\ fact' = [k \in Dates \X Casts |->
                        IF k[1] = DateOf[Content[On[p]]] /\ w[k[2]] # None
                        THEN [batch |-> On[p], name |-> w[k[2]]] ELSE fact[k]]
    <3> HIDE DEF valid
    <3> USE <1>10
    <3> WITNESS row \in [Casts -> Names \cup {None}]
    <3> QED
      BY <1>11, <2>2, <2>3
  <2>5. p \notin Done /\ Counted' = Counted \cup {On[p]}
    BY <1>4, <1>5, <2>1
  <2> QED
    BY <2>4, <2>5 DEF Ledger!Import, Content, Counted, On, Done
<1>16. Ledger!End(p)
  BY <1>1, <1>4, <1>5, <1>15 DEF Ledger!End, Content, On, Done
<1> QED
  BY <1>16 DEF Ledger!Next

LEMMA LedgerForget ==
  ASSUME Inv, NEW p \in Requests, NEW r, loc' = [loc EXCEPT ![p] = r],
         UNCHANGED <<batch, alias, fact>>, r.seen = None
  PROVE  Ledger!Next \/ UNCHANGED Ledger!vars
BY LedgerMove

LEMMA LedgerRead ==
  ASSUME Inv, NEW p \in Requests, NEW r, loc' = [loc EXCEPT ![p] = r],
         UNCHANGED <<batch, alias, fact>>, loc[p].seen = None,
         r.id \in Batches, Exists(r.id), r.seen = Saw(r.id)
  PROVE  Ledger!Next \/ UNCHANGED Ledger!vars
BY LedgerMove

LEMMA LedgerStart ==
  ASSUME Inv, NEW p \in Requests, Start(p)
  PROVE  Ledger!Next \/ UNCHANGED Ledger!vars
<1>1. ASSUME NEW f \in Files, Upload(p, f) PROVE Ledger!Next \/ UNCHANGED Ledger!vars
  <2>1. [Blank EXCEPT !.file = f, !.dup = Duplicate(f)].seen = None
    BY DEF Blank
  <2> QED
    BY <1>1, <2>1, LedgerMove DEF Upload, Goto
<1>2. ASSUME NEW f \in Files, NEW action \in {"VALIDATE", "CONFIRM_SAFE"}, NEW retry \in BOOLEAN,
             Bulk(p, f, action, retry)
      PROVE  Ledger!Next \/ UNCHANGED Ledger!vars
  <2> DEFINE r == [Blank EXCEPT !.file = f, !.bulk = action]
  <2>1. r \in Local /\ r.seen = None
    BY BlankOK DEF Local, Blank
  <2>2. UNCHANGED <<batch, alias, fact>>
    BY <1>2 DEF Bulk
  <2>3. CASE Goto(p, "bulkNew", r)
    BY <2>1, <2>2, <2>3, LedgerForget DEF Goto
  <2>4. ASSUME NEW b \in SameHash(f), NEW t, t.seen = None, loc' = [loc EXCEPT ![p] = t]
        PROVE  Ledger!Next \/ UNCHANGED Ledger!vars
    BY <2>2, <2>4, LedgerForget
  <2>5. ASSUME NEW b \in SameHash(f)
        PROVE  /\ [r EXCEPT !.id = b, !.known = batch[b].known].seen = None
               /\ [r EXCEPT !.id = b].seen = None
    BY <2>1 DEF Local
  <2> HIDE DEF r
  <2> QED
    BY <1>2, <2>3, <2>4, <2>5 DEF Bulk, Goto, r
<1>3. ASSUME NEW b \in Batches, NEW force \in BOOLEAN, Confirm(p, b, force)
      PROVE  Ledger!Next \/ UNCHANGED Ledger!vars
  <2> DEFINE r == [Blank EXCEPT !.id = b, !.file = batch[b].file, !.seen = Saw(b),
                               !.safe = batch[b].safe]
  <2>1. r.id = b /\ r.seen = Saw(b) /\ loc' = [loc EXCEPT ![p] = r]
    BY <1>3 DEF Confirm, Goto, Blank
  <2> HIDE DEF r
  <2>2. loc[p].seen = None /\ Exists(b)
    BY <1>3 DEF Confirm, Inv, CallOK, SeenOf, Confirming, Deciding, Reparsing
  <2>3. UNCHANGED <<batch, alias, fact>>
    BY <1>3 DEF Confirm
  <2> QED
    BY <2>1, <2>2, <2>3, LedgerRead
<1>4. ASSUME NEW b \in Batches, NEW n \in Names, NEW c \in Choices, Decide(p, b, n, c)
      PROVE  Ledger!Next \/ UNCHANGED Ledger!vars
  <2> DEFINE r == [Blank EXCEPT !.id = b, !.file = batch[b].file, !.name = n, !.choice = c,
                               !.seen = Saw(b)]
  <2>1. r.id = b /\ r.seen = Saw(b) /\ loc' = [loc EXCEPT ![p] = r]
    BY <1>4 DEF Decide, Goto, Blank
  <2> HIDE DEF r
  <2>2. loc[p].seen = None /\ Exists(b)
    BY <1>4 DEF Decide, Inv, CallOK, SeenOf, Confirming, Deciding, Reparsing
  <2>3. UNCHANGED <<batch, alias, fact>>
    BY <1>4 DEF Decide
  <2> QED
    BY <2>1, <2>2, <2>3, LedgerRead
<1>5. ASSUME NEW b \in Batches, Reparse(p, b) PROVE Ledger!Next \/ UNCHANGED Ledger!vars
  <2> DEFINE r == [Blank EXCEPT !.id = b, !.file = batch[b].file, !.seen = Saw(b)]
  <2>1. r.id = b /\ r.seen = Saw(b) /\ loc' = [loc EXCEPT ![p] = r]
    BY <1>5 DEF Reparse, Goto, Blank
  <2> HIDE DEF r
  <2>2. loc[p].seen = None /\ Exists(b)
    BY <1>5 DEF Reparse, Inv, CallOK, SeenOf, Confirming, Deciding, Reparsing
  <2>3. UNCHANGED <<batch, alias, fact>>
    BY <1>5 DEF Reparse
  <2> QED
    BY <2>1, <2>2, <2>3, LedgerRead
<1> QED
  BY <1>1, <1>2, <1>3, <1>4, <1>5 DEF Start

(* Steps that leave batches, aliases and facts alone. *)
LEMMA LedgerWork ==
  ASSUME Inv, NEW p \in Requests,
         \/ Search(p) \/ Analyze(p) \/ BulkNew(p) \/ BulkOld(p) \/ BulkConfirm(p)
         \/ ConfirmPreview(p) \/ ResolvePreview(p) \/ ResolvePut(p)
         \/ ReparseAnalyze(p) \/ ReparsePut(p) \/ Abort(p)
  PROVE  Ledger!Next \/ UNCHANGED Ledger!vars
<1>1. loc[p] \in Local /\ CallOK(p) /\ Blank.seen = None
  BY BlankOK DEF Inv, TypeOK
<1>2. UNCHANGED <<batch, alias, fact>>
  BY DEF Search, Analyze, BulkNew, BulkOld, BulkConfirm, ConfirmPreview, ResolvePreview,
     ResolvePut, ReparseAnalyze, ReparsePut, Abort
<1>3. CASE \/ Search(p) \/ Analyze(p) \/ BulkNew(p) \/ BulkOld(p)
  <2>1. loc[p].seen = None
    BY <1>1, <1>3 DEF CallOK, SeenOf, Confirming, Deciding, Reparsing, Search, Analyze, BulkNew,
       BulkOld
  <2>2. ASSUME NEW r, r.seen = None, loc' = [loc EXCEPT ![p] = r]
        PROVE  Ledger!Next \/ UNCHANGED Ledger!vars
    BY <1>2, <2>2, LedgerForget
  <2>3. CASE Search(p)
    <3>1. [loc[p] EXCEPT !.dup = Duplicate(loc[p].file)].seen = None
      BY <1>1, <2>1 DEF Local
    <3> QED
      BY <2>2, <2>3, <3>1 DEF Search, Goto
  <2>4. CASE Analyze(p)
    <3>1. [loc[p] EXCEPT !.rows = Analysis(loc[p].file)].seen = None
      BY <1>1, <2>1 DEF Local
    <3> QED
      BY <2>2, <2>4, <3>1 DEF Analyze, Goto
  <2>5. CASE BulkNew(p)
    <3>1. [loc[p] EXCEPT !.safe = Corrections(loc[p].file) = {},
                         !.known = Others(loc[p].file)].seen = None
      BY <1>1, <2>1 DEF Local
    <3> QED
      BY <2>2, <2>5, <3>1 DEF BulkNew, Goto
  <2>6. CASE BulkOld(p)
    <3>1. [loc[p] EXCEPT !.known = Others(loc[p].file)].seen = None
      BY <1>1, <2>1 DEF Local
    <3> QED
      BY <1>1, <2>2, <2>6, <3>1 DEF BulkOld, Goto, Return
  <2> QED
    BY <1>3, <2>3, <2>4, <2>5, <2>6
<1>4. CASE BulkConfirm(p)
  <2>1. /\ loc[p].seen = None /\ loc[p].id \in Batches /\ Exists(loc[p].id)
    BY <1>1, <1>4 DEF CallOK, SeenOf, BatchOf, Idle, Confirming, Deciding, Reparsing, BulkConfirm
  <2>2. PICK r : /\ loc' = [loc EXCEPT ![p] = r]
                 /\ r.seen = None \/ (r.id = loc[p].id /\ r.seen = Saw(loc[p].id))
    BY <1>1, <1>4 DEF BulkConfirm, Goto, Return, Local
  <2> QED
    BY <1>2, <2>1, <2>2, LedgerMove
<1>5. CASE \/ ConfirmPreview(p) \/ ResolvePreview(p) \/ ResolvePut(p)
           \/ ReparseAnalyze(p) \/ ReparsePut(p) \/ Abort(p)
  <2>1. ASSUME NEW r, r.seen = None \/ (r.id = loc[p].id /\ r.seen = loc[p].seen),
               loc' = [loc EXCEPT ![p] = r]
        PROVE  Ledger!Next \/ UNCHANGED Ledger!vars
    BY <1>2, <2>1, LedgerMove
  <2>2. ASSUME NEW v
        PROVE  /\ [loc[p] EXCEPT !.rows = v].id = loc[p].id
               /\ [loc[p] EXCEPT !.rows = v].seen = loc[p].seen
               /\ [loc[p] EXCEPT !.rows = v, !.name = None, !.choice = None].id = loc[p].id
               /\ [loc[p] EXCEPT !.rows = v, !.name = None, !.choice = None].seen
                    = loc[p].seen
    BY <1>1 DEF Local
  <2>3. CASE ConfirmPreview(p)
    BY <1>1, <2>1, <2>2, <2>3 DEF ConfirmPreview, Goto, Return
  <2>4. CASE ResolvePreview(p) \/ ReparseAnalyze(p)
    BY <2>1, <2>2, <2>4 DEF ResolvePreview, ReparseAnalyze, Goto
  <2>5. CASE ResolvePut(p)
    BY <2>1, <2>2, <2>5 DEF ResolvePut, Goto
  <2>6. CASE ReparsePut(p) \/ Abort(p)
    BY <1>1, <2>1, <2>6 DEF ReparsePut, Abort, Goto, Return
  <2> QED
    BY <1>5, <2>3, <2>4, <2>5, <2>6
<1> QED
  BY <1>3, <1>4, <1>5

LEMMA LedgerStep == Inv /\ [Next]_vars => [Ledger!Next]_Ledger!vars
<1> SUFFICES ASSUME Inv, [Next]_vars PROVE Ledger!Next \/ UNCHANGED Ledger!vars
  OBVIOUS
<1>1. CASE UNCHANGED vars
  <2>1. UNCHANGED <<Content, Counted, alias, fact, On, Done>>
    BY <1>1 DEF vars, Content, Counted, On, Done, Exists
  <2> QED
    BY <2>1, LedgerStutter
<1>2. ASSUME NEW p \in Requests, Work(p) PROVE Ledger!Next \/ UNCHANGED Ledger!vars
  BY <1>2, LedgerWork, LedgerCreate, LedgerCreator, LedgerCheck, LedgerImport, LedgerSettle,
     LedgerLink DEF Work
<1>3. ASSUME NEW p \in Requests, Start(p) \/ Abort(p)
      PROVE  Ledger!Next \/ UNCHANGED Ledger!vars
  BY <1>3, LedgerStart, LedgerWork
<1> QED
  BY <1>1, <1>2, <1>3 DEF Next

(* All calls together are a ledger of what is imported: a batch is         *)
(* imported in one step, of rows linked to their casts, by a call that saw *)
(* it open, and every other status a call writes leaves the batch as       *)
(* completed as the call saw it, whatever others did meanwhile.            *)
THEOREM CtiIsLedger == Spec => LedgerSpec
  BY InvInit, InvNext, LedgerInit, LedgerStep, PTL DEF Spec, LedgerSpec, Ledger!Spec
=============================================================================
