----------------------------- MODULE HeavenLedger -----------------------------
(***************************************************************************)
(* What the Heaven import promises the readers of heaven_cast_dailies and  *)
(* of the list of batches, with no request, preview file or lock in sight: *)
(* a CSV is counted by one batch at most, a batch is imported in one step  *)
(* with all the days of the names that were resolved, and a batch that is  *)
(* reopened leaves its days where they are.  HeavenImport is shown to      *)
(* implement this module.                                                  *)
(***************************************************************************)
CONSTANTS
  Contents, Names, Casts, Days, BatchIds, None,
  Header,      \* [Contents -> the names of the file]
  Parts        \* [Contents -> [Names -> the days the parser hands on]]

VARIABLES
  content,     \* [BatchIds -> the CSV of the batch, or None: not created]
  counted,     \* the completed batches
  whole,       \* those of them that are completed without warnings
  fact         \* [Casts \X Days -> the batch its row came from, or None]

vars == <<content, counted, whole, fact>>

Init == /\ content = [b \in BatchIds |-> None]
        /\ counted = {}
        /\ whole = {}
        /\ fact = [k \in Casts \X Days |-> None]

Create(b, c) == /\ content[b] = None
                /\ content' = [content EXCEPT ![b] = c]
                /\ UNCHANGED <<counted, whole, fact>>

(* The days of the names that who resolves become rows of batch b. *)
Store(b, who) ==
  LET c == content[b]
      stores(k) == \E n \in Header[c] : who[n] = k[1] /\ k[2] \in Parts[c][n]
      resolved == \A n \in Header[c] : who[n] # None
  IN /\ fact' = [k \in Casts \X Days |-> IF stores(k) THEN b ELSE fact[k]]
     /\ whole' = IF resolved THEN whole \cup {b} ELSE whole \ {b}

(* A person confirms b, or confirms it again when two confirmations race.  *)
Import(b) ==
  /\ content[b] # None
  /\ counted' = counted \cup {b}
  /\ \A a \in counted \ {b} : content[a] # content[b]
  /\ \E who \in [Names -> Casts \cup {None}] : Store(b, who)
  /\ UNCHANGED content

(* A reparse makes b a preview again. *)
Reopen(b) == /\ b \in counted
             /\ counted' = counted \ {b}
             /\ whole' = whole \ {b}
             /\ UNCHANGED <<content, fact>>

Next == \E b \in BatchIds :
          \/ \E c \in Contents : Create(b, c)
          \/ Import(b)
          \/ Reopen(b)

Spec == Init /\ [][Next]_vars
=============================================================================
