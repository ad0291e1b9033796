------------------------------ MODULE CtiLedger ------------------------------
(***************************************************************************)
(* What the CTI import promises the readers of the stored sales and of the *)
(* list of batches, with no preview file, flag or step of a call in sight. *)
(* No lock keeps two calls from a batch, so that the promise is about what *)
(* each call saw: it ends by leaving the batch as completed as it saw it,  *)
(* or, if it saw it open, by importing it in one step.  CtiImport is shown *)
(* to implement this module.                                               *)
(***************************************************************************)
CONSTANTS
  Dates, Casts, Names, Files, Batches, None,
  Callers,
  DateOf,      \* [Files -> Dates]
  Valid,       \* [Files -> the names whose row has no error]
  Named        \* [Names -> the cast of that display name, or None]

VARIABLES
  content,     \* [Batches -> the file of the batch, or None: not created]
  counted,     \* the completed batches
  alias,       \* set of <<name, first day, cast>>
  fact,        \* [Dates \X Casts -> the row it was stored from, or None]
  on,          \* [Callers -> the batch whose status the call has read, or None]
  done         \* the calls that saw their batch completed

vars == <<content, counted, alias, fact, on, done>>

Init == /\ content = [b \in Batches |-> None]
        /\ counted = {} /\ alias = {}
        /\ fact = [k \in Dates \X Casts |-> None]
        /\ on = [p \in Callers |-> None] /\ done = {}

Create(b) == /\ content[b] = None
             /\ \E f \in Files : content' = [content EXCEPT ![b] = f]
             /\ UNCHANGED <<counted, alias, fact, on, done>>

Linked(n, c) == Named[n] = c \/ \E d \in Dates : <<n, d, c>> \in alias

(* A name gets one cast from a day on, and a cast by one alias only. *)
Link(n, d, c) == /\ alias' = alias \cup {<<n, d, c>>}
                 /\ ~\E x \in Dates : <<n, x, c>> \in alias
                 /\ ~\E x \in Casts : <<n, d, x>> \in alias
                 /\ UNCHANGED <<content, counted, fact, on, done>>

(* Call p reads the status of b. *)
Look(p, b) == /\ on[p] = None /\ content[b] # None
              /\ on' = [on EXCEPT ![p] = b]
              /\ done' = IF b \in counted THEN done \cup {p} ELSE done
              /\ UNCHANGED <<content, counted, alias, fact>>

(* It writes a status: b is completed again if the call saw it completed,  *)
(* and open again if not, whatever has happened to it since.               *)
Settle(p) == /\ counted' = IF p \in done THEN counted \cup {on[p]} ELSE counted \ {on[p]}
             /\ UNCHANGED fact

(* It imports the batch it saw open: of some casts, but at least one, the  *)
(* row of a name linked to the cast, no row under two casts.               *)
Import(p) ==
  LET b == on[p]  f == content[b]
  IN /\ p \notin done
     /\ counted' = counted \cup {b}
     /\ \E row \in [Casts -> Names \cup {None}] :
          /\ \E c \in Casts : row[c] # None
          /\ \A c \in Casts : row[c] # None =>
               /\ row[c] \in Valid[f] /\ Linked(row[c], c)
               /\ \A x \in Casts : row[x] = row[c] => x = c
          /\ fact' = [k \in Dates \X Casts |-> IF k[1] = DateOf[f] /\ row[k[2]] # None
                        THEN [batch |-> b, name |-> row[k[2]]] ELSE fact[k]]

(* The call ends, or goes back to where it has read nothing: after one of  *)
(* these, or without having written a status.                              *)
End(p) == /\ on[p] # None
          /\ on' = [on EXCEPT ![p] = None] /\ done' = done \ {p}
          /\ Settle(p) \/ Import(p) \/ UNCHANGED <<counted, fact>>
          /\ UNCHANGED <<content, alias>>

Next ==
  \/ \E b \in Batches : Create(b)
  \/ \E n \in Names, d \in Dates, c \in Casts : Link(n, d, c)
  \/ \E p \in Callers : (\E b \in Batches : Look(p, b)) \/ End(p)

Spec == Init /\ [][Next]_vars
=============================================================================
