--------------------------- MODULE DriveLockProofs ---------------------------
(***************************************************************************)
(* What the file lock buys.  When every writer takes it, that is with      *)
(* automatic execution off, no process writes over a status it has not     *)
(* seen, the pipeline implements DriveFileLifecycle, and the columns of a  *)
(* row agree with its status; a review lasts until it is confirmed, and,   *)
(* without crashes, no content gets two previews.  With automatic          *)
(* execution on the scan works outside the lock, and TLC finds the first   *)
(* two violated.                                                           *)
(***************************************************************************)
EXTENDS DriveConfirmProofs

(* The places of the code inside withAdvisoryLock. *)
Held == Transitions \cup
  {"upsert", "upsertWrite", "fetch", "dispatch", "store", "failCount",
   "xread", "xlist", "xfetch", "xdup", "xfind", "xpreview", "resetRead"}

LockOf(p) == pc[p] \in Held => fileLock[file[p]] = p

(* The row still has the status that was read, or a review was synchronised. *)
FreshOf(p) ==
  pc[p] \in {"upsertWrite", "store"} =>
    \/ status[file[p]] = saw[p]
    \/ saw[p] = "REVIEW_REQUIRED" /\ status[file[p]] = "IMPORTED" /\ link[file[p]].last # None

(* What a detection may write over the status it read. *)
UpsertEdge(s, t) ==
  \/ s = Absent /\ t \in {"DETECTED", "UNMAPPED"}
  \/ s # Absent /\ \/ t \in {"UNMAPPED", "REVIEW_REQUIRED"}
                   \/ t = s
                   \/ s = "IMPORTED" /\ t = "DETECTED"

(* Why each process is where it is, in terms of the row it has locked. *)
ReasonOf(p) ==
  /\ pc[p] = "upsertWrite" => UpsertEdge(saw[p], to[p])
  /\ pc[p] = "toDetected" => status[file[p]] = "FAILED_RETRYABLE"
  /\ pc[p] \in {"fetch", "toReady"} => status[file[p]] = "DOWNLOADING"
  /\ pc[p] = "toReset" => link[file[p]].last = None
  /\ pc[p] = "store" =>
       /\ CanTransition(saw[p], to[p]) /\ to[p] # "IMPORTED"
       /\ step[p] = "toDetected" => saw[p] = "FAILED_RETRYABLE"
       /\ step[p] = "toReady" => saw[p] = "DOWNLOADING"
       /\ step[p] = "toReset" => link[file[p]].last = None
       /\ step[p] = "toDownloading" => to[p] = "DOWNLOADING"
       /\ to[p] = "DETECTED" => step[p] = "toDetected"
       /\ to[p] = "READY" => step[p] \in {"toReady", "toReset"}

SafeOf(p) == LockOf(p) /\ FreshOf(p) /\ ReasonOf(p)

LockInv == \A p \in Workers : SafeOf(p)

LEMMA LockInit == Init => LockInv
BY DEF Init, LockInv, SafeOf, LockOf, FreshOf, ReasonOf, Held, Transitions

(* What a step must spare for the others: their locals, and, for a file    *)
(* they have locked, the lock, the status and the batch of its row.        *)
Spares(q) ==
  /\ pc'[q] = pc[q] /\ step'[q] = step[q] /\ file'[q] = file[q]
  /\ saw'[q] = saw[q] /\ to'[q] = to[q] /\ loc'[q] = loc[q]
  /\ pc[q] \in Held => /\ fileLock'[file[q]] = fileLock[file[q]]
                       /\ status'[file[q]] = status[file[q]]
                       /\ link'[file[q]].last = link[file[q]].last

LEMMA SparedIsSafe ==
  ASSUME NEW q \in Workers, SafeOf(q), Spares(q) PROVE SafeOf(q)'
<1>1. LockOf(q)'
  BY DEF SafeOf, Spares, LockOf
<1>2. FreshOf(q)'
  BY DEF SafeOf, Spares, FreshOf, Held
<1>3. ReasonOf(q)'
  BY DEF SafeOf, Spares, ReasonOf, Held, Transitions
<1> QED
  BY <1>1, <1>2, <1>3 DEF SafeOf

(* A row that another process has locked is not the one p works on. *)
LEMMA LockExcludes ==
  ASSUME LockInv, NEW p \in Workers, NEW q \in Workers, p # q,
         pc[p] \in Held, pc[q] \in Held
  PROVE  file[p] # file[q]
BY DEF LockInv, SafeOf, LockOf

-----------------------------------------------------------------------------
(* Steps that leave every row alone. *)

(* A step of p takes only free locks and releases only its own. *)
LocksFair(p) ==
  \A f \in Files : fileLock[f] \notin {None, p} => fileLock'[f] = fileLock[f]

LEMMA QuietSparesOthers ==
  ASSUME TypeInv, LockInv, NEW p \in Workers, OnlyLocals(p), UNCHANGED row, LocksFair(p)
  PROVE  \A q \in Workers \ {p} : SafeOf(q)'
<1> SUFFICES ASSUME NEW q \in Workers, q # p PROVE SafeOf(q)'
  OBVIOUS
<1>1. pc[q] \in Held => file[q] \in Files /\ fileLock[file[q]] = q
  BY DEF TypeInv, Shape, ShapeOf, LockInv, SafeOf, LockOf, Held, Transitions
<1>2. q # None
  BY PipelineAssumption DEF Workers
<1>3. Spares(q)
  BY <1>1, <1>2 DEF Spares, OnlyLocals, LocksFair, row
<1> QED
  BY <1>3, SparedIsSafe DEF LockInv

LEMMA LockQuietScan ==
  ASSUME ~AutoExecution, TypeInv, LockInv, NEW p \in Pollers,
         Scan(p), ~UpsertRead(p), ~UpsertWrite(p), ~ListFolder(p)
  PROVE  LockInv'
<1>1. p \in Workers /\ LocalType /\ LockType /\ ShapeOf(p) /\ SafeOf(p)
  BY TypeGroups DEF TypeInv, Shape, Workers, LockInv
<1>2. OnlyLocals(p) /\ UNCHANGED row
  BY QuietScan DEF Quiet
<1>3. CASE PollStart(p) \/ PollEnd(p) \/ PickFile(p)
  <2>1. LocksFair(p)
    BY <1>3 DEF PollStart, PollEnd, PickFile, LocksFair, locks
  <2>2. SafeOf(p)'
    BY <1>1, <1>3 DEF PollStart, PollEnd, PickFile, Goto, LocalType, SafeOf, LockOf,
                      FreshOf, ReasonOf, Held, Transitions
  <2> QED
    BY <1>1, <1>2, <2>1, <2>2, QuietSparesOthers DEF LockInv
<1>4. CASE EnterFile(p)
  <2>1. LocksFair(p)
    BY <1>1, <1>4 DEF EnterFile, LocksFair, LockType
  <2>2. SafeOf(p)'
    BY <1>1, <1>4 DEF EnterFile, Goto, Keep, LocalType, LockType, ShapeOf, SafeOf, LockOf,
                      FreshOf, ReasonOf, Held, Transitions
  <2> QED
    BY <1>1, <1>2, <2>1, <2>2, QuietSparesOthers DEF LockInv
<1>5. CASE Fetch(p) \/ Dispatch(p)
  <2>1. LocksFair(p)
    BY <1>5 DEF Fetch, Dispatch, LocksFair, locks
  <2>2. SafeOf(p)'
    <3>1. CASE Fetch(p)
      BY <1>1, <1>2, <3>1 DEF Fetch, Goto, Keep, SetLoc, LocalType, SafeOf, LockOf,
                        FreshOf, ReasonOf, Held, Transitions, locks, row
    <3>2. CASE Dispatch(p)
      BY <1>1, <3>2 DEF Dispatch, Goto, Keep, LocalType, SafeOf, LockOf,
                        FreshOf, ReasonOf, Held, Transitions
    <3> QED
      BY <1>5, <3>1, <3>2
  <2> QED
    BY <1>1, <1>2, <2>1, <2>2, QuietSparesOthers DEF LockInv
<1> QED
  BY <1>3, <1>4, <1>5 DEF Scan

LEMMA LockQuietWork ==
  ASSUME ~AutoExecution, TypeInv, LockInv, NEW p \in Workers, Work(p), ~TransitionRead(p), ~Store(p)
  PROVE  LockInv'
<1>1. LocalType /\ LockType /\ ShapeOf(p) /\ SafeOf(p)
  BY TypeGroups DEF TypeInv, Shape, LockInv
<1>2. OnlyLocals(p) /\ UNCHANGED row
  BY QuietWork DEF Quiet
<1>3. CASE TryLock(p)
  <2>1. LocksFair(p)
    BY <1>1, <1>3 DEF TryLock, LocksFair, LockType
  <2>2. SafeOf(p)'
    BY <1>1, <1>3 DEF TryLock, Goto, Keep, LocalType, LockType, ShapeOf, SafeOf, LockOf,
                      FreshOf, ReasonOf, Held, Transitions
  <2> QED
    BY <1>1, <1>2, <2>1, <2>2, QuietSparesOthers DEF LockInv
<1>4. CASE Leave(p)
  <2>1. LocksFair(p)
    BY <1>1, <1>4 DEF Leave, LocksFair, LockType
  <2>2. SafeOf(p)'
    BY <1>1, <1>4 DEF Leave, Goto, LocalType, SafeOf, LockOf, FreshOf, ReasonOf, Held, Transitions
  <2> QED
    BY <1>1, <1>2, <2>1, <2>2, QuietSparesOthers DEF LockInv
<1>5. CASE ResetRead(p)
  <2>1. LocksFair(p)
    BY <1>5 DEF ResetRead, LocksFair, locks
  <2>2. SafeOf(p)'
    BY <1>1, <1>2, <1>5 DEF ResetRead, Resettable, Goto, Keep, LocalType, SafeOf, LockOf,
                      FreshOf, ReasonOf, Held, Transitions, locks, row
  <2> QED
    BY <1>1, <1>2, <2>1, <2>2, QuietSparesOthers DEF LockInv
<1>6. CASE ExecRead(p) \/ ExecList(p) \/ ExecFetch(p) \/ ExecDuplicate(p) \/ ExecFind(p)
           \/ ExecPreview(p) \/ FailCount(p)
  <2>1. /\ pc[p] \in Held /\ file' = file /\ fileLock' = fileLock
        /\ pc'[p] \in {"leave", "xlist", "xfetch", "xdup", "xfind", "xpreview", "toImporting",
                       "toReview", "toFailed", "failCount"}
    BY <1>1, <1>6 DEF ExecRead, ExecList, ExecFetch, ExecDuplicate, ExecFind, ExecPreview, FailCount,
                      Goto, Keep, SetLoc, LocalType, Held, locks
  <2>2. LocksFair(p)
    BY <2>1 DEF LocksFair
  <2>3. SafeOf(p)'
    BY <1>1, <2>1 DEF SafeOf, LockOf, FreshOf, ReasonOf
  <2> QED
    BY <1>1, <1>2, <2>2, <2>3, QuietSparesOthers DEF LockInv
<1> QED
  BY <1>3, <1>4, <1>5, <1>6 DEF Work

LEMMA LockCrash ==
  ASSUME TypeInv, LockInv, NEW p \in Workers, Crash(p) PROVE LockInv'
<1>1. LocalType /\ LockType
  BY TypeGroups DEF TypeInv
<1>2. OnlyLocals(p) /\ UNCHANGED row
  BY QuietCrash DEF Quiet
<1>3. LocksFair(p)
  BY <1>1 DEF Crash, Unlock, LocksFair, LockType
<1>4. SafeOf(p)'
  BY <1>1 DEF Crash, Goto, LocalType, SafeOf, LockOf, FreshOf, ReasonOf, Held, Transitions
<1> QED
  BY <1>2, <1>3, <1>4, QuietSparesOthers DEF LockInv

LEMMA LockStart ==
  ASSUME TypeInv, LockInv, NEW p \in Workers, NEW f \in Files,
         CliStart(p, f) \/ ResetStart(p, f)
  PROVE  LockInv'
<1>1. LocalType
  BY TypeGroups DEF TypeInv
<1>2. OnlyLocals(p) /\ UNCHANGED row
  BY QuietStart DEF Quiet
<1>3. LocksFair(p)
  BY DEF CliStart, ResetStart, LocksFair, locks
<1>4. SafeOf(p)'
  BY <1>1 DEF CliStart, ResetStart, Goto, LocalType, SafeOf, LockOf, FreshOf, ReasonOf,
              Held, Transitions
<1> QED
  BY <1>2, <1>3, <1>4, QuietSparesOthers DEF LockInv

(* Steps that touch no local, no lock, no status and no link. *)
LEMMA LockOther ==
  ASSUME LockInv, UNCHANGED <<local, fileLock, status, link>> PROVE LockInv'
<1> SUFFICES ASSUME NEW q \in Workers PROVE SafeOf(q)'
  BY DEF LockInv
<1>1. Spares(q)
  BY DEF Spares, local
<1> QED
  BY <1>1, SparedIsSafe DEF LockInv

-----------------------------------------------------------------------------
(* Steps that read or write a status. *)

LEMMA LockUpsertRead ==
  ASSUME TypeInv, LockInv, NEW p \in Pollers, UpsertRead(p) PROVE LockInv'
<1>1. p \in Workers /\ LocalType /\ ShapeOf(p) /\ SafeOf(p)
  BY TypeGroups DEF TypeInv, Shape, Workers, LockInv
<1>2. /\ pc'[p] = "upsertWrite" /\ file' = file /\ fileLock' = fileLock
      /\ saw'[p] = status[file[p]] /\ UNCHANGED row
  BY <1>1 DEF UpsertRead, Goto, LocalType, locks
<1>3. UpsertEdge(status[file[p]], to'[p])
  BY <1>1 DEF UpsertRead, LocalType, UpsertStatus, NewStatus, UpsertEdge
<1>4. SafeOf(p)'
  BY <1>1, <1>2, <1>3 DEF UpsertRead, SafeOf, LockOf, FreshOf, ReasonOf, Held, Transitions, row
<1>5. OnlyLocals(p) /\ LocksFair(p)
  BY <1>1, <1>2 DEF UpsertRead, Goto, LocalType, OnlyLocals, LocksFair
<1> QED
  BY <1>1, <1>2, <1>4, <1>5, QuietSparesOthers DEF LockInv

LEMMA LockTransitionRead ==
  ASSUME TypeInv, LockInv, NEW p \in Workers, TransitionRead(p) PROVE LockInv'
<1>1. LocalType /\ ShapeOf(p) /\ SafeOf(p)
  BY TypeGroups DEF TypeInv, Shape, LockInv
<1>2. file' = file /\ fileLock' = fileLock /\ UNCHANGED row /\ pc[p] \in Transitions
  BY DEF TransitionRead, Keep, locks
<1>3. Caught(p) \in {"failCount", "leave"}
  BY DEF Caught
<1>4. OnlyLocals(p) /\ LocksFair(p)
  BY <1>1, <1>2 DEF TransitionRead, Goto, Keep, LocalType, OnlyLocals, LocksFair
<1>5. CASE CanTransition(status[file[p]], Target(p))
  <2>1. /\ pc'[p] = "store" /\ saw'[p] = status[file[p]] /\ to'[p] = Target(p)
        /\ step'[p] = pc[p]
    BY <1>1, <1>5 DEF TransitionRead, Goto, LocalType
  <2>2. /\ Target(p) # "IMPORTED"
        /\ pc[p] = "toDownloading" => Target(p) = "DOWNLOADING"
        /\ Target(p) = "DETECTED" => pc[p] = "toDetected"
        /\ Target(p) = "READY" => pc[p] \in {"toReady", "toReset"}
    BY <1>2 DEF Transitions, Target, FailureStatus
  <2>3. SafeOf(p)'
    BY <1>1, <1>2, <1>5, <2>1, <2>2 DEF SafeOf, LockOf, FreshOf, ReasonOf, Held, row
  <2> QED
    BY <1>2, <1>4, <2>3, QuietSparesOthers DEF LockInv
<1>6. CASE ~CanTransition(status[file[p]], Target(p))
  <2>1. pc'[p] \in {"failCount", "leave"}
    BY <1>1, <1>3, <1>6 DEF TransitionRead, Goto, LocalType
  <2>2. SafeOf(p)'
    BY <1>1, <1>2, <2>1 DEF SafeOf, LockOf, FreshOf, ReasonOf, Held
  <2> QED
    BY <1>2, <1>4, <2>2, QuietSparesOthers DEF LockInv
<1> QED
  BY <1>5, <1>6

(* A write to the row p has locked. *)
LEMMA WriteSparesOthers ==
  ASSUME TypeInv, LockInv, NEW p \in Workers, pc[p] \in Held, OnlyLocals(p),
         UNCHANGED fileLock,
         \A f \in Files \ {file[p]} : status'[f] = status[f] /\ link'[f] = link[f]
  PROVE  \A q \in Workers \ {p} : SafeOf(q)'
<1> SUFFICES ASSUME NEW q \in Workers, q # p PROVE SafeOf(q)'
  OBVIOUS
<1>1. pc[q] \in Held => file[q] \in Files \ {file[p]}
  BY LockExcludes DEF TypeInv, Shape, ShapeOf, Held, Transitions
<1>2. Spares(q)
  BY <1>1 DEF Spares, OnlyLocals
<1> QED
  BY <1>2, SparedIsSafe DEF LockInv

LEMMA LockUpsertWrite ==
  ASSUME TypeInv, LockInv, NEW p \in Pollers, UpsertWrite(p) PROVE LockInv'
<1>1. p \in Workers /\ RowType /\ LocalType /\ ShapeOf(p) /\ SafeOf(p)
  BY TypeGroups DEF TypeInv, Shape, Workers, LockInv
<1>2. pc[p] \in Held /\ file[p] \in Files
  BY <1>1 DEF UpsertWrite, Held, ShapeOf
<1>3. OnlyLocals(p) /\ UNCHANGED <<file, fileLock, link>>
  BY <1>1 DEF UpsertWrite, Goto, Keep, LocalType, OnlyLocals, locks
<1>4. status'[file[p]] = to[p] /\ \A f \in Files \ {file[p]} : status'[f] = status[f]
  BY <1>1, <1>2 DEF UpsertWrite, RowType
<1>5. \/ pc'[p] = "toDetected" /\ to[p] = "FAILED_RETRYABLE"
      \/ pc'[p] \in {"toDownloading", "leave"}
  BY <1>1 DEF UpsertWrite, Goto, LocalType
<1>6. SafeOf(p)'
  BY <1>1, <1>2, <1>3, <1>4, <1>5 DEF SafeOf, LockOf, FreshOf, ReasonOf
<1> QED
  BY <1>1, <1>2, <1>3, <1>4, <1>6, WriteSparesOthers DEF LockInv

LEMMA LockStore ==
  ASSUME TypeInv, LockInv, NEW p \in Workers, Store(p) PROVE LockInv'
<1>1. RowType /\ LocalType /\ ShapeOf(p) /\ SafeOf(p)
  BY TypeGroups DEF TypeInv, Shape, LockInv
<1>2. pc[p] \in Held /\ file[p] \in Files
  BY <1>1 DEF Store, Held, ShapeOf
<1>3. OnlyLocals(p) /\ UNCHANGED <<file, fileLock>>
  BY <1>1 DEF Store, Goto, Keep, LocalType, OnlyLocals, locks
<1>4. /\ status'[file[p]] = to[p]
      /\ \A f \in Files \ {file[p]} : status'[f] = status[f] /\ link'[f] = link[f]
  BY <1>1, <1>2 DEF Store, RowType
<1>5. /\ After(p) \in {"toDownloading", "fetch", "dispatch", "xfetch", "xfind", "xpreview", "leave"}
      /\ After(p) = "fetch" => step[p] = "toDownloading"
  BY DEF After
<1>6. pc'[p] = After(p)
  BY <1>1 DEF Store, Goto, LocalType
<1>7. SafeOf(p)'
  BY <1>1, <1>2, <1>3, <1>4, <1>5, <1>6 DEF Store, SafeOf, LockOf, FreshOf, ReasonOf
<1> QED
  BY <1>2, <1>3, <1>4, <1>7, WriteSparesOthers DEF LockInv

-----------------------------------------------------------------------------
(* A synchronisation takes a free lock, and writes only a row under review *)
(* that is linked to its batch, whoever holds the lock of that row.        *)

LEMMA LockSync ==
  ASSUME TypeInv, LockInv, NEW b \in BatchIds, Sync(b) \/ SyncCrash(b) PROVE LockInv'
<1>1. RowType /\ LockType
  BY TypeGroups DEF TypeInv
<1>2. UNCHANGED local
  BY DEF Sync, SyncRead, SyncLock, SyncFind, SyncWrite, SyncCrash
<1>3. \A f \in Files : fileLock[f] \notin {None, b} => fileLock'[f] = fileLock[f]
  BY <1>1 DEF Sync, SyncRead, SyncLock, SyncFind, SyncWrite, SyncCrash, Unlock, LockType, locks
<1>4. \A f \in Files :
        /\ link'[f].last = link[f].last
        /\ \/ status'[f] = status[f]
           \/ /\ status[f] = "REVIEW_REQUIRED" /\ status'[f] = "IMPORTED"
              /\ link[f].last = b
  <2>1. CASE SyncWrite(b)
    <3> DEFINE g == syncs[b].file
               l == [link[g] EXCEPT !.ok = b]
    <3>1. \/ UNCHANGED <<status, link>>
          \/ /\ status[g] = "REVIEW_REQUIRED" /\ link[g].last = b
             /\ status' = [status EXCEPT ![g] = "IMPORTED"]
             /\ link' = [link EXCEPT ![g] = l]
      BY <2>1 DEF SyncWrite
    <3>2. g \in Files => l.last = link[g].last
      BY <1>1 DEF RowType
    <3> HIDE DEF g, l
    <3> QED
      BY <1>1, <3>1, <3>2 DEF RowType
  <2>2. CASE ~SyncWrite(b)
    BY <2>2 DEF Sync, SyncRead, SyncLock, SyncFind, SyncCrash, row
  <2> QED
    BY <2>1, <2>2
<1> SUFFICES ASSUME NEW q \in Workers PROVE SafeOf(q)'
  BY DEF LockInv
<1>5. q # None /\ q # b /\ b # None
  BY PipelineAssumption DEF Workers
<1>6. SafeOf(q) /\ (pc[q] \in Held => file[q] \in Files)
  BY DEF LockInv, TypeInv, Shape, ShapeOf, Held, Transitions
<1>7. LockOf(q)'
  BY <1>2, <1>3, <1>5, <1>6 DEF SafeOf, LockOf, local
<1>8. FreshOf(q)'
  BY <1>2, <1>4, <1>5, <1>6 DEF SafeOf, FreshOf, local, Held
<1>9. ReasonOf(q)'
  BY <1>2, <1>4, <1>5, <1>6 DEF SafeOf, ReasonOf, local, Held, Transitions
<1> QED
  BY <1>7, <1>8, <1>9 DEF SafeOf

LEMMA LockNext ==
  ASSUME ~AutoExecution PROVE TypeInv /\ LockInv /\ [Next]_vars => LockInv'
<1> SUFFICES ASSUME TypeInv, LockInv, [Next]_vars PROVE LockInv'
  OBVIOUS
<1>1. ASSUME NEW p \in Pollers, Scan(p) PROVE LockInv'
  <2>1. CASE UpsertRead(p) \/ UpsertWrite(p)
    BY <2>1, LockUpsertRead, LockUpsertWrite
  <2>2. CASE ListFolder(p)
    BY <2>2, LockOther DEF ListFolder, row, locks
  <2>3. CASE ~UpsertRead(p) /\ ~UpsertWrite(p) /\ ~ListFolder(p)
    BY <1>1, <2>3, LockQuietScan
  <2> QED
    BY <2>1, <2>2, <2>3
<1>2. ASSUME NEW p \in Workers, Work(p) PROVE LockInv'
  BY <1>2, LockTransitionRead, LockStore, LockQuietWork
<1>3. ASSUME NEW b \in BatchIds, Sync(b) \/ SyncCrash(b) PROVE LockInv'
  BY <1>3, LockSync
<1>4. ASSUME Human PROVE LockInv'
  <2>1. ASSUME NEW p \in Clis \cup Operators, NEW f \in Files,
               CliStart(p, f) \/ ResetStart(p, f)
        PROVE  LockInv'
    BY <2>1, LockStart DEF Workers
  <2>2. ASSUME NEW b \in BatchIds, Confirm(b) \/ Reopen(b) PROVE LockInv'
    BY <2>2, LockOther DEF Confirm, Reopen, row, locks
  <2>3. ASSUME NEW f \in Files, DriveEdit(f) \/ DriveMove(f) \/ DriveRename(f)
        PROVE  LockInv'
    BY <2>3, LockOther DEF DriveEdit, DriveMove, DriveRename, row, locks
  <2>4. ASSUME NEW g \in Folders, SetMapping(g) PROVE LockInv'
    BY <2>4, LockOther DEF SetMapping, row, locks
  <2> QED
    BY <1>4, <2>1, <2>2, <2>3, <2>4 DEF Human
<1>5. ASSUME NEW f \in Files, RetryDue(f) PROVE LockInv'
  BY <1>5, LockOther DEF RetryDue, locks
<1>6. ASSUME NEW p \in Workers, Crash(p) PROVE LockInv'
  BY <1>6, LockCrash
<1>7. CASE UNCHANGED vars
  BY <1>7, LockOther DEF vars, row, locks
<1> QED
  BY <1>1, <1>2, <1>3, <1>4, <1>5, <1>6, <1>7 DEF Next, Failures

(* With automatic execution off, a status read under the file lock is the  *)
(* one the row has when the write that rests on it is made.                *)
THEOREM LockedWritesAreFresh == ASSUME ~AutoExecution PROVE Spec => []NoStaleWrite
<1>1. LockInv => NoStaleWrite
  BY DEF LockInv, SafeOf, FreshOf, NoStaleWrite
<1>2. TypeInv /\ LockInv /\ [Next]_vars => LockInv'
  BY LockNext
<1> QED
  BY <1>1, <1>2, TypeCorrect, LockInit, PTL DEF Spec

-----------------------------------------------------------------------------
(* Every step is one of the lifecycle, or none of its business.            *)

ok == [f \in Files |-> link[f].ok]

LEMMA LifecycleInit == Init => Lifecycle!Init
BY DEF Init, Lifecycle!Init, Lifecycle!Absent, Absent

LEMMA LifecycleStutter ==
  ASSUME UNCHANGED <<status, link, accepted>> PROVE UNCHANGED Lifecycle!vars
BY DEF Lifecycle!vars

(* A write of one status along an edge, with every success kept. *)
LEMMA LifecycleMove ==
  ASSUME TypeInv, NEW f \in Files, NEW t \in Statuses,
         Lifecycle!Edge(status[f], t) \/ t = status[f],
         status' = [status EXCEPT ![f] = t], UNCHANGED <<ok, accepted>>
  PROVE  [Lifecycle!Next]_Lifecycle!vars
<1>1. status \in [Files -> Statuses \cup {Absent}]
  BY TypeGroups DEF TypeInv, RowType
<1>2. CASE t = status[f]
  <2>1. status' = status
    BY <1>1, <1>2
  <2> QED
    BY <2>1 DEF Lifecycle!vars, ok
<1>3. CASE Lifecycle!Edge(status[f], t)
  BY <1>3 DEF Lifecycle!Next, Lifecycle!Move, Lifecycle!Statuses, Statuses, ok
<1> QED
  BY <1>2, <1>3

LEMMA LifecycleUpsertWrite ==
  ASSUME TypeInv, LockInv, NEW p \in Pollers, UpsertWrite(p)
  PROVE  [Lifecycle!Next]_Lifecycle!vars
<1>1. p \in Workers /\ ShapeOf(p) /\ SafeOf(p)
  BY DEF TypeInv, Shape, Workers, LockInv
<1>2. file[p] \in Files /\ to[p] \in Statuses
  BY <1>1 DEF UpsertWrite, ShapeOf
<1>3. UpsertEdge(saw[p], to[p])
  BY <1>1 DEF UpsertWrite, SafeOf, ReasonOf
<1>4. Lifecycle!Edge(status[file[p]], to[p]) \/ to[p] = status[file[p]]
  BY <1>1, <1>3 DEF UpsertWrite, SafeOf, FreshOf, UpsertEdge, Absent, Lifecycle!Edge,
     Lifecycle!DetectionEdge, Lifecycle!CanTransition, Lifecycle!AllowedTransitions,
     Lifecycle!Absent
<1>5. status' = [status EXCEPT ![file[p]] = to[p]] /\ UNCHANGED <<ok, accepted>>
  BY DEF UpsertWrite, ok, imports
<1> QED
  BY <1>2, <1>4, <1>5, LifecycleMove

LEMMA LifecycleStore ==
  ASSUME TypeInv, LockInv, NEW p \in Workers, Store(p)
  PROVE  [Lifecycle!Next]_Lifecycle!vars
<1>1. RowType /\ ShapeOf(p) /\ SafeOf(p)
  BY TypeGroups DEF TypeInv, Shape, LockInv
<1>2. file[p] \in Files /\ to[p] \in Statuses
  BY <1>1 DEF Store, ShapeOf
<1>3. CanTransition(saw[p], to[p]) /\ to[p] # "IMPORTED"
  BY <1>1 DEF Store, SafeOf, ReasonOf
<1>4. status[file[p]] = saw[p]
  <2> SUFFICES ASSUME saw[p] = "REVIEW_REQUIRED", link[file[p]].last # None PROVE FALSE
    BY <1>1 DEF Store, SafeOf, FreshOf
  <2>1. to[p] \in {"DETECTED", "READY"}
    BY <1>3 DEF CanTransition, AllowedTransitions
  <2>2. step[p] \in {"toDetected", "toReady", "toReset"}
    BY <1>1, <2>1 DEF Store, SafeOf, ReasonOf
  <2> QED
    BY <1>1, <2>2 DEF Store, SafeOf, ReasonOf
<1>5. Lifecycle!Edge(status[file[p]], to[p])
  BY <1>3, <1>4 DEF CanTransition, AllowedTransitions, Lifecycle!Edge,
     Lifecycle!CanTransition, Lifecycle!AllowedTransitions
<1>6. \A f \in Files : link'[f].ok = link[f].ok
  BY <1>1, <1>2 DEF Store, RowType
<1>7. status' = [status EXCEPT ![file[p]] = to[p]] /\ UNCHANGED <<ok, accepted>>
  BY <1>6 DEF Store, ok, imports
<1> QED
  BY <1>2, <1>5, <1>7, LifecycleMove

LEMMA LifecycleSyncWrite ==
  ASSUME TypeInv, ConfirmInv, NEW b \in BatchIds, SyncWrite(b)
  PROVE  [Lifecycle!Next]_Lifecycle!vars
<1>1. RowType /\ SyncType
  BY TypeGroups DEF TypeInv
<1>2. b \in accepted
  BY DEF SyncWrite, ConfirmInv, Requests
<1> DEFINE f == syncs[b].file
<1>3. CASE f \in Files /\ status[f] = "REVIEW_REQUIRED" /\ link[f].last = b
  <2>1. /\ status' = [status EXCEPT ![f] = "IMPORTED"]
        /\ link' = [link EXCEPT ![f].ok = b] /\ UNCHANGED accepted
    BY <1>3 DEF SyncWrite, imports
  <2>2. ok' = [ok EXCEPT ![f] = b]
    BY <1>1, <1>3, <2>1 DEF ok, RowType
  <2>3. Lifecycle!Import(f, b)
    BY <1>2, <1>3, <2>1, <2>2 DEF Lifecycle!Import, ok
  <2> QED
    BY <1>3, <2>3 DEF Lifecycle!Next
<1>4. CASE ~(f \in Files /\ status[f] = "REVIEW_REQUIRED" /\ link[f].last = b)
  <2>1. status' = status /\ link' = link /\ UNCHANGED accepted
    <3>1. CASE f \in Files
      BY <1>4, <3>1 DEF SyncWrite, imports
    <3>2. CASE f \notin Files
      <4>1. status' = status \/ status' = [status EXCEPT ![f] = "IMPORTED"]
        BY DEF SyncWrite
      <4>2. link' = link \/ link' = [link EXCEPT ![f].ok = b]
        BY DEF SyncWrite
      <4> QED
        BY <1>1, <3>2, <4>1, <4>2 DEF SyncWrite, RowType, imports
    <3> QED
      BY <3>1, <3>2
  <2> QED
    BY <2>1, LifecycleStutter
<1> QED
  BY <1>3, <1>4

LEMMA LifecycleNext ==
  TypeInv /\ ConfirmInv /\ LockInv /\ [Next]_vars => [Lifecycle!Next]_Lifecycle!vars
<1> SUFFICES ASSUME TypeInv, ConfirmInv, LockInv, [Next]_vars
             PROVE  [Lifecycle!Next]_Lifecycle!vars
  OBVIOUS
<1>1. ASSUME NEW p \in Pollers, Scan(p) PROVE [Lifecycle!Next]_Lifecycle!vars
  <2>1. CASE UpsertWrite(p)
    BY <2>1, LifecycleUpsertWrite
  <2>2. CASE ~UpsertWrite(p)
    <3>1. UNCHANGED <<status, link, accepted>>
      BY <1>1, <2>2 DEF Scan, PollStart, ListFolder, PollEnd, PickFile, EnterFile,
                        UpsertRead, Fetch, Dispatch, row, imports
    <3> QED
      BY <3>1, LifecycleStutter
  <2> QED
    BY <2>1, <2>2
<1>2. ASSUME NEW p \in Workers, Work(p) PROVE [Lifecycle!Next]_Lifecycle!vars
  <2>1. CASE Store(p)
    BY <2>1, LifecycleStore
  <2>2. CASE ~Store(p)
    <3>1. UNCHANGED <<status, link, accepted>>
      BY <1>2, <2>2 DEF Work, TryLock, ExecRead, ExecList, ExecFetch, ExecDuplicate,
                        ExecFind, ExecPreview, ResetRead, TransitionRead, FailCount, Leave, row, imports
    <3> QED
      BY <3>1, LifecycleStutter
  <2> QED
    BY <2>1, <2>2
<1>3. ASSUME NEW b \in BatchIds, Sync(b) \/ SyncCrash(b)
      PROVE  [Lifecycle!Next]_Lifecycle!vars
  <2>1. CASE SyncWrite(b)
    BY <2>1, LifecycleSyncWrite
  <2>2. CASE ~SyncWrite(b)
    <3>1. UNCHANGED <<status, link, accepted>>
      BY <1>3, <2>2 DEF Sync, SyncRead, SyncLock, SyncFind, SyncCrash, row, imports
    <3> QED
      BY <3>1, LifecycleStutter
  <2> QED
    BY <2>1, <2>2
<1>4. ASSUME NEW b \in BatchIds, Confirm(b) PROVE [Lifecycle!Next]_Lifecycle!vars
  <2>1. UNCHANGED <<status, link>> /\ (accepted' = accepted \/ accepted' = accepted \cup {b})
    BY <1>4 DEF Confirm, row
  <2>2. CASE accepted' = accepted
    BY <2>1, <2>2, LifecycleStutter
  <2>3. CASE accepted' = accepted \cup {b}
    BY <2>1, <2>3 DEF Lifecycle!Next, Lifecycle!Confirm
  <2> QED
    BY <2>1, <2>2, <2>3
<1>5. ASSUME Human, ~\E b \in BatchIds : Confirm(b) PROVE [Lifecycle!Next]_Lifecycle!vars
  <2>1. UNCHANGED <<status, link, accepted>>
    BY <1>5 DEF Human, CliStart, ResetStart, Reopen, DriveEdit, DriveMove, DriveRename,
                SetMapping, row, imports
  <2> QED
    BY <2>1, LifecycleStutter
<1>6. ASSUME NEW f \in Files, RetryDue(f) PROVE [Lifecycle!Next]_Lifecycle!vars
  BY <1>6, LifecycleStutter DEF RetryDue, imports
<1>7. ASSUME NEW p \in Workers, Crash(p) PROVE [Lifecycle!Next]_Lifecycle!vars
  BY <1>7, LifecycleStutter DEF Crash, row, imports
<1>8. CASE UNCHANGED vars
  BY <1>8, LifecycleStutter DEF vars, row, imports
<1> QED
  BY <1>1, <1>2, <1>3, <1>4, <1>5, <1>6, <1>7, <1>8 DEF Next, Failures

(* With automatic execution off, the scan, the executors, the reset and    *)
(* the synchronisation together implement the lifecycle of a Drive file:   *)
(* statuses move along the transition table, and IMPORTED is reached from  *)
(* review only, with a confirmed batch.                                    *)
THEOREM LockedPipelineImplementsLifecycle == ASSUME ~AutoExecution PROVE Spec => LifecycleSpec
<1>1. TypeInv /\ LockInv /\ [Next]_vars => LockInv'
  BY LockNext
<1> QED
  BY <1>1, TypeCorrect, TypeInit, TypeNext, ConfirmInit, ConfirmNext, LockInit,
     LifecycleInit, LifecycleNext, PTL DEF Spec, LifecycleSpec, Lifecycle!Spec

-----------------------------------------------------------------------------
(* Two facts about a row that relate its status to its other columns: a    *)
(* file waiting for a retry is within the retry cap, and a file that may   *)
(* be executed has its digest.                                             *)

(* What each process carries to its next write. *)
CarriesOf(p) ==
  /\ pc[p] = "toFailed" => loc[p].count \in 1..(MaxRetry + 1)
  /\ pc[p] = "store" /\ to[p] = "FAILED_RETRYABLE" =>
       step[p] = "toFailed" /\ loc[p].count \in 1..MaxRetry
  /\ pc[p] = "upsertWrite" => loc[p].sha = meta[file[p]].sha
  /\ \/ pc[p] = "toReady"
     \/ pc[p] = "store" /\ step[p] = "toReady"
     => loc[p].got # None
  /\ \/ pc[p] = "toReset"
     \/ pc[p] = "store" /\ step[p] = "toReset"
     => meta[file[p]].sha # None

RowInv == /\ RetryableWithinCap
          /\ ReadyHasDigest
          /\ \A p \in Workers : CarriesOf(p)

LEMMA RowInit == Init => RowInv
BY DEF Init, RowInv, RetryableWithinCap, ReadyHasDigest, CarriesOf, Absent

LEMMA CarriedOn ==
  ASSUME NEW q \in Workers, CarriesOf(q),
         pc'[q] = pc[q], step'[q] = step[q], file'[q] = file[q], to'[q] = to[q],
         loc'[q] = loc[q], pc[q] \in Held => meta'[file[q]].sha = meta[file[q]].sha
  PROVE  CarriesOf(q)'
BY DEF CarriesOf, Held, Transitions

(* Steps that leave the rows alone. *)
LEMMA RowQuiet ==
  ASSUME RowInv, NEW p \in Workers, OnlyLocals(p), UNCHANGED row, CarriesOf(p)'
  PROVE  RowInv'
<1>1. RetryableWithinCap' /\ ReadyHasDigest'
  BY DEF RowInv, RetryableWithinCap, ReadyHasDigest, row
<1>2. \A q \in Workers \ {p} : CarriesOf(q)'
  BY CarriedOn DEF RowInv, OnlyLocals, row
<1> QED
  BY <1>1, <1>2 DEF RowInv

LEMMA RowScan ==
  ASSUME TypeInv, RowInv, NEW p \in Pollers, Scan(p),
         ~UpsertRead(p), ~UpsertWrite(p), ~ListFolder(p)
  PROVE  RowInv'
<1>1. p \in Workers /\ EnvType /\ LocalType /\ ShapeOf(p)
  BY TypeGroups DEF TypeInv, Shape, Workers
<1>2. OnlyLocals(p) /\ UNCHANGED row
  BY QuietScan DEF Quiet
<1>3. CASE Fetch(p)
  <2>1. file[p] \in Files
    BY <1>1, <1>3 DEF Fetch, ShapeOf
  <2>2. drive[file[p]].content # None
    BY <1>1, <2>1, PipelineAssumption DEF EnvType
  <2>3. \/ pc'[p] = "toReady" /\ loc'[p] = [loc[p] EXCEPT !.got = drive[file[p]].content]
        \/ pc'[p] = "failCount"
    BY <1>1, <1>3 DEF Fetch, Goto, Keep, SetLoc, LocalType
  <2>4. [loc[p] EXCEPT !.got = drive[file[p]].content].got = drive[file[p]].content
    BY <1>1 DEF LocalType, Local
  <2>5. CarriesOf(p)'
    BY <2>2, <2>3, <2>4 DEF CarriesOf
  <2> QED
    BY <1>1, <1>2, <2>5, RowQuiet
<1>4. CASE ~Fetch(p)
  <2>1. pc'[p] \in {"next", "off", "enter", "upsert", "leave", "xlock"}
    BY <1>1, <1>4 DEF Scan, PollStart, PollEnd, PickFile, EnterFile, Dispatch, Goto, LocalType
  <2>2. CarriesOf(p)'
    BY <2>1 DEF CarriesOf
  <2> QED
    BY <1>1, <1>2, <2>2, RowQuiet
<1> QED
  BY <1>3, <1>4

LEMMA RowWork ==
  ASSUME TypeInv, RowInv, NEW p \in Workers, Work(p), ~TransitionRead(p), ~Store(p)
  PROVE  RowInv'
<1>1. RowType /\ LocalType /\ ShapeOf(p)
  BY TypeGroups DEF TypeInv, Shape
<1>2. OnlyLocals(p) /\ UNCHANGED row
  BY QuietWork DEF Quiet
<1>3. CASE FailCount(p)
  <2>1. file[p] \in Files
    BY <1>1, <1>3 DEF FailCount, ShapeOf
  <2>2. CountFailure(retry[file[p]].count) \in 1..(MaxRetry + 1)
    BY <1>1, <2>1, MaxRetryAssumption DEF RowType, CountFailure
  <2>3. pc'[p] = "toFailed" /\ loc'[p].count = CountFailure(retry[file[p]].count)
    BY <1>1, <1>3 DEF FailCount, Goto, SetLoc, LocalType, Local
  <2>4. CarriesOf(p)'
    BY <2>2, <2>3 DEF CarriesOf
  <2> QED
    BY <1>2, <2>4, RowQuiet
<1>4. CASE ResetRead(p)
  <2>1. \/ pc'[p] = "leave"
        \/ pc'[p] = "toReset" /\ meta[file[p]].sha # None
    BY <1>1, <1>4 DEF ResetRead, Resettable, Goto, LocalType
  <2>2. file' = file
    BY <1>4 DEF ResetRead, Keep
  <2>3. CarriesOf(p)'
    BY <1>2, <2>1, <2>2 DEF CarriesOf, row
  <2> QED
    BY <1>2, <2>3, RowQuiet
<1>5. CASE ~FailCount(p) /\ ~ResetRead(p)
  <2>1. pc'[p] \in {"xread", "resetRead", "leave", "next", "off", "xlist", "xfetch", "xdup",
                    "xfind", "xpreview", "toImporting", "toReview", "failCount"}
    BY <1>1, <1>5 DEF Work, TryLock, ExecRead, ExecList, ExecFetch, ExecDuplicate,
                      ExecFind, ExecPreview, Leave, Goto, LocalType
  <2>2. CarriesOf(p)'
    BY <2>1 DEF CarriesOf
  <2> QED
    BY <1>2, <2>2, RowQuiet
<1> QED
  BY <1>3, <1>4, <1>5

LEMMA RowUpsertRead ==
  ASSUME TypeInv, RowInv, NEW p \in Pollers, UpsertRead(p) PROVE RowInv'
<1>1. p \in Workers /\ LocalType
  BY TypeGroups DEF TypeInv, Workers
<1>2. OnlyLocals(p) /\ UNCHANGED row
  BY <1>1 DEF UpsertRead, Goto, LocalType, OnlyLocals
<1>3. pc'[p] = "upsertWrite" /\ loc'[p].sha = meta[file[p]].sha /\ file' = file
  BY <1>1 DEF UpsertRead, Goto, LocalType, Local
<1>4. CarriesOf(p)'
  BY <1>2, <1>3 DEF CarriesOf, row
<1> QED
  BY <1>1, <1>2, <1>4, RowQuiet

LEMMA RowTransitionRead ==
  ASSUME TypeInv, RowInv, NEW p \in Workers, TransitionRead(p) PROVE RowInv'
<1>1. LocalType /\ CarriesOf(p)
  BY TypeGroups DEF TypeInv, RowInv
<1>2. UNCHANGED <<row, file, loc>> /\ pc[p] \in Transitions
  BY DEF TransitionRead, Keep
<1>3. Caught(p) \in {"failCount", "leave"}
  BY DEF Caught
<1>4. OnlyLocals(p)
  BY <1>1 DEF TransitionRead, Goto, Keep, LocalType, OnlyLocals
<1>5. \/ pc'[p] = "store" /\ step'[p] = pc[p] /\ to'[p] = Target(p)
      \/ pc'[p] \in {"failCount", "leave"}
  BY <1>1, <1>3 DEF TransitionRead, Goto, LocalType
<1>6. Target(p) = "FAILED_RETRYABLE" => pc[p] = "toFailed" /\ loc[p].count \in 1..MaxRetry
  BY <1>1, <1>2, MaxRetryAssumption DEF CarriesOf, Transitions, Target, FailureStatus
<1>7. CarriesOf(p)'
  BY <1>1, <1>2, <1>5, <1>6 DEF CarriesOf, row
<1> QED
  BY <1>2, <1>4, <1>7, RowQuiet

-----------------------------------------------------------------------------
(* Steps that write a row, under its lock. *)

LEMMA RowOthers ==
  ASSUME TypeInv, LockInv, RowInv, NEW p \in Workers, pc[p] \in Held, OnlyLocals(p),
         \A f \in Files \ {file[p]} : meta'[f] = meta[f]
  PROVE  \A q \in Workers \ {p} : CarriesOf(q)'
<1> SUFFICES ASSUME NEW q \in Workers, q # p PROVE CarriesOf(q)'
  OBVIOUS
<1>1. pc[q] \in Held => file[q] \in Files \ {file[p]}
  BY LockExcludes DEF TypeInv, Shape, ShapeOf, Held, Transitions
<1> QED
  BY <1>1, CarriedOn DEF RowInv, OnlyLocals

LEMMA RowUpsertWrite ==
  ASSUME TypeInv, LockInv, RowInv, NEW p \in Pollers, UpsertWrite(p) PROVE RowInv'
<1>1. p \in Workers /\ RowType /\ LocalType /\ ShapeOf(p) /\ SafeOf(p) /\ CarriesOf(p)
  BY TypeGroups DEF TypeInv, Shape, Workers, LockInv, RowInv
<1>2. pc[p] \in Held /\ file[p] \in Files
  BY <1>1 DEF UpsertWrite, Held, ShapeOf
<1>3. OnlyLocals(p) /\ UNCHANGED retry
  BY <1>1 DEF UpsertWrite, Goto, Keep, LocalType, OnlyLocals
<1>4. /\ status'[file[p]] = to[p] /\ meta'[file[p]].sha = loc[p].sha
      /\ \A f \in Files \ {file[p]} : status'[f] = status[f] /\ meta'[f] = meta[f]
  BY <1>1, <1>2 DEF UpsertWrite, RowType
<1>5. to[p] \in {"FAILED_RETRYABLE", "READY", "IMPORTING"} => status[file[p]] = to[p]
  BY <1>1 DEF UpsertWrite, SafeOf, FreshOf, ReasonOf, UpsertEdge
<1>6. RetryableWithinCap'
  BY <1>2, <1>3, <1>4, <1>5 DEF RowInv, RetryableWithinCap
<1>7. loc[p].sha = meta[file[p]].sha
  BY <1>1 DEF UpsertWrite, CarriesOf
<1>8. ReadyHasDigest'
  BY <1>2, <1>4, <1>5, <1>7 DEF RowInv, ReadyHasDigest
<1>9. pc'[p] \in {"toDetected", "toDownloading", "leave"}
  BY <1>1 DEF UpsertWrite, Goto, LocalType
<1>10. CarriesOf(p)'
  BY <1>9 DEF CarriesOf
<1> QED
  BY <1>1, <1>2, <1>3, <1>4, <1>6, <1>8, <1>10, RowOthers DEF RowInv

LEMMA RowStore ==
  ASSUME TypeInv, LockInv, RowInv, NEW p \in Workers, Store(p) PROVE RowInv'
<1>1. RowType /\ LocalType /\ ShapeOf(p) /\ SafeOf(p) /\ CarriesOf(p)
  BY TypeGroups DEF TypeInv, Shape, LockInv, RowInv
<1>2. pc[p] \in Held /\ pc[p] = "store" /\ file[p] \in Files
  BY <1>1 DEF Store, Held, ShapeOf
<1>3. OnlyLocals(p)
  BY <1>1 DEF Store, Goto, Keep, LocalType, OnlyLocals
<1>4. /\ status'[file[p]] = to[p]
      /\ meta'[file[p]].sha = IF step[p] = "toReady" THEN loc[p].got ELSE meta[file[p]].sha
      /\ \A f \in Files \ {file[p]} : status'[f] = status[f] /\ meta'[f] = meta[f]
  BY <1>1, <1>2 DEF Store, RowType
<1>5. /\ \A f \in Files \ {file[p]} : retry'[f] = retry[f]
      /\ step[p] = "toFailed" => retry'[file[p]].count = loc[p].count
  BY <1>1, <1>2 DEF Store, RowType
<1>6. RetryableWithinCap'
  BY <1>1, <1>2, <1>4, <1>5 DEF CarriesOf, RowInv, RetryableWithinCap
<1>7. to[p] = "IMPORTING" => status[file[p]] = "READY" /\ step[p] # "toReady"
  BY <1>1, <1>2 DEF SafeOf, FreshOf, ReasonOf, CanTransition, AllowedTransitions
<1>8. to[p] = "READY" => step[p] \in {"toReady", "toReset"}
  BY <1>1, <1>2 DEF SafeOf, ReasonOf
<1>9. ReadyHasDigest'
  BY <1>1, <1>2, <1>4, <1>7, <1>8 DEF CarriesOf, RowInv, ReadyHasDigest
<1>10. pc'[p] \in {"toDownloading", "fetch", "dispatch", "xfetch", "xfind", "xpreview", "leave"}
  BY <1>1 DEF Store, After, Goto, LocalType
<1>11. CarriesOf(p)'
  BY <1>10 DEF CarriesOf
<1> QED
  BY <1>1, <1>2, <1>3, <1>4, <1>6, <1>9, <1>11, RowOthers DEF RowInv

(* The other steps at most make a retry due or mark a review imported. *)
LEMMA RowOther ==
  ASSUME RowInv, UNCHANGED <<local, meta>>,
         \A f \in Files : /\ retry'[f].count = retry[f].count
                          /\ status'[f] \in {status[f], "IMPORTED"}
  PROVE  RowInv'
<1>1. RetryableWithinCap' /\ ReadyHasDigest'
  BY DEF RowInv, RetryableWithinCap, ReadyHasDigest
<1>2. \A q \in Workers : CarriesOf(q)'
  BY DEF RowInv, CarriesOf, local
<1> QED
  BY <1>1, <1>2 DEF RowInv

LEMMA RowSync ==
  ASSUME TypeInv, RowInv, NEW b \in BatchIds, Sync(b) \/ SyncCrash(b) PROVE RowInv'
<1>1. RowType
  BY TypeGroups DEF TypeInv
<1>2. UNCHANGED <<local, meta>>
  BY DEF Sync, SyncRead, SyncLock, SyncFind, SyncWrite, SyncCrash, row
<1>3. CASE SyncWrite(b)
  <2> DEFINE g == syncs[b].file
             r == [retry[g] EXCEPT !.due = TRUE]
  <2>1. \/ UNCHANGED <<status, retry>>
        \/ /\ status' = [status EXCEPT ![g] = "IMPORTED"]
           /\ retry' = [retry EXCEPT ![g] = r]
    BY <1>3 DEF SyncWrite
  <2>2. g \in Files => r.count = retry[g].count
    BY <1>1 DEF RowType
  <2> HIDE DEF g, r
  <2>3. \A f \in Files : /\ retry'[f].count = retry[f].count
                         /\ status'[f] \in {status[f], "IMPORTED"}
    BY <1>1, <2>1, <2>2 DEF RowType
  <2> QED
    BY <1>2, <2>3, RowOther
<1>4. CASE ~SyncWrite(b)
  <2>1. UNCHANGED row
    BY <1>4 DEF Sync, SyncRead, SyncLock, SyncFind, SyncCrash
  <2> QED
    BY <1>2, <2>1, RowOther DEF row
<1> QED
  BY <1>3, <1>4

LEMMA RowNext == TypeInv /\ LockInv /\ RowInv /\ [Next]_vars => RowInv'
<1> SUFFICES ASSUME TypeInv, LockInv, RowInv, [Next]_vars PROVE RowInv'
  OBVIOUS
<1>1. ASSUME NEW p \in Pollers, Scan(p) PROVE RowInv'
  <2>1. CASE UpsertRead(p) \/ UpsertWrite(p)
    BY <2>1, RowUpsertRead, RowUpsertWrite
  <2>2. CASE ListFolder(p)
    BY <2>2, RowOther DEF ListFolder, row
  <2>3. CASE ~UpsertRead(p) /\ ~UpsertWrite(p) /\ ~ListFolder(p)
    BY <1>1, <2>3, RowScan
  <2> QED
    BY <2>1, <2>2, <2>3
<1>2. ASSUME NEW p \in Workers, Work(p) PROVE RowInv'
  BY <1>2, RowTransitionRead, RowStore, RowWork
<1>3. ASSUME NEW b \in BatchIds, Sync(b) \/ SyncCrash(b) PROVE RowInv'
  BY <1>3, RowSync
<1>4. ASSUME Human PROVE RowInv'
  <2>1. ASSUME NEW p \in Clis \cup Operators, NEW f \in Files,
               CliStart(p, f) \/ ResetStart(p, f)
        PROVE  RowInv'
    <3>1. p \in Workers /\ LocalType
      BY TypeGroups DEF TypeInv, Workers
    <3>2. Quiet(p)
      BY <2>1, <3>1, QuietStart
    <3>3. pc'[p] \in {"xlock", "resetLock"}
      BY <2>1, <3>1 DEF CliStart, ResetStart, Goto, LocalType
    <3>4. CarriesOf(p)'
      BY <3>3 DEF CarriesOf
    <3> QED
      BY <3>1, <3>2, <3>4, RowQuiet DEF Quiet
  <2>2. ASSUME NEW b \in BatchIds, Confirm(b) \/ Reopen(b) PROVE RowInv'
    BY <2>2, RowOther DEF Confirm, Reopen, row
  <2>3. ASSUME NEW f \in Files, DriveEdit(f) \/ DriveMove(f) \/ DriveRename(f)
        PROVE  RowInv'
    BY <2>3, RowOther DEF DriveEdit, DriveMove, DriveRename, row
  <2>4. ASSUME NEW g \in Folders, SetMapping(g) PROVE RowInv'
    BY <2>4, RowOther DEF SetMapping, row
  <2> QED
    BY <1>4, <2>1, <2>2, <2>3, <2>4 DEF Human
<1>5. ASSUME NEW f \in Files, RetryDue(f) PROVE RowInv'
  <2>1. RowType
    BY TypeGroups DEF TypeInv
  <2>2. \A h \in Files : retry'[h].count = retry[h].count
    BY <1>5, <2>1 DEF RetryDue, RowType
  <2> QED
    BY <1>5, <2>2, RowOther DEF RetryDue
<1>6. ASSUME NEW p \in Workers, Crash(p) PROVE RowInv'
  <2>1. Quiet(p)
    BY <1>6, QuietCrash
  <2>2. pc'[p] = "off"
    BY <1>6, TypeGroups DEF TypeInv, Crash, Goto, LocalType
  <2>3. CarriesOf(p)'
    BY <2>2 DEF CarriesOf
  <2> QED
    BY <2>1, <2>3, RowQuiet DEF Quiet
<1>7. CASE UNCHANGED vars
  BY <1>7, RowOther DEF vars, row
<1> QED
  BY <1>1, <1>2, <1>3, <1>4, <1>5, <1>6, <1>7 DEF Next, Failures

LEMMA RowAlways == ASSUME ~AutoExecution PROVE Spec => []RowInv
<1>1. TypeInv /\ LockInv /\ [Next]_vars => LockInv'
  BY LockNext
<1> QED
  BY <1>1, TypeCorrect, LockInit, RowInit, RowNext, PTL DEF Spec

(* With automatic execution off, a file waits for a retry only while its   *)
(* failures are within MAX_RETRY_COUNT (markDriveFileFailure).             *)
THEOREM LockedRetriesAreCapped == ASSUME ~AutoExecution PROVE Spec => []RetryableWithinCap
<1>1. RowInv => RetryableWithinCap
  BY DEF RowInv
<1> QED
  BY <1>1, RowAlways, PTL

(* With automatic execution off, a READY or IMPORTING file has a digest,   *)
(* so the comparison with the bytes downloaded again is always made.       *)
THEOREM LockedReadyHasDigest == ASSUME ~AutoExecution PROVE Spec => []ReadyHasDigest
<1>1. RowInv => ReadyHasDigest
  BY DEF RowInv
<1> QED
  BY <1>1, RowAlways, PTL

-----------------------------------------------------------------------------
(* A preview under review is never dropped.  A row whose batch nobody has  *)
(* confirmed is under review or unmapped, and no executor starts on, or    *)
(* finishes with, such a row.                                              *)

Unsettled(f) == link[f].last \notin accepted \cup {None}

Settled == \A f \in Files : Unsettled(f) => status[f] \in {"REVIEW_REQUIRED", "UNMAPPED"}

(* An executor that has begun its import works on an IMPORTING row. *)
BegunOf(p) ==
  /\ pc[p] \in {"xfind", "xpreview", "toReview"} => status[file[p]] = "IMPORTING"
  /\ pc[p] = "xfetch" /\ loc[p].snap.family = "CTI" => status[file[p]] = "IMPORTING"
  /\ pc[p] = "store" /\ step[p] = "toImporting" => to[p] = "IMPORTING"
  /\ pc[p] = "store" /\ step[p] = "toReview" => saw[p] = "IMPORTING" /\ to[p] = "REVIEW_REQUIRED"

ReviewInv == Settled /\ \A p \in Workers : BegunOf(p)

LEMMA ReviewInit == Init => ReviewInv
BY DEF Init, ReviewInv, Settled, Unsettled, BegunOf

LEMMA BegunOn ==
  ASSUME NEW q \in Workers, BegunOf(q),
         pc'[q] = pc[q], step'[q] = step[q], file'[q] = file[q], saw'[q] = saw[q],
         to'[q] = to[q], loc'[q] = loc[q],
         pc[q] \in Held /\ status[file[q]] = "IMPORTING" => status'[file[q]] = "IMPORTING"
  PROVE  BegunOf(q)'
BY DEF BegunOf, Held, Transitions

(* Steps that leave the rows alone. *)
LEMMA ReviewQuiet ==
  ASSUME ReviewInv, NEW p \in Workers, OnlyLocals(p), UNCHANGED <<row, accepted>>, BegunOf(p)'
  PROVE  ReviewInv'
<1>1. Settled'
  BY DEF ReviewInv, Settled, Unsettled, row
<1>2. \A q \in Workers \ {p} : BegunOf(q)'
  BY BegunOn DEF ReviewInv, OnlyLocals, row
<1> QED
  BY <1>1, <1>2 DEF ReviewInv

(* Where a step of the scan that is not a detection leads. *)
ScanLabels == {"next", "off", "enter", "upsert", "leave", "xlock", "toReady", "failCount"}

LEMMA QuietScanLabels ==
  ASSUME TypeInv, NEW p \in Pollers, Scan(p), ~UpsertRead(p), ~UpsertWrite(p), ~ListFolder(p)
  PROVE  pc'[p] \in ScanLabels
<1>1. p \in Workers /\ LocalType
  BY TypeGroups DEF TypeInv, Workers
<1>2. CASE Fetch(p)
  BY <1>1, <1>2 DEF Fetch, Goto, Keep, SetLoc, LocalType, ScanLabels
<1>3. CASE PickFile(p)
  <2>1. Goto(p, "enter")
    BY <1>3 DEF PickFile
  <2> QED
    BY <1>1, <2>1 DEF Goto, LocalType, ScanLabels
<1>4. CASE PollStart(p) \/ PollEnd(p) \/ EnterFile(p) \/ Dispatch(p)
  BY <1>1, <1>4 DEF PollStart, PollEnd, EnterFile, Dispatch, Goto, LocalType, ScanLabels
<1> QED
  BY <1>2, <1>3, <1>4 DEF Scan

LEMMA ReviewScan ==
  ASSUME TypeInv, ReviewInv, NEW p \in Pollers, Scan(p), ~UpsertWrite(p), ~ListFolder(p)
  PROVE  ReviewInv'
<1>1. p \in Workers /\ LocalType
  BY TypeGroups DEF TypeInv, Workers
<1>2. CASE UpsertRead(p)
  <2>1. OnlyLocals(p) /\ UNCHANGED <<row, accepted>> /\ pc'[p] = "upsertWrite"
    BY <1>1, <1>2 DEF UpsertRead, Goto, LocalType, OnlyLocals, imports
  <2>2. BegunOf(p)'
    BY <2>1 DEF BegunOf
  <2> QED
    BY <1>1, <2>1, <2>2, ReviewQuiet
<1>3. CASE ~UpsertRead(p)
  <2>1. Quiet(p)
    BY <1>3, QuietScan
  <2>2. pc'[p] \in ScanLabels
    BY <1>3, QuietScanLabels
  <2>3. BegunOf(p)'
    BY <2>2 DEF BegunOf, ScanLabels
  <2> QED
    BY <1>1, <2>1, <2>3, ReviewQuiet DEF Quiet
<1> QED
  BY <1>2, <1>3

LEMMA ReviewWork ==
  ASSUME TypeInv, ReviewInv, NEW p \in Workers, Work(p), ~TransitionRead(p), ~Store(p)
  PROVE  ReviewInv'
<1>1. LocalType /\ BegunOf(p)
  BY TypeGroups DEF TypeInv, ReviewInv
<1>2. Quiet(p)
  BY QuietWork
<1>3. BegunOf(p)'
  <2>1. CASE ExecFetch(p) \/ ExecFind(p) \/ ExecPreview(p)
    <3>1. UNCHANGED <<file, status>>
      BY <2>1 DEF ExecFetch, ExecFind, ExecPreview, Keep, SetLoc, row
    <3>2. pc'[p] \notin {"failCount", "xdup"} =>
            /\ pc'[p] \in {"xpreview", "toReview"}
            /\ status[file[p]] = "IMPORTING"
      BY <1>1, <2>1 DEF ExecFetch, ExecFind, ExecPreview, Goto, LocalType, BegunOf
    <3> QED
      BY <3>1, <3>2 DEF BegunOf
  <2>2. CASE ExecList(p)
    <3>1. pc'[p] \in {"leave", "toImporting", "xfetch"} /\ loc' = loc
          /\ (pc'[p] = "xfetch" => loc[p].snap.family # "CTI")
      BY <1>1, <2>2 DEF ExecList, Goto, Keep, LocalType
    <3> QED
      BY <3>1 DEF BegunOf
  <2>3. CASE ~ExecFetch(p) /\ ~ExecFind(p) /\ ~ExecPreview(p) /\ ~ExecList(p)
    <3>1. pc'[p] \in {"xread", "resetRead", "leave", "next", "off", "xlist", "toImporting",
                      "toReset", "toFailed"}
      BY <1>1, <2>3 DEF Work, TryLock, ExecRead, ExecDuplicate, ResetRead, FailCount, Leave,
                        Goto, LocalType
    <3> QED
      BY <3>1 DEF BegunOf
  <2> QED
    BY <2>1, <2>2, <2>3
<1> QED
  BY <1>2, <1>3, ReviewQuiet DEF Quiet

LEMMA ReviewTransitionRead ==
  ASSUME TypeInv, ReviewInv, NEW p \in Workers, TransitionRead(p) PROVE ReviewInv'
<1>1. LocalType /\ BegunOf(p)
  BY TypeGroups DEF TypeInv, ReviewInv
<1>2. UNCHANGED <<row, accepted, file, loc>> /\ pc[p] \in Transitions
  BY DEF TransitionRead, Keep, imports
<1>3. OnlyLocals(p)
  BY <1>1 DEF TransitionRead, Goto, Keep, LocalType, OnlyLocals
<1>4. Caught(p) \in {"failCount", "leave"}
  BY DEF Caught
<1>5. \/ pc'[p] = "store" /\ step'[p] = pc[p] /\ to'[p] = Target(p) /\ saw'[p] = status[file[p]]
      \/ pc'[p] \in {"failCount", "leave"}
  BY <1>1, <1>4 DEF TransitionRead, Goto, LocalType
<1>6. /\ pc[p] = "toImporting" => Target(p) = "IMPORTING"
      /\ pc[p] = "toReview" => Target(p) = "REVIEW_REQUIRED"
  BY DEF Target
<1>7. BegunOf(p)'
  BY <1>1, <1>5, <1>6 DEF BegunOf
<1> QED
  BY <1>2, <1>3, <1>7, ReviewQuiet

-----------------------------------------------------------------------------
(* Steps that write a row, under its lock. *)

LEMMA ReviewOthers ==
  ASSUME TypeInv, LockInv, ReviewInv, NEW p \in Workers, pc[p] \in Held, OnlyLocals(p),
         \A f \in Files \ {file[p]} : status'[f] = status[f]
  PROVE  \A q \in Workers \ {p} : BegunOf(q)'
<1> SUFFICES ASSUME NEW q \in Workers, q # p PROVE BegunOf(q)'
  OBVIOUS
<1>1. pc[q] \in Held => file[q] \in Files \ {file[p]}
  BY LockExcludes DEF TypeInv, Shape, ShapeOf, Held, Transitions
<1> QED
  BY <1>1, BegunOn DEF ReviewInv, OnlyLocals

LEMMA ReviewUpsertWrite ==
  ASSUME TypeInv, LockInv, ReviewInv, NEW p \in Pollers, UpsertWrite(p) PROVE ReviewInv'
<1>1. p \in Workers /\ RowType /\ LocalType /\ ShapeOf(p) /\ SafeOf(p)
  BY TypeGroups DEF TypeInv, Shape, Workers, LockInv
<1>2. pc[p] \in Held /\ file[p] \in Files
  BY <1>1 DEF UpsertWrite, Held, ShapeOf
<1>3. OnlyLocals(p) /\ UNCHANGED <<link, accepted>>
  BY <1>1 DEF UpsertWrite, Goto, Keep, LocalType, OnlyLocals, imports
<1>4. status'[file[p]] = to[p] /\ \A f \in Files \ {file[p]} : status'[f] = status[f]
  BY <1>1, <1>2 DEF UpsertWrite, RowType
<1>5. UpsertEdge(saw[p], to[p])
      /\ \/ status[file[p]] = saw[p]
         \/ saw[p] = "REVIEW_REQUIRED" /\ status[file[p]] = "IMPORTED"
  BY <1>1 DEF UpsertWrite, SafeOf, FreshOf, ReasonOf
<1>6. Unsettled(file[p]) => to[p] \in {"REVIEW_REQUIRED", "UNMAPPED"}
  BY <1>2, <1>5 DEF ReviewInv, Settled, UpsertEdge, Absent
<1>7. Settled'
  BY <1>2, <1>3, <1>4, <1>6 DEF ReviewInv, Settled, Unsettled
<1>8. pc'[p] \in {"toDetected", "toDownloading", "leave"}
  BY <1>1 DEF UpsertWrite, Goto, LocalType
<1>9. BegunOf(p)'
  BY <1>8 DEF BegunOf
<1> QED
  BY <1>1, <1>2, <1>3, <1>4, <1>7, <1>9, ReviewOthers DEF ReviewInv

(* The batch of a row is replaced by an executor only, and only while the  *)
(* row is IMPORTING.                                                       *)
LEMMA LinkingIsBegun ==
  ASSUME TypeInv, LockInv, ReviewInv, NEW p \in Workers, Store(p)
  PROVE  /\ \A f \in Files \ {file[p]} : link'[f] = link[f]
         /\ link'[file[p]].last = link[file[p]].last \/ ~Unsettled(file[p])
         /\ Unsettled(file[p]) => to[p] \in {"REVIEW_REQUIRED", "UNMAPPED"}
<1>1. RowType /\ ShapeOf(p) /\ SafeOf(p) /\ BegunOf(p) /\ pc[p] = "store"
  BY TypeGroups DEF TypeInv, Shape, LockInv, ReviewInv, Store
<1>2. file[p] \in Files
  BY <1>1 DEF ShapeOf
<1>3. /\ \A f \in Files \ {file[p]} : link'[f] = link[f]
      /\ step[p] # "toReview" => link' = link
  BY <1>1, <1>2 DEF Store, RowType
<1>4. ASSUME Unsettled(file[p])
      PROVE  step[p] # "toReview" /\ to[p] \in {"REVIEW_REQUIRED", "UNMAPPED"}
  <2>1. saw[p] \in {"REVIEW_REQUIRED", "UNMAPPED"} /\ link[file[p]].last # None
    BY <1>1, <1>2, <1>4 DEF SafeOf, FreshOf, ReviewInv, Settled, Unsettled
  <2>2. step[p] # "toReview"
    BY <1>1, <2>1 DEF BegunOf
  <2>3. to[p] \in {"DETECTED", "READY", "REVIEW_REQUIRED"}
    BY <1>1, <2>1 DEF SafeOf, ReasonOf, CanTransition, AllowedTransitions
  <2>4. to[p] \notin {"DETECTED", "READY"}
    BY <1>1, <2>1 DEF SafeOf, ReasonOf
  <2> QED
    BY <2>2, <2>3, <2>4
<1> QED
  BY <1>3, <1>4

LEMMA ReviewStore ==
  ASSUME TypeInv, LockInv, ReviewInv, NEW p \in Workers, Store(p) PROVE ReviewInv'
<1>1. RowType /\ LocalType /\ ShapeOf(p) /\ BegunOf(p)
  BY TypeGroups DEF TypeInv, Shape, ReviewInv
<1>2. pc[p] \in Held /\ pc[p] = "store" /\ file[p] \in Files
  BY <1>1 DEF Store, Held, ShapeOf
<1>3. OnlyLocals(p) /\ UNCHANGED <<accepted, file, loc>>
  BY <1>1 DEF Store, Goto, Keep, LocalType, OnlyLocals, imports
<1>4. status'[file[p]] = to[p] /\ \A f \in Files \ {file[p]} : status'[f] = status[f]
  BY <1>1, <1>2 DEF Store, RowType
<1>5. Settled'
  <2>1. \A f \in Files \ {file[p]} : Unsettled(f)' => status'[f] \in {"REVIEW_REQUIRED", "UNMAPPED"}
    BY <1>3, <1>4, LinkingIsBegun DEF ReviewInv, Settled, Unsettled
  <2>2. CASE step[p] = "toReview"
    BY <1>1, <1>2, <1>4, <2>1, <2>2 DEF BegunOf, Settled
  <2>3. CASE step[p] # "toReview"
    <3>1. link' = link
      BY <2>3 DEF Store
    <3> QED
      BY <1>3, <1>4, <2>1, <3>1, LinkingIsBegun DEF Settled, Unsettled
  <2> QED
    BY <2>2, <2>3
<1>6. /\ pc'[p] \in {"toDownloading", "fetch", "dispatch", "xfetch", "xfind", "xpreview", "leave"}
      /\ pc'[p] \in {"xfetch", "xfind", "xpreview"} => step[p] = "toImporting"
  BY <1>1 DEF Store, After, Goto, LocalType
<1>7. BegunOf(p)'
  BY <1>1, <1>2, <1>3, <1>4, <1>6 DEF BegunOf
<1> QED
  BY <1>2, <1>3, <1>4, <1>5, <1>7, ReviewOthers DEF ReviewInv

(* The other steps at most accept batches or mark a review of an accepted  *)
(* batch imported.                                                         *)
LEMMA ReviewOther ==
  ASSUME ReviewInv, UNCHANGED local, accepted \subseteq accepted',
         \A f \in Files : /\ link'[f].last = link[f].last
                          /\ \/ status'[f] = status[f]
                             \/ status[f] = "REVIEW_REQUIRED" /\ link[f].last \in accepted,
         \A p \in Workers : pc[p] \in Held => file[p] \in Files
  PROVE  ReviewInv'
<1>1. Settled'
  BY DEF ReviewInv, Settled, Unsettled
<1>2. \A q \in Workers : BegunOf(q)'
  BY BegunOn DEF ReviewInv, local
<1> QED
  BY <1>1, <1>2 DEF ReviewInv

LEMMA ReviewSync ==
  ASSUME TypeInv, ConfirmInv, ReviewInv, NEW b \in BatchIds, Sync(b) \/ SyncCrash(b)
  PROVE  ReviewInv'
<1>1. RowType /\ \A p \in Workers : pc[p] \in Held => file[p] \in Files
  BY TypeGroups DEF TypeInv, Shape, ShapeOf, Held, Transitions
<1>2. UNCHANGED <<local, accepted>>
  BY DEF Sync, SyncRead, SyncLock, SyncFind, SyncWrite, SyncCrash, imports
<1>3. CASE SyncWrite(b)
  <2> DEFINE g == syncs[b].file
             l == [link[g] EXCEPT !.ok = b]
  <2>1. \/ UNCHANGED <<status, link>>
        \/ /\ status[g] = "REVIEW_REQUIRED" /\ link[g].last = b
           /\ status' = [status EXCEPT ![g] = "IMPORTED"]
           /\ link' = [link EXCEPT ![g] = l]
    BY <1>3 DEF SyncWrite
  <2>2. g \in Files => l.last = link[g].last
    BY <1>1 DEF RowType
  <2>3. b \in accepted
    BY <1>3 DEF SyncWrite, ConfirmInv, Requests
  <2> HIDE DEF g, l
  <2>4. \A f \in Files : /\ link'[f].last = link[f].last
                         /\ \/ status'[f] = status[f]
                            \/ status[f] = "REVIEW_REQUIRED" /\ link[f].last \in accepted
    BY <1>1, <2>1, <2>2, <2>3 DEF RowType
  <2> QED
    BY <1>1, <1>2, <2>4, ReviewOther
<1>4. CASE ~SyncWrite(b)
  <2>1. UNCHANGED row
    BY <1>4 DEF Sync, SyncRead, SyncLock, SyncFind, SyncCrash
  <2> QED
    BY <1>1, <1>2, <2>1, ReviewOther DEF row
<1> QED
  BY <1>3, <1>4

LEMMA ReviewNext == TypeInv /\ ConfirmInv /\ LockInv /\ ReviewInv /\ [Next]_vars => ReviewInv'
<1> SUFFICES ASSUME TypeInv, ConfirmInv, LockInv, ReviewInv, [Next]_vars PROVE ReviewInv'
  OBVIOUS
<1>0. \A p \in Workers : pc[p] \in Held => file[p] \in Files
  BY DEF TypeInv, Shape, ShapeOf, Held, Transitions
<1>1. ASSUME NEW p \in Pollers, Scan(p) PROVE ReviewInv'
  <2>1. CASE ListFolder(p)
    BY <1>0, <2>1, ReviewOther DEF ListFolder, row, imports
  <2>2. CASE ~ListFolder(p)
    BY <1>1, <2>2, ReviewUpsertWrite, ReviewScan
  <2> QED
    BY <2>1, <2>2
<1>2. ASSUME NEW p \in Workers, Work(p) PROVE ReviewInv'
  BY <1>2, ReviewTransitionRead, ReviewStore, ReviewWork
<1>3. ASSUME NEW b \in BatchIds, Sync(b) \/ SyncCrash(b) PROVE ReviewInv'
  BY <1>3, ReviewSync
<1>4. ASSUME Human PROVE ReviewInv'
  <2>1. ASSUME NEW p \in Clis \cup Operators, NEW f \in Files,
               CliStart(p, f) \/ ResetStart(p, f)
        PROVE  ReviewInv'
    <3>1. p \in Workers /\ LocalType
      BY TypeGroups DEF TypeInv, Workers
    <3>2. Quiet(p)
      BY <2>1, <3>1, QuietStart
    <3>3. pc'[p] \in {"xlock", "resetLock"}
      BY <2>1, <3>1 DEF CliStart, ResetStart, Goto, LocalType
    <3>4. BegunOf(p)'
      BY <3>3 DEF BegunOf
    <3> QED
      BY <3>1, <3>2, <3>4, ReviewQuiet DEF Quiet
  <2>2. ASSUME NEW b \in BatchIds, Confirm(b) \/ Reopen(b) PROVE ReviewInv'
    BY <1>0, <2>2, ReviewOther DEF Confirm, Reopen, row
  <2>3. ASSUME NEW f \in Files, DriveEdit(f) \/ DriveMove(f) \/ DriveRename(f)
        PROVE  ReviewInv'
    BY <1>0, <2>3, ReviewOther DEF DriveEdit, DriveMove, DriveRename, row, imports
  <2>4. ASSUME NEW g \in Folders, SetMapping(g) PROVE ReviewInv'
    BY <1>0, <2>4, ReviewOther DEF SetMapping, row, imports
  <2> QED
    BY <1>4, <2>1, <2>2, <2>3, <2>4 DEF Human
<1>5. ASSUME NEW f \in Files, RetryDue(f) PROVE ReviewInv'
  BY <1>0, <1>5, ReviewOther DEF RetryDue, imports
<1>6. ASSUME NEW p \in Workers, Crash(p) PROVE ReviewInv'
  <2>1. Quiet(p)
    BY <1>6, QuietCrash
  <2>2. pc'[p] = "off"
    BY <1>6, TypeGroups DEF TypeInv, Crash, Goto, LocalType
  <2>3. BegunOf(p)'
    BY <2>2 DEF BegunOf
  <2> QED
    BY <2>1, <2>3, ReviewQuiet DEF Quiet
<1>7. CASE UNCHANGED vars
  BY <1>0, <1>7, ReviewOther DEF vars, row, imports
<1> QED
  BY <1>1, <1>2, <1>3, <1>4, <1>5, <1>6, <1>7 DEF Next, Failures

(* What a step other than an executor's link does to the batches of rows. *)
LEMMA LinksStay ==
  ASSUME TypeInv, Next, \A p \in Workers : ~Store(p)
  PROVE  \A f \in Files : link'[f].last = link[f].last
<1>1. RowType
  BY TypeGroups DEF TypeInv
<1>2. CASE \E b \in BatchIds : SyncWrite(b)
  <2>1. PICK b \in BatchIds : SyncWrite(b)
    BY <1>2
  <2> DEFINE g == syncs[b].file
             l == [link[g] EXCEPT !.ok = b]
  <2>2. link' = link \/ link' = [link EXCEPT ![g] = l]
    BY <2>1 DEF SyncWrite
  <2>3. g \in Files => l.last = link[g].last
    BY <1>1 DEF RowType
  <2> HIDE DEF g, l
  <2> QED
    BY <1>1, <2>2, <2>3 DEF RowType
<1>3. CASE ~\E b \in BatchIds : SyncWrite(b)
  <2>1. ASSUME NEW p \in Pollers, Scan(p) PROVE UNCHANGED link
    <3>1. CASE UpsertWrite(p)
      BY <3>1 DEF UpsertWrite
    <3>2. CASE UpsertRead(p) \/ Fetch(p) \/ Dispatch(p)
      BY <3>2 DEF UpsertRead, Fetch, Dispatch, row
    <3>3. CASE PollStart(p) \/ ListFolder(p) \/ PollEnd(p) \/ EnterFile(p)
      BY <3>3 DEF PollStart, ListFolder, PollEnd, EnterFile, row
    <3>4. CASE PickFile(p)
      BY <3>4 DEF PickFile, row
    <3> QED
      BY <2>1, <3>1, <3>2, <3>3, <3>4 DEF Scan
  <2>2. ASSUME NEW p \in Workers, Work(p), ~Store(p) PROVE UNCHANGED link
    BY <2>2 DEF Work, TryLock, ExecRead, ExecList, ExecFetch, ExecDuplicate, ExecFind, ExecPreview,
                ResetRead, TransitionRead, FailCount, Leave, row
  <2>3. ASSUME NEW b \in BatchIds, Sync(b), ~SyncWrite(b) PROVE UNCHANGED link
    BY <2>3 DEF Sync, SyncRead, SyncLock, SyncFind, row
  <2>4. ASSUME Human PROVE UNCHANGED link
    BY <2>4 DEF Human, CliStart, ResetStart, Confirm, Reopen, DriveEdit, DriveMove,
                DriveRename, SetMapping, row
  <2>5. ASSUME Failures PROVE UNCHANGED link
    BY <2>5 DEF Failures, Crash, SyncCrash, row
  <2> QED
    BY <1>3, <2>1, <2>2, <2>3, <2>4, <2>5 DEF Next, RetryDue
<1> QED
  BY <1>2, <1>3

(* With automatic execution off, the batch a file is linked to is replaced *)
(* only once a person has confirmed it, whatever moves, edits, resets and  *)
(* retries come in between (executors, post-confirm-sync.ts).              *)
THEOREM LockedReviewsAreKept == ASSUME ~AutoExecution PROVE Spec => ReviewNotAbandoned
<1> DEFINE Kept == \A f \in Files :
             link[f].last \notin {None, link'[f].last} => link[f].last \in accepted
<1>1. TypeInv /\ LockInv /\ [Next]_vars => LockInv'
  BY LockNext
<1>2. TypeInv /\ LockInv /\ ReviewInv /\ [Next]_vars => [Kept]_vars
  <2> SUFFICES ASSUME TypeInv, LockInv, ReviewInv, Next PROVE Kept
    OBVIOUS
  <2>1. CASE \E p \in Workers : Store(p)
    <3>1. PICK p \in Workers : Store(p)
      BY <2>1
    <3> QED
      BY <3>1, LinkingIsBegun DEF Unsettled
  <2>2. CASE \A p \in Workers : ~Store(p)
    BY <2>2, LinksStay
  <2> QED
    BY <2>1, <2>2
<1> QED
  BY <1>1, <1>2, TypeCorrect, ConfirmInit, ConfirmNext, LockInit, ReviewInit, ReviewNext, PTL
     DEF Spec, ReviewNotAbandoned

-----------------------------------------------------------------------------
(* Times only move forward: what a poll has listed of a file is at least   *)
(* as late as what the row says, because one poll runs at a time.          *)

TimeOf(p) ==
  /\ pc[p] # "off" => scanLock = p
  /\ pc[p] = "off" => todo[p].files = {}
  /\ \A x \in todo[p].files : meta[x.file].mtime <= x.mtime /\ x.mtime <= drive[x.file].mtime
  /\ \A x, y \in todo[p].files : x.file = y.file => x = y
  /\ pc[p] \in {"enter", "upsert", "upsertWrite"} =>
       /\ loc[p].list.file = file[p]
       /\ meta[file[p]].mtime <= loc[p].list.mtime
       /\ loc[p].list.mtime <= drive[file[p]].mtime
       /\ \A x \in todo[p].files : x.file # file[p]
  /\ pc[p] = "upsertWrite" /\ saw[p] = "IMPORTED" /\ to[p] = "DETECTED" =>
       loc[p].list.mtime # meta[file[p]].mtime

TimeInv == /\ \A p \in Pollers : TimeOf(p)
           /\ \A f \in Files : meta[f].mtime <= drive[f].mtime

LEMMA TimeInit == Init => TimeInv
<1> SUFFICES ASSUME Init PROVE TimeInv
  OBVIOUS
<1>1. \A p \in Pollers : pc[p] = "off" /\ todo[p].files = {}
  BY DEF Init, Workers
<1>2. \A p \in Pollers : TimeOf(p)
  BY <1>1 DEF TimeOf
<1>3. \A f \in Files : meta[f].mtime = 0 /\ drive[f].mtime = 0
  BY DEF Init
<1> QED
  BY <1>2, <1>3 DEF TimeInv

(* Rows keep their times, and Drive moves its times forward only. *)
TimesStay == \A f \in Files : /\ meta'[f].mtime = meta[f].mtime
                              /\ drive[f].mtime <= drive'[f].mtime

LEMMA TimeOn ==
  ASSUME TypeInv, TimeInv, TimesStay, NEW q \in Pollers,
         pc'[q] = pc[q], file'[q] = file[q], saw'[q] = saw[q], to'[q] = to[q],
         loc'[q] = loc[q], todo'[q] = todo[q], scanLock = q => scanLock' = q,
         drive' \in [Files -> [folder: Folders \cup {None}, name: Names,
                               mtime: 0..MaxEdits, content: Contents]]
  PROVE  TimeOf(q)'
<1>1. q \in Workers /\ EnvType /\ RowType /\ TodoType /\ ShapeOf(q) /\ TimeOf(q) /\ MaxEdits \in Nat
  BY TypeGroups, PipelineAssumption DEF TypeInv, Shape, Workers, TimeInv
<1>2. \A f \in Files : /\ meta'[f].mtime = meta[f].mtime /\ meta[f].mtime \in Nat
                       /\ drive[f].mtime \in Nat /\ drive'[f].mtime \in Nat
                       /\ drive[f].mtime <= drive'[f].mtime
  BY <1>1 DEF TimesStay, EnvType, RowType
<1>3. \A x \in todo[q].files : x.file \in Files /\ x.mtime \in Nat
  BY <1>1 DEF TodoType, Listing
<1>4. \A x \in todo'[q].files :
        meta'[x.file].mtime <= x.mtime /\ x.mtime <= drive'[x.file].mtime
  BY <1>1, <1>2, <1>3 DEF TimeOf
<1>5. ASSUME pc[q] \in {"enter", "upsert", "upsertWrite"}
      PROVE  /\ file[q] \in Files
             /\ meta'[file[q]].mtime <= loc[q].list.mtime
             /\ loc[q].list.mtime <= drive'[file[q]].mtime
  <2>1. file[q] \in Files /\ loc[q].list.mtime \in Nat
    BY <1>1, <1>5 DEF ShapeOf, Listing
  <2> QED
    BY <1>1, <1>2, <1>5, <2>1 DEF TimeOf
<1>6. pc[q] = "upsertWrite" /\ saw[q] = "IMPORTED" /\ to[q] = "DETECTED" =>
        loc[q].list.mtime # meta'[file[q]].mtime
  BY <1>1, <1>2, <1>5 DEF TimeOf
<1> QED
  BY <1>1, <1>4, <1>5, <1>6 DEF TimeOf

(* A step of p that writes no time. *)
LEMMA TimeStep ==
  ASSUME TypeInv, TimeInv, NEW p \in Workers, OnlyLocals(p), UNCHANGED drive,
         \A f \in Files : meta'[f].mtime = meta[f].mtime,
         \A q \in Pollers \ {p} : todo'[q] = todo[q] /\ (scanLock = q => scanLock' = q),
         p \in Pollers => TimeOf(p)'
  PROVE  TimeInv'
<1>1. EnvType /\ MaxEdits \in Nat
  BY TypeGroups, PipelineAssumption DEF TypeInv
<1>2. \A f \in Files : drive[f].mtime \in Nat
  BY <1>1 DEF EnvType
<1>3. TimesStay
  BY <1>2 DEF TimesStay
<1>4. \A q \in Pollers \ {p} : TimeOf(q)'
  BY <1>1, <1>3, TimeOn DEF OnlyLocals, EnvType, Workers
<1>5. \A f \in Files : meta'[f].mtime <= drive'[f].mtime
  BY <1>3 DEF TimeInv
<1> QED
  BY <1>4, <1>5 DEF TimeInv

LEMMA TimePickFile ==
  ASSUME TypeInv, TimeInv, NEW p \in Pollers, PickFile(p) PROVE TimeInv'
<1>1. p \in Workers /\ LocalType /\ TodoType /\ TimeOf(p)
  BY TypeGroups DEF TypeInv, Workers, TimeInv
<1>2. PICK x \in todo[p].files :
        /\ todo' = [todo EXCEPT ![p].files = @ \ {x}]
        /\ file' = [file EXCEPT ![p] = x.file]
        /\ loc' = [loc EXCEPT ![p] = [Blank EXCEPT !.list = x, !.want =
             ShouldDownload(Classification(status[x.file], meta[x.file], x), status[x.file])]]
  BY DEF PickFile
<1>3. /\ todo'[p].files = todo[p].files \ {x}
      /\ \A q \in Pollers \ {p} : todo'[q] = todo[q]
  BY <1>1, <1>2 DEF TodoType
<1>4. pc[p] = "next" /\ Goto(p, "enter") /\ UNCHANGED <<drive, row, scanLock>>
  BY DEF PickFile, env, locks
<1>5. file'[p] = x.file /\ loc'[p].list = x /\ pc'[p] = "enter"
  BY <1>1, <1>2, <1>4 DEF LocalType, Goto, Blank
<1>6. OnlyLocals(p)
  BY <1>1, <1>2 DEF PickFile, Goto, LocalType, OnlyLocals
<1>7. TimeOf(p)'
  BY <1>1, <1>3, <1>4, <1>5 DEF TimeOf, row
<1> QED
  BY <1>1, <1>3, <1>4, <1>6, <1>7, TimeStep DEF row

(* The steps of the scan but its detections. *)
LEMMA TimeScan ==
  ASSUME TypeInv, TimeInv, NEW p \in Pollers, Scan(p),
         ~UpsertRead(p), ~UpsertWrite(p), ~ListFolder(p)
  PROVE  TimeInv'
<1>1. p \in Workers /\ EnvType /\ RowType /\ LockType /\ LocalType /\ TodoType /\ TimeOf(p)
  BY TypeGroups DEF TypeInv, Workers, TimeInv
<1>2. OnlyLocals(p) /\ UNCHANGED row
  BY QuietScan DEF Quiet
<1>5. CASE PollStart(p)
  <2>1. /\ pc'[p] = "next" /\ scanLock = None /\ scanLock' = p
        /\ todo'[p].files = todo[p].files /\ todo[p].files = {}
        /\ \A q \in Pollers \ {p} : todo'[q] = todo[q]
    BY <1>1, <1>5 DEF PollStart, Goto, LocalType, TodoType, TimeOf
  <2>2. TimeOf(p)'
    BY <2>1 DEF TimeOf
  <2> QED
    BY <1>1, <1>2, <1>5, <2>1, <2>2, PipelineAssumption, TimeStep DEF PollStart, env, row, Workers
<1>6. CASE PollEnd(p)
  <2>1. pc[p] = "next" /\ scanLock = p /\ pc'[p] = "off" /\ todo' = todo /\ todo[p].files = {}
    BY <1>1, <1>6 DEF PollEnd, Goto, LocalType, TimeOf
  <2>2. TimeOf(p)'
    BY <2>1 DEF TimeOf
  <2> QED
    BY <1>1, <1>2, <1>6, <2>1, <2>2, TimeStep DEF PollEnd, env, row
<1>7. CASE PickFile(p)
  BY <1>7, TimePickFile
<1>8. CASE EnterFile(p) \/ Fetch(p) \/ Dispatch(p)
  <2>1. /\ pc[p] # "off" /\ UNCHANGED <<todo, scanLock>>
        /\ \/ pc'[p] = "upsert" /\ pc[p] = "enter" /\ file' = file /\ loc' = loc
           \/ pc'[p] \notin {"off", "enter", "upsert", "upsertWrite"}
    BY <1>1, <1>8 DEF EnterFile, Fetch, Dispatch, Goto, Keep, SetLoc, LocalType, locks
  <2>2. UNCHANGED drive
    BY <1>8 DEF EnterFile, Fetch, Dispatch, env
  <2>3. TimeOf(p)'
    BY <1>1, <1>2, <2>1, <2>2 DEF TimeOf, row
  <2> QED
    BY <1>1, <1>2, <2>1, <2>2, <2>3, TimeStep DEF row
<1> QED
  BY <1>5, <1>6, <1>7, <1>8 DEF Scan

LEMMA TimeListFolder ==
  ASSUME TypeInv, TimeInv, NEW p \in Pollers, ListFolder(p) PROVE TimeInv'
<1>1. p \in Workers /\ EnvType /\ TodoType /\ TimeOf(p)
  BY TypeGroups DEF TypeInv, Workers, TimeInv
<1>2. PICK g \in todo[p].folders :
        todo' = [todo EXCEPT ![p] = [folders |-> @.folders \ {g}, files |-> Listed(g)]]
  BY DEF ListFolder
<1>3. /\ todo'[p].files = Listed(g)
      /\ \A q \in Pollers \ {p} : todo'[q] = todo[q]
  BY <1>1, <1>2 DEF TodoType
<1>4. UNCHANGED <<drive, meta, scanLock>> /\ UNCHANGED local /\ pc[p] = "next"
  BY DEF ListFolder, env, row, locks
<1>5. \A x \in Listed(g) : x.file \in Files /\ x.mtime = drive[x.file].mtime
  BY DEF Listed
<1>6. \A x, y \in Listed(g) : x.file = y.file => x = y
  BY DEF Listed
<1>7. \A x \in Listed(g) : meta[x.file].mtime <= x.mtime /\ x.mtime <= drive[x.file].mtime
  <2>1. \A f \in Files : drive[f].mtime \in 0..MaxEdits
    BY <1>1 DEF EnvType
  <2> QED
    BY <1>5, <2>1, PipelineAssumption DEF TimeInv
<1>8. TimeOf(p)'
  BY <1>1, <1>3, <1>4, <1>6, <1>7 DEF TimeOf, local
<1>9. OnlyLocals(p)
  BY <1>4 DEF OnlyLocals, local
<1> QED
  BY <1>1, <1>3, <1>4, <1>8, <1>9, TimeStep

LEMMA TimeUpsertRead ==
  ASSUME TypeInv, TimeInv, NEW p \in Pollers, UpsertRead(p) PROVE TimeInv'
<1>1. p \in Workers /\ LocalType /\ TimeOf(p) /\ ShapeOf(p)
  BY TypeGroups DEF TypeInv, Shape, Workers, TimeInv
<1>2. OnlyLocals(p) /\ UNCHANGED <<row, drive, todo, scanLock, file>>
  BY <1>1 DEF UpsertRead, Goto, LocalType, OnlyLocals, env, locks
<1>3. /\ pc[p] = "upsert" /\ pc'[p] = "upsertWrite" /\ saw'[p] = status[file[p]]
      /\ loc'[p].list = loc[p].list
  BY <1>1 DEF UpsertRead, Goto, LocalType, Local
<1>4. saw'[p] = "IMPORTED" /\ to'[p] = "DETECTED" => loc[p].list.mtime # meta[file[p]].mtime
  BY <1>1, <1>3 DEF UpsertRead, LocalType, UpsertStatus, ContentChanged, Absent
<1>5. TimeOf(p)'
  BY <1>1, <1>2, <1>3, <1>4 DEF TimeOf, row
<1> QED
  BY <1>1, <1>2, <1>5, TimeStep DEF row

LEMMA TimeUpsertWrite ==
  ASSUME TypeInv, TimeInv, NEW p \in Pollers, UpsertWrite(p)
  PROVE  TimeInv' /\ meta[file[p]].mtime <= loc[p].list.mtime
<1>1. p \in Workers /\ EnvType /\ RowType /\ LocalType /\ TodoType /\ ShapeOf(p) /\ TimeOf(p)
  BY TypeGroups DEF TypeInv, Shape, Workers, TimeInv
<1>2. pc[p] = "upsertWrite" /\ scanLock = p /\ file[p] \in Files
  BY <1>1 DEF UpsertWrite, TimeOf, ShapeOf
<1>3. /\ OnlyLocals(p) /\ UNCHANGED <<drive, todo, scanLock>>
      /\ pc'[p] \in {"toDetected", "toDownloading", "leave"}
  BY <1>1 DEF UpsertWrite, Goto, Keep, LocalType, OnlyLocals, env, locks
<1>4. /\ meta'[file[p]].mtime = loc[p].list.mtime
      /\ \A f \in Files \ {file[p]} : meta'[f] = meta[f]
  BY <1>1, <1>2 DEF UpsertWrite, RowType
<1>5. \A q \in Pollers \ {p} : TimeOf(q)'
  <2> SUFFICES ASSUME NEW q \in Pollers \ {p} PROVE TimeOf(q)'
    OBVIOUS
  <2>1. pc[q] = "off" /\ todo[q].files = {}
    BY <1>2 DEF TimeInv, TimeOf
  <2>2. pc'[q] = "off" /\ todo'[q].files = {}
    BY <1>3, <2>1 DEF OnlyLocals, Workers
  <2> QED
    BY <2>2 DEF TimeOf
<1>6. TimeOf(p)'
  <2>1. \A x \in todo[p].files : x.file \in Files \ {file[p]}
    BY <1>1, <1>2 DEF TodoType, Listing, TimeOf
  <2> QED
    BY <1>1, <1>2, <1>3, <1>4, <2>1 DEF TimeOf
<1>7. \A f \in Files : meta'[f].mtime <= drive'[f].mtime
  BY <1>1, <1>2, <1>3, <1>4 DEF TimeOf, TimeInv
<1> QED
  BY <1>1, <1>2, <1>5, <1>6, <1>7 DEF TimeOf, TimeInv

LEMMA TimeWork ==
  ASSUME TypeInv, TimeInv, NEW p \in Workers, Work(p) PROVE TimeInv'
<1>1. LocalType /\ RowType /\ ShapeOf(p)
  BY TypeGroups DEF TypeInv, Shape
<1>2. UNCHANGED <<drive, todo, scanLock>>
  BY DEF Work, TryLock, ExecRead, ExecList, ExecFetch, ExecDuplicate, ExecFind, ExecPreview, ResetRead,
         TransitionRead, Store, FailCount, Leave, env, locks
<1>3. OnlyLocals(p) /\ \A f \in Files : meta'[f].mtime = meta[f].mtime
  <2>1. CASE Store(p)
    <3> DEFINE g == file[p]
               m == [meta[g] EXCEPT !.sha = loc[p].got]
    <3>1. OnlyLocals(p)
      BY <1>1, <2>1 DEF Store, Goto, Keep, LocalType, OnlyLocals
    <3>2. meta' = meta \/ meta' = [meta EXCEPT ![g] = m]
      BY <2>1 DEF Store
    <3>3. g \in Files /\ m.mtime = meta[g].mtime
      BY <1>1, <2>1 DEF Store, ShapeOf, RowType
    <3> HIDE DEF g, m
    <3> QED
      BY <1>1, <3>1, <3>2, <3>3 DEF RowType
  <2>2. CASE TransitionRead(p)
    BY <1>1, <2>2 DEF TransitionRead, Goto, Keep, LocalType, OnlyLocals, row
  <2>3. CASE ~Store(p) /\ ~TransitionRead(p)
    BY <2>3, QuietWork DEF Quiet, row
  <2> QED
    BY <2>1, <2>2, <2>3
<1>4. ASSUME p \in Pollers PROVE TimeOf(p)'
  <2>1. pc[p] # "off"
    BY DEF Work, TryLock, ExecRead, ExecList, ExecFetch, ExecDuplicate, ExecFind, ExecPreview, ResetRead,
           TransitionRead, Store, FailCount, Leave, Transitions
  <2>2. pc'[p] \notin {"off", "enter", "upsert", "upsertWrite"}
    <3>1. CASE TransitionRead(p) \/ Store(p)
      <4>1. /\ Caught(p) \notin {"off", "enter", "upsert", "upsertWrite"}
            /\ After(p) \notin {"off", "enter", "upsert", "upsertWrite"}
        BY DEF Caught, After
      <4> QED
        BY <1>1, <3>1, <4>1 DEF TransitionRead, Store, Goto, LocalType
    <3>2. CASE TryLock(p) \/ ExecRead(p) \/ ExecList(p) \/ ExecDuplicate(p) \/ ResetRead(p)
               \/ FailCount(p) \/ Leave(p)
      BY <1>1, <1>4, <3>2 DEF TryLock, ExecRead, ExecList, ExecDuplicate, ResetRead, FailCount,
                              Leave, Goto, LocalType
    <3>3. CASE ExecFetch(p) \/ ExecFind(p) \/ ExecPreview(p)
      BY <1>1, <3>3 DEF ExecFetch, ExecFind, ExecPreview, Goto, LocalType
    <3> QED
      BY <3>1, <3>2, <3>3 DEF Work
  <2>3. TimeOf(p) /\ TodoType /\ \A x \in todo[p].files : x.file \in Files
    BY <1>4, TypeGroups DEF TypeInv, TimeInv, TodoType, Listing
  <2> QED
    BY <1>2, <1>3, <2>1, <2>2, <2>3 DEF TimeOf
<1> QED
  BY <1>2, <1>3, <1>4, TimeStep

(* Steps of nobody's locals. *)
LEMMA TimeOther ==
  ASSUME TypeInv, TimeInv, UNCHANGED <<local, todo, scanLock>>, TimesStay,
         drive' \in [Files -> [folder: Folders \cup {None}, name: Names,
                               mtime: 0..MaxEdits, content: Contents]]
  PROVE  TimeInv'
<1>1. \A q \in Pollers : TimeOf(q)'
  BY TimeOn DEF local
<1>2. EnvType /\ RowType /\ MaxEdits \in Nat
  BY TypeGroups, PipelineAssumption DEF TypeInv
<1>3. \A f \in Files : meta'[f].mtime <= drive'[f].mtime
  BY <1>2 DEF TimesStay, TimeInv, EnvType, RowType
<1> QED
  BY <1>1, <1>3 DEF TimeInv

LEMMA TimeNext == TypeInv /\ TimeInv /\ [Next]_vars => TimeInv'
<1> SUFFICES ASSUME TypeInv, TimeInv, [Next]_vars PROVE TimeInv'
  OBVIOUS
<1>0. EnvType /\ RowType /\ MaxEdits \in Nat /\ (UNCHANGED <<drive, meta>> => TimesStay)
  BY TypeGroups, PipelineAssumption DEF TypeInv, TimesStay, EnvType
<1>1. ASSUME NEW p \in Pollers, Scan(p) PROVE TimeInv'
  BY <1>1, TimeScan, TimeListFolder, TimeUpsertRead, TimeUpsertWrite
<1>2. ASSUME NEW p \in Workers, Work(p) PROVE TimeInv'
  BY <1>2, TimeWork
<1>3. ASSUME NEW b \in BatchIds, Sync(b) \/ SyncCrash(b) \/ Confirm(b) \/ Reopen(b)
      PROVE  TimeInv'
  <2>1. UNCHANGED <<drive, meta, todo, scanLock>> /\ UNCHANGED local
    BY <1>3 DEF Sync, SyncRead, SyncLock, SyncFind, SyncWrite, SyncCrash, Confirm, Reopen,
                env, row, locks
  <2> QED
    BY <1>0, <2>1, TimeOther DEF EnvType
<1>4. ASSUME NEW f \in Files, DriveEdit(f) \/ DriveMove(f) \/ DriveRename(f) PROVE TimeInv'
  <2>1. UNCHANGED <<meta, todo, scanLock>> /\ UNCHANGED local
    BY <1>4 DEF DriveEdit, DriveMove, DriveRename, row, locks
  <2>2. EnvType'
    BY <1>4, TypeDrive DEF TypeInv, TypeOK, EnvType
  <2>3. \A h \in Files : drive[h].mtime <= drive'[h].mtime
    <3>1. CASE DriveEdit(f)
      BY <1>0, <3>1 DEF DriveEdit, EnvType
    <3>2. CASE DriveMove(f) \/ DriveRename(f)
      <4>1. \A h \in Files : drive'[h].mtime = drive[h].mtime
        BY <1>0, <3>2 DEF DriveMove, DriveRename, EnvType
      <4> QED
        BY <1>0, <4>1 DEF EnvType
    <3> QED
      BY <1>4, <3>1, <3>2
  <2>4. TimesStay
    BY <2>1, <2>3 DEF TimesStay
  <2> QED
    BY <2>1, <2>2, <2>4, TimeOther DEF EnvType
<1>5. ASSUME NEW p \in Clis \cup Operators, NEW f \in Files, CliStart(p, f) \/ ResetStart(p, f)
      PROVE  TimeInv'
  <2>1. p \in Workers /\ p \notin Pollers
    BY PipelineAssumption DEF Workers
  <2>2. OnlyLocals(p) /\ UNCHANGED <<drive, meta, todo, scanLock>>
    BY <1>5, <2>1, QuietStart DEF Quiet, CliStart, ResetStart, env, row, locks
  <2> QED
    BY <2>1, <2>2, TimeStep
<1>6. ASSUME Human PROVE TimeInv'
  <2>1. ASSUME NEW g \in Folders, SetMapping(g) PROVE TimeInv'
    BY <1>0, <2>1, TimeOther DEF SetMapping, EnvType, row, locks
  <2> QED
    BY <1>3, <1>4, <1>5, <1>6, <2>1 DEF Human
<1>7. ASSUME NEW f \in Files, RetryDue(f) PROVE TimeInv'
  BY <1>0, <1>7, TimeOther DEF RetryDue, EnvType, env, locks
<1>8. ASSUME NEW p \in Workers, Crash(p) PROVE TimeInv'
  <2>1. OnlyLocals(p) /\ UNCHANGED <<drive, meta>>
    BY <1>8, QuietCrash DEF Quiet, Crash, env, row
  <2>2. LocalType /\ TodoType /\ p # None
    BY TypeGroups, PipelineAssumption DEF TypeInv, Workers
  <2>3. \A q \in Pollers \ {p} : todo'[q] = todo[q] /\ (scanLock = q => scanLock' = q)
    BY <1>8, <2>2 DEF Crash, TodoType
  <2>4. p \in Pollers => pc'[p] = "off" /\ todo'[p].files = {}
    BY <1>8, <2>2 DEF Crash, Goto, LocalType, TodoType
  <2>5. p \in Pollers => TimeOf(p)'
    BY <2>4 DEF TimeOf
  <2> QED
    BY <2>1, <2>3, <2>5, TimeStep
<1>9. CASE UNCHANGED vars
  BY <1>0, <1>9, TimeOther DEF vars, EnvType, env, row, locks
<1> QED
  BY <1>1, <1>2, <1>3, <1>6, <1>7, <1>8, <1>9 DEF Next, Failures

-----------------------------------------------------------------------------
(* One preview per content.  CTI and Town make a new batch at every call,  *)
(* so that a second one of the same content is avoided by the row alone:   *)
(* whatever lets an executor start again has moved the time of the row on. *)

Resting == {"REVIEW_REQUIRED", "UNMAPPED", "IMPORTED"}

(* p has its preview and is about to link the row to it. *)
Linking(p) == pc[p] = "toReview" \/ (pc[p] = "store" /\ step[p] = "toReview")

Making(f) == \E p \in Workers : Linking(p) /\ file[p] = f

(* What an executor has read of the row is still true. *)
SnapOf(p) ==
  /\ HasSnap(p) => loc[p].snap.mtime = meta[file[p]].mtime
  /\ Linking(p) => loc[p].batch \in BatchIds

(* A preview its service made anew has left its trace in the row. *)
Fresh(b) == batches[b] # None /\ batches[b].family # "HEAVEN"

Traced(b) ==
  LET f == batches[b].file
  IN /\ batches[b].mtime <= meta[f].mtime
     /\ link[f].last # None \/ Making(f)
     /\ status[f] \in Resting \/ batches[b].mtime < meta[f].mtime \/ Making(f)

PreviewInv == /\ \A p \in Workers : SnapOf(p)
              /\ \A b \in BatchIds : Fresh(b) => Traced(b)
              /\ OnePreviewPerContent

LEMMA PreviewInit == Init => PreviewInv
BY DEF Init, PreviewInv, SnapOf, HasSnap, Linking, Fresh, OnePreviewPerContent

LEMMA SnapOn ==
  ASSUME NEW q \in Workers, SnapOf(q),
         pc'[q] = pc[q], step'[q] = step[q], file'[q] = file[q], loc'[q] = loc[q],
         pc[q] \in Held => meta'[file[q]].mtime = meta[file[q]].mtime
  PROVE  SnapOf(q)'
BY DEF SnapOf, HasSnap, Linking, Held, Transitions

LEMMA MakingOn ==
  ASSUME NEW p \in Workers, OnlyLocals(p), NEW f \in Files, Making(f),
         Linking(p) => Linking(p)' /\ file'[p] = file[p]
  PROVE  Making(f)'
BY DEF Making, Linking, OnlyLocals

LEMMA TracedOn ==
  ASSUME NEW b \in BatchIds, Traced(b), NEW f \in Files, batches[b].file = f,
         batches'[b].file = f, batches'[b].mtime = batches[b].mtime,
         meta'[f].mtime = meta[f].mtime,
         link[f].last # None => link'[f].last # None,
         status[f] \in Resting => status'[f] \in Resting,
         Making(f) => Making(f)'
  PROVE  Traced(b)'
<1>1. batches'[b].mtime <= meta'[f].mtime
  BY DEF Traced
<1>2. link'[f].last # None \/ Making(f)'
  BY DEF Traced
<1>3. status'[f] \in Resting \/ batches'[b].mtime < meta'[f].mtime \/ Making(f)'
  BY DEF Traced
<1>4. Making(batches[b].file)' = Making(f)'
  BY DEF Making
<1> QED
  BY <1>1, <1>2, <1>3, <1>4 DEF Traced, Resting

(* Steps of p that leave rows and batches alone. *)
LEMMA PreviewQuiet ==
  ASSUME TypeInv, PreviewInv, NEW p \in Workers, OnlyLocals(p), UNCHANGED <<row, batches>>,
         Linking(p) => Linking(p)' /\ file'[p] = file[p], SnapOf(p)'
  PROVE  PreviewInv'
<1>1. \A q \in Workers \ {p} : SnapOf(q)'
  BY SnapOn DEF PreviewInv, OnlyLocals, row
<1>2. ASSUME NEW b \in BatchIds, Fresh(b)' PROVE Traced(b)'
  <2>1. Traced(b) /\ batches[b].file \in Files
    BY <1>2, TypeGroups DEF PreviewInv, Fresh, TypeInv, ImportType, Batch
  <2> QED
    BY <2>1, MakingOn, TracedOn DEF row
<1>3. OnePreviewPerContent'
  BY DEF PreviewInv, OnePreviewPerContent
<1> QED
  BY <1>1, <1>2, <1>3 DEF PreviewInv

LEMMA PreviewScan ==
  ASSUME TypeInv, PreviewInv, NEW p \in Pollers, Scan(p), ~UpsertWrite(p), ~ListFolder(p)
  PROVE  PreviewInv'
<1>1. p \in Workers /\ LocalType
  BY TypeGroups DEF TypeInv, Workers
<1>2. ~Linking(p) /\ UNCHANGED batches
  BY DEF Scan, PollStart, PollEnd, PickFile, EnterFile, UpsertRead, Fetch, Dispatch, Linking,
         imports
<1>3. CASE UpsertRead(p)
  <2>1. OnlyLocals(p) /\ UNCHANGED row /\ pc'[p] = "upsertWrite"
    BY <1>1, <1>3 DEF UpsertRead, Goto, LocalType, OnlyLocals
  <2>2. SnapOf(p)'
    BY <2>1 DEF SnapOf, HasSnap, Linking
  <2> QED
    BY <1>1, <1>2, <2>1, <2>2, PreviewQuiet
<1>4. CASE ~UpsertRead(p)
  <2>1. Quiet(p) /\ pc'[p] \in ScanLabels
    BY <1>4, QuietScan, QuietScanLabels
  <2>2. SnapOf(p)'
    BY <2>1 DEF SnapOf, HasSnap, Linking, ScanLabels
  <2> QED
    BY <1>1, <1>2, <2>1, <2>2, PreviewQuiet DEF Quiet
<1> QED
  BY <1>3, <1>4

LEMMA PreviewWork ==
  ASSUME TypeInv, PreviewInv, NEW p \in Workers, Work(p),
         ~TransitionRead(p), ~Store(p), ~ExecPreview(p)
  PROVE  PreviewInv'
<1>1. LocalType /\ ShapeOf(p) /\ SnapOf(p)
  BY TypeGroups DEF TypeInv, Shape, PreviewInv
<1>2. Quiet(p)
  BY QuietWork
<1>3. ~Linking(p) /\ UNCHANGED batches
  BY DEF Work, TryLock, ExecRead, ExecList, ExecFetch, ExecDuplicate, ExecFind, ResetRead,
         FailCount, Leave, Linking, imports
<1>4. SnapOf(p)'
  <2>1. CASE ExecRead(p)
    <3>1. UNCHANGED <<file, meta>>
      BY <2>1 DEF ExecRead, Keep, SetLoc, row
    <3>2. \/ pc'[p] = "leave"
          \/ pc'[p] = "xlist" /\ loc'[p].snap.mtime = meta[file[p]].mtime
      BY <1>1, <2>1 DEF ExecRead, Goto, Keep, SetLoc, LocalType, Local
    <3> QED
      BY <3>1, <3>2 DEF SnapOf, HasSnap, Linking
  <2>2. CASE ExecList(p) \/ ExecFetch(p) \/ ExecDuplicate(p)
    <3>1. /\ UNCHANGED <<file, meta>> /\ loc'[p].snap = loc[p].snap
          /\ pc'[p] \in {"leave", "failCount", "toImporting", "xfetch", "xdup", "xpreview"}
      BY <1>1, <2>2 DEF ExecList, ExecFetch, ExecDuplicate, Goto, Keep, SetLoc, LocalType, Local,
                        row
    <3>2. pc[p] \in {"xlist", "xfetch", "xdup"}
      BY <2>2 DEF ExecList, ExecFetch, ExecDuplicate
    <3> QED
      BY <1>1, <3>1, <3>2 DEF SnapOf, HasSnap, Linking
  <2>3. CASE ExecFind(p)
    <3>1. /\ UNCHANGED <<file, meta>> /\ HasSnap(p)
          /\ \/ pc'[p] = "xpreview" /\ loc' = loc
             \/ pc'[p] = "toReview" /\ loc'[p].batch \in BatchIds
      BY <1>1, <2>3 DEF ExecFind, Reusable, Matching, Goto, Keep, SetLoc, LocalType, Local, row,
                        HasSnap
    <3> QED
      BY <1>1, <3>1 DEF SnapOf, HasSnap, Linking
  <2>4. CASE TryLock(p) \/ ResetRead(p) \/ FailCount(p) \/ Leave(p)
    <3>1. pc'[p] \in {"xread", "resetRead", "leave", "next", "off", "toReset", "toFailed"}
      BY <1>1, <2>4 DEF TryLock, ResetRead, FailCount, Leave, Goto, LocalType
    <3> QED
      BY <3>1 DEF SnapOf, HasSnap, Linking
  <2> QED
    BY <2>1, <2>2, <2>3, <2>4 DEF Work
<1> QED
  BY <1>2, <1>3, <1>4, PreviewQuiet DEF Quiet

(* The link to a new preview is never refused: its row is IMPORTING. *)
LEMMA PreviewTransitionRead ==
  ASSUME TypeInv, ReviewInv, PreviewInv, NEW p \in Workers, TransitionRead(p)
  PROVE  PreviewInv'
<1>1. LocalType /\ BegunOf(p) /\ SnapOf(p)
  BY TypeGroups DEF TypeInv, ReviewInv, PreviewInv
<1>2. UNCHANGED <<row, batches, file, loc>> /\ pc[p] \in Transitions
  BY DEF TransitionRead, Keep, imports
<1>3. OnlyLocals(p)
  BY <1>1 DEF TransitionRead, Goto, Keep, LocalType, OnlyLocals
<1>4. Caught(p) \in {"failCount", "leave"}
  BY DEF Caught
<1>5. \/ pc'[p] = "store" /\ step'[p] = pc[p]
      \/ ~CanTransition(status[file[p]], Target(p)) /\ pc'[p] \in {"failCount", "leave"}
  BY <1>1, <1>4 DEF TransitionRead, Goto, LocalType
<1>6. Linking(p) => Linking(p)'
  <2> SUFFICES ASSUME Linking(p) PROVE Linking(p)'
    OBVIOUS
  <2>1. pc[p] = "toReview"
    BY <1>2 DEF Linking, Transitions
  <2>2. CanTransition(status[file[p]], Target(p))
    BY <1>1, <2>1 DEF BegunOf, Target, CanTransition, AllowedTransitions
  <2> QED
    BY <1>5, <2>1, <2>2 DEF Linking
<1>7. SnapOf(p)'
  BY <1>1, <1>2, <1>5 DEF SnapOf, HasSnap, Linking, row
<1> QED
  BY <1>2, <1>3, <1>6, <1>7, PreviewQuiet

-----------------------------------------------------------------------------
(* Under the lock of a row nobody else makes a preview of its file. *)
LEMMA MakesAlone ==
  ASSUME LockInv, NEW p \in Workers, pc[p] \in Held, ~Linking(p) PROVE ~Making(file[p])
<1> SUFFICES ASSUME NEW q \in Workers, Linking(q), file[q] = file[p] PROVE FALSE
  BY DEF Making
<1>1. pc[q] \in Held
  BY DEF Linking, Held, Transitions
<1> QED
  BY <1>1, LockExcludes

LEMMA SnapOthers ==
  ASSUME TypeInv, LockInv, PreviewInv, NEW p \in Workers, pc[p] \in Held, OnlyLocals(p),
         \A f \in Files \ {file[p]} : meta'[f].mtime = meta[f].mtime
  PROVE  \A q \in Workers \ {p} : SnapOf(q)'
<1> SUFFICES ASSUME NEW q \in Workers, q # p PROVE SnapOf(q)'
  OBVIOUS
<1>1. pc[q] \in Held => file[q] \in Files \ {file[p]}
  BY LockExcludes DEF TypeInv, Shape, ShapeOf, Held, Transitions
<1> QED
  BY <1>1, SnapOn DEF PreviewInv, OnlyLocals

(* A new batch is of a content that has none. *)
LEMMA PreviewMade ==
  ASSUME TypeInv, LockInv, ReviewInv, HeavenInv, PreviewInv, NEW p \in Workers, ExecPreview(p)
  PROVE  PreviewInv'
<1>1. ImportType /\ RowType /\ LocalType /\ ShapeOf(p) /\ BegunOf(p) /\ SnapOf(p)
  BY TypeGroups DEF TypeInv, Shape, ReviewInv, PreviewInv
<1>2. /\ pc[p] = "xpreview" /\ file[p] \in Files /\ ~Linking(p)
      /\ UNCHANGED <<row, file>> /\ OnlyLocals(p)
  BY <1>1, QuietWork DEF ExecPreview, ShapeOf, Linking, Work, Keep, SetLoc, Quiet, Transitions,
                         TransitionRead, Store
<1>3. pc[p] \in Held /\ ~Making(file[p]) /\ status[file[p]] = "IMPORTING"
  BY <1>1, <1>2, MakesAlone DEF Held, BegunOf
<1> DEFINE s == loc[p].snap
           new == [file |-> file[p], mtime |-> s.mtime, sha |-> loc[p].got,
                   family |-> s.family, status |-> "PREVIEW"]
<1>4. CASE UNCHANGED batches
  <2>1. \/ pc'[p] = "failCount"
        \/ pc'[p] = "toReview" /\ loc'[p].batch \in BatchIds
    BY <1>1, <1>4 DEF ExecPreview, Goto, Keep, SetLoc, LocalType, Local
  <2>2. SnapOf(p)'
    BY <2>1 DEF SnapOf, HasSnap, Linking
  <2> QED
    BY <1>2, <1>4, <2>2, PreviewQuiet
<1>5. ASSUME NEW b \in BatchIds, batches[b] = None,
             batches' = [batches EXCEPT ![b] = new],
             SetLoc(p, [loc[p] EXCEPT !.batch = b]), Goto(p, "toReview")
      PROVE  PreviewInv'
  <2>1. pc'[p] = "toReview" /\ loc'[p].batch = b
    BY <1>1, <1>5 DEF Goto, SetLoc, LocalType, Local
  <2>2. SnapOf(p)' /\ Making(file[p])'
    BY <1>2, <2>1 DEF SnapOf, HasSnap, Linking, Making
  <2>3. \A q \in Workers \ {p} : SnapOf(q)'
    BY <1>2, <1>3, SnapOthers DEF row
  <2>4. batches'[b] = new /\ \A c \in BatchIds \ {b} : batches'[c] = batches[c]
    BY <1>1, <1>5 DEF ImportType
  <2>5. s.mtime = meta[file[p]].mtime /\ meta[file[p]].mtime \in 0..MaxEdits /\ s \in Snapshot
    BY <1>1, <1>2 DEF SnapOf, HasSnap, RowType, ShapeOf
  <2>6. Traced(b)'
    <3>1. new.file = file[p] /\ new.mtime = s.mtime
      OBVIOUS
    <3> HIDE DEF new
    <3>2. meta' = meta /\ s.mtime <= meta[file[p]].mtime
      BY <1>2, <2>5, PipelineAssumption DEF row
    <3>3. Making(batches[b].file)' = Making(file[p])'
      BY <1>2, <2>4, <3>1 DEF Making
    <3> QED
      BY <2>2, <2>4, <3>1, <3>2, <3>3 DEF Traced
  <2>7. ASSUME NEW c \in BatchIds \ {b}, Fresh(c)' PROVE Traced(c)'
    <3>1. Fresh(c) /\ Traced(c) /\ batches[c].file \in Files
      BY <1>1, <2>4, <2>7 DEF PreviewInv, Fresh, ImportType, Batch
    <3> QED
      BY <1>2, <2>4, <3>1, MakingOn, TracedOn DEF row
  <2>8. ASSUME NEW c \in BatchIds \ {b}, batches[c] # None, batches[c].status # "CANCELLED"
        PROVE  ~ /\ batches[c].file = file[p] /\ batches[c].mtime = s.mtime
                 /\ batches[c].sha = loc[p].got /\ batches[c].family = s.family
    <3>1. CASE s.family = "HEAVEN"
      BY <1>2, <2>8, <3>1 DEF HeavenInv, FoundNone, HeavenBatch
    <3>2. CASE s.family # "HEAVEN"
      <4> SUFFICES ASSUME batches[c].file = file[p], batches[c].mtime = s.mtime,
                          batches[c].family = s.family
                   PROVE  FALSE
        OBVIOUS
      <4>1. Traced(c)
        BY <2>8, <3>2 DEF PreviewInv, Fresh
      <4>2. batches[c].mtime < meta[file[p]].mtime
        BY <1>3, <4>1 DEF Traced, Resting
      <4> QED
        BY <2>5, <4>2, PipelineAssumption
    <3> QED
      BY <3>1, <3>2
  <2>9. OnePreviewPerContent'
    <3>1. /\ new.file = file[p] /\ new.mtime = s.mtime
          /\ new.sha = loc[p].got /\ new.family = s.family
      OBVIOUS
    <3> HIDE DEF new, s
    <3> SUFFICES ASSUME NEW c \in BatchIds, NEW d \in BatchIds, c # d,
                        batches'[c] # None, batches'[d] # None,
                        batches'[c].status # "CANCELLED", batches'[d].status # "CANCELLED"
                 PROVE  ~ /\ batches'[c].file = batches'[d].file
                          /\ batches'[c].mtime = batches'[d].mtime
                          /\ batches'[c].sha = batches'[d].sha
                          /\ batches'[c].family = batches'[d].family
      BY DEF OnePreviewPerContent
    <3>2. CASE c = b
      BY <2>4, <2>8, <3>1, <3>2
    <3>3. CASE d = b
      BY <2>4, <2>8, <3>1, <3>3
    <3>4. CASE c # b /\ d # b
      BY <2>4, <3>4 DEF PreviewInv, OnePreviewPerContent
    <3> QED
      BY <3>2, <3>3, <3>4
  <2> QED
    BY <2>2, <2>3, <2>6, <2>7, <2>9 DEF PreviewInv
<1> QED
  BY <1>4, <1>5 DEF ExecPreview

(* A detection that makes an imported file new again moves its time on. *)
LEMMA PreviewUpsertWrite ==
  ASSUME TypeInv, LockInv, TimeInv, PreviewInv, NEW p \in Pollers, UpsertWrite(p)
  PROVE  PreviewInv'
<1>1. /\ p \in Workers /\ ImportType /\ RowType /\ LocalType
      /\ ShapeOf(p) /\ SafeOf(p) /\ TimeOf(p)
  BY TypeGroups DEF TypeInv, Shape, Workers, LockInv, TimeInv
<1>2. pc[p] = "upsertWrite" /\ pc[p] \in Held /\ file[p] \in Files /\ ~Linking(p)
  BY <1>1 DEF UpsertWrite, Held, ShapeOf, Linking
<1>3. OnlyLocals(p) /\ UNCHANGED <<link, batches>>
  BY <1>1 DEF UpsertWrite, Goto, Keep, LocalType, OnlyLocals, imports
<1>4. /\ status'[file[p]] = to[p] /\ meta'[file[p]].mtime = loc[p].list.mtime
      /\ \A f \in Files \ {file[p]} : status'[f] = status[f] /\ meta'[f] = meta[f]
  BY <1>1, <1>2 DEF UpsertWrite, RowType
<1>5. pc'[p] \in {"toDetected", "toDownloading", "leave"}
  BY <1>1 DEF UpsertWrite, Goto, LocalType
<1>6. SnapOf(p)' /\ \A q \in Workers \ {p} : SnapOf(q)'
  BY <1>1, <1>2, <1>3, <1>4, <1>5, SnapOthers DEF SnapOf, HasSnap, Linking
<1>7. ASSUME NEW b \in BatchIds, Fresh(b)' PROVE Traced(b)'
  <2>1. Traced(b) /\ batches[b].file \in Files /\ batches[b].mtime \in 0..MaxEdits
    BY <1>1, <1>3, <1>7 DEF PreviewInv, Fresh, ImportType, Batch
  <2>2. CASE batches[b].file # file[p]
    BY <1>1, <1>2, <1>3, <1>4, <2>1, <2>2, MakingOn, TracedOn
  <2>3. CASE batches[b].file = file[p]
    <3>1. ~Making(file[p])
      BY <1>1, <1>2, MakesAlone
    <3>2. /\ meta[file[p]].mtime <= loc[p].list.mtime
          /\ saw[p] = "IMPORTED" /\ to[p] = "DETECTED" =>
               loc[p].list.mtime # meta[file[p]].mtime
          /\ meta[file[p]].mtime \in Nat /\ loc[p].list.mtime \in Nat
          /\ batches[b].mtime \in Nat
      BY <1>1, <1>2, <2>1, PipelineAssumption DEF TimeOf, RowType, ShapeOf, Listing
    <3>3. /\ batches[b].mtime <= meta[file[p]].mtime /\ link[file[p]].last # None
          /\ status[file[p]] \in Resting \/ batches[b].mtime < meta[file[p]].mtime
      BY <2>1, <2>3, <3>1 DEF Traced
    <3>4. batches[b].mtime <= loc[p].list.mtime
      BY <3>2, <3>3
    <3>5. to[p] \in Resting \/ batches[b].mtime < loc[p].list.mtime
      <4>1. CASE status[file[p]] \notin Resting
        BY <3>2, <3>3, <4>1
      <4>2. CASE status[file[p]] \in Resting /\ ~(saw[p] = "IMPORTED" /\ to[p] = "DETECTED")
        BY <1>1, <1>2, <4>2 DEF SafeOf, FreshOf, ReasonOf, UpsertEdge, Resting, Absent
      <4>3. CASE saw[p] = "IMPORTED" /\ to[p] = "DETECTED"
        BY <3>2, <3>3, <4>3
      <4> QED
        BY <4>1, <4>2, <4>3
    <3> QED
      BY <1>3, <1>4, <2>3, <3>3, <3>4, <3>5 DEF Traced, Resting
  <2> QED
    BY <2>2, <2>3
<1>8. OnePreviewPerContent'
  BY <1>3 DEF PreviewInv, OnePreviewPerContent
<1> QED
  BY <1>6, <1>7, <1>8 DEF PreviewInv

(* A transition leaves rest only for a file that has no preview. *)
LEMMA PreviewStore ==
  ASSUME TypeInv, LockInv, ReviewInv, PreviewInv, NEW p \in Workers, Store(p)
  PROVE  PreviewInv'
<1>1. /\ ImportType /\ RowType /\ LocalType
      /\ ShapeOf(p) /\ SafeOf(p) /\ BegunOf(p) /\ SnapOf(p)
  BY TypeGroups DEF TypeInv, Shape, LockInv, ReviewInv, PreviewInv
<1>2. pc[p] = "store" /\ pc[p] \in Held /\ file[p] \in Files
  BY <1>1 DEF Store, Held, ShapeOf
<1>3. OnlyLocals(p) /\ UNCHANGED <<batches, file, loc>>
  BY <1>1 DEF Store, Goto, Keep, LocalType, OnlyLocals, imports
<1>4. /\ status'[file[p]] = to[p]
      /\ \A f \in Files \ {file[p]} : status'[f] = status[f] /\ link'[f] = link[f]
      /\ link'[file[p]].last = IF step[p] = "toReview" THEN loc[p].batch ELSE link[file[p]].last
  BY <1>1, <1>2 DEF Store, RowType
<1>5. \A f \in Files : meta'[f].mtime = meta[f].mtime
  <2> DEFINE g == file[p]
             m == [meta[g] EXCEPT !.sha = loc[p].got]
  <2>1. meta' = meta \/ meta' = [meta EXCEPT ![g] = m]
    BY DEF Store
  <2>2. g \in Files /\ m.mtime = meta[g].mtime
    BY <1>1, <1>2 DEF RowType
  <2> HIDE DEF g, m
  <2> QED
    BY <1>1, <2>1, <2>2 DEF RowType
<1>6. SnapOf(p)' /\ \A q \in Workers \ {p} : SnapOf(q)'
  <2>1. /\ pc'[p] \in {"toDownloading", "fetch", "dispatch", "xfetch", "xfind", "xpreview", "leave"}
        /\ pc'[p] \in {"xfetch", "xfind", "xpreview"} => step[p] = "toImporting"
    BY <1>1 DEF Store, After, Goto, LocalType
  <2>2. SnapOf(p)'
    BY <1>1, <1>2, <1>3, <1>5, <2>1 DEF SnapOf, HasSnap, Linking
  <2> QED
    BY <1>2, <1>3, <1>5, <2>2, SnapOthers
<1>7. ASSUME NEW b \in BatchIds, Fresh(b)' PROVE Traced(b)'
  <2>1. Traced(b) /\ batches[b].file \in Files
    BY <1>1, <1>3, <1>7 DEF PreviewInv, Fresh, ImportType, Batch
  <2>2. CASE batches[b].file # file[p]
    <3>1. Making(batches[b].file) => Making(batches[b].file)'
      BY <1>3, <2>2 DEF Making, Linking, OnlyLocals
    <3> QED
      BY <1>2, <1>3, <1>4, <1>5, <2>1, <2>2, <3>1, TracedOn
  <2>3. CASE batches[b].file = file[p] /\ step[p] = "toReview"
    <3>1. to[p] \in Resting /\ loc[p].batch # None
      BY <1>1, <1>2, <2>3, PipelineAssumption DEF BegunOf, SnapOf, Linking, Resting
    <3> QED
      BY <1>2, <1>3, <1>4, <1>5, <2>1, <2>3, <3>1 DEF Traced, Resting
  <2>4. CASE batches[b].file = file[p] /\ step[p] # "toReview"
    <3>1. ~Making(file[p])
      BY <1>2, <2>4, MakesAlone DEF Linking
    <3>2. link[file[p]].last # None
      BY <2>1, <2>4, <3>1 DEF Traced
    <3>3. status[file[p]] \in Resting => to[p] \in Resting
      <4> SUFFICES ASSUME status[file[p]] \in Resting PROVE to[p] \in Resting
        OBVIOUS
      <4>1. saw[p] \in Resting /\ CanTransition(saw[p], to[p])
        BY <1>1, <1>2 DEF SafeOf, FreshOf, ReasonOf, Resting
      <4>2. to[p] \in {"DETECTED", "READY"} \cup Resting
        BY <4>1 DEF CanTransition, AllowedTransitions, Resting
      <4>3. to[p] \notin {"DETECTED", "READY"}
        BY <1>1, <1>2, <3>2, <4>1 DEF SafeOf, ReasonOf, Resting
      <4> QED
        BY <4>2, <4>3
    <3> QED
      BY <1>2, <1>3, <1>4, <1>5, <2>1, <2>4, <3>1, <3>2, <3>3 DEF Traced, Resting
  <2> QED
    BY <2>2, <2>3, <2>4
<1>8. OnePreviewPerContent'
  BY <1>3 DEF PreviewInv, OnePreviewPerContent
<1> QED
  BY <1>6, <1>7, <1>8 DEF PreviewInv

(* The other steps at most end a review, cancel a batch or bring it back. *)
LEMMA PreviewOther ==
  ASSUME TypeInv, PreviewInv, UNCHANGED <<local, meta>>,
         \A f \in Files : /\ link'[f].last = link[f].last
                          /\ status[f] \in Resting => status'[f] \in Resting,
         \A b \in BatchIds :
           batches'[b] # None =>
                /\ batches[b] # None
                /\ batches'[b].file = batches[b].file /\ batches'[b].mtime = batches[b].mtime
                /\ batches'[b].sha = batches[b].sha /\ batches'[b].family = batches[b].family
                /\ batches[b].status = "CANCELLED" => batches'[b].status = "CANCELLED"
  PROVE  PreviewInv'
<1>1. \A q \in Workers : SnapOf(q)'
  BY SnapOn DEF PreviewInv, local
<1>2. \A f \in Files : Making(f) => Making(f)'
  BY DEF Making, Linking, local
<1>3. ASSUME NEW b \in BatchIds, Fresh(b)' PROVE Traced(b)'
  <2>1. Fresh(b)
    BY <1>3 DEF Fresh
  <2>2. Traced(b) /\ batches[b].file \in Files
    BY <2>1, TypeGroups DEF PreviewInv, Fresh, TypeInv, ImportType, Batch
  <2> QED
    <3>1. batches'[b] # None
      BY <1>3 DEF Fresh
    <3> QED
      BY <1>2, <2>2, <3>1, TracedOn
<1>4. OnePreviewPerContent'
  <2> SUFFICES ASSUME NEW c \in BatchIds, NEW d \in BatchIds, c # d,
                      batches'[c] # None, batches'[d] # None,
                      batches'[c].status # "CANCELLED", batches'[d].status # "CANCELLED"
               PROVE  ~ /\ batches'[c].file = batches'[d].file
                        /\ batches'[c].mtime = batches'[d].mtime
                        /\ batches'[c].sha = batches'[d].sha
                        /\ batches'[c].family = batches'[d].family
    BY DEF OnePreviewPerContent
  <2>1. /\ batches[c] # None /\ batches[d] # None
        /\ batches[c].status # "CANCELLED" /\ batches[d].status # "CANCELLED"
    OBVIOUS
  <2>2. ~ /\ batches[c].file = batches[d].file /\ batches[c].mtime = batches[d].mtime
          /\ batches[c].sha = batches[d].sha /\ batches[c].family = batches[d].family
    BY <2>1 DEF PreviewInv, OnePreviewPerContent
  <2> QED
    BY <2>1, <2>2
<1> QED
  BY <1>1, <1>3, <1>4 DEF PreviewInv

LEMMA PreviewSync ==
  ASSUME TypeInv, PreviewInv, NEW b \in BatchIds, Sync(b) PROVE PreviewInv'
<1>1. RowType
  BY TypeGroups DEF TypeInv
<1>2. UNCHANGED <<meta, batches>> /\ UNCHANGED local
  BY DEF Sync, SyncRead, SyncLock, SyncFind, SyncWrite, row, imports
<1>3. CASE SyncWrite(b)
  <2> DEFINE g == syncs[b].file
             l == [link[g] EXCEPT !.ok = b]
  <2>1. \/ UNCHANGED <<status, link>>
        \/ /\ status' = [status EXCEPT ![g] = "IMPORTED"]
           /\ link' = [link EXCEPT ![g] = l]
    BY <1>3 DEF SyncWrite
  <2>2. g \in Files => l.last = link[g].last
    BY <1>1 DEF RowType
  <2> HIDE DEF g, l
  <2>3. \A f \in Files : /\ link'[f].last = link[f].last
                         /\ status[f] \in Resting => status'[f] \in Resting
    BY <1>1, <2>1, <2>2 DEF RowType, Resting
  <2> QED
    BY <1>2, <2>3, PreviewOther
<1>4. CASE ~SyncWrite(b)
  <2>1. UNCHANGED row
    BY <1>4 DEF Sync, SyncRead, SyncLock, SyncFind
  <2> QED
    BY <1>2, <2>1, PreviewOther DEF row
<1> QED
  BY <1>3, <1>4

LEMMA PreviewConfirm ==
  ASSUME TypeInv, PreviewInv, NEW b \in BatchIds, Confirm(b) \/ Reopen(b) PROVE PreviewInv'
<1>1. ImportType
  BY TypeGroups DEF TypeInv
<1>2. UNCHANGED row /\ UNCHANGED local
  BY DEF Confirm, Reopen
<1>3. PICK s \in {"PREVIEW", "CANCELLED"} \cup Completed :
        /\ batches' = [batches EXCEPT ![b].status = s]
        /\ batches[b] # None
        /\ batches[b].status = "CANCELLED" => s = "CANCELLED"
  BY DEF Confirm, Reopen, Completed
<1> DEFINE r == [batches[b] EXCEPT !.status = s]
<1>4. batches' = [batches EXCEPT ![b] = r]
  BY <1>3
<1>5. /\ r.file = batches[b].file /\ r.mtime = batches[b].mtime
      /\ r.sha = batches[b].sha /\ r.family = batches[b].family /\ r.status = s
  <2>1. batches[b] \in Batch
    BY <1>1, <1>3 DEF ImportType
  <2>2. r \in Batch
    BY <1>3, <2>1 DEF Batch
  <2> QED
    BY <2>1, <2>2 DEF Batch
<1> HIDE DEF r
<1>6. batches'[b] = r /\ \A c \in BatchIds \ {b} : batches'[c] = batches[c]
  BY <1>1, <1>4 DEF ImportType
<1> QED
  BY <1>2, <1>3, <1>5, <1>6, PreviewOther DEF row

LEMMA PreviewNext ==
  ASSUME "crash" \notin Env
  PROVE  TypeInv /\ LockInv /\ ReviewInv /\ HeavenInv /\ TimeInv /\ PreviewInv /\ [Next]_vars
           => PreviewInv'
<1> SUFFICES ASSUME TypeInv, LockInv, ReviewInv, HeavenInv, TimeInv, PreviewInv, [Next]_vars
             PROVE  PreviewInv'
  OBVIOUS
<1>1. ASSUME NEW p \in Pollers, Scan(p) PROVE PreviewInv'
  <2>1. CASE ListFolder(p)
    BY <2>1, PreviewOther DEF ListFolder, row, imports
  <2>2. CASE ~ListFolder(p)
    BY <1>1, <2>2, PreviewUpsertWrite, PreviewScan
  <2> QED
    BY <2>1, <2>2
<1>2. ASSUME NEW p \in Workers, Work(p) PROVE PreviewInv'
  BY <1>2, PreviewTransitionRead, PreviewStore, PreviewMade, PreviewWork
<1>3. ASSUME Human PROVE PreviewInv'
  <2>1. ASSUME NEW p \in Clis \cup Operators, NEW f \in Files,
               CliStart(p, f) \/ ResetStart(p, f)
        PROVE  PreviewInv'
    <3>1. p \in Workers /\ LocalType
      BY TypeGroups DEF TypeInv, Workers
    <3>2. Quiet(p) /\ UNCHANGED batches /\ ~Linking(p)
      BY <2>1, <3>1, QuietStart DEF CliStart, ResetStart, Linking, imports
    <3>3. pc'[p] \in {"xlock", "resetLock"}
      BY <2>1, <3>1 DEF CliStart, ResetStart, Goto, LocalType
    <3>4. SnapOf(p)'
      BY <3>3 DEF SnapOf, HasSnap, Linking
    <3> QED
      BY <3>1, <3>2, <3>4, PreviewQuiet DEF Quiet
  <2>2. ASSUME NEW f \in Files, DriveEdit(f) \/ DriveMove(f) \/ DriveRename(f)
        PROVE  PreviewInv'
    BY <2>2, PreviewOther DEF DriveEdit, DriveMove, DriveRename, row, imports
  <2>3. ASSUME NEW g \in Folders, SetMapping(g) PROVE PreviewInv'
    BY <2>3, PreviewOther DEF SetMapping, row, imports
  <2> QED
    BY <1>3, <2>1, <2>2, <2>3, PreviewConfirm DEF Human
<1>4. ASSUME NEW f \in Files, RetryDue(f) PROVE PreviewInv'
  BY <1>4, PreviewOther DEF RetryDue, imports
<1>5. ~Failures
  BY DEF Failures, Crash, SyncCrash
<1>6. CASE UNCHANGED vars
  BY <1>6, PreviewOther DEF vars, row, imports
<1> QED
  BY <1>1, <1>2, <1>3, <1>4, <1>5, <1>6, PreviewSync DEF Next

(* With automatic execution off, and as long as no process dies between    *)
(* making a preview and linking the row to it, no content of a file has    *)
(* two previews, whatever moves, edits, resets and retries come in between *)
(* (sameIdentity, createHeavenPreview).                                    *)
THEOREM LockedPreviewsAreUnique ==
  ASSUME ~AutoExecution, "crash" \notin Env PROVE Spec => []OnePreviewPerContent
<1>1. TypeInv /\ LockInv /\ [Next]_vars => LockInv'
  BY LockNext
<1>2. TypeInv /\ LockInv /\ ReviewInv /\ HeavenInv /\ TimeInv /\ PreviewInv /\ [Next]_vars
        => PreviewInv'
  BY PreviewNext
<1>3. PreviewInv => OnePreviewPerContent
  BY DEF PreviewInv
<1> QED
  BY <1>1, <1>2, <1>3, TypeCorrect, ConfirmInit, ConfirmNext, LockInit, ReviewInit, ReviewNext,
     HolderInit, HolderNext, HeavenInit, HeavenNext, TimeInit, TimeNext, PreviewInit,
     PTL DEF Spec

=============================================================================
