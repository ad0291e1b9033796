------------------------ MODULE DrivePipelineProofs -------------------------
(***************************************************************************)
(* What holds of DrivePipeline for every choice of its constants, in both  *)
(* modes: types, and that nothing is IMPORTED without a confirmation.      *)
(***************************************************************************)
EXTENDS DrivePipeline, TLAPS

-----------------------------------------------------------------------------
(* The variables by group, so that a step is checked on what it changes.   *)

EnvType ==
  /\ drive \in [Files -> [folder: Folders \cup {None}, name: Names,
                          mtime: 0..MaxEdits, content: Contents]]
  /\ mapped \in [Folders -> BOOLEAN]

RowType ==
  /\ status \in [Files -> Statuses \cup {Absent}]
  /\ meta \in [Files -> [folder: Folders \cup {None}, name: Names \cup {None},
                         mtime: 0..MaxEdits, sha: Contents \cup {None}]]
  /\ retry \in [Files -> [count: 0..(MaxRetry + 1), due: BOOLEAN]]
  /\ link \in [Files -> [last: BatchIds \cup {None}, ok: BatchIds \cup {None}]]

ImportType ==
  /\ batches \in [BatchIds -> Batch \cup {None}]
  /\ accepted \subseteq BatchIds

LockType ==
  /\ scanLock \in Pollers \cup {None}
  /\ fileLock \in [Files -> Workers \cup BatchIds \cup {None}]

LocalType ==
  /\ pc \in [Workers -> Labels]
  /\ step \in [Workers -> Steps]
  /\ file \in [Workers -> Files \cup {None}]
  /\ saw \in [Workers -> Statuses \cup {Absent}]
  /\ to \in [Workers -> Statuses \cup {Absent}]
  /\ loc \in [Workers -> Local]

TodoType == todo \in [Pollers -> [folders: SUBSET Folders, files: SUBSET Listing]]

SyncType == syncs \in [BatchIds -> [pc: {"off", "read", "lock", "find", "write"},
                                    file: Files \cup {None}]]

LEMMA TypeGroups ==
  TypeOK <=> /\ EnvType /\ RowType /\ ImportType /\ LockType
             /\ LocalType /\ TodoType /\ SyncType
BY DEF TypeOK, EnvType, RowType, ImportType, LockType, LocalType, TodoType, SyncType

-----------------------------------------------------------------------------
(* What each process holds at each place of the code: the file it works    *)
(* on, the listing it is recording, the snapshot and the bytes the preview *)
(* is made from.  A row, once created, names a mapped folder.              *)

ShapeOf(p) ==
  /\ pc[p] \notin {"off", "next", "leave"} => file[p] \in Files
  /\ pc[p] \in {"enter", "upsert", "upsertWrite"} => loc[p].list \in Listing
  /\ pc[p] \in {"upsertWrite", "store"} => to[p] \in Statuses
  /\ pc[p] = "store" => step[p] \in Transitions /\ status[file[p]] # Absent
  /\ \/ pc[p] \in {"xlist", "xfetch", "xdup", "xfind", "xpreview", "toImporting"}
     \/ pc[p] = "store" /\ step[p] = "toImporting"
     => loc[p].snap \in Snapshot
  /\ pc[p] \in {"xdup", "xfind", "xpreview"} => loc[p].got \in Contents
  /\ /\ \/ pc[p] = "toImporting"
        \/ pc[p] = "store" /\ step[p] = "toImporting"
     /\ loc[p].snap.family # "CTI"
     => loc[p].got \in Contents

RowsMapped == \A f \in Files : status[f] # Absent => meta[f].folder \in Folders

Shape == /\ \A p \in Workers : ShapeOf(p)
         /\ RowsMapped

TypeInv == TypeOK /\ Shape

LEMMA TypeInit == Init => TypeInv
BY PipelineAssumption, MaxRetryAssumption
   DEF Init, TypeInv, TypeOK, Shape, ShapeOf, RowsMapped, Labels, Transitions, Steps, Local, Blank, Workers, Statuses, Absent



(* A step of p leaves the locals of the other processes alone. *)
OnlyLocals(p) ==
  \A q \in Workers \ {p} :
    /\ pc'[q] = pc[q] /\ step'[q] = step[q] /\ file'[q] = file[q]
    /\ saw'[q] = saw[q] /\ to'[q] = to[q] /\ loc'[q] = loc[q]

(* A row that exists goes on existing. *)
RowsStay == \A f \in Files : status[f] # Absent => status'[f] # Absent

LEMMA OthersKeepShape ==
  ASSUME TypeInv, NEW q \in Workers, RowsStay, pc'[q] = pc[q], step'[q] = step[q],
         file'[q] = file[q], to'[q] = to[q], loc'[q] = loc[q]
  PROVE  ShapeOf(q)'
<1>1. ShapeOf(q)
  BY DEF TypeInv, Shape
<1>2. pc[q] = "store" => file[q] \in Files
  BY <1>1 DEF ShapeOf
<1> QED
  BY <1>1, <1>2 DEF ShapeOf, RowsStay

(* What is left to show of a step of one process, and of any other step.   *)
LEMMA StepOfWorker ==
  ASSUME TypeInv, NEW p \in Workers,
         EnvType', RowType', ImportType', LockType', LocalType', TodoType', SyncType',
         OnlyLocals(p), RowsStay, RowsMapped', ShapeOf(p)'
  PROVE  TypeInv'
<1>1. \A q \in Workers : ShapeOf(q)'
  BY OthersKeepShape DEF OnlyLocals
<1>2. TypeOK'
  BY DEF TypeOK, EnvType, RowType, ImportType, LockType, LocalType, TodoType, SyncType
<1> QED
  BY <1>1, <1>2 DEF TypeInv, Shape

LEMMA StepOfOther ==
  ASSUME TypeInv, EnvType', RowType', ImportType', LockType', TodoType', SyncType',
         UNCHANGED local, RowsStay, RowsMapped'
  PROVE  TypeInv'
<1>1. \A q \in Workers : ShapeOf(q)'
  BY OthersKeepShape DEF local
<1>2. LocalType'
  BY TypeGroups DEF TypeInv, LocalType, local
<1>3. TypeOK'
  BY <1>2 DEF TypeOK, EnvType, RowType, ImportType, LockType, LocalType, TodoType, SyncType
<1> QED
  BY <1>1, <1>3 DEF TypeInv, Shape

(* Variables a step leaves alone keep their types. *)
LEMMA Frame ==
  ASSUME TypeInv
  PROVE  /\ UNCHANGED env => EnvType'
         /\ UNCHANGED row => RowType' /\ RowsStay /\ RowsMapped'
         /\ UNCHANGED imports => ImportType'
         /\ UNCHANGED locks => LockType'
         /\ UNCHANGED todo => TodoType'
         /\ UNCHANGED syncs => SyncType'
<1>1. /\ EnvType /\ RowType /\ ImportType /\ LockType
      /\ LocalType /\ TodoType /\ SyncType /\ RowsMapped
  BY TypeGroups DEF TypeInv, Shape
<1>2. UNCHANGED env => EnvType'
  BY <1>1 DEF EnvType, env
<1>3. UNCHANGED row => RowType' /\ RowsStay /\ RowsMapped'
  BY <1>1 DEF RowType, RowsStay, RowsMapped, row
<1>4. UNCHANGED imports => ImportType'
  BY <1>1 DEF ImportType, imports
<1>5. UNCHANGED locks => LockType'
  BY <1>1 DEF LockType, locks
<1>6. UNCHANGED todo => TodoType'
  BY <1>1 DEF TodoType
<1>7. UNCHANGED syncs => SyncType'
  BY <1>1 DEF SyncType
<1> QED
  BY <1>2, <1>3, <1>4, <1>5, <1>6, <1>7

-----------------------------------------------------------------------------
(* The scan. *)

LEMMA BlankType == Blank \in Local
<1>1. 0 \in 0..(MaxRetry + 1)
  BY MaxRetryAssumption
<1> QED
  BY <1>1 DEF Blank, Local

LEMMA TypePollStart ==
  ASSUME TypeInv, NEW p \in Pollers, PollStart(p) PROVE TypeInv'
<1>1. p \in Workers /\ LockType /\ LocalType /\ TodoType
  BY TypeGroups DEF TypeInv, Workers
<1>2. EnvType' /\ RowType' /\ RowsStay /\ RowsMapped' /\ ImportType' /\ SyncType'
  BY Frame DEF PollStart
<1>3. LockType'
  BY <1>1 DEF PollStart, LockType
<1>4. TodoType'
  <2>1. ActiveMappings \in SUBSET Folders
    BY DEF ActiveMappings
  <2> QED
    BY <1>1, <2>1 DEF PollStart, TodoType
<1>5. LocalType' /\ OnlyLocals(p) /\ ShapeOf(p)'
  BY <1>1 DEF PollStart, Goto, Keep, LocalType, Labels, OnlyLocals, ShapeOf
<1> QED
  BY <1>1, <1>2, <1>3, <1>4, <1>5, StepOfWorker

LEMMA TypeListFolder ==
  ASSUME TypeInv, NEW p \in Pollers, ListFolder(p) PROVE TypeInv'
<1>1. EnvType /\ TodoType
  BY TypeGroups DEF TypeInv
<1>2. /\ EnvType' /\ RowType' /\ RowsStay /\ RowsMapped' /\ ImportType'
      /\ LockType' /\ SyncType'
  BY Frame DEF ListFolder
<1>3. TodoType'
  <2>1. PICK g \in todo[p].folders :
          todo' = [todo EXCEPT ![p] = [folders |-> @.folders \ {g}, files |-> Listed(g)]]
    BY DEF ListFolder
  <2>2. g \in Folders
    BY <1>1, <2>1 DEF TodoType
  <2>3. Listed(g) \in SUBSET Listing
    BY <1>1, <2>2 DEF Listed, Listing, EnvType
  <2> QED
    BY <1>1, <2>1, <2>3 DEF TodoType
<1> QED
  BY <1>2, <1>3, StepOfOther DEF ListFolder

LEMMA TypePollEnd ==
  ASSUME TypeInv, NEW p \in Pollers, PollEnd(p) PROVE TypeInv'
<1>1. p \in Workers /\ LockType /\ LocalType
  BY TypeGroups DEF TypeInv, Workers
<1>2. /\ EnvType' /\ RowType' /\ RowsStay /\ RowsMapped' /\ ImportType'
      /\ TodoType' /\ SyncType'
  BY Frame DEF PollEnd
<1>3. LockType'
  BY <1>1 DEF PollEnd, LockType
<1>4. LocalType' /\ OnlyLocals(p) /\ ShapeOf(p)'
  BY <1>1 DEF PollEnd, Goto, Keep, LocalType, Labels, OnlyLocals, ShapeOf
<1> QED
  BY <1>1, <1>2, <1>3, <1>4, StepOfWorker

LEMMA TypePickFile ==
  ASSUME TypeInv, NEW p \in Pollers, PickFile(p) PROVE TypeInv'
<1>1. p \in Workers /\ LocalType /\ TodoType
  BY TypeGroups DEF TypeInv, Workers
<1>2. /\ EnvType' /\ RowType' /\ RowsStay /\ RowsMapped' /\ ImportType'
      /\ LockType' /\ SyncType'
  BY Frame DEF PickFile
<1>3. PICK x \in todo[p].files :
        /\ todo' = [todo EXCEPT ![p].files = @ \ {x}]
        /\ file' = [file EXCEPT ![p] = x.file]
        /\ loc' = [loc EXCEPT ![p] = [Blank EXCEPT !.list = x, !.want =
             ShouldDownload(Classification(status[x.file], meta[x.file], x), status[x.file])]]
  BY DEF PickFile
<1>4. x \in Listing /\ x.file \in Files
  BY <1>1, <1>3 DEF TodoType, Listing
<1>5. TodoType'
  BY <1>1, <1>3 DEF TodoType
<1>6. loc'[p] \in Local /\ loc'[p].list = x
  <2> DEFINE w == ShouldDownload(Classification(status[x.file], meta[x.file], x), status[x.file])
  <2>1. w \in BOOLEAN
    BY DEF ShouldDownload
  <2>2. [Blank EXCEPT !.list = x, !.want = w] \in Local
    <3> HIDE DEF w
    <3> QED
      BY <1>4, <2>1, BlankType DEF Local
  <2> QED
    BY <1>1, <1>3, <2>2 DEF LocalType, Blank
<1>7. LocalType' /\ OnlyLocals(p)
  BY <1>1, <1>3, <1>4, <1>6 DEF PickFile, Goto, LocalType, Labels, OnlyLocals
<1>8. ShapeOf(p)'
  BY <1>1, <1>3, <1>4, <1>6 DEF PickFile, Goto, LocalType, ShapeOf
<1> QED
  BY <1>1, <1>2, <1>5, <1>7, <1>8, StepOfWorker

LEMMA TypeEnterFile ==
  ASSUME TypeInv, NEW p \in Pollers, EnterFile(p) PROVE TypeInv'
<1>1. p \in Workers /\ LockType /\ LocalType /\ ShapeOf(p)
  BY TypeGroups DEF TypeInv, Workers, Shape
<1>2. /\ EnvType' /\ RowType' /\ RowsStay /\ RowsMapped' /\ ImportType'
      /\ TodoType' /\ SyncType'
  BY Frame DEF EnterFile
<1>3. LockType'
  BY <1>1 DEF EnterFile, LockType
<1>4. LocalType' /\ OnlyLocals(p) /\ ShapeOf(p)'
  BY <1>1 DEF EnterFile, Goto, Keep, LocalType, Labels, OnlyLocals, ShapeOf
<1> QED
  BY <1>1, <1>2, <1>3, <1>4, StepOfWorker

LEMMA ShaType ==
  ASSUME NEW p \in Workers, loc \in [Workers -> Local], NEW d \in Contents \cup {None}
  PROVE  [loc EXCEPT ![p].sha = d] \in [Workers -> Local]
<1>1. loc[p] \in Local
  OBVIOUS
<1>2. [loc[p] EXCEPT !.sha = d] \in Local
  BY <1>1 DEF Local
<1> QED
  BY <1>2

LEMMA TypeUpsertRead ==
  ASSUME TypeInv, NEW p \in Pollers, UpsertRead(p) PROVE TypeInv'
<1>1. p \in Workers /\ RowType /\ LocalType /\ ShapeOf(p)
  BY TypeGroups DEF TypeInv, Workers, Shape
<1>2. /\ EnvType' /\ RowType' /\ RowsStay /\ RowsMapped' /\ ImportType'
      /\ LockType' /\ TodoType' /\ SyncType'
  BY Frame DEF UpsertRead
<1>3. file[p] \in Files
  BY <1>1 DEF UpsertRead, ShapeOf
<1>4. to'[p] \in Statuses
  BY <1>1, <1>3 DEF UpsertRead, LocalType, RowType, NewStatus, UpsertStatus, Statuses, Absent
<1>5. LocalType' /\ OnlyLocals(p)
  <2>1. /\ saw' = [saw EXCEPT ![p] = status[file[p]]]
        /\ loc' = [loc EXCEPT ![p].sha = meta[file[p]].sha]
        /\ pc' = [pc EXCEPT ![p] = "upsertWrite"] /\ UNCHANGED <<step, file>>
    BY Zenon DEF UpsertRead, Goto
  <2>2. to' = [to EXCEPT ![p] =
                 IF status[file[p]] = Absent THEN NewStatus(mapped[loc[p].list.folder])
                 ELSE UpsertStatus(status[file[p]],
                                   meta[file[p]].folder # loc[p].list.folder,
                                   mapped[loc[p].list.folder],
                                   ContentChanged(meta[file[p]], loc[p].list))]
    BY Zenon DEF UpsertRead
  <2>3. status[file[p]] \in Statuses \cup {Absent}
        /\ meta[file[p]].sha \in Contents \cup {None}
    BY <1>1, <1>3 DEF RowType
  <2>4. loc' \in [Workers -> Local]
    BY <1>1, <2>1, <2>3, ShaType DEF LocalType
  <2>5. to' \in [Workers -> Statuses \cup {Absent}] /\ \A q \in Workers \ {p} : to'[q] = to[q]
    BY <1>1, <1>4, <2>2 DEF LocalType
  <2>6. \A q \in Workers \ {p} : loc'[q] = loc[q]
    BY <1>1, <2>1 DEF LocalType
  <2> QED
    BY <1>1, <2>1, <2>3, <2>4, <2>5, <2>6 DEF LocalType, Labels, OnlyLocals
<1>6. ShapeOf(p)'
  BY <1>1, <1>4 DEF UpsertRead, Goto, LocalType, ShapeOf, Local
<1> QED
  BY <1>1, <1>2, <1>5, <1>6, StepOfWorker

LEMMA TypeUpsertWrite ==
  ASSUME TypeInv, NEW p \in Pollers, UpsertWrite(p) PROVE TypeInv'
<1>1. p \in Workers /\ RowType /\ LocalType /\ ShapeOf(p) /\ RowsMapped
  BY TypeGroups DEF TypeInv, Workers, Shape
<1>2. EnvType' /\ ImportType' /\ LockType' /\ TodoType' /\ SyncType'
  BY Frame DEF UpsertWrite
<1>3. file[p] \in Files /\ loc[p].list \in Listing /\ to[p] \in Statuses
  BY <1>1 DEF UpsertWrite, ShapeOf
<1>4. RowType'
  BY <1>1, <1>3 DEF UpsertWrite, RowType, LocalType, Local, Listing
<1>5. RowsStay /\ RowsMapped'
  BY <1>1, <1>3 DEF UpsertWrite, RowType, RowsStay, RowsMapped, Listing, Statuses, Absent
<1>6. LocalType' /\ OnlyLocals(p) /\ ShapeOf(p)'
  BY <1>1, <1>3 DEF UpsertWrite, Goto, Keep, LocalType, Labels, Transitions, OnlyLocals, ShapeOf
<1> QED
  BY <1>1, <1>2, <1>4, <1>5, <1>6, StepOfWorker

LEMMA TypeFetch ==
  ASSUME TypeInv, NEW p \in Pollers, Fetch(p) PROVE TypeInv'
<1>1. p \in Workers /\ EnvType /\ LocalType /\ ShapeOf(p)
  BY TypeGroups DEF TypeInv, Workers, Shape
<1>2. /\ EnvType' /\ RowType' /\ RowsStay /\ RowsMapped' /\ ImportType'
      /\ LockType' /\ TodoType' /\ SyncType'
  BY Frame DEF Fetch
<1>3. file[p] \in Files
  BY <1>1 DEF Fetch, ShapeOf
<1>4. [loc[p] EXCEPT !.got = drive[file[p]].content] \in Local
  <2>1. drive[file[p]].content \in Contents \cup {None}
    BY <1>1, <1>3 DEF EnvType
  <2>2. loc[p] \in Local
    BY <1>1 DEF LocalType
  <2> QED
    BY <2>1, <2>2 DEF Local
<1>5. LocalType' /\ OnlyLocals(p)
  BY <1>1, <1>4, ZenonT(60) DEF Fetch, Goto, Keep, SetLoc, LocalType, Labels, Transitions, OnlyLocals
<1>6. ShapeOf(p)'
  BY <1>1, <1>3 DEF Fetch, Goto, Keep, SetLoc, LocalType, ShapeOf
<1> QED
  BY <1>1, <1>2, <1>5, <1>6, StepOfWorker

LEMMA TypeDispatch ==
  ASSUME TypeInv, NEW p \in Pollers, Dispatch(p) PROVE TypeInv'
<1>1. p \in Workers /\ LocalType /\ ShapeOf(p)
  BY TypeGroups DEF TypeInv, Workers, Shape
<1>2. /\ EnvType' /\ RowType' /\ RowsStay /\ RowsMapped' /\ ImportType'
      /\ LockType' /\ TodoType' /\ SyncType'
  BY Frame DEF Dispatch
<1>3. [Blank EXCEPT !.exec = TRUE] \in Local
  BY BlankType DEF Local
<1>4. LocalType' /\ OnlyLocals(p) /\ ShapeOf(p)'
  BY <1>1, <1>3, ZenonT(60) DEF Dispatch, Goto, Keep, SetLoc, LocalType, Labels, OnlyLocals, ShapeOf
<1> QED
  BY <1>1, <1>2, <1>4, StepOfWorker

-----------------------------------------------------------------------------
(* The executors, the reset and the transitions they share with the scan.  *)

LEMMA TypeCliStart ==
  ASSUME TypeInv, NEW p \in Clis, NEW f \in Files, CliStart(p, f) PROVE TypeInv'
<1>1. p \in Workers /\ LocalType
  BY TypeGroups DEF TypeInv, Workers
<1>2. /\ EnvType' /\ RowType' /\ RowsStay /\ RowsMapped' /\ ImportType'
      /\ LockType' /\ TodoType' /\ SyncType'
  BY Frame DEF CliStart
<1>3. [Blank EXCEPT !.exec = TRUE] \in Local
  BY BlankType DEF Local
<1>4. LocalType' /\ OnlyLocals(p) /\ ShapeOf(p)'
  BY <1>1, <1>3 DEF CliStart, Goto, LocalType, Labels, OnlyLocals, ShapeOf
<1> QED
  BY <1>1, <1>2, <1>4, StepOfWorker

LEMMA TypeResetStart ==
  ASSUME TypeInv, NEW p \in Operators, NEW f \in Files, ResetStart(p, f) PROVE TypeInv'
<1>1. p \in Workers /\ LocalType
  BY TypeGroups DEF TypeInv, Workers
<1>2. /\ EnvType' /\ RowType' /\ RowsStay /\ RowsMapped' /\ ImportType'
      /\ LockType' /\ TodoType' /\ SyncType'
  BY Frame DEF ResetStart
<1>3. LocalType' /\ OnlyLocals(p) /\ ShapeOf(p)'
  BY <1>1 DEF ResetStart, Goto, LocalType, Labels, OnlyLocals, ShapeOf
<1> QED
  BY <1>1, <1>2, <1>3, StepOfWorker

LEMMA TypeTryLock ==
  ASSUME TypeInv, NEW p \in Workers, TryLock(p) PROVE TypeInv'
<1>1. LockType /\ LocalType /\ ShapeOf(p)
  BY TypeGroups DEF TypeInv, Shape
<1>2. /\ EnvType' /\ RowType' /\ RowsStay /\ RowsMapped' /\ ImportType'
      /\ TodoType' /\ SyncType'
  BY Frame DEF TryLock
<1>3. LockType'
  BY <1>1 DEF TryLock, LockType
<1>4. LocalType' /\ OnlyLocals(p) /\ ShapeOf(p)'
  BY <1>1 DEF TryLock, Goto, Keep, LocalType, Labels, OnlyLocals, ShapeOf
<1> QED
  BY <1>2, <1>3, <1>4, StepOfWorker

LEMMA TypeExecRead ==
  ASSUME TypeInv, NEW p \in Workers, ExecRead(p) PROVE TypeInv'
<1>1. RowType /\ LocalType /\ ShapeOf(p) /\ RowsMapped
  BY TypeGroups DEF TypeInv, Shape
<1>2. /\ EnvType' /\ RowType' /\ RowsStay /\ RowsMapped' /\ ImportType'
      /\ LockType' /\ TodoType' /\ SyncType'
  BY Frame DEF ExecRead
<1> DEFINE f == file[p]
           s == [folder |-> meta[f].folder, mtime |-> meta[f].mtime,
                 sha |-> meta[f].sha, family |-> FamilyOf(f)]
           r == [loc[p] EXCEPT !.snap = s]
<1>3. f \in Files
  BY <1>1 DEF ExecRead, ShapeOf
<1>4. CASE status[f] = "READY" /\ mapped[meta[f].folder] /\ ~SameIdentity(f)
  <2>1. meta[f].folder \in Folders
    BY <1>1, <1>3, <1>4 DEF RowsMapped, Absent
  <2>2. FamilyOf(f) \in {"CTI", "TOWN", "HEAVEN"}
    BY <2>1, PipelineAssumption DEF FamilyOf
  <2>3. s \in Snapshot
    BY <1>1, <1>3, <2>1, <2>2 DEF RowType, Snapshot
  <2>4. r \in Local /\ r.snap \in Snapshot
    <3>1. loc[p] \in Local
      BY <1>1 DEF LocalType
    <3> HIDE DEF s
    <3> QED
      BY <2>3, <3>1 DEF Local
  <2>5. SetLoc(p, r) /\ Goto(p, "xlist")
    BY <1>4 DEF ExecRead
  <2> HIDE DEF r
  <2>6. LocalType' /\ OnlyLocals(p) /\ ShapeOf(p)'
    BY <1>1, <1>3, <2>4, <2>5 DEF Goto, SetLoc, LocalType, Labels, OnlyLocals, ShapeOf
  <2> QED
    BY <1>2, <2>6, StepOfWorker
<1>5. CASE ~(status[f] = "READY" /\ mapped[meta[f].folder] /\ ~SameIdentity(f))
  <2>1. Keep /\ Goto(p, "leave")
    BY <1>5 DEF ExecRead
  <2>2. LocalType' /\ OnlyLocals(p) /\ ShapeOf(p)'
    BY <1>1, <2>1 DEF Goto, Keep, LocalType, Labels, OnlyLocals, ShapeOf
  <2> QED
    BY <1>2, <2>2, StepOfWorker
<1> QED
  BY <1>4, <1>5

LEMMA TypeExecList ==
  ASSUME TypeInv, NEW p \in Workers, ExecList(p) PROVE TypeInv'
<1>1. LocalType /\ ShapeOf(p)
  BY TypeGroups DEF TypeInv, Shape
<1>2. /\ EnvType' /\ RowType' /\ RowsStay /\ RowsMapped' /\ ImportType'
      /\ LockType' /\ TodoType' /\ SyncType'
  BY Frame DEF ExecList
<1>3. LocalType' /\ OnlyLocals(p) /\ ShapeOf(p)'
  BY <1>1 DEF ExecList, Goto, Keep, LocalType, Labels, Transitions, OnlyLocals, ShapeOf
<1> QED
  BY <1>2, <1>3, StepOfWorker

LEMMA TypeExecFetch ==
  ASSUME TypeInv, NEW p \in Workers, ExecFetch(p) PROVE TypeInv'
<1>1. EnvType /\ LocalType /\ ShapeOf(p)
  BY TypeGroups DEF TypeInv, Shape
<1>2. /\ EnvType' /\ RowType' /\ RowsStay /\ RowsMapped' /\ ImportType'
      /\ LockType' /\ TodoType' /\ SyncType'
  BY Frame DEF ExecFetch
<1> DEFINE r == [loc[p] EXCEPT !.got = drive[file[p]].content]
<1>3. file[p] \in Files /\ loc[p].snap \in Snapshot /\ loc[p] \in Local
  BY <1>1 DEF ExecFetch, ShapeOf, LocalType
<1>4. r \in Local /\ r.got \in Contents /\ r.snap = loc[p].snap
  BY <1>1, <1>3 DEF EnvType, Local
<1>5. \/ SetLoc(p, r) /\ Goto(p, IF loc[p].snap.family = "CTI" THEN "xpreview" ELSE "xdup")
      \/ Keep /\ Goto(p, "failCount")
  BY DEF ExecFetch
<1> HIDE DEF r
<1>6. LocalType' /\ OnlyLocals(p) /\ ShapeOf(p)'
  BY <1>1, <1>3, <1>4, <1>5 DEF Goto, Keep, SetLoc, LocalType, Labels, OnlyLocals, ShapeOf
<1> QED
  BY <1>2, <1>6, StepOfWorker

LEMMA TypeExecDuplicate ==
  ASSUME TypeInv, NEW p \in Workers, ExecDuplicate(p) PROVE TypeInv'
<1>1. LocalType /\ ShapeOf(p)
  BY TypeGroups DEF TypeInv, Shape
<1>2. /\ EnvType' /\ RowType' /\ RowsStay /\ RowsMapped' /\ ImportType'
      /\ LockType' /\ TodoType' /\ SyncType'
  BY Frame DEF ExecDuplicate
<1>3. LocalType' /\ OnlyLocals(p) /\ ShapeOf(p)'
  BY <1>1 DEF ExecDuplicate, Goto, Keep, LocalType, Labels, Transitions, OnlyLocals, ShapeOf
<1> QED
  BY <1>2, <1>3, StepOfWorker

LEMMA TypeExecFind ==
  ASSUME TypeInv, NEW p \in Workers, ExecFind(p) PROVE TypeInv'
<1>1. LocalType /\ ShapeOf(p)
  BY TypeGroups DEF TypeInv, Shape
<1>2. /\ EnvType' /\ RowType' /\ RowsStay /\ RowsMapped' /\ ImportType'
      /\ LockType' /\ TodoType' /\ SyncType'
  BY Frame DEF ExecFind
<1> DEFINE linked(b) == [loc[p] EXCEPT !.batch = b]
<1>3. file[p] \in Files /\ loc[p].got \in Contents /\ loc[p] \in Local
  BY <1>1 DEF ExecFind, ShapeOf, LocalType
<1>4. \A b \in BatchIds : linked(b) \in Local
  BY <1>3 DEF Local
<1>5. \A g, c : Reusable(g, c) \subseteq BatchIds
  BY DEF Reusable, Matching
<1>6. \/ \E b \in BatchIds : SetLoc(p, linked(b)) /\ Goto(p, "toReview")
      \/ Goto(p, "xpreview") /\ Keep
  BY <1>5 DEF ExecFind
<1> HIDE DEF linked
<1>7. LocalType' /\ OnlyLocals(p) /\ ShapeOf(p)'
  BY <1>1, <1>3, <1>4, <1>6 DEF ExecFind, Goto, Keep, SetLoc, LocalType, Labels, Transitions,
                                OnlyLocals, ShapeOf
<1> QED
  BY <1>2, <1>7, StepOfWorker

LEMMA TypeExecPreview ==
  ASSUME TypeInv, NEW p \in Workers, ExecPreview(p) PROVE TypeInv'
<1>1. ImportType /\ LocalType /\ ShapeOf(p)
  BY TypeGroups DEF TypeInv, Shape
<1>2. /\ EnvType' /\ RowType' /\ RowsStay /\ RowsMapped'
      /\ LockType' /\ TodoType' /\ SyncType'
  BY Frame DEF ExecPreview
<1>3. /\ file[p] \in Files /\ loc[p].snap \in Snapshot
      /\ loc[p].got \in Contents /\ loc[p] \in Local
  BY <1>1 DEF ExecPreview, ShapeOf, LocalType
<1> DEFINE new == [file |-> file[p], mtime |-> loc[p].snap.mtime, sha |-> loc[p].got,
                   family |-> loc[p].snap.family, status |-> "PREVIEW"]
           linked(b) == [loc[p] EXCEPT !.batch = b]
<1>4. new \in Batch
  BY <1>3 DEF Batch, Snapshot
<1>5. \A b \in BatchIds : linked(b) \in Local
  BY <1>3 DEF Local
<1>7. \/ \E b \in BatchIds : /\ SetLoc(p, linked(b)) /\ Goto(p, "toReview")
                             /\ batches' = [batches EXCEPT ![b] = new]
      \/ Goto(p, "failCount") /\ Keep /\ UNCHANGED batches
  BY DEF ExecPreview
<1> HIDE DEF new, linked
<1>8. ImportType'
  BY <1>1, <1>4, <1>7 DEF ExecPreview, ImportType
<1>9. LocalType' /\ OnlyLocals(p) /\ ShapeOf(p)'
  BY <1>1, <1>3, <1>5, <1>7 DEF Goto, Keep, SetLoc, LocalType, Labels, Transitions,
                                OnlyLocals, ShapeOf
<1> QED
  BY <1>2, <1>8, <1>9, StepOfWorker

LEMMA TypeResetRead ==
  ASSUME TypeInv, NEW p \in Workers, ResetRead(p) PROVE TypeInv'
<1>1. LocalType /\ ShapeOf(p)
  BY TypeGroups DEF TypeInv, Shape
<1>2. /\ EnvType' /\ RowType' /\ RowsStay /\ RowsMapped' /\ ImportType'
      /\ LockType' /\ TodoType' /\ SyncType'
  BY Frame DEF ResetRead
<1>3. LocalType' /\ OnlyLocals(p) /\ ShapeOf(p)'
  BY <1>1 DEF ResetRead, Goto, Keep, LocalType, Labels, Transitions, OnlyLocals, ShapeOf
<1> QED
  BY <1>2, <1>3, StepOfWorker

LEMMA TypeTransitionRead ==
  ASSUME TypeInv, NEW p \in Workers, TransitionRead(p) PROVE TypeInv'
<1>1. LocalType /\ ShapeOf(p)
  BY TypeGroups DEF TypeInv, Shape
<1>2. /\ EnvType' /\ RowType' /\ RowsStay /\ RowsMapped' /\ ImportType'
      /\ LockType' /\ TodoType' /\ SyncType'
  BY Frame DEF TransitionRead
<1>3. pc[p] \in Transitions /\ file[p] \in Files
  BY <1>1 DEF TransitionRead, Transitions, ShapeOf
<1>4. CASE CanTransition(status[file[p]], Target(p))
  <2>1. /\ saw' = [saw EXCEPT ![p] = status[file[p]]]
        /\ to' = [to EXCEPT ![p] = Target(p)]
        /\ step' = [step EXCEPT ![p] = pc[p]]
        /\ Goto(p, "store") /\ UNCHANGED <<file, loc>>
    BY <1>4 DEF TransitionRead
  <2>2. status[file[p]] \in Statuses \ {Absent} /\ Target(p) \in Statuses
    BY <1>4 DEF CanTransition, AllowedTransitions, Statuses, Absent
  <2>3. LocalType' /\ OnlyLocals(p)
    BY <1>1, <1>3, <2>1, <2>2 DEF Goto, LocalType, Labels, Steps, OnlyLocals
  <2>4. status' = status
    BY DEF TransitionRead, row
  <2>5. ShapeOf(p)'
    BY <1>1, <1>3, <2>1, <2>2, <2>4 DEF Goto, LocalType, ShapeOf
  <2> QED
    BY <1>2, <2>3, <2>5, StepOfWorker
<1>5. CASE ~CanTransition(status[file[p]], Target(p))
  <2>1. Goto(p, Caught(p)) /\ Keep
    BY <1>5 DEF TransitionRead
  <2>2. Caught(p) \in {"failCount", "leave"}
    BY DEF Caught
  <2>3. LocalType' /\ OnlyLocals(p) /\ ShapeOf(p)'
    BY <1>1, <1>3, <2>1, <2>2 DEF Goto, Keep, LocalType, Labels, OnlyLocals, ShapeOf
  <2> QED
    BY <1>2, <2>3, StepOfWorker
<1> QED
  BY <1>4, <1>5

LEMMA TypeStore ==
  ASSUME TypeInv, NEW p \in Workers, Store(p) PROVE TypeInv'
<1>1. RowType /\ LocalType /\ ShapeOf(p) /\ RowsMapped
  BY TypeGroups DEF TypeInv, Shape
<1>2. EnvType' /\ ImportType' /\ LockType' /\ TodoType' /\ SyncType'
  BY Frame DEF Store
<1>3. /\ file[p] \in Files /\ to[p] \in Statuses /\ step[p] \in Transitions
      /\ status[file[p]] # Absent /\ loc[p] \in Local
  BY <1>1 DEF Store, ShapeOf, LocalType
<1>4. status' \in [Files -> Statuses \cup {Absent}]
  BY <1>1, <1>3 DEF Store, RowType
<1>5. /\ meta' \in [Files -> [folder: Folders \cup {None}, name: Names \cup {None},
                              mtime: 0..MaxEdits, sha: Contents \cup {None}]]
      /\ \A f \in Files : meta'[f].folder = meta[f].folder
  <2> DEFINE m == [meta[file[p]] EXCEPT !.sha = loc[p].got]
  <2>0. loc[p].got \in Contents \cup {None}
    BY <1>3 DEF Local
  <2>1. /\ m \in [folder: Folders \cup {None}, name: Names \cup {None},
                  mtime: 0..MaxEdits, sha: Contents \cup {None}]
        /\ m.folder = meta[file[p]].folder
    <3>1. meta[file[p]] \in [folder: Folders \cup {None}, name: Names \cup {None},
                             mtime: 0..MaxEdits, sha: Contents \cup {None}]
      BY <1>1, <1>3 DEF RowType
    <3> QED
      BY <2>0, <3>1
  <2>2. meta' = meta \/ meta' = [meta EXCEPT ![file[p]] = m]
    BY DEF Store
  <2> HIDE DEF m
  <2> QED
    BY <1>1, <1>3, <2>1, <2>2, ZenonT(60) DEF RowType
<1>6. link' \in [Files -> [last: BatchIds \cup {None}, ok: BatchIds \cup {None}]]
  BY <1>1, <1>3, ZenonT(60) DEF Store, RowType, Local
<1>7. retry' \in [Files -> [count: 0..(MaxRetry + 1), due: BOOLEAN]]
  BY <1>1, <1>3, ZenonT(60) DEF Store, RowType, Local
<1>8. RowType'
  BY <1>4, <1>5, <1>6, <1>7 DEF RowType
<1>9. RowsStay /\ RowsMapped'
  BY <1>1, <1>3, <1>5 DEF Store, RowType, RowsStay, RowsMapped, Statuses, Absent
<1>10. After(p) \in {"toDownloading", "fetch", "dispatch", "xfetch", "xfind", "xpreview", "leave"}
  BY DEF After
<1>11. LocalType' /\ OnlyLocals(p)
  BY <1>1, <1>10 DEF Store, Goto, Keep, LocalType, Labels, Transitions, OnlyLocals
<1>12. After(p) \in {"xfetch", "xfind", "xpreview"} =>
         /\ step[p] = "toImporting"
         /\ After(p) \in {"xfind", "xpreview"} => loc[p].snap.family # "CTI"
  BY DEF After
<1>13. ShapeOf(p)'
  BY <1>1, <1>3, <1>10, <1>12 DEF Store, Goto, Keep, LocalType, ShapeOf
<1> QED
  BY <1>2, <1>8, <1>9, <1>11, <1>13, StepOfWorker

LEMMA TypeFailCount ==
  ASSUME TypeInv, NEW p \in Workers, FailCount(p) PROVE TypeInv'
<1>1. RowType /\ LocalType /\ ShapeOf(p)
  BY TypeGroups DEF TypeInv, Shape
<1>2. /\ EnvType' /\ RowType' /\ RowsStay /\ RowsMapped' /\ ImportType'
      /\ LockType' /\ TodoType' /\ SyncType'
  BY Frame DEF FailCount
<1>3. file[p] \in Files /\ loc[p] \in Local
  BY <1>1 DEF FailCount, ShapeOf, LocalType
<1>4. CountFailure(retry[file[p]].count) \in 0..(MaxRetry + 1)
  BY <1>1, <1>3, MaxRetryAssumption DEF RowType, CountFailure
<1>5. [loc[p] EXCEPT !.count = CountFailure(retry[file[p]].count)] \in Local
  BY <1>3, <1>4 DEF Local
<1>6. LocalType' /\ OnlyLocals(p) /\ ShapeOf(p)'
  BY <1>1, <1>3, <1>5 DEF FailCount, Goto, SetLoc, LocalType, Labels, Transitions,
                          OnlyLocals, ShapeOf
<1> QED
  BY <1>2, <1>6, StepOfWorker

LEMMA TypeLeave ==
  ASSUME TypeInv, NEW p \in Workers, Leave(p) PROVE TypeInv'
<1>1. LockType /\ LocalType
  BY TypeGroups DEF TypeInv
<1>2. /\ EnvType' /\ RowType' /\ RowsStay /\ RowsMapped' /\ ImportType'
      /\ TodoType' /\ SyncType'
  BY Frame DEF Leave
<1>3. LockType'
  BY <1>1 DEF Leave, LockType
<1>4. LocalType' /\ OnlyLocals(p) /\ ShapeOf(p)'
  BY <1>1, BlankType DEF Leave, Goto, LocalType, Labels, Steps, OnlyLocals, ShapeOf
<1> QED
  BY <1>2, <1>3, <1>4, StepOfWorker

LEMMA TypeCrash ==
  ASSUME TypeInv, NEW p \in Workers, Crash(p) PROVE TypeInv'
<1>1. LockType /\ LocalType /\ TodoType
  BY TypeGroups DEF TypeInv
<1>2. EnvType' /\ RowType' /\ RowsStay /\ RowsMapped' /\ ImportType' /\ SyncType'
  BY Frame DEF Crash
<1>3. LockType'
  BY <1>1 DEF Crash, Unlock, LockType
<1>4. TodoType'
  BY <1>1 DEF Crash, TodoType
<1>5. LocalType' /\ OnlyLocals(p) /\ ShapeOf(p)'
  BY <1>1, BlankType DEF Crash, Goto, LocalType, Labels, Steps, OnlyLocals, ShapeOf
<1> QED
  BY <1>2, <1>3, <1>4, <1>5, StepOfWorker

-----------------------------------------------------------------------------
(* Confirmation, synchronisation and the environment. *)

LEMMA TypeConfirm ==
  ASSUME TypeInv, NEW b \in BatchIds, Confirm(b) PROVE TypeInv'
<1>1. ImportType /\ SyncType
  BY TypeGroups DEF TypeInv
<1>2. /\ EnvType' /\ RowType' /\ RowsStay /\ RowsMapped'
      /\ LockType' /\ TodoType' /\ UNCHANGED local
  BY Frame DEF Confirm
<1>3. batches[b] \in Batch
  BY <1>1 DEF Confirm, ImportType
<1>4. \E s \in {"CANCELLED", "COMPLETED", "COMPLETED_WITH_WARNINGS"} :
        batches' = [batches EXCEPT ![b].status = s]
  BY DEF Confirm, Completed
<1>5. ImportType'
  BY <1>1, <1>3, <1>4 DEF Confirm, ImportType, Batch, Completed
<1>6. SyncType'
  BY <1>1 DEF Confirm, SyncType
<1> QED
  BY <1>2, <1>5, <1>6, StepOfOther

LEMMA TypeReopen ==
  ASSUME TypeInv, NEW b \in BatchIds, Reopen(b) PROVE TypeInv'
<1>1. ImportType
  BY TypeGroups DEF TypeInv
<1>2. /\ EnvType' /\ RowType' /\ RowsStay /\ RowsMapped' /\ LockType'
      /\ TodoType' /\ SyncType' /\ UNCHANGED local
  BY Frame DEF Reopen
<1>3. ImportType'
  BY <1>1 DEF Reopen, ImportType, Batch, Completed
<1> QED
  BY <1>2, <1>3, StepOfOther

LEMMA TypeSync ==
  ASSUME TypeInv, NEW b \in BatchIds, Sync(b) \/ SyncCrash(b) PROVE TypeInv'
<1>1. RowType /\ LockType /\ SyncType /\ RowsMapped
  BY TypeGroups DEF TypeInv, Shape
<1>2. EnvType' /\ ImportType' /\ TodoType' /\ UNCHANGED local
  BY Frame DEF Sync, SyncRead, SyncLock, SyncFind, SyncWrite, SyncCrash
<1>3. LockType'
  BY <1>1 DEF Sync, SyncRead, SyncLock, SyncFind, SyncWrite, SyncCrash, Unlock, LockType, locks
<1>4. SyncType'
  BY <1>1 DEF Sync, SyncRead, SyncLock, SyncFind, SyncWrite, SyncCrash, SyncDone, SyncType
<1>5. CASE ~SyncWrite(b)
  BY <1>2, <1>3, <1>4, <1>5, Frame, StepOfOther DEF Sync, SyncRead, SyncLock, SyncFind, SyncCrash
<1>6. CASE SyncWrite(b)
  <2>1. status' \in [Files -> Statuses \cup {Absent}]
    BY <1>1, <1>6 DEF SyncWrite, RowType, Statuses
  <2>2. link' \in [Files -> [last: BatchIds \cup {None}, ok: BatchIds \cup {None}]]
    <3> DEFINE l == [link[syncs[b].file] EXCEPT !.ok = b]
    <3>1. link' = link \/ link' = [link EXCEPT ![syncs[b].file] = l]
      BY <1>6 DEF SyncWrite
    <3>2. syncs[b].file \in Files => l \in [last: BatchIds \cup {None}, ok: BatchIds \cup {None}]
      BY <1>1 DEF RowType
    <3> HIDE DEF l
    <3> QED
      BY <1>1, <3>1, <3>2 DEF RowType
  <2>3. retry' \in [Files -> [count: 0..(MaxRetry + 1), due: BOOLEAN]]
    <3> DEFINE r == [retry[syncs[b].file] EXCEPT !.due = TRUE]
    <3>1. retry' = retry \/ retry' = [retry EXCEPT ![syncs[b].file] = r]
      BY <1>6 DEF SyncWrite
    <3>2. syncs[b].file \in Files => r \in [count: 0..(MaxRetry + 1), due: BOOLEAN]
      BY <1>1 DEF RowType
    <3> HIDE DEF r
    <3> QED
      BY <1>1, <3>1, <3>2 DEF RowType
  <2>4. RowType'
    BY <1>1, <1>6, <2>1, <2>2, <2>3 DEF SyncWrite, RowType
  <2>5. RowsStay /\ RowsMapped'
    BY <1>1, <1>6 DEF SyncWrite, RowType, RowsStay, RowsMapped, Absent
  <2> QED
    BY <1>2, <1>3, <1>4, <2>4, <2>5, StepOfOther
<1> QED
  BY <1>5, <1>6

LEMMA TypeDrive ==
  ASSUME TypeInv, NEW f \in Files, DriveEdit(f) \/ DriveMove(f) \/ DriveRename(f)
  PROVE  TypeInv'
<1>1. EnvType
  BY TypeGroups DEF TypeInv
<1>2. /\ RowType' /\ RowsStay /\ RowsMapped' /\ ImportType' /\ LockType'
      /\ TodoType' /\ SyncType' /\ UNCHANGED local
  BY Frame DEF DriveEdit, DriveMove, DriveRename
<1>3. EnvType'
  BY <1>1, PipelineAssumption DEF DriveEdit, DriveMove, DriveRename, EnvType
<1> QED
  BY <1>2, <1>3, StepOfOther

LEMMA TypeSetMapping ==
  ASSUME TypeInv, NEW g \in Folders, SetMapping(g) PROVE TypeInv'
<1>1. EnvType
  BY TypeGroups DEF TypeInv
<1>2. /\ RowType' /\ RowsStay /\ RowsMapped' /\ ImportType' /\ LockType'
      /\ TodoType' /\ SyncType' /\ UNCHANGED local
  BY Frame DEF SetMapping
<1>3. EnvType'
  BY <1>1 DEF SetMapping, EnvType
<1> QED
  BY <1>2, <1>3, StepOfOther

LEMMA TypeRetryDue ==
  ASSUME TypeInv, NEW f \in Files, RetryDue(f) PROVE TypeInv'
<1>1. RowType /\ RowsMapped
  BY TypeGroups DEF TypeInv, Shape
<1>2. EnvType' /\ ImportType' /\ LockType' /\ TodoType' /\ SyncType' /\ UNCHANGED local
  BY Frame DEF RetryDue
<1>3. RowType' /\ RowsStay /\ RowsMapped'
  BY <1>1 DEF RetryDue, RowType, RowsStay, RowsMapped
<1> QED
  BY <1>2, <1>3, StepOfOther

LEMMA TypeStutter == TypeInv /\ UNCHANGED vars => TypeInv'
BY Frame, StepOfOther DEF vars

LEMMA TypeNext == TypeInv /\ [Next]_vars => TypeInv'
<1> SUFFICES ASSUME TypeInv, [Next]_vars PROVE TypeInv'
  OBVIOUS
<1>1. ASSUME NEW p \in Pollers, Scan(p) PROVE TypeInv'
  BY <1>1, TypePollStart, TypeListFolder, TypePollEnd, TypePickFile, TypeEnterFile,
     TypeUpsertRead, TypeUpsertWrite, TypeFetch, TypeDispatch DEF Scan
<1>2. ASSUME NEW p \in Workers, Work(p) PROVE TypeInv'
  BY <1>2, TypeTryLock, TypeExecRead, TypeExecList, TypeExecFetch, TypeExecDuplicate, TypeExecFind,
     TypeExecPreview, TypeResetRead, TypeTransitionRead, TypeStore, TypeFailCount,
     TypeLeave DEF Work
<1>3. ASSUME NEW b \in BatchIds, Sync(b) \/ SyncCrash(b) PROVE TypeInv'
  BY <1>3, TypeSync
<1>4. ASSUME Human PROVE TypeInv'
  BY <1>4, TypeCliStart, TypeResetStart, TypeConfirm, TypeReopen, TypeDrive,
     TypeSetMapping DEF Human
<1>5. ASSUME NEW f \in Files, RetryDue(f) PROVE TypeInv'
  BY <1>5, TypeRetryDue
<1>6. ASSUME NEW p \in Workers, Crash(p) PROVE TypeInv'
  BY <1>6, TypeCrash
<1>7. CASE UNCHANGED vars
  BY <1>7, TypeStutter
<1> QED
  BY <1>1, <1>2, <1>3, <1>4, <1>5, <1>6, <1>7 DEF Next, Failures

(* In every reachable state each variable has its type, and each process   *)
(* holds what the code it is about to run needs: the listing it records,   *)
(* the snapshot and the bytes a preview is made from.                      *)
THEOREM TypeCorrect == Spec => []TypeInv
BY TypeInit, TypeNext, PTL DEF Spec

THEOREM TypesHold == Spec => []TypeOK
<1>1. TypeInv => TypeOK
  BY DEF TypeInv
<1> QED
  BY <1>1, TypeCorrect, PTL

=============================================================================
