------------------------------ MODULE HistoryProofs ------------------------------
(***************************************************************************)
(* What becomes of contents and of version history: theorems about         *)
(* VersionedDrive, for every set of paths, every number of kept versions   *)
(* and every bound.                                                        *)
(***************************************************************************)
EXTENDS VersionedDriveProofs, WellFoundedInduction

-----------------------------------------------------------------------------
(* Two steps with alternatives                                               *)

\* A transaction is done or not.
LEMMA AllOrNothing ==
    ASSUME NEW S, NEW X \in Committed(S)
    PROVE  X = {} \/ X = S
  BY DEF Committed

\* OpenVersion fails, or the version is about to be written where nothing is, or
\* over a file of which a snapshot has just been taken.
LEMMA OpenFacts ==
    ASSUME Good, VersionRestoreOpen
    PROVE  /\ op.pc = "vr_open" /\ op.path \in Path
           /\ UNCHANGED <<live, payload, sidecar, expired, rows, jan, crashes, stuck>>
           /\ next'.tid = next.tid /\ next.vid \in Nat /\ next'.vid \in Nat
           /\ next.vid <= next'.vid
           /\ \/ op' = Idle /\ blobs' = blobs
              \/ /\ op'.pc = "vr_commit" /\ op'.dest = op.path /\ live[op.path] = Absent
                 /\ blobs' = blobs /\ op'.snap = op.snap /\ op'.metas = op.metas
              \/ /\ op'.pc = "vr_commit" /\ op'.dest = op.path /\ live[op.path] # Absent
                 /\ op'.file.item = live[op.path].item /\ next.vid < next'.vid
                 /\ blobs' = blobs \cup Snapshot(op.path) /\ op'.snap = Snapshot(op.path)
                 /\ op'.metas = op.metas
  <1>1. PICK v \in op.refs :
          LET p == op.path
              Write(item) == [op EXCEPT !.pc = "vr_commit", !.dest = p,
                                        !.file = [item |-> item, data |-> v.file.data]]
          IN \/ op' = Idle /\ UNCHANGED <<blobs, next>>
             \/ /\ live[p] = Absent /\ op' = Write(next.item)
                /\ next' = [next EXCEPT !.item = @ + 1] /\ blobs' = blobs
             \/ /\ live[p] # Absent /\ blobs' = blobs \cup Snapshot(p)
                /\ op' = [Write(live[p].item) EXCEPT !.snap = Snapshot(p)]
                /\ next' = [next EXCEPT !.vid = @ + 1]
      BY DEF VersionRestoreOpen
  <1>2. /\ op.pc = "vr_open" /\ op.path \in Path /\ op \in Handler /\ next \in Counters
        /\ UNCHANGED <<live, payload, sidecar, expired, rows, jan, crashes, stuck>>
      BY DEF VersionRestoreOpen, Good, TypeOK, InFlight
  <1>3. next.vid \in Nat /\ next.item \in Nat
      BY <1>2 DEF Counters
  <1>4. CASE op' = Idle /\ UNCHANGED <<blobs, next>>
      BY <1>2, <1>3, <1>4
  <1>5. CASE /\ live[op.path] = Absent
             /\ op' = [op EXCEPT !.pc = "vr_commit", !.dest = op.path,
                                 !.file = [item |-> next.item, data |-> v.file.data]]
             /\ next' = [next EXCEPT !.item = @ + 1] /\ blobs' = blobs
      BY <1>2, <1>3, <1>5 DEF Handler, Counters
  <1>6. CASE /\ live[op.path] # Absent /\ blobs' = blobs \cup Snapshot(op.path)
             /\ op' = [[op EXCEPT !.pc = "vr_commit", !.dest = op.path,
                           !.file = [item |-> live[op.path].item, data |-> v.file.data]]
                         EXCEPT !.snap = Snapshot(op.path)]
             /\ next' = [next EXCEPT !.vid = @ + 1]
    <2> DEFINE h == [op EXCEPT !.pc = "vr_commit", !.dest = op.path,
                           !.file = [item |-> live[op.path].item, data |-> v.file.data]]
    <2>1. /\ DOMAIN h = DOMAIN op /\ h.pc = "vr_commit" /\ h.dest = op.path
          /\ h.file.item = live[op.path].item /\ h.metas = op.metas
        BY <1>2 DEF Handler
    <2>2. op' = [h EXCEPT !.snap = Snapshot(op.path)]
        BY <1>6
    <2> HIDE DEF h
    <2>3. /\ op'.pc = "vr_commit" /\ op'.dest = op.path /\ op'.metas = op.metas
          /\ op'.file.item = live[op.path].item /\ op'.snap = Snapshot(op.path)
        BY <1>2, <2>1, <2>2 DEF Handler
    <2>4. next'.tid = next.tid /\ next'.vid = next.vid + 1
        BY <1>2, <1>6 DEF Counters
    <2> QED
        BY <1>2, <1>3, <1>6, <2>3, <2>4
  <1> QED
      BY <1>1, <1>4, <1>5, <1>6

\* A purge goes from item to item.
LEMMA PurgeStepPC ==
    ASSUME Good, PurgeRows \/ PurgeBlobs \/ PurgeDir
    PROVE  /\ op'.pc \in {"idle", "pg_rows", "pg_blobs", "pg_dir"}
           /\ op'.metas \subseteq op.metas /\ op'.snap \subseteq op.snap
  <1>1. \A M : NextMeta(M).pc \in {"idle", "pg_rows"} /\ NextMeta(M).metas = M
               /\ NextMeta(M).snap = {}
      BY DEF NextMeta, Idle
  <1>2. op \in Handler
      BY DEF Good, TypeOK
  <1>3. CASE PurgeBlobs \/ PurgeDir
      BY <1>1, <1>3 DEF PurgeBlobs, PurgeDir
  <1>4. CASE PurgeRows
    <2>1. PICK m \in op.metas, pc \in {"pg_blobs", "pg_dir"} :
            \/ op' = NextMeta(op.metas \ {m})
            \/ op' = [op EXCEPT !.pc = pc, !.refs = m.refs, !.path = m.orig,
                                !.metas = op.metas \ {m}]
      <3>1. PICK m \in op.metas :
              \E gone \in Committed(IF m.refs # {} THEN rows \cap m.refs ELSE RowsAt(m.orig)) :
                 op' = IF gone = {} THEN NextMeta(op.metas \ {m})
                       ELSE [op EXCEPT !.pc = IF m.refs # {} THEN "pg_blobs" ELSE "pg_dir",
                                       !.refs = m.refs, !.path = m.orig,
                                       !.metas = op.metas \ {m}]
          BY <1>4 DEF PurgeRows
      <3> QED
          BY <3>1
    <2>2. CASE op' = NextMeta(op.metas \ {m})
        BY <1>1, <2>2
    <2>3. CASE op' = [op EXCEPT !.pc = pc, !.refs = m.refs, !.path = m.orig,
                                !.metas = op.metas \ {m}]
        BY <1>2, <2>3 DEF Handler
    <2> QED
        BY <2>1, <2>2, <2>3
  <1> QED
      BY <1>3, <1>4

\* The janitor's steps but for those on payloads and sidecars.
LEMMA JanitorFrame ==
    ASSUME Good, JanitorStep
    PROVE  /\ UNCHANGED <<live, expired, op, next, crashes>>
           /\ JanitorRemove \/ (payload' = payload /\ jan'.pc # "unlink")
           /\ JanitorUnlink \/ sidecar' = sidecar
           /\ (\E t \in jan.list : JanitorRead(t)) \/ jan'.pc # "remove"
  <1>1. jan \in Janitor
      BY DEF Good, TypeOK
  <1>2. CASE JanitorStart \/ JanitorScanDone \/ JanitorSelect \/ JanitorPruneFail
    <2>1. UNCHANGED <<disk, op, next, crashes, stuck>>
        BY <1>2 DEF JanitorStart, JanitorScanDone, JanitorSelect, JanitorPruneFail
    <2>2. jan'.pc \in {"scan", "purge_rows", "idle", "del_rows"}
      <3>1. CASE JanitorStart
          BY <3>1 DEF JanitorStart, JIdle
      <3>2. CASE JanitorScanDone
          BY <1>1, <3>2 DEF JanitorScanDone, Janitor
      <3>3. CASE JanitorSelect
          BY <3>3 DEF JanitorSelect, JIdle
      <3>4. CASE JanitorPruneFail
          BY <3>4 DEF JanitorPruneFail, JIdle
      <3> QED
          BY <1>2, <3>1, <3>2, <3>3, <3>4
    <2> QED
        BY <2>1, <2>2 DEF disk
  <1>3. CASE JanitorRemove \/ JanitorUnlink \/ JanitorPurgeDir
    <2>1. jan'.pc \in {"scan", "purge_rows"} \/ (JanitorRemove /\ jan'.pc = "unlink")
        BY <1>1, <1>3 DEF JanitorRemove, JanitorUnlink, JanitorPurgeDir, Janitor
    <2> QED
        BY <1>3, <2>1 DEF JanitorRemove, JanitorUnlink, JanitorPurgeDir
  <1>4. CASE \E t \in jan.list : JanitorRead(t)
      BY <1>1, <1>4 DEF JanitorRead, disk, Janitor
  <1>5. CASE \E m \in jan.todo : JanitorPurgeRows(m)
      BY <1>1, <1>5 DEF JanitorPurgeRows, Janitor
  <1>6. CASE \E v \in jan.sel : JanitorDeleteRow(v)
      BY <1>1, <1>6 DEF JanitorDeleteRow, Janitor
  <1>7. CASE \E v \in jan.gone : JanitorPruneBlob(v)
      BY <1>1, <1>7 DEF JanitorPruneBlob, JIdle, Janitor
  <1> QED
      BY <1>2, <1>3, <1>4, <1>5, <1>6, <1>7 DEF JanitorStep

-----------------------------------------------------------------------------
(* What a purge takes                                                        *)

\* An entry is unlisted only once its payload is gone, or while the whole trash is
\* being emptied; an id that is yet to be published is not the janitor's.
Purgeable ==
    /\ \A t \in TrashId : t >= next.tid => ~Listed(t)
    /\ op.pc \in {"del_move", "del_publish"} => ~Listed(op.tid)
    /\ op.pc = "pg_unlink" => op.tid \in TrashId
    /\ op.pc \in {"rs_unlink", "pg_unlink"} => payload[op.tid] = Absent
    /\ jan.pc \in {"remove", "unlink"} =>
         /\ jan.tid \in TrashId /\ jan.tid < next.tid
         /\ op.pc \in {"del_move", "del_publish"} => jan.tid # op.tid
    /\ jan.pc = "remove" /\ payload[jan.tid] # Absent => Listed(jan.tid) \/ op.pc = "em_remove"

\* Steps that list and unlist nothing and start no deletion, restore or purge.
LEMMA PurgeableFrame ==
    ASSUME Good, Purgeable, UNCHANGED <<sidecar, jan>>, next'.tid = next.tid,
           \A t \in TrashId : payload'[t] \in {payload[t], Absent},
           op'.pc \notin {"del_move", "del_publish", "rs_unlink", "pg_unlink"},
           op.pc # "em_remove"
    PROVE  Purgeable'
  BY DEF Purgeable, Listed

LEMMA RequestPurgeable ==
    ASSUME Good, Purgeable, Request
    PROVE  Purgeable'
  <1>1. op.pc = "idle"
      BY DEF Request, UploadFresh, UploadOver, Move, Copy, DeleteBegin, VersionRestoreBegin,
             RestoreBegin, PurgeBegin, EmptyBegin, Accepting
  <1>2. CASE \E t \in TrashId : PurgeBegin(t)
    <2>1. PICK t \in TrashId : PurgeBegin(t)
        BY <1>2
    <2>2. /\ op'.pc = "pg_unlink" /\ op'.tid = t /\ payload'[t] = Absent
          /\ \A u \in TrashId : payload'[u] \in {payload[u], Absent}
          /\ UNCHANGED <<sidecar, jan, next>>
        BY <2>1 DEF PurgeBegin, Idle, Good, TypeOK
    <2> QED
        BY <1>1, <2>2 DEF Purgeable, Listed
  <1>3. CASE \E p \in Path : DeleteBegin(p)
    <2>1. /\ op'.pc = "del_move" /\ op'.tid = next.tid /\ next'.tid = next.tid + 1
          /\ next.tid <= MaxTrash /\ next.tid \in Nat \ {0}
          /\ UNCHANGED <<payload, sidecar, jan>>
        BY <1>3 DEF DeleteBegin, Idle, disk, Good, TypeOK, Counters
    <2>2. next.tid \in TrashId /\ next.tid >= next.tid
        BY <2>1, BoundAssumption DEF BoundAssumption, TrashId
    <2>3. \A t \in TrashId : t >= next'.tid => t >= next.tid
        BY <2>1 DEF TrashId
    <2>4. jan.pc \in {"remove", "unlink"} => jan.tid # next.tid /\ jan.tid < next'.tid
        BY <2>1 DEF Purgeable, TrashId
    <2> QED
        BY <1>1, <2>1, <2>2, <2>3, <2>4 DEF Purgeable, Listed
  <1>4. CASE ~(\E t \in TrashId : PurgeBegin(t)) /\ ~(\E p \in Path : DeleteBegin(p))
    <2>1. /\ op'.pc \in {"idle", "up_commit", "vr_open", "vr_index", "mv_rows", "rs_move", "em_remove"}
          /\ next'.tid = next.tid /\ UNCHANGED <<payload, sidecar, jan>>
      <3>0. next \in Counters
          BY DEF Good, TypeOK
      <3>1. CASE \E p, q \in Path : UploadFresh(p, q) \/ Move(p, q) \/ Copy(p, q)
          BY <1>1, <3>0, <3>1 DEF UploadFresh, Move, Copy, Idle, disk, Counters
      <3>2. CASE \/ \E p \in Path : UploadOver(p)
                 \/ \E v \in rows : VersionRestoreBegin(v)
          BY <1>1, <3>0, <3>2 DEF UploadOver, VersionRestoreBegin, Idle, disk, Counters
      <3>3. CASE \/ \E t \in TrashId : RestoreBegin(t)
                 \/ EmptyBegin
          BY <1>1, <3>0, <3>3 DEF RestoreBegin, EmptyBegin, Idle, disk, Counters
      <3> QED
          BY <1>4, <3>1, <3>2, <3>3 DEF Request
    <2> QED
        BY <1>1, <2>1, PurgeableFrame
  <1> QED
      BY <1>2, <1>3, <1>4

LEMMA HandlerPurgeable ==
    ASSUME Good, Purgeable, HandlerStep
    PROVE  Purgeable'
  <1>1. CASE DeleteMove
    <2>1. /\ op.pc = "del_move" /\ op'.pc = "del_publish" /\ op'.tid = op.tid
          /\ \A t \in TrashId : t # op.tid => payload'[t] = payload[t]
          /\ UNCHANGED <<sidecar, jan, next>>
        BY <1>1 DEF DeleteMove, Good, TypeOK, Handler
    <2> QED
        BY <2>1 DEF Purgeable, Listed
  <1>2. CASE DeletePublish
    <2>1. /\ op.pc = "del_publish" /\ op.tid \in TrashId /\ op.tid < next.tid /\ op'.pc = "idle"
          /\ \A t \in TrashId : t # op.tid => sidecar'[t] = sidecar[t]
          /\ UNCHANGED <<payload, jan, next>>
        BY <1>2 DEF DeletePublish, Idle, Good, TypeOK, InFlight
    <2>2. next.tid \in Nat /\ op.tid \in Nat
        BY <2>1 DEF Good, TypeOK, Counters, TrashId
    <2> QED
        BY <2>1, <2>2 DEF Purgeable, Listed
  <1>3. CASE RestoreMove
    <2>1. PICK q \in RestoreDests(op.path) :
            /\ payload' = [payload EXCEPT ![op.tid] = Absent]
            /\ op' = [op EXCEPT !.pc = "rs_unlink", !.dest = q]
        BY <1>3 DEF RestoreMove
    <2>2. /\ op'.pc = "rs_unlink" /\ op'.tid = op.tid /\ op.tid \in TrashId
          /\ payload'[op.tid] = Absent /\ op.pc = "rs_move"
          /\ \A t \in TrashId : payload'[t] \in {payload[t], Absent}
          /\ UNCHANGED <<sidecar, jan, next>>
        BY <1>3, <2>1 DEF RestoreMove, Good, TypeOK, InFlight, Handler
    <2> QED
        BY <2>2 DEF Purgeable, Listed
  <1>4. CASE RestoreUnlink \/ PurgeUnlink
    <2>1. /\ op.pc \in {"rs_unlink", "pg_unlink"} /\ op.tid \in TrashId /\ payload[op.tid] = Absent
          /\ op'.pc \in {"idle", "rs_rows", "pg_rows"}
          /\ \A t \in TrashId : t # op.tid => sidecar'[t] = sidecar[t]
          /\ \A t \in TrashId : sidecar'[t] \in {sidecar[t], NoMeta}
          /\ UNCHANGED <<payload, jan, next>>
        BY <1>4 DEF RestoreUnlink, PurgeUnlink, Idle, Good, TypeOK, InFlight, Handler, Purgeable
    <2> QED
        BY <2>1 DEF Purgeable, Listed
  <1>5. CASE \E t \in TrashId : EmptyPayload(t) \/ EmptySidecar(t)
    <2>1. /\ op.pc = "em_remove" /\ op' = op
          /\ \A t \in TrashId : payload'[t] \in {payload[t], Absent}
          /\ \A t \in TrashId : sidecar'[t] \in {sidecar[t], NoMeta}
          /\ UNCHANGED <<jan, next>>
        BY <1>5 DEF EmptyPayload, EmptySidecar, Good, TypeOK
    <2> QED
        BY <2>1 DEF Purgeable, Listed
  <1>6. CASE EmptyDone
    <2>1. /\ \A t \in TrashId : payload[t] = Absent
          /\ op'.pc \in {"idle", "pg_rows"} /\ UNCHANGED <<payload, sidecar, jan, next>>
        BY <1>6 DEF EmptyDone, Idle, disk, Good, TypeOK, Handler
    <2> QED
        BY <2>1 DEF Purgeable, Listed
  <1>7. CASE DeleteRollback
    <2>1. /\ op.pc = "del_publish" /\ op'.pc = "idle"
          /\ \A t \in TrashId : payload'[t] \in {payload[t], Absent}
          /\ UNCHANGED <<sidecar, jan, next>>
        BY <1>7 DEF DeleteRollback, Idle, Good, TypeOK
    <2> QED
        BY <2>1, PurgeableFrame
  <1>8. CASE \/ UploadCommit \/ CommitFail \/ UploadIndex
             \/ VersionRestoreIndex \/ VersionRestoreOpen \/ VersionRestoreCommit
             \/ MoveRows \/ MoveBlobs \/ RestoreFail \/ RestoreRows \/ RestoreBlobs
             \/ PurgeRows \/ PurgeBlobs \/ PurgeDir
    <2>1. op.pc # "em_remove" /\ next'.tid = next.tid /\ UNCHANGED <<payload, sidecar, jan>>
      <3>1. CASE VersionRestoreOpen
          BY <3>1, OpenFacts
      <3>2. CASE ~VersionRestoreOpen
          BY <1>8, <3>2 DEF UploadCommit, CommitFail, UploadIndex, VersionRestoreIndex,
             VersionRestoreCommit, MoveRows, MoveBlobs, RestoreFail, RestoreRows, RestoreBlobs,
             PurgeRows, PurgeBlobs, PurgeDir, disk
      <3> QED
          BY <3>1, <3>2
    <2>2. op'.pc \in {"idle", "up_index", "vr_open", "vr_commit", "mv_blobs", "rs_blobs",
                      "pg_rows", "pg_blobs", "pg_dir"}
      <3>1. CASE VersionRestoreOpen
          BY <3>1, OpenFacts, IdleType
      <3>2. CASE PurgeRows \/ PurgeBlobs \/ PurgeDir
          BY <3>2, PurgeStepPC
      <3>3. CASE ~VersionRestoreOpen /\ ~PurgeRows /\ ~PurgeBlobs /\ ~PurgeDir
          BY <1>8, <3>3, IdleType DEF UploadCommit, CommitFail, UploadIndex, VersionRestoreIndex,
             VersionRestoreCommit, MoveRows, MoveBlobs, RestoreFail, RestoreRows, RestoreBlobs,
             Good, TypeOK, Handler
      <3> QED
          BY <3>1, <3>2, <3>3
    <2> QED
        BY <2>1, <2>2, PurgeableFrame
  <1> QED
      BY <1>1, <1>2, <1>3, <1>4, <1>5, <1>6, <1>7, <1>8 DEF HandlerStep

LEMMA JanitorPurgeable ==
    ASSUME Good, Purgeable, JanitorStep
    PROVE  Purgeable'
  <1>1. jan \in Janitor
      BY DEF Good, TypeOK
  <1>2. CASE \E t \in jan.list : JanitorRead(t)
    <2>1. PICK t \in jan.list : JanitorRead(t)
        BY <1>2
    <2>2. /\ t \in TrashId /\ Listed(t) /\ jan'.pc = "remove" /\ jan'.tid = t
          /\ UNCHANGED <<payload, sidecar, op, next>>
        BY <1>1, <2>1 DEF JanitorRead, disk, Janitor
    <2>3. t < next.tid
        BY <2>2 DEF Purgeable, TrashId, Good, TypeOK, Counters
    <2> QED
        BY <2>2, <2>3 DEF Purgeable, Listed
  <1>3. CASE JanitorRemove \/ JanitorUnlink
    <2>1. /\ jan'.pc = "scan" \/ (jan'.pc = "unlink" /\ jan.pc = "remove" /\ jan'.tid = jan.tid)
          /\ \A t \in TrashId : payload'[t] \in {payload[t], Absent}
          /\ \A t \in TrashId : sidecar'[t] \in {sidecar[t], NoMeta}
          /\ UNCHANGED <<op, next>>
        BY <1>1, <1>3 DEF JanitorRemove, JanitorUnlink, Good, TypeOK, Janitor
    <2>2. op.pc \in {"rs_unlink", "pg_unlink"} => op.tid \in TrashId
        BY DEF Good, InFlight, Purgeable
    <2>3. op.pc \in {"del_move", "del_publish"} => op.tid \in TrashId
        BY DEF Good, InFlight
    <2>4. \A t \in TrashId : Listed(t)' => Listed(t)
        BY <2>1 DEF Listed
    <2> QED
        BY <2>1, <2>2, <2>3, <2>4 DEF Purgeable
  <1>4. CASE ~(\E t \in jan.list : JanitorRead(t)) /\ ~JanitorRemove /\ ~JanitorUnlink
    <2>1. jan'.pc \notin {"remove", "unlink"} /\ UNCHANGED <<payload, sidecar, op, next>>
        BY <1>4, JanitorFrame
    <2> QED
        BY <2>1 DEF Purgeable, Listed
  <1> QED
      BY <1>2, <1>3, <1>4

LEMMA StepPurgeable == Good /\ Purgeable /\ [Next]_vars => Purgeable'
  <1> SUFFICES ASSUME Good, Purgeable, [Next]_vars PROVE Purgeable'
      OBVIOUS
  <1>1. CASE Crash
      BY <1>1, IdleType DEF Crash, JIdle, disk, Purgeable, Listed
  <1>2. CASE (\E t \in TrashId : Expire(t)) \/ UNCHANGED vars
      BY <1>2 DEF Expire, vars, Purgeable, Listed
  <1> QED
      BY <1>1, <1>2, RequestPurgeable, HandlerPurgeable, JanitorPurgeable DEF Next

LEMMA InitPurgeable == Init => Purgeable
  BY IdleType DEF Init, JIdle, Purgeable, Listed

LEMMA PurgeableHolds == Spec => [](Good /\ Purgeable)
  <1>1. Good /\ Purgeable /\ [Next]_vars => (Good /\ Purgeable)'
      BY NextGood, StepPurgeable
  <1>2. Init => Good /\ Purgeable
      BY InitGood, InitPurgeable
  <1> QED
      BY <1>1, <1>2, PTL DEF Spec

\* No identity appears that was not there.
LEMMA NothingNew ==
    ASSUME \A p \in Path : \/ live'[p].item \notin 1..MaxItem
                           \/ \E q \in Path : live[q].item = live'[p].item
                           \/ \E t \in TrashId : payload[t].item = live'[p].item,
           \A u \in TrashId : \/ payload'[u].item \notin 1..MaxItem
                              \/ \E q \in Path : live[q].item = payload'[u].item
                              \/ \E t \in TrashId : payload[t].item = payload'[u].item
    PROVE  OnDisk' \subseteq OnDisk
  <1> SUFFICES ASSUME NEW i \in 1..MaxItem, Where(i)' # {}
               PROVE  Where(i) # {}
      BY DEF OnDisk
  <1>1. (\E p \in Path : live'[p].item = i) \/ (\E t \in TrashId : payload'[t].item = i)
      BY DEF Where, TrashId
  <1>2. (\E p \in Path : live[p].item = i) \/ (\E t \in TrashId : payload[t].item = i)
      BY <1>1
  <1>3. ASSUME NEW p \in Path, live[p].item = i PROVE <<"live", p>> \in Where(i)
      BY <1>3 DEF Where
  <1>4. ASSUME NEW t \in TrashId, payload[t].item = i PROVE <<"trash", t>> \in Where(i)
      BY <1>4 DEF Where
  <1> QED
      BY <1>2, <1>3, <1>4

\* A rollback loses and makes nothing.
LEMMA RollbackKeeps ==
    ASSUME Good, DeleteRollback
    PROVE  OnDisk' = OnDisk
  <1>1. op.path \in Path /\ op.tid \in TrashId /\ live[op.path].item = 0
      BY NoItemZero DEF DeleteRollback, Good, InFlight
  <1>2. /\ live'[op.path] = payload[op.tid] /\ payload'[op.tid].item = 0
        /\ \A p \in Path \ {op.path} : live'[p] = live[p]
        /\ \A t \in TrashId \ {op.tid} : payload'[t] = payload[t]
      BY <1>1, NoItemZero DEF DeleteRollback, Good, TypeOK
  <1>3. OnDisk \subseteq OnDisk'
      BY <1>1, <1>2, NoItemZero, StillOnDisk
  <1>4. OnDisk' \subseteq OnDisk
      BY <1>1, <1>2, NoItemZero, NothingNew
  <1> QED
      BY <1>3, <1>4

\* Whatever requests, crashes and the janitor interleave to, a payload is destroyed
\* only while the trash lists it or as the whole trash is emptied: a file stranded
\* by a crash is out of a purge's reach.
THEOREM PurgesTakeListed == Spec => PurgeTakesListed
  <1> DEFINE Step == \A t \in TrashId :
                (payload[t] # Absent /\ payload'[t] = Absent /\ OnDisk' # OnDisk)
                   => Listed(t) \/ op.pc = "em_remove"
  <1>1. Good /\ Purgeable /\ [Next]_vars => [Step]_vars
    <2> SUFFICES ASSUME Good, Purgeable, Next, NEW t \in TrashId, payload[t] # Absent,
                        payload'[t] = Absent, OnDisk' # OnDisk
                 PROVE  Listed(t) \/ op.pc = "em_remove"
        OBVIOUS
    <2>1. CASE Request
      <3>1. PICK u \in TrashId : PurgeBegin(u)
          BY <2>1 DEF Request, UploadFresh, UploadOver, Move, Copy, DeleteBegin,
             VersionRestoreBegin, RestoreBegin, EmptyBegin, disk
      <3> QED
          BY <3>1 DEF PurgeBegin, Good, TypeOK
    <2>2. CASE HandlerStep
      <3>1. CASE DeleteRollback
          BY <3>1, RollbackKeeps
      <3>2. CASE RestoreMove
          BY <3>2 DEF RestoreMove, Good, TypeOK
      <3>3. CASE DeleteMove
          BY <3>3 DEF DeleteMove, Good, TypeOK, InFlight
      <3>4. CASE ~DeleteRollback /\ ~RestoreMove /\ ~DeleteMove
        <4>1. PICK u \in TrashId : EmptyPayload(u)
            BY <2>2, <3>4 DEF HandlerStep, UploadCommit, CommitFail, UploadIndex,
               VersionRestoreIndex, VersionRestoreOpen, VersionRestoreCommit, MoveRows, MoveBlobs,
               DeletePublish, RestoreFail, RestoreUnlink, RestoreRows, RestoreBlobs,
               PurgeUnlink, EmptyDone, PurgeRows, PurgeBlobs, PurgeDir, EmptySidecar, disk
        <4> QED
            BY <4>1 DEF EmptyPayload
      <3> QED
          BY <3>1, <3>2, <3>3, <3>4
    <2>3. CASE JanitorStep
      <3>1. JanitorRemove
          BY <2>3, JanitorFrame
      <3>2. jan.pc = "remove" /\ t = jan.tid
          BY <3>1 DEF JanitorRemove, Good, TypeOK
      <3> QED
          BY <3>2 DEF Purgeable
    <2>4. CASE Crash \/ \E u \in TrashId : Expire(u)
        BY <2>4 DEF Crash, Expire, disk
    <2> QED
        BY <2>1, <2>2, <2>3, <2>4 DEF Next
  <1>2. Spec => [][Step]_vars
      BY <1>1, PurgeableHolds, PTL DEF Spec
  <1> QED
      BY <1>2 DEF PurgeTakesListed

-----------------------------------------------------------------------------
(* What a restore or a purge takes of the history                            *)

\* Ids of versions grow: what is indexed, or is about to be, is older than the next
\* id, and what a deletion recorded is older than its mark; a restore has what its
\* item recorded, or recorded nothing.
Old(m) == \A v \in m.refs : v.vid < m.mark

Aged ==
    /\ \A v \in rows \cup op.snap : v.vid < next.vid
    /\ op.pc \in {"del_move", "del_publish"} => \A v \in op.refs : v.vid < next.vid
    /\ \A t \in TrashId : Old(sidecar[t])
    /\ \A m \in op.metas : Old(m)
    /\ op.pc \in {"rs_move", "rs_unlink", "rs_rows"} =>
         \E m \in op.metas : m.refs = {} \/ m.refs = op.refs

LEMMA VidFacts ==
    ASSUME Good
    PROVE  /\ next.vid \in Nat
           /\ \A v \in rows \cup op.snap \cup op.refs : v.vid \in Nat
           /\ op \in Handler
  BY DEF Good, TypeOK, Handler, Version, Counters

\* What every step does.
LEMMA AgedStep ==
    ASSUME Good, Aged, next'.vid \in Nat, next.vid <= next'.vid,
           \A v \in rows' : \E w \in rows \cup op.snap : w.vid = v.vid,
           \A v \in op'.snap : v \in op.snap \/ (v.vid = next.vid /\ next.vid < next'.vid),
           \A t \in TrashId : \/ sidecar'[t] \in {NoMeta, sidecar[t]}
                              \/ /\ op.pc = "del_publish"
                                 /\ sidecar'[t].refs = op.refs /\ sidecar'[t].mark = next.vid,
           \A m \in op'.metas : m \in op.metas \/ \E t \in TrashId : m = sidecar[t],
           op'.pc \in {"del_move", "del_publish"} =>
               \/ op.pc \in {"del_move", "del_publish"} /\ op'.refs = op.refs
               \/ op'.refs \subseteq rows,
           op'.pc \in {"rs_move", "rs_unlink", "rs_rows"} =>
               \/ /\ op.pc \in {"rs_move", "rs_unlink", "rs_rows"}
                  /\ op'.refs = op.refs /\ op'.metas = op.metas
               \/ \E m \in op'.metas : m.refs = {} \/ m.refs = op'.refs
    PROVE  Aged'
  <1>1. \A v \in rows' \cup op'.snap : v.vid < next'.vid
      BY VidFacts DEF Aged
  <1>2. op'.pc \in {"del_move", "del_publish"} => \A v \in op'.refs : v.vid < next'.vid
      BY VidFacts DEF Aged
  <1>3. Old(NoMeta)
      BY DEF Old, NoMeta
  <1>4. \A t \in TrashId : Old(sidecar'[t])
      BY <1>3 DEF Aged, Old
  <1>5. \A m \in op'.metas : Old(m)
      BY DEF Aged
  <1>6. op'.pc \in {"rs_move", "rs_unlink", "rs_rows"} =>
          \E m \in op'.metas : m.refs = {} \/ m.refs = op'.refs
      BY DEF Aged
  <1> QED
      BY <1>1, <1>2, <1>4, <1>5, <1>6 DEF Aged, Old

\* Steps that index nothing and concern no deletion and no restore.
LEMMA AgedFrame ==
    ASSUME Good, Aged, next'.vid = next.vid, rows' \subseteq rows \cup op.snap,
           \A t \in TrashId : sidecar'[t] \in {NoMeta, sidecar[t]},
           op'.snap \subseteq op.snap,
           \A m \in op'.metas : m \in op.metas \/ \E t \in TrashId : m = sidecar[t],
           op'.pc \notin {"del_move", "del_publish", "rs_move", "rs_unlink", "rs_rows"} \/ op' = op
    PROVE  Aged'
  BY AgedStep, VidFacts

LEMMA RequestAged ==
    ASSUME Good, Aged, Request
    PROVE  Aged'
  <1>1. op.pc = "idle" /\ next.vid \in Nat
      BY VidFacts DEF Request, UploadFresh, UploadOver, Move, Copy, DeleteBegin,
         VersionRestoreBegin, RestoreBegin, PurgeBegin, EmptyBegin, Accepting
  <1>2. /\ UNCHANGED <<rows, sidecar>>
        /\ \A t \in TrashId : sidecar'[t] \in {NoMeta, sidecar[t]}
        /\ \A v \in rows' : \E w \in rows \cup op.snap : w.vid = v.vid
      BY DEF Request, UploadFresh, UploadOver, Move, Copy, DeleteBegin,
         VersionRestoreBegin, RestoreBegin, PurgeBegin, EmptyBegin, disk
  <1>3. /\ Idle.snap = {} /\ Idle.metas = {} /\ Idle.refs = {}
      BY DEF Idle
  <1>4. ASSUME NEW p \in Path PROVE \A v \in Snapshot(p) : v.vid = next.vid
      BY DEF Snapshot
  <1>5. CASE \E p \in Path : UploadOver(p)
    <2>1. PICK p \in Path : UploadOver(p)
        BY <1>5
    <2>2. /\ op'.pc = "up_commit" /\ op'.snap = Snapshot(p) /\ op'.metas = {}
          /\ next'.vid = next.vid + 1
        BY <2>1 DEF UploadOver, Idle, Good, TypeOK, Counters
    <2> QED
        BY <1>1, <1>2, <1>4, <2>2, AgedStep
  <1>6. CASE \E v \in rows : VersionRestoreBegin(v)
    <2>1. PICK v \in rows : VersionRestoreBegin(v)
        BY <1>6
    <2>2. v.path \in Path
        BY DEF Good, TypeOK, Version
    <2>3. CASE live[v.path] = Absent
      <3>1. op'.pc = "vr_open" /\ op'.snap = {} /\ op'.metas = {} /\ next' = next
          BY <2>1, <2>3 DEF VersionRestoreBegin, Idle
      <3> QED
          BY <1>1, <1>2, <3>1, AgedStep
    <2>4. CASE live[v.path] # Absent
      <3>1. /\ op'.pc = "vr_index" /\ op'.snap = Snapshot(v.path) /\ op'.metas = {}
            /\ next'.vid = next.vid + 1
          BY <2>1, <2>4 DEF VersionRestoreBegin, Idle, Good, TypeOK, Counters
      <3> QED
          BY <1>1, <1>2, <1>4, <2>2, <3>1, AgedStep
    <2> QED
        BY <2>3, <2>4
  <1>7. CASE \E p \in Path : DeleteBegin(p)
    <2>1. PICK p \in Path : DeleteBegin(p)
        BY <1>7
    <2>2. PICK refs \in Committed(RowsAt(p)) :
            op' = [Idle EXCEPT !.pc = "del_move", !.path = p, !.tid = next.tid, !.refs = refs]
        BY <2>1 DEF DeleteBegin
    <2>3. /\ op'.pc = "del_move" /\ op'.snap = {} /\ op'.metas = {} /\ op'.refs = refs
          /\ next'.vid = next.vid
        BY <2>1, <2>2 DEF DeleteBegin, Idle, Good, TypeOK, Counters
    <2>4. refs \subseteq rows
        BY DonePart DEF RowsAt
    <2> QED
        BY <1>1, <1>2, <2>3, <2>4, AgedStep
  <1>8. CASE \E t \in TrashId : RestoreBegin(t)
    <2>1. PICK t \in TrashId : RestoreBegin(t)
        BY <1>8
    <2>2. /\ op'.pc = "rs_move" /\ op'.snap = {} /\ op'.metas = {sidecar[t]}
          /\ op'.refs = OwnedRefs(sidecar[t]) /\ next' = next
        BY <2>1 DEF RestoreBegin, Idle
    <2>3. sidecar[t].refs = {} \/ sidecar[t].refs = op'.refs
        BY <2>2 DEF OwnedRefs
    <2> QED
        BY <1>1, <1>2, <2>2, <2>3, AgedStep
  <1>9. CASE (\E t \in TrashId : PurgeBegin(t)) \/ EmptyBegin
    <2>1. /\ op'.pc \in {"pg_unlink", "em_remove"} /\ op'.snap = {} /\ next' = next
          /\ \A m \in op'.metas : \E t \in TrashId : m = sidecar[t]
      <3>1. CASE EmptyBegin
        <4>1. op' = [Idle EXCEPT !.pc = "em_remove",
                                 !.metas = {sidecar[t] : t \in {u \in TrashId : Listed(u)}}]
            BY <3>1 DEF EmptyBegin
        <4>2. op'.pc = "em_remove" /\ op'.snap = {}
              /\ op'.metas = {sidecar[t] : t \in {u \in TrashId : Listed(u)}}
            BY <4>1 DEF Idle
        <4> QED
            BY <3>1, <4>2 DEF EmptyBegin
      <3>2. ASSUME NEW t \in TrashId, PurgeBegin(t)
            PROVE  op'.pc = "pg_unlink" /\ op'.snap = {} /\ op'.metas = {sidecar[t]} /\ next' = next
          BY <3>2 DEF PurgeBegin, Idle
      <3> QED
          BY <1>9, <3>1, <3>2
    <2> QED
        BY <1>1, <1>2, <2>1, AgedStep
  <1>10. CASE \E p, q \in Path : UploadFresh(p, q) \/ Move(p, q)
    <2>1. op'.pc \in {"up_commit", "mv_rows"} /\ op'.snap = {} /\ op'.metas = {}
          /\ next'.vid = next.vid
        BY <1>10 DEF UploadFresh, Move, Idle, Good, TypeOK, Counters
    <2> QED
        BY <1>1, <1>2, <2>1, AgedStep
  <1>11. CASE \E p, q \in Path : Copy(p, q)
    <2>1. op' = op /\ next'.vid = next.vid
        BY <1>11 DEF Copy, Good, TypeOK, Counters
    <2> QED
        BY <1>1, <1>2, <2>1, AgedStep
  <1> QED
      BY <1>5, <1>6, <1>7, <1>8, <1>9, <1>10, <1>11 DEF Request

LEMMA HandlerAged ==
    ASSUME Good, Aged, HandlerStep
    PROVE  Aged'
  <1>1. op \in Handler /\ Idle.pc = "idle" /\ Idle.snap = {} /\ Idle.metas = {}
      BY VidFacts DEF Idle
  <1>2. CASE UploadCommit \/ CommitFail \/ UploadIndex \/ VersionRestoreIndex \/ VersionRestoreCommit
    <2>1. /\ op'.pc \in {"idle", "up_index", "vr_open"}
          /\ op'.snap \subseteq op.snap /\ op'.metas \subseteq op.metas
        BY <1>1, <1>2 DEF UploadCommit, CommitFail, UploadIndex, VersionRestoreIndex,
           VersionRestoreCommit, Handler
    <2>2. next' = next /\ sidecar' = sidecar /\ rows' \subseteq rows \cup op.snap
        BY <1>2, DonePart DEF UploadCommit, CommitFail, UploadIndex, VersionRestoreIndex,
           VersionRestoreCommit, disk
    <2> QED
        BY <2>1, <2>2, AgedFrame
  <1>3. CASE VersionRestoreOpen
    <2>1. \A v \in Snapshot(op.path) : v.vid = next.vid
        BY DEF Snapshot
    <2> QED
        BY <1>1, <1>3, <2>1, OpenFacts, AgedStep
  <1>4. CASE MoveRows
    <2>1. /\ op'.pc \in {"idle", "mv_blobs"} /\ op'.snap \subseteq op.snap
          /\ op'.metas \subseteq op.metas /\ sidecar' = sidecar /\ next' = next
        BY <1>1, <1>4 DEF MoveRows, Handler
    <2>2. \A v \in rows' : \E w \in rows \cup op.snap : w.vid = v.vid
      <3>1. \A v \in Rebase(RowsAt(op.path), op.dest) : \E w \in rows : w.vid = v.vid
          BY DEF Rebase, RowsAt, Version, Good, TypeOK
      <3>2. PICK moved \in Committed(RowsAt(op.path)) :
              rows' = (rows \ moved) \cup Rebase(moved, op.dest)
          BY <1>4 DEF MoveRows
      <3>3. Rebase(moved, op.dest) \subseteq Rebase(RowsAt(op.path), op.dest)
          BY DonePart DEF Rebase
      <3> QED
          BY <3>1, <3>2, <3>3
    <2> QED
        BY <2>1, <2>2, VidFacts, AgedStep
  <1>5. CASE DeleteMove \/ RestoreMove
    <2>1. /\ op'.pc \in {"del_publish", "rs_unlink"} /\ op'.refs = op.refs
          /\ op'.pc = "del_publish" => op.pc = "del_move"
          /\ op'.pc = "rs_unlink" => op.pc = "rs_move"
          /\ op'.snap = op.snap /\ op'.metas = op.metas
          /\ UNCHANGED <<rows, sidecar, next>>
        BY <1>1, <1>5 DEF DeleteMove, RestoreMove, Handler
    <2> QED
        BY <2>1, VidFacts, AgedStep
  <1>6. CASE DeletePublish
    <2>1. /\ op.pc = "del_publish" /\ op' = Idle /\ op.tid \in TrashId
          /\ \A t \in TrashId : t # op.tid => sidecar'[t] = sidecar[t]
          /\ sidecar'[op.tid].refs = op.refs /\ sidecar'[op.tid].mark = next.vid
          /\ UNCHANGED <<rows, next>>
        BY <1>6 DEF DeletePublish, Good, TypeOK, InFlight
    <2> QED
        BY <1>1, <2>1, VidFacts, AgedStep
  <1>7. CASE RestoreUnlink
    <2>1. /\ op' = Idle
             \/ (op'.pc = "rs_rows" /\ op'.refs = op.refs /\ op'.metas = op.metas /\ op'.snap = op.snap)
          /\ op.pc = "rs_unlink" /\ UNCHANGED <<rows, next>>
          /\ \A t \in TrashId : sidecar'[t] \in {NoMeta, sidecar[t]}
        BY <1>1, <1>7 DEF RestoreUnlink, Good, TypeOK, Handler
    <2> QED
        BY <1>1, <2>1, VidFacts, AgedStep
  <1>8. CASE RestoreRows
    <2>1. /\ op'.pc \in {"idle", "rs_blobs"} /\ op'.snap \subseteq op.snap
          /\ op'.metas \subseteq op.metas /\ sidecar' = sidecar /\ next' = next
        BY <1>1, <1>8 DEF RestoreRows, Handler
    <2>2. \A v \in rows' : \E w \in rows \cup op.snap : w.vid = v.vid
      <3>1. \A v \in Rebase(rows \cap op.refs, op.dest) : \E w \in rows : w.vid = v.vid
          BY DEF Rebase, Version, Good, TypeOK
      <3> QED
          BY <1>8, <3>1 DEF RestoreRows
    <2> QED
        BY <2>1, <2>2, VidFacts, AgedStep
  <1>9. CASE \/ MoveBlobs \/ DeleteRollback \/ RestoreFail \/ RestoreBlobs
             \/ \E t \in TrashId : EmptyPayload(t) \/ EmptySidecar(t)
    <2>1. /\ op' \in {Idle, op} /\ next' = next /\ rows' = rows
          /\ \A t \in TrashId : sidecar'[t] \in {NoMeta, sidecar[t]}
        BY <1>9 DEF MoveBlobs, DeleteRollback, RestoreFail, RestoreBlobs, EmptyPayload,
           EmptySidecar, disk, Good, TypeOK
    <2> QED
        BY <1>1, <2>1, AgedFrame
  <1>10. CASE PurgeUnlink \/ EmptyDone
    <2>1. /\ op'.pc \in {"idle", "pg_rows"} /\ op'.snap \subseteq op.snap
          /\ op'.metas \subseteq op.metas
        BY <1>1, <1>10 DEF PurgeUnlink, EmptyDone, Handler
    <2>2. /\ next' = next /\ rows' = rows
          /\ \A t \in TrashId : sidecar'[t] \in {NoMeta, sidecar[t]}
        BY <1>10 DEF PurgeUnlink, EmptyDone, disk, Good, TypeOK
    <2> QED
        BY <2>1, <2>2, AgedFrame
  <1>11. CASE PurgeRows \/ PurgeBlobs \/ PurgeDir
    <2>1. next' = next /\ sidecar' = sidecar /\ rows' \subseteq rows
        BY <1>11 DEF PurgeRows, PurgeBlobs, PurgeDir
    <2> QED
        BY <1>11, <2>1, PurgeStepPC, AgedFrame
  <1> QED
      BY <1>2, <1>3, <1>4, <1>5, <1>6, <1>7, <1>8, <1>9, <1>10, <1>11 DEF HandlerStep

LEMMA StepAged == Good /\ Aged /\ [Next]_vars => Aged'
  <1> SUFFICES ASSUME Good, Aged, [Next]_vars PROVE Aged'
      OBVIOUS
  <1>1. CASE JanitorStep
    <2>1. rows' \subseteq rows /\ \A t \in TrashId : sidecar'[t] \in {NoMeta, sidecar[t]}
      <3>1. rows' \subseteq rows
          BY <1>1 DEF JanitorStep, JanitorStart, JanitorRead, JanitorRemove, JanitorUnlink,
             JanitorScanDone, JanitorPurgeRows, JanitorPurgeDir, JanitorSelect, JanitorDeleteRow,
             JanitorPruneBlob, JanitorPruneFail, disk
      <3>2. JanitorUnlink => \A t \in TrashId : sidecar'[t] \in {NoMeta, sidecar[t]}
          BY DEF JanitorUnlink, Good, TypeOK
      <3> QED
          BY <1>1, <3>1, <3>2, JanitorFrame
    <2> QED
        BY <1>1, <2>1, JanitorFrame, AgedFrame
  <1>2. CASE Crash
    <2>1. op' = Idle /\ UNCHANGED <<rows, sidecar, next>>
        BY <1>2 DEF Crash, disk
    <2> QED
        BY <2>1, AgedFrame DEF Idle
  <1>3. CASE (\E t \in TrashId : Expire(t)) \/ UNCHANGED vars
      BY <1>3 DEF Expire, vars, Aged, Old
  <1> QED
      BY <1>1, <1>2, <1>3, RequestAged, HandlerAged DEF Next

LEMMA AgedHolds == Spec => [](Good /\ Aged)
  <1>1. Init => Aged
      BY DEF Init, Aged, Old, Idle, NoMeta
  <1>2. Good /\ Aged /\ [Next]_vars => (Good /\ Aged)'
      BY NextGood, StepAged
  <1> QED
      BY <1>1, <1>2, InitGood, PTL DEF Spec

\* A restore or a purge of an item with recorded versions leaves alone what was
\* indexed after its deletion, at its path or anywhere, whatever came between.
THEOREM LaterVersionsAreLeft == Spec => LaterVersionsStay
  <1> DEFINE Step == op.pc \in {"rs_rows", "pg_rows"} /\ jan' = jan =>
         \A r \in rows \ rows' : \E m \in op.metas : r.vid < m.mark \/ m.refs = {}
  <1>1. Good /\ Aged /\ [Next]_vars => [Step]_vars
    <2> SUFFICES ASSUME Good, Aged, Next, op.pc \in {"rs_rows", "pg_rows"}, jan' = jan,
                        NEW r \in rows \ rows'
                 PROVE  \E m \in op.metas : r.vid < m.mark \/ m.refs = {}
        OBVIOUS
    <2>1. CASE RestoreRows
      <3>1. r \in op.refs
          BY <2>1 DEF RestoreRows
      <3> QED
          BY <2>1, <3>1 DEF RestoreRows, Aged, Old
    <2>2. CASE PurgeRows
      <3>1. PICK m \in op.metas :
              \E gone \in Committed(IF m.refs # {} THEN rows \cap m.refs ELSE RowsAt(m.orig)) :
                 rows' = rows \ gone
          BY <2>2 DEF PurgeRows
      <3>2. m.refs = {} \/ r \in m.refs
          BY <3>1, DonePart
      <3> QED
          BY <3>2 DEF Aged, Old
    <2>3. CASE JanitorStep
      <3>1. \E m \in jan.todo : JanitorPurgeRows(m)
        <4>1. ~\E v \in jan.sel : JanitorDeleteRow(v)
          <5>1. SUFFICES ASSUME NEW v \in jan.sel, JanitorDeleteRow(v) PROVE FALSE
              OBVIOUS
          <5>2. jan \in Janitor
              BY DEF Good, TypeOK
          <5>3. jan'.sel = jan.sel \ {v}
              BY <5>1, <5>2 DEF JanitorDeleteRow, Janitor
          <5> QED
              BY <5>3
        <4> QED
            BY <2>3, <4>1 DEF JanitorStep, JanitorStart, JanitorRead, JanitorRemove, JanitorUnlink,
               JanitorScanDone, JanitorPurgeDir, JanitorSelect, JanitorPruneBlob, JanitorPruneFail, disk
      <3>2. PICK m \in jan.todo : JanitorPurgeRows(m)
          BY <3>1
      <3>3. jan'.todo = jan.todo \ {m}
          BY <3>2 DEF JanitorPurgeRows, Good, TypeOK, Janitor
      <3> QED
          BY <3>3
    <2>4. CASE Crash \/ (\E t \in TrashId : Expire(t)) \/ Request
        BY <2>4 DEF Crash, Expire, disk, Request, UploadFresh, UploadOver, Move, Copy, DeleteBegin,
           VersionRestoreBegin, RestoreBegin, PurgeBegin, EmptyBegin, Accepting
    <2> QED
        BY <2>1, <2>2, <2>3, <2>4 DEF Next, HandlerStep, UploadCommit, CommitFail, UploadIndex,
           VersionRestoreIndex, VersionRestoreOpen, VersionRestoreCommit, MoveRows, MoveBlobs,
           DeleteMove, DeletePublish, DeleteRollback, RestoreMove, RestoreFail, RestoreUnlink,
           RestoreBlobs, PurgeUnlink, EmptyDone, PurgeBlobs, PurgeDir, EmptyPayload, EmptySidecar
  <1>2. Spec => [][Step]_vars
      BY <1>1, AgedHolds, PTL DEF Spec
  <1> QED
      BY <1>2 DEF LaterVersionsStay

-----------------------------------------------------------------------------
(* One at a time                                                             *)

LEMMA RequestFrame ==
    ASSUME Request
    PROVE  /\ op.pc = "idle" /\ (Overlap \/ jan.pc = "idle")
           /\ UNCHANGED <<sidecar, expired, rows, jan, crashes, stuck>>
  BY DEF Request, UploadFresh, UploadOver, Move, Copy, DeleteBegin, VersionRestoreBegin,
     RestoreBegin, PurgeBegin, EmptyBegin, Accepting, disk

LEMMA HandlerFrame ==
    ASSUME HandlerStep
    PROVE  op.pc # "idle" /\ UNCHANGED <<expired, jan, crashes>>
  <1>1. CASE \/ UploadCommit \/ CommitFail \/ UploadIndex \/ VersionRestoreIndex
             \/ VersionRestoreOpen \/ VersionRestoreCommit \/ MoveRows \/ MoveBlobs
      BY <1>1 DEF UploadCommit, CommitFail, UploadIndex, VersionRestoreIndex, VersionRestoreOpen,
         VersionRestoreCommit, MoveRows, MoveBlobs, disk
  <1>2. CASE \/ DeleteMove \/ DeletePublish \/ DeleteRollback \/ RestoreMove \/ RestoreFail
             \/ RestoreUnlink \/ RestoreRows \/ RestoreBlobs
      BY <1>2 DEF DeleteMove, DeletePublish, DeleteRollback, RestoreMove, RestoreFail, RestoreUnlink,
         RestoreRows, RestoreBlobs, disk
  <1>3. CASE \/ PurgeUnlink \/ EmptyDone \/ PurgeRows \/ PurgeBlobs \/ PurgeDir
             \/ \E t \in TrashId : EmptyPayload(t) \/ EmptySidecar(t)
      BY <1>3 DEF PurgeUnlink, EmptyDone, PurgeRows, PurgeBlobs, PurgeDir, EmptyPayload,
         EmptySidecar, disk
  <1> QED
      BY <1>1, <1>2, <1>3 DEF HandlerStep

\* Without overlap the janitor is idle while a handler is in flight.
Alone == op.pc = "idle" \/ jan.pc = "idle"

LEMMA StepAlone ==
    ASSUME Overlap = FALSE, Good, Alone, [Next]_vars
    PROVE  Alone'
  <1>1. CASE Request
      BY <1>1, RequestFrame DEF Alone
  <1>2. CASE HandlerStep
      BY <1>2, HandlerFrame DEF Alone
  <1>3. CASE JanitorStep
    <2>1. JanitorStart => op.pc = "idle"
        BY DEF JanitorStart
    <2>2. ~JanitorStart => jan.pc # "idle"
        BY <1>3 DEF JanitorStep, JanitorRead, JanitorRemove, JanitorUnlink, JanitorScanDone,
           JanitorPurgeRows, JanitorPurgeDir, JanitorSelect, JanitorDeleteRow, JanitorPruneBlob,
           JanitorPruneFail
    <2> QED
        BY <1>3, <2>1, <2>2, JanitorFrame DEF Alone
  <1>4. CASE Crash
      BY <1>4 DEF Crash, Alone, Idle
  <1>5. CASE (\E t \in TrashId : Expire(t)) \/ UNCHANGED vars
      BY <1>5 DEF Expire, vars, Alone
  <1> QED
      BY <1>1, <1>2, <1>3, <1>4, <1>5 DEF Next

LEMMA InitAlone == Init => Alone
  BY DEF Init, Alone, Idle

LEMMA JanitorAlone ==
    ASSUME Overlap = FALSE, Alone, JanitorStep
    PROVE  op.pc = "idle"
  <1>1. CASE JanitorStart
      BY <1>1 DEF JanitorStart
  <1>2. CASE ~JanitorStart
    <2>1. jan.pc # "idle"
        BY <1>2 DEF JanitorStep, JanitorRead, JanitorRemove, JanitorUnlink, JanitorScanDone,
           JanitorPurgeRows, JanitorPurgeDir, JanitorSelect, JanitorDeleteRow, JanitorPruneBlob,
           JanitorPruneFail
    <2> QED
        BY <2>1 DEF Alone
  <1> QED
      BY <1>1, <1>2

-----------------------------------------------------------------------------
(* What an overwrite replaces                                                *)

\* What a commit is about to replace is stored as a blob.
Preserved ==
    op.pc \in {"up_commit", "vr_commit"} /\ live[op.dest] # Absent =>
        \E b \in blobs : b.file.data = live[op.dest].data

\* Only requests and the opening of a version lead to a commit.
LEMMA CommitsBegin ==
    ASSUME Good, HandlerStep, ~VersionRestoreOpen
    PROVE  op'.pc \notin {"up_commit", "vr_commit"}
  <1>1. op \in Handler /\ Idle.pc = "idle"
      BY DEF Good, TypeOK, Idle
  <1>2. CASE \/ UploadCommit \/ CommitFail \/ UploadIndex \/ VersionRestoreIndex
             \/ VersionRestoreCommit \/ MoveRows \/ MoveBlobs
      BY <1>1, <1>2 DEF UploadCommit, CommitFail, UploadIndex, VersionRestoreIndex,
         VersionRestoreCommit, MoveRows, MoveBlobs, Handler
  <1>3. CASE \/ DeleteMove \/ DeletePublish \/ DeleteRollback \/ RestoreMove \/ RestoreFail
             \/ RestoreUnlink \/ RestoreRows \/ RestoreBlobs
      BY <1>1, <1>3 DEF DeleteMove, DeletePublish, DeleteRollback, RestoreMove, RestoreFail,
         RestoreUnlink, RestoreRows, RestoreBlobs, Handler
  <1>4. CASE PurgeUnlink \/ EmptyDone \/ \E t \in TrashId : EmptyPayload(t) \/ EmptySidecar(t)
      BY <1>1, <1>4 DEF PurgeUnlink, EmptyDone, EmptyPayload, EmptySidecar, Handler
  <1>5. CASE PurgeRows \/ PurgeBlobs \/ PurgeDir
      BY <1>5, PurgeStepPC
  <1> QED
      BY <1>2, <1>3, <1>4, <1>5 DEF HandlerStep

LEMMA StepPreserved ==
    ASSUME Overlap = FALSE, Good, Alone, Preserved, [Next]_vars
    PROVE  Preserved'
  <1>1. CASE \E p, q \in Path : UploadFresh(p, q)
      BY <1>1 DEF UploadFresh, Preserved, Idle, disk
  <1>2. CASE \E p \in Path : UploadOver(p)
    <2>1. PICK p \in Path : UploadOver(p)
        BY <1>2
    <2>2. op'.dest = p /\ live' = live /\ Snapshot(p) \subseteq blobs'
        BY <2>1 DEF UploadOver, Idle
    <2>3. \E b \in Snapshot(p) : b.file = live[p]
        BY DEF Snapshot
    <2> QED
        BY <2>2, <2>3 DEF Preserved
  <1>3. CASE /\ Request /\ ~(\E p, q \in Path : UploadFresh(p, q))
             /\ ~(\E p \in Path : UploadOver(p))
    <2>1. op'.pc \notin {"up_commit", "vr_commit"}
      <3>1. CASE \E p, q \in Path : Move(p, q) \/ Copy(p, q)
          BY <3>1 DEF Move, Copy, Idle, Accepting
      <3>2. CASE \E p \in Path : DeleteBegin(p)
          BY <3>2 DEF DeleteBegin, Idle
      <3>3. CASE \E v \in rows : VersionRestoreBegin(v)
        <4>1. PICK v \in rows : VersionRestoreBegin(v)
            BY <3>3
        <4>2. op'.pc \in {"vr_open", "vr_index"}
            BY <4>1 DEF VersionRestoreBegin, Idle
        <4> QED
            BY <4>2
      <3>4. CASE (\E t \in TrashId : RestoreBegin(t) \/ PurgeBegin(t)) \/ EmptyBegin
          BY <3>4 DEF RestoreBegin, PurgeBegin, EmptyBegin, Idle
      <3> QED
          BY <1>3, <3>1, <3>2, <3>3, <3>4 DEF Request
    <2> QED
        BY <2>1 DEF Preserved
  <1>4. CASE VersionRestoreOpen
    <2>1. op'.pc = "vr_commit" =>
             /\ op'.dest = op.path /\ live' = live
             /\ live[op.path] # Absent => Snapshot(op.path) \subseteq blobs'
        BY <1>4, OpenFacts, IdleType
    <2>2. op'.pc \in {"idle", "vr_commit"}
        BY <1>4, OpenFacts DEF Idle
    <2>3. \E b \in Snapshot(op.path) : b.file = live[op.path]
        BY DEF Snapshot
    <2> QED
        BY <2>1, <2>2, <2>3 DEF Preserved
  <1>5. CASE HandlerStep /\ ~VersionRestoreOpen
      BY <1>5, CommitsBegin DEF Preserved
  <1>6. CASE JanitorStep
      BY <1>6, JanitorAlone, JanitorFrame DEF Preserved
  <1>7. CASE Crash
      BY <1>7 DEF Crash, Idle, Preserved
  <1>8. CASE (\E t \in TrashId : Expire(t)) \/ UNCHANGED vars
      BY <1>8 DEF Expire, vars, Preserved
  <1> QED
      BY <1>1, <1>2, <1>3, <1>4, <1>5, <1>6, <1>7, <1>8 DEF Next

\* One request or janitor pass at a time, what a path held is still stored after
\* any step that is not a purge: live, in the trash, or as the blob of the
\* snapshot that was taken before the overwrite.
THEOREM OverwritesPreserve ==
    ASSUME Overlap = FALSE
    PROVE  Spec => ContentKept
  <1> DEFINE Inv == Good /\ Alone /\ Preserved
             Step == \/ \A p \in Path : live[p] # Absent => live[p].data \in Contents'
                     \/ Purging
  <1>1. Init => Inv
      BY InitGood, InitAlone DEF Init, Preserved, Idle
  <1>2. Inv /\ [Next]_vars => Inv'
      BY NextGood, StepAlone, StepPreserved
  <1>3. Inv /\ [Next]_vars => [Step]_vars
    <2> SUFFICES ASSUME Inv, Next, NEW p \in Path, live[p] # Absent
                 PROVE  live[p].data \in Contents'
        OBVIOUS
    <2>1. /\ \A q \in Path : live'[q].data \in Contents'
          /\ \A t \in TrashId : payload'[t].data \in Contents'
          /\ \A b \in blobs' : b.file.data \in Contents'
        BY DEF Contents
    <2>2. CASE live' = live
        BY <2>1, <2>2
    <2>3. CASE UploadCommit \/ VersionRestoreCommit
      <3>1. /\ op.pc \in {"up_commit", "vr_commit"} /\ blobs' = blobs
            /\ live' = [live EXCEPT ![op.dest] = op.file]
          BY <2>3 DEF UploadCommit, VersionRestoreCommit
      <3>2. CASE p = op.dest
          BY <2>1, <3>1, <3>2 DEF Preserved
      <3>3. CASE p # op.dest
          BY <2>1, <3>1, <3>3 DEF Good, TypeOK
      <3> QED
          BY <3>2, <3>3
    <2>4. ASSUME NEW a \in Path, NEW b \in Path, Move(a, b)
          PROVE  live[p].data \in Contents'
      <3>1. live' = [live EXCEPT ![b] = live[a], ![a] = Absent] /\ live[b] = Absent /\ live[a] # Absent
          BY <2>4 DEF Move
      <3>2. p # b /\ a # b /\ live'[b] = live[a] /\ (p # a => live'[p] = live[p])
          BY <3>1 DEF Good, TypeOK
      <3> QED
          BY <2>1, <3>2
    <2>5. ASSUME NEW a \in Path, NEW b \in Path, Copy(a, b)
          PROVE  live[p].data \in Contents'
        BY <2>1, <2>5 DEF Copy, Good, TypeOK
    <2>6. CASE DeleteMove
      <3>1. op.tid \in TrashId /\ payload'[op.tid] = live[op.path]
            /\ (p # op.path => live'[p] = live[p])
          BY <2>6 DEF DeleteMove, Good, TypeOK, InFlight
      <3> QED
          BY <2>1, <3>1
    <2>7. CASE DeleteRollback
      <3>1. p # op.path /\ live'[p] = live[p]
          BY <2>7 DEF DeleteRollback, Good, TypeOK, InFlight
      <3> QED
          BY <2>1, <3>1
    <2>8. CASE RestoreMove
      <3>1. PICK q \in RestoreDests(op.path) : live' = [live EXCEPT ![q] = payload[op.tid]]
          BY <2>8 DEF RestoreMove
      <3>2. live[q] = Absent
          BY DEF RestoreDests
      <3>3. live'[p] = live[p]
          BY <3>1, <3>2 DEF Good, TypeOK
      <3> QED
          BY <2>1, <3>3
    <2>9. live' = live \/ UploadCommit \/ VersionRestoreCommit \/ DeleteMove \/ DeleteRollback
          \/ RestoreMove \/ \E a, b \in Path : Move(a, b) \/ Copy(a, b)
      <3>1. CASE Request
          BY <3>1 DEF Request, UploadFresh, UploadOver, DeleteBegin, VersionRestoreBegin,
             RestoreBegin, PurgeBegin, EmptyBegin, disk
      <3>2. CASE HandlerStep
          BY <3>2 DEF HandlerStep, CommitFail, UploadIndex, VersionRestoreIndex, VersionRestoreOpen,
             MoveRows, MoveBlobs, DeletePublish, RestoreFail, RestoreUnlink, RestoreRows,
             RestoreBlobs, PurgeUnlink, EmptyDone, PurgeRows, PurgeBlobs, PurgeDir, EmptyPayload,
             EmptySidecar, disk
      <3>3. CASE JanitorStep
          BY <3>3, JanitorFrame
      <3>4. CASE Crash \/ \E t \in TrashId : Expire(t)
          BY <3>4 DEF Crash, Expire, disk
      <3> QED
          BY <3>1, <3>2, <3>3, <3>4 DEF Next
    <2> QED
        BY <2>2, <2>3, <2>4, <2>5, <2>6, <2>7, <2>8, <2>9
  <1>4. Spec => [][Step]_vars
      BY <1>1, <1>2, <1>3, PTL DEF Spec
  <1> QED
      BY <1>4 DEF ContentKept

-----------------------------------------------------------------------------
(* Index and blobs                                                           *)

\* Every row names one of the blobs X, or one that a failed relocation left.
Backed(X) == \A r \in rows : r \in X \/ r.vid \in stuck.blobs

\* Handlers and the janitor change the index first and the blobs after it.  Until
\* they have, the rows name the blobs as that step will leave them.
Tracked ==
    /\ op.pc \notin {"mv_blobs", "rs_blobs", "pg_blobs", "pg_dir"} /\ jan.pc # "purge_dir" =>
         Backed(blobs \ jan.gone)
    /\ op.pc = "mv_blobs" =>
         Backed((blobs \ BlobsAt(op.path)) \cup Rebase(BlobsAt(op.path), op.dest))
    /\ op.pc = "rs_blobs" =>
         Backed((blobs \ op.refs) \cup Rebase(blobs \cap op.refs, op.dest))
    /\ op.pc = "pg_blobs" => Backed(blobs \ op.refs)
    /\ op.pc = "pg_dir" => Backed(blobs \ BlobsAt(op.path))
    /\ jan.pc = "purge_dir" => Backed(blobs \ BlobsAt(jan.meta.orig))
    /\ op.pc \in {"up_commit", "up_index", "vr_index"} => op.snap \subseteq blobs
    /\ jan.pc \notin {"del_rows", "del_blobs"} => jan.gone = {}

InStep == crashes = 0 => Tracked

\* Steps between moments at which index and blobs agree.
LEMMA TrackedFrame ==
    ASSUME Tracked, jan' = jan, jan.pc = "idle",
           op.pc \notin {"mv_blobs", "rs_blobs", "pg_blobs", "pg_dir"},
           op'.pc \notin {"mv_blobs", "rs_blobs", "pg_blobs", "pg_dir"},
           rows' = rows, stuck' = stuck, blobs \subseteq blobs',
           op'.pc \in {"up_commit", "up_index", "vr_index"} => op'.snap \subseteq blobs'
    PROVE  Tracked'
  BY DEF Tracked, Backed

LEMMA RequestTracked ==
    ASSUME Overlap = FALSE, Good, Tracked, Request
    PROVE  Tracked'
  <1>1. /\ op.pc = "idle" /\ jan.pc = "idle" /\ UNCHANGED <<rows, jan, stuck>>
      BY RequestFrame
  <1>2. CASE \E p \in Path : UploadOver(p)
    <2>1. PICK p \in Path : UploadOver(p)
        BY <1>2
    <2>2. op'.pc = "up_commit" /\ op'.snap = Snapshot(p) /\ blobs' = blobs \cup Snapshot(p)
        BY <2>1 DEF UploadOver, Idle
    <2> QED
        BY <1>1, <2>2, TrackedFrame
  <1>3. CASE \E v \in rows : VersionRestoreBegin(v)
    <2>1. PICK v \in rows : VersionRestoreBegin(v)
        BY <1>3
    <2>2. CASE live[v.path] = Absent
      <3>1. op'.pc = "vr_open" /\ blobs' = blobs
          BY <2>1, <2>2 DEF VersionRestoreBegin, Idle
      <3> QED
          BY <1>1, <3>1, TrackedFrame
    <2>3. CASE live[v.path] # Absent
      <3>1. /\ op'.pc = "vr_index" /\ op'.snap = Snapshot(v.path)
            /\ blobs' = blobs \cup Snapshot(v.path)
          BY <2>1, <2>3 DEF VersionRestoreBegin, Idle
      <3> QED
          BY <1>1, <3>1, TrackedFrame
    <2> QED
        BY <2>2, <2>3
  <1>4. CASE \E p, q \in Path : UploadFresh(p, q)
    <2>1. op'.pc = "up_commit" /\ op'.snap = {} /\ blobs' = blobs
        BY <1>4 DEF UploadFresh, Idle, disk
    <2> QED
        BY <1>1, <2>1, TrackedFrame
  <1>5. CASE \/ \E p, q \in Path : Move(p, q) \/ Copy(p, q)
             \/ \E p \in Path : DeleteBegin(p)
             \/ \E t \in TrashId : RestoreBegin(t) \/ PurgeBegin(t)
             \/ EmptyBegin
    <2>1. op'.pc \in {"idle", "mv_rows", "del_move", "rs_move", "pg_unlink", "em_remove"}
        BY <1>1, <1>5 DEF Move, Copy, DeleteBegin, RestoreBegin, PurgeBegin, EmptyBegin, Idle
    <2>2. blobs' = blobs
        BY <1>5 DEF Move, Copy, DeleteBegin, RestoreBegin, PurgeBegin, EmptyBegin, disk
    <2> QED
        BY <1>1, <2>1, <2>2, TrackedFrame
  <1> QED
      BY <1>2, <1>3, <1>4, <1>5 DEF Request

LEMMA HandlerTracked ==
    ASSUME Good, Alone, Tracked, HandlerStep
    PROVE  Tracked'
  <1>1. /\ op.pc # "idle" /\ jan.pc = "idle" /\ jan' = jan /\ jan.gone = {}
        /\ op \in Handler /\ Idle.pc = "idle"
      BY HandlerFrame, IdleType DEF Alone, Tracked, Good, TypeOK
  <1>2. CASE UploadIndex \/ VersionRestoreIndex
    <2>1. /\ op.pc \in {"up_index", "vr_index"} /\ op'.pc \in {"idle", "vr_open"}
          /\ rows' \subseteq rows \cup op.snap /\ blobs' = blobs /\ stuck' = stuck
        BY <1>1, <1>2, DonePart DEF UploadIndex, VersionRestoreIndex, Handler
    <2> QED
        BY <1>1, <2>1 DEF Tracked, Backed
  <1>3. CASE VersionRestoreOpen
    <2>1. /\ op.pc = "vr_open" /\ op'.pc \in {"idle", "vr_commit"} /\ rows' = rows
          /\ blobs \subseteq blobs' /\ stuck' = stuck
        BY <1>1, <1>3, OpenFacts
    <2> QED
        BY <1>1, <2>1, TrackedFrame
  <1>4. CASE UploadCommit
    <2>1. /\ op.pc = "up_commit" /\ op'.pc \in {"idle", "up_index"} /\ rows' = rows
          /\ op'.pc = "up_index" => op'.snap = op.snap
          /\ blobs' = blobs /\ stuck' = stuck
        BY <1>1, <1>4 DEF UploadCommit, Handler
    <2>2. op'.pc \in {"up_commit", "up_index", "vr_index"} => op'.snap \subseteq blobs'
        BY <2>1 DEF Tracked
    <2> QED
        BY <1>1, <2>1, <2>2, TrackedFrame
  <1>5. CASE \/ CommitFail \/ VersionRestoreCommit \/ DeleteMove \/ DeletePublish \/ DeleteRollback
             \/ RestoreMove \/ RestoreFail \/ RestoreUnlink \/ PurgeUnlink \/ EmptyDone
             \/ \E t \in TrashId : EmptyPayload(t) \/ EmptySidecar(t)
    <2>1. /\ op.pc \in {"up_commit", "vr_commit", "del_move", "del_publish", "rs_move", "rs_unlink",
                        "pg_unlink", "em_remove"}
          /\ UNCHANGED <<rows, blobs, stuck>>
        BY <1>5 DEF CommitFail, VersionRestoreCommit, DeleteMove, DeletePublish, DeleteRollback,
           RestoreMove, RestoreFail, RestoreUnlink, PurgeUnlink, EmptyDone, EmptyPayload,
           EmptySidecar, disk
    <2>2. op'.pc \in {"idle", "del_publish", "rs_unlink", "rs_rows", "pg_rows", "em_remove"}
        BY <1>1, <1>5 DEF CommitFail, VersionRestoreCommit, DeleteMove, DeletePublish,
           DeleteRollback, RestoreMove, RestoreFail, RestoreUnlink, PurgeUnlink, EmptyDone,
           EmptyPayload, EmptySidecar, Handler
    <2> QED
        BY <1>1, <2>1, <2>2, TrackedFrame
  <1>6. CASE MoveRows
    <2>1. /\ op.pc = "mv_rows" /\ blobs' = blobs /\ Backed(blobs) /\ stuck'.blobs = stuck.blobs
        BY <1>1, <1>6 DEF MoveRows, Tracked, Good, TypeOK, Stuck
    <2>2. PICK moved \in Committed(RowsAt(op.path)) :
            /\ rows' = (rows \ moved) \cup Rebase(moved, op.dest)
            /\ op' = IF moved = {} THEN Idle ELSE [op EXCEPT !.pc = "mv_blobs"]
        BY <1>6 DEF MoveRows
    <2>3. CASE moved = {}
      <3>1. op'.pc = "idle" /\ rows' = rows
          BY <1>1, <2>2, <2>3 DEF Rebase
      <3> QED
          BY <1>1, <2>1, <3>1 DEF Tracked, Backed
    <2>4. CASE moved # {}
      <3>1. op'.pc = "mv_blobs" /\ op'.path = op.path /\ op'.dest = op.dest
          BY <1>1, <2>2, <2>4 DEF Handler
      <3>2. rows' = (rows \ RowsAt(op.path)) \cup Rebase(RowsAt(op.path), op.dest)
          BY <2>2, <2>4, AllOrNothing
      <3>3. \A v \in RowsAt(op.path) : /\ [v EXCEPT !.path = op.dest].vid = v.vid
                                       /\ v \in BlobsAt(op.path) \/ v.vid \in stuck.blobs
          BY <2>1 DEF RowsAt, BlobsAt, Backed, Good, TypeOK, Version
      <3>4. \A r \in rows' : \/ r \in (blobs \ BlobsAt(op.path)) \cup Rebase(BlobsAt(op.path), op.dest)
                             \/ r.vid \in stuck.blobs
          BY <2>1, <3>2, <3>3 DEF RowsAt, BlobsAt, Rebase, Backed
      <3>5. BlobsAt(op.path)' = BlobsAt(op.path)
          BY <2>1, <3>1 DEF BlobsAt
      <3>6. Backed((blobs \ BlobsAt(op.path)) \cup Rebase(BlobsAt(op.path), op.dest))'
          BY <2>1, <3>1, <3>4, <3>5 DEF Backed, Rebase
      <3> QED
          BY <1>1, <3>1, <3>6 DEF Tracked
    <2> QED
        BY <2>3, <2>4
  <1>7. CASE RestoreRows
    <2>1. /\ op.pc = "rs_rows" /\ blobs' = blobs /\ Backed(blobs) /\ stuck'.blobs = stuck.blobs
        BY <1>1, <1>7 DEF RestoreRows, Tracked, Good, TypeOK, Stuck
    <2>2. CASE op' = Idle /\ rows' = rows
        BY <1>1, <2>1, <2>2 DEF Tracked, Backed
    <2>3. CASE /\ rows' = (rows \ (rows \cap op.refs)) \cup Rebase(rows \cap op.refs, op.dest)
               /\ op' = [op EXCEPT !.pc = "rs_blobs"]
      <3>1. op'.pc = "rs_blobs" /\ op'.refs = op.refs /\ op'.dest = op.dest
          BY <1>1, <2>3 DEF Handler
      <3>2. \A v \in rows : /\ [v EXCEPT !.path = op.dest].vid = v.vid
                            /\ v \in blobs \/ v.vid \in stuck.blobs
          BY <2>1 DEF Backed, Good, TypeOK, Version
      <3>3. \A r \in rows' : \/ r \in (blobs \ op.refs) \cup Rebase(blobs \cap op.refs, op.dest)
                             \/ r.vid \in stuck.blobs
          BY <2>3, <3>2 DEF Rebase
      <3> QED
          BY <1>1, <2>1, <3>1, <3>3 DEF Tracked, Backed, Rebase
    <2> QED
        BY <1>7, <2>2, <2>3 DEF RestoreRows
  <1>8. CASE MoveBlobs \/ RestoreBlobs
    <2>1. /\ op'.pc = "idle" /\ rows' = rows /\ op.pc \in {"mv_blobs", "rs_blobs"}
        BY <1>1, <1>8 DEF MoveBlobs, RestoreBlobs
    <2>2. PICK owned \in SUBSET blobs :
            /\ Backed((blobs \ owned) \cup Rebase(owned, op.dest))
            /\ \E moved \in Reached(owned) :
                 /\ blobs' = (blobs \ moved) \cup Rebase(moved, op.dest)
                 /\ stuck' = [stuck EXCEPT !.blobs = @ \cup Vids(owned \ moved)]
      <3>1. CASE MoveBlobs
        <4>1. BlobsAt(op.path) \in SUBSET blobs
            BY DEF BlobsAt
        <4> QED
            BY <3>1, <4>1 DEF MoveBlobs, Tracked
      <3>2. CASE RestoreBlobs
        <4>1. blobs \ op.refs = blobs \ (blobs \cap op.refs)
            OBVIOUS
        <4> QED
            BY <3>2, <4>1 DEF RestoreBlobs, Tracked
      <3> QED
          BY <1>8, <3>1, <3>2
    <2>3. PICK moved \in Reached(owned) :
            /\ blobs' = (blobs \ moved) \cup Rebase(moved, op.dest)
            /\ stuck' = [stuck EXCEPT !.blobs = @ \cup Vids(owned \ moved)]
        BY <2>2
    <2>4. moved \subseteq owned /\ stuck'.blobs = stuck.blobs \cup Vids(owned \ moved)
        BY <2>3, DonePart DEF Good, TypeOK, Stuck
    <2>5. \A b \in owned : [b EXCEPT !.path = op.dest].vid = b.vid
        BY DEF Good, TypeOK, Version
    <2>6. \A r \in rows : r \in blobs' \/ r.vid \in stuck'.blobs
      <3>1. \A b \in owned : b \in moved \/ b.vid \in stuck'.blobs
          BY <2>4 DEF Vids
      <3>2. \A b \in owned : [b EXCEPT !.path = op.dest] \in blobs'
                             \/ [b EXCEPT !.path = op.dest].vid \in stuck'.blobs
          BY <2>3, <2>5, <3>1 DEF Rebase
      <3>3. \A r \in rows : \/ r \in blobs \ owned \/ r.vid \in stuck.blobs
                            \/ \E b \in owned : r = [b EXCEPT !.path = op.dest]
          BY <2>2 DEF Backed, Rebase
      <3> QED
          BY <2>3, <2>4, <3>2, <3>3
    <2> QED
        BY <1>1, <2>1, <2>6 DEF Tracked, Backed
  <1>9. CASE PurgeBlobs \/ PurgeDir
    <2>1. /\ op'.pc \in {"idle", "pg_rows"} /\ rows' = rows /\ stuck' = stuck
          /\ op.pc \in {"pg_blobs", "pg_dir"}
        BY <1>1, <1>9 DEF PurgeBlobs, PurgeDir, NextMeta, Idle
    <2>2. op.pc = "pg_blobs" => blobs \ op.refs \subseteq blobs'
        BY <1>9, DonePart DEF PurgeBlobs, PurgeDir
    <2>3. op.pc = "pg_dir" => blobs \ BlobsAt(op.path) \subseteq blobs'
        BY <1>9, DonePart DEF PurgeBlobs, PurgeDir
    <2> QED
        BY <1>1, <2>1, <2>2, <2>3 DEF Tracked, Backed
  <1>10. CASE PurgeRows
    <2>1. /\ op.pc = "pg_rows" /\ blobs' = blobs /\ Backed(blobs) /\ stuck'.blobs = stuck.blobs
        BY <1>1, <1>10 DEF PurgeRows, Tracked, Good, TypeOK, Stuck
    <2>2. PICK m \in op.metas :
            LET hit == IF m.refs # {} THEN rows \cap m.refs ELSE RowsAt(m.orig)
                rest == op.metas \ {m}
            IN \E gone \in Committed(hit) :
                 /\ rows' = rows \ gone
                 /\ gone = {} => op' = NextMeta(rest)
                 /\ gone # {} =>
                      op' = [op EXCEPT !.pc = IF m.refs # {} THEN "pg_blobs" ELSE "pg_dir",
                                       !.refs = m.refs, !.path = m.orig, !.metas = rest]
        BY <1>10 DEF PurgeRows
    <2>3. \/ rows' \subseteq rows /\ op' = NextMeta(op.metas \ {m})
          \/ /\ rows' = rows \ (IF m.refs # {} THEN rows \cap m.refs ELSE RowsAt(m.orig))
             /\ op' = [op EXCEPT !.pc = IF m.refs # {} THEN "pg_blobs" ELSE "pg_dir",
                                 !.refs = m.refs, !.path = m.orig, !.metas = op.metas \ {m}]
        BY <2>2, AllOrNothing
    <2>4. CASE rows' \subseteq rows /\ op' = NextMeta(op.metas \ {m})
      <3>1. op'.pc \in {"idle", "pg_rows"}
          BY <2>4 DEF NextMeta, Idle
      <3> QED
          BY <1>1, <2>1, <2>4, <3>1 DEF Tracked, Backed
    <2>5. CASE /\ m.refs # {} /\ rows' = rows \ (rows \cap m.refs)
               /\ op' = [op EXCEPT !.pc = "pg_blobs", !.refs = m.refs,
                                     !.path = m.orig, !.metas = op.metas \ {m}]
      <3>1. op'.pc = "pg_blobs" /\ op'.refs = m.refs
          BY <1>1, <2>5 DEF Handler
      <3> QED
          BY <1>1, <2>1, <2>5, <3>1 DEF Tracked, Backed
    <2>6. CASE /\ m.refs = {} /\ rows' = rows \ RowsAt(m.orig)
               /\ op' = [op EXCEPT !.pc = "pg_dir", !.refs = m.refs,
                                     !.path = m.orig, !.metas = op.metas \ {m}]
      <3>1. op'.pc = "pg_dir" /\ op'.path = m.orig
          BY <1>1, <2>6 DEF Handler
      <3> QED
          BY <1>1, <2>1, <2>6, <3>1 DEF Tracked, Backed, RowsAt, BlobsAt
    <2> QED
        BY <2>3, <2>4, <2>5, <2>6
  <1> QED
      BY <1>2, <1>3, <1>4, <1>5, <1>6, <1>7, <1>8, <1>9, <1>10 DEF HandlerStep

LEMMA JanitorTracked ==
    ASSUME Overlap = FALSE, Good, Alone, Tracked, JanitorStep
    PROVE  Tracked'
  <1>1. op.pc = "idle" /\ op' = op /\ jan \in Janitor
      BY JanitorAlone, JanitorFrame DEF Good, TypeOK
  <1>2. CASE JanitorStart \/ JanitorSelect \/ JanitorPruneFail
    <2>1. /\ UNCHANGED <<rows, blobs, stuck>> /\ jan.pc \in {"idle", "purge_rows", "del_rows"}
          /\ jan'.gone = {} /\ jan'.pc # "purge_dir"
      <3>1. CASE JanitorStart
          BY <3>1 DEF JanitorStart, disk, JIdle
      <3>2. CASE JanitorSelect
          BY <3>2 DEF JanitorSelect, disk, JIdle
      <3>3. CASE JanitorPruneFail
          BY <3>3 DEF JanitorPruneFail, disk, JIdle
      <3> QED
          BY <1>2, <3>1, <3>2, <3>3
    <2> QED
        BY <1>1, <2>1 DEF Tracked, Backed
  <1>3. CASE \/ JanitorScanDone \/ JanitorRemove \/ JanitorUnlink
             \/ \E t \in jan.list : JanitorRead(t)
    <2>1. UNCHANGED <<rows, blobs, stuck>>
        BY <1>3 DEF JanitorScanDone, JanitorRemove, JanitorUnlink, JanitorRead, disk
    <2>2. /\ jan.pc \in {"scan", "remove", "unlink"} /\ jan'.gone = jan.gone
          /\ jan'.pc \in {"scan", "remove", "unlink", "purge_rows"}
        BY <1>1, <1>3 DEF JanitorScanDone, JanitorRemove, JanitorUnlink, JanitorRead, Janitor
    <2> QED
        BY <1>1, <2>1, <2>2 DEF Tracked, Backed
  <1>4. ASSUME NEW m \in jan.todo, JanitorPurgeRows(m)
        PROVE  Tracked'
    <2>1. /\ jan.pc = "purge_rows" /\ blobs' = blobs /\ stuck'.blobs = stuck.blobs
          /\ jan.gone = {} /\ Backed(blobs)
        BY <1>1, <1>4 DEF JanitorPurgeRows, Tracked, Good, TypeOK, Stuck
    <2>2. PICK gone \in Committed(RowsAt(m.orig)) :
            /\ rows' = rows \ gone
            /\ jan' = IF gone = {} THEN [jan EXCEPT !.todo = @ \ {m}]
                      ELSE [jan EXCEPT !.todo = @ \ {m}, !.pc = "purge_dir", !.meta = m]
        BY <1>4 DEF JanitorPurgeRows
    <2>3. CASE gone = {}
      <3>1. jan'.pc = "purge_rows" /\ jan'.gone = {}
          BY <1>1, <2>1, <2>2, <2>3 DEF Janitor
      <3> QED
          BY <1>1, <2>1, <2>2, <3>1 DEF Tracked, Backed
    <2>4. CASE gone # {}
      <3>1. jan'.pc = "purge_dir" /\ jan'.gone = {} /\ jan'.meta = m
          BY <1>1, <2>1, <2>2, <2>4 DEF Janitor
      <3>2. rows' = rows \ RowsAt(m.orig)
          BY <2>2, <2>4, AllOrNothing
      <3> QED
          BY <1>1, <2>1, <3>1, <3>2 DEF Tracked, Backed, RowsAt, BlobsAt
    <2> QED
        BY <2>3, <2>4
  <1>5. CASE JanitorPurgeDir
    <2>1. /\ jan.pc = "purge_dir" /\ rows' = rows /\ stuck' = stuck
          /\ jan'.pc = "purge_rows" /\ jan'.gone = {}
        BY <1>1, <1>5 DEF JanitorPurgeDir, Tracked, Janitor
    <2>2. blobs \ BlobsAt(jan.meta.orig) \subseteq blobs'
        BY <1>5, DonePart DEF JanitorPurgeDir
    <2> QED
        BY <1>1, <2>1, <2>2 DEF Tracked, Backed
  <1>6. ASSUME NEW v \in jan.sel, JanitorDeleteRow(v)
        PROVE  Tracked'
    <2>1. /\ jan.pc = "del_rows" /\ rows' = rows \ {v} /\ blobs' = blobs /\ stuck' = stuck
          /\ jan'.gone = jan.gone \cup {v} /\ jan'.pc \in {"del_rows", "del_blobs"}
        BY <1>1, <1>6 DEF JanitorDeleteRow, Janitor
    <2> QED
        BY <1>1, <2>1 DEF Tracked, Backed
  <1>7. ASSUME NEW v \in jan.gone, JanitorPruneBlob(v)
        PROVE  Tracked'
    <2>1. /\ jan.pc = "del_blobs" /\ rows' = rows /\ stuck' = stuck
          /\ jan'.gone = jan.gone \ {v} /\ jan'.pc \in {"idle", "del_blobs"}
          /\ jan'.pc = "idle" => jan'.gone = {}
        BY <1>1, <1>7 DEF JanitorPruneBlob, Janitor, JIdle
    <2>2. blobs \ {v} \subseteq blobs'
        BY <1>7, DonePart DEF JanitorPruneBlob
    <2> QED
        BY <1>1, <2>1, <2>2 DEF Tracked, Backed
  <1> QED
      BY <1>2, <1>3, <1>4, <1>5, <1>6, <1>7 DEF JanitorStep

\* One request or janitor pass at a time and with no crash, every index row has
\* its blob whenever nothing is in flight, unless a failed relocation left that
\* very blob behind: whatever else fails - the commit of an upload, a statement on
\* the index, the removal of blobs - keeps index and blobs in step.
THEOREM IndexHasItsBlobs ==
    ASSUME Overlap = FALSE
    PROVE  Spec => []IndexSound
  <1> DEFINE Inv == Good /\ Alone /\ InStep
  <1>1. Init => Inv
      BY InitGood, InitAlone DEF Init, InStep, Tracked, Backed, Idle, JIdle
  <1>2. Inv /\ [Next]_vars => Inv'
    <2> SUFFICES ASSUME Inv, [Next]_vars, crashes' = 0 PROVE Tracked'
        BY NextGood, StepAlone DEF InStep
    <2>1. crashes \in Nat
        BY DEF Good, TypeOK
    <2>2. ~Crash
        BY <2>1 DEF Crash
    <2>3. crashes = 0 /\ Tracked
        BY <2>2, RequestFrame, HandlerFrame, JanitorFrame DEF Next, Expire, vars, InStep
    <2>4. CASE (\E t \in TrashId : Expire(t)) \/ UNCHANGED vars
        BY <2>3, <2>4 DEF Expire, vars, Tracked, Backed, BlobsAt
    <2> QED
        BY <2>2, <2>3, <2>4, RequestTracked, HandlerTracked, JanitorTracked DEF Next
  <1>3. Inv => IndexSound
      BY DEF InStep, Tracked, Backed, IndexSound, Quiet, Idle, JIdle
  <1> QED
      BY <1>1, <1>2, <1>3, PTL DEF Spec

-----------------------------------------------------------------------------
(* What a prune pass keeps                                                   *)

LEMMA Least ==
    ASSUME NEW T \in SUBSET Nat, T # {}
    PROVE  \E m \in T : \A n \in T : m <= n
  <1>1. IsWellFoundedOn(OpToRel(<, Nat), Nat)
      BY NatLessThanWellFounded
  <1>2. PICK m \in T : \A n \in T : ~(<<n, m>> \in OpToRel(<, Nat))
      BY <1>1, WFMin
  <1>3. \A n \in T : ~(n < m)
      BY <1>2 DEF OpToRel
  <1> QED
      BY <1>3

LEMMA RebaseFinite ==
    ASSUME NEW S, IsFiniteSet(S), NEW q
    PROVE  IsFiniteSet(Rebase(S, q))
  <1> DEFINE f == [v \in S |-> [v EXCEPT !.path = q]]
  <1>1. f \in Surjection(S, Rebase(S, q))
      BY DEF Surjection, Rebase
  <1> QED
      BY <1>1, FS_Surjection

\* The index is finite, and so is what is about to be added to it.
Few == IsFiniteSet(rows) /\ IsFiniteSet(op.snap)

LEMMA SnapStep ==
    ASSUME Good, [Next]_vars
    PROVE  op'.snap \subseteq op.snap \/ \E p \in Path : op'.snap = Snapshot(p)
  <1>1. op \in Handler /\ Idle.snap = {}
      BY DEF Good, TypeOK, Idle
  <1>2. CASE \E p \in Path : UploadOver(p)
    <2>1. PICK p \in Path : UploadOver(p)
        BY <1>2
    <2>2. op'.snap = Snapshot(p)
        BY <2>1 DEF UploadOver, Idle
    <2> QED
        BY <2>2
  <1>3. CASE \E v \in rows : VersionRestoreBegin(v)
    <2>1. PICK v \in rows : VersionRestoreBegin(v)
        BY <1>3
    <2>2. v.path \in Path
        BY DEF Good, TypeOK, Version
    <2>3. op'.snap = {} \/ op'.snap = Snapshot(v.path)
        BY <2>1 DEF VersionRestoreBegin, Idle
    <2> QED
        BY <2>2, <2>3
  <1>4. CASE \/ \E p, q \in Path : UploadFresh(p, q) \/ Move(p, q) \/ Copy(p, q)
             \/ \E p \in Path : DeleteBegin(p)
             \/ \E t \in TrashId : RestoreBegin(t) \/ PurgeBegin(t)
             \/ EmptyBegin
    <2>1. op'.snap = {} \/ op' = op
      <3>1. CASE EmptyBegin
        <4>1. op' = [Idle EXCEPT !.pc = "em_remove",
                                 !.metas = {sidecar[t] : t \in {u \in TrashId : Listed(u)}}]
            BY <3>1 DEF EmptyBegin
        <4> QED
            BY <4>1 DEF Idle
      <3>2. CASE ~EmptyBegin
          BY <1>4, <3>2 DEF UploadFresh, Move, Copy, DeleteBegin, RestoreBegin, PurgeBegin, Idle
      <3> QED
          BY <3>1, <3>2
    <2> QED
        BY <2>1
  <1>5. CASE VersionRestoreOpen
      BY <1>1, <1>5, OpenFacts
  <1>6. CASE PurgeRows \/ PurgeBlobs \/ PurgeDir
      BY <1>6, PurgeStepPC
  <1>7. CASE \/ UploadCommit \/ CommitFail \/ UploadIndex \/ VersionRestoreIndex
             \/ VersionRestoreCommit \/ MoveRows \/ MoveBlobs
      BY <1>1, <1>7 DEF UploadCommit, CommitFail, UploadIndex, VersionRestoreIndex,
         VersionRestoreCommit, MoveRows, MoveBlobs, Handler
  <1>8. CASE \/ DeleteMove \/ DeletePublish \/ DeleteRollback \/ RestoreMove \/ RestoreFail
             \/ RestoreUnlink \/ RestoreRows \/ RestoreBlobs
      BY <1>1, <1>8 DEF DeleteMove, DeletePublish, DeleteRollback, RestoreMove, RestoreFail,
         RestoreUnlink, RestoreRows, RestoreBlobs, Handler
  <1>9. CASE PurgeUnlink \/ EmptyDone \/ \E t \in TrashId : EmptyPayload(t) \/ EmptySidecar(t)
      BY <1>1, <1>9 DEF PurgeUnlink, EmptyDone, EmptyPayload, EmptySidecar, Handler
  <1>10. CASE JanitorStep \/ Crash \/ (\E t \in TrashId : Expire(t)) \/ UNCHANGED vars
      BY <1>1, <1>10, JanitorFrame DEF Crash, Expire, vars
  <1> QED
      BY <1>2, <1>3, <1>4, <1>5, <1>6, <1>7, <1>8, <1>9, <1>10 DEF Next, Request, HandlerStep

\* Rows are added by the indexing of a snapshot and moved by relocations.
LEMMA RowsStep ==
    ASSUME [Next]_vars
    PROVE  \/ rows' \subseteq rows \cup op.snap
           \/ \E S \in SUBSET rows : rows' = (rows \ S) \cup Rebase(S, op.dest)
  <1>1. CASE Request \/ Crash \/ (\E t \in TrashId : Expire(t)) \/ UNCHANGED vars
      BY <1>1, RequestFrame DEF Crash, Expire, vars, disk
  <1>2. CASE JanitorStep
      BY <1>2 DEF JanitorStep, JanitorStart, JanitorRead, JanitorRemove, JanitorUnlink,
         JanitorScanDone, JanitorPurgeRows, JanitorPurgeDir, JanitorSelect, JanitorDeleteRow,
         JanitorPruneBlob, JanitorPruneFail, disk
  <1>3. CASE MoveRows
    <2>1. RowsAt(op.path) \subseteq rows
        BY DEF RowsAt
    <2>2. PICK moved \in Committed(RowsAt(op.path)) :
            rows' = (rows \ moved) \cup Rebase(moved, op.dest)
        BY <1>3 DEF MoveRows
    <2>3. moved \in SUBSET rows
        BY <2>1, DonePart
    <2> QED
        BY <2>2, <2>3
  <1>4. CASE RestoreRows
    <2>1. rows \cap op.refs \in SUBSET rows
        OBVIOUS
    <2> QED
        BY <1>4, <2>1 DEF RestoreRows
  <1>5. CASE UploadIndex \/ VersionRestoreIndex
      BY <1>5, DonePart DEF UploadIndex, VersionRestoreIndex
  <1>6. CASE /\ HandlerStep /\ ~MoveRows /\ ~RestoreRows
             /\ ~UploadIndex /\ ~VersionRestoreIndex
      BY <1>6 DEF HandlerStep, UploadCommit, CommitFail, VersionRestoreOpen, VersionRestoreCommit,
         MoveBlobs, DeleteMove, DeletePublish, DeleteRollback, RestoreMove, RestoreFail,
         RestoreUnlink, RestoreBlobs, PurgeUnlink, EmptyDone, PurgeRows, PurgeBlobs, PurgeDir,
         EmptyPayload, EmptySidecar, disk
  <1> QED
      BY <1>1, <1>2, <1>3, <1>4, <1>5, <1>6 DEF Next

LEMMA StepFew ==
    ASSUME Good, Few, [Next]_vars
    PROVE  Few'
  <1>1. IsFiniteSet(op'.snap)
    <2>1. \A p \in Path : IsFiniteSet(Snapshot(p))
        BY FS_Singleton DEF Snapshot
    <2>2. CASE op'.snap \subseteq op.snap
        BY <2>2, FS_Subset DEF Few
    <2> QED
        BY <2>1, <2>2, SnapStep
  <1>2. IsFiniteSet(rows')
    <2>1. CASE rows' \subseteq rows \cup op.snap
      <3>1. IsFiniteSet(rows \cup op.snap)
          BY FS_Union DEF Few
      <3> QED
          BY <2>1, <3>1, FS_Subset
    <2>2. ASSUME NEW S \in SUBSET rows, NEW q, rows' = (rows \ S) \cup Rebase(S, q)
          PROVE  IsFiniteSet(rows')
      <3>1. IsFiniteSet(S) /\ IsFiniteSet(rows \ S)
          BY FS_Subset, FS_Difference DEF Few
      <3>2. IsFiniteSet(Rebase(S, q))
          BY <3>1, RebaseFinite
      <3> QED
          BY <2>2, <3>1, <3>2, FS_Union
    <2> QED
        BY <2>1, <2>2, RowsStep
  <1> QED
      BY <1>1, <1>2 DEF Few

Newer(S, v) == {s \in S : s.path = v.path /\ s.vid > v.vid}

LEMMA MoreIsMore ==
    ASSUME NEW T, IsFiniteSet(T), NEW S \in SUBSET T, Cardinality(S) >= Keep
    PROVE  Cardinality(T) >= Keep
  <1>1. Cardinality(S) \in Nat /\ Cardinality(T) \in Nat /\ Cardinality(S) <= Cardinality(T)
      BY FS_Subset, FS_CardinalityType
  <1> QED
      BY <1>1, KeepAssumption

\* A row in excess has enough newer ones that are not: of two rows in excess, the
\* newer one's successors are among the other's.
LEMMA EnoughStay ==
    ASSUME Good, Few, NEW v \in Excess
    PROVE  Cardinality(Newer(rows \ Excess, v)) >= Keep
  <1> DEFINE Rank(w) == Cardinality(Newer(rows, w))
             Bad == {w \in Excess : ~(Cardinality(Newer(rows \ Excess, w)) >= Keep)}
  <1>1. \A S \in SUBSET rows : \A w \in rows : /\ IsFiniteSet(Newer(S, w))
                                               /\ Cardinality(Newer(S, w)) \in Nat
    <2> SUFFICES ASSUME NEW S \in SUBSET rows, NEW w \in rows
                 PROVE  IsFiniteSet(Newer(S, w)) /\ Cardinality(Newer(S, w)) \in Nat
        OBVIOUS
    <2>1. Newer(S, w) \in SUBSET rows
        BY DEF Newer
    <2> QED
        BY <2>1, FS_Subset, FS_CardinalityType DEF Few
  <1>2. Excess \subseteq rows /\ \A w \in Excess : Rank(w) >= Keep
      BY DEF Excess, Newer
  <1>3. SUFFICES ASSUME Bad # {} PROVE FALSE
      OBVIOUS
  <1>4. PICK w \in Bad : \A u \in Bad : Rank(w) <= Rank(u)
    <2> DEFINE T == {Rank(u) : u \in Bad}
    <2>1. T \in SUBSET Nat /\ T # {}
        BY <1>1, <1>2, <1>3
    <2>2. PICK n \in T : \A k \in T : n <= k
      <3> HIDE DEF T
      <3> QED
          BY <2>1, Least
    <2> QED
        BY <2>2
  <1>5. PICK u \in Newer(rows, w) : u \in Excess
    <2> SUFFICES ASSUME \A u \in Newer(rows, w) : u \notin Excess PROVE FALSE
        OBVIOUS
    <2>1. Newer(rows \ Excess, w) = Newer(rows, w)
        BY DEF Newer
    <2> QED
        BY <2>1, <1>2
  <1>6. u.path = w.path /\ u.vid > w.vid /\ u.vid \in Nat /\ w.vid \in Nat
      BY <1>2, VidFacts DEF Newer
  <1>7. /\ Newer(rows, u) \subseteq Newer(rows, w) /\ u \notin Newer(rows, u)
        /\ Newer(rows \ Excess, u) \subseteq Newer(rows \ Excess, w)
      BY <1>6, VidFacts DEF Newer
  <1>8. Rank(u) < Rank(w)
    <2>1. Rank(u) <= Rank(w) /\ (Rank(u) = Rank(w) => Newer(rows, u) = Newer(rows, w))
        BY <1>1, <1>2, <1>5, <1>7, FS_Subset
    <2> QED
        BY <1>1, <1>2, <1>5, <1>7, <2>1
  <1>9. u \notin Bad
      BY <1>1, <1>2, <1>4, <1>5, <1>8
  <1>10. Cardinality(Newer(rows \ Excess, w)) >= Keep
      BY <1>1, <1>2, <1>5, <1>7, <1>9, MoreIsMore
  <1> QED
      BY <1>10

\* The rows selected for pruning have enough newer ones that are not selected,
\* in whatever order the selected ones are deleted.
Ranked == jan.pc = "del_rows" =>
    \A v \in jan.sel : Cardinality(Newer(rows \ jan.sel, v)) >= Keep

LEMMA StepRanked ==
    ASSUME Overlap = FALSE, Good, Alone, Few, Ranked, [Next]_vars
    PROVE  Ranked'
  <1> jan \in Janitor
      BY DEF Good, TypeOK
  <1>1. CASE Request
      BY <1>1, RequestFrame DEF Ranked
  <1>2. CASE HandlerStep
      BY <1>2, HandlerFrame DEF Ranked, Alone
  <1>3. CASE JanitorSelect
    <2>1. CASE Excess = {}
        BY <1>3, <2>1 DEF JanitorSelect, JIdle, Ranked
    <2>2. CASE Excess # {}
      <3>1. jan'.pc = "del_rows" /\ jan'.sel = Excess /\ rows' = rows
          BY <1>3, <2>2 DEF JanitorSelect, JIdle, disk
      <3> QED
          BY <3>1, EnoughStay DEF Ranked, Newer
    <2> QED
        BY <2>1, <2>2
  <1>4. ASSUME NEW v \in jan.sel, JanitorDeleteRow(v)
        PROVE  Ranked'
    <2>1. jan.pc = "del_rows" /\ rows' = rows \ {v} /\ jan'.sel = jan.sel \ {v}
        BY <1>4 DEF JanitorDeleteRow, Janitor
    <2>2. rows' \ jan'.sel = rows \ jan.sel
        BY <2>1
    <2>3. \A w \in jan'.sel : Cardinality(Newer(rows' \ jan'.sel, w)) >= Keep
        BY <2>1, <2>2 DEF Ranked
    <2> QED
        BY <2>3 DEF Ranked, Newer
  <1>5. CASE JanitorStep /\ ~JanitorSelect /\ ~\E v \in jan.sel : JanitorDeleteRow(v)
    <2>1. jan'.pc # "del_rows"
      <3>1. CASE JanitorStart \/ JanitorRemove \/ JanitorUnlink \/ JanitorScanDone \/ JanitorPurgeDir
          BY <3>1 DEF JanitorStart, JanitorRemove, JanitorUnlink, JanitorScanDone,
             JanitorPurgeDir, JIdle, Janitor
      <3>2. CASE (\E t \in jan.list : JanitorRead(t)) \/ (\E m \in jan.todo : JanitorPurgeRows(m))
          BY <3>2 DEF JanitorRead, JanitorPurgeRows, Janitor
      <3>3. CASE \E v \in jan.gone : JanitorPruneBlob(v)
          BY <3>3 DEF JanitorPruneBlob, JIdle, Janitor
      <3>4. CASE JanitorPruneFail
          BY <3>4 DEF JanitorPruneFail, JIdle
      <3> QED
          BY <1>5, <3>1, <3>2, <3>3, <3>4 DEF JanitorStep
    <2> QED
        BY <2>1 DEF Ranked
  <1>6. CASE Crash
      BY <1>6 DEF Crash, JIdle, Ranked
  <1>7. CASE (\E t \in TrashId : Expire(t)) \/ UNCHANGED vars
      BY <1>7 DEF Expire, vars, Ranked, Newer
  <1> QED
      BY <1>1, <1>2, <1>3, <1>4, <1>5, <1>6, <1>7 DEF Next

\* With no request under way, a prune pass deletes only rows that are not among
\* the newest Keep of their path, although it deletes what it selected at the
\* start one statement at a time.
THEOREM PruningKeepsNewest ==
    ASSUME Overlap = FALSE
    PROVE  Spec => PruneKeepsNewest
  <1> DEFINE Inv == Good /\ Alone /\ Few /\ Ranked
             Step == jan.pc = "del_rows" /\ op' = op => rows \ Excess \subseteq rows'
  <1>1. Init => Inv
      BY InitGood, InitAlone, FS_EmptySet DEF Init, Few, Ranked, Idle, JIdle
  <1>2. Inv /\ [Next]_vars => Inv'
      BY NextGood, StepAlone, StepFew, StepRanked
  <1>3. Inv /\ [Next]_vars => [Step]_vars
    <2> SUFFICES ASSUME Inv, Next, jan.pc = "del_rows", op' = op,
                        NEW r \in rows \ Excess, r \notin rows'
                 PROVE  FALSE
        OBVIOUS
    <2>1. \E v \in jan.sel : JanitorDeleteRow(v)
      <3>1. ~Request /\ ~HandlerStep
          BY RequestFrame, HandlerFrame DEF Alone
      <3>2. rows' # rows
          OBVIOUS
      <3>3. CASE JanitorStep
          BY <3>2, <3>3 DEF JanitorStep, JanitorStart, JanitorRead, JanitorRemove, JanitorUnlink,
             JanitorScanDone, JanitorPurgeRows, JanitorPurgeDir, JanitorSelect, JanitorPruneBlob, JanitorPruneFail, disk
      <3> QED
          BY <3>1, <3>2, <3>3 DEF Next, Crash, Expire, disk
    <2>2. r \in jan.sel
        BY <2>1 DEF JanitorDeleteRow
    <2>3. Cardinality(Newer(rows \ jan.sel, r)) >= Keep
        BY <2>2 DEF Ranked
    <2>4. Newer(rows \ jan.sel, r) \subseteq Newer(rows, r) /\ Newer(rows, r) \subseteq rows
        BY DEF Newer
    <2>5. IsFiniteSet(Newer(rows, r))
        BY <2>4, FS_Subset DEF Few
    <2>6. Cardinality(Newer(rows, r)) >= Keep
        BY <2>3, <2>4, <2>5, MoreIsMore
    <2> QED
        BY <2>6 DEF Excess, Newer
  <1>4. Spec => [][Step]_vars
      BY <1>1, <1>2, <1>3, PTL DEF Spec
  <1> QED
      BY <1>4 DEF PruneKeepsNewest

-----------------------------------------------------------------------------
(* Where history is                                                          *)

\* A row names the file at its path, or the one that was deleted from it.
Owned ==
    /\ \A p \in Path : live[p].item = 0 => live[p] = Absent
    /\ \A t \in TrashId : payload[t].item = 0 => payload[t] = Absent
    /\ \A r \in rows : live[r.path] # Absent => live[r.path].item = r.file.item
    /\ \A r \in rows, t \in TrashId :
         sidecar[t].orig = r.path /\ payload[t] # Absent => payload[t].item = r.file.item

\* A listed item claims its original path: nothing lives there, no other item
\* claims it, and it has all the rows left there, or recorded none.
Claims ==
    /\ \A t \in TrashId, p \in Path : sidecar[t].orig = p =>
         live[p] = Absent \/ (op.pc = "rs_unlink" /\ op.tid = t)
    /\ \A t, u \in TrashId : Listed(t) /\ sidecar[t].orig = sidecar[u].orig => t = u
    /\ \A r \in rows, t \in TrashId : sidecar[t].orig = r.path =>
         sidecar[t].refs = {} \/ r \in sidecar[t].refs

\* Uploads and version restores.
Writing ==
    /\ op.pc \in {"up_commit", "vr_commit"} =>
         /\ op.file.item # 0
         /\ \A r \in rows : r.path = op.dest => r.file.item = op.file.item
         /\ \A t \in TrashId : sidecar[t].orig # op.dest
    /\ op.pc = "up_commit" => \A s \in op.snap : s.path = op.dest /\ s.file.item = op.file.item
    /\ op.pc \in {"up_index", "vr_index"} =>
         \A s \in op.snap : live[s.path] # Absent /\ live[s.path].item = s.file.item
    /\ op.pc \in {"vr_index", "vr_open"} => live[op.path] # Absent

\* Moves, deletions and restores; a restore always goes home.
Moving ==
    /\ op.pc = "mv_rows" =>
         /\ live[op.dest] # Absent
         /\ \A r \in rows : r.path = op.path => live[op.dest].item = r.file.item
    /\ op.pc = "del_move" => live[op.path] # Absent
    /\ op.pc \in {"del_move", "del_publish"} =>
         \A r \in rows : r.path = op.path => op.refs = {} \/ r \in op.refs
    /\ op.pc = "del_publish" =>
         /\ payload[op.tid].item # 0
         /\ \A t \in TrashId : sidecar[t].orig # op.path
         /\ \A r \in rows : r.path = op.path => payload[op.tid].item = r.file.item
    /\ op.pc \in {"rs_move", "rs_unlink"} => sidecar[op.tid].orig \in {op.path, NoPath}
    /\ op.pc = "rs_unlink" => op.dest = op.path /\ op.path \in Path /\ live[op.path] # Absent
    /\ op.pc \notin {"rs_rows", "rs_blobs"}

\* Purges.
PurgePC == {"pg_unlink", "em_remove", "pg_rows", "pg_blobs", "pg_dir"}
Purged ==
    /\ op.pc = "pg_unlink" /\ Listed(op.tid) => sidecar[op.tid] \in op.metas
    /\ op.pc = "em_remove" => \A t \in TrashId : Listed(t) => sidecar[t] \in op.metas
    /\ op.pc \in PurgePC => \A m \in op.metas, r \in rows :
                             r.path = m.orig => m.refs = {} \/ r \in m.refs

\* The janitor's copy of a sidecar is true while the sidecar exists.
Reading == jan.pc \in {"remove", "unlink"} => sidecar[jan.tid] \in {jan.meta, NoMeta}

Placed(r) == \/ live[r.path].item = r.file.item
             \/ \E t \in TrashId : sidecar[t].orig = r.path /\ payload[t].item = r.file.item

\* A step still to come will move or drop the rows at p, or list the item that has
\* them.
DueOp(p) ==
    \/ op.pc \in {"mv_rows", "del_publish"} /\ p = op.path
    \/ op.pc = "pg_unlink" /\ sidecar[op.tid].orig = p
    \/ op.pc \in PurgePC \ {"pg_unlink"} /\ \E m \in op.metas : m.orig = p
DueJan(p) ==
    \/ jan.pc = "unlink" /\ jan.meta.orig = p
    \/ /\ jan.pc \in {"scan", "remove", "unlink", "purge_rows", "purge_dir"}
       /\ \E m \in jan.todo : m.orig = p

\* The rows that no failed relocation or purge has left where they were.
Unstuck == {r \in rows : r.vid \notin stuck.rows}

Accounted == \A r \in Unstuck : Placed(r) \/ DueOp(r.path) \/ DueJan(r.path)

History == Owned /\ Claims /\ Writing /\ Moving /\ Purged /\ Reading /\ Accounted

LEMMA Typed ==
    ASSUME Good
    PROVE  /\ live \in [Path -> File] /\ payload \in [TrashId -> File]
           /\ sidecar \in [TrashId -> Meta]
           /\ op \in Handler /\ jan \in Janitor
           /\ \A r \in rows : r \in Version /\ r.path \in Path
           /\ \A s \in op.snap : s \in Version /\ s.path \in Path
           /\ NoPath \notin Path /\ NoMeta.orig = NoPath /\ Absent.item = 0
           /\ Idle.pc = "idle" /\ Idle.snap = {} /\ Idle.metas = {}
           /\ \A t \in TrashId : Listed(t) <=> sidecar[t].orig \in Path
           /\ \A r \in Unstuck : r \in rows
  <1>1. /\ live \in [Path -> File] /\ payload \in [TrashId -> File]
        /\ sidecar \in [TrashId -> Meta]
        /\ op \in Handler /\ jan \in Janitor
        /\ \A r \in rows : r \in Version
        /\ \A s \in op.snap : s \in Version
      BY DEF Good, TypeOK, Handler
  <1>2. \A r \in Version : r.path \in Path
      BY DEF Version
  <1>3. NoPath \notin Path /\ NoMeta.orig = NoPath /\ Absent.item = 0
      BY PathAssumption DEF PathAssumption, NoMeta, Absent
  <1>4. \A t \in TrashId : Listed(t) <=> sidecar[t].orig \in Path
      BY <1>3 DEF Good, InFlight, Listed
  <1> QED
      BY <1>1, <1>2, <1>3, <1>4 DEF Idle, Unstuck

\* What a failure left behind stays so.
LEMMA UnstuckStep ==
    ASSUME Good, Next
    PROVE  /\ Unstuck' \cap rows \subseteq Unstuck
           /\ rows' \subseteq rows => Unstuck' \subseteq Unstuck
  <1>1. \A S : /\ stuck.rows \subseteq [stuck EXCEPT !.rows = @ \cup S].rows
               /\ stuck.rows = [stuck EXCEPT !.blobs = @ \cup S].rows
      BY DEF Good, TypeOK, Stuck
  <1>2. CASE MoveRows \/ MoveBlobs \/ RestoreRows \/ RestoreBlobs \/ PurgeRows
    <2>1. stuck' = stuck \/ \E S : \/ stuck' = [stuck EXCEPT !.rows = @ \cup S]
                                  \/ stuck' = [stuck EXCEPT !.blobs = @ \cup S]
        BY <1>2 DEF MoveRows, MoveBlobs, RestoreRows, RestoreBlobs, PurgeRows
    <2> QED
        BY <1>1, <2>1 DEF Unstuck
  <1>3. CASE \E m \in jan.todo : JanitorPurgeRows(m)
    <2>1. \E S : stuck' = [stuck EXCEPT !.rows = @ \cup S]
        BY <1>3 DEF JanitorPurgeRows
    <2> QED
        BY <1>1, <2>1 DEF Unstuck
  <1>4. CASE HandlerStep /\ ~(MoveRows \/ MoveBlobs \/ RestoreRows \/ RestoreBlobs \/ PurgeRows)
    <2>1. stuck' = stuck
        BY <1>4 DEF HandlerStep, UploadCommit, CommitFail, UploadIndex, VersionRestoreIndex,
           VersionRestoreOpen, VersionRestoreCommit, DeleteMove, DeletePublish, DeleteRollback,
           RestoreMove, RestoreFail, RestoreUnlink, PurgeUnlink, EmptyDone, PurgeBlobs, PurgeDir,
           EmptyPayload, EmptySidecar
    <2> QED
        BY <2>1 DEF Unstuck
  <1>5. CASE JanitorStep /\ ~\E m \in jan.todo : JanitorPurgeRows(m)
    <2>1. stuck' = stuck
        BY <1>5 DEF JanitorStep, JanitorStart, JanitorRead, JanitorRemove, JanitorUnlink,
           JanitorScanDone, JanitorPurgeDir, JanitorSelect, JanitorDeleteRow, JanitorPruneBlob,
           JanitorPruneFail
    <2> QED
        BY <2>1 DEF Unstuck
  <1>6. CASE Request \/ Crash \/ \E t \in TrashId : Expire(t)
    <2>1. stuck' = stuck
        BY <1>6, RequestFrame DEF Crash, Expire
    <2> QED
        BY <2>1 DEF Unstuck
  <1> QED
      BY <1>2, <1>3, <1>4, <1>5, <1>6 DEF Next

\* Steps that change neither files nor trash nor index.
LEMMA SameData ==
    ASSUME Next, Good, Owned, Claims, Reading, Accounted,
           UNCHANGED <<live, payload, sidecar, rows, jan>>,
           op.pc # "rs_unlink",
           \A p \in Path : DueOp(p) => DueOp(p)'
    PROVE  Owned' /\ Claims' /\ Reading' /\ Accounted'
  <1>1. Owned' /\ Claims' /\ Reading'
      BY DEF Owned, Claims, Reading, Listed
  <1>2. \A r \in rows : Placed(r)' = Placed(r) /\ DueJan(r.path)' = DueJan(r.path)
      BY DEF Placed, DueJan
  <1>3. Accounted'
      BY <1>2, Typed, UnstuckStep DEF Accounted
  <1> QED
      BY <1>1, <1>3

LEMMA NothingDue ==
    ASSUME op.pc \notin {"mv_rows", "del_publish"} \cup PurgePC
    PROVE  \A p : ~DueOp(p)
  BY DEF DueOp, PurgePC

\* At rest, or with nothing but blobs left to move.
LEMMA NothingPending ==
    ASSUME op'.pc \in {"idle", "mv_blobs"}
    PROVE  Writing' /\ Moving' /\ Purged'
  BY DEF Writing, Moving, Purged, PurgePC

LEMMA Vacant ==
    ASSUME Reuse = FALSE, NEW q, MayOccupy(q)
    PROVE  (\A r \in rows : r.path # q) /\ (\A t \in TrashId : sidecar[t].orig # q)
  BY DEF MayOccupy, RowsAt

\* Where something lives nothing is claimed while no restore is being completed.
LEMMA Unclaimed ==
    ASSUME Claims, op.pc # "rs_unlink", NEW p \in Path, live[p] # Absent
    PROVE  \A t \in TrashId : sidecar[t].orig # p
  BY DEF Claims

\* Requests that only take note of what there is.
LEMMA ReadingRequestHistory ==
    ASSUME Next, Good, Purgeable, History, Reuse = FALSE, Request,
           ~\E p, q \in Path : Move(p, q) \/ Copy(p, q),
           ~\E t \in TrashId : PurgeBegin(t)
    PROVE  History'
  <1> USE DEF History
  <1>1. op.pc = "idle" /\ UNCHANGED <<live, payload, sidecar, rows, jan>>
    <2>1. UNCHANGED <<live, payload>>
        BY DEF Request, UploadFresh, UploadOver, DeleteBegin, VersionRestoreBegin, RestoreBegin,
           EmptyBegin, disk
    <2> QED
        BY <2>1, RequestFrame
  <1>2. Owned' /\ Claims' /\ Reading' /\ Accounted'
      BY <1>1, NothingDue, SameData DEF PurgePC
  <1>3. ASSUME NEW p \in Path, NEW q \in Path, UploadFresh(p, q)
        PROVE  History'
    <2>1. /\ op'.pc = "up_commit" /\ op'.dest = q /\ op'.file.item = next.item /\ op'.snap = {}
          /\ MayOccupy(q)
        BY <1>3 DEF UploadFresh, Idle
    <2>2. next.item # 0
        BY DEF Good, TypeOK, Counters
    <2> QED
        BY <1>1, <1>2, <2>1, <2>2, Vacant DEF Writing, Moving, Purged, PurgePC
  <1>4. ASSUME NEW p \in Path, UploadOver(p)
        PROVE  History'
    <2>1. /\ op'.pc = "up_commit" /\ op'.dest = p /\ op'.file.item = live[p].item
          /\ op'.snap = Snapshot(p) /\ live[p] # Absent
        BY <1>4 DEF UploadOver, Idle
    <2>2. \A s \in Snapshot(p) : s.path = p /\ s.file = live[p]
        BY DEF Snapshot
    <2>3. \A t \in TrashId : sidecar[t].orig # p
        BY <1>1, <2>1, Unclaimed
    <2>4. live[p].item # 0 /\ \A r \in rows : r.path = p => r.file.item = live[p].item
        BY <2>1 DEF Owned
    <2>5. Writing'
        BY <1>1, <2>1, <2>2, <2>3, <2>4 DEF Writing
    <2> QED
        BY <1>1, <1>2, <2>1, <2>5 DEF Moving, Purged, PurgePC
  <1>5. ASSUME NEW v \in rows, VersionRestoreBegin(v)
        PROVE  History'
    <2>1. v.path \in Path
        BY Typed
    <2>2. live[v.path] # Absent
        BY <1>5, Vacant DEF VersionRestoreBegin
    <2>3. op'.pc = "vr_index" /\ op'.path = v.path /\ op'.snap = Snapshot(v.path)
        BY <1>5, <2>2 DEF VersionRestoreBegin, Idle
    <2>4. \A s \in Snapshot(v.path) : s.path = v.path /\ s.file = live[v.path]
        BY DEF Snapshot
    <2>5. Writing'
        BY <1>1, <2>2, <2>3, <2>4 DEF Writing
    <2> QED
        BY <1>2, <2>3, <2>5 DEF Moving, Purged, PurgePC
  <1>6. ASSUME NEW p \in Path, DeleteBegin(p)
        PROVE  History'
    <2>1. PICK refs \in Committed(RowsAt(p)) :
            op' = [Idle EXCEPT !.pc = "del_move", !.path = p, !.tid = next.tid, !.refs = refs]
        BY <1>6 DEF DeleteBegin
    <2>2. /\ op'.pc = "del_move" /\ op'.path = p /\ op'.refs = refs /\ live[p] # Absent
        BY <1>6, <2>1 DEF DeleteBegin, Idle
    <2>3. refs = {} \/ \A r \in rows : r.path = p => r \in refs
        BY AllOrNothing DEF RowsAt
    <2>4. Moving'
        BY <1>1, <2>2, <2>3 DEF Moving
    <2> QED
        BY <1>2, <2>2, <2>4 DEF Writing, Purged, PurgePC
  <1>7. ASSUME NEW t \in TrashId, RestoreBegin(t)
        PROVE  History'
    <2>1. op'.pc = "rs_move" /\ op'.tid = t /\ op'.path = sidecar[t].orig
        BY <1>7 DEF RestoreBegin, Idle
    <2>2. Moving'
        BY <1>1, <2>1 DEF Moving
    <2> QED
        BY <1>2, <2>1, <2>2 DEF Writing, Purged, PurgePC
  <1>8. CASE EmptyBegin
    <2> DEFINE M == {sidecar[t] : t \in {u \in TrashId : Listed(u)}}
    <2>1. op' = [Idle EXCEPT !.pc = "em_remove", !.metas = M]
        BY <1>8 DEF EmptyBegin
    <2>2. op'.pc = "em_remove" /\ op'.metas = M
        BY <2>1 DEF Idle
    <2>3. \A t \in TrashId : Listed(t)' => sidecar'[t] \in M
        BY <1>1 DEF Listed
    <2>4. \A m \in M, r \in rows' : r.path = m.orig => m.refs = {} \/ r \in m.refs
        BY <1>1 DEF Claims
    <2>5. Purged'
        BY <2>2, <2>3, <2>4 DEF Purged
    <2> QED
        BY <1>2, <2>2, <2>5 DEF Writing, Moving
  <1> QED
      BY <1>3, <1>4, <1>5, <1>6, <1>7, <1>8 DEF Request

\* A file comes to an unclaimed path without history.
LEMMA MoveHistory ==
    ASSUME Next, Good, Purgeable, History, Reuse = FALSE, NEW p \in Path, NEW q \in Path, Move(p, q)
    PROVE  History'
  <1> USE DEF History
  <1>1. /\ op.pc = "idle" /\ UNCHANGED <<payload, sidecar, rows, jan>>
        /\ live' = [live EXCEPT ![q] = live[p], ![p] = Absent]
        /\ live[p] # Absent /\ live[q] = Absent /\ MayOccupy(q)
      BY DEF Move, Accepting
  <1>2. op'.pc = "mv_rows" /\ op'.path = p /\ op'.dest = q
      BY DEF Move, Idle
  <1>3. /\ p # q /\ live'[q] = live[p] /\ live'[p] = Absent
        /\ \A x \in Path \ {p, q} : live'[x] = live[x]
      BY <1>1, Typed
  <1>4. /\ \A t \in TrashId : sidecar[t].orig \notin {p, q}
        /\ \A r \in rows : r.path # q
      BY <1>1, Vacant, Unclaimed
  <1>5. Owned'
      BY <1>1, <1>3, <1>4, Typed DEF Owned
  <1>6. Claims'
    <2>1. \A t \in TrashId, x \in Path : sidecar[t].orig = x => live'[x] = Absent
        BY <1>1, <1>3, <1>4 DEF Claims
    <2> QED
        BY <1>1, <2>1 DEF Claims, Listed
  <1>7. Writing' /\ Purged' /\ Reading'
      BY <1>1, <1>2 DEF Writing, Purged, Reading, PurgePC
  <1>8. Moving'
    <2>1. \A r \in rows : r.path = p => live'[q].item = r.file.item
        BY <1>1, <1>3 DEF Owned
    <2> QED
        BY <1>1, <1>2, <1>3, <2>1 DEF Moving
  <1>9. Accounted'
    <2> SUFFICES ASSUME NEW r \in Unstuck
                 PROVE  Placed(r)' \/ DueOp(r.path)' \/ DueJan(r.path)'
        BY <1>1, UnstuckStep DEF Accounted
    <2>1. CASE r.path = p
        BY <1>2, <2>1 DEF DueOp
    <2>2. CASE r.path # p
      <3>1. live'[r.path] = live[r.path]
          BY <1>3, <1>4, <2>2, Typed
      <3>2. Placed(r)' = Placed(r) /\ DueJan(r.path)' = DueJan(r.path) /\ ~DueOp(r.path)
          BY <1>1, <3>1 DEF Placed, DueJan, DueOp, PurgePC
      <3> QED
          BY <3>2 DEF Accounted
    <2> QED
        BY <2>1, <2>2
  <1> QED
      BY <1>5, <1>6, <1>7, <1>8, <1>9

LEMMA CopyHistory ==
    ASSUME Next, Good, Purgeable, History, Reuse = FALSE, NEW p \in Path, NEW q \in Path, Copy(p, q)
    PROVE  History'
  <1> USE DEF History
  <1>1. /\ op.pc = "idle" /\ UNCHANGED <<payload, sidecar, rows, jan, op>>
        /\ live' = [live EXCEPT ![q] = [item |-> next.item, data |-> live[p].data]]
        /\ MayOccupy(q)
      BY DEF Copy, Accepting
  <1>2. next.item # 0
      BY DEF Good, TypeOK, Counters
  <1>3. /\ live'[q].item = next.item
        /\ \A x \in Path \ {q} : live'[x] = live[x]
      BY <1>1, Typed
  <1>4. /\ \A t \in TrashId : sidecar[t].orig # q
        /\ \A r \in rows : r.path # q
      BY <1>1, Vacant
  <1>5. Owned'
      BY <1>1, <1>2, <1>3, <1>4, Typed DEF Owned
  <1>6. Claims'
    <2>1. \A t \in TrashId, x \in Path : sidecar[t].orig = x => live'[x] = Absent
        BY <1>1, <1>3, <1>4 DEF Claims
    <2> QED
        BY <1>1, <2>1 DEF Claims, Listed
  <1>7. Reading'
      BY <1>1 DEF Reading
  <1>8. Accounted'
    <2> SUFFICES ASSUME NEW r \in Unstuck
                 PROVE  Placed(r)' \/ DueOp(r.path)' \/ DueJan(r.path)'
        BY <1>1, UnstuckStep DEF Accounted
    <2>1. live'[r.path] = live[r.path]
        BY <1>3, <1>4, Typed
    <2>2. Placed(r)' = Placed(r) /\ DueJan(r.path)' = DueJan(r.path) /\ ~DueOp(r.path)
        BY <1>1, <2>1 DEF Placed, DueJan, DueOp, PurgePC
    <2> QED
        BY <2>2 DEF Accounted
  <1> QED
      BY <1>1, <1>5, <1>6, <1>7, <1>8, NothingPending

\* What is in the trash dwindles; nothing else changes.
LEMMA TrashDwindles ==
    ASSUME Good, History, live' = live, rows' \subseteq rows,
           \A t \in TrashId : payload'[t] \in {payload[t], Absent},
           \A t \in TrashId : sidecar'[t] \in {sidecar[t], NoMeta},
           op.pc = "rs_unlink" => \/ op'.pc = "rs_unlink" /\ op'.tid = op.tid
                                  \/ sidecar'[op.tid] = NoMeta
    PROVE  Owned' /\ Claims'
  <1> USE DEF History
  <1>1. Owned'
    <2>1. \A t \in TrashId : payload'[t].item = 0 => payload'[t] = Absent
        BY DEF Owned
    <2>2. ASSUME NEW r \in rows', NEW t \in TrashId, sidecar'[t].orig = r.path, payload'[t] # Absent
          PROVE  payload'[t].item = r.file.item
      <3>1. sidecar'[t] = sidecar[t]
          BY <2>2, Typed
      <3> QED
          BY <2>2, <3>1 DEF Owned
    <2> QED
        BY <2>1, <2>2 DEF Owned
  <1>2. Claims'
    <2>1. ASSUME NEW t \in TrashId, NEW p \in Path, sidecar'[t].orig = p
          PROVE  live'[p] = Absent \/ (op'.pc = "rs_unlink" /\ op'.tid = t)
      <3>1. sidecar'[t] = sidecar[t] /\ sidecar'[t] # NoMeta
          BY <2>1, Typed
      <3> QED
          BY <2>1, <3>1 DEF Claims
    <2>2. ASSUME NEW t \in TrashId, NEW u \in TrashId, Listed(t)', sidecar'[t].orig = sidecar'[u].orig
          PROVE  t = u
      <3>1. sidecar'[t] = sidecar[t] /\ Listed(t) /\ sidecar[t].orig \in Path
          BY <2>2, Typed DEF Listed
      <3>2. sidecar'[u] = sidecar[u]
          BY <2>2, <3>1, Typed
      <3> QED
          BY <2>2, <3>1, <3>2 DEF Claims
    <2>3. ASSUME NEW r \in rows', NEW t \in TrashId, sidecar'[t].orig = r.path
          PROVE  sidecar'[t].refs = {} \/ r \in sidecar'[t].refs
      <3>1. sidecar'[t] = sidecar[t]
          BY <2>3, Typed
      <3> QED
          BY <2>3, <3>1 DEF Claims
    <2> QED
        BY <2>1, <2>2, <2>3 DEF Claims
  <1> QED
      BY <1>1, <1>2

LEMMA ReadingKept ==
    ASSUME Purgeable, Reading, jan' = jan,
           \A t \in TrashId : \/ sidecar'[t] \in {sidecar[t], NoMeta}
                              \/ op.pc = "del_publish" /\ t = op.tid
    PROVE  Reading'
  BY DEF Purgeable, Reading

\* Steps that end a handler, or leave it with blobs to move or items to purge.
LEMMA EndingHistory ==
    ASSUME Next, Good, Purgeable, History,
           CommitFail \/ RestoreFail \/ MoveBlobs \/ EmptyDone \/ PurgeBlobs \/ PurgeDir
    PROVE  History'
  <1> USE DEF History
  <1>1. UNCHANGED <<live, payload, sidecar, rows, jan>>
      BY DEF CommitFail, RestoreFail, MoveBlobs, EmptyDone, PurgeBlobs, PurgeDir, disk
  <1>2. CASE CommitFail \/ RestoreFail \/ MoveBlobs
    <2>1. op.pc \in {"up_commit", "vr_commit", "del_move", "rs_move", "mv_blobs"} /\ op' = Idle
        BY <1>2 DEF CommitFail, RestoreFail, MoveBlobs
    <2> QED
        BY <1>1, <2>1, Typed, NothingDue, SameData, NothingPending DEF PurgePC
  <1>3. CASE EmptyDone \/ PurgeBlobs \/ PurgeDir
    <2>1. /\ op.pc \in {"em_remove", "pg_blobs", "pg_dir"}
          /\ IF op.metas = {} THEN op' = Idle ELSE op'.pc = "pg_rows" /\ op'.metas = op.metas
        BY <1>3, Typed DEF EmptyDone, PurgeBlobs, PurgeDir, NextMeta, Handler, Idle
    <2>2. \A p : DueOp(p) => DueOp(p)'
        BY <2>1 DEF DueOp, PurgePC
    <2>3. Owned' /\ Claims' /\ Reading' /\ Accounted'
        BY <1>1, <2>1, <2>2, SameData
    <2>4. CASE op.metas = {}
        BY <2>1, <2>3, <2>4, Typed, NothingPending
    <2>5. CASE op.metas # {}
        BY <1>1, <2>1, <2>3, <2>5 DEF Writing, Moving, Purged, PurgePC
    <2> QED
        BY <2>4, <2>5
  <1> QED
      BY <1>2, <1>3

\* A commit replaces a file by itself, or comes to an unclaimed path.
LEMMA CommitHistory ==
    ASSUME Next, Good, Purgeable, History, UploadCommit \/ VersionRestoreCommit
    PROVE  History'
  <1> USE DEF History
  <1>1. /\ op.pc \in {"up_commit", "vr_commit"} /\ op.dest \in Path
        /\ live' = [live EXCEPT ![op.dest] = op.file]
        /\ UNCHANGED <<payload, sidecar, rows, jan>>
      BY DEF UploadCommit, VersionRestoreCommit, Good, InFlight
  <1>2. \/ op' = Idle
        \/ op.pc = "up_commit" /\ op'.pc = "up_index" /\ op'.snap = op.snap
      BY Typed DEF UploadCommit, VersionRestoreCommit, Handler
  <1>3. op'.pc \in {"idle", "up_index"}
      BY <1>2, Typed
  <1>4. /\ live'[op.dest] = op.file /\ op.file.item # 0
        /\ \A x \in Path \ {op.dest} : live'[x] = live[x]
        /\ \A t \in TrashId : sidecar[t].orig # op.dest
        /\ \A r \in rows : r.path = op.dest => r.file.item = op.file.item
      BY <1>1, Typed DEF Writing
  <1>5. Owned'
      BY <1>1, <1>4, Typed DEF Owned
  <1>6. Claims'
    <2>1. \A t \in TrashId, x \in Path : sidecar[t].orig = x => live'[x] = Absent
        BY <1>1, <1>4 DEF Claims
    <2> QED
        BY <1>1, <2>1 DEF Claims, Listed
  <1>7. Writing'
      BY <1>1, <1>2, <1>3, <1>4, Typed DEF Writing
  <1>8. Moving' /\ Purged' /\ Reading'
      BY <1>1, <1>3 DEF Moving, Purged, PurgePC, Reading
  <1>9. Accounted'
    <2> SUFFICES ASSUME NEW r \in Unstuck
                 PROVE  Placed(r)' \/ DueOp(r.path)' \/ DueJan(r.path)'
        BY <1>1, UnstuckStep DEF Accounted
    <2>1. CASE r.path = op.dest
        BY <1>4, <2>1, Typed DEF Placed
    <2>2. CASE r.path # op.dest
      <3>1. live'[r.path] = live[r.path]
          BY <1>4, <2>2, Typed
      <3>2. Placed(r)' = Placed(r) /\ DueJan(r.path)' = DueJan(r.path) /\ ~DueOp(r.path)
          BY <1>1, <3>1 DEF Placed, DueJan, DueOp, PurgePC
      <3> QED
          BY <3>2 DEF Accounted
    <2> QED
        BY <2>1, <2>2
  <1> QED
      BY <1>5, <1>6, <1>7, <1>8, <1>9

\* Rows come to a path that is not claimed, as versions of the file there.
LEMMA RowsArrive ==
    ASSUME Next, Good, History, UNCHANGED <<live, payload, sidecar, jan>>,
           op.pc # "rs_unlink",
           \A r \in rows' : \/ r \in rows
                            \/ r.path \in Path /\ live[r.path] # Absent
                               /\ live[r.path].item = r.file.item,
           \A r \in Unstuck' \cap rows :
               DueOp(r.path) => DueOp(r.path)' \/ live[r.path].item = r.file.item
    PROVE  Owned' /\ Claims' /\ Reading' /\ Accounted'
  <1> USE DEF History
  <1>1. \A r \in rows' : r \in rows \/ \A t \in TrashId : sidecar[t].orig # r.path
      BY Unclaimed
  <1>2. Owned'
      BY <1>1 DEF Owned
  <1>3. Claims' /\ Reading'
      BY <1>1 DEF Claims, Reading, Listed
  <1>4. ASSUME NEW r \in Unstuck'
        PROVE  Placed(r)' \/ DueOp(r.path)' \/ DueJan(r.path)'
    <2>1. Placed(r)' = Placed(r) /\ DueJan(r.path)' = DueJan(r.path)
        BY DEF Placed, DueJan
    <2>2. CASE live[r.path].item = r.file.item
        BY <2>1, <2>2 DEF Placed
    <2>3. CASE r \in rows /\ (DueOp(r.path) => DueOp(r.path)')
      <3>1. r \in Unstuck
          BY <2>3, UnstuckStep
      <3> QED
          BY <2>1, <2>3, <3>1 DEF Accounted
    <2> QED
        BY <2>2, <2>3 DEF Unstuck
  <1> QED
      BY <1>2, <1>3, <1>4 DEF Accounted

LEMMA IndexHistory ==
    ASSUME Next, Good, Purgeable, History, UploadIndex \/ VersionRestoreIndex
    PROVE  History'
  <1> USE DEF History
  <1>1. /\ op.pc \in {"up_index", "vr_index"} /\ rows' \subseteq rows \cup op.snap
        /\ UNCHANGED <<live, payload, sidecar, jan>>
      BY DonePart DEF UploadIndex, VersionRestoreIndex
  <1>2. \A r \in op.snap : /\ r.path \in Path /\ live[r.path] # Absent
                           /\ live[r.path].item = r.file.item
      BY <1>1, Typed DEF Writing
  <1>3. Owned' /\ Claims' /\ Reading' /\ Accounted'
      BY <1>1, <1>2, NothingDue, RowsArrive DEF PurgePC
  <1>4. CASE op' = Idle
      BY <1>3, <1>4, Typed, NothingPending
  <1>5. CASE op.pc = "vr_index" /\ op'.pc = "vr_open" /\ op'.path = op.path
      BY <1>1, <1>3, <1>5 DEF Writing, Moving, Purged, PurgePC
  <1>6. op' = Idle \/ (op.pc = "vr_index" /\ op'.pc = "vr_open" /\ op'.path = op.path)
      BY Typed DEF UploadIndex, VersionRestoreIndex, Handler
  <1> QED
      BY <1>4, <1>5, <1>6

LEMMA OpenHistory ==
    ASSUME Next, Good, Purgeable, History, VersionRestoreOpen
    PROVE  History'
  <1> USE DEF History
  <1>1. /\ op.pc = "vr_open" /\ op.path \in Path /\ live[op.path] # Absent
        /\ UNCHANGED <<live, payload, sidecar, rows, jan>>
      BY OpenFacts DEF Writing
  <1>2. Owned' /\ Claims' /\ Reading' /\ Accounted'
      BY <1>1, NothingDue, SameData DEF PurgePC
  <1>3. CASE op' = Idle
      BY <1>2, <1>3, Typed, NothingPending
  <1>4. CASE op'.pc = "vr_commit" /\ op'.dest = op.path /\ op'.file.item = live[op.path].item
    <2>1. \A t \in TrashId : sidecar[t].orig # op.path
        BY <1>1, Unclaimed
    <2>2. live[op.path].item # 0 /\ \A r \in rows : r.path = op.path => r.file.item = live[op.path].item
        BY <1>1 DEF Owned
    <2>3. Writing'
        BY <1>1, <1>4, <2>1, <2>2 DEF Writing
    <2> QED
        BY <1>2, <1>4, <2>3 DEF Moving, Purged, PurgePC
  <1> QED
      BY <1>1, <1>3, <1>4, OpenFacts

LEMMA MoveRowsHistory ==
    ASSUME Next, Good, Purgeable, History, MoveRows
    PROVE  History'
  <1> USE DEF History
  <1>1. /\ op.pc = "mv_rows" /\ op.dest \in Path /\ live[op.dest] # Absent
        /\ UNCHANGED <<live, payload, sidecar, jan>>
      BY DEF MoveRows, Moving, Good, InFlight
  <1>2. PICK moved \in Committed(RowsAt(op.path)) :
          /\ rows' = (rows \ moved) \cup Rebase(moved, op.dest)
          /\ stuck' = [stuck EXCEPT !.rows = @ \cup Vids(RowsAt(op.path) \ moved)]
          /\ op' = IF moved = {} THEN Idle ELSE [op EXCEPT !.pc = "mv_blobs"]
      BY DEF MoveRows
  <1>3. op'.pc \in {"idle", "mv_blobs"}
      BY <1>2, Typed DEF Handler
  <1>4. ASSUME NEW r \in Rebase(moved, op.dest)
        PROVE  r.path = op.dest /\ live[op.dest].item = r.file.item
    <2>1. PICK v \in rows : v.path = op.path /\ r = [v EXCEPT !.path = op.dest]
        BY DonePart DEF Rebase, RowsAt
    <2>2. r.path = op.dest /\ r.file = v.file
        BY <2>1, Typed DEF Version
    <2> QED
        BY <1>1, <2>1, <2>2 DEF Moving
  <1>5. ASSUME NEW r \in Unstuck', r.path = op.path, ~(live[r.path].item = r.file.item)
        PROVE  FALSE
    <2>1. r \in rows \ moved /\ r.vid \notin stuck'.rows
        BY <1>2, <1>4, <1>5 DEF Unstuck
    <2>2. r \in RowsAt(op.path) \ moved
        BY <1>5, <2>1 DEF RowsAt
    <2>3. r.vid \in stuck'.rows
        BY <1>2, <2>2 DEF Vids, Good, TypeOK, Stuck
    <2> QED
        BY <2>1, <2>3
  <1>6. \A p : DueOp(p) => p = op.path
      BY <1>1 DEF DueOp, PurgePC
  <1>7. Owned' /\ Claims' /\ Reading' /\ Accounted'
      BY <1>1, <1>2, <1>4, <1>5, <1>6, RowsArrive
  <1> QED
      BY <1>3, <1>7, NothingPending

LEMMA DeleteHistory ==
    ASSUME Next, Good, Purgeable, History, DeleteMove \/ DeletePublish \/ DeleteRollback
    PROVE  History'
  <1> USE DEF History
  <1>1. /\ op.pc \in {"del_move", "del_publish"} /\ UNCHANGED <<rows, jan>>
        /\ op.path \in Path /\ op.tid \in TrashId /\ ~Listed(op.tid)
      BY DEF DeleteMove, DeletePublish, DeleteRollback, Good, InFlight, Purgeable
  <1>2. \A t \in TrashId, r \in rows : sidecar[t].orig = r.path => t # op.tid
      BY <1>1, Typed
  <1>3. CASE DeleteMove
    <2>1. /\ op.pc = "del_move" /\ sidecar' = sidecar
          /\ payload'[op.tid] = live[op.path] /\ live'[op.path] = Absent
          /\ \A t \in TrashId \ {op.tid} : payload'[t] = payload[t]
          /\ \A x \in Path \ {op.path} : live'[x] = live[x]
          /\ live[op.path] # Absent
        BY <1>1, <1>3, Typed DEF DeleteMove, Moving
    <2>2. /\ op'.pc = "del_publish" /\ op'.path = op.path /\ op'.tid = op.tid
          /\ op'.refs = op.refs
        BY <1>3, Typed DEF DeleteMove, Handler
    <2>3. Owned'
        BY <1>1, <1>2, <2>1, Typed DEF Owned
    <2>4. Claims' /\ Reading'
        BY <1>1, <2>1, <2>2 DEF Claims, Reading, Listed
    <2>5. Moving'
      <3>1. \A t \in TrashId : sidecar[t].orig # op.path
          BY <1>1, <2>1, Unclaimed
      <3>2. live[op.path].item # 0 /\ \A r \in rows : r.path = op.path => live[op.path].item = r.file.item
          BY <1>1, <2>1 DEF Owned
      <3> QED
          BY <1>1, <2>1, <2>2, <3>1, <3>2 DEF Moving
    <2>6. Writing' /\ Purged'
        BY <2>2 DEF Writing, Purged, PurgePC
    <2>7. ASSUME NEW r \in Unstuck PROVE Placed(r)' \/ DueOp(r.path)' \/ DueJan(r.path)'
      <3>1. CASE r.path = op.path
          BY <2>2, <3>1 DEF DueOp
      <3>2. CASE r.path # op.path
        <4>1. Placed(r) => Placed(r)'
            BY <1>2, <2>1, <3>2, Typed DEF Placed
        <4>2. DueJan(r.path)' = DueJan(r.path) /\ ~DueOp(r.path)
            BY <1>1, <2>1 DEF DueJan, DueOp, PurgePC
        <4> QED
            BY <4>1, <4>2 DEF Accounted
      <3> QED
          BY <3>1, <3>2
    <2> QED
        BY <1>1, <2>3, <2>4, <2>5, <2>6, <2>7, UnstuckStep DEF Accounted
  <1>4. CASE DeletePublish
    <2>1. /\ op.pc = "del_publish" /\ op' = Idle /\ UNCHANGED <<live, payload>>
          /\ sidecar'[op.tid].orig = op.path /\ sidecar'[op.tid].refs = op.refs
          /\ \A t \in TrashId \ {op.tid} : sidecar'[t] = sidecar[t]
        BY <1>1, <1>4, Typed DEF DeletePublish
    <2>2. /\ live[op.path] = Absent
          /\ \A t \in TrashId : sidecar[t].orig # op.path
          /\ \A r \in rows : r.path = op.path =>
               (op.refs = {} \/ r \in op.refs) /\ payload[op.tid].item = r.file.item
        BY <2>1 DEF Good, InFlight, Moving
    <2>3. Owned'
        BY <1>1, <2>1, <2>2 DEF Owned
    <2>4. Claims'
      <3>1. \A t \in TrashId, p \in Path : sidecar'[t].orig = p => live[p] = Absent
          BY <1>1, <2>1, <2>2 DEF Claims
      <3>2. ASSUME NEW t \in TrashId, NEW u \in TrashId, Listed(t)', sidecar'[t].orig = sidecar'[u].orig
            PROVE  t = u
        <4>1. CASE t = op.tid \/ u = op.tid
            BY <2>1, <2>2, <3>2, <4>1
        <4>2. CASE t # op.tid /\ u # op.tid
            BY <2>1, <3>2, <4>2 DEF Claims, Listed
        <4> QED
            BY <4>1, <4>2
      <3>3. \A r \in rows, t \in TrashId : sidecar'[t].orig = r.path =>
              sidecar'[t].refs = {} \/ r \in sidecar'[t].refs
          BY <2>1, <2>2 DEF Claims
      <3> QED
          BY <1>1, <2>1, <3>1, <3>2, <3>3 DEF Claims
    <2>5. Reading'
        BY <1>1, <2>1, ReadingKept
    <2>6. ASSUME NEW r \in Unstuck PROVE Placed(r)' \/ DueOp(r.path)' \/ DueJan(r.path)'
      <3>1. CASE r.path = op.path
          BY <1>1, <2>1, <2>2, <3>1, Typed DEF Placed
      <3>2. CASE r.path # op.path
        <4>1. Placed(r) => Placed(r)'
            BY <1>2, <2>1, Typed DEF Placed
        <4>2. DueJan(r.path)' = DueJan(r.path) /\ ~DueOp(r.path)
            BY <1>1, <2>1, <3>2 DEF DueJan, DueOp, PurgePC
        <4> QED
            BY <4>1, <4>2 DEF Accounted
      <3> QED
          BY <3>1, <3>2
    <2> QED
        BY <1>1, <2>1, <2>3, <2>4, <2>5, <2>6, Typed, UnstuckStep, NothingPending
        DEF Accounted
  <1>5. CASE DeleteRollback
    <2>1. /\ op.pc = "del_publish" /\ op' = Idle /\ sidecar' = sidecar
          /\ live'[op.path] = payload[op.tid] /\ payload'[op.tid] = Absent
          /\ \A t \in TrashId \ {op.tid} : payload'[t] = payload[t]
          /\ \A x \in Path \ {op.path} : live'[x] = live[x]
        BY <1>1, <1>5, Typed DEF DeleteRollback
    <2>2. /\ payload[op.tid].item # 0
          /\ \A t \in TrashId : sidecar[t].orig # op.path
          /\ \A r \in rows : r.path = op.path => payload[op.tid].item = r.file.item
        BY <2>1 DEF Moving
    <2>3. Owned'
        BY <1>1, <2>1, <2>2, Typed DEF Owned
    <2>4. Claims' /\ Reading'
        BY <1>1, <2>1, <2>2 DEF Claims, Reading, Listed
    <2>5. ASSUME NEW r \in Unstuck PROVE Placed(r)' \/ DueOp(r.path)' \/ DueJan(r.path)'
      <3>1. CASE r.path = op.path
          BY <1>1, <2>1, <2>2, <3>1, Typed DEF Placed
      <3>2. CASE r.path # op.path
        <4>1. Placed(r) => Placed(r)'
            BY <1>2, <2>1, <3>2, Typed DEF Placed
        <4>2. DueJan(r.path)' = DueJan(r.path) /\ ~DueOp(r.path)
            BY <1>1, <2>1, <3>2 DEF DueJan, DueOp, PurgePC
        <4> QED
            BY <4>1, <4>2 DEF Accounted
      <3> QED
          BY <3>1, <3>2
    <2> QED
        BY <1>1, <2>1, <2>3, <2>4, <2>5, Typed, UnstuckStep, NothingPending
        DEF Accounted
  <1> QED
      BY <1>3, <1>4, <1>5

LEMMA RestoreHistory ==
    ASSUME Next, Good, Purgeable, History, RestoreMove \/ RestoreUnlink
    PROVE  History'
  <1> USE DEF History
  <1>1. /\ op.pc \in {"rs_move", "rs_unlink"} /\ UNCHANGED <<rows, jan>>
        /\ op.path \in Path /\ op.tid \in TrashId
        /\ sidecar[op.tid].orig \in {op.path, NoPath}
      BY DEF RestoreMove, RestoreUnlink, Good, InFlight, Moving
  <1>2. CASE RestoreMove
    <2>1. /\ op.pc = "rs_move" /\ Listed(op.tid) /\ payload[op.tid] # Absent /\ sidecar' = sidecar
        BY <1>2 DEF RestoreMove
    <2>2. sidecar[op.tid].orig = op.path /\ live[op.path] = Absent
        BY <1>1, <2>1, Typed DEF Claims
    <2>3. PICK q \in RestoreDests(op.path) :
            /\ live' = [live EXCEPT ![q] = payload[op.tid]]
            /\ payload' = [payload EXCEPT ![op.tid] = Absent]
            /\ op' = [op EXCEPT !.pc = "rs_unlink", !.dest = q]
        BY <1>2 DEF RestoreMove
    <2>4. q = op.path
        BY <2>2 DEF RestoreDests
    <2>5. /\ live'[op.path] = payload[op.tid] /\ payload'[op.tid] = Absent
          /\ \A t \in TrashId \ {op.tid} : payload'[t] = payload[t]
          /\ \A x \in Path \ {op.path} : live'[x] = live[x]
          /\ op'.pc = "rs_unlink" /\ op'.dest = op.path /\ op'.path = op.path /\ op'.tid = op.tid
        BY <1>1, <2>3, <2>4, Typed DEF Handler
    <2>6. \A r \in rows : r.path = op.path => payload[op.tid].item = r.file.item
        BY <1>1, <2>1, <2>2 DEF Owned
    <2>7. Owned'
        BY <1>1, <2>1, <2>5, <2>6, Typed DEF Owned
    <2>8. \A t \in TrashId : sidecar[t].orig = op.path => t = op.tid
        BY <1>1, <2>1, <2>2 DEF Claims
    <2>9. Claims' /\ Reading'
        BY <1>1, <2>1, <2>5, <2>8 DEF Claims, Reading, Listed
    <2>10. Moving' /\ Writing' /\ Purged'
        BY <1>1, <2>1, <2>5 DEF Moving, Writing, Purged, PurgePC
    <2>11. ASSUME NEW r \in Unstuck PROVE Placed(r)' \/ DueOp(r.path)' \/ DueJan(r.path)'
      <3>1. CASE r.path = op.path
          BY <2>5, <2>6, <3>1, Typed DEF Placed
      <3>2. CASE r.path # op.path
        <4>1. Placed(r) => Placed(r)'
            BY <2>1, <2>2, <2>5, <3>2, Typed DEF Placed
        <4>2. DueJan(r.path)' = DueJan(r.path) /\ ~DueOp(r.path)
            BY <1>1, <2>1 DEF DueJan, DueOp, PurgePC
        <4> QED
            BY <4>1, <4>2 DEF Accounted
      <3> QED
          BY <3>1, <3>2
    <2> QED
        BY <1>1, <2>7, <2>9, <2>10, <2>11, UnstuckStep DEF Accounted
  <1>3. CASE RestoreUnlink
    <2>1. /\ op.pc = "rs_unlink" /\ UNCHANGED <<live, payload>>
          /\ op.dest = op.path /\ live[op.path] # Absent
          /\ sidecar'[op.tid] = NoMeta
          /\ \A t \in TrashId \ {op.tid} : sidecar'[t] = sidecar[t]
        BY <1>1, <1>3, Typed DEF RestoreUnlink, Moving
    <2>2. op' = Idle
        BY <1>3, <2>1 DEF RestoreUnlink
    <2>3. \A t \in TrashId : sidecar'[t] \in {sidecar[t], NoMeta}
        BY <2>1
    <2>4. Owned' /\ Claims' /\ Reading'
        BY <1>1, <2>1, <2>3, TrashDwindles, ReadingKept
    <2>5. ASSUME NEW r \in Unstuck PROVE Placed(r)' \/ DueOp(r.path)' \/ DueJan(r.path)'
      <3>1. CASE r.path = op.path
          BY <1>1, <2>1, <3>1, Typed DEF Placed, Owned
      <3>2. CASE r.path # op.path
        <4>1. Placed(r) => Placed(r)'
            BY <1>1, <2>1, <3>2, Typed DEF Placed
        <4>2. DueJan(r.path)' = DueJan(r.path) /\ ~DueOp(r.path)
            BY <1>1, <2>1 DEF DueJan, DueOp, PurgePC
        <4> QED
            BY <4>1, <4>2 DEF Accounted
      <3> QED
          BY <3>1, <3>2
    <2> QED
        BY <1>1, <2>2, <2>4, <2>5, Typed, UnstuckStep, NothingPending
        DEF Accounted
  <1> QED
      BY <1>2, <1>3

\* A step of a purge takes what it has noted, or what it is about to drop.
LEMMA PurgeHistory ==
    ASSUME Next, Good, Purgeable, History,
           \/ \E t \in TrashId : PurgeBegin(t) \/ EmptyPayload(t) \/ EmptySidecar(t)
           \/ PurgeUnlink
    PROVE  History'
  <1> USE DEF History
  <1>1. PICK u \in TrashId :
          /\ UNCHANGED <<live, rows, jan>>
          /\ \A t \in TrashId : payload'[t] \in {payload[t], Absent}
          /\ \A t \in TrashId : sidecar'[t] \in {sidecar[t], NoMeta}
          /\ \A t \in TrashId \ {u} : payload'[t] = payload[t] /\ sidecar'[t] = sidecar[t]
          /\ \/ /\ op.pc = "idle" /\ op'.pc = "pg_unlink" /\ op'.tid = u
                /\ op'.metas = {sidecar[u]} /\ sidecar' = sidecar
             \/ /\ op.pc = "em_remove" /\ op' = op
             \/ /\ op.pc = "pg_unlink" /\ op.tid = u /\ sidecar'[u] = NoMeta
                /\ IF Listed(u) THEN op'.pc = "pg_rows" /\ op'.metas = op.metas ELSE op' = Idle
    <2>1. ASSUME NEW t \in TrashId, PurgeBegin(t)
          PROVE  /\ UNCHANGED <<live, rows, jan, sidecar>> /\ payload' = [payload EXCEPT ![t] = Absent]
                 /\ op.pc = "idle" /\ op'.pc = "pg_unlink" /\ op'.tid = t
                 /\ op'.metas = {sidecar[t]}
        BY <2>1 DEF PurgeBegin, Accepting, Idle
    <2>2. CASE PurgeUnlink
      <3>1. /\ UNCHANGED <<live, rows, jan, payload>> /\ op.pc = "pg_unlink" /\ op.tid \in TrashId
            /\ sidecar' = [sidecar EXCEPT ![op.tid] = NoMeta]
          BY <2>2 DEF PurgeUnlink, Purgeable
      <3>2. IF Listed(op.tid) THEN op'.pc = "pg_rows" /\ op'.metas = op.metas ELSE op' = Idle
          BY <2>2, Typed DEF PurgeUnlink, Handler
      <3> QED
          BY <3>1, <3>2, Typed
    <2>3. ASSUME NEW t \in TrashId, EmptyPayload(t) \/ EmptySidecar(t)
          PROVE  /\ UNCHANGED <<live, rows, jan>> /\ op.pc = "em_remove" /\ op' = op
                 /\ payload' \in {payload, [payload EXCEPT ![t] = Absent]}
                 /\ sidecar' \in {sidecar, [sidecar EXCEPT ![t] = NoMeta]}
        BY <2>3 DEF EmptyPayload, EmptySidecar
    <2>4. CASE \E t \in TrashId : PurgeBegin(t)
        BY <2>1, <2>4, Typed
    <2>5. CASE \E t \in TrashId : EmptyPayload(t) \/ EmptySidecar(t)
        BY <2>3, <2>5, Typed
    <2> QED
        BY <2>2, <2>4, <2>5
  <1>2. op.pc # "rs_unlink" /\ op'.pc \in {"pg_unlink", "em_remove", "pg_rows", "idle"}
      BY <1>1, Typed
  <1>3. Owned' /\ Claims' /\ Reading'
      BY <1>1, <1>2, TrashDwindles, ReadingKept
  <1>4. Writing' /\ Moving'
      BY <1>2 DEF Writing, Moving
  <1>5. \A t \in TrashId : Listed(t)' => Listed(t) /\ sidecar'[t] = sidecar[t]
      BY <1>1 DEF Listed
  <1>6. Purged'
    <2>1. CASE op.pc = "idle" /\ op'.pc = "pg_unlink" /\ op'.tid = u /\ op'.metas = {sidecar[u]}
               /\ sidecar' = sidecar
        BY <1>1, <2>1 DEF Purged, PurgePC, Claims
    <2>2. CASE op.pc = "em_remove" /\ op' = op
        BY <1>1, <1>5, <2>2 DEF Purged, PurgePC
    <2>3. CASE op.pc = "pg_unlink" /\ op'.pc = "pg_rows" /\ op'.metas = op.metas
        BY <1>1, <2>3 DEF Purged, PurgePC
    <2>4. CASE op' = Idle
        BY <2>4, Typed, NothingPending
    <2> QED
        BY <1>1, <2>1, <2>2, <2>3, <2>4
  <1>7. ASSUME NEW r \in Unstuck PROVE Placed(r)' \/ DueOp(r.path)' \/ DueJan(r.path)'
    <2>1. r.path \in Path /\ DueJan(r.path)' = DueJan(r.path)
        BY <1>1, Typed DEF DueJan
    <2>2. CASE op.pc = "idle" /\ op'.pc = "pg_unlink" /\ op'.tid = u /\ op'.metas = {sidecar[u]}
               /\ sidecar' = sidecar
      <3>1. ~DueOp(r.path)
          BY <2>2 DEF DueOp, PurgePC
      <3>2. Placed(r) => Placed(r)' \/ sidecar[u].orig = r.path
          BY <1>1, <2>2 DEF Placed
      <3>3. sidecar[u].orig = r.path => DueOp(r.path)'
          BY <2>2 DEF DueOp
      <3> QED
          BY <2>1, <3>1, <3>2, <3>3 DEF Accounted
    <2>3. CASE op.pc = "em_remove" /\ op' = op
      <3>1. DueOp(r.path)' <=> \E m \in op.metas : m.orig = r.path
          BY <2>3 DEF DueOp, PurgePC
      <3>2. DueOp(r.path) <=> \E m \in op.metas : m.orig = r.path
          BY <2>3 DEF DueOp, PurgePC
      <3>3. sidecar[u].orig = r.path => sidecar[u] \in op.metas
          BY <2>1, <2>3, Typed DEF Purged
      <3>4. Placed(r) => Placed(r)' \/ sidecar[u].orig = r.path
          BY <1>1 DEF Placed
      <3> QED
          BY <2>1, <3>1, <3>2, <3>3, <3>4 DEF Accounted
    <2>4. CASE op.pc = "pg_unlink" /\ op.tid = u /\ sidecar'[u] = NoMeta
               /\ IF Listed(u) THEN op'.pc = "pg_rows" /\ op'.metas = op.metas ELSE op' = Idle
      <3>1. sidecar[u].orig = r.path => DueOp(r.path)'
          BY <2>1, <2>4, Typed DEF Purged, DueOp, PurgePC
      <3>2. Placed(r) => Placed(r)' \/ sidecar[u].orig = r.path
          BY <1>1 DEF Placed
      <3>3. DueOp(r.path) => sidecar[u].orig = r.path
          BY <2>4 DEF DueOp, PurgePC
      <3> QED
          BY <2>1, <3>1, <3>2, <3>3 DEF Accounted
    <2> QED
        BY <1>1, <2>2, <2>3, <2>4
  <1> QED
      BY <1>1, <1>3, <1>4, <1>6, <1>7, UnstuckStep DEF Accounted

LEMMA PurgeRowsHistory ==
    ASSUME Next, Good, Purgeable, History, PurgeRows
    PROVE  History'
  <1> USE DEF History
  <1>1. op.pc = "pg_rows" /\ UNCHANGED <<live, payload, sidecar, jan>>
      BY DEF PurgeRows
  <1>2. PICK m \in op.metas :
          LET hit  == IF m.refs # {} THEN rows \cap m.refs ELSE RowsAt(m.orig)
              rest == op.metas \ {m}
          IN \E gone \in Committed(hit) :
               /\ rows' = rows \ gone
               /\ stuck' = [stuck EXCEPT !.rows = @ \cup Vids(hit \ gone)]
               /\ op' = IF gone = {} THEN NextMeta(rest)
                        ELSE [op EXCEPT !.pc = IF m.refs # {} THEN "pg_blobs" ELSE "pg_dir",
                                        !.refs = m.refs, !.path = m.orig, !.metas = rest]
      BY DEF PurgeRows
  <1> DEFINE hit  == IF m.refs # {} THEN rows \cap m.refs ELSE RowsAt(m.orig)
             rest == op.metas \ {m}
  <1>3. rows' \subseteq rows /\ \A r \in Unstuck' : r.path # m.orig
    <2>1. \A r \in rows : r.path = m.orig => r \in hit
        BY <1>1 DEF Purged, PurgePC, RowsAt
    <2>2. PICK gone \in Committed(hit) :
            /\ rows' = rows \ gone
            /\ stuck' = [stuck EXCEPT !.rows = @ \cup Vids(hit \ gone)]
        BY <1>2
    <2>3. \A r \in hit \ gone : r.vid \in stuck'.rows
        BY <2>2 DEF Vids, Good, TypeOK, Stuck
    <2> QED
        BY <2>1, <2>2, <2>3 DEF Unstuck
  <1>4. \/ op' = Idle /\ rest = {}
        \/ op'.pc \in {"pg_rows", "pg_blobs", "pg_dir"} /\ op'.metas = rest
    <2>1. CASE op' = NextMeta(rest)
        BY <2>1 DEF NextMeta, Idle
    <2>2. ASSUME NEW pc \in {"pg_blobs", "pg_dir"},
                 op' = [op EXCEPT !.pc = pc, !.refs = m.refs, !.path = m.orig, !.metas = rest]
          PROVE  op'.pc \in {"pg_rows", "pg_blobs", "pg_dir"} /\ op'.metas = rest
        BY <2>2, Typed DEF Handler
    <2> QED
        BY <1>2, <2>1, <2>2
  <1>5. Owned' /\ Claims' /\ Reading'
      BY <1>1, <1>3, TrashDwindles, ReadingKept
  <1>6. Writing' /\ Moving' /\ Purged'
    <2>1. CASE op' = Idle
        BY <2>1, Typed, NothingPending
    <2>2. CASE op'.pc \in {"pg_rows", "pg_blobs", "pg_dir"} /\ op'.metas = rest
        BY <1>1, <1>3, <2>2 DEF Writing, Moving, Purged, PurgePC
    <2> QED
        BY <1>4, <2>1, <2>2
  <1>7. ASSUME NEW r \in Unstuck' PROVE Placed(r)' \/ DueOp(r.path)' \/ DueJan(r.path)'
    <2>1. Placed(r)' = Placed(r) /\ DueJan(r.path)' = DueJan(r.path)
        BY <1>1 DEF Placed, DueJan
    <2>2. DueOp(r.path) => \E n \in rest : n.orig = r.path
        BY <1>1, <1>3 DEF DueOp, PurgePC
    <2>3. (\E n \in rest : n.orig = r.path) => DueOp(r.path)'
        BY <1>4 DEF DueOp, PurgePC
    <2> QED
        BY <1>3, <2>1, <2>2, <2>3, UnstuckStep DEF Accounted
  <1> QED
      BY <1>5, <1>6, <1>7 DEF Accounted

\* The janitor takes from the trash and from the index, and remembers what it has
\* yet to drop.
LEMMA JanitorHistory ==
    ASSUME Next, Good, Purgeable, History, JanitorStep
    PROVE  History'
  <1> USE DEF History
  <1>1. UNCHANGED <<live, op>> /\ jan \in Janitor
      BY JanitorFrame, Typed
  <1>2. rows' \subseteq rows
      BY DEF JanitorStep, JanitorStart, JanitorRead, JanitorRemove, JanitorUnlink, JanitorScanDone,
         JanitorPurgeRows, JanitorPurgeDir, JanitorSelect, JanitorDeleteRow, JanitorPruneBlob, JanitorPruneFail, disk
  <1>3. JanitorRemove => /\ jan.pc = "remove" /\ sidecar' = sidecar
                         /\ payload' = [payload EXCEPT ![jan.tid] = Absent]
                         /\ jan'.pc = "unlink" /\ jan'.meta = jan.meta /\ jan'.tid = jan.tid
                         /\ jan'.todo = jan.todo
      BY <1>1 DEF JanitorRemove, Janitor
  <1>4. JanitorUnlink => /\ jan.pc = "unlink" /\ payload' = payload
                         /\ sidecar' = [sidecar EXCEPT ![jan.tid] = NoMeta]
                         /\ jan'.pc = "scan" /\ jan'.todo = jan.todo \cup {jan.meta}
      BY <1>1 DEF JanitorUnlink, Janitor
  <1>5. jan.pc \in {"remove", "unlink"} =>
          /\ jan.tid \in TrashId
          /\ op.pc \in {"del_move", "del_publish"} => jan.tid # op.tid
          /\ sidecar[jan.tid] \in {jan.meta, NoMeta}
      BY DEF Purgeable, Reading
  <1>6. \A t \in TrashId : /\ payload'[t] \in {payload[t], Absent}
                           /\ sidecar'[t] \in {sidecar[t], NoMeta}
                           /\ op.pc \in {"del_move", "del_publish"} /\ t = op.tid => payload'[t] = payload[t]
      BY <1>3, <1>4, <1>5, JanitorFrame, Typed
  <1>7. Owned' /\ Claims'
      BY <1>1, <1>2, <1>6, TrashDwindles
  <1>8. Writing' /\ Moving'
    <2>1. op.pc \in {"up_commit", "vr_commit"} => op.dest \in Path
        BY DEF Good, InFlight
    <2>2. op.pc \in {"del_publish", "rs_move", "rs_unlink"} => op.path \in Path /\ op.tid \in TrashId
        BY DEF Good, InFlight, Moving
    <2>3. Writing'
        BY <1>1, <1>2, <1>6, <2>1, Typed DEF Writing
    <2>4. Moving'
        BY <1>1, <1>2, <1>6, <2>2, Typed DEF Moving
    <2> QED
        BY <2>3, <2>4
  <1>9. Purged'
    <2>1. op.pc = "pg_unlink" => op.tid \in TrashId
        BY DEF Purgeable
    <2> QED
        BY <1>1, <1>2, <1>6, <2>1 DEF Purged, Listed
  <1>10. Reading'
    <2>1. CASE \E t \in jan.list : JanitorRead(t)
      <3>1. PICK t \in jan.list : JanitorRead(t)
          BY <2>1
      <3>2. jan'.tid = t /\ jan'.meta = sidecar[t] /\ sidecar' = sidecar
          BY <1>1, <3>1 DEF JanitorRead, Janitor, disk
      <3> QED
          BY <3>2 DEF Reading
    <2>2. CASE JanitorRemove
        BY <1>3, <1>5, <2>2 DEF Reading
    <2>3. CASE ~(\E t \in jan.list : JanitorRead(t)) /\ ~JanitorRemove
        BY <2>3, JanitorFrame DEF Reading
    <2> QED
        BY <2>1, <2>2, <2>3
  <1>11. ASSUME NEW r \in Unstuck' PROVE Placed(r)' \/ DueOp(r.path)' \/ DueJan(r.path)'
    <2>1. r \in Unstuck /\ r.path \in Path
        BY <1>2, Typed, UnstuckStep
    <2>2. CASE JanitorRemove
      <3>1. jan.tid \in TrashId /\ \A t \in TrashId \ {jan.tid} : payload'[t] = payload[t]
          BY <1>3, <1>5, <2>2, Typed
      <3>2. Placed(r) => Placed(r)' \/ sidecar[jan.tid].orig = r.path
          BY <1>1, <1>3, <2>2, <3>1 DEF Placed
      <3>3. sidecar[jan.tid].orig = r.path => DueJan(r.path)'
          BY <1>3, <1>5, <2>1, <2>2, Typed DEF DueJan
      <3>4. (DueOp(r.path)' <=> DueOp(r.path)) /\ (DueJan(r.path) => DueJan(r.path)')
          BY <1>1, <1>3, <2>2 DEF DueOp, DueJan
      <3> QED
          BY <2>1, <3>2, <3>3, <3>4 DEF Accounted
    <2>3. CASE JanitorUnlink
      <3>1. jan.tid \in TrashId /\ \A t \in TrashId \ {jan.tid} : sidecar'[t] = sidecar[t]
          BY <1>4, <1>5, <2>3, Typed
      <3>2. Placed(r) => Placed(r)' \/ sidecar[jan.tid].orig = r.path
          BY <1>1, <1>4, <2>3, <3>1 DEF Placed
      <3>3. jan.meta.orig = r.path => DueJan(r.path)'
          BY <1>4, <2>3 DEF DueJan
      <3>4. sidecar[jan.tid].orig = r.path => DueJan(r.path)'
          BY <1>4, <1>5, <2>1, <2>3, <3>3, Typed
      <3>5. DueOp(r.path) => DueOp(r.path)' \/ sidecar[jan.tid].orig = r.path
        <4>1. op.pc = "pg_unlink" => op.tid \in TrashId
            BY DEF Purgeable
        <4> QED
            BY <1>1, <3>1, <4>1 DEF DueOp
      <3>6. DueJan(r.path) => DueJan(r.path)'
          BY <1>4, <2>3, <3>3 DEF DueJan
      <3> QED
          BY <2>1, <3>2, <3>4, <3>5, <3>6 DEF Accounted
    <2>4. CASE ~JanitorRemove /\ ~JanitorUnlink
      <3>1. UNCHANGED <<payload, sidecar>>
          BY <2>4, JanitorFrame
      <3>2. Placed(r)' = Placed(r) /\ DueOp(r.path)' = DueOp(r.path)
          BY <1>1, <3>1 DEF Placed, DueOp
      <3>3. DueJan(r.path) => DueJan(r.path)'
        <4>1. CASE \E m \in jan.todo : JanitorPurgeRows(m)
          <5>1. PICK m \in jan.todo : JanitorPurgeRows(m)
              BY <4>1
          <5>2. /\ jan.pc = "purge_rows"
                /\ jan'.todo = jan.todo \ {m} /\ jan'.pc \in {"purge_rows", "purge_dir"}
              BY <1>1, <5>1 DEF JanitorPurgeRows, Janitor
          <5>3. r.path # m.orig
            <6>1. PICK gone \in Committed(RowsAt(m.orig)) :
                    /\ rows' = rows \ gone
                    /\ stuck' = [stuck EXCEPT !.rows = @ \cup Vids(RowsAt(m.orig) \ gone)]
                BY <5>1 DEF JanitorPurgeRows
            <6>2. \A v \in RowsAt(m.orig) \ gone : v.vid \in stuck'.rows
                BY <6>1 DEF Vids, Good, TypeOK, Stuck
            <6> QED
                BY <6>1, <6>2 DEF Unstuck, RowsAt
          <5> QED
              BY <5>2, <5>3 DEF DueJan
        <4>2. CASE JanitorScanDone \/ JanitorPurgeDir \/ \E t \in jan.list : JanitorRead(t)
          <5>1. /\ jan'.todo = jan.todo /\ jan.pc \in {"scan", "purge_dir"}
                /\ jan'.pc \in {"purge_rows", "remove"}
              BY <1>1, <4>2 DEF JanitorScanDone, JanitorPurgeDir, JanitorRead, Janitor
          <5> QED
              BY <5>1 DEF DueJan
        <4>3. CASE \/ JanitorStart \/ JanitorSelect \/ JanitorPruneFail
                   \/ (\E v \in jan.sel : JanitorDeleteRow(v)) \/ (\E v \in jan.gone : JanitorPruneBlob(v))
          <5>1. jan.pc \in {"idle", "del_rows", "del_blobs"} \/ (jan.pc = "purge_rows" /\ jan.todo = {})
              BY <4>3 DEF JanitorStart, JanitorSelect, JanitorDeleteRow, JanitorPruneBlob,
                 JanitorPruneFail
          <5> QED
              BY <5>1 DEF DueJan
        <4> QED
            BY <2>4, <4>1, <4>2, <4>3 DEF JanitorStep
      <3> QED
          BY <2>1, <3>2, <3>3 DEF Accounted
    <2> QED
        BY <2>2, <2>3, <2>4
  <1> QED
      BY <1>7, <1>8, <1>9, <1>10, <1>11 DEF Accounted

\* Where no path is occupied again before its history is gone, and no crash has cut
\* a request short, every version row sits with its file whenever nothing is in
\* flight, although the janitor runs between any two steps of a request and any of
\* the swallowed failures may happen - except for the rows that a failed relocation
\* or purge did not reach.
THEOREM HistoryIsWithItsFile ==
    ASSUME Reuse = FALSE
    PROVE  Spec => []HistoryFollowsFile
  <1> DEFINE Inv == Good /\ Purgeable /\ (crashes = 0 => History)
  <1>1. Init => Inv
    <2> SUFFICES ASSUME Init PROVE History
        BY InitGood, InitPurgeable
    <2>1. Owned /\ Claims /\ Reading /\ Accounted
        BY DEF Init, Owned, Claims, Reading, Accounted, Unstuck, Listed, Absent, JIdle
    <2>2. Writing /\ Moving /\ Purged
        BY DEF Init, Idle, Writing, Moving, Purged, PurgePC
    <2> QED
        BY <2>1, <2>2 DEF History
  <1>2. Inv /\ [Next]_vars => Inv'
    <2> SUFFICES ASSUME Inv, [Next]_vars, crashes' = 0 PROVE History'
        BY NextGood, StepPurgeable
    <2>1. ~Crash
        BY DEF Crash, Good, TypeOK
    <2>2. History
        BY <2>1, RequestFrame, HandlerFrame, JanitorFrame DEF Next, Expire, vars
    <2>3. CASE Request
        BY <2>2, <2>3, ReadingRequestHistory, MoveHistory, CopyHistory, PurgeHistory DEF Next
    <2>4. CASE HandlerStep
      <3>1. ~RestoreRows /\ ~RestoreBlobs
          BY <2>2 DEF RestoreRows, RestoreBlobs, History, Moving
      <3> QED
          BY <2>2, <2>4, <3>1, EndingHistory, CommitHistory, IndexHistory, OpenHistory,
             MoveRowsHistory, DeleteHistory, RestoreHistory, PurgeHistory, PurgeRowsHistory
          DEF HandlerStep, Next
    <2>5. CASE (\E t \in TrashId : Expire(t)) \/ UNCHANGED vars
        BY <2>2, <2>5 DEF Expire, vars, History, Owned, Claims, Writing, Moving, Purged, Reading,
           Accounted, Unstuck, Placed, DueOp, DueJan, Listed
    <2> QED
        BY <2>1, <2>2, <2>3, <2>4, <2>5, JanitorHistory DEF Next
  <1>3. Inv => HistoryFollowsFile
    <2> SUFFICES ASSUME Inv, Quiet, crashes = 0, NEW r \in Unstuck PROVE Placed(r)
        BY DEF HistoryFollowsFile, Placed, Unstuck
    <2>1. ~DueOp(r.path) /\ ~DueJan(r.path)
        BY DEF Quiet, Idle, JIdle, DueOp, DueJan, PurgePC
    <2> QED
        BY <2>1 DEF History, Accounted
  <1> QED
      BY <1>1, <1>2, <1>3, PTL DEF Spec
=============================================================================
