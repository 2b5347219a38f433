------------------------- MODULE VersionedDriveProofs -------------------------
(***************************************************************************)
(* Proofs about VersionedDrive, for every set of paths, every number of    *)
(* kept versions, every bound, and with or without overlap, reuse of       *)
(* paths, I/O errors and crashes; and that it implements Vault.            *)
(***************************************************************************)
EXTENDS VersionedDrive, FiniteSetTheorems, TLAPS

-----------------------------------------------------------------------------
(* Types of the pieces                                                       *)

LEMMA IdleType == Idle \in Handler /\ Idle.pc = "idle"
BY BoundAssumption DEF BoundAssumption, Idle, Handler, HandlerPC, File, Absent

LEMMA JIdleType == JIdle \in Janitor
BY BoundAssumption DEF BoundAssumption, JIdle, Janitor, JanitorPC, NoMeta, Meta, TrashId

LEMMA CountersType ==
    ASSUME NEW n \in Counters
    PROVE  /\ [n EXCEPT !.item = @ + 1] \in Counters
           /\ [n EXCEPT !.vid = @ + 1] \in Counters
           /\ [n EXCEPT !.tid = @ + 1] \in Counters
           /\ [n EXCEPT !.item = @ + 1, !.data = @ + 1] \in Counters
           /\ [n EXCEPT !.vid = @ + 1, !.data = @ + 1] \in Counters
<1>1. \A k \in Nat \ {0} : k + 1 \in Nat \ {0}
  OBVIOUS
<1> QED BY <1>1 DEF Counters

LEMMA RebaseType ==
    ASSUME NEW S \in SUBSET Version, NEW q \in Path
    PROVE  Rebase(S, q) \in SUBSET Version
BY DEF Rebase, Version

LEMMA SnapshotType ==
    ASSUME TypeOK, NEW p \in Path
    PROVE  Snapshot(p) \in SUBSET Version
BY DEF Snapshot, TypeOK, Version, Counters

\* What is done of an operation over S is part of S.
LEMMA DonePart ==
    ASSUME NEW S, NEW X \in Committed(S) \cup Reached(S)
    PROVE  X \subseteq S
BY DEF Committed, Reached

\* More version ids left behind are still version ids.
LEMMA StuckType ==
    ASSUME TypeOK, NEW S \in SUBSET Version
    PROVE  /\ [stuck EXCEPT !.rows = @ \cup Vids(S)] \in Stuck
           /\ [stuck EXCEPT !.blobs = @ \cup Vids(S)] \in Stuck
<1>1. Vids(S) \in SUBSET Nat
  BY DEF Vids, Version
<1> QED BY <1>1 DEF TypeOK, Stuck

-----------------------------------------------------------------------------
(* TypeOK and InFlight are inductive together                                *)

Good == TypeOK /\ InFlight

LEMMA InitGood == Init => Good
<1> SUFFICES ASSUME Init PROVE Good
  OBVIOUS
<1>1. Absent \in File /\ NoMeta \in Meta
  BY DEF Absent, File, NoMeta, Meta
<1>2. next \in Counters
  BY DEF Init, Counters
<1>3. TypeOK
  BY <1>1, <1>2, IdleType, JIdleType, BoundAssumption DEF Init, TypeOK, BoundAssumption, Stuck
<1>4. InFlight
  BY IdleType DEF Init, InFlight
<1> QED BY <1>3, <1>4 DEF Good

LEMMA UploadGood ==
    ASSUME Good,
           \/ \E p, q \in Path : UploadFresh(p, q)
           \/ \E p \in Path : UploadOver(p)
           \/ UploadCommit \/ CommitFail \/ UploadIndex
    PROVE  Good'
<1> USE DEF Good
<1>1. ASSUME NEW p \in Path, NEW q \in Path, UploadFresh(p, q) PROVE Good'
  <2>1. /\ op' \in Handler /\ op'.pc = "up_commit" /\ op'.dest = q /\ live[q] = Absent
        /\ UNCHANGED <<disk, jan, crashes, stuck>>
    BY <1>1, IdleType DEF UploadFresh, Handler, HandlerPC, File, TypeOK, Counters
  <2>2. next' \in Counters /\ next'.tid = next.tid
    BY <1>1, CountersType DEF UploadFresh, TypeOK, Counters
  <2>3. TypeOK'
    BY <2>1, <2>2 DEF TypeOK, disk
  <2>4. InFlight'
    BY <2>1, <2>2 DEF InFlight, disk, Absent
  <2> QED BY <2>3, <2>4
<1>2. ASSUME NEW p \in Path, UploadOver(p) PROVE Good'
  <2>1. /\ op' \in Handler /\ op'.pc = "up_commit" /\ op'.dest = p
        /\ op'.file.item = live[p].item
        /\ UNCHANGED <<live, payload, sidecar, expired, rows, jan, crashes, stuck>>
    BY <1>2, IdleType, SnapshotType
    DEF UploadOver, Handler, HandlerPC, File, TypeOK, Counters
  <2>2. next' \in Counters /\ next'.tid = next.tid
    BY <1>2, CountersType DEF UploadOver, TypeOK, Counters
  <2>3. TypeOK'
    BY <1>2, <2>1, <2>2, SnapshotType DEF UploadOver, TypeOK
  <2>4. InFlight'
    BY <2>1, <2>2 DEF InFlight
  <2> QED BY <2>3, <2>4
<1>3. CASE UploadCommit
  <2>1. /\ op' \in Handler /\ op'.pc \in {"idle", "up_index"}
        /\ UNCHANGED <<payload, sidecar, expired, rows, blobs, jan, next, crashes, stuck>>
        /\ live' \in [Path -> File]
    BY <1>3, IdleType DEF UploadCommit, Handler, HandlerPC, TypeOK
  <2>2. TypeOK'
    BY <2>1 DEF TypeOK
  <2>3. InFlight'
    BY <2>1 DEF InFlight
  <2> QED BY <2>2, <2>3
<1>4. CASE CommitFail
  BY <1>4, IdleType DEF CommitFail, TypeOK, InFlight, disk
<1>5. CASE UploadIndex
  <2>1. rows' \in SUBSET Version
    <3>1. PICK done \in Committed(op.snap) : rows' = rows \cup done
      BY <1>5 DEF UploadIndex
    <3>2. done \subseteq op.snap
      BY <3>1, DonePart
    <3> QED BY <3>1, <3>2 DEF TypeOK, Handler
  <2> QED BY <1>5, <2>1, IdleType DEF UploadIndex, TypeOK, InFlight
<1> QED BY <1>1, <1>2, <1>3, <1>4, <1>5

LEMMA VersionRestoreGood ==
    ASSUME Good,
           \/ \E v \in rows : VersionRestoreBegin(v)
           \/ VersionRestoreIndex \/ VersionRestoreOpen \/ VersionRestoreCommit
    PROVE  Good'
<1> USE DEF Good
<1>1. ASSUME NEW v \in rows, VersionRestoreBegin(v) PROVE Good'
  <2>1. v \in Version /\ v.path \in Path
    BY DEF TypeOK, Version
  <2>2. Snapshot(v.path) \in SUBSET Version /\ {v} \in SUBSET Version
    BY <2>1, SnapshotType
  <2>3. CASE live[v.path] = Absent
    <3>1. op' = [Idle EXCEPT !.pc = "vr_open", !.path = v.path, !.refs = {v}]
      BY <1>1, <2>3 DEF VersionRestoreBegin
    <3>2. op' \in Handler /\ op'.pc = "vr_open" /\ op'.path \in Path
      BY <3>1, <2>1, <2>2, IdleType DEF Handler, HandlerPC
    <3>3. UNCHANGED <<live, payload, sidecar, expired, rows, blobs, jan, next, crashes, stuck>>
      BY <1>1, <2>3 DEF VersionRestoreBegin
    <3> QED BY <3>2, <3>3 DEF TypeOK, InFlight
  <2>4. CASE live[v.path] # Absent
    <3>1. op' = [Idle EXCEPT !.pc = "vr_index", !.path = v.path, !.refs = {v},
                             !.snap = Snapshot(v.path)]
      BY <1>1, <2>4 DEF VersionRestoreBegin
    <3>2. op' \in Handler /\ op'.pc = "vr_index" /\ op'.path \in Path
      BY <3>1, <2>1, <2>2, IdleType DEF Handler, HandlerPC
    <3>3. UNCHANGED <<live, payload, sidecar, expired, rows, jan, crashes, stuck>>
      BY <1>1 DEF VersionRestoreBegin
    <3>4. next' \in Counters /\ next'.tid = next.tid /\ blobs' \in SUBSET Version
      BY <1>1, <2>2, <2>4, CountersType DEF VersionRestoreBegin, TypeOK, Counters
    <3>5. TypeOK'
      BY <3>2, <3>3, <3>4 DEF TypeOK
    <3>6. InFlight'
      BY <3>2, <3>3, <3>4 DEF InFlight
    <3> QED BY <3>5, <3>6
  <2> QED BY <2>3, <2>4
<1>2. CASE VersionRestoreIndex
  <2>a. PICK done \in Committed(op.snap) : rows' = rows \cup done
    BY <1>2 DEF VersionRestoreIndex
  <2>b. done \subseteq op.snap
    BY <2>a, DonePart
  <2>1. /\ op' \in Handler /\ op'.pc = "vr_open" /\ op'.path = op.path /\ op.path \in Path
        /\ rows' \in SUBSET Version
        /\ UNCHANGED <<live, payload, sidecar, expired, blobs, jan, next, crashes, stuck>>
    BY <1>2, <2>a, <2>b DEF VersionRestoreIndex, Handler, HandlerPC, TypeOK, InFlight
  <2> QED BY <2>1 DEF TypeOK, InFlight
<1>3. CASE VersionRestoreOpen
  <2>1. op.path \in Path /\ op \in Handler
    BY <1>3 DEF VersionRestoreOpen, InFlight, TypeOK
  <2>2. Snapshot(op.path) \in SUBSET Version
    BY <2>1, SnapshotType
  <2>3. PICK v \in op.refs :
          LET p == op.path
              source == {b \in blobs : Same(b, v)}
              Write(item) == [op EXCEPT !.pc = "vr_commit", !.dest = p,
                                        !.file = [item |-> item, data |-> v.file.data]]
          IN \/ /\ source = {}
                /\ op' = Idle
                /\ UNCHANGED <<blobs, next>>
             \/ /\ source # {} /\ live[p] = Absent
                /\ op' = Write(next.item)
                /\ next' = [next EXCEPT !.item = @ + 1]
                /\ UNCHANGED blobs
             \/ /\ source # {} /\ live[p] # Absent
                /\ blobs' = blobs \cup Snapshot(p)
                /\ op' = [Write(live[p].item) EXCEPT !.snap = Snapshot(p)]
                /\ next' = [next EXCEPT !.vid = @ + 1]
    BY <1>3 DEF VersionRestoreOpen
  <2>4. v.file.data \in Nat /\ next.item \in Nat /\ live[op.path].item \in Nat
    BY <2>1 DEF TypeOK, Handler, Version, File, Counters
  <2>5. /\ op' \in Handler
        /\ \/ op'.pc = "idle"
           \/ /\ op'.pc = "vr_commit" /\ op'.dest = op.path
              /\ live[op.path].item \in {0, op'.file.item}
    <3>1. \A i \in Nat : [item |-> i, data |-> v.file.data] \in File
      BY <2>4 DEF File
    <3>2. CASE op' = Idle
      BY <3>2, IdleType
    <3>3. CASE /\ live[op.path] = Absent
               /\ op' = [op EXCEPT !.pc = "vr_commit", !.dest = op.path,
                           !.file = [item |-> next.item, data |-> v.file.data]]
      <4>1. op' \in Handler /\ op'.pc = "vr_commit" /\ op'.dest = op.path
        BY <2>1, <2>4, <3>1, <3>3 DEF Handler, HandlerPC
      <4>2. live[op.path].item = 0
        BY <3>3 DEF Absent
      <4> QED BY <4>1, <4>2
    <3>4. CASE op' = [[op EXCEPT !.pc = "vr_commit", !.dest = op.path,
                           !.file = [item |-> live[op.path].item, data |-> v.file.data]]
                        EXCEPT !.snap = Snapshot(op.path)]
      <4> DEFINE h == [op EXCEPT !.pc = "vr_commit", !.dest = op.path,
                           !.file = [item |-> live[op.path].item, data |-> v.file.data]]
      <4>1. /\ h \in Handler /\ h.pc = "vr_commit" /\ h.dest = op.path
            /\ h.file.item = live[op.path].item
        BY <2>1, <2>4, <3>1 DEF Handler, HandlerPC
      <4>2. op' = [h EXCEPT !.snap = Snapshot(op.path)]
        BY <3>4
      <4> HIDE DEF h
      <4> QED BY <4>1, <4>2, <2>2 DEF Handler
    <3> QED BY <2>3, <3>2, <3>3, <3>4
  <2>6. next' \in Counters /\ next'.tid = next.tid /\ blobs' \in SUBSET Version
    BY <2>2, <2>3, CountersType DEF TypeOK, Counters
  <2>7. UNCHANGED <<live, payload, sidecar, expired, rows, jan, crashes, stuck>>
    BY <1>3 DEF VersionRestoreOpen
  <2>8. TypeOK'
    BY <2>5, <2>6, <2>7 DEF TypeOK
  <2>9. InFlight'
    BY <2>1, <2>5, <2>6, <2>7 DEF InFlight
  <2> QED BY <2>8, <2>9
<1>4. CASE VersionRestoreCommit
  <2>1. live' \in [Path -> File]
    BY <1>4 DEF VersionRestoreCommit, TypeOK, Handler
  <2> QED BY <1>4, <2>1, IdleType DEF VersionRestoreCommit, TypeOK, InFlight
<1> QED BY <1>1, <1>2, <1>3, <1>4

LEMMA MoveCopyGood ==
    ASSUME Good,
           \/ \E p, q \in Path : Move(p, q) \/ Copy(p, q)
           \/ MoveRows \/ MoveBlobs
    PROVE  Good'
<1> USE DEF Good
<1>1. ASSUME NEW p \in Path, NEW q \in Path, Move(p, q) PROVE Good'
  <2>1. Absent \in File
    BY DEF Absent, File
  <2>2. /\ op' \in Handler /\ op'.pc = "mv_rows" /\ op'.dest = q
        /\ live' \in [Path -> File]
        /\ UNCHANGED <<payload, sidecar, expired, rows, blobs, jan, next, crashes, stuck>>
    BY <1>1, <2>1, IdleType DEF Move, Handler, HandlerPC, TypeOK
  <2> QED BY <2>2 DEF TypeOK, InFlight
<1>2. ASSUME NEW p \in Path, NEW q \in Path, Copy(p, q) PROVE Good'
  <2>1. /\ live' \in [Path -> File] /\ op.pc = "idle"
        /\ UNCHANGED <<payload, sidecar, expired, rows, blobs, op, jan, crashes, stuck>>
    BY <1>2 DEF Copy, Accepting, TypeOK, File, Counters
  <2>2. next' \in Counters /\ next'.tid = next.tid
    BY <1>2, CountersType DEF Copy, TypeOK, Counters
  <2> QED BY <2>1, <2>2 DEF TypeOK, InFlight
<1>3. CASE MoveRows
  <2>1. op.dest \in Path /\ op \in Handler /\ RowsAt(op.path) \in SUBSET Version
    BY <1>3 DEF MoveRows, InFlight, TypeOK, RowsAt
  <2>2. PICK moved \in Committed(RowsAt(op.path)) :
          /\ rows' = (rows \ moved) \cup Rebase(moved, op.dest)
          /\ stuck' = [stuck EXCEPT !.rows = @ \cup Vids(RowsAt(op.path) \ moved)]
          /\ op' = IF moved = {} THEN Idle ELSE [op EXCEPT !.pc = "mv_blobs"]
    BY <1>3 DEF MoveRows
  <2>3. moved \in SUBSET Version /\ RowsAt(op.path) \ moved \in SUBSET Version
    BY <2>1, <2>2, DonePart
  <2>4. rows' \in SUBSET Version /\ stuck' \in Stuck
    BY <2>1, <2>2, <2>3, RebaseType, StuckType DEF TypeOK
  <2>5. /\ op' \in Handler /\ op'.pc \in {"idle", "mv_blobs"}
        /\ op'.pc = "mv_blobs" => op'.dest = op.dest
    BY <2>1, <2>2, IdleType DEF Handler, HandlerPC
  <2>6. UNCHANGED <<live, payload, sidecar, expired, blobs, jan, next, crashes>>
    BY <1>3 DEF MoveRows
  <2> QED BY <2>1, <2>4, <2>5, <2>6 DEF TypeOK, InFlight
<1>4. CASE MoveBlobs
  <2>1. op.dest \in Path /\ BlobsAt(op.path) \in SUBSET Version
    BY <1>4 DEF MoveBlobs, InFlight, TypeOK, BlobsAt
  <2>2. PICK moved \in Reached(BlobsAt(op.path)) :
          /\ blobs' = (blobs \ moved) \cup Rebase(moved, op.dest)
          /\ stuck' = [stuck EXCEPT !.blobs = @ \cup Vids(BlobsAt(op.path) \ moved)]
    BY <1>4 DEF MoveBlobs
  <2>3. moved \in SUBSET Version /\ BlobsAt(op.path) \ moved \in SUBSET Version
    BY <2>1, <2>2, DonePart
  <2>4. blobs' \in SUBSET Version /\ stuck' \in Stuck
    BY <2>1, <2>2, <2>3, RebaseType, StuckType DEF TypeOK
  <2> QED BY <1>4, <2>4, IdleType DEF MoveBlobs, TypeOK, InFlight
<1> QED BY <1>1, <1>2, <1>3, <1>4

LEMMA DeleteGood ==
    ASSUME Good,
           \/ \E p \in Path : DeleteBegin(p)
           \/ DeleteMove \/ DeletePublish \/ DeleteRollback
    PROVE  Good'
<1> USE DEF Good
<1>1. ASSUME NEW p \in Path, DeleteBegin(p) PROVE Good'
  <2>1. next.tid \in TrashId
    <3>1. next.tid \in Nat \ {0} /\ next.tid <= MaxTrash
      BY <1>1 DEF DeleteBegin, TypeOK, Counters
    <3> QED BY <3>1, BoundAssumption DEF BoundAssumption, TrashId
  <2>2. PICK refs \in Committed(RowsAt(p)) :
          op' = [Idle EXCEPT !.pc = "del_move", !.path = p, !.tid = next.tid, !.refs = refs]
    BY <1>1 DEF DeleteBegin
  <2>r. refs \in SUBSET Version
    BY <2>2, DonePart DEF RowsAt, TypeOK
  <2>3. /\ op' \in Handler /\ op'.pc = "del_move" /\ op'.path = p /\ op'.tid = next.tid
        /\ UNCHANGED <<disk, jan, crashes, stuck>>
    <3>1. next.tid \in 0..MaxTrash
      BY <2>1 DEF TrashId
    <3> QED BY <1>1, <2>2, <2>r, <3>1, IdleType DEF DeleteBegin, Handler, HandlerPC
  <2>4. next' \in Counters /\ next'.tid = next.tid + 1
    BY <1>1, CountersType DEF DeleteBegin, TypeOK, Counters
  <2>5. TypeOK'
    BY <2>3, <2>4 DEF TypeOK, disk
  <2>6. next.tid < next'.tid /\ \A t \in TrashId : t >= next'.tid => t >= next.tid
    <3>1. next.tid \in Nat
      BY DEF TypeOK, Counters
    <3> QED BY <2>4, <3>1 DEF TrashId
  <2>7. payload[next.tid] = Absent
    <3>1. next.tid >= next.tid
      BY <2>1 DEF TrashId
    <3> QED BY <2>1, <3>1 DEF InFlight
  <2>8. InFlight'
    BY <2>1, <2>3, <2>6, <2>7 DEF InFlight, disk
  <2> QED BY <2>5, <2>8
<1>2. CASE DeleteMove
  <2>1. op.path \in Path /\ op.tid \in TrashId /\ Absent \in File /\ op \in Handler
    BY <1>2 DEF DeleteMove, InFlight, Absent, File, TypeOK
  <2>2. /\ op' \in Handler /\ op'.pc = "del_publish" /\ op'.path = op.path
        /\ op'.tid = op.tid
        /\ live' \in [Path -> File] /\ live'[op.path] = Absent
        /\ payload' \in [TrashId -> File]
        /\ UNCHANGED <<sidecar, expired, rows, blobs, jan, next, crashes, stuck>>
    BY <1>2, <2>1 DEF DeleteMove, Handler, HandlerPC, TypeOK
  <2>3. TypeOK'
    BY <2>2 DEF TypeOK
  <2>4. InFlight'
    <3>1. op.tid < next.tid
      BY <1>2 DEF DeleteMove, InFlight
    <3>2. \A t \in TrashId : t >= next'.tid => t # op.tid
      BY <2>2, <3>1, <2>1 DEF TypeOK, Counters, TrashId
    <3>3. \A t \in TrashId : t # op.tid => payload'[t] = payload[t]
      BY <1>2 DEF DeleteMove, TypeOK
    <3> QED BY <2>1, <2>2, <3>1, <3>2, <3>3 DEF InFlight
  <2> QED BY <2>3, <2>4
<1>3. CASE DeletePublish
  <2>1. /\ op.path \in Path /\ op.refs \in SUBSET Version
        /\ next.vid \in Nat
    BY <1>3 DEF DeletePublish, InFlight, TypeOK, Handler, Counters
  <2>2. sidecar' \in [TrashId -> Meta]
    BY <1>3, <2>1 DEF DeletePublish, TypeOK, Meta
  <2> QED BY <1>3, <2>2, IdleType DEF DeletePublish, TypeOK, InFlight
<1>4. CASE DeleteRollback
  <2>1. op.path \in Path /\ op.tid \in TrashId /\ Absent \in File
    BY <1>4 DEF DeleteRollback, InFlight, Absent, File
  <2>2. live' \in [Path -> File] /\ payload' \in [TrashId -> File]
    BY <1>4, <2>1 DEF DeleteRollback, TypeOK
  <2> QED BY <1>4, <2>1, <2>2, IdleType DEF DeleteRollback, TypeOK, InFlight
<1> QED BY <1>1, <1>2, <1>3, <1>4

LEMMA RestoreGood ==
    ASSUME Good,
           \/ \E t \in TrashId : RestoreBegin(t)
           \/ RestoreMove \/ RestoreFail \/ RestoreUnlink \/ RestoreRows \/ RestoreBlobs
    PROVE  Good'
<1> USE DEF Good
<1>1. ASSUME NEW t \in TrashId, RestoreBegin(t) PROVE Good'
  <2>1. sidecar[t] \in Meta /\ OwnedRefs(sidecar[t]) \in SUBSET Version
    BY DEF TypeOK, OwnedRefs, RowsAt, Meta
  <2>2. t \in 0..MaxTrash /\ sidecar[t].orig \in Path \cup {NoPath}
    BY <2>1, BoundAssumption DEF BoundAssumption, TrashId, Meta
  <2>3. /\ op' \in Handler /\ op'.pc = "rs_move" /\ op'.tid = t
        /\ op'.path = sidecar[t].orig /\ sidecar[t].orig \in Path
        /\ UNCHANGED <<disk, jan, next, crashes, stuck>>
    BY <1>1, <2>1, <2>2, IdleType DEF RestoreBegin, Listed, InFlight, Handler, HandlerPC
  <2> QED BY <2>3 DEF TypeOK, InFlight, disk
<1>2. CASE RestoreMove
  <2>1. op.tid \in TrashId /\ Absent \in File /\ op \in Handler
    BY <1>2 DEF RestoreMove, InFlight, Absent, File, TypeOK
  <2>2. PICK q \in Path :
          /\ live' = [live EXCEPT ![q] = payload[op.tid]]
          /\ payload' = [payload EXCEPT ![op.tid] = Absent]
          /\ op' = [op EXCEPT !.pc = "rs_unlink", !.dest = q]
    <3>1. op.path \in Path
      BY <1>2 DEF RestoreMove, InFlight
    <3>2. RestoreDests(op.path) \subseteq Path
      BY <3>1 DEF RestoreDests
    <3> QED BY <1>2, <3>2 DEF RestoreMove
  <2>3. /\ op' \in Handler /\ op'.pc = "rs_unlink" /\ op'.dest = q /\ op'.tid = op.tid
    BY <2>1, <2>2 DEF Handler, HandlerPC
  <2>4. /\ live' \in [Path -> File] /\ payload' \in [TrashId -> File]
        /\ \A t \in TrashId : payload'[t] \in {Absent, payload[t]}
        /\ UNCHANGED <<sidecar, expired, rows, blobs, jan, next, crashes, stuck>>
    BY <1>2, <2>1, <2>2 DEF RestoreMove, TypeOK
  <2> QED BY <2>1, <2>3, <2>4 DEF TypeOK, InFlight
<1>3. CASE RestoreFail
  BY <1>3, IdleType DEF RestoreFail, TypeOK, InFlight, disk
<1>4. CASE RestoreUnlink
  <2>1. NoMeta \in Meta
    BY DEF NoMeta, Meta
  <2>2. /\ op' \in Handler /\ op'.pc \in {"idle", "rs_rows"}
        /\ op'.pc = "rs_rows" => op'.dest = op.dest
        /\ op.dest \in Path
        /\ sidecar' \in [TrashId -> Meta]
        /\ \A u \in TrashId : sidecar'[u] \in {NoMeta, sidecar[u]}
        /\ UNCHANGED <<live, payload, expired, rows, blobs, jan, next, crashes, stuck>>
    BY <1>4, <2>1, IdleType DEF RestoreUnlink, Handler, HandlerPC, TypeOK, InFlight
  <2> QED BY <2>2 DEF TypeOK, InFlight
<1>5. CASE RestoreRows
  <2>1. op.dest \in Path /\ op \in Handler /\ rows \cap op.refs \in SUBSET Version
    BY <1>5 DEF RestoreRows, InFlight, TypeOK
  <2>2. UNCHANGED <<live, payload, sidecar, expired, blobs, jan, next, crashes>>
    BY <1>5 DEF RestoreRows
  <2>3. CASE /\ rows' = (rows \ (rows \cap op.refs)) \cup Rebase(rows \cap op.refs, op.dest)
             /\ op' = [op EXCEPT !.pc = "rs_blobs"]
             /\ UNCHANGED stuck
    <3>1. op' \in Handler /\ op'.pc = "rs_blobs" /\ op'.dest = op.dest
      BY <2>1, <2>3 DEF Handler, HandlerPC
    <3>2. rows' \in SUBSET Version
      BY <2>1, <2>3, RebaseType DEF TypeOK
    <3> QED BY <2>1, <2>2, <2>3, <3>1, <3>2 DEF TypeOK, InFlight
  <2>4. CASE /\ op' = Idle
             /\ stuck' = [stuck EXCEPT !.rows = @ \cup Vids(rows \cap op.refs)]
             /\ UNCHANGED rows
    <3>1. stuck' \in Stuck
      BY <2>1, <2>4, StuckType
    <3> QED BY <2>2, <2>4, <3>1, IdleType DEF TypeOK, InFlight
  <2> QED BY <1>5, <2>3, <2>4 DEF RestoreRows
<1>6. CASE RestoreBlobs
  <2>1. op.dest \in Path /\ blobs \cap op.refs \in SUBSET Version
    BY <1>6 DEF RestoreBlobs, InFlight, TypeOK
  <2>2. PICK moved \in Reached(blobs \cap op.refs) :
          /\ blobs' = (blobs \ moved) \cup Rebase(moved, op.dest)
          /\ stuck' = [stuck EXCEPT !.blobs = @ \cup Vids((blobs \cap op.refs) \ moved)]
    BY <1>6 DEF RestoreBlobs
  <2>3. moved \in SUBSET Version /\ (blobs \cap op.refs) \ moved \in SUBSET Version
    BY <2>1, <2>2, DonePart
  <2>4. blobs' \in SUBSET Version /\ stuck' \in Stuck
    BY <2>1, <2>2, <2>3, RebaseType, StuckType DEF TypeOK
  <2> QED BY <1>6, <2>4, IdleType DEF RestoreBlobs, TypeOK, InFlight
<1> QED BY <1>1, <1>2, <1>3, <1>4, <1>5, <1>6

LEMMA PurgeGood ==
    ASSUME Good,
           \/ \E t \in TrashId : PurgeBegin(t) \/ EmptyPayload(t) \/ EmptySidecar(t)
           \/ PurgeUnlink \/ EmptyBegin \/ EmptyDone
           \/ PurgeRows \/ PurgeBlobs \/ PurgeDir
    PROVE  Good'
<1> USE DEF Good
<1>a. Absent \in File /\ NoMeta \in Meta
  BY DEF Absent, File, NoMeta, Meta
<1>b. ASSUME NEW M \in SUBSET Meta
      PROVE  NextMeta(M) \in Handler /\ NextMeta(M).pc \in {"idle", "pg_rows"}
  BY IdleType DEF NextMeta, Handler, HandlerPC
<1>1. ASSUME NEW t \in TrashId, PurgeBegin(t) PROVE Good'
  <2>1. t \in 0..MaxTrash /\ sidecar[t] \in Meta
    BY BoundAssumption DEF BoundAssumption, TrashId, TypeOK
  <2>2. /\ op' \in Handler /\ op'.pc = "pg_unlink"
    BY <1>1, <2>1, IdleType DEF PurgeBegin, Handler, HandlerPC
  <2>3. /\ payload' \in [TrashId -> File]
        /\ \A u \in TrashId : payload'[u] \in {Absent, payload[u]}
        /\ UNCHANGED <<live, sidecar, expired, rows, blobs, jan, next, crashes, stuck>>
    BY <1>1, <1>a DEF PurgeBegin, TypeOK
  <2> QED BY <2>2, <2>3 DEF TypeOK, InFlight
<1>2. ASSUME NEW t \in TrashId, EmptyPayload(t) PROVE Good'
  <2>1. /\ payload' \in [TrashId -> File]
        /\ \A u \in TrashId : payload'[u] \in {Absent, payload[u]}
        /\ UNCHANGED <<live, sidecar, expired, rows, blobs, op, jan, next, crashes, stuck>>
        /\ op.pc = "em_remove"
    BY <1>2, <1>a DEF EmptyPayload, TypeOK
  <2> QED BY <2>1 DEF TypeOK, InFlight
<1>3. ASSUME NEW t \in TrashId, EmptySidecar(t) PROVE Good'
  BY <1>3, <1>a DEF EmptySidecar, TypeOK, InFlight
<1>4. CASE PurgeUnlink
  <2>1. /\ op' \in Handler /\ op'.pc \in {"idle", "pg_rows"}
        /\ sidecar' \in [TrashId -> Meta]
        /\ \A u \in TrashId : sidecar'[u] \in {NoMeta, sidecar[u]}
        /\ UNCHANGED <<live, payload, expired, rows, blobs, jan, next, crashes, stuck>>
    BY <1>4, <1>a, IdleType DEF PurgeUnlink, Handler, HandlerPC, TypeOK
  <2> QED BY <2>1 DEF TypeOK, InFlight
<1>5. CASE EmptyBegin
  <2>1. {sidecar[t] : t \in {u \in TrashId : Listed(u)}} \in SUBSET Meta
    BY DEF TypeOK
  <2>2. /\ op' \in Handler /\ op'.pc = "em_remove"
        /\ UNCHANGED <<disk, jan, next, crashes, stuck>>
    BY <1>5, <2>1, IdleType DEF EmptyBegin, Handler, HandlerPC
  <2> QED BY <2>2 DEF TypeOK, InFlight, disk
<1>6. CASE EmptyDone
  <2>1. /\ op' \in Handler /\ op'.pc \in {"idle", "pg_rows"}
        /\ UNCHANGED <<disk, jan, next, crashes, stuck>>
    BY <1>6, IdleType DEF EmptyDone, Handler, HandlerPC, TypeOK
  <2> QED BY <2>1 DEF TypeOK, InFlight, disk
<1>7. CASE PurgeRows
  <2>1. PICK m \in op.metas :
          LET hit  == IF m.refs # {} THEN rows \cap m.refs ELSE RowsAt(m.orig)
              rest == op.metas \ {m}
          IN \E gone \in Committed(hit) :
               /\ rows' = rows \ gone
               /\ stuck' = [stuck EXCEPT !.rows = @ \cup Vids(hit \ gone)]
               /\ op' = IF gone = {} THEN NextMeta(rest)
                        ELSE [op EXCEPT !.pc = IF m.refs # {} THEN "pg_blobs" ELSE "pg_dir",
                                        !.refs = m.refs, !.path = m.orig, !.metas = rest]
    BY <1>7 DEF PurgeRows
  <2>2. /\ op \in Handler /\ op.metas \ {m} \in SUBSET Meta /\ rows' \in SUBSET Version
        /\ m.refs \in SUBSET Version /\ m.orig \in Path \cup {NoPath}
    BY <2>1 DEF TypeOK, Handler, Meta
  <2>3. /\ op' \in Handler
        /\ op'.pc \in {"idle", "pg_rows", "pg_blobs", "pg_dir"}
    <3>1. CASE op' = NextMeta(op.metas \ {m})
      BY <2>2, <3>1, <1>b
    <3>2. CASE op' = [op EXCEPT !.pc = "pg_blobs",
                                !.refs = m.refs, !.path = m.orig, !.metas = op.metas \ {m}]
      BY <2>2, <3>2 DEF Handler, HandlerPC
    <3>3. CASE op' = [op EXCEPT !.pc = "pg_dir",
                                !.refs = m.refs, !.path = m.orig, !.metas = op.metas \ {m}]
      BY <2>2, <3>3 DEF Handler, HandlerPC
    <3> QED BY <2>1, <3>1, <3>2, <3>3
  <2>4. UNCHANGED <<live, payload, sidecar, expired, blobs, jan, next, crashes>>
    BY <1>7 DEF PurgeRows
  <2>5. stuck' \in Stuck
    <3>1. \E S \in SUBSET Version : stuck' = [stuck EXCEPT !.rows = @ \cup Vids(S)]
      BY <2>1 DEF TypeOK, RowsAt
    <3> QED BY <3>1, StuckType
  <2> QED BY <2>2, <2>3, <2>4, <2>5 DEF TypeOK, InFlight
<1>8. CASE PurgeBlobs \/ PurgeDir
  <2>1. op.metas \in SUBSET Meta
    BY DEF TypeOK, Handler
  <2>2. /\ op' = NextMeta(op.metas) /\ blobs' \in SUBSET Version
        /\ UNCHANGED <<live, payload, sidecar, expired, rows, jan, next, crashes, stuck>>
    BY <1>8 DEF PurgeBlobs, PurgeDir, TypeOK
  <2>3. op' \in Handler /\ op'.pc \in {"idle", "pg_rows"}
    BY <2>1, <2>2, <1>b
  <2> QED BY <2>2, <2>3 DEF TypeOK, InFlight
<1> QED BY <1>1, <1>2, <1>3, <1>4, <1>5, <1>6, <1>7, <1>8

LEMMA JanitorGood ==
    ASSUME Good, JanitorStep
    PROVE  Good'
<1> USE DEF Good
<1>a. Absent \in File /\ NoMeta \in Meta /\ 0 \in 0..MaxTrash
  BY BoundAssumption DEF BoundAssumption, Absent, File, NoMeta, Meta
<1>b. jan \in Janitor
  BY DEF TypeOK
<1>c. ASSUME jan' \in Janitor,
             UNCHANGED <<live, payload, sidecar, expired, op, next, crashes>>,
             rows' \in SUBSET Version, blobs' \in SUBSET Version, stuck' \in Stuck
      PROVE  Good'
  BY <1>c DEF TypeOK, InFlight
<1>1. CASE JanitorStart
  <2>1. {t \in expired : Listed(t)} \in SUBSET TrashId
    BY DEF TypeOK
  <2>2. jan' \in Janitor
    BY <1>1, <2>1, JIdleType DEF JanitorStart, Janitor, JanitorPC
  <2> QED BY <1>1, <1>c, <2>2 DEF JanitorStart, disk, TypeOK
<1>2. ASSUME NEW t \in jan.list, JanitorRead(t) PROVE Good'
  <2>1. t \in TrashId /\ t \in 0..MaxTrash /\ sidecar[t] \in Meta
    BY <1>b, BoundAssumption DEF BoundAssumption, Janitor, TrashId, TypeOK
  <2>2. jan' \in Janitor
    BY <1>2, <1>b, <2>1 DEF JanitorRead, Janitor, JanitorPC
  <2> QED BY <1>2, <1>c, <2>2 DEF JanitorRead, disk, TypeOK
<1>3. CASE JanitorRemove
  <2>1. jan' \in Janitor
    BY <1>3, <1>b DEF JanitorRemove, Janitor, JanitorPC
  <2>2. /\ payload' \in [TrashId -> File]
        /\ \A u \in TrashId : payload'[u] \in {Absent, payload[u]}
        /\ UNCHANGED <<live, sidecar, expired, rows, blobs, op, next, crashes, stuck>>
    BY <1>3, <1>a DEF JanitorRemove, TypeOK
  <2> QED BY <2>1, <2>2 DEF TypeOK, InFlight
<1>4. CASE JanitorUnlink
  <2>1. jan.meta \in Meta /\ jan.todo \cup {jan.meta} \in SUBSET Meta
    BY <1>b DEF Janitor
  <2>2. jan' \in Janitor
    BY <1>4, <1>a, <1>b, <2>1 DEF JanitorUnlink, Janitor, JanitorPC
  <2>3. /\ sidecar' \in [TrashId -> Meta]
        /\ \A u \in TrashId : sidecar'[u] \in {NoMeta, sidecar[u]}
        /\ UNCHANGED <<live, payload, expired, rows, blobs, op, next, crashes, stuck>>
    BY <1>4, <1>a DEF JanitorUnlink, TypeOK
  <2> QED BY <2>2, <2>3 DEF TypeOK, InFlight
<1>5. CASE JanitorScanDone
  <2>1. jan' \in Janitor
    BY <1>5, <1>b DEF JanitorScanDone, Janitor, JanitorPC
  <2> QED BY <1>5, <1>c, <2>1 DEF JanitorScanDone, disk, TypeOK
<1>6. ASSUME NEW m \in jan.todo, JanitorPurgeRows(m) PROVE Good'
  <2>1. m \in Meta
    BY <1>b DEF Janitor
  <2>2. PICK gone \in Committed(RowsAt(m.orig)) :
          /\ rows' = rows \ gone
          /\ stuck' = [stuck EXCEPT !.rows = @ \cup Vids(RowsAt(m.orig) \ gone)]
          /\ jan' = IF gone = {} THEN [jan EXCEPT !.todo = @ \ {m}]
                    ELSE [jan EXCEPT !.todo = @ \ {m}, !.pc = "purge_dir", !.meta = m]
    BY <1>6 DEF JanitorPurgeRows
  <2>3. jan' \in Janitor
    BY <1>b, <2>1, <2>2 DEF Janitor, JanitorPC
  <2>4. rows' \in SUBSET Version /\ RowsAt(m.orig) \ gone \in SUBSET Version
    BY <2>2 DEF TypeOK, RowsAt
  <2>5. stuck' \in Stuck
    BY <2>2, <2>4, StuckType
  <2> QED BY <1>6, <1>c, <2>3, <2>4, <2>5 DEF JanitorPurgeRows, TypeOK
<1>7. CASE JanitorPurgeDir
  <2>1. jan' \in Janitor
    BY <1>7, <1>a, <1>b DEF JanitorPurgeDir, Janitor, JanitorPC
  <2> QED BY <1>7, <1>c, <2>1 DEF JanitorPurgeDir, TypeOK
<1>8. CASE JanitorSelect
  <2>1. Excess \in SUBSET Version
    BY DEF Excess, TypeOK
  <2>2. jan' \in Janitor
    BY <1>8, <2>1, JIdleType DEF JanitorSelect, Janitor, JanitorPC
  <2> QED BY <1>8, <1>c, <2>2 DEF JanitorSelect, disk, TypeOK
<1>9. ASSUME NEW v \in jan.sel, JanitorDeleteRow(v) PROVE Good'
  <2>1. v \in Version
    BY <1>b DEF Janitor
  <2>2. jan' \in Janitor
    BY <1>9, <1>b, <2>1 DEF JanitorDeleteRow, Janitor, JanitorPC
  <2> QED BY <1>9, <1>c, <2>2 DEF JanitorDeleteRow, TypeOK
<1>10. ASSUME NEW v \in jan.gone, JanitorPruneBlob(v) PROVE Good'
  <2>1. jan' \in Janitor
    BY <1>10, <1>b, JIdleType DEF JanitorPruneBlob, Janitor, JanitorPC
  <2> QED BY <1>10, <1>c, <2>1 DEF JanitorPruneBlob, TypeOK
<1>11. CASE JanitorPruneFail
  BY <1>11, <1>c, JIdleType DEF JanitorPruneFail, disk, TypeOK
<1> QED BY <1>1, <1>2, <1>3, <1>4, <1>5, <1>6, <1>7, <1>8, <1>9, <1>10, <1>11 DEF JanitorStep

LEMMA NextGood == Good /\ [Next]_vars => Good'
<1> SUFFICES ASSUME Good, [Next]_vars PROVE Good'
  OBVIOUS
<1>1. CASE Request
  BY <1>1, UploadGood, VersionRestoreGood, MoveCopyGood, DeleteGood, RestoreGood, PurgeGood
  DEF Request
<1>2. CASE HandlerStep
  BY <1>2, UploadGood, VersionRestoreGood, MoveCopyGood, DeleteGood, RestoreGood, PurgeGood
  DEF HandlerStep
<1>3. CASE JanitorStep
  BY <1>3, JanitorGood
<1>4. CASE Crash
  <2>1. crashes' \in 0..MaxCrash
    BY <1>4, BoundAssumption DEF BoundAssumption, Crash, Good, TypeOK
  <2> QED BY <1>4, <2>1, IdleType, JIdleType DEF Crash, Good, TypeOK, InFlight, disk
<1>5. ASSUME NEW t \in TrashId, Expire(t) PROVE Good'
  BY <1>5 DEF Expire, Good, TypeOK, InFlight
<1>6. CASE UNCHANGED vars
  BY <1>6 DEF vars, Good, TypeOK, InFlight
<1> QED BY <1>1, <1>2, <1>3, <1>4, <1>5, <1>6 DEF Next

\* Every reachable state is well typed.
THEOREM TypeCorrect == Spec => []TypeOK
<1>1. Good => TypeOK
  BY DEF Good
<1> QED BY InitGood, NextGood, <1>1, PTL DEF Spec

\* What a handler checked is still so when it commits, whatever the janitor,
\* failing renames and crashes do.
THEOREM InFlightHolds == Spec => []InFlight
<1>1. Good => InFlight
  BY DEF Good
<1> QED BY InitGood, NextGood, <1>1, PTL DEF Spec

-----------------------------------------------------------------------------
(* No file vanishes                                                          *)

\* It is enough that every identity is found again after the step.
LEMMA StillOnDisk ==
    ASSUME \A p \in Path : live[p].item \in 1..MaxItem =>
               \/ \E q \in Path : live'[q].item = live[p].item
               \/ \E t \in TrashId : payload'[t].item = live[p].item,
           \A u \in TrashId : payload[u].item \in 1..MaxItem =>
               \/ \E q \in Path : live'[q].item = payload[u].item
               \/ \E t \in TrashId : payload'[t].item = payload[u].item
    PROVE  OnDisk \subseteq OnDisk'
<1> SUFFICES ASSUME NEW i \in 1..MaxItem, Where(i) # {}
             PROVE  Where(i)' # {}
  BY DEF OnDisk
<1>1. (\E p \in Path : live[p].item = i) \/ (\E t \in TrashId : payload[t].item = i)
  BY DEF Where
<1>2. (\E p \in Path : live'[p].item = i) \/ (\E t \in TrashId : payload'[t].item = i)
  BY <1>1
<1>3. ASSUME NEW p \in Path, live'[p].item = i
      PROVE  <<"live", p>> \in Where(i)'
  BY <1>3 DEF Where
<1>4. ASSUME NEW t \in TrashId, payload'[t].item = i
      PROVE  <<"trash", t>> \in Where(i)'
  BY <1>4 DEF Where, TrashId
<1> QED BY <1>2, <1>3, <1>4

LEMMA SameFiles ==
    ASSUME UNCHANGED <<live, payload>>
    PROVE  OnDisk \subseteq OnDisk'
BY DEF OnDisk, Where

LEMMA NoItemZero == Absent.item = 0 /\ 0 \notin 1..MaxItem
BY DEF Absent

LEMMA NextNeverVanishes ==
    ASSUME Good, [Next]_vars
    PROVE  [(OnDisk \subseteq OnDisk') \/ Purging]_vars
<1> USE DEF Good
<1>1. CASE UploadCommit \/ VersionRestoreCommit
  <2>1. /\ op.dest \in Path /\ live[op.dest].item \in {0, op.file.item}
        /\ live' = [live EXCEPT ![op.dest] = op.file] /\ payload' = payload
        /\ live \in [Path -> File]
    BY <1>1 DEF UploadCommit, VersionRestoreCommit, InFlight, TypeOK
  <2>2. \A p \in Path : live[p].item # 0 => live'[p].item = live[p].item
    BY <2>1
  <2> QED BY <2>1, <2>2, NoItemZero, StillOnDisk
<1>2. ASSUME NEW p \in Path, NEW q \in Path, Move(p, q) \/ Copy(p, q)
      PROVE  OnDisk \subseteq OnDisk'
  <2>1. /\ live[q].item = 0 /\ payload' = payload
        /\ \A r \in Path \ {q} : live'[r] = live[r] \/ (r = p /\ live'[q] = live[p])
    BY <1>2, NoItemZero DEF Move, Copy, TypeOK
  <2> QED BY <2>1, NoItemZero, StillOnDisk
<1>3. CASE DeleteMove
  <2>1. op.path \in Path /\ op.tid \in TrashId /\ payload[op.tid].item = 0
    BY <1>3, NoItemZero DEF DeleteMove, InFlight
  <2>2. /\ payload'[op.tid] = live[op.path]
        /\ \A p \in Path \ {op.path} : live'[p] = live[p]
        /\ \A t \in TrashId \ {op.tid} : payload'[t] = payload[t]
    BY <1>3, <2>1 DEF DeleteMove, TypeOK
  <2> QED BY <2>1, <2>2, NoItemZero, StillOnDisk
<1>4. CASE DeleteRollback
  <2>1. op.path \in Path /\ op.tid \in TrashId /\ live[op.path].item = 0
    BY <1>4, NoItemZero DEF DeleteRollback, InFlight
  <2>2. /\ live'[op.path] = payload[op.tid]
        /\ \A p \in Path \ {op.path} : live'[p] = live[p]
        /\ \A t \in TrashId \ {op.tid} : payload'[t] = payload[t]
    BY <1>4, <2>1 DEF DeleteRollback, TypeOK
  <2> QED BY <2>1, <2>2, NoItemZero, StillOnDisk
<1>5. CASE RestoreMove
  <2>1. op.tid \in TrashId /\ op.path \in Path
    BY <1>5 DEF RestoreMove, InFlight
  <2>2. PICK q \in RestoreDests(op.path) :
          /\ live' = [live EXCEPT ![q] = payload[op.tid]]
          /\ payload' = [payload EXCEPT ![op.tid] = Absent]
    BY <1>5 DEF RestoreMove
  <2>3. q \in Path /\ live[q].item = 0
    BY <2>1, <2>2, NoItemZero DEF RestoreDests
  <2>4. /\ live'[q] = payload[op.tid]
        /\ \A p \in Path \ {q} : live'[p] = live[p]
        /\ \A t \in TrashId \ {op.tid} : payload'[t] = payload[t]
    BY <2>1, <2>2, <2>3 DEF TypeOK
  <2> QED BY <2>1, <2>3, <2>4, NoItemZero, StillOnDisk
<1>6. CASE Request /\ ~\E p, q \in Path : Move(p, q) \/ Copy(p, q)
  <2>1. UNCHANGED <<live, payload>> \/ \E t \in TrashId : PurgeBegin(t)
    BY <1>6 DEF Request, UploadFresh, UploadOver, DeleteBegin, VersionRestoreBegin,
                RestoreBegin, EmptyBegin, disk
  <2> QED BY <2>1, SameFiles DEF Purging
<1>7. CASE HandlerStep /\ ~UploadCommit /\ ~VersionRestoreCommit /\ ~DeleteMove
           /\ ~DeleteRollback /\ ~RestoreMove
  <2>1. UNCHANGED <<live, payload>> \/ \E t \in TrashId : EmptyPayload(t)
    BY <1>7 DEF HandlerStep, CommitFail, UploadIndex, VersionRestoreIndex, VersionRestoreOpen,
                MoveRows, MoveBlobs, DeletePublish, RestoreFail, RestoreUnlink, RestoreRows,
                RestoreBlobs, PurgeUnlink, EmptyDone, PurgeRows, PurgeBlobs, PurgeDir,
                EmptySidecar, disk
  <2> QED BY <2>1, SameFiles DEF Purging
<1>8. CASE JanitorStep
  <2>1. UNCHANGED <<live, payload>> \/ JanitorRemove
    BY <1>8 DEF JanitorStep, JanitorStart, JanitorRead, JanitorUnlink, JanitorScanDone,
                JanitorPurgeRows, JanitorPurgeDir, JanitorSelect, JanitorDeleteRow,
                JanitorPruneBlob, JanitorPruneFail, disk
  <2> QED BY <2>1, SameFiles DEF Purging
<1>9. CASE Crash \/ (\E t \in TrashId : Expire(t))
  BY <1>9, SameFiles DEF Crash, Expire, disk
<1> QED BY <1>1, <1>2, <1>3, <1>4, <1>5, <1>6, <1>7, <1>8, <1>9 DEF Next, Request, HandlerStep

\* However requests, the janitor, failing renames and crashes interleave, a
\* file leaves the disk only in a step of a permanent purge.
THEOREM FilesNeverVanish == Spec => NeverVanishes
<1>1. Good /\ [Next]_vars => [(OnDisk \subseteq OnDisk') \/ Purging]_vars
  BY NextNeverVanishes
<1> QED BY InitGood, NextGood, <1>1, PTL DEF Spec, NeverVanishes

-----------------------------------------------------------------------------
(* The vault                                                                 *)

\* What the vault knows as a file.
VaultFile == [item : 1..MaxItem, data : 1..MaxData]

\* A place holds nothing, or a file whose identity has been handed out.
Known(f) == f = Absent \/ (f \in VaultFile /\ f.item < next.item)

FilesKnown == /\ \A p \in Path : Known(live[p])
              /\ \A t \in TrashId : Known(payload[t])

\* A restore finds content in a version, as it was once in a file.
HistoriesKnown ==
    /\ \A v \in rows \cup op.snap : v.file.data \in 1..MaxData
    /\ op.pc \in {"vr_index", "vr_open"} => \A v \in op.refs : v.file.data \in 1..MaxData

\* Nobody holds the identity i.
Unheld(i) == /\ \A p \in Path : live[p].item # i
             /\ \A t \in TrashId : payload[t].item # i

\* A commit is about to overwrite the very file it replaces, or to create one
\* nobody has seen; a restore that is to create one still has an identity for it.
WriteReady ==
    /\ op.pc \in {"up_commit", "vr_commit"} =>
         /\ op.file \in VaultFile /\ op.file.item < next.item
         /\ \/ live[op.dest] # Absent /\ live[op.dest].item = op.file.item
            \/ live[op.dest] = Absent /\ Unheld(op.file.item)
    /\ op.pc = "vr_index" => live[op.path] # Absent
    /\ op.pc = "vr_open" /\ live[op.path] = Absent => next.item <= MaxItem

Mapped == Good /\ FilesKnown /\ HistoriesKnown /\ WriteReady

\* A step of the vault or a stutter.
VaultStep == V!Next \/ UNCHANGED <<live, payload>>

-----------------------------------------------------------------------------
(* Facts about the pieces                                                    *)

LEMMA RebaseKeepsFiles ==
    ASSUME NEW S, NEW q, NEW v \in Rebase(S, q), S \in SUBSET Version
    PROVE  \E w \in S : v.file = w.file
BY DEF Rebase, Version

LEMMA FreshItem ==
    ASSUME Mapped
    PROVE  next.item \in Nat \ {0} /\ Unheld(next.item)
<1>1. next.item \in Nat \ {0}
  BY DEF Mapped, Good, TypeOK, Counters
<1>2. \A f : Known(f) => f.item # next.item
  BY <1>1 DEF Known, VaultFile, Absent
<1> QED BY <1>1, <1>2 DEF Mapped, FilesKnown, Unheld

\* Taking files away and handing out identities disturb no file and no plan.
LEMMA FewerFiles ==
    ASSUME Mapped, Good', live' = live,
           \A t \in TrashId : payload'[t] \in {Absent, payload[t]},
           next'.item >= next.item
    PROVE  /\ FilesKnown'
           /\ \A i \in Nat \ {0} : Unheld(i) => Unheld(i)'
<1>1. next.item \in Nat /\ next'.item \in Nat
  BY DEF Mapped, Good, TypeOK, Counters
<1>2. \A f : Known(f) => Known(f)'
  BY <1>1 DEF Known, VaultFile
<1>3. FilesKnown'
  BY <1>2 DEF Mapped, FilesKnown, Known
<1>4. \A i \in Nat \ {0} : Unheld(i) => Unheld(i)'
  BY DEF Unheld, Absent
<1> QED BY <1>3, <1>4

\* A step that leaves the live files alone and does not begin a write.
LEMMA NoWriteMapped ==
    ASSUME Mapped, Good', live' = live,
           \A t \in TrashId : payload'[t] \in {Absent, payload[t]},
           next'.item >= next.item,
           \A v \in rows' \cup op'.snap : \E w \in rows \cup op.snap : v.file = w.file,
           op'.pc \notin {"up_commit", "vr_commit", "vr_index", "vr_open"}
    PROVE  Mapped'
<1>1. FilesKnown'
  BY FewerFiles
<1>2. HistoriesKnown'
  BY DEF Mapped, HistoriesKnown
<1>3. WriteReady'
  BY DEF WriteReady
<1> QED BY <1>1, <1>2, <1>3 DEF Mapped

\* A step of the janitor, which knows of no handler.
LEMMA AsideMapped ==
    ASSUME Mapped, Good', live' = live,
           \A t \in TrashId : payload'[t] \in {Absent, payload[t]},
           UNCHANGED <<op, next>>, rows' \in SUBSET rows
    PROVE  Mapped'
<1>1. next.item \in Nat /\ next'.item >= next.item
  BY DEF Mapped, Good, TypeOK, Counters
<1>2. FilesKnown' /\ \A i \in Nat \ {0} : Unheld(i) => Unheld(i)'
  BY <1>1, FewerFiles
<1>3. HistoriesKnown'
  BY DEF Mapped, HistoriesKnown
<1>4. WriteReady'
  BY <1>2 DEF Mapped, WriteReady, VaultFile
<1> QED BY <1>2, <1>3, <1>4 DEF Mapped

\* Emptying a slot of the trash is what the vault calls destroying.
LEMMA EmptyingDestroys ==
    ASSUME TypeOK, NEW t \in 0..MaxTrash,
           live' = live, payload' = [payload EXCEPT ![t] = Absent]
    PROVE  /\ VaultStep
           /\ \A u \in TrashId : payload'[u] \in {Absent, payload[u]}
<1>1. payload \in [TrashId -> File]
  BY DEF TypeOK
<1>2. \A u \in TrashId : payload'[u] \in {Absent, payload[u]}
  BY <1>1
<1>3. CASE t \in TrashId /\ payload[t] # Absent
  <2>1. V!Destroy(t)
    BY <1>3 DEF V!Destroy
  <2> QED BY <1>2, <1>3, <2>1 DEF VaultStep, V!Next
<1>4. CASE t \notin TrashId \/ payload[t] = Absent
  <2>1. payload' = payload
    BY <1>1, <1>4
  <2> QED BY <1>2, <2>1 DEF VaultStep
<1> QED BY <1>3, <1>4

-----------------------------------------------------------------------------
(* Writing: uploads and version restores                                     *)

LEMMA SnapshotKnown ==
    ASSUME FilesKnown, NEW p \in Path, live[p] # Absent
    PROVE  \A v \in Snapshot(p) : v.file.data \in 1..MaxData
BY DEF Snapshot, FilesKnown, Known, VaultFile

LEMMA UploadMapped ==
    ASSUME Mapped, Good',
           \/ \E p, q \in Path : UploadFresh(p, q)
           \/ \E p \in Path : UploadOver(p)
    PROVE  Mapped' /\ VaultStep
<1>a. /\ next.item \in Nat \ {0} /\ next.data \in Nat \ {0}
      /\ next'.item >= next.item /\ UNCHANGED <<live, payload, rows>>
  <2>1. next \in Counters /\ next.item \in Nat \ {0} /\ next.data \in Nat \ {0}
    BY DEF Mapped, Good, TypeOK, Counters
  <2>2. next'.item = next.item \/ next'.item = next.item + 1
    BY <2>1 DEF Counters, UploadFresh, UploadOver
  <2>3. UNCHANGED <<live, payload, rows>>
    BY DEF UploadFresh, UploadOver, disk
  <2> QED BY <2>1, <2>2, <2>3
<1>b. FilesKnown' /\ \A i \in Nat \ {0} : Unheld(i) => Unheld(i)'
  BY <1>a, FewerFiles
<1>1. ASSUME NEW p \in Path, NEW q \in Path, UploadFresh(p, q)
      PROVE  HistoriesKnown' /\ WriteReady'
  <2>1. /\ op'.pc = "up_commit" /\ op'.dest = q /\ op'.snap = {} /\ live[q] = Absent
        /\ op'.file = [item |-> next.item, data |-> next.data]
        /\ next'.item = next.item + 1
        /\ next.item <= MaxItem /\ next.data <= MaxData
    BY <1>1 DEF UploadFresh, Idle, Mapped, Good, TypeOK, Counters
  <2>2. op'.file \in VaultFile /\ op'.file.item < next'.item
    BY <2>1, <1>a, BoundAssumption DEF BoundAssumption, VaultFile
  <2>3. Unheld(op.file.item)'
    BY <1>b, <2>1, FreshItem
  <2> QED BY <1>a, <2>1, <2>2, <2>3 DEF Mapped, HistoriesKnown, WriteReady
<1>2. ASSUME NEW p \in Path, UploadOver(p)
      PROVE  HistoriesKnown' /\ WriteReady'
  <2>1. /\ op'.pc = "up_commit" /\ op'.dest = p /\ op'.snap = Snapshot(p) /\ live[p] # Absent
        /\ op'.file = [item |-> live[p].item, data |-> next.data]
        /\ next'.item = next.item /\ next.data <= MaxData
    BY <1>2 DEF UploadOver, Idle, Mapped, Good, TypeOK, Counters
  <2>2. live[p].item \in 1..MaxItem /\ live[p].item < next.item
    BY <2>1 DEF Mapped, FilesKnown, Known, VaultFile
  <2>3. op'.file \in VaultFile /\ op'.file.item < next'.item
    BY <2>1, <2>2, <1>a, BoundAssumption DEF BoundAssumption, VaultFile
  <2>4. \A v \in op'.snap : v.file.data \in 1..MaxData
    BY <2>1, SnapshotKnown DEF Mapped
  <2> QED BY <1>a, <2>1, <2>3, <2>4 DEF Mapped, HistoriesKnown, WriteReady
<1> QED BY <1>a, <1>b, <1>1, <1>2 DEF Mapped, VaultStep

LEMMA VersionRestoreMapped ==
    ASSUME Mapped, Good',
           \/ \E v \in rows : VersionRestoreBegin(v)
           \/ VersionRestoreIndex \/ VersionRestoreOpen
    PROVE  Mapped' /\ VaultStep
<1>a. next.item \in Nat \ {0} /\ UNCHANGED <<live, payload>>
  BY DEF Mapped, Good, TypeOK, Counters, VersionRestoreBegin, VersionRestoreIndex,
         VersionRestoreOpen
<1>b. ASSUME next'.item >= next.item
      PROVE  FilesKnown' /\ \A i \in Nat \ {0} : Unheld(i) => Unheld(i)'
  BY <1>a, <1>b, FewerFiles
<1>1. ASSUME NEW v \in rows, VersionRestoreBegin(v)
      PROVE  FilesKnown' /\ HistoriesKnown' /\ WriteReady'
  <2>1. v.path \in Path /\ v.file.data \in 1..MaxData
    BY DEF Mapped, Good, TypeOK, Version, HistoriesKnown
  <2>2. /\ op'.refs = {v} /\ op'.path = v.path /\ rows' = rows /\ next'.item = next.item
        /\ \/ op'.pc = "vr_open" /\ op'.snap = {} /\ next.item <= MaxItem
           \/ /\ op'.pc = "vr_index" /\ op'.snap = Snapshot(v.path)
              /\ live[v.path] # Absent
    BY <1>1 DEF VersionRestoreBegin, Idle, Mapped, Good, TypeOK, Counters
  <2>3. \A w \in op'.snap : w.file.data \in 1..MaxData
    BY <2>1, <2>2, SnapshotKnown DEF Mapped
  <2> QED BY <1>a, <1>b, <2>1, <2>2, <2>3 DEF Mapped, HistoriesKnown, WriteReady
<1>2. CASE VersionRestoreIndex
  <2>1. /\ op.pc = "vr_index" /\ op'.pc = "vr_open" /\ op'.path = op.path
        /\ op'.refs = op.refs /\ op'.snap = {} /\ next' = next
        /\ rows' \subseteq rows \cup op.snap
    <3>1. PICK done \in Committed(op.snap) : rows' = rows \cup done
      BY <1>2 DEF VersionRestoreIndex
    <3>2. done \subseteq op.snap
      BY <3>1, DonePart
    <3> QED BY <1>2, <3>1, <3>2 DEF VersionRestoreIndex, Mapped, Good, TypeOK, Handler
  <2> QED BY <1>a, <1>b, <2>1 DEF Mapped, HistoriesKnown, WriteReady, VaultStep
<1>3. CASE VersionRestoreOpen
  <2>1. op.pc = "vr_open" /\ op.path \in Path /\ op \in Handler /\ rows' = rows
    BY <1>3 DEF VersionRestoreOpen, Mapped, Good, InFlight, TypeOK
  <2>2. PICK v \in op.refs :
          \/ op' = Idle /\ next' = next
          \/ /\ live[op.path] = Absent
             /\ op' = [op EXCEPT !.pc = "vr_commit", !.dest = op.path,
                                 !.file = [item |-> next.item, data |-> v.file.data]]
             /\ next' = [next EXCEPT !.item = @ + 1]
          \/ /\ live[op.path] # Absent
             /\ op' = [op EXCEPT !.pc = "vr_commit", !.dest = op.path,
                                 !.file = [item |-> live[op.path].item,
                                           data |-> v.file.data],
                                 !.snap = Snapshot(op.path)]
             /\ next' = [next EXCEPT !.vid = @ + 1]
    BY <1>3 DEF VersionRestoreOpen
  <2>3. v.file.data \in 1..MaxData
    BY <2>1 DEF Mapped, HistoriesKnown
  <2>4. CASE op' = Idle /\ next' = next
    <3>1. FilesKnown' /\ op'.pc = "idle" /\ op'.snap = {}
      BY <1>a, <1>b, <2>4 DEF Idle
    <3> QED BY <1>a, <2>1, <3>1 DEF Mapped, HistoriesKnown, WriteReady, VaultStep
  <2>5. CASE /\ live[op.path] = Absent
             /\ op' = [op EXCEPT !.pc = "vr_commit", !.dest = op.path,
                                 !.file = [item |-> next.item, data |-> v.file.data]]
             /\ next' = [next EXCEPT !.item = @ + 1]
    <3>1. /\ op'.pc = "vr_commit" /\ op'.dest = op.path /\ op'.snap = op.snap
          /\ op'.file = [item |-> next.item, data |-> v.file.data]
      BY <2>1, <2>5 DEF Handler
    <3>2. next'.item = next.item + 1 /\ next.item <= MaxItem
      BY <2>1, <2>5 DEF Mapped, Good, TypeOK, Counters, WriteReady
    <3>3. op'.file \in VaultFile /\ op'.file.item < next'.item
      BY <1>a, <2>3, <3>1, <3>2, BoundAssumption DEF BoundAssumption, VaultFile
    <3>4. FilesKnown' /\ Unheld(op.file.item)'
      BY <1>a, <1>b, <3>1, <3>2, FreshItem
    <3> QED BY <1>a, <2>1, <2>5, <3>1, <3>3, <3>4 DEF Mapped, HistoriesKnown, WriteReady, VaultStep
  <2>6. CASE /\ live[op.path] # Absent
             /\ op' = [op EXCEPT !.pc = "vr_commit", !.dest = op.path,
                                 !.file = [item |-> live[op.path].item,
                                           data |-> v.file.data],
                                 !.snap = Snapshot(op.path)]
             /\ next' = [next EXCEPT !.vid = @ + 1]
    <3>1. /\ op'.pc = "vr_commit" /\ op'.dest = op.path /\ op'.snap = Snapshot(op.path)
          /\ op'.file = [item |-> live[op.path].item, data |-> v.file.data]
          /\ next'.item = next.item
      BY <2>1, <2>6 DEF Handler, Mapped, Good, TypeOK, Counters
    <3>2. live[op.path].item \in 1..MaxItem /\ live[op.path].item < next.item
      BY <2>1, <2>6 DEF Mapped, FilesKnown, Known, VaultFile
    <3>3. op'.file \in VaultFile /\ op'.file.item < next'.item
      BY <2>3, <3>1, <3>2 DEF VaultFile
    <3>4. FilesKnown' /\ \A w \in op'.snap : w.file.data \in 1..MaxData
      BY <1>a, <1>b, <2>1, <2>6, <3>1, SnapshotKnown DEF Mapped
    <3> QED BY <1>a, <2>1, <2>6, <3>1, <3>3, <3>4 DEF Mapped, HistoriesKnown, WriteReady, VaultStep
  <2> QED BY <2>2, <2>4, <2>5, <2>6
<1> QED BY <1>a, <1>1, <1>2, <1>3 DEF Mapped, VaultStep

\* A commit is a creation or an overwriting in the vault.
LEMMA CommitMapped ==
    ASSUME Mapped, Good', UploadCommit \/ VersionRestoreCommit
    PROVE  Mapped' /\ VaultStep
<1>1. /\ op.dest \in Path /\ live \in [Path -> File]
      /\ op.file \in VaultFile /\ op.file.item < next.item
      /\ \/ live[op.dest] # Absent /\ live[op.dest].item = op.file.item
         \/ live[op.dest] = Absent /\ Unheld(op.file.item)
  BY DEF UploadCommit, VersionRestoreCommit, Mapped, Good, TypeOK, InFlight, WriteReady
<1>2. /\ live' = [live EXCEPT ![op.dest] = op.file]
      /\ UNCHANGED <<payload, rows, next>>
      /\ op'.pc \in {"idle", "up_index"} /\ op'.snap \in SUBSET op.snap
  BY IdleType DEF UploadCommit, VersionRestoreCommit, Idle, Mapped, Good, TypeOK, Handler
<1>3. FilesKnown'
  BY <1>1, <1>2 DEF Mapped, FilesKnown, Known
<1>4. HistoriesKnown' /\ WriteReady'
  BY <1>2 DEF Mapped, HistoriesKnown, WriteReady
<1>5. VaultStep
  <2>1. CASE live[op.dest] # Absent /\ live[op.dest].item = op.file.item
    <3>1. V!Overwrite(op.dest, op.file)
      BY <1>2, <2>1 DEF V!Overwrite
    <3> QED BY <1>1, <3>1 DEF VaultStep, V!Next, VaultFile
  <2>2. CASE live[op.dest] = Absent /\ Unheld(op.file.item)
    <3>1. \A g \in V!Held : g.item # op.file.item
      BY <2>2 DEF V!Held, Unheld
    <3>2. V!Create(op.dest, op.file)
      BY <1>2, <2>2, <3>1 DEF V!Create
    <3> QED BY <1>1, <3>2 DEF VaultStep, V!Next, VaultFile
  <2> QED BY <1>1, <2>1, <2>2
<1> QED BY <1>3, <1>4, <1>5 DEF Mapped

-----------------------------------------------------------------------------
(* Moving files about                                                        *)

LEMMA MoveMapped ==
    ASSUME Mapped, Good', NEW p \in Path, NEW q \in Path, Move(p, q)
    PROVE  Mapped' /\ VaultStep
<1>1. /\ live' = [live EXCEPT ![q] = live[p], ![p] = Absent]
      /\ live[p] # Absent /\ live[q] = Absent /\ live \in [Path -> File]
      /\ op'.pc = "mv_rows" /\ op'.snap = {} /\ UNCHANGED <<payload, rows, next>>
  BY DEF Move, Idle, Mapped, Good, TypeOK
<1>2. \A r \in Path : live'[r] \in {Absent, live[p], live[r]}
  BY <1>1
<1>3. FilesKnown'
  BY <1>1, <1>2 DEF Mapped, FilesKnown, Known
<1>4. HistoriesKnown' /\ WriteReady'
  BY <1>1 DEF Mapped, HistoriesKnown, WriteReady
<1>5. V!Rename(p, q)
  BY <1>1 DEF V!Rename
<1> QED BY <1>3, <1>4, <1>5 DEF Mapped, VaultStep, V!Next

LEMMA CopyMapped ==
    ASSUME Mapped, Good', NEW p \in Path, NEW q \in Path, Copy(p, q)
    PROVE  Mapped' /\ VaultStep
<1> DEFINE copy == [item |-> next.item, data |-> live[p].data]
<1>1. /\ live' = [live EXCEPT ![q] = copy]
      /\ live[p] # Absent /\ live[q] = Absent /\ live \in [Path -> File]
      /\ next.item <= MaxItem /\ next'.item = next.item + 1
      /\ op.pc = "idle" /\ UNCHANGED <<op, payload, rows>>
  BY DEF Copy, Accepting, Mapped, Good, TypeOK, Counters
<1>2. next.item \in Nat \ {0} /\ Unheld(next.item)
  BY FreshItem
<1>3. copy \in VaultFile /\ copy.item < next'.item
  BY <1>1, <1>2, BoundAssumption DEF BoundAssumption, Mapped, FilesKnown, Known, VaultFile
<1>4. \A f : Known(f) => Known(f)'
  BY <1>1, <1>2 DEF Known, VaultFile
<1>5. FilesKnown'
  BY <1>1, <1>3, <1>4 DEF Mapped, FilesKnown, Known
<1>6. HistoriesKnown' /\ WriteReady'
  BY <1>1 DEF Mapped, HistoriesKnown, WriteReady
<1>7. V!Create(q, copy)
  BY <1>1, <1>2 DEF V!Create, V!Held, Unheld
<1> QED BY <1>3, <1>5, <1>6, <1>7 DEF Mapped, VaultStep, V!Next, VaultFile

\* A file that changes places is still a file the vault knows.
LEMMA ExchangeMapped ==
    ASSUME Mapped, Good', NEW p \in Path, NEW t \in TrashId,
           \/ /\ live' = [live EXCEPT ![p] = Absent]
              /\ payload' = [payload EXCEPT ![t] = live[p]]
           \/ /\ live' = [live EXCEPT ![p] = payload[t]]
              /\ payload' = [payload EXCEPT ![t] = Absent],
           UNCHANGED <<rows, next>>, op'.snap \in SUBSET op.snap,
           op'.pc \in {"idle", "del_publish", "rs_unlink"}
    PROVE  Mapped'
<1>1. live \in [Path -> File] /\ payload \in [TrashId -> File]
  BY DEF Mapped, Good, TypeOK
<1>2. /\ \A r \in Path : live'[r] \in {Absent, payload[t], live[r]}
      /\ \A u \in TrashId : payload'[u] \in {Absent, live[p], payload[u]}
  BY <1>1
<1>3. FilesKnown'
  BY <1>2 DEF Mapped, FilesKnown, Known
<1>4. HistoriesKnown' /\ WriteReady'
  BY DEF Mapped, HistoriesKnown, WriteReady
<1> QED BY <1>3, <1>4 DEF Mapped

LEMMA DeleteMoveMapped ==
    ASSUME Mapped, Good', DeleteMove
    PROVE  Mapped' /\ VaultStep
<1>1. /\ op.path \in Path /\ op.tid \in TrashId /\ payload[op.tid] = Absent
      /\ live \in [Path -> File] /\ payload \in [TrashId -> File]
  BY DEF DeleteMove, Mapped, Good, TypeOK, InFlight
<1>2. /\ live' = [live EXCEPT ![op.path] = Absent]
      /\ payload' = [payload EXCEPT ![op.tid] = live[op.path]]
      /\ op'.snap = op.snap /\ op'.pc = "del_publish" /\ UNCHANGED <<rows, next>>
  BY DEF DeleteMove, Mapped, Good, TypeOK, Handler
<1>3. Mapped'
  BY <1>1, <1>2, ExchangeMapped
<1>4. CASE live[op.path] # Absent
  <2>1. V!Discard(op.path, op.tid)
    BY <1>1, <1>2, <1>4 DEF V!Discard
  <2> QED BY <1>1, <1>3, <2>1 DEF VaultStep, V!Next
<1>5. CASE live[op.path] = Absent
  BY <1>1, <1>2, <1>3, <1>5 DEF VaultStep
<1> QED BY <1>4, <1>5

LEMMA DeleteRollbackMapped ==
    ASSUME Mapped, Good', DeleteRollback
    PROVE  Mapped' /\ VaultStep
<1>1. /\ op.path \in Path /\ op.tid \in TrashId /\ live[op.path] = Absent
      /\ live \in [Path -> File] /\ payload \in [TrashId -> File]
  BY DEF DeleteRollback, Mapped, Good, TypeOK, InFlight
<1>2. /\ live' = [live EXCEPT ![op.path] = payload[op.tid]]
      /\ payload' = [payload EXCEPT ![op.tid] = Absent]
      /\ op'.snap = {} /\ op'.pc = "idle" /\ UNCHANGED <<rows, next>>
  BY DEF DeleteRollback, Idle
<1>3. Mapped'
  BY <1>1, <1>2, ExchangeMapped
<1>4. CASE payload[op.tid] # Absent
  <2>1. V!PutBack(op.tid, op.path)
    BY <1>1, <1>2, <1>4 DEF V!PutBack
  <2> QED BY <1>1, <1>3, <2>1 DEF VaultStep, V!Next
<1>5. CASE payload[op.tid] = Absent
  BY <1>1, <1>2, <1>3, <1>5 DEF VaultStep
<1> QED BY <1>4, <1>5

LEMMA RestoreMoveMapped ==
    ASSUME Mapped, Good', RestoreMove
    PROVE  Mapped' /\ VaultStep
<1>1. op.path \in Path /\ op.tid \in TrashId /\ payload[op.tid] # Absent
  BY DEF RestoreMove, Mapped, Good, InFlight
<1>2. PICK q \in RestoreDests(op.path) :
        /\ live' = [live EXCEPT ![q] = payload[op.tid]]
        /\ payload' = [payload EXCEPT ![op.tid] = Absent]
        /\ op' = [op EXCEPT !.pc = "rs_unlink", !.dest = q]
  BY DEF RestoreMove
<1>3. q \in Path /\ live[q] = Absent
  BY <1>1, <1>2 DEF RestoreDests
<1>4. op'.snap = op.snap /\ op'.pc = "rs_unlink" /\ UNCHANGED <<rows, next>>
  BY <1>2 DEF RestoreMove, Mapped, Good, TypeOK, Handler
<1>5. Mapped'
  BY <1>1, <1>2, <1>3, <1>4, ExchangeMapped
<1>6. V!PutBack(op.tid, q)
  BY <1>1, <1>2, <1>3 DEF V!PutBack
<1> QED BY <1>1, <1>3, <1>5, <1>6 DEF VaultStep, V!Next

-----------------------------------------------------------------------------
(* Destroying files                                                          *)

LEMMA PurgeMapped ==
    ASSUME Mapped, Good', NEW t \in TrashId, PurgeBegin(t) \/ EmptyPayload(t)
    PROVE  Mapped' /\ VaultStep
<1>1. /\ t \in 0..MaxTrash /\ live' = live /\ payload' = [payload EXCEPT ![t] = Absent]
      /\ UNCHANGED <<rows, next>> /\ op'.pc \in {"pg_unlink", "em_remove"}
      /\ op'.snap \in SUBSET op.snap
  <2>1. t \in 0..MaxTrash
    BY BoundAssumption DEF BoundAssumption, TrashId
  <2>2. CASE PurgeBegin(t)
    BY <2>1, <2>2 DEF PurgeBegin, Idle
  <2>3. CASE EmptyPayload(t)
    BY <2>1, <2>3 DEF EmptyPayload
  <2> QED BY <2>2, <2>3
<1>2. VaultStep /\ \A u \in TrashId : payload'[u] \in {Absent, payload[u]}
  BY <1>1, EmptyingDestroys DEF Mapped, Good
<1>3. next'.item >= next.item
  BY <1>1 DEF Mapped, Good, TypeOK, Counters
<1> QED BY <1>1, <1>2, <1>3, NoWriteMapped

LEMMA JanitorMapped ==
    ASSUME Mapped, Good', JanitorStep
    PROVE  Mapped' /\ VaultStep
<1>1. UNCHANGED <<live, op, next>> /\ rows' \in SUBSET rows
  BY DEF JanitorStep, JanitorStart, JanitorRead, JanitorRemove, JanitorUnlink,
         JanitorScanDone, JanitorPurgeRows, JanitorPurgeDir, JanitorSelect,
         JanitorDeleteRow, JanitorPruneBlob, JanitorPruneFail, disk
<1>2. VaultStep /\ \A u \in TrashId : payload'[u] \in {Absent, payload[u]}
  <2>1. CASE JanitorRemove
    <3>1. jan.tid \in 0..MaxTrash
      BY DEF Mapped, Good, TypeOK, Janitor
    <3> QED BY <2>1, <3>1, EmptyingDestroys DEF JanitorRemove, Mapped, Good
  <2>2. CASE ~JanitorRemove
    <3>1. UNCHANGED <<live, payload>>
      BY <2>2 DEF JanitorStep, JanitorStart, JanitorRead, JanitorUnlink,
                  JanitorScanDone, JanitorPurgeRows, JanitorPurgeDir, JanitorSelect,
                  JanitorDeleteRow, JanitorPruneBlob, JanitorPruneFail, disk
    <3> QED BY <3>1 DEF VaultStep
  <2> QED BY <2>1, <2>2
<1> QED BY <1>1, <1>2, AsideMapped

-----------------------------------------------------------------------------
(* The refinement                                                            *)

\* Everything else goes on behind the vault's back: no file moves.
LEMMA BehindMapped ==
    ASSUME Mapped, Good', UNCHANGED <<live, payload>>,
           \/ \E p \in Path : DeleteBegin(p)
           \/ \E t \in TrashId : RestoreBegin(t) \/ EmptySidecar(t)
           \/ EmptyBegin \/ CommitFail \/ UploadIndex \/ MoveRows \/ MoveBlobs
           \/ DeletePublish \/ RestoreFail \/ RestoreUnlink \/ RestoreRows \/ RestoreBlobs
           \/ PurgeUnlink \/ EmptyDone \/ PurgeRows \/ PurgeBlobs \/ PurgeDir \/ Crash
    PROVE  Mapped' /\ VaultStep
<1>a. op \in Handler /\ next \in Counters /\ next.item \in Nat /\ rows \in SUBSET Version
  BY DEF Mapped, Good, TypeOK, Counters
<1>1. next'.item = next.item
  BY <1>a DEF DeleteBegin, RestoreBegin, EmptySidecar, EmptyBegin, CommitFail, UploadIndex,
              MoveRows, MoveBlobs, DeletePublish, RestoreFail, RestoreUnlink, RestoreRows,
              RestoreBlobs, PurgeUnlink, EmptyDone, PurgeRows, PurgeBlobs, PurgeDir,
              Crash, Counters
<1>2. /\ op'.snap \in SUBSET op.snap
      /\ op'.pc \notin {"up_commit", "vr_commit", "vr_index", "vr_open"}
  <2>1. Idle.snap = {} /\ Idle.pc = "idle"
    BY DEF Idle
  <2>2. \A M : NextMeta(M).snap = {} /\ NextMeta(M).pc \in {"idle", "pg_rows"}
    BY DEF NextMeta, Idle
  <2>3. CASE PurgeRows
    <3>1. \/ \E M : op' = NextMeta(M)
          \/ \E R, p, M : \E c \in {"pg_blobs", "pg_dir"} :
               op' = [op EXCEPT !.pc = c, !.refs = R, !.path = p, !.metas = M]
      <4> SUFFICES ASSUME NEW m \in op.metas, NEW hit,
                          op' = IF hit = {} THEN NextMeta(op.metas \ {m})
                                ELSE [op EXCEPT !.pc = IF m.refs # {} THEN "pg_blobs"
                                                       ELSE "pg_dir",
                                                !.refs = m.refs, !.path = m.orig,
                                                !.metas = op.metas \ {m}]
                   PROVE  \/ \E M : op' = NextMeta(M)
                          \/ \E R, p, M : \E c \in {"pg_blobs", "pg_dir"} :
                               op' = [op EXCEPT !.pc = c, !.refs = R, !.path = p, !.metas = M]
        BY <2>3, Zenon DEF PurgeRows
      <4> QED BY Zenon
    <3>2. CASE \E M : op' = NextMeta(M)
      BY <2>2, <3>2
    <3>3. ASSUME NEW c \in {"pg_blobs", "pg_dir"}, NEW R, NEW p, NEW M,
                 op' = [op EXCEPT !.pc = c, !.refs = R, !.path = p, !.metas = M]
          PROVE  op'.snap = op.snap /\ op'.pc = c
      BY <1>a, <3>3 DEF Handler
    <3> QED BY <3>1, <3>2, <3>3
  <2>4. CASE PurgeBlobs \/ PurgeDir
    BY <2>2, <2>4 DEF PurgeBlobs, PurgeDir
  <2>5. CASE \/ \E p \in Path : DeleteBegin(p)
             \/ \E t \in TrashId : RestoreBegin(t)
             \/ EmptyBegin
    BY <2>5 DEF DeleteBegin, RestoreBegin, EmptyBegin, Idle
  <2>6. CASE \/ CommitFail \/ UploadIndex \/ MoveBlobs \/ DeletePublish \/ RestoreFail
             \/ RestoreBlobs \/ Crash
    BY <2>1, <2>6 DEF CommitFail, UploadIndex, MoveBlobs, DeletePublish, RestoreFail,
                      RestoreBlobs, Crash
  <2>7. CASE \/ MoveRows \/ RestoreUnlink \/ RestoreRows \/ PurgeUnlink \/ EmptyDone
             \/ \E t \in TrashId : EmptySidecar(t)
    BY <1>a, <2>1, <2>7 DEF MoveRows, RestoreUnlink, RestoreRows, PurgeUnlink, EmptyDone,
                            EmptySidecar, Handler
  <2> QED BY <2>3, <2>4, <2>5, <2>6, <2>7
<1>3. \A v \in rows' : \E w \in rows \cup op.snap : v.file = w.file
  <2>1. CASE MoveRows
    <3>1. PICK moved \in Committed(RowsAt(op.path)) :
            rows' = (rows \ moved) \cup Rebase(moved, op.dest)
      BY <2>1 DEF MoveRows
    <3>2. moved \in SUBSET rows
      BY <3>1, DonePart DEF RowsAt
    <3> QED BY <1>a, <3>1, <3>2, RebaseKeepsFiles
  <2>2. CASE RestoreRows
    <3>1. rows \cap op.refs \in SUBSET rows
      OBVIOUS
    <3>2. \/ rows' = (rows \ (rows \cap op.refs)) \cup Rebase(rows \cap op.refs, op.dest)
          \/ rows' = rows
      BY <2>2 DEF RestoreRows
    <3> QED BY <1>a, <3>1, <3>2, RebaseKeepsFiles
  <2>3. CASE UploadIndex
    <3>1. PICK done \in Committed(op.snap) : rows' = rows \cup done
      BY <2>3 DEF UploadIndex
    <3>2. done \subseteq op.snap
      BY <3>1, DonePart
    <3> QED BY <3>1, <3>2
  <2>4. CASE ~MoveRows /\ ~RestoreRows /\ ~UploadIndex
    <3>1. rows' \in SUBSET rows
      BY <2>4 DEF DeleteBegin, RestoreBegin, EmptySidecar, EmptyBegin, CommitFail,
                  MoveBlobs, DeletePublish, RestoreFail, RestoreUnlink,
                  RestoreBlobs, PurgeUnlink, EmptyDone, PurgeRows, PurgeBlobs, PurgeDir,
                  Crash, disk
    <3> QED BY <3>1
  <2> QED BY <2>1, <2>2, <2>3, <2>4
<1>4. \A v \in rows' \cup op'.snap : \E w \in rows \cup op.snap : v.file = w.file
  BY <1>2, <1>3
<1>5. next'.item >= next.item
  BY <1>a, <1>1
<1> QED BY <1>2, <1>4, <1>5, NoWriteMapped DEF VaultStep

LEMMA InitMapped == Init => Mapped /\ V!Init
<1> SUFFICES ASSUME Init PROVE Mapped /\ V!Init
  OBVIOUS
<1>1. Good
  BY InitGood
<1>2. FilesKnown
  BY DEF Init, FilesKnown, Known
<1>3. HistoriesKnown /\ WriteReady
  BY DEF Init, HistoriesKnown, WriteReady, Idle
<1>4. V!Init
  BY DEF Init, V!Init
<1> QED BY <1>1, <1>2, <1>3, <1>4 DEF Mapped

LEMMA StepMapped == Mapped /\ [Next]_vars => Mapped' /\ VaultStep
<1> SUFFICES ASSUME Mapped, [Next]_vars PROVE Mapped' /\ VaultStep
  OBVIOUS
<1>a. Good'
  BY NextGood DEF Mapped
<1>b. next.item \in Nat
  BY DEF Mapped, Good, TypeOK, Counters
<1>1. CASE Request
  <2>1. CASE \/ \E p \in Path : DeleteBegin(p)
             \/ \E t \in TrashId : RestoreBegin(t)
             \/ EmptyBegin
    <3>1. UNCHANGED <<live, payload>>
      BY <2>1 DEF DeleteBegin, RestoreBegin, EmptyBegin, disk
    <3> QED BY <1>a, <2>1, <3>1, BehindMapped
  <2> QED BY <1>1, <1>a, <2>1, UploadMapped, VersionRestoreMapped, MoveMapped, CopyMapped,
             PurgeMapped DEF Request
<1>2. CASE HandlerStep
  <2>1. CASE \/ \E t \in TrashId : EmptySidecar(t)
             \/ CommitFail \/ UploadIndex \/ MoveRows \/ MoveBlobs
             \/ DeletePublish \/ RestoreFail \/ RestoreUnlink \/ RestoreRows \/ RestoreBlobs
             \/ PurgeUnlink \/ EmptyDone \/ PurgeRows \/ PurgeBlobs \/ PurgeDir
    <3>1. UNCHANGED <<live, payload>>
      BY <2>1 DEF EmptySidecar, CommitFail, UploadIndex, MoveRows, MoveBlobs, DeletePublish,
                  RestoreFail, RestoreUnlink, RestoreRows, RestoreBlobs, PurgeUnlink,
                  EmptyDone, PurgeRows, PurgeBlobs, PurgeDir, disk
    <3> QED BY <1>a, <2>1, <3>1, BehindMapped
  <2> QED BY <1>2, <1>a, <2>1, CommitMapped, VersionRestoreMapped, DeleteMoveMapped,
             DeleteRollbackMapped, RestoreMoveMapped, PurgeMapped DEF HandlerStep
<1>3. CASE JanitorStep
  BY <1>3, <1>a, JanitorMapped
<1>4. CASE Crash
  <2>1. UNCHANGED <<live, payload>>
    BY <1>4 DEF Crash, disk
  <2> QED BY <1>4, <1>a, <2>1, BehindMapped
<1>5. CASE (\E t \in TrashId : Expire(t)) \/ UNCHANGED vars
  <2>1. UNCHANGED <<live, payload, rows, op, next>>
    BY <1>5 DEF Expire, vars
  <2> QED BY <1>a, <2>1, AsideMapped DEF VaultStep
<1> QED BY <1>1, <1>2, <1>3, <1>4, <1>5 DEF Next

\* Through every interleaving of requests with the janitor, every failing rename
\* and every crash, the drive's files behave as the vault's do: they appear, change,
\* move to the bin and back, and go for good, one whole operation at a time.
THEOREM DriveImplementsVault == Spec => ImplementsVault
<1>1. VaultStep => [V!Next]_<<live, payload>>
  BY DEF VaultStep
<1> QED BY InitMapped, StepMapped, <1>1, PTL DEF Spec, ImplementsVault, V!Spec

-----------------------------------------------------------------------------
(* What the vault's steps give: no file is in two places.                    *)

Distinct ==
    /\ \A p, q \in Path : live[p].item = live[q].item => p = q \/ live[p].item = 0
    /\ \A t, u \in TrashId : payload[t].item = payload[u].item => t = u \/ payload[t].item = 0
    /\ \A p \in Path, t \in TrashId : live[p].item = payload[t].item => live[p].item = 0

LEMMA VaultKeepsDistinct ==
    ASSUME TypeOK, Distinct, V!Next
    PROVE  Distinct'
<1>a. live \in [Path -> File] /\ payload \in [TrashId -> File] /\ Absent.item = 0
  BY DEF TypeOK, Absent
<1>1. ASSUME NEW p \in Path, NEW f \in VaultFile, V!Create(p, f) PROVE Distinct'
  <2>1. Unheld(f.item)
    BY <1>1 DEF V!Create, V!Held, Unheld
  <2>2. live' = [live EXCEPT ![p] = f] /\ payload' = payload
    BY <1>1 DEF V!Create
  <2> QED BY <1>a, <2>1, <2>2 DEF Distinct, Unheld
<1>2. ASSUME NEW p \in Path, NEW f \in VaultFile, V!Overwrite(p, f) PROVE Distinct'
  <2>1. /\ live' = [live EXCEPT ![p] = f] /\ payload' = payload
        /\ live[p].item = f.item
    BY <1>2 DEF V!Overwrite
  <2>2. \A q \in Path : live'[q].item = live[q].item
    BY <1>a, <2>1
  <2> QED BY <2>1, <2>2 DEF Distinct
<1>3. ASSUME NEW p \in Path, NEW q \in Path, V!Rename(p, q) PROVE Distinct'
  <2>1. /\ live' = [live EXCEPT ![q] = live[p], ![p] = Absent] /\ payload' = payload
        /\ live[p] # Absent /\ live[q] = Absent
    BY <1>3 DEF V!Rename
  <2>2. /\ live'[p].item = 0 /\ live'[q].item = live[p].item /\ p # q
        /\ \A r \in Path \ {p, q} : live'[r] = live[r]
    BY <1>a, <2>1
  <2> QED BY <1>a, <2>1, <2>2 DEF Distinct
<1>4. ASSUME NEW p \in Path, NEW t \in TrashId, V!Discard(p, t) PROVE Distinct'
  <2>1. /\ live' = [live EXCEPT ![p] = Absent]
        /\ payload' = [payload EXCEPT ![t] = live[p]]
        /\ payload[t] = Absent
    BY <1>4 DEF V!Discard
  <2>2. /\ live'[p].item = 0 /\ payload'[t].item = live[p].item
        /\ \A r \in Path \ {p} : live'[r] = live[r]
        /\ \A u \in TrashId \ {t} : payload'[u] = payload[u]
    BY <1>a, <2>1
  <2> QED BY <2>2 DEF Distinct
<1>5. ASSUME NEW p \in Path, NEW t \in TrashId, V!PutBack(t, p) PROVE Distinct'
  <2>1. /\ live' = [live EXCEPT ![p] = payload[t]]
        /\ payload' = [payload EXCEPT ![t] = Absent]
        /\ live[p] = Absent
    BY <1>5 DEF V!PutBack
  <2>2. /\ payload'[t].item = 0 /\ live'[p].item = payload[t].item
        /\ \A r \in Path \ {p} : live'[r] = live[r]
        /\ \A u \in TrashId \ {t} : payload'[u] = payload[u]
    BY <1>a, <2>1
  <2> QED BY <2>2 DEF Distinct
<1>6. ASSUME NEW t \in TrashId, V!Destroy(t) PROVE Distinct'
  <2>1. payload' = [payload EXCEPT ![t] = Absent] /\ live' = live
    BY <1>6 DEF V!Destroy
  <2>2. payload'[t].item = 0 /\ \A u \in TrashId \ {t} : payload'[u] = payload[u]
    BY <1>a, <2>1
  <2> QED BY <2>1, <2>2 DEF Distinct
<1> QED BY <1>1, <1>2, <1>3, <1>4, <1>5, <1>6 DEF V!Next, VaultFile

LEMMA DistinctIsOnePlace == Distinct => OnePlace
<1> SUFFICES ASSUME Distinct, NEW i \in 1..MaxItem, Where(i) # {}
             PROVE  Cardinality(Where(i)) = 1
  BY DEF OnePlace, OnDisk
<1>1. i # 0
  OBVIOUS
<1>2. ASSUME NEW x \in Where(i), NEW y \in Where(i) PROVE x = y
  BY <1>1, <1>2 DEF Where, Distinct
<1>3. PICK x : x \in Where(i)
  OBVIOUS
<1>4. Where(i) = {x}
  BY <1>2, <1>3
<1> QED BY <1>4, FS_Singleton

\* No crash, rollback, restore or concurrent purge leaves a second copy of a
\* file: the vault has no step that could, and the drive takes no other.
THEOREM NeverTwoCopies == Spec => []OnePlace
<1>1. Init => Distinct
  BY DEF Init, Distinct, Absent
<1>2. Mapped /\ Distinct /\ VaultStep => Distinct'
  <2>1. UNCHANGED <<live, payload>> /\ Distinct => Distinct'
    BY DEF Distinct
  <2> QED BY <2>1, VaultKeepsDistinct DEF Mapped, Good, VaultStep
<1>3. Mapped /\ [Next]_vars => Mapped' /\ VaultStep
  BY StepMapped
<1> QED BY InitMapped, <1>1, <1>2, <1>3, DistinctIsOnePlace, PTL DEF Spec
=============================================================================
