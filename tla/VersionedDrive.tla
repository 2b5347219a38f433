---------------------------- MODULE VersionedDrive ----------------------------
(***************************************************************************)
(* One user's drive on the server: the live files, the trash, the version  *)
(* index (SQLite rows) and the version blobs on disk, changed by           *)
(*                                                                         *)
(*   - the mutating HTTP handlers of internal/api/handlers.go, which the   *)
(*     per-user mutex of server.go:mutating runs one at a time, and        *)
(*   - the janitor of cmd/xxdrive-server/main.go, which takes no lock.     *)
(*                                                                         *)
(* A handler is cut into steps at every filesystem call or SQL statement   *)
(* that changes state, so the janitor and a crash can come between any     *)
(* two of them.  Live files are touched by handlers only, so a read of     *)
(* them is part of the step that follows it.                               *)
(*                                                                         *)
(* A path is a model value that stands for one file (or for one subtree    *)
(* moved as a unit).  The names the code synthesises - "f (conflict from   *)
(* ...)", "f (restored 2)" - are whatever free path its probe loop finds.  *)
(***************************************************************************)
EXTENDS DriveState

-----------------------------------------------------------------------------
(* Faulty variants of definitions below.  No specification uses them:        *)
(* substituting one for the definition it is named after shows that a        *)
(* property notices.                                                         *)

\* The target is taken for free without a look.
UploadFreshNoProbe(p, q) ==
    /\ Accepting
    /\ q = p \/ live[p] # Absent
    /\ MayOccupy(q)
    /\ next.item <= MaxItem /\ next.data <= MaxData
    /\ op' = [Idle EXCEPT !.pc = "up_commit", !.path = p, !.dest = q,
                          !.file = [item |-> next.item, data |-> next.data]]
    /\ next' = [next EXCEPT !.item = @ + 1, !.data = @ + 1]
    /\ UNCHANGED <<disk, jan, crashes, stuck>>

\* The row is indexed under the root, what mustValidate falls back to.
UploadIndexAtRoot ==
    /\ op.pc = "up_index"
    /\ rows' = rows \cup Rebase(op.snap, NoPath)
    /\ op' = Idle
    /\ UNCHANGED <<live, payload, sidecar, expired, blobs, jan, next, crashes, stuck>>

\* Rename without the Lstat of its destination.
MoveNoLstat(p, q) ==
    /\ Accepting
    /\ p # q /\ live[p] # Absent /\ MayOccupy(q)
    /\ live' = [live EXCEPT ![q] = live[p], ![p] = Absent]
    /\ op' = [Idle EXCEPT !.pc = "mv_rows", !.path = p, !.dest = q]
    /\ UNCHANGED <<payload, sidecar, expired, rows, blobs, jan, next, crashes, stuck>>

\* The index is not relocated.
MoveRowsNot ==
    /\ op.pc = "mv_rows"
    /\ op' = Idle
    /\ UNCHANGED <<disk, jan, next, crashes, stuck>>

\* The blob directory is moved although the rows could not be.
MoveRowsGoOn ==
    /\ op.pc = "mv_rows"
    /\ \E moved \in Committed(RowsAt(op.path)) :
         /\ rows' = (rows \ moved) \cup Rebase(moved, op.dest)
         /\ stuck' = [stuck EXCEPT !.rows = @ \cup Vids(RowsAt(op.path) \ moved)]
         /\ op' = IF RowsAt(op.path) = {} THEN Idle ELSE [op EXCEPT !.pc = "mv_blobs"]
    /\ UNCHANGED <<live, payload, sidecar, expired, blobs, jan, next, crashes>>

\* Restore captures whatever is indexed under the original path.
OwnedRefsWholePath(m) == RowsAt(m.orig)

\* Restore copies the payload home and leaves it in the trash.
RestoreMoveCopies ==
    /\ op.pc = "rs_move"
    /\ Listed(op.tid) /\ payload[op.tid] # Absent
    /\ \E q \in Path :
         /\ live[q] = Absent
         /\ live' = [live EXCEPT ![q] = payload[op.tid]]
         /\ op' = [op EXCEPT !.pc = "rs_unlink", !.dest = q]
    /\ UNCHANGED <<payload, sidecar, expired, rows, blobs, jan, next, crashes, stuck>>

\* Restore goes home, whoever lives there by now.
RestoreDestsHome(p) == {p}

\* PurgeTrashItem without its check that the sidecar is published.
PurgeBeginUnlisted(t) ==
    /\ Accepting
    /\ Listed(t) \/ payload[t] # Absent
    /\ payload' = [payload EXCEPT ![t] = Absent]
    /\ op' = [Idle EXCEPT !.pc = "pg_unlink", !.tid = t, !.metas = {sidecar[t]}]
    /\ UNCHANGED <<live, sidecar, expired, rows, blobs, jan, next, crashes, stuck>>

\* PurgeOldTrash skips an entry whose payload is missing.
JanitorReadWithPayload(t) ==
    /\ jan.pc = "scan"
    /\ t \in jan.list /\ Listed(t) /\ payload[t] # Absent
    /\ jan' = [jan EXCEPT !.pc = "remove", !.list = @ \ {t}, !.tid = t,
                          !.meta = sidecar[t]]
    /\ UNCHANGED <<disk, op, next, crashes, stuck>>

\* PruneVersions ranks the oldest version first.
JanitorSelectOldestFirst ==
    LET wrong == {r \in rows :
                    Cardinality({s \in rows : s.path = r.path /\ s.vid < r.vid}) >= Keep}
    IN /\ jan.pc = "purge_rows" /\ jan.todo = {}
       /\ jan' = IF wrong = {} THEN JIdle ELSE [JIdle EXCEPT !.pc = "del_rows", !.sel = wrong]
       /\ UNCHANGED <<disk, op, next, crashes, stuck>>

-----------------------------------------------------------------------------
Init ==
    /\ live = [p \in Path |-> Absent]
    /\ payload = [t \in TrashId |-> Absent]
    /\ sidecar = [t \in TrashId |-> NoMeta]
    /\ expired = {}
    /\ rows = {} /\ blobs = {}
    /\ op = Idle /\ jan = JIdle
    /\ next = [item |-> 1, data |-> 1, vid |-> 1, tid |-> 1]
    /\ crashes = 0
    /\ stuck = [rows |-> {}, blobs |-> {}]

-----------------------------------------------------------------------------
(* Upload (handleUpload, fsdrv.Upload)                                       *)

\* The target does not exist, or conflict=rename found the free name q.
UploadFresh(p, q) ==
    /\ Accepting
    /\ live[q] = Absent /\ (q = p \/ live[p] # Absent)
    /\ MayOccupy(q)
    /\ next.item <= MaxItem /\ next.data <= MaxData
    /\ op' = [Idle EXCEPT !.pc = "up_commit", !.path = p, !.dest = q,
                          !.file = [item |-> next.item, data |-> next.data]]
    /\ next' = [next EXCEPT !.item = @ + 1, !.data = @ + 1]
    /\ UNCHANGED <<disk, jan, crashes, stuck>>

\* The target exists and If-Match, if given, matches: snapshotVersion.
UploadOver(p) ==
    /\ Accepting
    /\ live[p] # Absent
    /\ next.vid <= MaxVid /\ next.data <= MaxData
    /\ blobs' = blobs \cup Snapshot(p)
    /\ op' = [Idle EXCEPT !.pc = "up_commit", !.path = p, !.dest = p,
                          !.file = [item |-> live[p].item, data |-> next.data],
                          !.snap = Snapshot(p)]
    /\ next' = [next EXCEPT !.vid = @ + 1, !.data = @ + 1]
    /\ UNCHANGED <<live, payload, sidecar, expired, rows, jan, crashes, stuck>>

\* os.Rename(tmp, target) commits the new content.
UploadCommit ==
    /\ op.pc = "up_commit"
    /\ live' = [live EXCEPT ![op.dest] = op.file]
    /\ op' = IF op.snap = {} THEN Idle ELSE [op EXCEPT !.pc = "up_index"]
    /\ UNCHANGED <<payload, sidecar, expired, rows, blobs, jan, next, crashes, stuck>>

\* The rename that commits an upload, or moves a file to or from the trash,
\* fails; a snapshot already taken stays behind, unindexed.
CommitFail ==
    /\ IOErrors
    /\ op.pc \in {"up_commit", "vr_commit", "del_move", "rs_move"}
    /\ op' = Idle
    /\ UNCHANGED <<disk, jan, next, crashes, stuck>>

\* AddVersion, whose error is dropped: the snapshot is then not indexed.
UploadIndex ==
    /\ op.pc = "up_index"
    /\ \E done \in Committed(op.snap) : rows' = rows \cup done
    /\ op' = Idle
    /\ UNCHANGED <<live, payload, sidecar, expired, blobs, jan, next, crashes, stuck>>

-----------------------------------------------------------------------------
(* Restoring a version (handleVersionRestore, fsdrv.RestoreVersion)          *)

\* GetVersion finds the row; SnapshotCurrent, whose failure is ignored.
VersionRestoreBegin(v) ==
    /\ Accepting
    /\ v \in rows
    /\ IF live[v.path] = Absent
       THEN /\ MayOccupy(v.path) /\ next.item <= MaxItem
            /\ op' = [Idle EXCEPT !.pc = "vr_open", !.path = v.path, !.refs = {v}]
            /\ UNCHANGED <<blobs, next>>
       ELSE /\ next.vid < MaxVid
            /\ blobs' = blobs \cup Snapshot(v.path)
            /\ op' = [Idle EXCEPT !.pc = "vr_index", !.path = v.path, !.refs = {v},
                                  !.snap = Snapshot(v.path)]
            /\ next' = [next EXCEPT !.vid = @ + 1]
    /\ UNCHANGED <<live, payload, sidecar, expired, rows, jan, crashes, stuck>>

VersionRestoreIndex ==
    /\ op.pc = "vr_index"
    /\ \E done \in Committed(op.snap) : rows' = rows \cup done
    /\ op' = [op EXCEPT !.pc = "vr_open", !.snap = {}]
    /\ UNCHANGED <<live, payload, sidecar, expired, blobs, jan, next, crashes, stuck>>

\* OpenVersion finds the blob, or the request fails; then Upload, which takes
\* a snapshot of its own that RestoreVersion discards the name of.
VersionRestoreOpen ==
    /\ op.pc = "vr_open"
    /\ \E v \in op.refs :
         LET p == op.path
             source == {b \in blobs : Same(b, v)}
             Write(item) == [op EXCEPT !.pc = "vr_commit", !.dest = p,
                                       !.file = [item |-> item, data |-> v.file.data]]
         IN \/ /\ source = {}
               /\ op' = Idle
               /\ UNCHANGED <<blobs, next>>
            \/ /\ source # {} /\ live[p] = Absent
               /\ op' = Write(next.item)
               /\ next' = [next EXCEPT !.item = @ + 1]
               /\ UNCHANGED blobs
            \/ /\ source # {} /\ live[p] # Absent
               /\ blobs' = blobs \cup Snapshot(p)
               /\ op' = [Write(live[p].item) EXCEPT !.snap = Snapshot(p)]
               /\ next' = [next EXCEPT !.vid = @ + 1]
    /\ UNCHANGED <<live, payload, sidecar, expired, rows, jan, crashes, stuck>>

VersionRestoreCommit ==
    /\ op.pc = "vr_commit"
    /\ live' = [live EXCEPT ![op.dest] = op.file]
    /\ op' = Idle
    /\ UNCHANGED <<payload, sidecar, expired, rows, blobs, jan, next, crashes, stuck>>

-----------------------------------------------------------------------------
(* Rename, move and copy                                                     *)

\* Rename and Move refuse an existing destination, then os.Rename.
Move(p, q) ==
    /\ Accepting
    /\ live[p] # Absent /\ live[q] = Absent /\ MayOccupy(q)
    /\ live' = [live EXCEPT ![q] = live[p], ![p] = Absent]
    /\ op' = [Idle EXCEPT !.pc = "mv_rows", !.path = p, !.dest = q]
    /\ UNCHANGED <<payload, sidecar, expired, rows, blobs, jan, next, crashes, stuck>>

\* relocateVersionHistory: store.RelocateVersions takes every row at the old
\* path, whoever it belongs to.  If it fails, or there is none, the blobs are
\* left alone; the request succeeds in any case.
MoveRows ==
    /\ op.pc = "mv_rows"
    /\ \E moved \in Committed(RowsAt(op.path)) :
         /\ rows' = (rows \ moved) \cup Rebase(moved, op.dest)
         /\ stuck' = [stuck EXCEPT !.rows = @ \cup Vids(RowsAt(op.path) \ moved)]
         /\ op' = IF moved = {} THEN Idle ELSE [op EXCEPT !.pc = "mv_blobs"]
    /\ UNCHANGED <<live, payload, sidecar, expired, blobs, jan, next, crashes>>

\* fsdrv.RelocateVersionDir: rename the blob directory, or merge it file by
\* file up to the first error, which is logged and swallowed.
MoveBlobs ==
    /\ op.pc = "mv_blobs"
    /\ \E moved \in Reached(BlobsAt(op.path)) :
         /\ blobs' = (blobs \ moved) \cup Rebase(moved, op.dest)
         /\ stuck' = [stuck EXCEPT !.blobs = @ \cup Vids(BlobsAt(op.path) \ moved)]
    /\ op' = Idle
    /\ UNCHANGED <<live, payload, sidecar, expired, rows, jan, next, crashes>>

\* Copy duplicates the content; the copy starts without history.
Copy(p, q) ==
    /\ Accepting
    /\ live[p] # Absent /\ live[q] = Absent /\ MayOccupy(q)
    /\ next.item <= MaxItem
    /\ live' = [live EXCEPT ![q] = [item |-> next.item, data |-> live[p].data]]
    /\ next' = [next EXCEPT !.item = @ + 1]
    /\ UNCHANGED <<payload, sidecar, expired, rows, blobs, op, jan, crashes, stuck>>

-----------------------------------------------------------------------------
(* Delete into the trash (handleDelete, fsdrv.DeleteWithVersions)            *)

\* store.VersionsUnder captures the rows, none if it fails; the sidecar is
\* staged as .json.tmp.
DeleteBegin(p) ==
    /\ Accepting
    /\ live[p] # Absent /\ next.tid <= MaxTrash
    /\ \E refs \in Committed(RowsAt(p)) :
         op' = [Idle EXCEPT !.pc = "del_move", !.path = p, !.tid = next.tid,
                            !.refs = refs]
    /\ next' = [next EXCEPT !.tid = @ + 1]
    /\ UNCHANGED <<disk, jan, crashes, stuck>>

DeleteMove ==
    /\ op.pc = "del_move"
    /\ payload' = [payload EXCEPT ![op.tid] = live[op.path]]
    /\ live' = [live EXCEPT ![op.path] = Absent]
    /\ op' = [op EXCEPT !.pc = "del_publish"]
    /\ UNCHANGED <<sidecar, expired, rows, blobs, jan, next, crashes, stuck>>

DeletePublish ==
    /\ op.pc = "del_publish"
    /\ sidecar' = [sidecar EXCEPT ![op.tid] = [orig |-> op.path, refs |-> op.refs,
                                              mark |-> next.vid]]
    /\ op' = Idle
    /\ UNCHANGED <<live, payload, expired, rows, blobs, jan, next, crashes, stuck>>

\* Publishing fails: the payload is renamed home.
DeleteRollback ==
    /\ IOErrors
    /\ op.pc = "del_publish"
    /\ live' = [live EXCEPT ![op.path] = payload[op.tid]]
    /\ payload' = [payload EXCEPT ![op.tid] = Absent]
    /\ op' = Idle
    /\ UNCHANGED <<sidecar, expired, rows, blobs, jan, next, crashes, stuck>>

-----------------------------------------------------------------------------
(* Restore from the trash (handleTrashRestore, fsdrv.Restore)                *)

\* ReadTrashMeta.  An empty record is taken for one of a release that did not
\* record ownership, and stands for every row under the path.
OwnedRefs(m) == IF m.refs # {} THEN m.refs ELSE RowsAt(m.orig)

RestoreBegin(t) ==
    /\ Accepting
    /\ Listed(t)
    /\ op' = [Idle EXCEPT !.pc = "rs_move", !.path = sidecar[t].orig, !.tid = t,
                          !.refs = OwnedRefs(sidecar[t]), !.metas = {sidecar[t]}]
    /\ UNCHANGED <<disk, jan, next, crashes, stuck>>

\* The original path if it is free, otherwise the first free numbered name.
RestoreDests(p) ==
    IF live[p] = Absent THEN {p} ELSE {q \in Path : live[q] = Absent /\ MayOccupy(q)}

RestoreMove ==
    /\ op.pc = "rs_move"
    /\ Listed(op.tid) /\ payload[op.tid] # Absent
    /\ \E q \in RestoreDests(op.path) :
         /\ live' = [live EXCEPT ![q] = payload[op.tid]]
         /\ payload' = [payload EXCEPT ![op.tid] = Absent]
         /\ op' = [op EXCEPT !.pc = "rs_unlink", !.dest = q]
    /\ UNCHANGED <<sidecar, expired, rows, blobs, jan, next, crashes, stuck>>

\* The sidecar or the payload is gone by now (or no name is free): an error.
RestoreFail ==
    /\ op.pc = "rs_move"
    /\ \/ ~Listed(op.tid) \/ payload[op.tid] = Absent
       \/ RestoreDests(op.path) = {}
    /\ op' = Idle
    /\ UNCHANGED <<disk, jan, next, crashes, stuck>>

RestoreUnlink ==
    /\ op.pc = "rs_unlink"
    /\ sidecar' = [sidecar EXCEPT ![op.tid] = NoMeta]
    /\ op' = IF op.refs = {} \/ op.dest = op.path
             THEN Idle ELSE [op EXCEPT !.pc = "rs_rows"]
    /\ UNCHANGED <<live, payload, expired, rows, blobs, jan, next, crashes, stuck>>

\* moveSpecificVersions: store.MoveSpecificVersions takes the captured rows that
\* still exist.  If it fails, the blobs are left alone and the restore succeeds.
RestoreRows ==
    /\ op.pc = "rs_rows"
    /\ LET owned == rows \cap op.refs
       IN \/ /\ rows' = (rows \ owned) \cup Rebase(owned, op.dest)
             /\ op' = [op EXCEPT !.pc = "rs_blobs"]
             /\ UNCHANGED stuck
          \/ /\ HistoryErrors
             /\ op' = Idle
             /\ stuck' = [stuck EXCEPT !.rows = @ \cup Vids(owned)]
             /\ UNCHANGED rows
    /\ UNCHANGED <<live, payload, sidecar, expired, blobs, jan, next, crashes>>

\* fsdrv.RelocateVersionBlobs: the captured blobs, each on its own; one that
\* fails stays, the rest go on, and the first error is logged and swallowed.
RestoreBlobs ==
    /\ op.pc = "rs_blobs"
    /\ LET owned == blobs \cap op.refs
       IN \E moved \in Reached(owned) :
            /\ blobs' = (blobs \ moved) \cup Rebase(moved, op.dest)
            /\ stuck' = [stuck EXCEPT !.blobs = @ \cup Vids(owned \ moved)]
    /\ op' = Idle
    /\ UNCHANGED <<live, payload, sidecar, expired, rows, jan, next, crashes>>

-----------------------------------------------------------------------------
(* Permanent purge (handleTrashDelete, handleTrashEmpty)                     *)

\* ReadTrashMeta, then PurgeTrashItem removes the payload ...
PurgeBegin(t) ==
    /\ Accepting
    /\ Listed(t)
    /\ payload' = [payload EXCEPT ![t] = Absent]
    /\ op' = [Idle EXCEPT !.pc = "pg_unlink", !.tid = t, !.metas = {sidecar[t]}]
    /\ UNCHANGED <<live, sidecar, expired, rows, blobs, jan, next, crashes, stuck>>

\* ... and the sidecar; if that is already gone the request fails here.
PurgeUnlink ==
    /\ op.pc = "pg_unlink"
    /\ sidecar' = [sidecar EXCEPT ![op.tid] = NoMeta]
    /\ op' = IF Listed(op.tid) THEN [op EXCEPT !.pc = "pg_rows"] ELSE Idle
    /\ UNCHANGED <<live, payload, expired, rows, blobs, jan, next, crashes, stuck>>

\* ListTrash, then os.RemoveAll of the trash directory, file by file: also
\* payloads that no sidecar lists.
EmptyBegin ==
    /\ Accepting
    /\ \E t \in TrashId : Listed(t) \/ payload[t] # Absent
    /\ op' = [Idle EXCEPT !.pc = "em_remove",
                          !.metas = {sidecar[t] : t \in {u \in TrashId : Listed(u)}}]
    /\ UNCHANGED <<disk, jan, next, crashes, stuck>>

EmptyPayload(t) ==
    /\ op.pc = "em_remove"
    /\ payload[t] # Absent
    /\ payload' = [payload EXCEPT ![t] = Absent]
    /\ UNCHANGED <<live, sidecar, expired, rows, blobs, op, jan, next, crashes, stuck>>

EmptySidecar(t) ==
    /\ op.pc = "em_remove"
    /\ Listed(t)
    /\ sidecar' = [sidecar EXCEPT ![t] = NoMeta]
    /\ UNCHANGED <<live, payload, expired, rows, blobs, op, jan, next, crashes, stuck>>

EmptyDone ==
    /\ op.pc = "em_remove"
    /\ \A t \in TrashId : ~Listed(t) /\ payload[t] = Absent
    /\ op' = IF op.metas = {} THEN Idle ELSE [op EXCEPT !.pc = "pg_rows"]
    /\ UNCHANGED <<disk, jan, next, crashes, stuck>>

NextMeta(metas) == IF metas = {} THEN Idle ELSE [Idle EXCEPT !.pc = "pg_rows", !.metas = metas]

\* purgeSpecificVersions for an item with recorded versions,
\* purgeVersionHistory (the whole path) for one without: the rows ...
PurgeRows ==
    /\ op.pc = "pg_rows"
    /\ \E m \in op.metas :
         LET hit  == IF m.refs # {} THEN rows \cap m.refs ELSE RowsAt(m.orig)
             rest == op.metas \ {m}
         IN \E gone \in Committed(hit) :
              /\ rows' = rows \ gone
              /\ stuck' = [stuck EXCEPT !.rows = @ \cup Vids(hit \ gone)]
              /\ op' = IF gone = {} THEN NextMeta(rest)
                       ELSE [op EXCEPT !.pc = IF m.refs # {} THEN "pg_blobs" ELSE "pg_dir",
                                       !.refs = m.refs, !.path = m.orig, !.metas = rest]
    /\ UNCHANGED <<live, payload, sidecar, expired, blobs, jan, next, crashes>>

\* ... and then the recorded blobs ...
PurgeBlobs ==
    /\ op.pc = "pg_blobs"
    /\ \E gone \in Reached(blobs \cap op.refs) : blobs' = blobs \ gone
    /\ op' = NextMeta(op.metas)
    /\ UNCHANGED <<live, payload, sidecar, expired, rows, jan, next, crashes, stuck>>

\* ... or the whole blob directory.
PurgeDir ==
    /\ op.pc = "pg_dir"
    /\ \E gone \in Reached(BlobsAt(op.path)) : blobs' = blobs \ gone
    /\ op' = NextMeta(op.metas)
    /\ UNCHANGED <<live, payload, sidecar, expired, rows, jan, next, crashes, stuck>>

-----------------------------------------------------------------------------
(* The janitor (runJanitorOnce, fsdrv.PurgeOldTrash,                         *)
(* purgeVersionsOfPurgedTrash, store.PruneVersions)                          *)

\* The retention period of a listed item runs out.
Expire(t) ==
    /\ Listed(t) /\ t \notin expired
    /\ expired' = expired \cup {t}
    /\ UNCHANGED <<live, payload, sidecar, rows, blobs, op, jan, next, crashes, stuck>>

\* A pass with nothing to do is not a step.
JanitorStart ==
    /\ jan.pc = "idle" /\ (Overlap \/ op.pc = "idle")
    /\ \/ Excess # {}
       \/ \E t \in expired : Listed(t)
    /\ jan' = [JIdle EXCEPT !.pc = "scan", !.list = {t \in expired : Listed(t)}]
    /\ UNCHANGED <<disk, op, next, crashes, stuck>>

\* The next entry's metadata is read; one that is gone by now is skipped.
JanitorRead(t) ==
    /\ jan.pc = "scan"
    /\ t \in jan.list /\ Listed(t)
    /\ jan' = [jan EXCEPT !.pc = "remove", !.list = @ \ {t}, !.tid = t,
                          !.meta = sidecar[t]]
    /\ UNCHANGED <<disk, op, next, crashes, stuck>>

\* os.RemoveAll succeeds whether or not the payload is still there.
JanitorRemove ==
    /\ jan.pc = "remove"
    /\ payload' = [payload EXCEPT ![jan.tid] = Absent]
    /\ jan' = [jan EXCEPT !.pc = "unlink"]
    /\ UNCHANGED <<live, sidecar, expired, rows, blobs, op, next, crashes, stuck>>

JanitorUnlink ==
    /\ jan.pc = "unlink"
    /\ sidecar' = [sidecar EXCEPT ![jan.tid] = NoMeta]
    /\ jan' = [jan EXCEPT !.pc = "scan", !.tid = 0, !.meta = NoMeta,
                          !.todo = @ \cup {jan.meta}]
    /\ UNCHANGED <<live, payload, expired, rows, blobs, op, next, crashes, stuck>>

JanitorScanDone ==
    /\ jan.pc = "scan"
    /\ \A t \in jan.list : ~Listed(t)
    /\ jan' = [jan EXCEPT !.list = {}, !.pc = "purge_rows"]
    /\ UNCHANGED <<disk, op, next, crashes, stuck>>

\* store.DeleteVersionsUnder(origPath) ...
JanitorPurgeRows(m) ==
    /\ jan.pc = "purge_rows"
    /\ m \in jan.todo
    /\ \E gone \in Committed(RowsAt(m.orig)) :
         /\ rows' = rows \ gone
         /\ stuck' = [stuck EXCEPT !.rows = @ \cup Vids(RowsAt(m.orig) \ gone)]
         /\ jan' = IF gone = {} THEN [jan EXCEPT !.todo = @ \ {m}]
                   ELSE [jan EXCEPT !.todo = @ \ {m}, !.pc = "purge_dir", !.meta = m]
    /\ UNCHANGED <<live, payload, sidecar, expired, blobs, op, next, crashes>>

\* ... and fsdrv.DeleteVersionDir.
JanitorPurgeDir ==
    /\ jan.pc = "purge_dir"
    /\ \E gone \in Reached(BlobsAt(jan.meta.orig)) : blobs' = blobs \ gone
    /\ jan' = [jan EXCEPT !.pc = "purge_rows", !.meta = NoMeta]
    /\ UNCHANGED <<live, payload, sidecar, expired, rows, op, next, crashes, stuck>>

\* The SELECT of store.PruneVersions.
JanitorSelect ==
    /\ jan.pc = "purge_rows" /\ jan.todo = {}
    /\ jan' = IF Excess = {} THEN JIdle ELSE [JIdle EXCEPT !.pc = "del_rows", !.sel = Excess]
    /\ UNCHANGED <<disk, op, next, crashes, stuck>>

\* Its DELETEs, one statement per selected row.
JanitorDeleteRow(v) ==
    /\ jan.pc = "del_rows"
    /\ v \in jan.sel
    /\ rows' = rows \ {v}
    /\ jan' = [jan EXCEPT !.sel = @ \ {v}, !.gone = @ \cup {v},
                          !.pc = IF jan.sel = {v} THEN "del_blobs" ELSE @]
    /\ UNCHANGED <<live, payload, sidecar, expired, blobs, op, next, crashes, stuck>>

\* The SELECT or a DELETE fails: PruneVersions returns the error, and no blob is
\* removed, not even those of the rows already deleted.
JanitorPruneFail ==
    /\ HistoryErrors
    /\ jan.pc = "del_rows" \/ (jan.pc = "purge_rows" /\ jan.todo = {})
    /\ jan' = JIdle
    /\ UNCHANGED <<disk, op, next, crashes, stuck>>

\* fsdrv.PruneVersionBlob, at the path the row had when it was selected.
JanitorPruneBlob(v) ==
    /\ jan.pc = "del_blobs"
    /\ v \in jan.gone
    /\ \E gone \in Reached(blobs \cap {v}) : blobs' = blobs \ gone
    /\ jan' = IF jan.gone = {v} THEN JIdle ELSE [jan EXCEPT !.gone = @ \ {v}]
    /\ UNCHANGED <<live, payload, sidecar, expired, rows, op, next, crashes, stuck>>

-----------------------------------------------------------------------------
\* The server process dies and is started again; the disk survives.
Crash ==
    /\ crashes < MaxCrash
    /\ op.pc # "idle" \/ jan.pc # "idle"
    /\ op' = Idle /\ jan' = JIdle
    /\ crashes' = crashes + 1
    /\ UNCHANGED <<disk, next, stuck>>

Request ==
    \/ \E p, q \in Path : UploadFresh(p, q) \/ Move(p, q) \/ Copy(p, q)
    \/ \E p \in Path : UploadOver(p) \/ DeleteBegin(p)
    \/ \E v \in rows : VersionRestoreBegin(v)
    \/ \E t \in TrashId : RestoreBegin(t) \/ PurgeBegin(t)
    \/ EmptyBegin

HandlerStep ==
    \/ UploadCommit \/ CommitFail \/ UploadIndex
    \/ VersionRestoreIndex \/ VersionRestoreOpen \/ VersionRestoreCommit
    \/ MoveRows \/ MoveBlobs
    \/ DeleteMove \/ DeletePublish \/ DeleteRollback
    \/ RestoreMove \/ RestoreFail \/ RestoreUnlink \/ RestoreRows \/ RestoreBlobs
    \/ PurgeUnlink \/ EmptyDone \/ PurgeRows \/ PurgeBlobs \/ PurgeDir
    \/ \E t \in TrashId : EmptyPayload(t) \/ EmptySidecar(t)

JanitorStep ==
    \/ JanitorStart \/ JanitorRemove \/ JanitorUnlink \/ JanitorScanDone
    \/ JanitorPurgeDir \/ JanitorSelect \/ JanitorPruneFail
    \/ \E t \in jan.list : JanitorRead(t)
    \/ \E m \in jan.todo : JanitorPurgeRows(m)
    \/ \E v \in jan.sel : JanitorDeleteRow(v)
    \/ \E v \in jan.gone : JanitorPruneBlob(v)

Next == Request \/ HandlerStep \/ JanitorStep \/ Crash \/ \E t \in TrashId : Expire(t)

Spec == Init /\ [][Next]_vars

\* A handler that has started runs to its end, and the janitor's ticker keeps
\* firing; nothing makes a user send a request or a server crash.
FairSpec == Spec /\ WF_vars(HandlerStep) /\ WF_vars(JanitorStep)

-----------------------------------------------------------------------------
(* Properties                                                                *)

Quiet == op = Idle /\ jan = JIdle

Where(i) == {<<"live", p>> : p \in {p \in Path : live[p].item = i}}
            \cup {<<"trash", t>> : t \in {t \in TrashId : payload[t].item = i}}
OnDisk == {i \in 1..MaxItem : Where(i) # {}}
Contents == {live[p].data : p \in Path} \cup {payload[t].data : t \in TrashId}
            \cup {b.file.data : b \in blobs}

\* The steps that may destroy a file for good: a purge the user asked for, or
\* the janitor taking an expired item.
Purging == JanitorRemove \/ \E t \in TrashId : PurgeBegin(t) \/ EmptyPayload(t)

\* Every variable holds a value of its kind.
TypeOK ==
    /\ live \in [Path -> File] /\ payload \in [TrashId -> File]
    /\ sidecar \in [TrashId -> Meta] /\ expired \in SUBSET TrashId
    /\ rows \in SUBSET Version /\ blobs \in SUBSET Version
    /\ op \in Handler /\ jan \in Janitor
    /\ next \in Counters
    /\ crashes \in 0..MaxCrash /\ stuck \in Stuck

\* What a handler established by an earlier step still holds when a later step
\* relies on it, whatever the janitor did in between: the target of a commit is
\* free or holds the very file being overwritten, a deletion's trash slot is
\* empty, and the path a rollback would return to has not been taken.
InFlight ==
    /\ op.pc \in {"up_commit", "vr_commit"} =>
         op.dest \in Path /\ live[op.dest].item \in {0, op.file.item}
    /\ op.pc \in {"vr_index", "vr_open", "del_move", "del_publish", "rs_move"} =>
         op.path \in Path
    /\ op.pc \in {"del_move", "del_publish", "rs_move", "rs_unlink"} => op.tid \in TrashId
    /\ op.pc \in {"mv_rows", "mv_blobs", "rs_unlink", "rs_rows", "rs_blobs"} =>
         op.dest \in Path
    /\ op.pc = "del_move" => payload[op.tid] = Absent
    /\ op.pc = "del_publish" => live[op.path] = Absent
    /\ op.pc \in {"del_move", "del_publish"} => op.tid < next.tid
    /\ \A t \in TrashId : t >= next.tid => payload[t] = Absent
    /\ \A t \in TrashId : sidecar[t] = NoMeta \/ sidecar[t].orig \in Path

\* A file is never in two places: rename, trash and restore move it, and no
\* crash, rollback or concurrent purge leaves a second copy under its identity.
OnePlace == \A i \in OnDisk : Cardinality(Where(i)) = 1

\* No file vanishes from the disk - be it overwritten, moved over, shadowed by
\* a conflict copy, or caught by a crash between two steps of a delete or a
\* restore - except by a permanent purge.
NeverVanishes == [][(OnDisk \subseteq OnDisk') \/ Purging]_vars

\* The drive implements the vault: with the payloads as its bin, every step of
\* a handler, of the janitor and of a crash is one whole operation of the vault
\* or changes nothing in it.  A commit creates a file or overwrites the same
\* one, a rollback is a put-back, and all the rest goes on behind its back.
V == INSTANCE Vault WITH bin <- payload,
                         File <- [item : 1..MaxItem, data : 1..MaxData]
ImplementsVault == V!Spec

\* The janitor and the interactive purge only take what the trash lists; a
\* payload stranded by a crash in Delete is out of their reach.
PurgeTakesListed ==
    [][\A t \in TrashId :
         (payload[t] # Absent /\ payload'[t] = Absent /\ OnDisk' # OnDisk)
            => Listed(t) \/ op.pc = "em_remove"]_vars

\* "Every overwrite snapshots prior content": what a path held is still stored
\* somewhere - live, in the trash or as a version blob - after any step that
\* is not a purge.
ContentKept ==
    [][\/ \A p \in Path : live[p] # Absent => live[p].data \in Contents'
       \/ Purging]_vars

\* When nothing is in flight, and no crash has cut a request short, every index
\* row has its blob, under the path the row names, unless a relocation failed on
\* that very blob: a rename or restore whose rows could not be moved leaves the
\* blobs where the rows still say, and one that failed on some blobs loses those
\* alone ("worst case some version becomes unreachable").
IndexSound ==
    Quiet /\ crashes = 0 => \A r \in rows : r \in blobs \/ r.vid \in stuck.blobs

\* When nothing is in flight, and no crash has cut a request short, every version
\* row sits at the path where its file is, or at the original path of the trash
\* item its file became - except a row that a failed relocation or purge did
\* not reach.
HistoryFollowsFile ==
    Quiet /\ crashes = 0 => \A r \in rows :
        \/ r.vid \in stuck.rows
        \/ live[r.path].item = r.file.item
        \/ \E t \in TrashId : sidecar[t].orig = r.path /\ payload[t].item = r.file.item

\* "A newer file recreated at OrigPath keeps its history": when a trash item
\* whose rows were recorded at delete time is restored or purged, whatever was
\* indexed since its deletion is neither moved nor dropped.
LaterVersionsStay ==
    [][op.pc \in {"rs_rows", "pg_rows"} /\ jan' = jan =>
         \A r \in rows \ rows' : \E m \in op.metas : r.vid < m.mark \/ m.refs = {}]_vars

\* A prune pass leaves the newest Keep versions of every path alone.
PruneKeepsNewest ==
    [][jan.pc = "del_rows" /\ op' = op => rows \ Excess \subseteq rows']_vars

\* An expired item leaves the trash in the end, whatever requests and crashes
\* come between, and so does an entry whose payload a crash already took.
ExpiredIsPurged ==
    \A t \in TrashId : (t \in expired /\ Listed(t)) ~> ~Listed(t)

-----------------------------------------------------------------------------
(* What the code's comments and its manual say, and the code does not do     *)

OfOccupant(r) == live[r.path].item = r.file.item

\* "... drop each purged item's version history exactly like an interactive
\* permanent purge": purging an item with recorded versions, the janitor
\* leaves the history of the file that now occupies the item's path.
JanitorSparesOccupant ==
    [][jan.pc = "purge_rows" /\ op' = op =>
         \A m \in jan.todo \ jan'.todo : m.refs # {} =>
             \A r \in rows \ rows' : ~OfOccupant(r)]_vars
=============================================================================
