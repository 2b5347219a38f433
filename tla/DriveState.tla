------------------------------ MODULE DriveState ------------------------------
(***************************************************************************)
(* The state of one user's drive and the data it is made of; the steps     *)
(* that change it are in VersionedDrive.                                   *)
(***************************************************************************)
EXTENDS Naturals, FiniteSets

CONSTANTS
    Path,      \* the logical paths of the drive
    NoPath,    \* "no path" in a record field
    Keep,      \* versions kept per path by the janitor (32 in main.go)
    Overlap,   \* whether the janitor may run while a handler is in flight
    Reuse,     \* whether a path may be occupied while older history claims it
    IOErrors,  \* whether a rename that commits an upload, a delete or a restore may fail
    HistoryErrors,   \* whether what then carries the history along may fail
    MaxItem, MaxData, MaxVid, MaxTrash,   \* bounds on what is ever created
    MaxCrash   \* bound on server crashes

ASSUME PathAssumption  == NoPath \notin Path
ASSUME KeepAssumption  == Keep \in Nat
ASSUME FlagAssumption  == Overlap \in BOOLEAN /\ Reuse \in BOOLEAN /\ IOErrors \in BOOLEAN
                          /\ HistoryErrors \in BOOLEAN
ASSUME BoundAssumption == /\ MaxItem \in Nat /\ MaxData \in Nat /\ MaxVid \in Nat
                          /\ MaxTrash \in Nat /\ MaxCrash \in Nat

VARIABLES
    live,      \* files/<user>: what each path holds, Absent if nothing
    payload,   \* trash/<user>/<id>: the trashed file, Absent if none
    sidecar,   \* trash/<user>/<id>.json: the published metadata, or NoMeta
    expired,   \* trash ids whose deletedAt is older than the retention
    rows,      \* the versions table
    blobs,     \* versions/<user>/<hash(path)>/<versionID>
    op,        \* the handler in flight
    jan,       \* the janitor pass in flight
    next,      \* fresh identifiers
    crashes,   \* crashes so far
    stuck      \* what failures the code swallows left behind (not in the code)

vars == <<live, payload, sidecar, expired, rows, blobs, op, jan, next, crashes, stuck>>
disk == <<live, payload, sidecar, expired, rows, blobs>>

-----------------------------------------------------------------------------
(* Data                                                                      *)

TrashId == 1..MaxTrash

\* A file: its identity (which survives overwrite, rename, trash and restore;
\* the code has no such field) and the content it holds.
File   == [item : Nat, data : Nat]
Absent == [item |-> 0, data |-> 0]

\* A version: in `blobs` a blob file under the directory of its path, in
\* `rows` an index row, where `file` only records what was snapshotted.
Version == [path : Path, vid : Nat, file : File]

\* Trash metadata: where the item was, and the version rows it owned; `mark`
\* (not in the code) says which version ids are older than the deletion.
Meta   == [orig : Path \cup {NoPath}, refs : SUBSET Version, mark : Nat]
NoMeta == [orig |-> NoPath, refs |-> {}, mark |-> 0]

HandlerPC == {"idle", "up_commit", "up_index", "vr_index", "vr_open", "vr_commit",
              "mv_rows", "mv_blobs", "del_move", "del_publish",
              "rs_move", "rs_unlink", "rs_rows", "rs_blobs",
              "pg_unlink", "em_remove", "pg_rows", "pg_blobs", "pg_dir"}

\* One handler's program counter and local variables.
Handler == [pc    : HandlerPC,
            path  : Path \cup {NoPath},     \* the path in the request
            dest  : Path \cup {NoPath},     \* where the file will be
            tid   : 0..MaxTrash,            \* the trash id
            file  : File,                   \* the content being written
            snap  : SUBSET Version,         \* the snapshot to index
            refs  : SUBSET Version,         \* version rows captured earlier
            metas : SUBSET Meta]            \* metadata of the trash items at hand
Idle == [pc |-> "idle", path |-> NoPath, dest |-> NoPath, tid |-> 0,
         file |-> Absent, snap |-> {}, refs |-> {}, metas |-> {}]

JanitorPC == {"idle", "scan", "remove", "unlink", "purge_rows", "purge_dir",
              "select", "del_rows", "del_blobs"}
Janitor == [pc   : JanitorPC,
            list : SUBSET TrashId,          \* expired entries of the listing
            tid  : 0..MaxTrash,             \* the entry being purged
            meta : Meta,                    \* its metadata
            todo : SUBSET Meta,             \* purged items; only origPath is used
            sel  : SUBSET Version,          \* rows selected for pruning
            gone : SUBSET Version]          \* selected rows already deleted
JIdle == [pc |-> "idle", list |-> {}, tid |-> 0, meta |-> NoMeta,
          todo |-> {}, sel |-> {}, gone |-> {}]

\* The next unused identifier of each kind (newID draws random ones).
Counters == [item : Nat \ {0}, data : Nat \ {0}, vid : Nat \ {0}, tid : Nat \ {0}]

\* Version ids: the rows that a failed relocation or purge did not reach, and
\* the blobs that a failed relocation left at the old path.  No action reads it.
Stuck == [rows : SUBSET Nat, blobs : SUBSET Nat]

Listed(t)  == sidecar[t] # NoMeta
RowsAt(p)  == {r \in rows : r.path = p}
BlobsAt(p) == {b \in blobs : b.path = p}
Rebase(S, q) == {[v EXCEPT !.path = q] : v \in S}
Vids(S) == {v.vid : v \in S}
Same(v, w) == v.path = w.path /\ v.vid = w.vid

\* The rows beyond the newest `Keep` of their path.
Excess == {r \in rows :
             Cardinality({s \in rows : s.path = r.path /\ s.vid > r.vid}) >= Keep}

\* Where a new file may appear: anywhere, or (Reuse = FALSE) only where no
\* trash item and no version row is left from an earlier occupant.
MayOccupy(p) == Reuse \/ (RowsAt(p) = {} /\ \A t \in TrashId : sidecar[t].orig # p)

\* What a transaction over the rows S got done: all of it, or nothing if it failed.
Committed(S) == IF HistoryErrors THEN {{}, S} ELSE {S}

\* What a call that goes through the files S one by one got done.
Reached(S) == IF HistoryErrors THEN SUBSET S ELSE {S}

\* snapshotVersion: the blob that preserves what p holds now.
Snapshot(p) == {[path |-> p, vid |-> next.vid, file |-> live[p]]}

Accepting == op.pc = "idle" /\ (Overlap \/ jan.pc = "idle")
=============================================================================
