# xx-drive, specified and checked

This directory is a verification project for xx-drive, a self-hosted file drive: a Go server with
trash, version history, shares and accounts; a command-line client with a two-way sync engine; and
an Android app that backs up photos. TLA+ modules model the parts that keep state, TLC checks them
on small instances, and TLAPS proves the theorems listed below for every value of the constants.

## The system and its parts

| part | code | state it keeps | operations |
|---|---|---|---|
| drive core | `internal/fsdrv/fsdrv.go`, `internal/store/store.go` (versions), `internal/api/handlers.go` | live files, trash payloads and their `.json` sidecars, version rows (SQLite), version blobs (disk) | upload, version restore, rename/move, copy, delete, restore, purge, empty trash |
| janitor | `cmd/xxdrive-server/main.go` | none of its own; changes the drive's | expire trash, drop its history, prune versions, sweep grants, remove stale temp files |
| tree operations | `fsdrv.go`, `store.go`, `handlers.go`, `shares.go:shareTarget` | directories; rows and blob directories filed by path | mkdir, move, copy, trash and restore of subtrees, cleaning and containment of raw paths |
| shares | `internal/api/shares.go`, `store.go` | share rows, an in-memory prefix index, password grants | create, revoke, visit by token or prefix, unlock |
| login limiter | `server.go` | failure counters per key | check, count |
| accounts | `store.go`, `handlers.go`, `server.go`, `main.go` | users, sessions | bootstrap, login, logout, revoke others, create, disable, enable, reset, delete, sliding sessions |
| estate identities | `internal/fabric/token.go`, `store.go` | a shadow account per identity | validate, first sight |
| stars | `store.go`, `handlers.go` | a set of paths | toggle, list |
| sync engine | `cmd/xxdrive-cli/sync.go` | a baseline file per sync pair | a pass: walk both sides, classify, push, pull, delete, resolve conflicts |
| camera backup | Android `PhotoBackup.kt`, `PhotoUploadWorker.kt` | a watermark and a failure list | a periodic run |
| web client, Android shell | `webfs/static`, other Kotlin files | none that the server does not hold | presentation |

How they interact. Every mutating request of a user runs under that user's mutex
(`server.go:mutating`), so handlers of one user never overlap; the janitor takes no lock, so it can
come between any two system calls of a handler. File system and SQLite are not updated together:
each handler commits on disk and then brings the index up to date, and a crash between the two is
never repaired. The sync engine and the camera app are HTTP clients of the same handlers; the sync
engine relies on the server's mtimes, on `If-Match` and on the trash and version history keeping
what it overwrites or deletes.

What is hard: the unlocked janitor, crashes between a rename and the write that describes it,
version history keyed by path while paths are reused, listings that are stale by the time a pass
acts on them, passes and runs that are cut short, an index rebuilt while the table it lists changes,
checks and uses with a password hash between them, and two units of time in one comparison.
`PROJECT.json` lists each hazard at its line.

What makes each part correct:

- drive core: no file vanishes but by a purge, none is in two places, no content is lost to an
  overwrite, the index and the blobs agree, history stays with its file, pruning keeps the newest,
  expired items go;
- sync: no content disappears from everywhere, conflicts keep both versions, "unchanged" means
  equal, passes do not echo, clients converge;
- backup: no photo is skipped, failures are retried, nothing is sent again without a reason;
- tree: history and blobs follow every file of a moved subtree, a copy is whole or fails;
- shares: a revoked or expired share is refused and a live one found, whatever the index caches; a
  password admits its holder only, and guesses are limited;
- accounts: an ended session stays ended, an active user stays in, no account loses files but to its
  own deletion.

## Plan and progress

1. `DriveState`, `VersionedDrive`: the core. Done; every safety property proved.
2. `Vault`, the abstract drive, and the refinement. Done, model-checked and proved.
3. `SyncState`, `SyncEngine`. Done; every safety property proved.
4. `PhotoState`, `PhotoBackup`. Done; every safety property proved.
5. `ShareIndex`, `ShareGates`. Done; every safety property proved.
6. `TreePaths`, `DriveTree`. Done; every property proved, and the containment of shared paths.
7. `Accounts`. Done; every property proved.

Every safety property that a passing run checks is proved; what is under fairness is model-checked.

## The modules

The larger components have two modules: `...State` with the constants, variables and data, and the
component itself with one action per step, its specification and its properties; the others have one.
Each opens with faulty variants of single definitions, which no specification uses; they show that every property notices a
plausible bug. `MC...` modules are what TLC runs.

### VersionedDrive

`live`, `payload` and `sidecar` are `files/<user>`, `trash/<user>/<id>` and `<id>.json`; `rows` is the
`versions` table and `blobs` the files under `versions/<user>/<hash>`. A file has a content and an
identity that survives overwriting, renaming, trashing and restoring; the code has no such identity,
which is exactly why properties about whose history a row is need it. `op` is the handler in flight,
with its local variables, and `jan` the janitor's pass. A handler is one action per filesystem call
or SQL statement that changes state, in the order of the code:

| request | actions |
|---|---|
| upload | `UploadFresh`/`UploadOver`, `UploadCommit` (or `CommitFail`), `UploadIndex` |
| version restore | `VersionRestoreBegin`, `...Index`, `...Open`, `...Commit` (or `CommitFail`) |
| rename, move | `Move`, `MoveRows`, `MoveBlobs` |
| copy | `Copy` |
| delete | `DeleteBegin`, `DeleteMove` (or `CommitFail`), `DeletePublish` (or `DeleteRollback`) |
| restore | `RestoreBegin`, `RestoreMove` (or `RestoreFail`, `CommitFail`), `RestoreUnlink`, `RestoreRows`, `RestoreBlobs` |
| purge, empty | `PurgeBegin`, `PurgeUnlink`; `EmptyBegin`, `EmptyPayload`, `EmptySidecar`, `EmptyDone`; `PurgeRows`, `PurgeBlobs`/`PurgeDir` |
| janitor | `JanitorStart` to `JanitorPruneBlob` (`JanitorPruneFail` when the database fails) |

Reads that nothing else can change meanwhile are part of the step that follows them. A path stands
for a file, or for a subtree moved as a unit; conflict and restore names are whatever free path the
code's probe finds. `Crash` resets `op` and `jan` and keeps the disk. Four flags choose the
setting: `Overlap` (the janitor may run while a handler is in flight, as it does in production),
`Reuse` (a path may be occupied while older history still claims it), `IOErrors` (a rename that commits
may fail, or the sidecar of a delete) and `HistoryErrors`: whatever follows the commit may fail. The
handlers log and swallow such a failure and answer with success (`handlers.go:629-651`, `978-1037`), the
janitor goes on with the next item. A SQL transaction over some rows does all of them or none
(`Committed`); what goes through blobs one by one does some of them (`Reached`), a superset of what the
code's order of files, or its stopping at the first error, allows. When the rows cannot be relocated
or dropped the code does not touch the blobs, and neither do the actions. `stuck` notes for the properties which rows
a failed relocation or purge did not reach, and which blobs a failed relocation left behind; no action reads it.

### Vault

What the drive promises its user, without versions, locks, sidecars, janitor or crashes: files at
paths, files in a bin, and six whole operations (`Create`, `Overwrite`, `Rename`, `Discard`,
`PutBack`, `Destroy`). `VersionedDrive!ImplementsVault` is `V!Spec` under the mapping
`bin <- payload`: whatever a handler, the janitor and a crash do between two system calls, what is on
disk changes by one of these operations at a time. A rollback of a delete is a `PutBack`; the
janitor's removal of a payload is a `Destroy`; sidecars, rows and blobs are behind the vault's back.

### DriveTree

`VersionedDrive` takes a path for a file or a subtree moved as a unit; `DriveTree` opens it. `tree`
is `files/<user>` with its directories, `bin` the trashed subtrees with the rows each recorded, `rows`
and `blobs` the index and the blob directories, filed by path. Requests exclude one another under the
user's mutex, so a handler is one action (`Mkdir`, `UploadNew`, `UploadOver`, `Rename`, `Move`,
`Delete`, `Restore`, `Purge`), whose parts are the helpers of the code: `RelocateHistory` is
`relocateVersionHistory`, with `RowHome` for the SQL rewrite and `BlobHome` for the `TrimPrefix` of
each blob directory; `Owned` is the choice between recorded and legacy ownership. A copy of a
directory is `CopyBegin`, one `CopyDir` or `CopyLeaf` an entry, `CopyDone` or `CopyFail`, since it reads
the tree it writes to. `Twins` says that the names differ only by the case of letters, which `LIKE`
does not see.

`TreePaths` holds the pure operators: `Clean` and `Valid` (`ValidateRel`), `Matches` (the reach of
`path = ? OR path LIKE ?`), `Rebase`, `TargetOfPath` and `TargetOfSub` (`shareTarget`). `MCDriveTree`
checks two facts of them over all shares two deep and all queries of three segments: `SharesContain`, no
query leads out of a share, and `LinksLead`, a link of a share's page leads to what it lists except below
a directory whose path under the share repeats the share's own. `VisitsStayInside` and `LinksReach` prove both
for every length.

### ShareIndex

`shares` and `users` are the tables; `idx`, `stale` and `mu` are `shareIdx`, `shareIdxStale` and
`shareMu`. A visit is cut at every query and wherever it takes or leaves the mutex: `VisitByToken`,
or `VisitByPrefix` then `LookupFresh`, or `RebuildUsers`, `RebuildShares` per owner, `RebuildDone`
(`RebuildFails`, `RebuildSkips` when a query fails), then `Serve`. `Create`, `Revoke`, `DeleteOwner`
write the table, and `Invalidate` announces it later under the mutex. `late` and `open` in a visit
remember what was true and announced when it came; `blind` that its own rebuild failed.

### ShareGates

`grants` is `pubGr`, `cookie` what visitors hold, `rate` the limiter's buckets. An attempt is `Ask`,
`LimitCheck` (`loginAllowed`), then `Unlock` (`issueGrant` with its sweep and cap) or `WrongPassword`
and `LoginFailed`: the limiter's two critical sections with the password hash between them.
`handleLogin` uses the same pair with another key. `issued` keeps every grant this process gave.

### Accounts

`users` and `sessions` are the tables, with their constraints; `home` says whose files lie under a
name. A request is cut at its SQL statements, and a mutation holds the lock of the user who acts:

| code | actions |
|---|---|
| `Store.Session` | `Read`, `Enter` (`Lapse` for a session that has run out) |
| `authed`, `mutating`, `adminMutating` | `Answer`, `Lock`, `Admin` |
| `handleLogin` | `Login`, `CreateSession` |
| estate token | `Knock`, `MakeShadow`, `LookAgain`, then as a login or a request |
| logout, revoke others | `Logout`; `ListOthers`, `RevokeNext` |
| any mutation that leaves a file | `Store` |
| create, reset, enable | `CreateUser`, `SetPassword` (`Passwd` for `-passwd`), `Enable` |
| disable | `Disable`, `SweepSessions` |
| delete | `DeleteChecks`, `RemoveUser` (or `RemoveFails`), `DeleteUser` |

Which password is right is left out: a login is of somebody who knows it. A tick of the clock is long,
so a session's read and its slide fall within one.

### SyncEngine

Each client has a local directory (`local`), a baseline file (`base`) and perhaps a pass in flight
(`pass`, with its listings). The server is what the drive core promises: an upload is atomic and
stamped by the server's clock, and what is overwritten or deleted stays in `archive`. A pass is cut
at each request and each local change: `WalkLocal`, `WalkRemote`, one action per class of path
(`Adopt`, `Diverged`, `Push`, `PushRefused`, `PushGone`, `DeleteRemote`, `Pull`, `PullGone`,
`TrashLocal`, `Forget`), the `Chtimes` that follow (`PushStamp`, `PullStamp`), the five steps of
`resolveConflict` (`Park`, `ConflictPull`, `ConflictStat`, `ConflictMirror`, `ConflictDone`), `Save`.
`Edit`, `Remove`, `WebPut`, `WebRemove` are users; `Interrupt` and `LoseBaseline` are faults.
A size and an mtime are one value: every write falls in a second of its own, the assumption
`sync.go` itself makes. `hot` remembers what users wrote under a running pass.

### PhotoBackup

`shelf` is the media store, `mark` and `failed` the two preferences, `run` the worker's run, `cloud`
what the server has received. Time counts ticks, with `Sec` ticks to a second, so that the code's
comparison of seconds with milliseconds is a comparison of two units here too. `isNewerThan`,
`timestampMs`, `nextWatermark` and `rememberFailures` are the functions of those names. The worker is
unique periodic work, so runs do not overlap.

## The runs

| run | bounds | what it shows |
|---|---|---|
| `drive_full` | 2 paths, 2 files, 2 contents, 2 versions, 2 trash items, 1 crash, janitor overlapping, paths reused, failing commits (`HistoryErrors` off) | `TypeOK`, `InFlight` (a handler's findings still hold when it uses them), `OnePlace`, `NeverVanishes`, `PurgeTakesListed`, `ImplementsVault` (every step is one whole operation of the vault or none) |
| `drive_serial` | 2 paths, 2 files, 2 contents, 3 versions, 1 trash item, requests and janitor exclude one another, paths reused, failing commits, relocations and purges, 1 crash | `ContentKept`, `PruneKeepsNewest`, `LaterVersionsStay`, `IndexSound` |
| `drive_live` | 3 contents, 2 versions, 1 trash item, janitor overlapping, no reuse of a claimed path, failing commits, relocations and purges, 1 crash, fairness | `HistoryFollowsFile`, `ExpiredIsPurged` |
| `sync_race` | 2 clients, 3 edits, 1 conflict copy, 1 fault, everything interleaved, edits under a running pass | `TypeOK`, `NothingLost`, `ConflictKeepsBoth`, `NoEcho` |
| `sync_serial` | 2 clients, 3 edits, 3 conflict copies, 1 fault, passes one after another, fairness | `InSync`, `Converges` |
| `share_index` | 1 owner, 1 share, 2 visits, 2 instants, 1 fault, fairness | `TypeOK`, `ServedWasLive`, `LiveShareFound`, `FreshIndexAgrees`, `EveryoneAnswered` |
| `share_gates` | 2 shares, 1 visitor, 2 requests, cap 2, limit 2, 3 grants, 4 instants, 1 restart | `TypeOK`, `AdmitsHolders`, `EntitledKept`, `GuessesBounded` |
| `drive_tree` | 2 names, 2 levels, 3 directories, 4 writes, 1 copy, 1 trash item | `TypeOK`, `HistoryFollows`, `HistoryKept`, `CopyFaithful` |
| `accounts` | 1 administrator, 1 name used again, 1 estate identity, 2 requests, 3 accounts, 2 sessions, 4 instants | `TypeOK` (the tables' constraints), `FilesStay`, `LoggedOutStaysOut`, `ActiveStaysIn` |
| `photo_run` | 2 photos, 5 seconds of 2 ticks, 1 edit a photo, 2 faults, fairness | `TypeOK`, `NoPhotoSkipped`, `FailuresRetried`, `CleanRunSettles`, `BackedUp` |

Why the bounds suffice. Two paths are what rename, restore beside an occupant and conflict names
need; two files contend for one path, two trash items come from it, and with `Keep = 1` two versions
already call for pruning. Three edits by two clients and a web user give every class of path of a
pass, a conflict, a refused push and a commit between any two steps. Two photos are a failure before
or after a success. One share and one owner are enough for the index, whose entries do not interact; two visits are a rebuild
that overtakes a change and a reader that waits for it. Two levels are a directory moved with a file
below it, or into another one; two requests are an administrator's and the account's own, or two
first sights of an identity, and three accounts are the administrator, a user, and a
second user of the same name. No state constraint is used: the bounds are guards on fresh identifiers, edits
and faults. In `sync_serial` the number of conflict copies equals the number of edits, so that it is
never what stops a conflict from being resolved. `drive_full` has `HistoryErrors` off: failures of
history touch rows and blobs only, of which its properties say no more than their types, and would multiply its
states by seven; the theorems hold for either setting. `CHECK_DEADLOCK FALSE` is set throughout, because
with bounded inputs the system comes to rest when they are used up.

Where a property is claimed for less than the full setting, the code is the reason. `IndexSound` and
`HistoryFollowsFile` say nothing after a crash (nothing repairs the index) and `IndexSound` nothing
under `Overlap` (a prune between the relocation of rows and of blobs parts them). Under `HistoryErrors`
they except what a failure hit, and nothing else: `IndexSound` the rows whose own blob a failed relocation left
behind, `HistoryFollowsFile` the rows that a failed relocation or purge did not reach. So a failed statement must part no
row from its blob, which is why the code leaves the blobs alone then; one blob that fails must not take
the others' rows along. The code's comment accepts just that: "worst case some version becomes
unreachable". Under `Overlap` nothing is claimed of `ContentKept` and `PruneKeepsNewest` either: the janitor may drop the snapshot just taken of a file about to be overwritten,
when an item once trashed from its path expires; and a purge between a prune's selection and its
deletions may remove the newer rows that made the selected ones superfluous.
`HistoryFollowsFile` needs `Reuse = FALSE`: delete, create again and rename carries the trashed
item's rows along. `InSync` needs passes that exclude other writers, `NothingLost` excepts what was
written under the running pass, `NoEcho` a file orphaned by a delete on the drive in the middle of its
conflict (see below), and the backup properties need `Ties = FALSE`, `Fresh = FALSE` and a
user who stays logged in to the app. They also need a camera that dates no photo ahead of its clock: `Shoot` sets
`DATE_TAKEN` to 0 or to the present, while the worker takes any value, and a date in the future would
carry the watermark past photos taken later. `NoPhotoSkipped`, `BackedUp`, the clause `mark <= now` of `TypeOK` and
the theorems `NothingPassedOver` and `FailuresOutstanding` rest on that. In `DriveTree` requests are kept `Apart` (nobody moves, trashes or
purges a path under which another, trashed file's history is filed, the reuse that `Reuse` excludes
above), names differ by more than case, and relocations do not fail (which `VersionedDrive` has). `LiveShareFound` and `FreshIndexAgrees` are claimed while
no query has failed: a failed `ListShares` leaves an owner out of an index that is not marked stale.
`ServedWasLive` excepts the visit whose own rebuild failed, which goes by the old index as the code
means it to. `FilesStay` is claimed for one administrator (`Deputy = {}`); `Keeper` limits
whose files are followed, which nothing but the size of the state space asks for.

Fairness. `drive_live`: weak fairness of each started handler's next step (Go runs a request to its
end unless the process dies) and of the janitor's pass (a ticker starts it again and again); none
for users. `sync_serial`: strong fairness of each client's pass (`xxdrive watch` repeats it at an
interval; where passes exclude one another a client is enabled only between the others' passes).
`share_index`: a request that has been accepted goes on (weak fairness of the steps of a visit), and whoever waits for `shareMu`
gets it although others take it again and again (strong fairness of taking it, which the starvation mode
of Go's mutex gives after a millisecond); none for users or the clock. `photo_run`: weak fairness of the worker (periodic work), with failures bounded by `MaxFaults`.

### Where the code does not do what it says

| run | what TLC finds |
|---|---|
| `drive_janitor_occupant` | The janitor drops the history of a whole path when an item trashed from it expires; the newer file at that path loses its versions. `main.go:345` says it does what an interactive purge does, which drops the recorded rows only. |
| `drive_tree_twins` | Of two directories whose names differ only by case one is moved: `LIKE` takes the other's rows along to a path no file is at, and their blobs to a third one. |

Also observed. A constant or a guard that hides it from the runs is named; what no property forbids the
models simply contain:

- an item that never had versions has an empty record, which is taken for one of an older release:
  purging it purges the history of a newer file at its path (`handlers.go:680`; without `Recorded` in
  `Purge`, `HistoryKept` fails);
- renaming a newer file at a trashed item's path carries the item's rows away, and restoring it does not
  bring them back (`store.go:671`; `HistoryFollowsFile` fails with `Reuse = TRUE`);
- a file saved after a pass has listed it is overwritten by that pass's download (`sync.go:280`; the
  exception in `NothingLost`);
- a commit between the download and the stat of `resolveConflict` leaves the old content under the new
  mtime on both records (`sync.go:389`; `InSync` fails with `Races = TRUE`);
- a file deleted from the drive after `resolveConflict` has downloaded it, and before the stat that is to
  give it an mtime, is left on disk under the epoch with an empty baseline entry, and the next pass pushes
  it. When two clients resolve a conflict about that file at once, both push it back, the second onto the
  first's, with no `If-Match` (`sync.go:389-405`; `Orphaned` in `NoEcho`). It takes six edits, two
  copies and no fault, more than the runs have: the attempt to prove the property without the
  exception led to it;
- until a first upload succeeds the watermark is not stored and slides with the clock
  (`PhotoUploadWorker.kt:45`; `FailuresRetried` fails with `Fresh = TRUE`, `Day = 4`);
- a login under way when its account is disabled makes a session after the sweep, which works once the
  account is enabled again (`handlers.go:75`);
- with two administrators one may enable an account between the other's check and the removal of its
  files (`FilesStay` fails with `Deputy = {eve}`, `Name = {bob, eve}`), and two may disable each other;
- an upload admitted before the deletion of its account makes the directory again, and a new account of
  that name finds the files;
- a local account named like an estate identity's blocks that identity, and a reset makes a shadow
  account's password usable (`store.go:277-288`);
- a copy of a directory into itself is not refused, as a move is: `copyTree` walks the directories it
  makes (`fsdrv.go:604`, `fsdrv.go:1273`) until a path is too long or the disk full, and what it made stays
  (`Endless` in `DriveTreeProofs`).

## The proofs

`VersionedDriveProofs` proves, for any set of paths, any `Keep`, any bounds and any setting of the
flags:

- `TypeCorrect`: `Spec => []TypeOK`;
- `InFlightHolds`: `Spec => []InFlight`;
- `FilesNeverVanish`: `Spec => NeverVanishes`.

The inductive invariant is `TypeOK /\ InFlight`. `TypeOK` alone is not enough even for itself: a
handler's path and trash id may be `NoPath` or 0 in an idle record, and only `InFlight` says that
they are real at the steps that index `live` and `payload` with them. `InFlight` carries what one step established
for a later one: the target of a commit is free or holds the file being overwritten; the trash slot
of a deletion is empty, because ids at or above `next.tid` have never been used; the path a rollback
returns to is still free. None of it can be disturbed by the janitor, which never writes `live` or
fills `payload`: that is the lemma the interleavings rest on. `NeverVanishes` then follows step by
step: each action either leaves every file where it is, moves it to a slot the invariant says is
free, or is one of the purging steps. The constants' assumptions used are those named in `DriveState`.

The second half of the module proves, under the same assumptions:

- `DriveImplementsVault`: `Spec => ImplementsVault`;
- `NeverTwoCopies`: `Spec => []OnePlace`.

The invariant here is `Mapped`, which adds three parts to the other: every place holds nothing or a
file whose identity has been handed out; every version holds the content of such a file, for a restore
makes a file from it; and a commit in flight is about to overwrite the very file it replaces, or to
create one nobody holds. The last is what makes a commit the vault's `Overwrite` or `Create`, and must
hold from the check of the target to the rename, across the janitor. Lemmas sort the steps into those
that write, those that move a file, those that destroy one, and those the vault does not see.
`OnePlace` is then a fact about the vault alone: none of its six operations copies a file
(`VaultKeepsDistinct`), and the drive takes no other step.

`HistoryProofs` proves, on the invariant of `VersionedDriveProofs`:

- `PurgesTakeListed`: `Spec => PurgeTakesListed`, and `LaterVersionsAreLeft`: `Spec => LaterVersionsStay`,
  whatever the flags;
- `OverwritesPreserve`: `Spec => ContentKept`, `IndexHasItsBlobs`: `Spec => []IndexSound`, and
  `PruningKeepsNewest`: `Spec => PruneKeepsNewest`, from `Overlap = FALSE`;
- `HistoryIsWithItsFile`: `Spec => []HistoryFollowsFile`, from `Reuse = FALSE`.

The hypotheses are those of the runs that check the properties, and TLC has a counterexample to each
property without its own (see the runs). `HistoryErrors` is free: all hold with relocations and purges that
fail wholly, partly or not at all. Each theorem has an invariant of its own:

- `Purgeable` says that an entry is unlisted only once its payload is gone, on the janitor's side too,
  and that ids not yet handed out have no entry.
- `Aged` orders history by version ids: whatever an item recorded is below the mark it was given, from
  the deletion through sidecar and restore or purge, and ids at or above `next.vid` are new. The
  property then is that a step takes only what was recorded.
- `Alone` and `Preserved`: with no overlap, what a commit is about to replace is the content of a blob;
  the snapshot was written one step earlier, and nothing prunes in between.
- `InStep` follows index and blobs while they are apart. A move relocates rows first and blobs in the
  next step, so until then the rows are a subset of the blobs *as that step will leave them*; likewise
  for a restore, a purge and the janitor's own two. Whatever failures do, a row is backed by its blob
  or by a note in `stuck.blobs` that this very blob was left behind (`Backed`). `IndexSound` by itself speaks only of states with
  nothing in flight, so no induction could start from it.
- `Ranked`: each row selected for pruning has `Keep` newer rows that are not selected. That the
  selection begins so is the lemma `EnoughStay`, an induction on the number of newer rows, done by
  least counterexample.
- `History` is the largest. `Claims` says that under `Reuse = FALSE` a trashed item holds its path:
  nothing lives there, no other item claims it, and it has recorded every row there (or none, when
  the query failed), so a restore always goes home. `Owned` ties each row to the file at its path or in the trash. `Accounted` says
  that every row has its file, or is one which the handler in flight (`DueOp`) or the janitor
  (`DueJan`) is about to move or drop. It counts the rows that no failure has left behind (`Unstuck`); the
  others may be anywhere. `Writing`, `Moving`, `Purged` and `Reading` carry what each
  handler, and the janitor's copy of a sidecar, know from step to step. It is claimed until the first crash, after which
  nothing completes what was due. The janitor may run between any two steps.

`SyncEngineProofs` proves, from the assumptions of `SyncState`:

- `TypeCorrect`: `Spec => []TypeOK`;
- `NoLoss`: `Spec => NothingLost`, and `BothKept`: `Spec => ConflictKeepsBoth`, with passes of all
  clients and users interleaved;
- `LeftInSync`: `Spec => []InSync`, from `Races = FALSE`;
- `EchoesAreOrphans`: `Spec => NoEcho`.

A pass decides what to overwrite by comparing seconds, so the invariant `Guarded` is about seconds: every
mtime remembered anywhere is one the server's clock has passed; and a content that only a client holds is in a
file whose mtime no baseline, no listing of the drive and no file of it has (`Marked`), so it cannot be mistaken for an
old one. `Sound` adds what a pass knows of a file it listed: it is as listed, or its content is safe
elsewhere, or a user wrote it since. `BothKept` follows a conflict copy from the moment it is given a
name (`Copies`): once uploaded it stays on the server for good, since no path of a pass deletes it.
`LeftInSync` adds that one pass runs at a time (`OnePass`) and that a local file with the mtime of the drive's has its content (`SameSecond`), also the one that
a pass is about to stamp (`Fetched`). Proving it corrected the model: a file whose mtime a failed
`Stat` left at 0 is stamped with the epoch by `Chtimes`, which is a time and not "no file".

`EchoesAreOrphans` must know which contents two clients, or a client and the drive, can have in common. A client's
content is its own (`Own`) until it is uploaded, and whatever it shares with others carries the mtime
of its baseline (`Dated`), except while a pass is between a transfer and the `Chtimes` and `base`
entry that follow (`AtMain`), and except for the orphan, whose baseline is empty. A push wants a file
whose listed mtime is not the baseline's, and what was listed is still there or was
written since (`Honest`): so it pushes what nobody has, or an orphan. Conflict copies need only `Copies`.

`PhotoBackupProofs` proves, from the assumptions of `PhotoState`:

- `TypeCorrect`: `Spec => []TypeOK`, and `CleanRunsSettle`: `Spec => CleanRunSettles`;
- `NothingPassedOver`: `Spec => []NoPhotoSkipped`, and `FailuresOutstanding`:
  `Spec => []FailuresRetried`, from `Ties = FALSE` and `Fresh = FALSE`.

The watermark is a number of milliseconds compared with seconds, so the first part of the invariant
dates photos: added no later than modified, taken within the second they were added (what `Shoot` assumes of
the camera). `Running` says of a
run that what it saw was newer than the watermark it used, and that each photo it saw is either still to
be tried or among its attempts. `Kept` says why the watermark may move: attempts are in the order of their
seconds, so the one before the first failure is below everything not yet uploaded (`Ordered`), and what
changes during the run is later than all of it (`Covered`, `Later`). `nextWatermark` takes a maximum over
a prefix of the attempts, about which facts are proved by least exception. `MaxSecond` is at least 2
because the clock starts there.

`AccountsProofs` proves, from `AccountConstants` and `NoRow`:

- `TypeCorrect`: `Spec => []TypeOK` (the unique keys of the tables and their foreign key);
- `SessionsEnd`: `Spec => LoggedOutStaysOut`, and `SlidingEnough`: `Spec => ActiveStaysIn`;
- `FilesKept`: `Spec => FilesStay`, from `Deputy = {}`, one administrator.

The unique keys are inductive only with `Filed`: a row is under the id it was given, and ids are not
given twice. `Requests` and `ReadWell` say what a request knows between its read of a session and the
slide: the session is gone or lasts as long as when read, so the slide never shortens one. `FilesKept`
rests on `Alone`: there is one administrator (`Sole`), and a user's lock has one holder
(`Exclusive`); hence the account whose files are about to go is disabled still (`Condemned`), and files
under a name are its own (`OwnFiles`) until then.

`ShareIndexProofs` proves, from `IndexConstants`:

- `TypeCorrect`: `Spec => []TypeOK`;
- `LateVisitsRefused`: `Spec => []ServedWasLive`;
- `FreshIndexIsRight`: `Spec => []FreshIndexAgrees`;
- `SharesAreFound`: `Spec => []LiveShareFound`.

`ServedWasLive` speaks of a visit's past, so the invariant says what that past left behind: a share
that was shut when a late visit came stays shut, and neither the index, while it counts as fresh, nor a
listing that a rebuild has begun has anything for it (`Clean`). That holds because a change is
announced under the mutex, which a rebuild holds from its first query to its last: once everything is
announced there is no rebuild that began before (`QuietClean`). `FreshIndexIsRight` adds `Complete`,
the same for the shares that are to be had, owner by owner of the rebuild. `SharesAreFound` needs it
share by share and for a visit's own share while other owners are in the middle of theirs (`Known`): a share is
in a fresh index, and in every listing past its owner, from the announcement of its creation on
(`AnnouncedKnown`), and a visit that came when it was open relies on that until it is answered
(`AskedKnown`). Both hold until the first fault (`Findable`), as the property says.

`ShareGatesProofs` proves, from `GateConstants`:

- `TypeCorrect`: `Spec => []TypeOK`;
- `OnlyHoldersAdmitted`: `Spec => []AdmitsHolders`;
- `GuessesStayBounded`: `Spec => []GuessesBounded`;
- `GrantsNotLost`: `Spec => []EntitledKept`.

For the grants the invariant is that a cookie holds a number already drawn, which no later grant
gets, a restart included, and that a grant under that number for that share is its holder's. For the
limiter a bound on failures counted is not inductive, as requests that passed the check have yet to
count theirs: `Counted` bounds the sum of both by `Limit - 1 + |Conn|`, and a request only passes when
fewer than `Limit` are counted. `EntitledKept` is inductive with the finiteness of `issued`: a grant
that the cap leaves out has `Cap` others in the map that last as long (`CapTakesTheOldest`), and
the grants issued only grow.

`DriveTreeProofs` proves, from `PathConstants` and `TreeConstants`, for any names and any depth:

- `TypeCorrect`: `Spec => []TypeOK`, and `CopiesFaithful`: `Spec => CopyFaithful`, whether or not
  names differ only by case;
- `VersionsFollow`: `Spec => []HistoryFollows`, and `VersionsKept`: `Spec => HistoryKept`, from
  `Twins = FALSE`, without which the run `drive_tree_twins` refutes the former;
- `FilesInOnePlace`: `Spec => []OnePlace`, each file is at one path of the tree or at one place in one trash
  item, and `FilesSurvive`: `Spec => [][Spared]_vars`, no request but the purge of the item that holds a file takes
  it off the disk, both whether or not names differ only by case;
- of the paths, for raw paths of any length: `CleanPaths`, what `ValidateRel` accepts becomes a path of names
  below the root, no longer than the raw one, that cleaning again leaves as it is; `VisitsStayInside`, neither `path`
  nor `sub` leads out of a share; `LinksReach`, a link of a share's page leads to what it lists exactly when that
  path under the share does not begin with the share's own.

The module opens with what it needs of paths, each as sequences of any length: prefixes are an order
that is linear below a path, `Below` undoes `\o`, a parent is the longest proper prefix. Lemmas on
trees follow: what exists is in directories that exist (`Closed`, by least counterexample), and what
`Detached`, `Without`, `With` and `Make` return is again such a tree (`Grove`). From these each request is reduced
to what it does to the files: `Puts` a tree at a free path, `Takes` one away, `Moves` one.

`HistoryFollows` is not inductive alone: a moved row could be that of a trashed file whose item has
recorded it. `Placed` excludes this: each file is at one place, in the tree or in one trash item
(`OnePlace`), which needs that the ids given to uploads and copies are new (`IdsKnown`, `CopyIds`). `Filed`
adds that an item has recorded rows of its own files only (`RefsOwn`). Then whatever `RelocateHistory` or
`MoveVersions` takes under a path belongs to files that are there (`HeldThere`), and rows and blobs go where the
files go. That requests are kept `Apart` is part of the actions, as in the runs.

`CopyFaithful` has an invariant for each of two cases (`CopySound`). Where the target is outside the
source, what the copy found is either copied or below an entry yet to be visited, and
nothing else is in the target (`Faithful`). Where it is inside, there is always an entry yet to be visited on the way
to the last directory the copy has made (`Endless`), so the walk ends only by an error: the operating system's
limit on paths, or a full disk.

`FilesSurvive` follows from `OnePlace`: every request keeps each file somewhere (`Has`), and a purge takes only
what its item holds, which is nowhere else.

`Clean` is a fold of the community modules, a function that a `CHOOSE` picks by its recursive equation. No
induction over data is needed to reason about it: that a function with the first `n` of its values exists is
shown by a least counterexample (`Folding`, `Foldable`), each value is then one step from the one before, and that
every value is a path no longer than what was read is a least counterexample again (`CleanIsPath`, `CleanIsItself`).
The run `drive_tree` evaluates the same facts on a small instance (`SharesContain`, `LinksLead`).

Only model-checked: everything under fairness (`ExpiredIsPurged`, `Converges`, `EveryoneAnswered`,
`BackedUp`), which is out of the prover's reach.

## Not modelled

Of the drive's failures: a rollback of a delete that fails as well, trash payloads and sidecars that cannot be
removed, a trash that cannot be listed or read, a snapshot that cannot be taken before a version restore
(which goes on without it), and a transaction that commits although its caller sees an error. `DriveTree` has
no failures but those of a copy.

Stars, a set of paths that shares no state with the rest; tags, listings, search, thumbnails, the event log
and the etag cache, which change nothing the properties speak of; the HMAC of fabric tokens, a stateless
check; the JSON codec of the backup's failure list; the web client, the Android shell and the command-line
client's one-shot commands (presentation and platform calls around single requests). An own password
change ends no session and, as which password is right is not in the state, is no step of the model.
Timestamps that collide within a second, which both the etag and the sync engine accept, are outside the
sync model; blobs left without a row, which version restores produce, are in the drive
model but no property forbids them.
