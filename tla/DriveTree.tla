-------------------------------- MODULE DriveTree --------------------------------
(***************************************************************************)
(* One user's drive as a tree of directories: what VersionedDrive leaves   *)
(* out by taking a path for a file or a subtree moved as a unit.  Here the *)
(* handlers move, copy, trash and restore subtrees, and the version index  *)
(* follows by prefix: rows are rewritten with LIKE patterns, blob          *)
(* directories are renamed one path at a time.                             *)
(*                                                                         *)
(* The per-user mutex runs the requests one at a time and the janitor is   *)
(* in VersionedDrive, so a handler is one step here, except the copy of a  *)
(* tree, which reads the very directories it may be writing to and which a *)
(* full disk or a crash may cut short.                                     *)
(***************************************************************************)
EXTENDS TreePaths, FiniteSets

CONSTANTS
    Twins,   \* whether the names differ only by the case of letters
    MaxWrites, MaxCopies, MaxTrash, MaxDirs   \* bounds

ASSUME TreeConstants ==
    /\ Twins \in BOOLEAN
    /\ {MaxWrites, MaxCopies, MaxTrash, MaxDirs} \subseteq Nat

VARIABLES
    tree,    \* existing path |-> node
    bin,     \* trash id |-> item
    rows,    \* the version index
    blobs,   \* the version blobs, each under the path its directory is named after
    job,     \* the copy under way
    writes, copies   \* uploads and copies so far

vars == <<tree, bin, rows, blobs, job, writes, copies>>
counters == <<writes, copies>>
history == <<rows, blobs>>

-----------------------------------------------------------------------------
\* A file is known by the request that created it, a copied one also by where
\* in the copy it was; `data` is the write its content came from.
File == [by : 1..MaxWrites + MaxCopies, at : Path]
Leaf == [file : File, data : 1..MaxWrites]
Dir  == [file |-> <<>>, data |-> 0]

\* A version: the path it is filed under and the content it keeps.
Version == [path : Seq(Name), file : File, data : 1..MaxWrites]

NoJob == [src |-> Root, dst |-> Root, todo |-> {}, was |-> <<>>]
Accepting == job = NoJob

Under(t, p) == {q \in DOMAIN t : IsPrefix(p, q)}
IsDir(t, p) == p \in DOMAIN t /\ t[p] = Dir
Room(t) == Cardinality({p \in DOMAIN t : t[p] = Dir}) <= MaxDirs
Children(t, p) == {q \in Under(t, p) : Len(q) = Len(p) + 1}
Files(t) == {t[p].file : p \in {q \in DOMAIN t : t[q] # Dir}}

Without(t, p)   == Restrict(t, DOMAIN t \ Under(t, p))
With(t, p, new) == [q \in DOMAIN t \cup {p \o r : r \in DOMAIN new} |->
                      IF IsPrefix(p, q) /\ Below(p, q) \in DOMAIN new THEN new[Below(p, q)] ELSE t[q]]
Detached(t, p)  == [r \in {Below(p, q) : q \in Under(t, p)} |-> t[p \o r]]
Single(node)    == [r \in {Root} |-> node]
Fits(p, sub)    == \A r \in DOMAIN sub : Len(p \o r) <= MaxDepth

\* os.MkdirAll, for every directory in P (closed under parents).
CanMake(t, P) == \A p \in P : p \in DOMAIN t => IsDir(t, p)
Make(t, P)    == [q \in DOMAIN t \cup P |-> IF q \in DOMAIN t THEN t[q] ELSE Dir]

RowsUnder(p) == {r \in rows : Matches(Twins, p, r.path)}

\* A bound on what is asked: nobody moves, trashes, restores or purges `files`
\* while the history of others, which are in the trash or have taken the place
\* of trashed ones, is filed under the same path.
Apart(p, files) == \A r \in rows : IsPrefix(p, r.path) => r.file \in files

\* A file's version, wherever it is filed.
SameVersion(r, s) == r.file = s.file /\ r.data = s.data

-----------------------------------------------------------------------------
(* Faulty variants of definitions below, which no specification uses.        *)

\* Blob directories of the descendants stay behind.
BlobHomeRootOnly(b, from, to) ==
    [b EXCEPT !.path = IF b.path = from THEN to ELSE b.path]

\* A directory inside the source is skipped.
CopyDirSkip(q) ==
    /\ q \in job.todo /\ tree[q] = Dir
    /\ job' = [job EXCEPT !.todo = @ \ {q}]
    /\ UNCHANGED <<tree, bin, history, counters>>

\* A restore or purge takes whatever is filed under the item's path by now.
OwnedWholePath(item) == RowsUnder(item.orig)

-----------------------------------------------------------------------------
Init ==
    /\ tree = [r \in {Root} |-> Dir]
    /\ bin = <<>>
    /\ rows = {} /\ blobs = {}
    /\ job = NoJob
    /\ writes = 0 /\ copies = 0

-----------------------------------------------------------------------------
\* handleMkdir: the parent must exist, os.Mkdir makes one directory.
Mkdir(p) ==
    /\ Accepting
    /\ p # Root /\ p \notin DOMAIN tree /\ IsDir(tree, Parent(p))
    /\ tree' = Make(tree, {p}) /\ Room(tree')
    /\ UNCHANGED <<bin, history, job, counters>>

\* handleUpload to a free path, with the directories on the way to it.
UploadNew(p) ==
    /\ Accepting /\ writes < MaxWrites
    /\ p # Root /\ p \notin DOMAIN tree /\ CanMake(tree, Ancestors(p))
    /\ writes' = writes + 1
    /\ tree' = With(Make(tree, Ancestors(p)), p,
                    Single([file |-> [by |-> writes + 1, at |-> Root], data |-> writes + 1]))
    /\ Room(tree')
    /\ UNCHANGED <<bin, history, job, copies>>

\* handleUpload over a file: what was there becomes a version.
UploadOver(p) ==
    /\ Accepting /\ writes < MaxWrites
    /\ p \in DOMAIN tree /\ tree[p] # Dir
    /\ writes' = writes + 1
    /\ LET old == [path |-> p, file |-> tree[p].file, data |-> tree[p].data]
       IN rows' = rows \cup {old} /\ blobs' = blobs \cup {old}
    /\ tree' = [tree EXCEPT ![p].data = writes + 1]
    /\ UNCHANGED <<bin, job, copies>>

-----------------------------------------------------------------------------
(* Rename and move                                                           *)

\* newPath || substr(path, length(oldPath)+1)
RowHome(r, from, to) == [r EXCEPT !.path = Rebase(r.path, from, to)]

\* newPath + strings.TrimPrefix(old, oldPath): the prefix is trimmed only if
\* it is the very same.
BlobHome(b, from, to) ==
    [b EXCEPT !.path = IF IsPrefix(from, b.path) THEN Rebase(b.path, from, to) ELSE to \o b.path]

\* relocateVersionHistory: rows in one statement, then the directory of every
\* path that had rows.
RelocateHistory(from, to) ==
    LET moved == RowsUnder(from)
        dirs  == {b \in blobs : \E r \in moved : r.path = b.path}
    IN /\ rows' = (rows \ moved) \cup {RowHome(r, from, to) : r \in moved}
       /\ blobs' = (blobs \ dirs) \cup {BlobHome(b, from, to) : b \in dirs}

Relocate(from, to) ==
    /\ from # Root /\ from \in DOMAIN tree
    /\ to \notin DOMAIN tree /\ IsDir(tree, Parent(to))
    /\ Fits(to, Detached(tree, from))
    /\ tree' = With(Without(tree, from), to, Detached(tree, from))
    /\ RelocateHistory(from, to)
    /\ Apart(from, Files(Detached(tree, from)))
    /\ UNCHANGED <<bin, job, counters>>

Rename(from, name) ==
    /\ Accepting
    /\ Relocate(from, Append(Parent(from), name))

\* Faulty variant of Move, which no specification uses: moving a directory into
\* itself is not refused.
MoveIntoItself(from, dir) ==
    /\ Accepting /\ from # Root
    /\ Relocate(from, Append(dir, Last(from)))

Move(from, dir) ==
    /\ Accepting /\ from # Root
    /\ ~IsPrefix(from, dir)
    /\ Relocate(from, Append(dir, Last(from)))

-----------------------------------------------------------------------------
(* Copy.  copyTree walks the source with filepath.WalkDir: a directory is    *)
(* read after it has been made anew in the target, so entries the copy put   *)
(* there are walked as well.  The walk is in the order of the names; here    *)
(* any order in which directories come before their entries.                 *)

CopyTarget(q) == Rebase(q, job.src, job.dst)

\* copyFile: O_EXCL, so the target must be free and its directory there.
CopyOne(src, dst, id) ==
    /\ tree[src] # Dir
    /\ dst \notin DOMAIN tree /\ dst \in Path /\ IsDir(tree, Parent(dst))
    /\ tree' = With(tree, dst, Single([file |-> id, data |-> tree[src].data]))

\* os.MkdirAll of a directory's target.
CopyMake(src, dst) ==
    /\ tree[src] = Dir
    /\ dst \in Path /\ CanMake(tree, Ancestors(dst) \cup {dst})
    /\ tree' = Make(tree, Ancestors(dst) \cup {dst})

Copyable(src, dst) ==
    /\ Accepting /\ copies < MaxCopies
    /\ src # Root /\ src \in DOMAIN tree
    /\ dst # Root /\ dst \notin DOMAIN tree

CopyFile(src, dst) ==
    /\ Copyable(src, dst)
    /\ CopyOne(src, dst, [by |-> MaxWrites + copies + 1, at |-> Root])
    /\ copies' = copies + 1
    /\ UNCHANGED <<bin, history, job, writes>>

CopyBegin(src, dst) ==
    /\ Copyable(src, dst)
    /\ CopyMake(src, dst)
    /\ copies' = copies + 1
    /\ job' = [src |-> src, dst |-> dst, todo |-> Children(tree', src), was |-> Detached(tree, src)]
    /\ UNCHANGED <<bin, history, writes>>

\* The next directory: made in the target, then read.
CopyDir(q) ==
    /\ q \in job.todo
    /\ CopyMake(q, CopyTarget(q))
    /\ job' = [job EXCEPT !.todo = (@ \ {q}) \cup Children(tree', q)]
    /\ UNCHANGED <<bin, history, counters>>

CopyLeaf(q) ==
    /\ q \in job.todo
    /\ CopyOne(q, CopyTarget(q), [by |-> MaxWrites + copies, at |-> Below(job.src, q)])
    /\ job' = [job EXCEPT !.todo = @ \ {q}]
    /\ UNCHANGED <<bin, history, counters>>

\* The disk is full, a name is taken or too long, the server dies: what has
\* been copied stays.
CopyFail ==
    /\ ~Accepting /\ job.todo # {}
    /\ job' = NoJob
    /\ UNCHANGED <<tree, bin, history, counters>>

CopyDone ==
    /\ ~Accepting /\ job.todo = {}
    /\ job' = NoJob
    /\ UNCHANGED <<tree, bin, history, counters>>

-----------------------------------------------------------------------------
(* Trash                                                                     *)

\* handleDelete: the rows under the path are recorded with the item and stay.
Delete(p, id) ==
    /\ Accepting
    /\ p # Root /\ p \in DOMAIN tree /\ id \notin DOMAIN bin
    /\ bin' = [i \in DOMAIN bin \cup {id} |->
                 IF i = id THEN [orig |-> p, was |-> Detached(tree, p), refs |-> RowsUnder(p)] ELSE bin[i]]
    /\ tree' = Without(tree, p)
    /\ Apart(p, Files(Detached(tree, p)))
    /\ UNCHANGED <<history, job, counters>>

\* The rows a restore or a purge takes for the item's own: the recorded ones,
\* or, when none were, all that are under its path by now.
Owned(item) == IF item.refs # {} THEN item.refs ELSE RowsUnder(item.orig)
Recorded(item) == item.refs # {} \/ Apart(item.orig, Files(item.was))

\* moveSpecificVersions
MoveVersions(refs, from, to) ==
    LET claimed == {r \in refs : IsPrefix(from, r.path)}
        moved(s) == (s \ claimed) \cup {RowHome(r, from, to) : r \in s \cap claimed}
    IN rows' = moved(rows) /\ blobs' = moved(blobs)

\* handleTrashRestore: home if nothing is there by now, else next to it under
\* a "(restored n)" name; missing parents are made again.
Restore(id) ==
    /\ Accepting
    /\ id \in DOMAIN bin /\ Recorded(bin[id])
    /\ LET item    == bin[id]
           sibling == {Append(Parent(item.orig), n) : n \in Name}
       IN \E dest \in IF item.orig \in DOMAIN tree THEN sibling \ DOMAIN tree ELSE {item.orig} :
            /\ CanMake(tree, Ancestors(dest))
            /\ tree' = With(Make(tree, Ancestors(dest)), dest, item.was) /\ Room(tree')
            /\ IF dest = item.orig THEN UNCHANGED history
               ELSE MoveVersions(Owned(item), item.orig, dest)
    /\ bin' = Restrict(bin, DOMAIN bin \ {id})
    /\ UNCHANGED <<job, counters>>

PurgedRows(item) == Owned(item) \cap rows

\* handleTrashDelete; a blob goes only if its path lost a row.
Purge(id) ==
    /\ Accepting
    /\ id \in DOMAIN bin /\ Recorded(bin[id])
    /\ LET gone  == PurgedRows(bin[id])
           lost  == {r.path : r \in gone}
       IN /\ rows' = rows \ gone
          /\ blobs' = IF bin[id].refs # {}
                      THEN blobs \ {r \in Owned(bin[id]) : r.path \in lost}
                      ELSE {b \in blobs : b.path \notin lost}
    /\ bin' = Restrict(bin, DOMAIN bin \ {id})
    /\ UNCHANGED <<tree, job, counters>>

-----------------------------------------------------------------------------
Next ==
    \/ \E p \in Path : Mkdir(p) \/ UploadNew(p) \/ UploadOver(p)
    \/ \E p \in Path, n \in Name : Rename(p, n)
    \/ \E p, q \in Path : Move(p, q) \/ CopyFile(p, q) \/ CopyBegin(p, q)
    \/ \E q \in Path : CopyDir(q) \/ CopyLeaf(q)
    \/ CopyFail \/ CopyDone
    \/ \E p \in Path, id \in 1..MaxTrash : Delete(p, id)
    \/ \E id \in 1..MaxTrash : Restore(id) \/ Purge(id)

Spec == Init /\ [][Next]_vars

-----------------------------------------------------------------------------
SameContent(t, s) == DOMAIN t = DOMAIN s /\ \A r \in DOMAIN s : t[r].data = s[r].data

IsTree(t) == \A p \in DOMAIN t : p # Root => IsDir(t, Parent(p))

\* The live paths form a tree of directories, and so does every trashed
\* subtree, through moves, copies cut short, and restores into directories
\* that went meanwhile.
TypeOK ==
    /\ DOMAIN tree \subseteq Path /\ IsDir(tree, Root) /\ IsTree(tree)
    /\ \A p \in DOMAIN tree : tree[p] \in Leaf \cup {Dir}
    /\ DOMAIN bin \subseteq 1..MaxTrash
    /\ \A id \in DOMAIN bin :
         /\ bin[id].orig \in Path /\ bin[id].refs \subseteq Version
         /\ IsTree(bin[id].was) /\ Root \in DOMAIN bin[id].was
    /\ rows \subseteq Version /\ blobs \subseteq Version
    /\ job.todo \subseteq DOMAIN tree
    /\ writes \in 0..MaxWrites /\ copies \in 0..MaxCopies

\* Every row names a version of the file that is at its path now, or was when
\* it was trashed, in which case the trash item has recorded the row; and its
\* blob is there.  Through renames and moves of any directory above, restores
\* under another name, and purges.  Requests are kept Apart, and names differ by
\* more than the case of letters unless Twins: RelocateVersions and VersionsUnder
\* take every row under a path, also those of trashed files and, LIKE being blind
\* to case, those under a directory spelled otherwise.
HistoryFollows ==
    \A r \in rows :
      /\ r \in blobs
      /\ \/ r.path \in DOMAIN tree /\ tree[r.path].file = r.file
         \/ \E id \in DOMAIN bin : LET item == bin[id] IN
              /\ r \in item.refs /\ IsPrefix(item.orig, r.path)
              /\ Below(item.orig, r.path) \in DOMAIN item.was
              /\ item.was[Below(item.orig, r.path)].file = r.file

\* A version goes only when the trash item that holds its file is purged: a
\* purge spares the files that took the item's place, whatever directory it
\* had been in ("A newer file recreated at OrigPath keeps its history").
HistoryKept ==
    [][\A r \in rows :
         \/ \E s \in rows' : SameVersion(r, s)
         \/ \E id \in DOMAIN bin \ DOMAIN bin' :
              r.file \in Files(bin[id].was) /\ tree' = tree]_vars

\* A copy that reports success has copied the tree it found: the same paths,
\* the same contents, and nothing of the source has changed meanwhile.
CopyFaithful ==
    [][CopyDone => /\ SameContent(Detached(tree, job.dst), job.was)
                   /\ Detached(tree, job.src) = job.was]_vars
=============================================================================
