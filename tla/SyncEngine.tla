------------------------------- MODULE SyncEngine -------------------------------
(***************************************************************************)
(* Two-way sync: each client's passes (syncOnce), cut at every request to  *)
(* the server and every change of the local directory, the users who edit  *)
(* files locally and in the web UI, and passes that are cut short.         *)
(*                                                                         *)
(* A pass reads a file or a response in the same step as it acts on it:    *)
(* what the other side does in between has the effect it would have had    *)
(* just after.  Requests that fail for want of a network leave a path as   *)
(* it was, like a pass that is interrupted before it gets there.           *)
(***************************************************************************)
EXTENDS SyncState

-----------------------------------------------------------------------------
(* Faulty variants of definitions below.  No specification uses them:        *)
(* substituting one for the definition it is named after shows that a        *)
(* property notices.                                                         *)

\* pullTo without its check of the response status: the error body becomes the
\* file.
PullGoneKeepsBody(c, n) ==
    /\ At(c, n) /\ RChanged(c, n) /\ ~LChanged(c, n) /\ ~Exists(remote[n])
    /\ local' = [local EXCEPT ![c][n] = [data |-> 0, mtime |-> Unstamped]]
    /\ Done(c, n, pass[c].base)
    /\ UNCHANGED <<bin, base, remote, archive, clock, copies, hot, edits, faults>>

\* resolveConflict takes the remote content before the local one is parked.
DivergedUnparked(c, n) ==
    /\ At(c, n) /\ LChanged(c, n) /\ RChanged(c, n)
    /\ pass[c].local[n] # pass[c].remote[n]
    /\ pass' = [pass EXCEPT ![c].pc = "cf_pull", ![c].name = n,
                            ![c].meta = pass[c].remote[n]]
    /\ UNCHANGED <<sides, clock, copies, hot, edits, faults>>

\* resolveConflict does not converge the local content, only its mtime.
ConflictPullSkipped(c) ==
    /\ pass[c].pc = "cf_pull"
    /\ pass' = [pass EXCEPT ![c].pc = "cf_stat"]
    /\ UNCHANGED <<sides, clock, copies, hot, edits, faults>>

\* A push without the Chtimes that converges the local mtime.
PushStampNoChtimes(c) ==
    /\ pass[c].pc = "push_stamp"
    /\ Done(c, pass[c].name, [pass[c].base EXCEPT ![pass[c].name] = pass[c].meta])
    /\ UNCHANGED <<sides, clock, copies, hot, edits, faults>>

\* A remote deletion is not propagated.
TrashLocalNot(c, n) ==
    /\ At(c, n) /\ pass[c].remote[n] = 0 /\ pass[c].local[n] # 0
    /\ ~LChanged(c, n)
    /\ Done(c, n, pass[c].base)
    /\ UNCHANGED <<sides, clock, copies, hot, edits, faults>>

-----------------------------------------------------------------------------
Init ==
    /\ local = [c \in Client |-> [n \in Name |-> NoFile]]
    /\ bin = {}
    /\ base = [c \in Client |-> Nothing]
    /\ remote = [n \in Name |-> NoFile]
    /\ archive = {}
    /\ pass = [c \in Client |-> NoPass]
    /\ clock = Unstamped
    /\ copies = 0 /\ hot = {} /\ edits = 0 /\ faults = 0

-----------------------------------------------------------------------------
(* The users                                                                 *)

MayEdit(c) ==
    /\ edits < MaxEdits
    /\ LiveEdits \/ pass[c].pc = "idle"
    /\ Races \/ Resting

\* A file is written or overwritten in the client's directory.
Edit(c) ==
    /\ MayEdit(c)
    /\ local' = [local EXCEPT ![c][Main] = [data |-> clock + 1, mtime |-> clock + 1]]
    /\ clock' = clock + 1
    /\ hot' = IF pass[c].pc = "idle" THEN hot ELSE hot \cup {clock + 1}
    /\ edits' = edits + 1
    /\ UNCHANGED <<bin, base, remote, archive, pass, copies, faults>>

Remove(c) ==
    /\ MayEdit(c)
    /\ Exists(local[c][Main])
    /\ local' = [local EXCEPT ![c][Main] = NoFile]
    /\ edits' = edits + 1
    /\ UNCHANGED <<bin, base, remote, archive, pass, clock, copies, hot, faults>>

\* Another device uploads to the drive, or deletes from it.
WebPut ==
    /\ edits < MaxEdits /\ (Races \/ Resting)
    /\ Store(Main, clock + 1)
    /\ edits' = edits + 1
    /\ UNCHANGED <<local, bin, base, pass, copies, hot, faults>>

WebRemove ==
    /\ edits < MaxEdits /\ (Races \/ Resting)
    /\ Exists(remote[Main])
    /\ Discard(Main)
    /\ edits' = edits + 1
    /\ UNCHANGED <<local, bin, base, pass, clock, copies, hot, faults>>

-----------------------------------------------------------------------------
(* A pass: the listings                                                      *)

WalkLocal(c) ==
    /\ pass[c].pc = "idle"
    /\ Races \/ Resting
    /\ pass' = [pass EXCEPT ![c] =
                  [NoPass EXCEPT !.pc = "listed", !.base = base[c],
                                 !.local = [n \in Name |-> local[c][n].mtime]]]
    /\ UNCHANGED <<sides, clock, copies, hot, edits, faults>>

WalkRemote(c) ==
    /\ pass[c].pc = "listed"
    /\ LET r == [n \in Name |-> remote[n].mtime]
           l == pass[c].local
           b == pass[c].base
       IN pass' = [pass EXCEPT ![c].pc = "pick", ![c].remote = r,
                               ![c].todo = {n \in Name : l[n] # b[n] \/ r[n] # b[n]}]
    /\ UNCHANGED <<sides, clock, copies, hot, edits, faults>>

\* Every path is done with: the baseline is written.
Save(c) ==
    /\ pass[c].pc = "pick" /\ pass[c].todo = {}
    /\ base' = [base EXCEPT ![c] = pass[c].base]
    /\ pass' = [pass EXCEPT ![c] = NoPass]
    /\ UNCHANGED <<local, bin, remote, archive, clock, copies, hot, edits, faults>>

-----------------------------------------------------------------------------
(* A pass: one path of the union                                             *)

\* Changed on both sides, to the same size and mtime.
Adopt(c, n) ==
    /\ At(c, n) /\ LChanged(c, n) /\ RChanged(c, n)
    /\ pass[c].local[n] = pass[c].remote[n]
    /\ Done(c, n, [pass[c].base EXCEPT ![n] = pass[c].local[n]])
    /\ UNCHANGED <<sides, clock, copies, hot, edits, faults>>

\* Changed on both sides, to different ones.
Diverged(c, n) ==
    /\ At(c, n) /\ LChanged(c, n) /\ RChanged(c, n)
    /\ pass[c].local[n] # pass[c].remote[n]
    /\ pass' = [pass EXCEPT ![c].pc = "cf_park", ![c].name = n,
                            ![c].meta = pass[c].remote[n]]
    /\ UNCHANGED <<sides, clock, copies, hot, edits, faults>>

\* The If-Match of the baseline does not match what the server holds: 412.
Refused(c, n) == pass[c].base[n] # 0 /\ Exists(remote[n]) /\ remote[n].mtime # pass[c].base[n]

\* Changed here only: push, read from the disk as it is now.
Push(c, n) ==
    /\ At(c, n) /\ LChanged(c, n) /\ ~RChanged(c, n)
    /\ Exists(local[c][n]) /\ ~Refused(c, n)
    /\ Store(n, local[c][n].data)
    /\ pass' = [pass EXCEPT ![c].pc = "push_stamp", ![c].name = n, ![c].meta = clock + 1]
    /\ UNCHANGED <<local, bin, base, copies, hot, edits, faults>>

PushRefused(c, n) ==
    /\ At(c, n) /\ LChanged(c, n) /\ ~RChanged(c, n)
    /\ Exists(local[c][n]) /\ Refused(c, n)
    /\ pass' = [pass EXCEPT ![c].pc = "cf_park", ![c].name = n,
                            ![c].meta = pass[c].remote[n]]
    /\ UNCHANGED <<sides, clock, copies, hot, edits, faults>>

\* The file to push has been removed since it was listed.
PushGone(c, n) ==
    /\ At(c, n) /\ LChanged(c, n) /\ ~RChanged(c, n) /\ ~Exists(local[c][n])
    /\ Done(c, n, pass[c].base)
    /\ UNCHANGED <<sides, clock, copies, hot, edits, faults>>

\* os.Chtimes: a file that is there is given the mtime the remote has.  Of a path
\* the listing did not have there is none: the epoch then, no second of a write.
Stamped(c, n, t) ==
    [local EXCEPT ![c][n] = IF Exists(@)
                            THEN [@ EXCEPT !.mtime = IF t = 0 THEN Unstamped ELSE t] ELSE @]

PushStamp(c) ==
    LET n == pass[c].name IN
    /\ pass[c].pc = "push_stamp"
    /\ local' = Stamped(c, n, pass[c].meta)
    /\ Done(c, n, [pass[c].base EXCEPT ![n] = pass[c].meta])
    /\ UNCHANGED <<bin, base, remote, archive, clock, copies, hot, edits, faults>>

\* Deleted here, unchanged there: delete there too.  A file that is gone by
\* now answers 404 and keeps its baseline entry.
DeleteRemote(c, n) ==
    /\ At(c, n) /\ LGone(c, n) /\ ~RChanged(c, n) /\ ~RGone(c, n)
    /\ Discard(n)
    /\ Done(c, n, IF Exists(remote[n]) THEN [pass[c].base EXCEPT ![n] = 0] ELSE pass[c].base)
    /\ UNCHANGED <<local, bin, base, clock, copies, hot, edits, faults>>

\* Changed there, unchanged or deleted here: download over the local file.
Pull(c, n) ==
    /\ At(c, n) /\ RChanged(c, n) /\ ~LChanged(c, n)
    /\ Exists(remote[n])
    /\ local' = [local EXCEPT ![c][n] = [data |-> remote[n].data, mtime |-> Unstamped]]
    /\ pass' = [pass EXCEPT ![c].pc = "pull_stamp", ![c].name = n,
                            ![c].meta = pass[c].remote[n]]
    /\ UNCHANGED <<bin, base, remote, archive, clock, copies, hot, edits, faults>>

PullGone(c, n) ==
    /\ At(c, n) /\ RChanged(c, n) /\ ~LChanged(c, n) /\ ~Exists(remote[n])
    /\ Done(c, n, pass[c].base)
    /\ UNCHANGED <<sides, clock, copies, hot, edits, faults>>

PullStamp(c) ==
    LET n == pass[c].name IN
    /\ pass[c].pc = "pull_stamp"
    /\ local' = Stamped(c, n, pass[c].meta)
    /\ Done(c, n, [pass[c].base EXCEPT ![n] = pass[c].meta])
    /\ UNCHANGED <<bin, base, remote, archive, clock, copies, hot, edits, faults>>

\* Deleted there, unchanged here: the local file goes to .xxdrive-trash.
TrashLocal(c, n) ==
    /\ At(c, n) /\ RGone(c, n) /\ ~LChanged(c, n) /\ ~LGone(c, n)
    /\ local' = [local EXCEPT ![c][n] = NoFile]
    /\ bin' = bin \cup ({local[c][n].data} \ {0})
    /\ Done(c, n, IF Exists(local[c][n]) THEN [pass[c].base EXCEPT ![n] = 0] ELSE pass[c].base)
    /\ UNCHANGED <<base, remote, archive, clock, copies, hot, edits, faults>>

\* Deleted on both sides.
Forget(c, n) ==
    /\ At(c, n) /\ LGone(c, n) /\ RGone(c, n)
    /\ Done(c, n, [pass[c].base EXCEPT ![n] = 0])
    /\ UNCHANGED <<sides, clock, copies, hot, edits, faults>>

-----------------------------------------------------------------------------
(* A pass: resolveConflict                                                   *)

GiveUp(c) ==
    /\ Done(c, pass[c].name, pass[c].base)
    /\ UNCHANGED <<sides, clock, copies, hot, edits, faults>>

\* Park the local version on the server, under a name not used before.
Park(c) ==
    LET n == pass[c].name IN
    /\ pass[c].pc = "cf_park"
    /\ \/ /\ Exists(local[c][n]) /\ copies < MaxCopies
          /\ Store(copies + 1, local[c][n].data)
          /\ copies' = copies + 1
          /\ pass' = [pass EXCEPT ![c].pc = "cf_pull", ![c].conf = copies + 1,
                                  ![c].cmeta = clock + 1]
          /\ UNCHANGED <<local, bin, base, hot, edits, faults>>
       \/ /\ ~Exists(local[c][n]) \/ copies = MaxCopies
          /\ GiveUp(c)

\* Converge the local file on the remote content.
ConflictPull(c) ==
    LET n == pass[c].name IN
    /\ pass[c].pc = "cf_pull"
    /\ IF Exists(remote[n])
       THEN /\ local' = [local EXCEPT ![c][n] = [data |-> remote[n].data,
                                                 mtime |-> Unstamped]]
            /\ pass' = [pass EXCEPT ![c].pc = "cf_stat"]
            /\ UNCHANGED <<bin, base, remote, archive, clock, copies, hot, edits, faults>>
       ELSE GiveUp(c)

\* statRemote: the mtime of what is there now, else the one listed.
ConflictStat(c) ==
    LET n == pass[c].name
        t == IF Exists(remote[n]) THEN remote[n].mtime ELSE pass[c].meta
    IN /\ pass[c].pc = "cf_stat"
       /\ local' = Stamped(c, n, t)
       /\ pass' = [pass EXCEPT ![c].pc = "cf_mirror", ![c].meta = t]
       /\ UNCHANGED <<bin, base, remote, archive, clock, copies, hot, edits, faults>>

\* Download the conflict copy as well.
ConflictMirror(c) ==
    LET k == pass[c].conf IN
    /\ pass[c].pc = "cf_mirror"
    /\ IF Exists(remote[k])
       THEN /\ local' = [local EXCEPT ![c][k] = [data |-> remote[k].data,
                                                 mtime |-> Unstamped]]
            /\ pass' = [pass EXCEPT ![c].pc = "cf_stamp"]
            /\ UNCHANGED <<bin, base, remote, archive, clock, copies, hot, edits, faults>>
       ELSE GiveUp(c)

ConflictDone(c) ==
    LET n == pass[c].name
        k == pass[c].conf
    IN /\ pass[c].pc = "cf_stamp"
       /\ local' = Stamped(c, k, pass[c].cmeta)
       /\ Done(c, n, [pass[c].base EXCEPT ![n] = pass[c].meta, ![k] = pass[c].cmeta])
       /\ UNCHANGED <<bin, base, remote, archive, clock, copies, hot, edits, faults>>

-----------------------------------------------------------------------------
(* Faults                                                                    *)

\* The pass dies: what it has done stays, its baseline is not written.
Interrupt(c) ==
    /\ faults < MaxFaults
    /\ pass[c].pc # "idle"
    /\ pass' = [pass EXCEPT ![c] = NoPass]
    /\ faults' = faults + 1
    /\ UNCHANGED <<sides, clock, copies, hot, edits>>

\* The baseline file is gone or does not parse: loadBaseline starts from none.
LoseBaseline(c) ==
    /\ faults < MaxFaults
    /\ pass[c].pc = "idle" /\ base[c] # Nothing
    /\ base' = [base EXCEPT ![c] = Nothing]
    /\ faults' = faults + 1
    /\ UNCHANGED <<local, bin, remote, archive, pass, clock, copies, hot, edits>>

-----------------------------------------------------------------------------
PassStep(c) ==
    \/ WalkLocal(c) \/ WalkRemote(c) \/ Save(c)
    \/ \E n \in Name :
         \/ Adopt(c, n) \/ Diverged(c, n)
         \/ Push(c, n) \/ PushRefused(c, n) \/ PushGone(c, n)
         \/ DeleteRemote(c, n)
         \/ Pull(c, n) \/ PullGone(c, n)
         \/ TrashLocal(c, n) \/ Forget(c, n)
    \/ PushStamp(c) \/ PullStamp(c)
    \/ Park(c) \/ ConflictPull(c) \/ ConflictStat(c) \/ ConflictMirror(c) \/ ConflictDone(c)

UserStep == WebPut \/ WebRemove \/ \E c \in Client : Edit(c) \/ Remove(c)

Next ==
    \/ UserStep
    \/ \E c \in Client : PassStep(c) \/ Interrupt(c) \/ LoseBaseline(c)

Spec == Init /\ [][Next]_vars

\* `xxdrive watch`: every client starts another pass at each interval and sees
\* it through.  Where passes exclude one another (Races = FALSE) each still gets
\* its turn, hence strong fairness.
FairSpec == Spec /\ \A c \in Client : SF_vars(PassStep(c))

-----------------------------------------------------------------------------
(* Properties                                                                *)

Contents(dir) == {dir[n].data : n \in Name} \ {0}
Held == (UNION {Contents(local[c]) : c \in Client}) \cup Contents(remote) \cup bin \cup archive

\* Every variable holds a value of its kind; a file has a content and an mtime
\* or is absent, so that no failed download ever passes for a file.
IsFile(f) == f = NoFile \/ (f \in File /\ f.data # 0 /\ f.mtime # 0)
TypeOK ==
    /\ local \in [Client -> [Name -> File]] /\ \A c \in Client, n \in Name : IsFile(local[c][n])
    /\ remote \in [Name -> File] /\ \A n \in Name : IsFile(remote[n])
    /\ bin \in SUBSET Nat /\ archive \in SUBSET Nat
    /\ base \in [Client -> [Name -> Nat]]
    /\ pass \in [Client -> Pass]
    /\ clock \in Nat \ {0}
    /\ copies \in 0..MaxCopies /\ hot \in SUBSET Nat
    /\ edits \in 0..MaxEdits /\ faults \in 0..MaxFaults

\* "No data loss, ever": no step of a pass, whatever other clients and devices
\* did since its listings and wherever earlier passes were cut short, destroys
\* the last copy of a content - in a directory, a trash or the version history -
\* other than one the user wrote under the running pass itself.
Lost == Held \ Held'
NothingLost == [][edits' = edits => Lost \subseteq hot]_vars

\* "Keep BOTH versions": the local content a conflict replaces is by then a
\* live file of the drive, not just history.
ConflictKeepsBoth ==
    [][\A c \in Client : pass[c].pc = "cf_pull" /\ pass'[c].pc = "cf_stat" =>
         {local[c][pass[c].name].data} \subseteq Contents(remote') \cup hot \cup {0}]_vars

\* "Unchanged everywhere -> nothing": when passes exclude one another, a path
\* whose local and remote mtimes are those of the baseline really holds one
\* content on both sides, so leaving it alone leaves nothing behind.
InSync ==
    \A c \in Client, n \in Name :
        pass[c].pc = "idle" /\ base[c][n] # 0
          /\ local[c][n].mtime = base[c][n] /\ remote[n].mtime = base[c][n]
        => local[c][n].data = remote[n].data

\* A file that was downloaded to resolve a conflict, and deleted from the drive
\* before it could be given an mtime: the baseline names no write of it.
Orphaned(c, n) ==
    /\ local[c][n] = [data |-> remote[n].data, mtime |-> Unstamped]
    /\ pass[c].base[n] = 0

\* "The next pass is a clean no-op": unless a pass was cut short or a baseline
\* lost, a pass never uploads the very content the server already holds at that
\* path, but for a file orphaned as above whose content another client has put
\* back.
NoEcho ==
    [][faults = 0 => \A n \in Name :
         /\ Exists(remote[n]) /\ remote'[n].mtime # remote[n].mtime
         /\ remote'[n].data = remote[n].data
         => \E c \in Client : pass'[c] # pass[c] /\ Orphaned(c, n)]_vars

\* When the users stop, the passes bring every directory to what the drive
\* holds, conflict copies and deletions included, and it stays so.
Converged == \A c \in Client : local[c] = remote /\ \A n \in Name : base[c][n] = remote[n].mtime
Converges == <>[]Converged
=============================================================================
