------------------------------- MODULE SyncState -------------------------------
(***************************************************************************)
(* The state of two-way sync (cmd/xxdrive-cli/sync.go): local directories  *)
(* of several clients, each with a baseline and perhaps a pass in flight,  *)
(* and the remote directory they share.  The steps are in SyncEngine.      *)
(*                                                                         *)
(* Every write of a file, on a client or on the server, falls in a second  *)
(* of its own, so that size and mtime together identify the write; the     *)
(* second stands for the two of them (syncMeta) and for the etag made of   *)
(* them.  sync.go accepts that two writes may share size and second.       *)
(***************************************************************************)
EXTENDS Naturals, FiniteSets

CONSTANTS
    Client,      \* the sync pairs: local directories bound to the remote one
    Races,       \* whether the server side may change while a pass runs
    LiveEdits,   \* whether a user may change files under a running pass
    MaxEdits,    \* bound on what users do, locally and in the web UI
    MaxCopies,   \* bound on conflict copies
    MaxFaults    \* bound on interrupted passes and lost baselines

ASSUME SyncFlagAssumption  == Races \in BOOLEAN /\ LiveEdits \in BOOLEAN
ASSUME SyncBoundAssumption == MaxEdits \in Nat /\ MaxCopies \in Nat /\ MaxFaults \in Nat

VARIABLES
    local,     \* what each client's directory holds
    bin,       \* contents moved into some client's .xxdrive-trash
    base,      \* each client's baseline file: the remote mtime last agreed on
    remote,    \* what the remote directory holds
    archive,   \* contents the server keeps as versions and in its trash
    pass,      \* each client's pass in flight
    clock,     \* the second of the latest write
    copies,    \* conflict copies made so far
    hot,       \* contents written under a running pass of their client (not in
               \* the code)
    edits, faults

sides == <<local, bin, base, remote, archive>>
vars  == <<local, bin, base, remote, archive, pass, clock, copies, hot, edits, faults>>

-----------------------------------------------------------------------------
\* The file users work on is 0; conflictName makes up the others.
Main == 0
Name == 0..MaxCopies

\* A content is named by the second it was first written in; no mtime is ever
\* Unstamped but that of a file pulled and not given the remote's (Chtimes).
File      == [data : Nat, mtime : Nat]
NoFile    == [data |-> 0, mtime |-> 0]
Unstamped == 1

PassPC == {"idle", "listed", "pick", "push_stamp", "pull_stamp",
           "cf_park", "cf_pull", "cf_stat", "cf_mirror", "cf_stamp"}

Pass == [pc     : PassPC,
         local  : [Name -> Nat],    \* walkLocal: mtimes, 0 for no file
         remote : [Name -> Nat],    \* walkRemote
         base   : [Name -> Nat],    \* the baseline in memory
         todo   : SUBSET Name,      \* paths of the union not yet reconciled
         name   : Name,             \* the path at hand
         meta   : Nat,              \* the remote mtime to stamp it with
         conf   : Name,             \* its conflict copy
         cmeta  : Nat]              \* and that copy's remote mtime
Nothing == [n \in Name |-> 0]
NoPass  == [pc |-> "idle", local |-> Nothing, remote |-> Nothing, base |-> Nothing,
            todo |-> {}, name |-> Main, meta |-> 0, conf |-> Main, cmeta |-> 0]

Exists(f) == f # NoFile
Resting   == \A c \in Client : pass[c].pc = "idle"

\* fsdrv.Upload as sync.go sees it: atomic, stamped by the server's clock, and
\* what it overwrites stays in the version history (see VersionedDrive).
Store(n, d) ==
    /\ remote' = [remote EXCEPT ![n] = [data |-> d, mtime |-> clock + 1]]
    /\ archive' = archive \cup ({remote[n].data} \ {0})
    /\ clock' = clock + 1

\* Likewise a delete, which moves the file to the server's trash.
Discard(n) ==
    /\ remote' = [remote EXCEPT ![n] = NoFile]
    /\ archive' = archive \cup ({remote[n].data} \ {0})

-----------------------------------------------------------------------------
(* Classification of one path of a pass, from its listings and baseline      *)

LChanged(c, n) == pass[c].local[n] # 0 /\ pass[c].local[n] # pass[c].base[n]
LGone(c, n)    == pass[c].local[n] = 0 /\ pass[c].base[n] # 0
RChanged(c, n) == pass[c].remote[n] # 0 /\ pass[c].remote[n] # pass[c].base[n]
RGone(c, n)    == pass[c].remote[n] = 0 /\ pass[c].base[n] # 0

\* Path n is the one being looked at.
At(c, n) == pass[c].pc = "pick" /\ n \in pass[c].todo

\* Path n is done with: the pass goes on with baseline b.
Done(c, n, b) == pass' = [pass EXCEPT ![c].pc = "pick", ![c].todo = @ \ {n}, ![c].base = b]
=============================================================================
