------------------------------ MODULE PhotoState ------------------------------
(***************************************************************************)
(* The state of camera backup on one phone (PhotoBackup.kt,                *)
(* PhotoUploadWorker.kt): the media store, the preferences that survive a  *)
(* process, the run in flight and what the drive has received.  The steps  *)
(* are in PhotoBackup.                                                     *)
(*                                                                         *)
(* Time runs in ticks of a fraction of a second: DATE_TAKEN, System.       *)
(* currentTimeMillis and the watermark count ticks (milliseconds in the    *)
(* code), DATE_ADDED and DATE_MODIFIED count whole seconds.                *)
(***************************************************************************)
EXTENDS SequencesExt

CONSTANTS
    Photo,      \* ids of the media store
    Sec,        \* ticks in a second (1000 in the code)
    Day,        \* ticks an unset watermark reaches back (24 h in the code)
    Limit,      \* failures remembered (MAX_FAILURES, 10 in the code)
    Ties,       \* whether the camera may write twice within one second
    Fresh,      \* whether backup starts without a watermark
    MaxSecond,  \* bound on time, which starts in second 2
    MaxEdits,   \* bound on the versions of a photo
    MaxFaults   \* bound on failed uploads and runs cut short

ASSUME PhotoUnitAssumption  == Sec \in Nat \ {0} /\ Day \in Nat /\ Limit \in Nat
ASSUME PhotoFlagAssumption  == Ties \in BOOLEAN /\ Fresh \in BOOLEAN
ASSUME PhotoBoundAssumption == MaxSecond \in Nat \ {0, 1} /\ MaxEdits \in Nat /\ MaxFaults \in Nat

VARIABLES
    now,      \* the clock
    shelf,    \* the media store: the row of each photo, or NoPhoto
    touched,  \* the second of its latest change (not in the code)
    mark,     \* last_photo_ts, 0 if it was never written
    failed,   \* last_backup_failures, newest first
    run,      \* the run of the worker in flight
    cloud,    \* [photo, ver]: what uploads have stored
    faults

vars == <<now, shelf, touched, mark, failed, run, cloud, faults>>

-----------------------------------------------------------------------------
Second(t) == t \div Sec

\* A MediaStore row; `ver` (not in the code) counts the photo's contents.
Row     == [added : Nat, modified : Nat, taken : Nat, ver : Nat]
NoPhoto == [added |-> 0, modified |-> 0, taken |-> 0, ver |-> 0]
Gone    == [NoPhoto EXCEPT !.ver = 1]   \* deleted; ids are not used again
There(p) == shelf[p].added # 0

\* A photo queried, and the outcome of its upload.
Item    == [photo : Photo, ts : Nat, ver : Nat]
Attempt == [photo : Photo, ts : Nat, uploaded : BOOLEAN]

\* A run: the watermark it started from, the photos still to upload (`ver` is
\* what the query saw), and the attempts so far.
Run   == [active : BOOLEAN, since : Nat, todo : SUBSET Item,
          seen : SUBSET Item, attempts : Seq(Attempt)]
NoRun == [active |-> FALSE, since |-> 0, todo |-> {}, seen |-> {}, attempts |-> <<>>]

Stored(p) == [photo |-> p, ver |-> shelf[p].ver] \in cloud
=============================================================================
