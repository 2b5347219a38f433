------------------------------ MODULE PhotoBackup ------------------------------
(***************************************************************************)
(* Camera backup: the periodic worker that queries the media store for     *)
(* photos newer than a watermark, uploads them one by one in the order of  *)
(* their dates, and moves the watermark to the end of the successful       *)
(* prefix; the camera and the user, who add, edit and delete photos        *)
(* meanwhile; and uploads that fail, runs that die.                        *)
(*                                                                         *)
(* The worker is unique periodic work: no two runs overlap.  A run that    *)
(* finds nothing to upload, or that starts while no one is logged in,      *)
(* changes nothing modelled here.                                          *)
(***************************************************************************)
EXTENDS PhotoState

-----------------------------------------------------------------------------
\* The members of s that are in P, in their order: SelectSeq as a recursive
\* function, which can be reasoned about.
Among(s, P) ==
    LET f[i \in 0..Len(s)] == IF i = 0 THEN <<>>
                              ELSE IF s[i] \in P THEN Append(f[i - 1], s[i]) ELSE f[i - 1]
    IN f[Len(s)]

\* The attempts that failed, and the photos that were tried.
Failures(attempts) == Among(attempts, {a \in Attempt : ~a.uploaded})
TriedPhotos(attempts) == {attempts[i].photo : i \in DOMAIN attempts}

-----------------------------------------------------------------------------
(* Faulty variants of definitions below.  No specification uses them:        *)
(* substituting one for the definition it is named after shows that a        *)
(* property notices.                                                         *)

\* The watermark is the newest photo that was uploaded, failures or not.
NextWatermarkPastFailures(current, attempts) ==
    Max({current} \cup {attempts[i].ts : i \in {j \in DOMAIN attempts : attempts[j].uploaded}})

\* A photo that is uploaded at last stays on the failure list.
RememberFailuresForever(previous, attempts) ==
    LET failures == Failures(attempts)
        incoming == Reverse([i \in DOMAIN failures |-> failures[i].photo])
        all      == incoming \o Among(previous, Photo \ TriedPhotos(failures))
    IN SubSeq(all, 1, IF Len(all) < Limit THEN Len(all) ELSE Limit)

\* The date of a photo is its DATE_TAKEN when it has one.
TimestampTakenOnly(r) == IF r.taken > 0 THEN r.taken ELSE r.added * Sec

\* Only photos added since the watermark are new.
NewerByAddedOnly(since, r) == r.added > Second(since)

\* The failure list grows without bound.
RememberFailuresUncapped(previous, attempts) ==
    LET failures == Failures(attempts)
    IN Reverse([i \in DOMAIN failures |-> failures[i].photo])
         \o Among(previous, Photo \ TriedPhotos(attempts))

-----------------------------------------------------------------------------
(* The rules of PhotoBackup.kt                                               *)

\* DATE_ADDED and DATE_MODIFIED are seconds, DATE_TAKEN and the watermark are not.
isNewerThan(since, r) ==
    r.added > Second(since) \/ r.modified > Second(since) \/ r.taken > since

timestampMs(r) == Max({r.taken, r.added * Sec, r.modified * Sec})

\* The date at the end of the longest prefix that was uploaded throughout.
nextWatermark(current, attempts) ==
    Max({current} \cup
        {attempts[i].ts : i \in {j \in DOMAIN attempts : \A k \in 1..j : attempts[k].uploaded}})

\* Newest first; an upload drops the photo, a new failure replaces the old row.
rememberFailures(previous, attempts) ==
    LET failures == Failures(attempts)
        incoming == Reverse([i \in DOMAIN failures |-> failures[i].photo])
        all      == incoming \o Among(previous, Photo \ TriedPhotos(attempts))
    IN SubSeq(all, 1, IF Len(all) < Limit THEN Len(all) ELSE Limit)

-----------------------------------------------------------------------------
Init ==
    /\ now = 2 * Sec
    /\ shelf = [p \in Photo |-> NoPhoto] /\ touched = 0
    /\ mark = IF Fresh THEN 0 ELSE Sec
    /\ failed = <<>>
    /\ run = NoRun
    /\ cloud = {}
    /\ faults = 0

-----------------------------------------------------------------------------
(* The phone                                                                 *)

Tick ==
    /\ now < MaxSecond * Sec
    /\ now' = now + 1
    /\ UNCHANGED <<shelf, touched, mark, failed, run, cloud, faults>>

\* The camera and the user change the media store, at most once a second
\* unless ties are allowed.
Change(p, row) ==
    /\ Ties \/ Second(now) > touched
    /\ shelf' = [shelf EXCEPT ![p] = row]
    /\ touched' = Second(now)
    /\ UNCHANGED <<now, mark, failed, run, cloud, faults>>

\* A photo is taken; some cameras leave DATE_TAKEN unset.  That it is never ahead
\* of the clock is an assumption: the worker takes any value.
Shoot(p) ==
    /\ shelf[p] = NoPhoto
    /\ \E taken \in {0, now} :
         Change(p, [added |-> Second(now), modified |-> Second(now),
                    taken |-> taken, ver |-> 1])

Adjust(p) ==
    /\ There(p) /\ shelf[p].ver <= MaxEdits
    /\ Change(p, [shelf[p] EXCEPT !.modified = Second(now), !.ver = @ + 1])

Trash(p) ==
    /\ There(p)
    /\ shelf' = [shelf EXCEPT ![p] = Gone]
    /\ UNCHANGED <<now, touched, mark, failed, run, cloud, faults>>

-----------------------------------------------------------------------------
(* A run of the worker                                                       *)

\* prefs.getLong: an unset watermark is a day before now, at every run.
Since == IF mark # 0 THEN mark ELSE IF now > Day THEN now - Day ELSE 0

queryNewImages ==
    {[photo |-> p, ts |-> timestampMs(shelf[p]), ver |-> shelf[p].ver] :
        p \in {q \in Photo : There(q) /\ isNewerThan(Since, shelf[q])}}

Begin ==
    /\ ~run.active
    /\ queryNewImages # {}
    /\ run' = [active |-> TRUE, since |-> Since, todo |-> queryNewImages,
               seen |-> queryNewImages, attempts |-> <<>>]
    /\ UNCHANGED <<now, shelf, touched, mark, failed, cloud, faults>>

\* Photos are uploaded in the order of their dates.
NextUp(i) == run.active /\ i \in run.todo /\ \A j \in run.todo : i.ts <= j.ts

Tried(i, ok) ==
    run' = [run EXCEPT !.todo = @ \ {i},
                       !.attempts = Append(@, [photo |-> i.photo, ts |-> i.ts,
                                               uploaded |-> ok])]

\* What is uploaded is the photo as it is by now.
Upload(i) ==
    /\ NextUp(i) /\ There(i.photo)
    /\ cloud' = cloud \cup {[photo |-> i.photo, ver |-> shelf[i.photo].ver]}
    /\ Tried(i, TRUE)
    /\ UNCHANGED <<now, shelf, touched, mark, failed, faults>>

\* The photo is gone, or the request fails - though it may have been served.
UploadFail(i) ==
    /\ NextUp(i)
    /\ \/ ~There(i.photo) /\ UNCHANGED <<cloud, faults>>
       \/ /\ There(i.photo) /\ faults < MaxFaults
          /\ faults' = faults + 1
          /\ cloud' \in {cloud, cloud \cup {[photo |-> i.photo, ver |-> shelf[i.photo].ver]}}
    /\ Tried(i, FALSE)
    /\ UNCHANGED <<now, shelf, touched, mark, failed>>

\* The watermark is written only if it moved, with the failures.
Commit ==
    /\ run.active /\ run.todo = {}
    /\ LET next == nextWatermark(run.since, run.attempts)
       IN mark' = IF next # run.since THEN next ELSE mark
    /\ failed' = rememberFailures(failed, run.attempts)
    /\ run' = NoRun
    /\ UNCHANGED <<now, shelf, touched, cloud, faults>>

\* The process is killed: nothing of the run is written.
Killed ==
    /\ run.active /\ faults < MaxFaults
    /\ run' = NoRun
    /\ faults' = faults + 1
    /\ UNCHANGED <<now, shelf, touched, mark, failed, cloud>>

-----------------------------------------------------------------------------
Camera == Tick \/ \E p \in Photo : Shoot(p) \/ Adjust(p) \/ Trash(p)
Worker == Begin \/ Commit \/ \E i \in run.todo : Upload(i)

Next == Camera \/ Worker \/ Killed \/ \E i \in run.todo : UploadFail(i)

Spec == Init /\ [][Next]_vars

\* The work is periodic, and a run that is not killed goes on: no upload takes
\* forever and none fails more often than MaxFaults allows.
FairSpec == Spec /\ WF_vars(Worker \/ \E i \in run.todo : UploadFail(i))

-----------------------------------------------------------------------------
(* Properties                                                                *)

\* Every variable holds a value of its kind.
TypeOK ==
    /\ now \in 0..(MaxSecond * Sec)
    /\ shelf \in [Photo -> Row] /\ touched \in 0..Second(now)
    /\ mark \in 0..now
    /\ failed \in Seq(Photo) /\ Len(failed) <= Limit
    /\ run \in Run
    /\ cloud \subseteq [photo : Photo, ver : Nat \ {0}]
    /\ faults \in 0..MaxFaults

\* "Advancing past a failed photo would permanently skip it": whatever failed,
\* died or was edited during a run, a photo whose content the drive has not
\* received is one the next query returns.
NoPhotoSkipped ==
    \A p \in Photo : There(p) /\ ~Stored(p) => isNewerThan(Since, shelf[p])

\* A photo on the failure list is still going to be retried, unless the user
\* has deleted it: the list never shows a failure that is not outstanding.
FailuresRetried ==
    \A i \in DOMAIN failed : There(failed[i]) => isNewerThan(Since, shelf[failed[i]])

\* After a run without a failure none of its photos is queried again, but those
\* edited meanwhile: seconds and milliseconds do not disagree about what is new.
CleanRunSettles ==
    [][Commit /\ (\A k \in DOMAIN run.attempts : run.attempts[k].uploaded) =>
         \A i \in run.seen : shelf[i.photo].ver = i.ver => ~isNewerThan(mark', shelf[i.photo])]_vars

\* Every photo that stays gets to the drive, failures and dead runs or not.
BackedUp ==
    \A p \in Photo : (There(p) /\ ~Stored(p)) ~> (~There(p) \/ Stored(p))
=============================================================================
