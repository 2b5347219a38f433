---------------------------- MODULE PhotoBackupProofs ----------------------------
(***************************************************************************)
(* Theorems about PhotoBackup, for any photos, units of time, lifetimes,   *)
(* limits and bounds.                                                      *)
(***************************************************************************)
EXTENDS PhotoBackup, WellFoundedInduction, TLAPS

\* The rows of photos that are there: a photo is modified no earlier than it was
\* added, in the second of a change, and was taken in the second it was added, if
\* it says.
DatedBy(r, second, tick) ==
    /\ 0 < r.added /\ r.added <= r.modified /\ r.modified <= second
    /\ Second(r.taken) <= r.added /\ r.taken <= tick
    /\ r.ver # 0

Dated(r) == DatedBy(r, touched, now)

Dates == /\ 2 * Sec <= now
         /\ \A p \in Photo : shelf[p] = NoPhoto \/ shelf[p] = Gone \/ Dated(shelf[p])

\* What a query saw of a photo that has not been edited since.
Unchanged(i) == There(i.photo) /\ shelf[i.photo].ver = i.ver

\* A query's photos are newer than the watermark it used and dated as they were;
\* ids are not used again.
Seen == \A i \in run.seen :
    /\ run.since < i.ts /\ i.ts <= now
    /\ i.ver # 0 /\ shelf[i.photo] # NoPhoto
    /\ There(i.photo) => i.ver <= shelf[i.photo].ver
    /\ Unchanged(i) => i.ts = timestampMs(shelf[i.photo])

\* Every photo of the run is still to be tried or was tried.
Attempts ==
    /\ run.todo \subseteq run.seen
    /\ \A k \in DOMAIN run.attempts : \E i \in run.seen \ run.todo :
         run.attempts[k].photo = i.photo /\ run.attempts[k].ts = i.ts
    /\ \A i \in run.seen \ run.todo : \E k \in DOMAIN run.attempts :
         run.attempts[k].photo = i.photo /\ run.attempts[k].ts = i.ts

Running == run.active =>
    /\ run.seen # {} /\ run.since <= now
    /\ mark # 0 => run.since = mark
    /\ Seen /\ Attempts

IInv == TypeOK /\ Dates /\ Running

-----------------------------------------------------------------------------
\* With no two changes within a second and a watermark set:

\* photos are modified in seconds of their own, and the watermark is not ahead of
\* them, ...
Apart ==
    /\ 0 < mark
    /\ mark = Sec \/ Second(mark) <= touched
    /\ \A p, q \in Photo : There(p) /\ There(q) /\ p # q => shelf[p].modified # shelf[q].modified

\* ... a photo changed after the query is later than all of it, ...
Later(p) == \A i \in run.seen : Second(i.ts) < shelf[p].modified

\* ... uploads are ordered by seconds, and what was uploaded is stored unless it
\* has been edited since; ...
Ordered ==
    /\ \A i, j \in run.seen : i # j => i.photo # j.photo /\ Second(i.ts) # Second(j.ts)
    /\ \A k, l \in DOMAIN run.attempts : k < l =>
         /\ run.attempts[k].photo # run.attempts[l].photo
         /\ run.attempts[k].ts <= run.attempts[l].ts
    /\ \A k \in DOMAIN run.attempts, i \in run.todo : run.attempts[k].ts <= i.ts
    /\ \A k \in DOMAIN run.attempts, i \in run.seen :
         run.attempts[k].photo = i.photo /\ run.attempts[k].uploaded /\ Unchanged(i) => Stored(i.photo)

\* ... and the run has, or the next query will have, whatever is not stored and
\* whatever failed.
Covered ==
    /\ \A i \in run.seen :
         /\ Second(i.ts) <= touched
         /\ There(i.photo) =>
              /\ isNewerThan(run.since, shelf[i.photo])
              /\ Unchanged(i) \/ Later(i.photo)
    /\ \A p \in Photo : There(p) /\ ~Stored(p) => Later(p) \/ \E i \in run.seen : i.photo = p
    /\ \A n \in DOMAIN failed : There(failed[n]) => \E i \in run.seen : i.photo = failed[n]

Outstanding ==
    /\ \A p \in Photo : There(p) /\ ~Stored(p) => isNewerThan(mark, shelf[p])
    /\ \A n \in DOMAIN failed :
         /\ shelf[failed[n]] # NoPhoto
         /\ There(failed[n]) => isNewerThan(mark, shelf[failed[n]])

Kept == Apart /\ Outstanding /\ (run.active => Ordered /\ Covered)

-----------------------------------------------------------------------------
(* Numbers                                                                   *)

\* The least-number principle, from the library's well-foundedness of <; with it
\* a statement about every prefix of a sequence is proved by its least exception.
LEMMA Least ==
    ASSUME NEW T \in SUBSET Nat, T # {}
    PROVE  \E m \in T : \A n \in T : m <= n
  <1>1. IsWellFoundedOn(OpToRel(<, Nat), Nat)
      BY NatLessThanWellFounded
  <1>2. PICK m \in T : \A n \in T : ~(<<n, m>> \in OpToRel(<, Nat))
      BY <1>1, WFMin
  <1>3. \A n \in T : ~(n < m)
      BY <1>2 DEF OpToRel
  <1> QED
      BY <1>3

\* A bounded set of numbers has a maximum.
LEMMA MaxFacts ==
    ASSUME NEW S \in SUBSET Nat, S # {}, NEW b \in Nat, \A x \in S : x <= b
    PROVE  Max(S) \in S /\ \A x \in S : x <= Max(S)
  <1> DEFINE T == {n \in Nat : \A x \in S : x <= n}
  <1>1. PICK m \in T : \A n \in T : m <= n
    <2>1. b \in T /\ T \in SUBSET Nat
        OBVIOUS
    <2> HIDE DEF T
    <2> QED
        BY <2>1, Least
  <1>2. m \in S
    <2> SUFFICES ASSUME m \notin S PROVE FALSE
        OBVIOUS
    <2>1. \A x \in S : x <= m - 1
        OBVIOUS
    <2>2. m - 1 \in Nat
      <3>1. PICK x \in S : x <= m - 1
          BY <2>1
      <3> QED
          BY <3>1
    <2> QED
        BY <1>1, <2>1, <2>2
  <1>3. \E x \in S : \A y \in S : x >= y
      BY <1>2
  <1>4. Max(S) \in S /\ \A y \in S : Max(S) >= y
      BY <1>3, Zenon DEF Max
  <1> QED
      BY <1>4

LEMMA Units ==
    /\ Sec \in Nat \ {0} /\ 2 * Sec \in Nat /\ MaxSecond * Sec \in Nat
    /\ Sec <= 2 * Sec /\ 2 * Sec <= MaxSecond * Sec
  BY PhotoUnitAssumption, PhotoBoundAssumption DEF PhotoUnitAssumption, PhotoBoundAssumption

LEMMA MultipleMono ==
    ASSUME NEW a \in Nat, NEW b \in Nat, a <= b
    PROVE  a * Sec \in Nat /\ b * Sec \in Nat /\ a * Sec <= b * Sec
  BY Units

LEMMA SecondFacts ==
    ASSUME NEW t \in Nat
    PROVE  Second(t) \in Nat /\ Second(t) * Sec <= t /\ t < (Second(t) + 1) * Sec
  BY Units DEF Second

LEMMA SecondMono ==
    ASSUME NEW a \in Nat, NEW b \in Nat, a <= b
    PROVE  Second(a) <= Second(b)
  <1> SUFFICES ASSUME Second(b) + 1 <= Second(a) PROVE FALSE
      BY SecondFacts
  <1>1. (Second(b) + 1) * Sec <= Second(a) * Sec
      BY SecondFacts, MultipleMono
  <1> QED
      BY <1>1, SecondFacts, Units

LEMMA SecondOfMultiple ==
    ASSUME NEW n \in Nat
    PROVE  n * Sec \in Nat /\ Second(n * Sec) = n
  BY Units DEF Second

-----------------------------------------------------------------------------
(* The rules of PhotoBackup.kt                                               *)

\* A photo's date lies in the second it was modified in, and not in the future.
LEMMA StampFacts ==
    ASSUME NEW r \in Row, Dated(r), now \in Nat, touched \in 0..Second(now)
    PROVE  /\ timestampMs(r) \in Nat /\ r.taken <= timestampMs(r) /\ timestampMs(r) <= now
           /\ Second(timestampMs(r)) = r.modified
  <1> DEFINE S == {r.taken, r.added * Sec, r.modified * Sec}
  <1>1. r.added \in Nat /\ r.modified \in Nat /\ r.taken \in Nat /\ Second(now) \in Nat
      BY SecondFacts DEF Row
  <1>2. /\ r.added * Sec \in Nat /\ r.modified * Sec \in Nat
        /\ r.added * Sec <= r.modified * Sec
      BY <1>1, MultipleMono DEF Dated, DatedBy
  <1>3. r.modified * Sec <= now
    <2>1. r.modified <= Second(now)
        BY <1>1 DEF Dated, DatedBy
    <2> QED
        BY <2>1, <1>1, <1>2, MultipleMono, SecondFacts
  <1>4. \A x \in S : x <= now
      BY <1>1, <1>2, <1>3 DEF Dated, DatedBy
  <1>5. Max(S) \in S /\ \A x \in S : x <= Max(S)
      BY <1>1, <1>2, <1>4, MaxFacts
  <1>6. timestampMs(r) = Max(S)
      BY DEF timestampMs
  <1> HIDE DEF S
  <1>7. timestampMs(r) \in Nat /\ r.taken <= timestampMs(r) /\ timestampMs(r) <= now
        /\ r.modified * Sec <= timestampMs(r)
      BY <1>1, <1>2, <1>4, <1>5, <1>6 DEF S
  <1>8. Second(timestampMs(r)) >= r.modified
      BY <1>1, <1>2, <1>7, SecondMono, SecondOfMultiple
  <1>9. /\ Second(r.taken) <= r.added /\ Second(r.added * Sec) = r.added
        /\ Second(r.modified * Sec) = r.modified /\ r.added <= r.modified
        /\ Second(r.taken) \in Nat
      BY <1>1, SecondOfMultiple, SecondFacts DEF Dated, DatedBy
  <1>10. Second(timestampMs(r)) <= r.modified
      BY <1>1, <1>5, <1>6, <1>9 DEF S
  <1>11. Second(timestampMs(r)) \in Nat
      BY <1>7, SecondFacts
  <1> QED
      BY <1>1, <1>7, <1>8, <1>10, <1>11

\* Nothing dated up to the watermark is new: seconds and ticks agree.
LEMMA NotNewer ==
    ASSUME NEW r \in Row, Dated(r), now \in Nat, touched \in 0..Second(now),
           NEW since \in Nat, timestampMs(r) <= since
    PROVE  ~isNewerThan(since, r)
  <1>1. r.added \in Nat /\ r.modified \in Nat /\ r.taken \in Nat
      BY DEF Row
  <1>2. /\ timestampMs(r) \in Nat /\ r.taken <= timestampMs(r)
        /\ Second(timestampMs(r)) = r.modified
      BY StampFacts
  <1>3. r.modified <= Second(since) /\ Second(since) \in Nat
      BY <1>2, SecondMono, SecondFacts
  <1> QED
      BY <1>1, <1>2, <1>3 DEF isNewerThan, Dated, DatedBy

\* The watermark never moves back, and moves to the date of an uploaded photo with
\* none before it that failed.
LEMMA WatermarkFacts ==
    ASSUME NEW attempts \in Seq(Attempt), NEW current \in Nat, NEW b \in Nat, current <= b,
           \A k \in DOMAIN attempts : attempts[k].ts <= b
    PROVE  LET w == nextWatermark(current, attempts)
               prefix == {j \in DOMAIN attempts : \A k \in 1..j : attempts[k].uploaded}
           IN /\ w \in Nat /\ current <= w /\ w <= b
              /\ w = current \/ \E j \in prefix : w = attempts[j].ts
              /\ \A j \in prefix : attempts[j].ts <= w
  <1> DEFINE prefix == {j \in DOMAIN attempts : \A k \in 1..j : attempts[k].uploaded}
             S == {current} \cup {attempts[i].ts : i \in prefix}
  <1>1. \A k \in DOMAIN attempts : attempts[k].ts \in Nat
    <2>1. \A k \in DOMAIN attempts : attempts[k] \in Attempt
        OBVIOUS
    <2> QED
        BY <2>1 DEF Attempt
  <1>4. nextWatermark(current, attempts) = Max(S)
      BY DEF nextWatermark
  <1>0. prefix \subseteq DOMAIN attempts
      OBVIOUS
  <1> HIDE DEF prefix
  <1>2. S \in SUBSET Nat /\ S # {} /\ \A x \in S : x <= b
      BY <1>0, <1>1
  <1>3. Max(S) \in S /\ \A x \in S : x <= Max(S)
    <2> HIDE DEF S
    <2> QED
        BY <1>2, MaxFacts
  <1>5. current \in S /\ \A j \in prefix : attempts[j].ts \in S
      OBVIOUS
  <1>6. Max(S) = current \/ \E j \in prefix : Max(S) = attempts[j].ts
      BY <1>3
  <1> HIDE DEF S
  <1> QED
      BY <1>2, <1>3, <1>4, <1>5, <1>6 DEF prefix

\* What Among computes when it has looked at n members.
AmongUpTo(s, P, f, n) ==
    f = [i \in 0..n |-> IF i = 0 THEN <<>>
                        ELSE IF s[i] \in P THEN Append(f[i - 1], s[i]) ELSE f[i - 1]]

LEMMA AmongExists ==
    ASSUME NEW S, NEW P, NEW s \in Seq(S)
    PROVE  \A n \in 0..Len(s) : \E f : AmongUpTo(s, P, f, n)
  <1> DEFINE T == {n \in 0..Len(s) : ~\E f : AmongUpTo(s, P, f, n)}
  <1> SUFFICES ASSUME T # {} PROVE FALSE
      OBVIOUS
  <1>1. PICK m \in T : \A n \in T : m <= n
    <2>1. T \in SUBSET Nat
        OBVIOUS
    <2> HIDE DEF T
    <2> QED
        BY <2>1, Least
  <1>2. CASE m = 0
    <2> DEFINE f == [i \in 0..0 |-> <<>>]
    <2>1. AmongUpTo(s, P, f, 0)
        BY DEF AmongUpTo
    <2> QED
        BY <1>2, <2>1
  <1>3. CASE m # 0
    <2>1. m - 1 \in 0..Len(s) /\ m - 1 \notin T /\ m \in 1..Len(s)
        BY <1>1, <1>3
    <2>2. PICK g : AmongUpTo(s, P, g, m - 1)
        BY <2>1
    <2> DEFINE v == IF s[m] \in P THEN Append(g[m - 1], s[m]) ELSE g[m - 1]
               f == [i \in 0..m |-> IF i = m THEN v ELSE g[i]]
               h == [i \in 0..m |-> IF i = 0 THEN <<>>
                        ELSE IF s[i] \in P THEN Append(f[i - 1], s[i]) ELSE f[i - 1]]
    <2>3. ASSUME NEW i \in 0..m PROVE f[i] = h[i]
      <3>1. CASE i = m
        <4>1. f[i - 1] = g[i - 1]
            BY <3>1, <2>1
        <4> QED
            BY <4>1, <3>1, <2>1
      <3>2. CASE i # m /\ i # 0
        <4>1. f[i - 1] = g[i - 1] /\ f[i] = g[i] /\ i \in 0..(m - 1)
            BY <3>2, <2>1
        <4> HIDE DEF f
        <4> QED
            BY <4>1, <3>2, <2>1, <2>2 DEF AmongUpTo
      <3>3. CASE i = 0 /\ i # m
        <4>1. f[i] = g[i] /\ 0 \in 0..(m - 1)
            BY <3>3, <2>1
        <4> HIDE DEF f
        <4> QED
            BY <4>1, <3>3, <2>2 DEF AmongUpTo
      <3> QED
          BY <3>1, <3>2, <3>3
    <2>4. f = h
        BY <2>3
    <2>5. AmongUpTo(s, P, f, m)
        BY <2>4 DEF AmongUpTo
    <2> QED
        BY <2>5
  <1> QED
      BY <1>2, <1>3

LEMMA AmongUpToType ==
    ASSUME NEW S, NEW P, NEW s \in Seq(S), NEW f, AmongUpTo(s, P, f, Len(s))
    PROVE  \A n \in 0..Len(s) : f[n] \in Seq(S \cap P)
  <1> DEFINE T == {n \in 0..Len(s) : f[n] \notin Seq(S \cap P)}
  <1> SUFFICES ASSUME T # {} PROVE FALSE
      OBVIOUS
  <1>1. PICK m \in T : \A n \in T : m <= n
    <2>1. T \in SUBSET Nat
        OBVIOUS
    <2> HIDE DEF T
    <2> QED
        BY <2>1, Least
  <1>2. \A n \in 0..Len(s) : f[n] = IF n = 0 THEN <<>>
                        ELSE IF s[n] \in P THEN Append(f[n - 1], s[n]) ELSE f[n - 1]
      BY DEF AmongUpTo
  <1>3. CASE m = 0
    <2>1. f[m] = <<>>
        BY <1>1, <1>2, <1>3
    <2>2. <<>> \in Seq(S \cap P)
        OBVIOUS
    <2> QED
        BY <1>1, <2>1, <2>2
  <1>4. CASE m # 0
    <2>1. m \in 1..Len(s) /\ m - 1 \in 0..Len(s) /\ f[m - 1] \in Seq(S \cap P)
        BY <1>1, <1>4
    <2>2. f[m] = IF s[m] \in P THEN Append(f[m - 1], s[m]) ELSE f[m - 1]
        BY <1>2, <2>1
    <2>3. s[m] \in S
        BY <2>1
    <2>4. f[m] \in Seq(S \cap P)
        BY <2>1, <2>2, <2>3
    <2> QED
        BY <1>1, <2>4
  <1> QED
      BY <1>3, <1>4

\* What is picked out is of the sequence and of the set.
LEMMA AmongType ==
    ASSUME NEW S, NEW P, NEW s \in Seq(S)
    PROVE  Among(s, P) \in Seq(S \cap P)
  <1> DEFINE F == CHOOSE g : AmongUpTo(s, P, g, Len(s))
  <1>1. Among(s, P) = F[Len(s)]
    <2> DEFINE f[i \in 0..Len(s)] == IF i = 0 THEN <<>>
                                     ELSE IF s[i] \in P THEN Append(f[i - 1], s[i]) ELSE f[i - 1]
    <2>1. Among(s, P) = f[Len(s)]
        BY DEF Among
    <2>2. f = CHOOSE g : AmongUpTo(s, P, g, Len(s))
        BY DEF AmongUpTo
    <2> QED
        BY <2>1, <2>2
  <1>2. Len(s) \in 0..Len(s)
      OBVIOUS
  <1>3. \E g : AmongUpTo(s, P, g, Len(s))
      BY <1>2, AmongExists
  <1>4. AmongUpTo(s, P, F, Len(s))
      BY <1>3, Zenon
  <1> HIDE DEF F
  <1> QED
      BY <1>1, <1>2, <1>4, AmongUpToType

LEMMA ReverseType ==
    ASSUME NEW S, NEW s \in Seq(S)
    PROVE  Reverse(s) \in Seq(S)
  <1>1. Len(s) \in Nat /\ \A i \in 1..Len(s) : s[Len(s) - i + 1] \in S
      OBVIOUS
  <1> QED
      BY <1>1 DEF Reverse

\* The list stays within its limit, and names photos that failed in this run, or
\* that were on it before and were not tried.
LEMMA FailureFacts ==
    ASSUME NEW previous \in Seq(Photo), NEW attempts \in Seq(Attempt)
    PROVE  LET list == rememberFailures(previous, attempts)
           IN /\ list \in Seq(Photo) /\ Len(list) <= Limit
              /\ \A n \in DOMAIN list :
                   \/ \E k \in DOMAIN attempts : /\ list[n] = attempts[k].photo
                                                 /\ ~attempts[k].uploaded
                   \/ /\ \E m \in DOMAIN previous : list[n] = previous[m]
                      /\ \A k \in DOMAIN attempts : list[n] # attempts[k].photo
  <1> DEFINE A == {attempts[k] : k \in DOMAIN attempts}
             B == {previous[k] : k \in DOMAIN previous}
             bad == {a \in A : ~a.uploaded}
             old == B \ TriedPhotos(attempts)
             failures == Failures(attempts)
             kept == Among(previous, Photo \ TriedPhotos(attempts))
             incoming == Reverse([i \in DOMAIN failures |-> failures[i].photo])
             all == incoming \o kept
             P == {a.photo : a \in bad} \cup old
  <1>1. A \subseteq Attempt /\ B \subseteq Photo
      OBVIOUS
  <1>2. attempts \in Seq(A) /\ previous \in Seq(B)
      OBVIOUS
  <1>3. failures \in Seq(bad)
    <2>1. failures \in Seq(A \cap {a \in Attempt : ~a.uploaded})
        BY <1>2, AmongType DEF Failures
    <2>2. A \cap {a \in Attempt : ~a.uploaded} = bad
        BY <1>1
    <2> QED
        BY <2>1, <2>2
  <1>4. kept \in Seq(old)
    <2>1. kept \in Seq(B \cap (Photo \ TriedPhotos(attempts)))
        BY <1>2, AmongType
    <2>2. B \cap (Photo \ TriedPhotos(attempts)) = old
        BY <1>1
    <2> QED
        BY <2>1, <2>2
  <1> HIDE DEF failures, kept, bad, old
  <1>5. incoming \in Seq({a.photo : a \in bad})
    <2> DEFINE photos == [i \in DOMAIN failures |-> failures[i].photo]
    <2>1. photos \in Seq({a.photo : a \in bad})
        BY <1>3
    <2>2. incoming = Reverse(photos)
        OBVIOUS
    <2> HIDE DEF photos, incoming
    <2>3. Reverse(photos) \in Seq({a.photo : a \in bad})
        BY <2>1, ReverseType
    <2> QED
        BY <2>2, <2>3
  <1> HIDE DEF incoming
  <1>6. all \in Seq(P)
      BY <1>4, <1>5
  <1> HIDE DEF all
  <1>7. rememberFailures(previous, attempts)
          = SubSeq(all, 1, IF Len(all) < Limit THEN Len(all) ELSE Limit)
      BY DEF rememberFailures, all, incoming, failures, kept
  <1>8. /\ rememberFailures(previous, attempts) \in Seq(P)
        /\ Len(rememberFailures(previous, attempts)) <= Limit
    <2> DEFINE n == IF Len(all) < Limit THEN Len(all) ELSE Limit
    <2>1. Len(all) \in Nat /\ Limit \in Nat
        BY <1>6, PhotoUnitAssumption DEF PhotoUnitAssumption
    <2>2. n \in Nat /\ n <= Limit /\ n <= Len(all)
        BY <2>1
    <2>3. rememberFailures(previous, attempts) = SubSeq(all, 1, n)
        BY <1>7
    <2> HIDE DEF n
    <2>4. SubSeq(all, 1, n) \in Seq(P) /\ Len(SubSeq(all, 1, n)) = n
        BY <1>6, <2>1, <2>2
    <2> QED
        BY <2>2, <2>3, <2>4
  <1>9. \A p \in P : \/ \E k \in DOMAIN attempts : p = attempts[k].photo /\ ~attempts[k].uploaded
                     \/ /\ \E m \in DOMAIN previous : p = previous[m]
                        /\ \A k \in DOMAIN attempts : p # attempts[k].photo
      BY DEF bad, old, TriedPhotos
  <1>10. P \subseteq Photo
      BY <1>1 DEF bad, old, Attempt
  <1> HIDE DEF P
  <1> QED
      BY <1>8, <1>9, <1>10

-----------------------------------------------------------------------------
(* The invariant of every phone                                              *)

LEMMA RowFacts ==
    /\ NoPhoto \in Row /\ Gone \in Row /\ Gone # NoPhoto
    /\ NoPhoto.added = 0 /\ Gone.added = 0 /\ NoPhoto.ver = 0
    /\ Gone.modified = 0 /\ Gone.taken = 0
    /\ NoRun \in Run /\ ~NoRun.active
  <1>1. /\ NoPhoto \in Row /\ NoPhoto.added = 0 /\ NoPhoto.ver = 0
        /\ NoPhoto.modified = 0 /\ NoPhoto.taken = 0
      BY DEF NoPhoto, Row
  <1>2. Gone \in Row /\ Gone.added = 0 /\ Gone.ver = 1 /\ Gone.modified = 0 /\ Gone.taken = 0
      BY <1>1 DEF Gone, Row
  <1>3. NoRun \in Run /\ ~NoRun.active
      BY DEF NoRun, Run
  <1> QED
      BY <1>1, <1>2, <1>3

LEMMA TypeFacts ==
    ASSUME TypeOK
    PROVE  /\ now \in Nat /\ mark \in Nat /\ mark <= now
           /\ touched \in 0..Second(now) /\ touched \in Nat /\ Second(now) \in Nat
           /\ \A p \in Photo : shelf[p] \in Row
           /\ run.since \in Nat /\ run.todo \subseteq Item /\ run.seen \subseteq Item
           /\ run.attempts \in Seq(Attempt) /\ run.active \in BOOLEAN
           /\ faults \in Nat
  <1>1. now \in Nat /\ mark \in Nat /\ mark <= now /\ faults \in Nat
      BY Units, PhotoBoundAssumption DEF PhotoBoundAssumption, TypeOK
  <1>2. run \in Run /\ shelf \in [Photo -> Row] /\ touched \in 0..Second(now)
      BY DEF TypeOK
  <1>3. Second(now) \in Nat
      BY <1>1, SecondFacts
  <1> QED
      BY <1>1, <1>2, <1>3 DEF Run

LEMMA SinceFacts ==
    ASSUME TypeOK
    PROVE  Since \in Nat /\ Since <= now /\ (mark # 0 => Since = mark)
  BY TypeFacts, PhotoUnitAssumption DEF PhotoUnitAssumption, Since

LEMMA ThereIsDated ==
    ASSUME Dates, NEW p \in Photo, There(p)
    PROVE  Dated(shelf[p])
  BY RowFacts DEF Dates, There

LEMMA InitIInv == Init => IInv
  <1> SUFFICES ASSUME Init PROVE IInv
      OBVIOUS
  <1>1. now = 2 * Sec /\ now \in Nat /\ now <= MaxSecond * Sec /\ MaxSecond * Sec \in Nat
      BY Units DEF Init
  <1>2. mark \in 0..now
      BY Units, <1>1 DEF Init
  <1>3. TypeOK
    <2>1. shelf \in [Photo -> Row] /\ run \in Run
        BY RowFacts DEF Init
    <2>2. touched \in 0..Second(now)
        BY <1>1, SecondFacts DEF Init
    <2>3. failed \in Seq(Photo) /\ Len(failed) <= Limit
        BY PhotoUnitAssumption DEF PhotoUnitAssumption, Init
    <2>4. faults \in 0..MaxFaults /\ cloud \subseteq [photo : Photo, ver : Nat \ {0}]
        BY PhotoBoundAssumption DEF PhotoBoundAssumption, Init
    <2> QED
        BY <1>1, <1>2, <2>1, <2>2, <2>3, <2>4 DEF TypeOK
  <1>4. Dates
      BY <1>1 DEF Init, Dates
  <1>5. Running
      BY RowFacts DEF Init, Running
  <1> QED
      BY <1>3, <1>4, <1>5 DEF IInv

\* The clock.
LEMMA TickKeeps ==
    ASSUME IInv, Tick
    PROVE  IInv'
  <1>1. UNCHANGED <<shelf, touched, mark, failed, run, cloud, faults>> /\ now' = now + 1
        /\ now < MaxSecond * Sec
      BY DEF Tick
  <1>2. now \in Nat /\ now' \in Nat /\ now <= now'
      BY <1>1, TypeFacts DEF IInv
  <1>3. Second(now) <= Second(now') /\ Second(now') \in Nat /\ Second(now) \in Nat
      BY <1>2, SecondMono, SecondFacts
  <1>4. TypeOK'
    <2>1. touched' \in 0..Second(now')
        BY <1>1, <1>3, TypeFacts DEF IInv
    <2>2. Second(now)' = Second(now')
        BY DEF Second
    <2>3. now' \in 0..(MaxSecond * Sec) /\ mark' \in 0..now'
        BY <1>1, <1>2, Units, TypeFacts DEF IInv
    <2> QED
        BY <1>1, <2>1, <2>2, <2>3 DEF IInv, TypeOK
  <1>5. Dates'
    <2>1. 2 * Sec <= now'
        BY <1>1, <1>2, Units DEF IInv, Dates
    <2>2. ASSUME NEW r \in Row, Dated(r) PROVE Dated(r)'
        BY <1>1, <1>2, <2>2 DEF Dated, DatedBy, Second, Row
    <2> QED
        BY <1>1, <2>1, <2>2, TypeFacts DEF IInv, Dates
  <1>6. Running'
    <2>1. \A i \in run.seen : i.ts \in Nat /\ run.since \in Nat
        BY TypeFacts DEF IInv, Item
    <2>2. run.active => Seen'
        BY <1>1, <1>2, <2>1 DEF IInv, Running, Seen, Unchanged, There, timestampMs
    <2> QED
        BY <1>1, <1>2, <2>2, TypeFacts DEF IInv, Running, Attempts
  <1> QED
      BY <1>4, <1>5, <1>6 DEF IInv

\* The camera and the user.  A photo's row is new, or newer, or gone for good.
LEMMA ShelfChange ==
    ASSUME IInv, NEW p \in Photo, NEW row \in Row, shelf' = [shelf EXCEPT ![p] = row],
           touched' \in {touched, Second(now)}, UNCHANGED <<now, mark, failed, run, cloud, faults>>,
           row = Gone \/ DatedBy(row, touched', now'),
           row = Gone \/ shelf[p] = NoPhoto \/ (There(p) /\ shelf[p].ver < row.ver)
    PROVE  IInv'
  <1>1. /\ touched \in Nat /\ touched' \in Nat /\ touched <= touched' /\ touched' <= Second(now)
        /\ Second(now) \in Nat
      BY TypeFacts DEF IInv
  <1>2. \A q \in Photo : shelf'[q] = IF q = p THEN row ELSE shelf[q]
      BY DEF IInv, TypeOK
  <1>3. TypeOK'
    <2>1. touched' \in 0..Second(now) /\ Second(now)' = Second(now)
        BY <1>1 DEF Second
    <2> QED
        BY <2>1 DEF IInv, TypeOK
  <1>4. Dates'
    <2>1. ASSUME NEW r \in Row, Dated(r) PROVE Dated(r)'
        BY <1>1, <2>1 DEF Dated, DatedBy, Second, Row
    <2> QED
        BY <1>2, <2>1, TypeFacts DEF IInv, Dates, Dated
  <1>5. row # NoPhoto
      BY RowFacts DEF Dated, DatedBy
  <1>6. ASSUME run.active PROVE Seen'
    <2> SUFFICES ASSUME NEW i \in run.seen
                 PROVE  /\ run.since < i.ts /\ i.ts <= now /\ i.ver # 0
                        /\ shelf'[i.photo] # NoPhoto
                        /\ There(i.photo)' => i.ver <= shelf'[i.photo].ver
                        /\ Unchanged(i)' => i.ts = timestampMs(shelf'[i.photo])
        BY DEF Seen, timestampMs
    <2>1. i.photo \in Photo /\ i.ver \in Nat
        BY TypeFacts DEF IInv, Item
    <2>2. /\ run.since < i.ts /\ i.ts <= now /\ i.ver # 0 /\ shelf[i.photo] # NoPhoto
          /\ There(i.photo) => i.ver <= shelf[i.photo].ver
          /\ Unchanged(i) => i.ts = timestampMs(shelf[i.photo])
        BY <1>6 DEF IInv, Running, Seen
    <2>3. CASE i.photo # p
        BY <2>1, <2>2, <2>3, <1>2 DEF There, Unchanged
    <2>4. CASE i.photo = p /\ row = Gone
        BY <2>1, <2>2, <2>4, <1>2, <1>5, RowFacts DEF There, Unchanged
    <2>5. CASE i.photo = p /\ row # Gone
      <3>1. shelf[p] \in Row /\ shelf[p].ver < row.ver /\ shelf[p].ver \in Nat /\ row.ver \in Nat
          BY <2>2, <2>5, TypeFacts DEF IInv, Row
      <3>2. There(p)
          BY <2>2, <2>5
      <3> QED
          BY <2>1, <2>2, <2>5, <3>1, <3>2, <1>2, <1>5 DEF Unchanged, There
    <2> QED
        BY <2>3, <2>4, <2>5
  <1>7. Running'
      BY <1>6 DEF IInv, Running, Attempts
  <1> QED
      BY <1>3, <1>4, <1>7 DEF IInv

LEMMA ShootKeeps ==
    ASSUME IInv, NEW p \in Photo, Shoot(p)
    PROVE  IInv'
  <1>1. PICK taken \in {0, now} :
          Change(p, [added |-> Second(now), modified |-> Second(now), taken |-> taken, ver |-> 1])
      BY DEF Shoot
  <1> DEFINE row == [added |-> Second(now), modified |-> Second(now), taken |-> taken, ver |-> 1]
  <1>2. now \in Nat /\ Second(now) \in Nat /\ taken \in Nat /\ taken <= now
      BY TypeFacts DEF IInv
  <1>3. row \in Row
      BY <1>2 DEF Row
  <1>4. 2 <= Second(now)
    <2>1. Second(2 * Sec) = 2 /\ 2 * Sec \in Nat
        BY SecondOfMultiple
    <2> QED
        BY <1>2, <2>1, SecondMono DEF IInv, Dates
  <1>5. Second(taken) <= Second(now)
      BY <1>2, SecondMono
  <1>6. touched' = Second(now) /\ now' = now
      BY <1>1 DEF Change
  <1>7. DatedBy(row, touched', now')
      BY <1>2, <1>4, <1>5, <1>6 DEF Dated, DatedBy, Second
  <1>8. shelf' = [shelf EXCEPT ![p] = row]
        /\ UNCHANGED <<now, mark, failed, run, cloud, faults>>
      BY <1>1 DEF Change
  <1>9. shelf[p] = NoPhoto
      BY DEF Shoot
  <1> HIDE DEF row
  <1> QED
      BY <1>3, <1>6, <1>7, <1>8, <1>9, ShelfChange

LEMMA AdjustKeeps ==
    ASSUME IInv, NEW p \in Photo, Adjust(p)
    PROVE  IInv'
  <1> DEFINE row == [shelf[p] EXCEPT !.modified = Second(now), !.ver = shelf[p].ver + 1]
  <1>1. /\ There(p) /\ shelf' = [shelf EXCEPT ![p] = row] /\ touched' = Second(now)
        /\ UNCHANGED <<now, mark, failed, run, cloud, faults>>
      BY DEF Adjust, Change
  <1>2. shelf[p] \in Row /\ Dated(shelf[p]) /\ now \in Nat /\ Second(now) \in Nat
        /\ touched <= Second(now) /\ touched \in Nat
      BY <1>1, TypeFacts, ThereIsDated DEF IInv
  <1>3. /\ shelf[p].added \in Nat /\ shelf[p].modified \in Nat /\ shelf[p].ver \in Nat
        /\ shelf[p].ver + 1 \in Nat
      BY <1>2 DEF Row
  <1>5. /\ row \in Row /\ row.added = shelf[p].added /\ row.modified = Second(now)
        /\ row.taken = shelf[p].taken /\ row.ver = shelf[p].ver + 1
    <2> DEFINE m == Second(now)
               v == shelf[p].ver + 1
               r == shelf[p]
    <2>1. m \in Nat /\ v \in Nat /\ r \in Row
        BY <1>2, <1>3
    <2> HIDE DEF m, v, r
    <2>2. LET u == [r EXCEPT !.modified = m, !.ver = v]
          IN u \in Row /\ u.added = r.added /\ u.modified = m /\ u.taken = r.taken /\ u.ver = v
        BY <2>1 DEF Row
    <2> QED
        BY <2>2 DEF m, v, r
  <1> HIDE DEF row
  <1>4. DatedBy(row, touched', now')
      BY <1>1, <1>2, <1>3, <1>5 DEF Dated, DatedBy
  <1>6. row \in Row /\ shelf[p].ver < row.ver
      BY <1>3, <1>5
  <1> QED
      BY <1>1, <1>4, <1>6, ShelfChange

LEMMA TrashKeeps ==
    ASSUME IInv, NEW p \in Photo, Trash(p)
    PROVE  IInv'
  BY RowFacts, ShelfChange DEF Trash

\* What a query returns.
LEMMA QueryFacts ==
    ASSUME IInv
    PROVE  /\ queryNewImages \subseteq Item
           /\ \A i \in queryNewImages :
                /\ There(i.photo) /\ isNewerThan(Since, shelf[i.photo])
                /\ i.ver = shelf[i.photo].ver /\ i.ts = timestampMs(shelf[i.photo])
                /\ i.ver # 0 /\ Since < i.ts /\ i.ts <= now
           /\ \A p \in Photo : There(p) /\ isNewerThan(Since, shelf[p]) =>
                \E i \in queryNewImages : i.photo = p
  <1>1. ASSUME NEW p \in Photo, There(p), isNewerThan(Since, shelf[p])
        PROVE  /\ timestampMs(shelf[p]) \in Nat /\ shelf[p].ver \in Nat \ {0}
               /\ Since < timestampMs(shelf[p]) /\ timestampMs(shelf[p]) <= now
    <2>1. /\ shelf[p] \in Row /\ Dated(shelf[p]) /\ now \in Nat /\ touched \in 0..Second(now)
          /\ Since \in Nat
        BY <1>1, TypeFacts, ThereIsDated, SinceFacts DEF IInv
    <2>2. timestampMs(shelf[p]) \in Nat /\ timestampMs(shelf[p]) <= now
        BY <2>1, StampFacts
    <2>3. ~(timestampMs(shelf[p]) <= Since)
        BY <1>1, <2>1, NotNewer
    <2> QED
        BY <2>1, <2>2, <2>3 DEF Dated, DatedBy, Row
  <1>2. ASSUME NEW i \in queryNewImages
        PROVE  /\ i \in Item /\ There(i.photo) /\ isNewerThan(Since, shelf[i.photo])
               /\ i.ver = shelf[i.photo].ver /\ i.ts = timestampMs(shelf[i.photo])
               /\ i.ver # 0 /\ Since < i.ts /\ i.ts <= now
    <2>1. PICK p \in Photo : /\ There(p) /\ isNewerThan(Since, shelf[p])
                             /\ i = [photo |-> p, ts |-> timestampMs(shelf[p]), ver |-> shelf[p].ver]
        BY DEF queryNewImages
    <2> QED
        BY <2>1, <1>1 DEF Item
  <1>3. ASSUME NEW p \in Photo, There(p), isNewerThan(Since, shelf[p])
        PROVE  \E i \in queryNewImages : i.photo = p
    <2> DEFINE i == [photo |-> p, ts |-> timestampMs(shelf[p]), ver |-> shelf[p].ver]
    <2>1. i \in queryNewImages /\ i.photo = p
        BY <1>3 DEF queryNewImages
    <2> QED
        BY <2>1
  <1> QED
      BY <1>2, <1>3

LEMMA BeginKeeps ==
    ASSUME IInv, Begin
    PROVE  IInv'
  <1> DEFINE new == [active |-> TRUE, since |-> Since, todo |-> queryNewImages,
                     seen |-> queryNewImages, attempts |-> <<>>]
  <1>1. run' = new /\ UNCHANGED <<now, shelf, touched, mark, failed, cloud, faults>>
        /\ queryNewImages # {}
      BY DEF Begin
  <1>2. run' \in Run /\ run'.since = Since /\ run'.todo = queryNewImages
        /\ run'.seen = queryNewImages /\ run'.attempts = <<>>
      BY <1>1, QueryFacts, SinceFacts DEF IInv, Run
  <1> HIDE DEF new
  <1>3. TypeOK'
      BY <1>1, <1>2 DEF IInv, TypeOK, Second
  <1>4. Dates'
      BY <1>1 DEF IInv, Dates, Dated, DatedBy, Second
  <1>5. Seen'
    <2> SUFFICES ASSUME NEW i \in queryNewImages
                 PROVE  /\ Since < i.ts /\ i.ts <= now /\ i.ver # 0
                        /\ shelf[i.photo] # NoPhoto
                        /\ There(i.photo) => i.ver <= shelf[i.photo].ver
                        /\ Unchanged(i) => i.ts = timestampMs(shelf[i.photo])
        BY <1>1, <1>2 DEF Seen, There, Unchanged, timestampMs
    <2>1. i \in Item /\ There(i.photo) /\ i.ver = shelf[i.photo].ver
          /\ i.ts = timestampMs(shelf[i.photo]) /\ i.ver # 0 /\ Since < i.ts /\ i.ts <= now
        BY QueryFacts
    <2> QED
        BY <2>1, RowFacts DEF There, Item
  <1>6. Attempts'
      BY <1>2 DEF Attempts
  <1>7. Running'
      BY <1>1, <1>2, <1>5, <1>6, SinceFacts DEF IInv, Running
  <1> QED
      BY <1>3, <1>4, <1>7 DEF IInv

\* What an attempt does to the run.
LEMMA TriedFacts ==
    ASSUME TypeOK, NEW i \in run.todo, NEW ok \in BOOLEAN, Tried(i, ok)
    PROVE  LET a == [photo |-> i.photo, ts |-> i.ts, uploaded |-> ok]
           IN /\ a \in Attempt
              /\ run' \in Run /\ run'.active = run.active /\ run'.since = run.since
              /\ run'.seen = run.seen /\ run'.todo = run.todo \ {i}
              /\ run'.attempts = Append(run.attempts, a)
  <1> DEFINE a == [photo |-> i.photo, ts |-> i.ts, uploaded |-> ok]
  <1>1. i \in Item /\ run \in Run
      BY TypeFacts DEF TypeOK
  <1>2. a \in Attempt
      BY <1>1 DEF Item, Attempt
  <1>3. run' = [run EXCEPT !.todo = run.todo \ {i}, !.attempts = Append(run.attempts, a)]
      BY DEF Tried
  <1> HIDE DEF a
  <1>4. Append(run.attempts, a) \in Seq(Attempt) /\ run.todo \ {i} \in SUBSET Item
      BY <1>1, <1>2 DEF Run
  <1>5. /\ run' \in Run /\ run'.active = run.active /\ run'.since = run.since
        /\ run'.seen = run.seen /\ run'.todo = run.todo \ {i}
        /\ run'.attempts = Append(run.attempts, a)
      BY <1>1, <1>3, <1>4 DEF Run
  <1> QED
      BY <1>2, <1>5 DEF a

LEMMA TriedKeeps ==
    ASSUME IInv, run.active, NEW i \in run.todo, NEW ok \in BOOLEAN, Tried(i, ok),
           UNCHANGED <<now, shelf, touched, mark>>
    PROVE  run' \in Run /\ Dates' /\ Running'
  <1> DEFINE a == [photo |-> i.photo, ts |-> i.ts, uploaded |-> ok]
  <1>1. /\ run' \in Run /\ run'.active = run.active /\ run'.since = run.since
        /\ run'.seen = run.seen /\ run'.todo = run.todo \ {i}
        /\ run'.attempts = Append(run.attempts, a)
      BY TriedFacts DEF IInv
  <1>2. Dates'
      BY DEF IInv, Dates, Dated, DatedBy, Second
  <1>3. Seen'
      BY <1>1 DEF IInv, Running, Seen, There, Unchanged, timestampMs
  <1>4. Attempts'
    <2>1. a.photo = i.photo /\ a.ts = i.ts /\ run.attempts \in Seq(Attempt)
          /\ run.todo \subseteq run.seen
        BY TypeFacts DEF IInv, Running, Attempts
    <2> HIDE DEF a
    <2>2. /\ DOMAIN run'.attempts = 1..(Len(run.attempts) + 1)
          /\ run'.attempts[Len(run.attempts) + 1] = a
          /\ \A k \in DOMAIN run.attempts : k \in DOMAIN run'.attempts
                                            /\ run'.attempts[k] = run.attempts[k]
          /\ \A k \in DOMAIN run'.attempts : k \in DOMAIN run.attempts \/ k = Len(run.attempts) + 1
        BY <1>1, <2>1
    <2>3. run'.todo \subseteq run'.seen
        BY <1>1, <2>1
    <2>4. ASSUME NEW k \in DOMAIN run'.attempts
          PROVE  \E j \in run'.seen \ run'.todo :
                   run'.attempts[k].photo = j.photo /\ run'.attempts[k].ts = j.ts
      <3>1. CASE k = Len(run.attempts) + 1
          BY <3>1, <1>1, <2>1, <2>2
      <3>2. CASE k \in DOMAIN run.attempts
          BY <3>2, <1>1, <2>2 DEF IInv, Running, Attempts
      <3> QED
          BY <3>1, <3>2, <2>2
    <2>5. ASSUME NEW j \in run'.seen \ run'.todo
          PROVE  \E k \in DOMAIN run'.attempts :
                   run'.attempts[k].photo = j.photo /\ run'.attempts[k].ts = j.ts
      <3>1. CASE j = i
          BY <3>1, <2>1, <2>2
      <3>2. CASE j # i
        <4>1. PICK k \in DOMAIN run.attempts :
                run.attempts[k].photo = j.photo /\ run.attempts[k].ts = j.ts
            BY <3>2, <1>1 DEF IInv, Running, Attempts
        <4> QED
            BY <4>1, <2>2
      <3> QED
          BY <3>1, <3>2
    <2> QED
        BY <2>3, <2>4, <2>5 DEF Attempts
  <1> QED
      BY <1>1, <1>2, <1>3, <1>4 DEF IInv, Running

\* What an upload stores has a version.
LEMMA CopyType ==
    ASSUME IInv, NEW p \in Photo, There(p)
    PROVE  [photo |-> p, ver |-> shelf[p].ver] \in [photo : Photo, ver : Nat \ {0}]
  <1>1. shelf[p] \in Row /\ shelf[p].ver # 0
      BY ThereIsDated, TypeFacts DEF IInv, Dated, DatedBy
  <1> QED
      BY <1>1 DEF Row

LEMMA UploadKeeps ==
    ASSUME IInv, NEW i \in run.todo, Upload(i) \/ UploadFail(i)
    PROVE  IInv'
  <1>1. run.active /\ i.photo \in Photo
      BY TypeFacts DEF IInv, Upload, UploadFail, NextUp, Item
  <1>2. UNCHANGED <<now, shelf, touched, mark, failed>>
      BY DEF Upload, UploadFail
  <1>3. \E ok \in BOOLEAN : Tried(i, ok)
      BY DEF Upload, UploadFail
  <1>4. run' \in Run /\ Dates' /\ Running'
      BY <1>1, <1>2, <1>3, TriedKeeps
  <1> DEFINE copy == [photo |-> i.photo, ver |-> shelf[i.photo].ver]
  <1>8. /\ cloud' = cloud \/ (There(i.photo) /\ cloud' = cloud \cup {copy})
        /\ faults' = faults \/ (faults < MaxFaults /\ faults' = faults + 1)
    <2>1. CASE Upload(i)
        BY <2>1 DEF Upload
    <2>2. CASE UploadFail(i)
        BY <2>2 DEF UploadFail
    <2> QED
        BY <2>1, <2>2
  <1>9. There(i.photo) => copy \in [photo : Photo, ver : Nat \ {0}]
      BY <1>1, CopyType
  <1> HIDE DEF copy
  <1>5. cloud' \subseteq [photo : Photo, ver : Nat \ {0}]
      BY <1>8, <1>9 DEF IInv, TypeOK
  <1>6. faults' \in 0..MaxFaults
    <2>1. faults \in 0..MaxFaults
        BY DEF IInv, TypeOK
    <2> QED
        BY <1>8, <2>1, PhotoBoundAssumption DEF PhotoBoundAssumption
  <1>7. TypeOK'
      BY <1>2, <1>4, <1>5, <1>6 DEF IInv, TypeOK, Second
  <1> QED
      BY <1>4, <1>7 DEF IInv

\* The dates of a run's attempts, and so its new watermark.
LEMMA AttemptsInTime ==
    ASSUME IInv, run.active
    PROVE  /\ run.attempts \in Seq(Attempt) /\ run.since \in Nat /\ now \in Nat
           /\ run.since <= now
           /\ \A k \in DOMAIN run.attempts : run.attempts[k].ts <= now
  BY TypeFacts DEF IInv, Running, Seen, Attempts

LEMMA CommitKeeps ==
    ASSUME IInv, Commit
    PROVE  IInv'
  <1> DEFINE next == nextWatermark(run.since, run.attempts)
  <1>1. /\ run.active /\ mark' = IF next # run.since THEN next ELSE mark
        /\ failed' = rememberFailures(failed, run.attempts) /\ run' = NoRun
        /\ UNCHANGED <<now, shelf, touched, cloud, faults>>
      BY DEF Commit
  <1>2. next \in Nat /\ next <= now
      BY <1>1, AttemptsInTime, WatermarkFacts
  <1> HIDE DEF next
  <1>3. mark' \in 0..now'
      BY <1>1, <1>2, TypeFacts DEF IInv
  <1>4. failed' \in Seq(Photo) /\ Len(failed') <= Limit
      BY <1>1, AttemptsInTime, FailureFacts DEF IInv, TypeOK
  <1>5. TypeOK'
      BY <1>1, <1>3, <1>4, RowFacts DEF IInv, TypeOK, Second
  <1> QED
      BY <1>1, <1>5, RowFacts DEF IInv, Dates, Dated, DatedBy, Second, Running

LEMMA KilledKeeps ==
    ASSUME IInv, Killed
    PROVE  IInv'
  <1>1. TypeOK'
      BY RowFacts, PhotoBoundAssumption DEF PhotoBoundAssumption, Killed, IInv, TypeOK, Second
  <1> QED
      BY <1>1, RowFacts DEF Killed, IInv, Dates, Dated, DatedBy, Second, Running

LEMMA StutterKeeps ==
    ASSUME IInv, UNCHANGED vars
    PROVE  IInv'
  <1>1. UNCHANGED <<now, shelf, touched, mark, failed, run, cloud, faults>>
      BY DEF vars
  <1>2. TypeOK'
      BY <1>1 DEF IInv, TypeOK, Second
  <1>3. Dates'
      BY <1>1 DEF IInv, Dates, Dated, DatedBy, Second
  <1>4. Seen' <=> Seen
      BY <1>1 DEF Seen, Unchanged, There, timestampMs
  <1>5. Attempts' <=> Attempts
      BY <1>1 DEF Attempts
  <1> QED
      BY <1>1, <1>2, <1>3, <1>4, <1>5 DEF IInv, Running

LEMMA StepKeeps == IInv /\ [Next]_vars => IInv'
  BY TickKeeps, ShootKeeps, AdjustKeeps, TrashKeeps, BeginKeeps, UploadKeeps, CommitKeeps,
     KilledKeeps, StutterKeeps
  DEF Next, Camera, Worker

LEMMA InvariantHolds == Spec => []IInv
  BY InitIInv, StepKeeps, PTL DEF Spec

-----------------------------------------------------------------------------
\* The types of the media store, the watermark, the failure list and the run, at
\* every step: the watermark is never ahead of the clock, the list within its cap.
THEOREM TypeCorrect == Spec => []TypeOK
  <1>1. IInv => TypeOK
      BY DEF IInv
  <1> QED
      BY <1>1, InvariantHolds, PTL

\* A run without a failure takes the watermark to where none of its photos is new
\* any more, whichever of its dates a photo was found by, and whatever the units:
\* the next run does not upload them again.
THEOREM CleanRunsSettle == Spec => CleanRunSettles
  <1> DEFINE Settled == Commit /\ (\A k \in DOMAIN run.attempts : run.attempts[k].uploaded) =>
         \A i \in run.seen : shelf[i.photo].ver = i.ver => ~isNewerThan(mark', shelf[i.photo])
  <1>1. IInv /\ [Next]_vars => [Settled]_vars
    <2> SUFFICES ASSUME IInv, Commit, \A k \in DOMAIN run.attempts : run.attempts[k].uploaded,
                        NEW i \in run.seen, shelf[i.photo].ver = i.ver
                 PROVE  ~isNewerThan(mark', shelf[i.photo])
        OBVIOUS
    <2> DEFINE next == nextWatermark(run.since, run.attempts)
    <2>1. run.active /\ run.todo = {} /\ mark' = IF next # run.since THEN next ELSE mark
        BY DEF Commit
    <2>2. PICK k \in DOMAIN run.attempts : run.attempts[k].ts = i.ts
        BY <2>1 DEF IInv, Running, Attempts
    <2>3. run.since < i.ts /\ run.since \in Nat /\ i.ts \in Nat /\ i.photo \in Photo
        BY <2>1, TypeFacts DEF IInv, Running, Seen, Item
    <2>4. next \in Nat /\ i.ts <= next
      <3>1. k \in {j \in DOMAIN run.attempts : \A n \in 1..j : run.attempts[n].uploaded}
        <4>1. \A n \in 1..k : n \in DOMAIN run.attempts
            BY <2>2, TypeFacts DEF IInv
        <4> QED
            BY <4>1
      <3> QED
          BY <2>1, <2>2, <3>1, AttemptsInTime, WatermarkFacts
    <2>5. mark' = next
        BY <2>1, <2>3, <2>4
    <2>6. CASE There(i.photo)
      <3>1. i.ts = timestampMs(shelf[i.photo])
          BY <2>1, <2>6 DEF IInv, Running, Seen, Unchanged
      <3>2. shelf[i.photo] \in Row /\ Dated(shelf[i.photo]) /\ now \in Nat
            /\ touched \in 0..Second(now)
          BY <2>3, <2>6, TypeFacts, ThereIsDated DEF IInv
      <3> QED
          BY <3>1, <3>2, <2>4, <2>5, NotNewer
    <2>7. CASE ~There(i.photo)
      <3>1. shelf[i.photo] = Gone
          BY <2>1, <2>3, <2>7 DEF IInv, Running, Seen, Dates, Dated, DatedBy, There
      <3>2. Second(next) \in Nat
          BY <2>4, SecondFacts
      <3> QED
          BY <2>4, <2>5, <3>1, <3>2, RowFacts DEF isNewerThan
    <2> QED
        BY <2>6, <2>7
  <1>2. Spec => [][Settled]_vars
      BY <1>1, InvariantHolds, PTL DEF Spec
  <1> QED
      BY <1>2 DEF CleanRunSettles

-----------------------------------------------------------------------------
(* The invariant of a phone with a watermark, changed once a second          *)

LEMMA InitKept ==
    ASSUME Init, Fresh = FALSE
    PROVE  Kept
  <1>1. mark = Sec /\ 0 < mark
      BY Units DEF Init
  <1>2. \A p \in Photo : ~There(p)
      BY RowFacts DEF Init, There
  <1>3. DOMAIN failed = {} /\ ~run.active
      BY RowFacts DEF Init
  <1> QED
      BY <1>1, <1>2, <1>3 DEF Kept, Apart, Outstanding

\* The seconds of the watermark and of a change.
LEMMA ChangeIsLater ==
    ASSUME IInv, Kept, touched < Second(now)
    PROVE  Second(mark) < Second(now)
  <1>1. 2 <= Second(now)
    <2>1. Second(2 * Sec) = 2 /\ 2 * Sec \in Nat /\ now \in Nat
        BY SecondOfMultiple, TypeFacts DEF IInv
    <2> QED
        BY <2>1, SecondMono DEF IInv, Dates
  <1>2. mark = Sec => Second(mark) = 1
      BY Units DEF Second
  <1>3. Second(mark) \in Nat /\ touched \in Nat /\ Second(now) \in Nat
      BY TypeFacts, SecondFacts DEF IInv
  <1> QED
      BY <1>1, <1>2, <1>3 DEF Kept, Apart

\* A photo goes, or is written in a second of its own.
LEMMA ShelfKept ==
    ASSUME IInv, Kept, NEW p \in Photo, NEW row \in Row, shelf' = [shelf EXCEPT ![p] = row],
           UNCHANGED <<now, mark, failed, run, cloud, faults>>,
           \/ row = Gone /\ touched' = touched
           \/ /\ touched' = Second(now) /\ touched < Second(now) /\ row.modified = Second(now)
              /\ row.added # 0
              /\ shelf[p] = NoPhoto \/ (There(p) /\ shelf[p].ver < row.ver)
    PROVE  Kept'
  <1>1. /\ touched \in Nat /\ touched' \in Nat /\ touched <= touched' /\ Second(now) \in Nat
        /\ Second(mark) \in Nat /\ mark \in Nat
    <2>1. mark \in Nat /\ Second(now) \in Nat /\ touched \in Nat
        BY TypeFacts DEF IInv
    <2> QED
        BY <2>1, SecondFacts
  <1>2. \A q \in Photo : shelf'[q] = IF q = p THEN row ELSE shelf[q]
      BY DEF IInv, TypeOK
  <1>3. \A q \in Photo : q # p => (There(q)' <=> There(q)) /\ (Stored(q)' <=> Stored(q))
      BY <1>2 DEF There, Stored
  <1>4. row # NoPhoto
      BY RowFacts
  <1>5. CASE row = Gone
    <2>1. ~There(p)'
        BY <1>2, <1>5, RowFacts DEF There
    <2>2. Apart'
        BY <1>1, <1>2, <1>3, <2>1, <1>5 DEF Kept, Apart, Second
    <2>3. failed \in Seq(Photo)
        BY DEF IInv, TypeOK
    <2>4. Outstanding'
        BY <1>2, <1>3, <1>4, <2>1, <2>3 DEF Kept, Outstanding, isNewerThan
    <2>5. ASSUME run.active PROVE Ordered' /\ Covered'
      <3>1. \A i \in run.seen : i.photo \in Photo
          BY TypeFacts DEF IInv, Item
      <3>2. \A i \in run.seen : Unchanged(i)' <=> Unchanged(i) /\ i.photo # p
          BY <1>2, <1>3, <2>1, <3>1 DEF Unchanged
      <3>3. Ordered'
          BY <1>3, <2>5, <3>1, <3>2 DEF Kept, Ordered
      <3>4. \A i \in run.seen : Second(i.ts) \in Nat
          BY TypeFacts, SecondFacts DEF IInv, Item
      <3>5. \A q \in Photo : q # p => (Later(q)' <=> Later(q))
          BY <1>2 DEF Later
      <3>6. Covered'
          BY <1>1, <1>2, <1>3, <1>5, <2>1, <2>3, <2>5, <3>1, <3>2, <3>4, <3>5
          DEF Kept, Covered, isNewerThan
      <3> QED
          BY <3>3, <3>6
    <2> QED
        BY <2>2, <2>4, <2>5 DEF Kept
  <1>6. CASE row # Gone
    <2>1. /\ touched < Second(now) /\ row.modified = Second(now) /\ touched' = Second(now)
          /\ shelf[p] = NoPhoto \/ (There(p) /\ shelf[p].ver < row.ver)
          /\ row.added # 0
        BY <1>6
    <2>2. There(p)' /\ Second(mark) < row.modified
        BY <1>2, <2>1, ChangeIsLater DEF There
    <2>3. \A q \in Photo : There(q) => shelf[q].modified \in Nat /\ shelf[q].modified <= touched
        BY ThereIsDated, TypeFacts DEF IInv, Dated, DatedBy, Row
    <2>4. Apart'
      <3>1. 0 < mark' /\ (mark' = Sec \/ Second(mark)' <= touched')
          BY <1>1 DEF Kept, Apart, Second
      <3>2. \A q \in Photo : There(q)' /\ q # p => shelf'[q].modified # shelf'[p].modified
          BY <1>1, <1>2, <1>3, <2>1, <2>3
      <3>3. \A q, r \in Photo : There(q)' /\ There(r)' /\ q # r =>
              shelf'[q].modified # shelf'[r].modified
          BY <1>2, <1>3, <3>2 DEF Kept, Apart
      <3> QED
          BY <3>1, <3>3 DEF Apart
    <2>5. isNewerThan(mark, row)
        BY <2>2 DEF isNewerThan
    <2>6. failed \in Seq(Photo)
        BY DEF IInv, TypeOK
    <2>7. Outstanding'
        BY <1>2, <1>3, <1>4, <2>5, <2>6 DEF Kept, Outstanding, isNewerThan
    <2>8. ASSUME run.active PROVE Ordered' /\ Covered'
      <3>1. \A i \in run.seen : i.photo \in Photo /\ i.ver \in Nat /\ Second(i.ts) \in Nat
          BY TypeFacts, SecondFacts DEF IInv, Item
      <3>2. ASSUME NEW i \in run.seen, i.photo = p PROVE There(p) /\ ~Unchanged(i)'
        <4>1. There(p) /\ i.ver <= shelf[p].ver /\ shelf[p].ver < row.ver
            BY <2>1, <2>8, <3>2 DEF IInv, Running, Seen
        <4>2. shelf[p].ver \in Nat /\ row.ver \in Nat
            BY TypeFacts DEF IInv, Row
        <4> QED
            BY <4>1, <4>2, <3>1, <3>2, <1>2 DEF Unchanged
      <3>3. \A i \in run.seen : Unchanged(i)' <=> Unchanged(i) /\ i.photo # p
          BY <1>2, <1>3, <3>1, <3>2 DEF Unchanged
      <3>4. Ordered'
          BY <1>3, <2>8, <3>1, <3>3 DEF Kept, Ordered
      <3>5. Later(p)'
          BY <1>1, <1>2, <2>1, <2>8, <3>1 DEF Kept, Covered, Later, Second
      <3>6. \A q \in Photo : q # p => (Later(q)' <=> Later(q))
          BY <1>2 DEF Later
      <3>7. isNewerThan(run.since, row)
          BY <2>5, <2>8 DEF IInv, Running, Kept, Apart
      <3>8. ASSUME NEW i \in run.seen
            PROVE  /\ Second(i.ts) <= touched'
                   /\ There(i.photo)' =>
                        /\ isNewerThan(run.since, shelf'[i.photo])
                        /\ Unchanged(i)' \/ Later(i.photo)'
          BY <1>1, <1>2, <1>3, <2>1, <2>8, <3>1, <3>3, <3>5, <3>6, <3>7 DEF Kept, Covered
      <3>9. \A q \in Photo : There(q)' /\ ~Stored(q)' =>
              Later(q)' \/ \E i \in run.seen : i.photo = q
          BY <1>3, <2>8, <3>5, <3>6 DEF Kept, Covered
      <3>10. \A n \in DOMAIN failed : There(failed[n])' => \E i \in run.seen : i.photo = failed[n]
        <4>1. \A n \in DOMAIN failed : failed[n] = p => There(p)
            BY <2>1 DEF Kept, Outstanding
        <4> QED
            BY <1>3, <2>6, <2>8, <4>1 DEF Kept, Covered
      <3>11. Covered'
          BY <3>8, <3>9, <3>10 DEF Covered, isNewerThan, Second
      <3> QED
          BY <3>4, <3>11
    <2> QED
        BY <2>4, <2>7, <2>8 DEF Kept
  <1> QED
      BY <1>5, <1>6

LEMMA PhoneKept ==
    ASSUME IInv, Kept, Ties = FALSE, NEW p \in Photo, Shoot(p) \/ Adjust(p) \/ Trash(p)
    PROVE  Kept'
  <1>1. now \in Nat /\ Second(now) \in Nat /\ touched \in Nat /\ shelf[p] \in Row
        /\ 2 <= Second(now)
    <2>1. Second(2 * Sec) = 2 /\ 2 * Sec \in Nat /\ now \in Nat
        BY SecondOfMultiple, TypeFacts DEF IInv
    <2> QED
        BY <2>1, TypeFacts, SecondMono DEF IInv, Dates
  <1>2. CASE Trash(p)
      BY <1>2, RowFacts, ShelfKept DEF Trash
  <1>3. CASE Shoot(p)
    <2>1. PICK taken \in {0, now} :
            Change(p, [added |-> Second(now), modified |-> Second(now), taken |-> taken, ver |-> 1])
        BY <1>3 DEF Shoot
    <2> DEFINE row == [added |-> Second(now), modified |-> Second(now), taken |-> taken, ver |-> 1]
    <2>2. row \in Row /\ row.modified = Second(now) /\ row.added # 0
        BY <1>1 DEF Row
    <2>3. shelf' = [shelf EXCEPT ![p] = row] /\ touched' = Second(now) /\ touched < Second(now)
          /\ UNCHANGED <<now, mark, failed, run, cloud, faults>>
        BY <1>1, <2>1 DEF Change
    <2>4. shelf[p] = NoPhoto
        BY <1>3 DEF Shoot
    <2> HIDE DEF row
    <2> QED
        BY <2>2, <2>3, <2>4, ShelfKept
  <1>4. CASE Adjust(p)
    <2> DEFINE row == [shelf[p] EXCEPT !.modified = Second(now), !.ver = shelf[p].ver + 1]
    <2>1. /\ There(p) /\ shelf' = [shelf EXCEPT ![p] = row] /\ touched' = Second(now)
          /\ touched < Second(now) /\ UNCHANGED <<now, mark, failed, run, cloud, faults>>
        BY <1>1, <1>4 DEF Adjust, Change
    <2>2. row \in Row /\ row.modified = Second(now) /\ row.added # 0 /\ shelf[p].ver < row.ver
      <3> DEFINE m == Second(now)
                 v == shelf[p].ver + 1
                 r == shelf[p]
      <3>1. m \in Nat /\ v \in Nat /\ r \in Row /\ r.ver < v /\ r.added # 0
          BY <1>1, <2>1 DEF Row, There
      <3> HIDE DEF m, v, r
      <3>2. LET u == [r EXCEPT !.modified = m, !.ver = v]
            IN u \in Row /\ u.added = r.added /\ u.modified = m /\ u.ver = v
          BY <3>1 DEF Row
      <3> QED
          BY <3>1, <3>2 DEF m, v, r
    <2> HIDE DEF row
    <2> QED
        BY <2>1, <2>2, ShelfKept
  <1> QED
      BY <1>2, <1>3, <1>4

\* A query has whatever is newer than the watermark, a second for each.
LEMMA BeginKept ==
    ASSUME IInv, Kept, Begin
    PROVE  Kept'
  <1>1. /\ UNCHANGED <<now, shelf, touched, mark, failed, cloud, faults>>
        /\ run'.since = Since /\ run'.todo = queryNewImages
        /\ run'.seen = queryNewImages /\ run'.attempts = <<>>
      BY DEF Begin
  <1>2. Since = mark
      BY SinceFacts, TypeFacts DEF IInv, Kept, Apart
  <1>3. Apart' /\ Outstanding'
      BY <1>1 DEF Kept, Apart, Outstanding, There, Stored, isNewerThan, Second
  <1>4. ASSUME NEW i \in queryNewImages
        PROVE  /\ i.photo \in Photo /\ There(i.photo) /\ isNewerThan(mark, shelf[i.photo])
               /\ Unchanged(i) /\ Second(i.ts) = shelf[i.photo].modified
               /\ Second(i.ts) <= touched
    <2>1. i \in Item /\ There(i.photo) /\ isNewerThan(mark, shelf[i.photo])
          /\ i.ver = shelf[i.photo].ver /\ i.ts = timestampMs(shelf[i.photo])
        BY <1>2, QueryFacts
    <2>2. i.photo \in Photo
        BY <2>1 DEF Item
    <2>3. /\ shelf[i.photo] \in Row /\ Dated(shelf[i.photo]) /\ now \in Nat
          /\ touched \in 0..Second(now)
        BY <2>1, <2>2, TypeFacts, ThereIsDated DEF IInv
    <2>4. Second(i.ts) = shelf[i.photo].modified
        BY <2>1, <2>3, StampFacts
    <2> QED
        BY <2>1, <2>2, <2>3, <2>4 DEF Unchanged, Dated, DatedBy
  <1>5. ASSUME NEW i \in queryNewImages, NEW j \in queryNewImages, i # j
        PROVE  i.photo # j.photo
      BY <1>5 DEF queryNewImages
  <1>6. Ordered'
    <2>1. \A i, j \in queryNewImages : i # j => i.photo # j.photo /\ Second(i.ts) # Second(j.ts)
        BY <1>4, <1>5 DEF Kept, Apart
    <2>2. DOMAIN run'.attempts = {}
        BY <1>1
    <2> QED
        BY <1>1, <2>1, <2>2 DEF Ordered, Second
  <1>7. Covered'
    <2>1. \A p \in Photo : There(p) /\ isNewerThan(mark, shelf[p]) =>
            \E i \in queryNewImages : i.photo = p
        BY <1>2, QueryFacts
    <2>2. failed \in Seq(Photo)
        BY DEF IInv, TypeOK
    <2>3. \A n \in DOMAIN failed : There(failed[n]) => \E i \in queryNewImages : i.photo = failed[n]
        BY <2>1, <2>2 DEF Kept, Outstanding
    <2>4. \A p \in Photo : There(p) /\ ~Stored(p) => \E i \in queryNewImages : i.photo = p
        BY <2>1 DEF Kept, Outstanding
    <2> QED
        BY <1>1, <1>2, <1>4, <2>3, <2>4
        DEF Covered, There, Stored, Unchanged, isNewerThan, Second
  <1> QED
      BY <1>3, <1>6, <1>7 DEF Kept

\* An upload comes after the ones before it, and what it says it stored is stored.
LEMMA UploadKept ==
    ASSUME IInv, Kept, NEW i \in run.todo, Upload(i) \/ UploadFail(i)
    PROVE  Kept'
  <1>1. /\ run.active /\ \A j \in run.todo : i.ts <= j.ts
        /\ UNCHANGED <<now, shelf, touched, mark, failed>> /\ cloud \subseteq cloud'
      BY DEF Upload, UploadFail, NextUp
  <1>2. PICK ok \in BOOLEAN :
          Tried(i, ok) /\ (ok => [photo |-> i.photo, ver |-> shelf[i.photo].ver] \in cloud')
      BY DEF Upload, UploadFail
  <1> DEFINE a == [photo |-> i.photo, ts |-> i.ts, uploaded |-> ok]
  <1>3. /\ a \in Attempt /\ run'.active = run.active /\ run'.since = run.since
        /\ run'.seen = run.seen /\ run'.todo = run.todo \ {i}
        /\ run'.attempts = Append(run.attempts, a)
      BY <1>2, TriedFacts DEF IInv
  <1>4. a.photo = i.photo /\ a.ts = i.ts /\ a.uploaded = ok
      OBVIOUS
  <1> HIDE DEF a
  <1>5. /\ run.attempts \in Seq(Attempt) /\ run.todo \subseteq run.seen /\ run.seen \subseteq Item
      BY <1>1, TypeFacts DEF IInv, Running, Attempts
  <1> DEFINE last == Len(run.attempts) + 1
  <1>6. /\ run'.attempts[last] = a
        /\ \A k \in DOMAIN run'.attempts :
             \/ k \in DOMAIN run.attempts /\ run'.attempts[k] = run.attempts[k] /\ k < last
             \/ k = last
      BY <1>3, <1>5
  <1>7. \A k \in DOMAIN run.attempts : k \in Nat /\ k < last
      BY <1>5
  <1>8. last \in Nat
      BY <1>5
  <1> HIDE DEF last
  <1>9. \A p : Stored(p) => Stored(p)'
      BY <1>1 DEF Stored
  <1>10. Apart' /\ Outstanding'
      BY <1>1, <1>9 DEF Kept, Apart, Outstanding, There, isNewerThan, Second
  <1>11. Covered'
      BY <1>1, <1>3, <1>9 DEF Kept, Covered, There, Unchanged, Later, isNewerThan, Second
  <1>12. Ordered'
    <2>1. ASSUME NEW k \in DOMAIN run.attempts
          PROVE  run.attempts[k].photo # i.photo /\ run.attempts[k].ts <= i.ts
      <3>1. PICK j \in run.seen \ run.todo : run.attempts[k].photo = j.photo
          BY <1>1 DEF IInv, Running, Attempts
      <3>2. j # i /\ i \in run.seen
          BY <1>5, <3>1
      <3> QED
          BY <1>1, <3>1, <3>2 DEF Kept, Ordered
    <2>2. ASSUME NEW k \in DOMAIN run'.attempts, NEW l \in DOMAIN run'.attempts, k < l
          PROVE  /\ run'.attempts[k].photo # run'.attempts[l].photo
                 /\ run'.attempts[k].ts <= run'.attempts[l].ts
      <3>1. CASE k = last
          BY <1>6, <1>7, <1>8, <2>2, <3>1
      <3>2. CASE k # last /\ l = last
          BY <1>4, <1>6, <2>1, <3>2
      <3>3. CASE k # last /\ l # last
          BY <1>1, <1>6, <2>2, <3>3 DEF Kept, Ordered
      <3> QED
          BY <3>1, <3>2, <3>3
    <2>3. ASSUME NEW k \in DOMAIN run'.attempts, NEW j \in run'.todo
          PROVE  run'.attempts[k].ts <= j.ts
        BY <1>1, <1>3, <1>4, <1>6 DEF Kept, Ordered
    <2>4. ASSUME NEW k \in DOMAIN run'.attempts, NEW j \in run'.seen,
                 run'.attempts[k].photo = j.photo, run'.attempts[k].uploaded, Unchanged(j)'
          PROVE  Stored(j.photo)'
      <3>1. CASE k = last
          BY <1>1, <1>2, <1>4, <1>6, <2>4, <3>1 DEF Stored
      <3>2. CASE k # last
        <4>1. k \in DOMAIN run.attempts /\ run'.attempts[k] = run.attempts[k] /\ Unchanged(j)
            BY <1>1, <1>6, <2>4, <3>2 DEF Unchanged, There
        <4> QED
            BY <1>1, <1>3, <1>9, <2>4, <4>1 DEF Kept, Ordered
      <3> QED
          BY <3>1, <3>2
    <2> QED
        BY <1>1, <1>3, <2>2, <2>3, <2>4 DEF Kept, Ordered, Second
  <1> QED
      BY <1>10, <1>11, <1>12 DEF Kept

\* The watermark stops short of what failed and of what changed during the run.
LEMMA CommitNewer ==
    ASSUME IInv, Kept, run.active, NEW p \in Photo, There(p), isNewerThan(run.since, shelf[p]),
           \/ Later(p)
           \/ \E i \in run.seen, k \in DOMAIN run.attempts :
                /\ i.photo = p /\ Unchanged(i)
                /\ run.attempts[k].photo = p /\ run.attempts[k].ts = i.ts
                /\ ~run.attempts[k].uploaded
    PROVE  isNewerThan(nextWatermark(run.since, run.attempts), shelf[p])
  <1> DEFINE w == nextWatermark(run.since, run.attempts)
             prefix == {j \in DOMAIN run.attempts : \A k \in 1..j : run.attempts[k].uploaded}
  <1>1. w = run.since \/ \E j \in prefix : w = run.attempts[j].ts
      BY AttemptsInTime, WatermarkFacts
  <1>2. SUFFICES ASSUME NEW j \in prefix, w = run.attempts[j].ts PROVE isNewerThan(w, shelf[p])
      BY <1>1
  <1>3. j \in DOMAIN run.attempts /\ \A k \in 1..j : run.attempts[k].uploaded
      OBVIOUS
  <1> HIDE DEF prefix, w
  <1>4. PICK first \in run.seen : run.attempts[j].photo = first.photo /\ w = first.ts
      BY <1>2, <1>3 DEF IInv, Running, Attempts
  <1>5. first.ts \in Nat /\ Second(first.ts) \in Nat
      BY TypeFacts, SecondFacts DEF IInv, Item
  <1>6. Second(first.ts) < shelf[p].modified
    <2>1. CASE Later(p)
        BY <2>1 DEF Later
    <2>2. CASE ~Later(p)
      <3>1. PICK i \in run.seen, k \in DOMAIN run.attempts :
              /\ i.photo = p /\ Unchanged(i)
              /\ run.attempts[k].photo = p /\ run.attempts[k].ts = i.ts
              /\ ~run.attempts[k].uploaded
          BY <2>2
      <3>2. j < k
        <4>1. j \in Nat /\ k \in 1..Len(run.attempts)
            BY <1>3, TypeFacts DEF IInv
        <4>2. k \notin 1..j
            BY <1>3, <3>1
        <4> QED
            BY <4>1, <4>2
      <3>3. run.attempts[j].photo # p /\ first.ts <= i.ts
        <4>1. /\ run.attempts[j].photo # run.attempts[k].photo
              /\ run.attempts[j].ts <= run.attempts[k].ts
            BY <1>3, <3>1, <3>2 DEF Kept, Ordered
        <4> QED
            BY <1>2, <1>4, <3>1, <4>1
      <3>4. first # i /\ Second(first.ts) # Second(i.ts)
          BY <1>4, <3>1, <3>3 DEF Kept, Ordered
      <3>5. i.ts \in Nat /\ Second(i.ts) \in Nat
          BY TypeFacts, SecondFacts DEF IInv, Item
      <3>6. Second(first.ts) <= Second(i.ts)
          BY <1>5, <3>3, <3>5, SecondMono
      <3>7. i.ts = timestampMs(shelf[p])
          BY <3>1 DEF IInv, Running, Seen
      <3>8. Second(i.ts) = shelf[p].modified
        <4>1. shelf[p] \in Row /\ Dated(shelf[p]) /\ now \in Nat /\ touched \in 0..Second(now)
            BY TypeFacts, ThereIsDated DEF IInv
        <4> QED
            BY <3>7, <4>1, StampFacts
      <3> QED
          BY <1>5, <3>4, <3>5, <3>6, <3>8
    <2> QED
        BY <2>1, <2>2
  <1> QED
      BY <1>4, <1>6 DEF isNewerThan

LEMMA CommitKept ==
    ASSUME IInv, Kept, Commit
    PROVE  Kept'
  <1> DEFINE w == nextWatermark(run.since, run.attempts)
             list == rememberFailures(failed, run.attempts)
  <1>1. /\ run.active /\ run.todo = {} /\ mark' = IF w # run.since THEN w ELSE mark
        /\ failed' = list /\ run' = NoRun /\ UNCHANGED <<now, shelf, touched, cloud, faults>>
      BY DEF Commit
  <1>2. run.since = mark /\ mark \in Nat /\ 0 < mark
      BY <1>1, TypeFacts DEF IInv, Running, Kept, Apart
  <1>3. mark' = w
      BY <1>1, <1>2
  <1>4. /\ w \in Nat /\ mark <= w
        /\ w = mark \/ \E k \in DOMAIN run.attempts : w = run.attempts[k].ts
      BY <1>1, <1>2, AttemptsInTime, WatermarkFacts
  <1>5. failed \in Seq(Photo) /\ run.attempts \in Seq(Attempt)
      BY <1>1, AttemptsInTime DEF IInv, TypeOK
  <1>6. /\ list \in Seq(Photo)
        /\ \A n \in DOMAIN list :
             \/ \E k \in DOMAIN run.attempts : /\ list[n] = run.attempts[k].photo
                                               /\ ~run.attempts[k].uploaded
             \/ /\ \E m \in DOMAIN failed : list[n] = failed[m]
                /\ \A k \in DOMAIN run.attempts : list[n] # run.attempts[k].photo
      BY <1>5, FailureFacts
  <1>7. \A p \in Photo : There(p) /\ isNewerThan(run.since, shelf[p])
            /\ (\/ Later(p)
                \/ \E i \in run.seen, k \in DOMAIN run.attempts :
                     /\ i.photo = p /\ Unchanged(i)
                     /\ run.attempts[k].photo = p /\ run.attempts[k].ts = i.ts
                     /\ ~run.attempts[k].uploaded)
          => isNewerThan(w, shelf[p])
      BY <1>1, CommitNewer
  <1> HIDE DEF w, list
  <1>8. Apart'
    <2>1. CASE w = mark
        BY <1>1, <1>3, <2>1 DEF Kept, Apart, There, Second
    <2>2. CASE w # mark
      <3>1. PICK i \in run.seen : w = i.ts
          BY <1>1, <1>4, <2>2 DEF IInv, Running, Attempts
      <3>2. Second(w) <= touched
          BY <1>1, <3>1 DEF Kept, Covered
      <3> QED
          BY <1>1, <1>2, <1>3, <1>4, <3>2 DEF Kept, Apart, There, Second
    <2> QED
        BY <2>1, <2>2
  <1>9. ASSUME NEW p \in Photo, There(p), ~Stored(p)
        PROVE  isNewerThan(w, shelf[p])
    <2>1. isNewerThan(run.since, shelf[p])
        BY <1>2, <1>9 DEF Kept, Outstanding
    <2>2. CASE Later(p)
        BY <1>7, <1>9, <2>1, <2>2
    <2>3. CASE ~Later(p)
      <3>1. PICK i \in run.seen : i.photo = p
          BY <1>1, <1>9, <2>3 DEF Kept, Covered
      <3>2. Unchanged(i)
          BY <1>1, <1>9, <2>3, <3>1 DEF Kept, Covered
      <3>3. PICK k \in DOMAIN run.attempts :
              run.attempts[k].photo = i.photo /\ run.attempts[k].ts = i.ts
          BY <1>1 DEF IInv, Running, Attempts
      <3>4. ~run.attempts[k].uploaded
          BY <1>1, <1>9, <3>1, <3>2, <3>3 DEF Kept, Ordered
      <3> QED
          BY <1>7, <1>9, <2>1, <3>1, <3>2, <3>3, <3>4
    <2> QED
        BY <2>2, <2>3
  <1>10. ASSUME NEW n \in DOMAIN list
         PROVE  shelf[list[n]] # NoPhoto /\ (There(list[n]) => isNewerThan(w, shelf[list[n]]))
    <2>1. CASE \E k \in DOMAIN run.attempts : /\ list[n] = run.attempts[k].photo
                                              /\ ~run.attempts[k].uploaded
      <3>1. PICK k \in DOMAIN run.attempts : list[n] = run.attempts[k].photo
                                             /\ ~run.attempts[k].uploaded
          BY <2>1
      <3>2. PICK i \in run.seen : run.attempts[k].photo = i.photo /\ run.attempts[k].ts = i.ts
          BY <1>1 DEF IInv, Running, Attempts
      <3>3. shelf[list[n]] # NoPhoto
          BY <1>1, <3>1, <3>2 DEF IInv, Running, Seen
      <3>4. list[n] \in Photo
          BY <1>6
      <3>5. There(list[n]) => /\ isNewerThan(run.since, shelf[list[n]])
                              /\ Unchanged(i) \/ Later(list[n])
          BY <1>1, <3>1, <3>2 DEF Kept, Covered
      <3> QED
          BY <1>7, <3>1, <3>2, <3>3, <3>4, <3>5
    <2>2. CASE /\ \E m \in DOMAIN failed : list[n] = failed[m]
               /\ \A k \in DOMAIN run.attempts : list[n] # run.attempts[k].photo
      <3>1. PICK m \in DOMAIN failed : list[n] = failed[m]
          BY <2>2
      <3>2. ~There(failed[m])
          BY <1>1, <2>2, <3>1 DEF IInv, Running, Attempts, Kept, Covered
      <3> QED
          BY <3>1, <3>2 DEF Kept, Outstanding
    <2> QED
        BY <1>6, <2>1, <2>2
  <1>11. Outstanding'
      BY <1>1, <1>3, <1>9, <1>10 DEF Outstanding, There, Stored, isNewerThan, Second
  <1> QED
      BY <1>1, <1>8, <1>11, RowFacts DEF Kept

LEMMA StillKept ==
    ASSUME Kept, UNCHANGED <<shelf, touched, mark, failed, cloud>>, run' = run \/ run' = NoRun
    PROVE  Kept'
  <1>1. Apart' /\ Outstanding'
      BY DEF Kept, Apart, Outstanding, There, Stored, isNewerThan, Second
  <1>2. CASE run' = NoRun
      BY <1>1, <1>2, RowFacts DEF Kept
  <1>3. CASE run' = run
      BY <1>1, <1>3 DEF Kept, Ordered, Covered, There, Stored, Unchanged, Later, isNewerThan, Second
  <1> QED
      BY <1>2, <1>3

LEMMA StepKept == ASSUME Ties = FALSE PROVE IInv /\ Kept /\ [Next]_vars => Kept'
  <1> SUFFICES ASSUME IInv, Kept, [Next]_vars PROVE Kept'
      OBVIOUS
  <1>1. CASE Tick \/ Killed \/ UNCHANGED vars
      BY <1>1, StillKept DEF Tick, Killed, vars
  <1>2. CASE \E p \in Photo : Shoot(p) \/ Adjust(p) \/ Trash(p)
      BY <1>2, PhoneKept
  <1>3. CASE Begin \/ Commit
      BY <1>3, BeginKept, CommitKept
  <1>4. CASE \E i \in run.todo : Upload(i) \/ UploadFail(i)
      BY <1>4, UploadKept
  <1> QED
      BY <1>1, <1>2, <1>3, <1>4 DEF Next, Camera, Worker

LEMMA KeptHolds == ASSUME Ties = FALSE, Fresh = FALSE PROVE Spec => [](IInv /\ Kept)
  <1>1. Init => IInv /\ Kept
      BY InitIInv, InitKept
  <1>2. IInv /\ Kept /\ [Next]_vars => (IInv /\ Kept)'
      BY StepKeeps, StepKept
  <1> QED
      BY <1>1, <1>2, PTL DEF Spec

-----------------------------------------------------------------------------
\* On a phone with a watermark, whose media store changes at most once a second,
\* no photo is passed over: whatever failed, died or changed while a run went on,
\* what the drive has not received is newer than the watermark.
THEOREM NothingPassedOver ==
    ASSUME Ties = FALSE, Fresh = FALSE
    PROVE  Spec => []NoPhotoSkipped
  <1>1. IInv /\ Kept => NoPhotoSkipped
      BY SinceFacts, TypeFacts DEF IInv, Kept, Apart, Outstanding, NoPhotoSkipped
  <1> QED
      BY <1>1, KeptHolds, PTL

\* On such a phone the failure list is never out of date: what is on it is queried
\* again, unless the user has deleted it.
THEOREM FailuresOutstanding ==
    ASSUME Ties = FALSE, Fresh = FALSE
    PROVE  Spec => []FailuresRetried
  <1>1. IInv /\ Kept => FailuresRetried
      BY SinceFacts, TypeFacts DEF IInv, Kept, Apart, Outstanding, FailuresRetried
  <1> QED
      BY <1>1, KeptHolds, PTL
=============================================================================
