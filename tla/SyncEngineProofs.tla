---------------------------- MODULE SyncEngineProofs ----------------------------
(***************************************************************************)
(* Theorems about SyncEngine, for any clients, with or without races and    *)
(* edits under a running pass, and for any bounds.                          *)
(***************************************************************************)
EXTENDS SyncEngine, TLAPS

\* What the server holds, live or as history, it keeps.
Server == Contents(remote) \cup archive

\* The contents no client's directory is needed for.
Secure == Server \cup hot \cup {0}

\* The seconds at which the server wrote files, as far as anyone remembers them.
Stamps == {remote[n].mtime : n \in Name}
          \cup {base[c][n] : c \in Client, n \in Name}
          \cup {pass[c].base[n] : c \in Client, n \in Name}
          \cup {pass[c].remote[n] : c \in Client, n \in Name}
          \cup {pass[c].meta : c \in Client} \cup {pass[c].cmeta : c \in Client}

\* Whatever carries a second carries one that has been.
Ages == /\ \A t \in Stamps : t <= clock
        /\ \A c \in Client, n \in Name : local[c][n].mtime <= clock

\* A content only a client holds is in a file a user works on, with an mtime no
\* baseline has: the classification of a pass cannot take it for an old one.
Marked == \A c \in Client, n \in Name :
    local[c][n].data \in Secure \/ (n = Main /\ local[c][n].mtime \notin Stamps)

\* A file that was listed is as it was, or its content is needed no more; nor is
\* that of the file a pass is about to stamp or to overwrite.
Parked == {"cf_pull", "cf_stat", "cf_mirror", "cf_stamp"}
Sound(c) ==
    /\ pass[c].pc # "idle" =>
         \A n \in Name : local[c][n].data \in Secure \/ local[c][n].mtime = pass[c].local[n]
    /\ pass[c].pc \in {"push_stamp", "pull_stamp", "cf_pull", "cf_stat"} =>
         local[c][pass[c].name].data \in Secure
    /\ pass[c].pc \in Parked => pass[c].conf # Main

Guarded == Ages /\ Marked /\ \A c \in Client : Sound(c)
IInv == TypeOK /\ Guarded

-----------------------------------------------------------------------------
(* What the parts of a step do                                               *)

LEMMA NameFacts ==
    /\ Main \in Name /\ Name \subseteq Nat
    /\ NoFile \in File /\ NoFile.data = 0 /\ NoFile.mtime = 0 /\ ~Exists(NoFile)
    /\ Nothing \in [Name -> Nat] /\ NoPass \in Pass
    /\ \A n \in Name : Nothing[n] = 0
    /\ NoPass.pc = "idle" /\ NoPass.todo = {} /\ NoPass.meta = 0 /\ NoPass.cmeta = 0
    /\ NoPass.base = Nothing /\ NoPass.remote = Nothing
  <1>1. Main \in Name /\ Name \subseteq Nat
      BY SyncBoundAssumption DEF Main, Name
  <1>2. Nothing \in [Name -> Nat] /\ \A n \in Name : Nothing[n] = 0
      BY DEF Nothing
  <1>3. NoPass \in Pass
      BY <1>1, <1>2 DEF NoPass, Pass, PassPC
  <1> QED
      BY <1>1, <1>2, <1>3 DEF NoFile, File, Exists, NoPass

\* A file of a directory.
LEMMA FileFacts ==
    ASSUME NEW f, IsFile(f)
    PROVE  /\ f \in File /\ f.data \in Nat /\ f.mtime \in Nat
           /\ Exists(f) <=> f.data # 0
           /\ Exists(f) <=> f.mtime # 0
  BY NameFacts DEF IsFile, Exists, File

LEMMA DirFacts ==
    ASSUME TypeOK
    PROVE  /\ \A c \in Client, n \in Name : IsFile(local[c][n])
           /\ \A n \in Name : IsFile(remote[n])
           /\ \A c \in Client : pass[c] \in Pass
  BY DEF TypeOK

\* File n of client c is stamped with t.
Chtimed(c, n, t) ==
    /\ local' \in [Client -> [Name -> File]] /\ \A e \in Client, m \in Name : IsFile(local'[e][m])
    /\ \A e \in Client, m \in Name : e # c \/ m # n => local'[e][m] = local[e][m]
    /\ local'[c][n].data = local[c][n].data
    /\ Exists(local'[c][n]) <=> Exists(local[c][n])
    /\ Exists(local[c][n]) => local'[c][n].mtime = IF t = 0 THEN Unstamped ELSE t

LEMMA StampedPuts ==
    ASSUME TypeOK, NEW c \in Client, NEW n \in Name, NEW t \in Nat, local' = Stamped(c, n, t)
    PROVE  Chtimed(c, n, t)
  <1> DEFINE f == IF Exists(local[c][n])
                  THEN [local[c][n] EXCEPT !.mtime = IF t = 0 THEN Unstamped ELSE t] ELSE local[c][n]
  <1>1. IsFile(local[c][n]) /\ local' = [local EXCEPT ![c][n] = f]
      BY DirFacts DEF Stamped, TypeOK
  <1>2. local[c][n] \in File /\ (Exists(local[c][n]) <=> local[c][n].data # 0)
      BY <1>1, FileFacts
  <1>3. CASE Exists(local[c][n])
    <2>1. f \in File /\ f.data = local[c][n].data /\ f.mtime = IF t = 0 THEN Unstamped ELSE t
        BY <1>2, <1>3 DEF File, Unstamped
    <2>2. f.mtime # 0
        BY <2>1 DEF Unstamped
    <2>3. IsFile(f) /\ Exists(f)
        BY <1>2, <1>3, <2>1, <2>2, NameFacts DEF IsFile, Exists
    <2> HIDE DEF f
    <2>4. /\ local' \in [Client -> [Name -> File]]
          /\ \A d \in Client, m \in Name : IsFile(local'[d][m])
          /\ \A d \in Client, m \in Name : local'[d][m] = IF d = c /\ m = n THEN f ELSE local[d][m]
        BY <1>1, <2>3, FileFacts DEF TypeOK
    <2>5. local'[c][n] = f
        BY <2>4
    <2> QED
        BY <1>3, <2>1, <2>3, <2>4, <2>5 DEF Exists, Chtimed
  <1>4. CASE ~Exists(local[c][n])
    <2>1. local' = local
        BY <1>1, <1>4 DEF TypeOK
    <2> QED
        BY <1>4, <2>1, DirFacts DEF TypeOK, Chtimed
  <1> QED
      BY <1>3, <1>4

\* The server has stored content d as file n, under a new second.
Stored(n, d) ==
    /\ remote' \in [Name -> File] /\ \A m \in Name : IsFile(remote'[m])
    /\ Exists(remote'[n]) /\ remote'[n].data = d /\ remote'[n].mtime = clock + 1
    /\ \A m \in Name \ {n} : remote'[m] = remote[m]
    /\ archive' \in SUBSET Nat /\ archive \subseteq archive'
    /\ remote[n].data \in archive' \cup {0}
    /\ clock' = clock + 1 /\ clock' \in Nat \ {0}

LEMMA StoreFacts ==
    ASSUME TypeOK, NEW n \in Name, NEW d \in Nat \ {0}, Store(n, d)
    PROVE  Stored(n, d)
  <1> DEFINE f == [data |-> d, mtime |-> clock + 1]
  <1>1. f \in File /\ f.data = d /\ f.mtime = clock + 1 /\ clock + 1 # 0 /\ clock \in Nat
      BY DEF TypeOK, File
  <1>2. IsFile(f) /\ Exists(f)
      BY <1>1, NameFacts DEF IsFile, Exists
  <1>3. remote' = [remote EXCEPT ![n] = f] /\ archive' = archive \cup ({remote[n].data} \ {0})
        /\ clock' = clock + 1
      BY DEF Store
  <1> HIDE DEF f
  <1>4. remote[n].data \in Nat
      BY DirFacts, FileFacts
  <1>5. /\ remote' \in [Name -> File]
        /\ \A m \in Name : remote'[m] = IF m = n THEN f ELSE remote[m]
      BY <1>1, <1>3 DEF TypeOK
  <1>6. \A m \in Name : IsFile(remote'[m])
      BY <1>2, <1>5, DirFacts
  <1>7. archive' \in SUBSET Nat /\ archive \subseteq archive' /\ remote[n].data \in archive' \cup {0}
      BY <1>3, <1>4 DEF TypeOK
  <1> QED
      BY <1>1, <1>2, <1>3, <1>5, <1>6, <1>7 DEF Stored

\* The server has moved file n to its trash.
Discarded(n) ==
    /\ remote' \in [Name -> File] /\ \A m \in Name : IsFile(remote'[m])
    /\ remote'[n] = NoFile /\ \A m \in Name \ {n} : remote'[m] = remote[m]
    /\ archive' \in SUBSET Nat /\ archive \subseteq archive'
    /\ remote[n].data \in archive' \cup {0}

LEMMA DiscardFacts ==
    ASSUME TypeOK, NEW n \in Name, Discard(n)
    PROVE  Discarded(n)
  <1>1. remote[n].data \in Nat
      BY DirFacts, FileFacts
  <1> QED
      BY <1>1, NameFacts DEF Discard, TypeOK, IsFile, Discarded

\* Where the pass of c is now; the others are where they were.
Now(c, pc, n, m, k, s, T, b) ==
    /\ pass' \in [Client -> Pass]
    /\ \A d \in Client \ {c} : pass'[d] = pass[d]
    /\ pass'[c].local = pass[c].local /\ pass'[c].remote = pass[c].remote
    /\ pass'[c].pc = pc /\ pass'[c].name = n /\ pass'[c].meta = m
    /\ pass'[c].conf = k /\ pass'[c].cmeta = s
    /\ pass'[c].todo = T /\ pass'[c].base = b

LEMMA NowDone ==
    ASSUME TypeOK, NEW c \in Client, NEW n \in Name, NEW b \in [Name -> Nat], Done(c, n, b)
    PROVE  Now(c, "pick", pass[c].name, pass[c].meta, pass[c].conf, pass[c].cmeta,
               pass[c].todo \ {n}, b)
  <1> DEFINE p == [pass[c] EXCEPT !.pc = "pick", !.todo = @ \ {n}, !.base = b]
  <1>1. pass[c] \in Pass /\ pass \in [Client -> Pass]
      BY DEF TypeOK
  <1>2. pass' = [pass EXCEPT ![c] = p]
      BY <1>1 DEF Done
  <1>3. /\ p \in Pass /\ p.pc = "pick" /\ p.todo = pass[c].todo \ {n} /\ p.base = b
        /\ p.name = pass[c].name /\ p.meta = pass[c].meta /\ p.conf = pass[c].conf
        /\ p.cmeta = pass[c].cmeta /\ p.local = pass[c].local /\ p.remote = pass[c].remote
      BY <1>1 DEF Pass, PassPC
  <1> HIDE DEF p
  <1>4. /\ pass' \in [Client -> Pass] /\ pass'[c] = p
        /\ \A d \in Client \ {c} : pass'[d] = pass[d]
    <2>1. p \in Pass
        BY <1>3
    <2> QED
        BY <1>1, <1>2, <2>1
  <1> QED
      BY <1>3, <1>4 DEF Now

-----------------------------------------------------------------------------
(* What the steps of a pass do                                               *)

\* The pass of c is done with path n, whose baseline is b now.
Settled(c, n, b) ==
    Now(c, "pick", pass[c].name, pass[c].meta, pass[c].conf, pass[c].cmeta, pass[c].todo \ {n},
        [pass[c].base EXCEPT ![n] = b])

LEMMA SettledDone ==
    ASSUME TypeOK, NEW c \in Client, NEW n \in Name, NEW b \in Nat,
           Done(c, n, [pass[c].base EXCEPT ![n] = b])
    PROVE  Settled(c, n, b)
  <1>1. pass[c].base \in [Name -> Nat]
      BY DirFacts DEF Pass
  <1> QED
      BY <1>1, NowDone DEF Settled

\* It leaves the path as it was.
Skipped(c, n) ==
    Now(c, "pick", pass[c].name, pass[c].meta, pass[c].conf, pass[c].cmeta, pass[c].todo \ {n},
        pass[c].base)

LEMMA SkippedDone ==
    ASSUME TypeOK, NEW c \in Client, NEW n \in Name, Done(c, n, pass[c].base)
    PROVE  Skipped(c, n)
  <1>1. pass[c].base \in [Name -> Nat]
      BY DirFacts DEF Pass
  <1> QED
      BY <1>1, NowDone DEF Skipped

\* It begins to push, pull or resolve path n, to be stamped with m.
Began(c, pc, n, m) ==
    Now(c, pc, n, m, pass[c].conf, pass[c].cmeta, pass[c].todo, pass[c].base)

LEMMA BeganAt ==
    ASSUME TypeOK, NEW c \in Client, NEW n \in Name, NEW pc \in PassPC, NEW m \in Nat,
           pass' = [pass EXCEPT ![c].pc = pc, ![c].name = n, ![c].meta = m]
    PROVE  Began(c, pc, n, m)
  <1> DEFINE p == [pass[c] EXCEPT !.pc = pc, !.name = n, !.meta = m]
  <1>1. pass[c] \in Pass /\ pass \in [Client -> Pass]
      BY DEF TypeOK
  <1>2. /\ p \in Pass /\ p.pc = pc /\ p.todo = pass[c].todo /\ p.base = pass[c].base
        /\ p.name = n /\ p.meta = m /\ p.conf = pass[c].conf
        /\ p.cmeta = pass[c].cmeta /\ p.local = pass[c].local /\ p.remote = pass[c].remote
      BY <1>1 DEF Pass
  <1>3. pass' = [pass EXCEPT ![c] = p]
      BY <1>1
  <1> HIDE DEF p
  <1>4. /\ pass' \in [Client -> Pass] /\ pass'[c] = p
        /\ \A d \in Client \ {c} : pass'[d] = pass[d]
    <2>1. p \in Pass
        BY <1>2
    <2> QED
        BY <1>1, <1>3, <2>1
  <1> QED
      BY <1>2, <1>4 DEF Now, Began

\* It goes on to pc with the same path.
Reached(c, pc) ==
    Now(c, pc, pass[c].name, pass[c].meta, pass[c].conf, pass[c].cmeta, pass[c].todo, pass[c].base)

LEMMA ReachedAt ==
    ASSUME TypeOK, NEW c \in Client, NEW pc \in PassPC, pass' = [pass EXCEPT ![c].pc = pc]
    PROVE  Reached(c, pc)
  <1> DEFINE p == [pass[c] EXCEPT !.pc = pc]
  <1>1. pass[c] \in Pass /\ pass \in [Client -> Pass]
      BY DEF TypeOK
  <1>2. /\ p \in Pass /\ p.pc = pc /\ p.todo = pass[c].todo /\ p.base = pass[c].base
        /\ p.name = pass[c].name /\ p.meta = pass[c].meta /\ p.conf = pass[c].conf
        /\ p.cmeta = pass[c].cmeta /\ p.local = pass[c].local /\ p.remote = pass[c].remote
      BY <1>1 DEF Pass
  <1>3. pass' = [pass EXCEPT ![c] = p]
      BY <1>1
  <1> HIDE DEF p
  <1>4. /\ pass' \in [Client -> Pass] /\ pass'[c] = p
        /\ \A d \in Client \ {c} : pass'[d] = pass[d]
    <2>1. p \in Pass
        BY <1>2
    <2> QED
        BY <1>1, <1>3, <2>1
  <1> QED
      BY <1>2, <1>4 DEF Now, Reached

\* File n of client c is overwritten with content d, not stamped yet.
Wrote(c, n, d) ==
    /\ local' \in [Client -> [Name -> File]] /\ \A e \in Client, m \in Name : IsFile(local'[e][m])
    /\ \A e \in Client, m \in Name : e # c \/ m # n => local'[e][m] = local[e][m]
    /\ local'[c][n].data = d /\ local'[c][n].mtime = Unstamped /\ Exists(local'[c][n])

LEMMA WroteAt ==
    ASSUME TypeOK, NEW c \in Client, NEW n \in Name, NEW d \in Nat \ {0},
           local' = [local EXCEPT ![c][n] = [data |-> d, mtime |-> Unstamped]]
    PROVE  Wrote(c, n, d)
  <1> DEFINE f == [data |-> d, mtime |-> Unstamped]
  <1>1. f \in File /\ f.data = d /\ f.mtime = Unstamped /\ Unstamped # 0
      BY DEF File, Unstamped
  <1>2. IsFile(f) /\ Exists(f)
      BY <1>1, NameFacts DEF IsFile, Exists
  <1>3. local' = [local EXCEPT ![c][n] = f]
      OBVIOUS
  <1> HIDE DEF f
  <1>4. /\ local' \in [Client -> [Name -> File]]
        /\ \A e \in Client, m \in Name : local'[e][m] = IF e = c /\ m = n THEN f ELSE local[e][m]
      BY <1>1, <1>3 DEF TypeOK
  <1>5. local'[c][n] = f
      BY <1>4
  <1>6. \A e \in Client, m \in Name : IsFile(local'[e][m])
      BY <1>2, <1>4, DirFacts
  <1> QED
      BY <1>1, <1>2, <1>4, <1>5, <1>6 DEF Wrote

\* File n of client c goes.
Cleared(c, n) ==
    /\ local' \in [Client -> [Name -> File]] /\ \A e \in Client, m \in Name : IsFile(local'[e][m])
    /\ \A e \in Client, m \in Name : e # c \/ m # n => local'[e][m] = local[e][m]
    /\ local'[c][n] = NoFile

LEMMA ClearedAt ==
    ASSUME TypeOK, NEW c \in Client, NEW n \in Name, local' = [local EXCEPT ![c][n] = NoFile]
    PROVE  Cleared(c, n)
  <1>1. /\ local' \in [Client -> [Name -> File]]
        /\ \A e \in Client, m \in Name : local'[e][m] = IF e = c /\ m = n THEN NoFile ELSE local[e][m]
      BY NameFacts DEF TypeOK
  <1>2. IsFile(NoFile)
      BY DEF IsFile
  <1> QED
      BY <1>1, <1>2, DirFacts DEF Cleared

\* The steps that decide a path by its listings alone.
LEMMA Decides ==
    ASSUME TypeOK, NEW c \in Client, NEW n \in Name
    PROVE  /\ Adopt(c, n) => Settled(c, n, pass[c].local[n])
           /\ Forget(c, n) => Settled(c, n, 0)
           /\ PushGone(c, n) \/ PullGone(c, n) => Skipped(c, n)
           /\ Diverged(c, n) \/ PushRefused(c, n) => Began(c, "cf_park", n, pass[c].remote[n])
  <1>1. pass[c].local[n] \in Nat /\ pass[c].remote[n] \in Nat /\ "cf_park" \in PassPC
      BY DirFacts DEF Pass, PassPC
  <1>2. Adopt(c, n) => Settled(c, n, pass[c].local[n])
      BY <1>1, SettledDone DEF Adopt
  <1>3. Forget(c, n) => Settled(c, n, 0)
      BY SettledDone DEF Forget
  <1>4. PushGone(c, n) \/ PullGone(c, n) => Skipped(c, n)
      BY SkippedDone DEF PushGone, PullGone
  <1>5. Diverged(c, n) \/ PushRefused(c, n) => Began(c, "cf_park", n, pass[c].remote[n])
      BY <1>1, BeganAt DEF Diverged, PushRefused
  <1> QED
      BY <1>2, <1>3, <1>4, <1>5

LEMMA PushDoes ==
    ASSUME TypeOK, NEW c \in Client, NEW n \in Name, Push(c, n)
    PROVE  Began(c, "push_stamp", n, clock + 1) /\ Stored(n, local[c][n].data)
  <1>1. clock + 1 \in Nat /\ "push_stamp" \in PassPC
      BY DEF TypeOK, PassPC
  <1>2. local[c][n].data \in Nat \ {0}
      BY DirFacts, FileFacts DEF Push
  <1> QED
      BY <1>1, <1>2, BeganAt, StoreFacts DEF Push

LEMMA StampDoes ==
    ASSUME TypeOK, NEW c \in Client, PushStamp(c) \/ PullStamp(c)
    PROVE  /\ pass[c].name \in Name /\ pass[c].meta \in Nat
           /\ Chtimed(c, pass[c].name, pass[c].meta)
           /\ Settled(c, pass[c].name, pass[c].meta)
  <1>1. pass[c].name \in Name /\ pass[c].meta \in Nat
      BY DirFacts DEF Pass
  <1> QED
      BY <1>1, SettledDone, StampedPuts DEF PushStamp, PullStamp

LEMMA DeleteRemoteDoes ==
    ASSUME TypeOK, NEW c \in Client, NEW n \in Name, DeleteRemote(c, n)
    PROVE  Discarded(n) /\ (Settled(c, n, 0) \/ Skipped(c, n))
  <1>1. Discarded(n)
      BY DiscardFacts DEF DeleteRemote
  <1>2. CASE Exists(remote[n])
    <2>1. Done(c, n, [pass[c].base EXCEPT ![n] = 0])
        BY <1>2 DEF DeleteRemote
    <2> QED
        BY <1>1, <2>1, SettledDone
  <1>3. CASE ~Exists(remote[n])
    <2>1. Done(c, n, pass[c].base)
        BY <1>3 DEF DeleteRemote
    <2> QED
        BY <1>1, <2>1, SkippedDone
  <1> QED
      BY <1>2, <1>3

LEMMA PullDoes ==
    ASSUME TypeOK, NEW c \in Client, NEW n \in Name, Pull(c, n)
    PROVE  /\ Began(c, "pull_stamp", n, pass[c].remote[n])
           /\ Wrote(c, n, remote[n].data) /\ remote[n].data # 0
  <1>1. pass[c].remote[n] \in Nat /\ "pull_stamp" \in PassPC
      BY DirFacts DEF Pass, PassPC
  <1>2. remote[n].data \in Nat \ {0}
      BY DirFacts, FileFacts DEF Pull
  <1> QED
      BY <1>1, <1>2, BeganAt, WroteAt DEF Pull

LEMMA TrashLocalDoes ==
    ASSUME TypeOK, NEW c \in Client, NEW n \in Name, TrashLocal(c, n)
    PROVE  /\ Cleared(c, n) /\ (Settled(c, n, 0) \/ Skipped(c, n))
           /\ bin' \in SUBSET Nat /\ bin \subseteq bin' /\ local[c][n].data \in bin' \cup {0}
  <1>1. Cleared(c, n)
      BY ClearedAt DEF TrashLocal
  <1>2. bin' \in SUBSET Nat /\ bin \subseteq bin' /\ local[c][n].data \in bin' \cup {0}
    <2>1. local[c][n].data \in Nat
        BY DirFacts, FileFacts
    <2> QED
        BY <2>1 DEF TrashLocal, TypeOK
  <1>3. CASE Exists(local[c][n])
    <2>1. Done(c, n, [pass[c].base EXCEPT ![n] = 0])
        BY <1>3 DEF TrashLocal
    <2> QED
        BY <1>1, <1>2, <2>1, SettledDone
  <1>4. CASE ~Exists(local[c][n])
    <2>1. Done(c, n, pass[c].base)
        BY <1>4 DEF TrashLocal
    <2> QED
        BY <1>1, <1>2, <2>1, SkippedDone
  <1> QED
      BY <1>3, <1>4

LEMMA GiveUpDoes ==
    ASSUME TypeOK, NEW c \in Client, GiveUp(c)
    PROVE  pass[c].name \in Name /\ Skipped(c, pass[c].name)
           /\ UNCHANGED <<sides, clock, copies, hot, edits, faults>>
  <1>1. pass[c].name \in Name
      BY DirFacts DEF Pass
  <1> QED
      BY <1>1, SkippedDone DEF GiveUp

\* Park, unless it gives up.
Parks(c) ==
    /\ pass[c].pc = "cf_park" /\ copies + 1 \in Name /\ Exists(local[c][pass[c].name])
    /\ pass[c].name \in Name /\ copies' = copies + 1
    /\ Stored(copies + 1, local[c][pass[c].name].data)
    /\ Now(c, "cf_pull", pass[c].name, pass[c].meta, copies + 1, clock + 1,
           pass[c].todo, pass[c].base)
    /\ UNCHANGED <<local, bin, base, hot, edits, faults>>

LEMMA ParkDoes ==
    ASSUME TypeOK, NEW c \in Client, Park(c)
    PROVE  Parks(c) \/ GiveUp(c)
  <1> DEFINE n == pass[c].name
             p == [pass[c] EXCEPT !.pc = "cf_pull", !.conf = copies + 1, !.cmeta = clock + 1]
  <1> SUFFICES ASSUME ~GiveUp(c) PROVE Parks(c)
      OBVIOUS
  <1>1. n \in Name /\ clock + 1 \in Nat /\ copies \in Nat
      BY DirFacts, SyncBoundAssumption DEF Pass, TypeOK
  <1>2. /\ pass[c].pc = "cf_park" /\ Exists(local[c][n]) /\ copies < MaxCopies
        /\ Store(copies + 1, local[c][n].data) /\ copies' = copies + 1
        /\ UNCHANGED <<local, bin, base, hot, edits, faults>>
        /\ pass' = [pass EXCEPT ![c].pc = "cf_pull", ![c].conf = copies + 1, ![c].cmeta = clock + 1]
      BY DEF Park
  <1>3. copies + 1 \in Name
      BY <1>1, <1>2, SyncBoundAssumption DEF Name
  <1>4. local[c][n].data \in Nat \ {0}
      BY <1>1, <1>2, DirFacts, FileFacts
  <1>5. Stored(copies + 1, local[c][n].data)
      BY <1>2, <1>3, <1>4, StoreFacts
  <1>6. pass[c] \in Pass /\ pass \in [Client -> Pass]
      BY DEF TypeOK
  <1>7. /\ p \in Pass /\ p.pc = "cf_pull" /\ p.todo = pass[c].todo /\ p.base = pass[c].base
        /\ p.name = n /\ p.meta = pass[c].meta /\ p.conf = copies + 1
        /\ p.cmeta = clock + 1 /\ p.local = pass[c].local /\ p.remote = pass[c].remote
      BY <1>1, <1>3, <1>6 DEF Pass, PassPC
  <1>8. pass' = [pass EXCEPT ![c] = p]
      BY <1>2, <1>6
  <1> HIDE DEF p
  <1>9. Now(c, "cf_pull", n, pass[c].meta, copies + 1, clock + 1, pass[c].todo, pass[c].base)
      BY <1>6, <1>7, <1>8 DEF Now
  <1> QED
      BY <1>1, <1>2, <1>3, <1>5, <1>9 DEF Parks

LEMMA ConflictPullDoes ==
    ASSUME TypeOK, NEW c \in Client, ConflictPull(c)
    PROVE  /\ pass[c].name \in Name
           /\ \/ GiveUp(c)
              \/ /\ Reached(c, "cf_stat") /\ Wrote(c, pass[c].name, remote[pass[c].name].data)
                 /\ remote[pass[c].name].data # 0
                 /\ UNCHANGED <<bin, base, remote, archive, clock, copies, hot, edits, faults>>
  <1>1. pass[c].name \in Name /\ "cf_stat" \in PassPC
      BY DirFacts DEF Pass, PassPC
  <1>2. CASE ~Exists(remote[pass[c].name])
      BY <1>1, <1>2 DEF ConflictPull
  <1>3. CASE Exists(remote[pass[c].name])
    <2>1. remote[pass[c].name].data \in Nat \ {0}
        BY <1>1, <1>3, DirFacts, FileFacts
    <2> QED
        BY <1>1, <1>3, <2>1, WroteAt, ReachedAt DEF ConflictPull
  <1> QED
      BY <1>2, <1>3

\* The stamp for a path that was in conflict.
StatTime(c) == LET n == pass[c].name
               IN IF Exists(remote[n]) THEN remote[n].mtime ELSE pass[c].meta

LEMMA ConflictStatDoes ==
    ASSUME TypeOK, NEW c \in Client, ConflictStat(c)
    PROVE  /\ pass[c].name \in Name /\ StatTime(c) \in Nat
           /\ Began(c, "cf_mirror", pass[c].name, StatTime(c))
           /\ Chtimed(c, pass[c].name, StatTime(c))
  <1>1. pass[c].name \in Name /\ pass[c].meta \in Nat /\ "cf_mirror" \in PassPC
      BY DirFacts DEF Pass, PassPC
  <1>2. StatTime(c) \in Nat
      BY <1>1, DirFacts, FileFacts DEF StatTime
  <1>3. local' = Stamped(c, pass[c].name, StatTime(c))
        /\ pass' = [pass EXCEPT ![c].pc = "cf_mirror", ![c].meta = StatTime(c)]
      BY DEF ConflictStat, StatTime
  <1>4. pass' = [pass EXCEPT ![c].pc = "cf_mirror", ![c].name = pass[c].name, ![c].meta = StatTime(c)]
    <2>1. pass \in [Client -> Pass] /\ pass[c] \in Pass
        BY DEF TypeOK
    <2>2. [pass[c] EXCEPT !.name = pass[c].name] = pass[c]
        BY <2>1 DEF Pass
    <2> QED
        BY <1>3, <2>1, <2>2
  <1> QED
      BY <1>1, <1>2, <1>3, <1>4, BeganAt, StampedPuts

LEMMA ConflictMirrorDoes ==
    ASSUME TypeOK, NEW c \in Client, ConflictMirror(c)
    PROVE  /\ pass[c].conf \in Name
           /\ \/ GiveUp(c)
              \/ /\ Reached(c, "cf_stamp") /\ Wrote(c, pass[c].conf, remote[pass[c].conf].data)
                 /\ remote[pass[c].conf].data # 0
                 /\ UNCHANGED <<bin, base, remote, archive, clock, copies, hot, edits, faults>>
  <1>1. pass[c].conf \in Name /\ "cf_stamp" \in PassPC
      BY DirFacts DEF Pass, PassPC
  <1>2. CASE ~Exists(remote[pass[c].conf])
      BY <1>1, <1>2 DEF ConflictMirror
  <1>3. CASE Exists(remote[pass[c].conf])
    <2>1. remote[pass[c].conf].data \in Nat \ {0}
        BY <1>1, <1>3, DirFacts, FileFacts
    <2> QED
        BY <1>1, <1>3, <2>1, WroteAt, ReachedAt DEF ConflictMirror
  <1> QED
      BY <1>2, <1>3

LEMMA ConflictDoneDoes ==
    ASSUME TypeOK, NEW c \in Client, ConflictDone(c)
    PROVE  /\ pass[c].name \in Name /\ pass[c].conf \in Name
           /\ pass[c].meta \in Nat /\ pass[c].cmeta \in Nat
           /\ Chtimed(c, pass[c].conf, pass[c].cmeta)
           /\ Now(c, "pick", pass[c].name, pass[c].meta, pass[c].conf, pass[c].cmeta,
                  pass[c].todo \ {pass[c].name},
                  [pass[c].base EXCEPT ![pass[c].name] = pass[c].meta, ![pass[c].conf] = pass[c].cmeta])
  <1>1. /\ pass[c].name \in Name /\ pass[c].conf \in Name
        /\ pass[c].meta \in Nat /\ pass[c].cmeta \in Nat /\ pass[c].base \in [Name -> Nat]
      BY DirFacts DEF Pass
  <1> QED
      BY <1>1, StampedPuts, NowDone DEF ConflictDone

\* A pass begins with what it finds in its directory, ...
Walked(c) ==
    /\ pass' \in [Client -> Pass] /\ \A d \in Client \ {c} : pass'[d] = pass[d]
    /\ pass'[c].pc = "listed" /\ pass'[c].base = base[c] /\ pass'[c].todo = {}
    /\ pass'[c].meta = 0 /\ pass'[c].cmeta = 0 /\ pass'[c].remote = Nothing
    /\ \A n \in Name : pass'[c].local[n] = local[c][n].mtime

LEMMA WalkLocalDoes ==
    ASSUME TypeOK, NEW c \in Client, WalkLocal(c)
    PROVE  Walked(c)
  <1> DEFINE l == [n \in Name |-> local[c][n].mtime]
             p == [NoPass EXCEPT !.pc = "listed", !.base = base[c], !.local = l]
  <1>1. l \in [Name -> Nat] /\ base[c] \in [Name -> Nat] /\ pass \in [Client -> Pass]
      BY DirFacts, FileFacts DEF TypeOK
  <1>2. \A n \in Name : l[n] = local[c][n].mtime
      OBVIOUS
  <1>3. pass' = [pass EXCEPT ![c] = p]
      BY DEF WalkLocal
  <1> HIDE DEF l
  <1>4. /\ p \in Pass /\ p.pc = "listed" /\ p.base = base[c] /\ p.local = l /\ p.todo = {}
        /\ p.meta = 0 /\ p.cmeta = 0 /\ p.remote = Nothing
      BY <1>1, NameFacts DEF Pass, PassPC
  <1> HIDE DEF p
  <1>5. /\ pass' \in [Client -> Pass] /\ pass'[c] = p
        /\ \A d \in Client \ {c} : pass'[d] = pass[d]
      BY <1>1, <1>3, <1>4
  <1> QED
      BY <1>2, <1>4, <1>5 DEF Walked

\* ... then with what the drive has.
Compared(c) ==
    /\ pass' \in [Client -> Pass] /\ \A d \in Client \ {c} : pass'[d] = pass[d]
    /\ pass'[c].pc = "pick" /\ pass'[c].local = pass[c].local /\ pass'[c].base = pass[c].base
    /\ pass'[c].meta = pass[c].meta /\ pass'[c].cmeta = pass[c].cmeta
    /\ \A n \in Name : /\ pass'[c].remote[n] = remote[n].mtime
                       /\ n \in pass'[c].todo <=> \/ pass[c].local[n] # pass[c].base[n]
                                                  \/ remote[n].mtime # pass[c].base[n]

LEMMA WalkRemoteDoes ==
    ASSUME TypeOK, NEW c \in Client, WalkRemote(c)
    PROVE  Compared(c)
  <1> DEFINE r == [n \in Name |-> remote[n].mtime]
             T == {n \in Name : pass[c].local[n] # pass[c].base[n] \/ r[n] # pass[c].base[n]}
             p == [pass[c] EXCEPT !.pc = "pick", !.remote = r, !.todo = T]
  <1>1. r \in [Name -> Nat] /\ pass[c] \in Pass /\ pass \in [Client -> Pass] /\ T \in SUBSET Name
      BY DirFacts, FileFacts DEF TypeOK
  <1>2. \A n \in Name : r[n] = remote[n].mtime
      OBVIOUS
  <1>3. pass' = [pass EXCEPT ![c] = p]
      BY <1>1 DEF WalkRemote
  <1>4. \A n \in Name : n \in T <=> \/ pass[c].local[n] # pass[c].base[n]
                                    \/ remote[n].mtime # pass[c].base[n]
      BY <1>2
  <1> HIDE DEF r, T
  <1>5. /\ p \in Pass /\ p.pc = "pick" /\ p.base = pass[c].base /\ p.local = pass[c].local
        /\ p.todo = T /\ p.meta = pass[c].meta /\ p.cmeta = pass[c].cmeta /\ p.remote = r
      BY <1>1 DEF Pass, PassPC
  <1> HIDE DEF p
  <1>6. /\ pass' \in [Client -> Pass] /\ pass'[c] = p
        /\ \A d \in Client \ {c} : pass'[d] = pass[d]
      BY <1>1, <1>3, <1>5
  <1> QED
      BY <1>2, <1>4, <1>5, <1>6 DEF Compared

\* A pass is over, to the end or not.
Ended(c) ==
    /\ pass' \in [Client -> Pass] /\ pass'[c] = NoPass
    /\ \A d \in Client \ {c} : pass'[d] = pass[d]

LEMMA EndedAt ==
    ASSUME TypeOK, NEW c \in Client, pass' = [pass EXCEPT ![c] = NoPass]
    PROVE  Ended(c)
  BY NameFacts DEF TypeOK, Ended

\* A user writes a file of client c, which no pass has seen.
Edited(c) ==
    /\ local' \in [Client -> [Name -> File]] /\ \A e \in Client, m \in Name : IsFile(local'[e][m])
    /\ \A e \in Client, m \in Name : e # c \/ m # Main => local'[e][m] = local[e][m]
    /\ local'[c][Main].data = clock + 1 /\ local'[c][Main].mtime = clock + 1
    /\ clock' = clock + 1 /\ clock' \in Nat \ {0}

LEMMA EditDoes ==
    ASSUME TypeOK, NEW c \in Client, Edit(c)
    PROVE  Edited(c)
  <1> DEFINE f == [data |-> clock + 1, mtime |-> clock + 1]
  <1>1. clock \in Nat /\ f \in File /\ f.data = clock + 1 /\ f.mtime = clock + 1 /\ clock + 1 # 0
      BY DEF File, TypeOK
  <1>2. IsFile(f) /\ local' = [local EXCEPT ![c][Main] = f] /\ clock' = clock + 1
      BY <1>1 DEF IsFile, Edit
  <1> HIDE DEF f
  <1>3. /\ local' \in [Client -> [Name -> File]]
        /\ \A e \in Client, m \in Name : local'[e][m] = IF e = c /\ m = Main THEN f ELSE local[e][m]
      BY <1>1, <1>2, NameFacts DEF TypeOK
  <1>4. local'[c][Main] = f
      BY <1>3, NameFacts
  <1>5. \A e \in Client, m \in Name : IsFile(local'[e][m])
      BY <1>2, <1>3, DirFacts
  <1> QED
      BY <1>1, <1>2, <1>3, <1>4, <1>5 DEF Edited

-----------------------------------------------------------------------------
(* Types                                                                     *)

LEMMA InitTypes == Init => TypeOK
  <1> SUFFICES ASSUME Init PROVE TypeOK
      OBVIOUS
  <1>1. IsFile(NoFile) /\ Unstamped \in Nat \ {0}
      BY DEF IsFile, Unstamped
  <1> QED
      BY <1>1, NameFacts, SyncBoundAssumption DEF Init, TypeOK

LEMMA StepTypes == TypeOK /\ [Next]_vars => TypeOK'
  <1> SUFFICES ASSUME TypeOK, [Next]_vars PROVE TypeOK'
      OBVIOUS
  <1> USE DEF sides
  <1>1. CASE UNCHANGED vars
      BY <1>1 DEF vars, TypeOK
  <1>2. ASSUME NEW c \in Client, NEW n \in Name,
               \/ Adopt(c, n) \/ Diverged(c, n) \/ PushRefused(c, n) \/ PushGone(c, n)
               \/ PullGone(c, n) \/ Forget(c, n)
        PROVE  TypeOK'
    <2>1. UNCHANGED <<sides, clock, copies, hot, edits, faults>>
        BY <1>2 DEF Adopt, Diverged, PushRefused, PushGone, PullGone, Forget
    <2>2. pass' \in [Client -> Pass]
        BY <1>2, Decides DEF Now, Settled, Skipped, Began
    <2> QED
        BY <2>1, <2>2 DEF TypeOK
  <1>3. ASSUME NEW c \in Client, NEW n \in Name, Push(c, n)
        PROVE  TypeOK'
      BY <1>3, PushDoes DEF Push, Began, Now, Stored, TypeOK
  <1>4. ASSUME NEW c \in Client, PushStamp(c) \/ PullStamp(c)
        PROVE  TypeOK'
      BY <1>4, StampDoes DEF PushStamp, PullStamp, Settled, Now, Chtimed, TypeOK
  <1>5. ASSUME NEW c \in Client, NEW n \in Name, DeleteRemote(c, n)
        PROVE  TypeOK'
      BY <1>5, DeleteRemoteDoes DEF DeleteRemote, Discarded, Settled, Skipped, Now, TypeOK
  <1>6. ASSUME NEW c \in Client, NEW n \in Name, Pull(c, n)
        PROVE  TypeOK'
      BY <1>6, PullDoes DEF Pull, Began, Now, Wrote, TypeOK
  <1>7. ASSUME NEW c \in Client, NEW n \in Name, TrashLocal(c, n)
        PROVE  TypeOK'
      BY <1>7, TrashLocalDoes DEF TrashLocal, Cleared, Settled, Skipped, Now, TypeOK
  <1>8. ASSUME NEW c \in Client, GiveUp(c)
        PROVE  TypeOK'
      BY <1>8, GiveUpDoes DEF Skipped, Now, TypeOK
  <1>9. ASSUME NEW c \in Client, Park(c)
        PROVE  TypeOK'
    <2>1. CASE Parks(c)
      <3>1. copies' \in 0..MaxCopies
          BY <2>1 DEF Parks, Name
      <3> QED
          BY <2>1, <3>1 DEF Parks, Stored, Now, TypeOK
    <2> QED
        BY <1>8, <1>9, <2>1, ParkDoes
  <1>10. ASSUME NEW c \in Client, ConflictPull(c)
         PROVE  TypeOK'
      BY <1>8, <1>10, ConflictPullDoes DEF Reached, Now, Wrote, TypeOK
  <1>11. ASSUME NEW c \in Client, ConflictStat(c)
         PROVE  TypeOK'
      BY <1>11, ConflictStatDoes DEF ConflictStat, Began, Now, Chtimed, TypeOK
  <1>12. ASSUME NEW c \in Client, ConflictMirror(c)
         PROVE  TypeOK'
      BY <1>8, <1>12, ConflictMirrorDoes DEF Reached, Now, Wrote, TypeOK
  <1>13. ASSUME NEW c \in Client, ConflictDone(c)
         PROVE  TypeOK'
      BY <1>13, ConflictDoneDoes DEF ConflictDone, Now, Chtimed, TypeOK
  <1>14. ASSUME NEW c \in Client, WalkLocal(c) \/ WalkRemote(c)
         PROVE  TypeOK'
    <2>1. UNCHANGED <<sides, clock, copies, hot, edits, faults>>
        BY <1>14 DEF WalkLocal, WalkRemote
    <2>2. pass' \in [Client -> Pass]
        BY <1>14, WalkLocalDoes, WalkRemoteDoes DEF Walked, Compared
    <2> QED
        BY <2>1, <2>2 DEF TypeOK
  <1>15. ASSUME NEW c \in Client, Save(c)
         PROVE  TypeOK'
    <2>1. pass' \in [Client -> Pass]
        BY <1>15, EndedAt DEF Save, Ended
    <2>2. base' \in [Client -> [Name -> Nat]]
        BY <1>15, DirFacts DEF Save, Pass, TypeOK
    <2> QED
        BY <1>15, <2>1, <2>2 DEF Save, TypeOK
  <1>16. ASSUME NEW c \in Client, Interrupt(c) \/ LoseBaseline(c)
         PROVE  TypeOK'
    <2>1. pass' \in [Client -> Pass]
        BY <1>16, EndedAt DEF Interrupt, Ended, LoseBaseline, TypeOK
    <2>2. base' \in [Client -> [Name -> Nat]]
        BY <1>16, NameFacts DEF Interrupt, LoseBaseline, TypeOK
    <2>3. faults' \in 0..MaxFaults /\ UNCHANGED <<local, bin, remote, archive, clock, copies, hot, edits>>
        BY <1>16, SyncBoundAssumption DEF Interrupt, LoseBaseline, TypeOK
    <2> QED
        BY <2>1, <2>2, <2>3 DEF TypeOK
  <1>17. ASSUME NEW c \in Client, Edit(c)
         PROVE  TypeOK'
    <2>1. clock + 1 \in Nat /\ hot' \in SUBSET Nat
        BY <1>17 DEF Edit, TypeOK
    <2>2. edits' \in 0..MaxEdits
        BY <1>17, SyncBoundAssumption DEF Edit, MayEdit, TypeOK
    <2>3. UNCHANGED <<bin, base, remote, archive, pass, copies, faults>>
        BY <1>17 DEF Edit
    <2> QED
        BY <1>17, <2>1, <2>2, <2>3, EditDoes DEF Edited, TypeOK
  <1>18. ASSUME NEW c \in Client, Remove(c)
         PROVE  TypeOK'
    <2>1. edits' \in 0..MaxEdits
        BY <1>18, SyncBoundAssumption DEF Remove, MayEdit, TypeOK
    <2>2. Cleared(c, Main) /\ UNCHANGED <<bin, base, remote, archive, pass, clock, copies, hot, faults>>
        BY <1>18, ClearedAt, NameFacts DEF Remove
    <2> QED
        BY <2>1, <2>2 DEF Cleared, TypeOK
  <1>19. CASE WebPut \/ WebRemove
    <2>1. clock + 1 \in Nat \ {0}
        BY DEF TypeOK
    <2>2. edits' \in 0..MaxEdits
        BY <1>19, SyncBoundAssumption DEF WebPut, WebRemove, TypeOK
    <2>3. CASE WebPut
        BY <2>1, <2>2, <2>3, NameFacts, StoreFacts DEF WebPut, Stored, TypeOK
    <2>4. CASE WebRemove
        BY <2>2, <2>4, NameFacts, DiscardFacts DEF WebRemove, Discarded, TypeOK
    <2> QED
        BY <1>19, <2>3, <2>4
  <1> QED
      BY <1>1, <1>2, <1>3, <1>4, <1>5, <1>6, <1>7, <1>9, <1>10, <1>11, <1>12, <1>13, <1>14,
         <1>15, <1>16, <1>17, <1>18, <1>19 DEF Next, UserStep, PassStep

\* Every variable of the sync holds a value of its kind, and no failed download
\* passes for a file.
THEOREM TypeCorrect == Spec => []TypeOK
  BY InitTypes, StepTypes, PTL DEF Spec

-----------------------------------------------------------------------------
(* Nothing is lost                                                           *)

\* The seconds there may be after a step.
Seconds == Stamps \cup {0} \cup {t \in Nat : clock < t /\ t <= clock'}

\* What the server held it holds, and what the clients hold they held or it is
\* secure.
Keeps == /\ clock <= clock' /\ Secure \subseteq Secure' /\ Stamps' \subseteq Seconds
         /\ \A c \in Client, n \in Name :
              \/ local'[c][n] = local[c][n]
              \/ local'[c][n].data \in Secure' /\ local'[c][n].mtime <= clock'

LEMMA StampsHave ==
    /\ \A n \in Name : remote[n].mtime \in Seconds
    /\ \A c \in Client, n \in Name :
         base[c][n] \in Seconds /\ pass[c].base[n] \in Seconds /\ pass[c].remote[n] \in Seconds
    /\ \A c \in Client : pass[c].meta \in Seconds /\ pass[c].cmeta \in Seconds
    /\ 0 \in Seconds
  BY DEF Stamps, Seconds

LEMMA StampsWithin ==
    ASSUME \A n \in Name : remote'[n].mtime \in Seconds,
           \A c \in Client, n \in Name : base'[c][n] \in Seconds,
           \A c \in Client, n \in Name : pass'[c].base[n] \in Seconds,
           \A c \in Client, n \in Name : pass'[c].remote[n] \in Seconds,
           \A c \in Client : pass'[c].meta \in Seconds,
           \A c \in Client : pass'[c].cmeta \in Seconds
    PROVE  Stamps' \subseteq Seconds
  BY DEF Stamps

\* Of a pass that moves, only what it moves to matters.
LEMMA StampsNow ==
    ASSUME TypeOK, NEW c \in Client, NEW pc, NEW n, NEW m \in Seconds, NEW k, NEW s \in Seconds,
           NEW T, NEW b, Now(c, pc, n, m, k, s, T, b), \A e \in Name : b[e] \in Seconds,
           base' = base, \A e \in Name : remote'[e].mtime \in Seconds
    PROVE  Stamps' \subseteq Seconds
  <1>1. \A d \in Client, e \in Name : base'[d][e] \in Seconds
      BY StampsHave
  <1>2. \A d \in Client, e \in Name : pass'[d].base[e] \in Seconds /\ pass'[d].remote[e] \in Seconds
      BY StampsHave DEF Now
  <1>3. \A d \in Client : pass'[d].meta \in Seconds /\ pass'[d].cmeta \in Seconds
      BY StampsHave DEF Now
  <1> QED
      BY <1>1, <1>2, <1>3, StampsWithin

LEMMA AgesKept == IInv /\ TypeOK' /\ Keeps => Ages' /\ Marked'
  <1> SUFFICES ASSUME IInv, TypeOK', Keeps PROVE Ages' /\ Marked'
      OBVIOUS
  <1>1. clock \in Nat /\ clock' \in Nat /\ clock <= clock' /\ clock' # 0
      BY DEF IInv, TypeOK, Keeps
  <1>2. \A t \in Stamps : t \in Nat /\ t <= clock
      BY DirFacts, FileFacts DEF IInv, TypeOK, Guarded, Ages, Stamps, Pass
  <1>3. \A t \in Seconds : t <= clock'
      BY <1>1, <1>2 DEF Seconds
  <1>4. \A c \in Client, n \in Name : /\ local[c][n].mtime \in Nat /\ local[c][n].mtime <= clock
                                      /\ local[c][n].mtime = 0 => local[c][n].data = 0
      BY DirFacts, FileFacts DEF IInv, Guarded, Ages
  <1>5. Ages'
    <2>1. \A t \in Stamps' : t <= clock'
        BY <1>3 DEF Keeps
    <2>2. \A c \in Client, n \in Name : local'[c][n].mtime <= clock'
        BY <1>1, <1>4 DEF Keeps
    <2> QED
        BY <2>1, <2>2 DEF Ages
  <1>6. ASSUME NEW c \in Client, NEW n \in Name, local'[c][n].data \notin Secure'
        PROVE  n = Main /\ local'[c][n].mtime \notin Stamps'
    <2>1. local'[c][n] = local[c][n] /\ local[c][n].data \notin Secure
        BY <1>6 DEF Keeps
    <2>2. n = Main /\ local[c][n].mtime \notin Stamps
        BY <2>1 DEF IInv, Guarded, Marked
    <2>3. local[c][n].mtime # 0
        BY <1>4, <2>1 DEF Secure
    <2>4. local[c][n].mtime \notin Seconds
        BY <1>1, <1>4, <2>2, <2>3 DEF Seconds
    <2> QED
        BY <2>1, <2>2, <2>4 DEF Keeps
  <1> QED
      BY <1>5, <1>6 DEF Marked

LEMMA SoundKept ==
    ASSUME NEW d \in Client, Sound(d), Secure \subseteq Secure', pass'[d] = pass[d],
           \A n \in Name : local'[d][n] = local[d][n], pass[d].name \in Name
    PROVE  Sound(d)'
  BY DEF Sound

\* A pass that moves on keeps its listing; where it gets to decides the rest.
LEMMA SoundMoves ==
    ASSUME NEW c \in Client, Sound(c), Keeps, pass[c].pc # "idle",
           NEW pc, NEW n \in Name, NEW m, NEW k, NEW s, NEW T, NEW b, Now(c, pc, n, m, k, s, T, b),
           pc \in {"push_stamp", "pull_stamp", "cf_pull", "cf_stat"} => local'[c][n].data \in Secure',
           pc \in Parked => k # Main
    PROVE  Sound(c)'
  <1>1. \A e \in Name : local'[c][e].data \in Secure' \/ local'[c][e].mtime = pass'[c].local[e]
      BY DEF Sound, Keeps, Now
  <1> QED
      BY <1>1 DEF Sound, Now

\* The server forgets nothing, whatever it stores or deletes.
LEMMA ServerKeeps ==
    ASSUME TypeOK, hot \subseteq hot',
           \/ UNCHANGED <<remote, archive>>
           \/ \E n \in Name : Discarded(n) \/ \E d \in Nat : Stored(n, d)
    PROVE  Server \subseteq Server' /\ Secure \subseteq Secure'
  <1>1. CASE UNCHANGED <<remote, archive>>
      BY <1>1 DEF Secure, Server, Contents
  <1>2. ASSUME NEW n \in Name, Discarded(n) \/ \E d \in Nat : Stored(n, d)
        PROVE  Server \subseteq Server'
    <2>1. /\ \A m \in Name \ {n} : remote'[m] = remote[m]
          /\ archive \subseteq archive' /\ remote[n].data \in archive' \cup {0}
        BY <1>2 DEF Discarded, Stored
    <2> QED
        BY <2>1 DEF Server, Contents
  <1> QED
      BY <1>1, <1>2 DEF Secure

\* Only client c moves.
Alone(c) == \A d \in Client \ {c} :
    pass'[d] = pass[d] /\ \A n \in Name : local'[d][n] = local[d][n]

LEMMA GuardedAfter ==
    ASSUME IInv, TypeOK', NEW c \in Client, Keeps, Alone(c), Sound(c)'
    PROVE  Guarded'
  <1>1. \A d \in Client \ {c} : Sound(d)'
      BY SoundKept, DirFacts DEF IInv, Guarded, Keeps, Alone, Pass
  <1> QED
      BY <1>1, AgesKept DEF Guarded

\* The contents a step must not touch while they are only in a directory: a file
\* that was listed and has not changed since is not one of them.
LEMMA Unedited ==
    ASSUME IInv, NEW c \in Client, NEW n \in Name, At(c, n), ~LChanged(c, n)
    PROVE  local[c][n].data \in Secure
  <1>1. CASE pass[c].local[n] = 0
    <2>1. local[c][n].mtime = 0 => local[c][n].data = 0
        BY DirFacts, FileFacts DEF IInv
    <2> QED
        BY <1>1, <2>1 DEF IInv, Guarded, Sound, At, Secure
  <1>2. CASE pass[c].local[n] = pass[c].base[n]
    <2>1. pass[c].base[n] \in Stamps
        BY DEF Stamps
    <2> QED
        BY <1>2, <2>1 DEF IInv, Guarded, Marked, Sound, At
  <1> QED
      BY <1>1, <1>2 DEF LChanged

-----------------------------------------------------------------------------
(* The invariant, step by step                                               *)

LEMMA DecidesKeeps ==
    ASSUME IInv, TypeOK', NEW c \in Client, NEW n \in Name,
           \/ Adopt(c, n) \/ Diverged(c, n) \/ PushRefused(c, n) \/ PushGone(c, n)
           \/ PullGone(c, n) \/ Forget(c, n)
    PROVE  Guarded'
  <1> DEFINE b == pass[c].local[n]
  <1>1. TypeOK /\ pass[c] \in Pass /\ UNCHANGED <<sides, clock, hot>> /\ pass[c].pc = "pick"
      BY DirFacts DEF IInv, Adopt, Diverged, PushRefused, PushGone, PullGone, Forget, At
  <1>2. \A e \in Name : remote'[e].mtime \in Seconds /\ pass[c].base[e] \in Seconds
      BY <1>1, StampsHave DEF sides
  <1>3. Adopt(c, n) => b \in Seconds
      BY StampsHave DEF Adopt
  <1>4. Stamps' \subseteq Seconds
    <2>1. CASE Adopt(c, n)
      <3>1. Settled(c, n, b)
          BY <1>1, <2>1, Decides
      <3>2. \A e \in Name : [pass[c].base EXCEPT ![n] = b][e] \in Seconds
          BY <1>1, <1>2, <1>3, <2>1 DEF Pass
      <3> QED
          BY <1>1, <1>2, <3>1, <3>2, StampsNow, StampsHave DEF Settled, sides
    <2>2. CASE Forget(c, n)
      <3>1. Settled(c, n, 0)
          BY <1>1, <2>2, Decides
      <3>2. \A e \in Name : [pass[c].base EXCEPT ![n] = 0][e] \in Seconds
          BY <1>1, <1>2, StampsHave DEF Pass
      <3> QED
          BY <1>1, <1>2, <3>1, <3>2, StampsNow, StampsHave DEF Settled, sides
    <2>3. CASE PushGone(c, n) \/ PullGone(c, n)
        BY <1>1, <1>2, <2>3, Decides, StampsNow, StampsHave DEF Skipped, sides
    <2>4. CASE Diverged(c, n) \/ PushRefused(c, n)
      <3>1. pass[c].remote[n] \in Seconds
          BY StampsHave
      <3> QED
          BY <1>1, <1>2, <2>4, <3>1, Decides, StampsNow, StampsHave DEF Began, sides
    <2> QED
        BY <2>1, <2>2, <2>3, <2>4
  <1>5. Keeps
      BY <1>1, <1>4, ServerKeeps DEF Keeps, sides, TypeOK
  <1>6. Sound(c) /\ pass[c].pc # "idle"
      BY <1>1 DEF IInv, Guarded
  <1>7. Sound(c)' /\ Alone(c)
    <2>1. CASE Adopt(c, n)
      <3>1. Settled(c, n, b)
          BY <1>1, <2>1, Decides
      <3> QED
          BY <1>1, <1>5, <1>6, <3>1, SoundMoves DEF Settled, Parked, Alone, Now, sides, Pass
    <2>2. CASE Forget(c, n)
      <3>1. Settled(c, n, 0)
          BY <1>1, <2>2, Decides
      <3> QED
          BY <1>1, <1>5, <1>6, <3>1, SoundMoves DEF Settled, Parked, Alone, Now, sides, Pass
    <2>3. CASE PushGone(c, n) \/ PullGone(c, n)
      <3>1. Skipped(c, n)
          BY <1>1, <2>3, Decides
      <3> QED
          BY <1>1, <1>5, <1>6, <3>1, SoundMoves DEF Skipped, Parked, Alone, Now, sides, Pass
    <2>4. CASE Diverged(c, n) \/ PushRefused(c, n)
      <3>1. Began(c, "cf_park", n, pass[c].remote[n])
          BY <1>1, <2>4, Decides
      <3> QED
          BY <1>1, <1>5, <1>6, <3>1, SoundMoves DEF Began, Parked, Alone, Now, sides
    <2> QED
        BY <2>1, <2>2, <2>3, <2>4
  <1> QED
      BY <1>5, <1>7, GuardedAfter

LEMMA PushKeeps ==
    ASSUME IInv, TypeOK', NEW c \in Client, NEW n \in Name, Push(c, n)
    PROVE  Guarded'
  <1>1. TypeOK /\ pass[c] \in Pass /\ UNCHANGED <<local, base, hot>> /\ pass[c].pc = "pick"
      BY DirFacts DEF IInv, Push, At
  <1>2. Began(c, "push_stamp", n, clock + 1) /\ Stored(n, local[c][n].data)
        /\ local[c][n].data \in Nat
      BY <1>1, PushDoes, DirFacts, FileFacts
  <1>3. clock \in Nat /\ clock + 1 \in Seconds
      BY <1>1, <1>2 DEF Seconds, Stored, TypeOK
  <1>4. \A e \in Name : remote'[e].mtime \in Seconds /\ pass[c].base[e] \in Seconds
      BY <1>2, <1>3, StampsHave DEF Stored
  <1>5. Stamps' \subseteq Seconds
      BY <1>1, <1>2, <1>3, <1>4, StampsNow, StampsHave DEF Began
  <1>6. Keeps
    <2>1. Secure \subseteq Secure'
        BY <1>1, <1>2, ServerKeeps
    <2> QED
        BY <1>1, <1>2, <1>3, <1>5, <2>1 DEF Keeps, Stored
  <1>7. local'[c][n].data \in Secure'
      BY <1>1, <1>2 DEF Stored, Secure, Server, Contents
  <1>8. Sound(c)' /\ Alone(c)
      BY <1>1, <1>2, <1>6, <1>7, SoundMoves DEF Began, Parked, Alone, Now, IInv, Guarded
  <1> QED
      BY <1>6, <1>8, GuardedAfter

\* os.Chtimes stamps a file that is needed no more.
LEMMA ChtimedKeeps ==
    ASSUME IInv, TypeOK', NEW c \in Client, NEW n \in Name, NEW t \in Seconds,
           Chtimed(c, n, t), local[c][n].data \in Secure, t \in Nat, t <= clock,
           UNCHANGED <<remote, archive, clock, hot>>, Stamps' \subseteq Seconds
    PROVE  Keeps
  <1>1. Secure \subseteq Secure' /\ clock \in Nat /\ clock >= Unstamped
      BY ServerKeeps DEF IInv, TypeOK, Unstamped
  <1>2. local'[c][n].data \in Secure'
      BY <1>1 DEF Chtimed
  <1>3. CASE Exists(local[c][n])
    <2>1. local'[c][n].mtime <= clock'
        BY <1>1, <1>3 DEF Chtimed
    <2> QED
        BY <1>1, <1>2, <2>1 DEF Keeps, Chtimed
  <1>4. CASE ~Exists(local[c][n])
    <2>1. local'[c][n].mtime = 0
        BY <1>4, FileFacts DEF Chtimed
    <2> QED
        BY <1>1, <1>2, <2>1 DEF Keeps, Chtimed
  <1> QED
      BY <1>3, <1>4

LEMMA StampKeeps ==
    ASSUME IInv, TypeOK', NEW c \in Client, PushStamp(c) \/ PullStamp(c)
    PROVE  Guarded'
  <1> DEFINE n == pass[c].name
             t == pass[c].meta
  <1>1. /\ TypeOK /\ pass[c] \in Pass /\ pass[c].pc \in {"push_stamp", "pull_stamp"}
        /\ UNCHANGED <<base, remote, archive, clock, hot>>
      BY DirFacts DEF IInv, PushStamp, PullStamp
  <1>2. n \in Name /\ t \in Nat /\ Chtimed(c, n, t) /\ Settled(c, n, t)
      BY <1>1, StampDoes
  <1>3. t \in Seconds /\ t <= clock
      BY StampsHave DEF IInv, Guarded, Ages, Stamps
  <1>4. \A e \in Name : remote'[e].mtime \in Seconds /\ [pass[c].base EXCEPT ![n] = t][e] \in Seconds
      BY <1>1, <1>3, StampsHave DEF Pass
  <1>5. Stamps' \subseteq Seconds
      BY <1>1, <1>2, <1>4, StampsNow, StampsHave DEF Settled
  <1>6. Sound(c) /\ local[c][n].data \in Secure
      BY <1>1 DEF IInv, Guarded, Sound
  <1>7. Keeps
      BY <1>1, <1>2, <1>3, <1>5, <1>6, ChtimedKeeps
  <1>8. Sound(c)' /\ Alone(c)
      BY <1>1, <1>2, <1>6, <1>7, SoundMoves DEF Settled, Parked, Alone, Now, Chtimed
  <1> QED
      BY <1>7, <1>8, GuardedAfter

LEMMA DeleteRemoteKeeps ==
    ASSUME IInv, TypeOK', NEW c \in Client, NEW n \in Name, DeleteRemote(c, n)
    PROVE  Guarded'
  <1>1. TypeOK /\ pass[c] \in Pass /\ UNCHANGED <<local, base, clock, hot>> /\ pass[c].pc = "pick"
      BY DirFacts DEF IInv, DeleteRemote, At
  <1>2. Discarded(n) /\ (Settled(c, n, 0) \/ Skipped(c, n))
      BY <1>1, DeleteRemoteDoes
  <1>3. \A e \in Name : /\ remote'[e].mtime \in Seconds /\ pass[c].base[e] \in Seconds
                        /\ [pass[c].base EXCEPT ![n] = 0][e] \in Seconds
      BY <1>1, <1>2, StampsHave, NameFacts DEF Discarded, Pass
  <1>4. Stamps' \subseteq Seconds
    <2>1. CASE Settled(c, n, 0)
        BY <1>1, <1>3, <2>1, StampsNow, StampsHave DEF Settled
    <2>2. CASE Skipped(c, n)
        BY <1>1, <1>3, <2>2, StampsNow, StampsHave DEF Skipped
    <2> QED
        BY <1>2, <2>1, <2>2
  <1>5. Keeps
      BY <1>1, <1>2, <1>4, ServerKeeps DEF Keeps, TypeOK
  <1>6. Sound(c)' /\ Alone(c)
    <2>1. CASE Settled(c, n, 0)
        BY <1>1, <1>5, <2>1, SoundMoves DEF Settled, Parked, Alone, Now, IInv, Guarded, Pass
    <2>2. CASE Skipped(c, n)
        BY <1>1, <1>5, <2>2, SoundMoves DEF Skipped, Parked, Alone, Now, IInv, Guarded, Pass
    <2> QED
        BY <1>2, <2>1, <2>2
  <1> QED
      BY <1>5, <1>6, GuardedAfter

\* A download brings what the server has.
LEMMA WroteKeeps ==
    ASSUME IInv, TypeOK', NEW c \in Client, NEW n \in Name, NEW e \in Name, Wrote(c, n, remote[e].data),
           UNCHANGED <<remote, archive, clock, hot>>, Stamps' \subseteq Seconds
    PROVE  Keeps /\ local'[c][n].data \in Secure'
  <1>1. Secure \subseteq Secure' /\ clock \in Nat /\ clock >= Unstamped
      BY ServerKeeps DEF IInv, TypeOK, Unstamped
  <1>2. remote[e].data \in Secure
      BY DEF Secure, Server, Contents
  <1> QED
      BY <1>1, <1>2 DEF Keeps, Wrote

LEMMA PullKeeps ==
    ASSUME IInv, TypeOK', NEW c \in Client, NEW n \in Name, Pull(c, n)
    PROVE  Guarded'
  <1>1. /\ TypeOK /\ pass[c] \in Pass /\ pass[c].pc = "pick"
        /\ UNCHANGED <<base, remote, archive, clock, hot>>
      BY DirFacts DEF IInv, Pull, At
  <1>2. Began(c, "pull_stamp", n, pass[c].remote[n]) /\ Wrote(c, n, remote[n].data)
      BY <1>1, PullDoes
  <1>3. /\ pass[c].remote[n] \in Seconds
        /\ \A e \in Name : remote'[e].mtime \in Seconds /\ pass[c].base[e] \in Seconds
      BY <1>1, StampsHave
  <1>4. Stamps' \subseteq Seconds
      BY <1>1, <1>2, <1>3, StampsNow, StampsHave DEF Began
  <1>5. Keeps /\ local'[c][n].data \in Secure'
      BY <1>1, <1>2, <1>4, WroteKeeps
  <1>6. Sound(c)' /\ Alone(c)
      BY <1>1, <1>2, <1>5, SoundMoves DEF Began, Parked, Alone, Now, Wrote, IInv, Guarded
  <1> QED
      BY <1>5, <1>6, GuardedAfter

LEMMA TrashLocalKeeps ==
    ASSUME IInv, TypeOK', NEW c \in Client, NEW n \in Name, TrashLocal(c, n)
    PROVE  Guarded'
  <1>1. /\ TypeOK /\ pass[c] \in Pass /\ pass[c].pc = "pick"
        /\ UNCHANGED <<base, remote, archive, clock, hot>>
      BY DirFacts DEF IInv, TrashLocal, At
  <1>2. Cleared(c, n) /\ (Settled(c, n, 0) \/ Skipped(c, n))
      BY <1>1, TrashLocalDoes
  <1>3. \A e \in Name : /\ remote'[e].mtime \in Seconds /\ pass[c].base[e] \in Seconds
                        /\ [pass[c].base EXCEPT ![n] = 0][e] \in Seconds
      BY <1>1, StampsHave DEF Pass
  <1>4. Stamps' \subseteq Seconds
    <2>1. CASE Settled(c, n, 0)
        BY <1>1, <1>3, <2>1, StampsNow, StampsHave DEF Settled
    <2>2. CASE Skipped(c, n)
        BY <1>1, <1>3, <2>2, StampsNow, StampsHave DEF Skipped
    <2> QED
        BY <1>2, <2>1, <2>2
  <1>5. Keeps
    <2>1. local'[c][n].data \in Secure' /\ local'[c][n].mtime = 0
        BY <1>2, NameFacts DEF Cleared, Secure
    <2> QED
        BY <1>1, <1>2, <1>4, <2>1, ServerKeeps DEF Keeps, Cleared, TypeOK
  <1>6. Alone(c)
      BY <1>2 DEF Settled, Skipped, Now, Cleared, Alone
  <1>7. Sound(c)'
    <2>1. CASE Settled(c, n, 0)
        BY <1>1, <1>5, <2>1, SoundMoves DEF Settled, Parked, IInv, Guarded, Pass
    <2>2. CASE Skipped(c, n)
        BY <1>1, <1>5, <2>2, SoundMoves DEF Skipped, Parked, IInv, Guarded, Pass
    <2> QED
        BY <1>2, <2>1, <2>2
  <1> QED
      BY <1>5, <1>6, <1>7, GuardedAfter

LEMMA GiveUpKeeps ==
    ASSUME IInv, TypeOK', NEW c \in Client, GiveUp(c), pass[c].pc # "idle"
    PROVE  Guarded'
  <1>1. /\ TypeOK /\ pass[c] \in Pass /\ Skipped(c, pass[c].name)
        /\ UNCHANGED <<local, base, remote, archive, clock, hot>>
      BY DirFacts, GiveUpDoes DEF IInv, sides
  <1>2. \A e \in Name : remote'[e].mtime \in Seconds /\ pass[c].base[e] \in Seconds
      BY <1>1, StampsHave
  <1>3. Stamps' \subseteq Seconds
      BY <1>1, <1>2, StampsNow, StampsHave DEF Skipped
  <1>4. Keeps
      BY <1>1, <1>3, ServerKeeps DEF Keeps, TypeOK
  <1>5. Sound(c)' /\ Alone(c)
      BY <1>1, <1>4, SoundMoves DEF Skipped, Parked, Alone, Now, IInv, Guarded, Pass
  <1> QED
      BY <1>4, <1>5, GuardedAfter

LEMMA ParkKeeps ==
    ASSUME IInv, TypeOK', NEW c \in Client, Parks(c)
    PROVE  Guarded'
  <1> DEFINE n == pass[c].name
             d == local[c][n].data
  <1>1. /\ TypeOK /\ pass[c] \in Pass /\ n \in Name /\ copies + 1 \in Name /\ copies \in Nat
        /\ Stored(copies + 1, d) /\ UNCHANGED <<local, base, hot>> /\ pass[c].pc = "cf_park"
        /\ Now(c, "cf_pull", n, pass[c].meta, copies + 1, clock + 1, pass[c].todo, pass[c].base)
      BY DirFacts, SyncBoundAssumption DEF IInv, Parks, TypeOK
  <1>2. clock \in Nat /\ clock + 1 \in Seconds /\ pass[c].meta \in Seconds /\ d \in Nat
      BY <1>1, StampsHave, DirFacts, FileFacts DEF Seconds, Stored, TypeOK
  <1>3. \A e \in Name : remote'[e].mtime \in Seconds /\ pass[c].base[e] \in Seconds
      BY <1>1, <1>2, StampsHave DEF Stored
  <1>4. Stamps' \subseteq Seconds
      BY <1>1, <1>2, <1>3, StampsNow
  <1>5. Secure \subseteq Secure'
      BY <1>1, <1>2, ServerKeeps
  <1>6. Keeps
      BY <1>1, <1>2, <1>4, <1>5 DEF Keeps, Stored
  <1>7. local'[c][n].data \in Secure' /\ copies + 1 # Main
      BY <1>1 DEF Stored, Secure, Server, Contents, Main
  <1>8. Sound(c)' /\ Alone(c)
      BY <1>1, <1>6, <1>7, SoundMoves DEF Alone, Now, IInv, Guarded
  <1> QED
      BY <1>6, <1>8, GuardedAfter

LEMMA ConflictPullKeeps ==
    ASSUME IInv, TypeOK', NEW c \in Client, ConflictPull(c)
    PROVE  Guarded'
  <1> DEFINE n == pass[c].name
  <1>1. TypeOK /\ pass[c] \in Pass /\ pass[c].pc = "cf_pull" /\ n \in Name
      BY ConflictPullDoes DEF IInv, ConflictPull, TypeOK
  <1>2. CASE GiveUp(c)
      BY <1>1, <1>2, GiveUpKeeps
  <1>3. CASE ~GiveUp(c)
    <2>1. /\ Reached(c, "cf_stat") /\ Wrote(c, n, remote[n].data)
          /\ UNCHANGED <<base, remote, archive, clock, hot>>
        BY <1>1, <1>3, ConflictPullDoes
    <2>2. \A e \in Name : remote'[e].mtime \in Seconds /\ pass[c].base[e] \in Seconds
        BY <1>1, <2>1, StampsHave
    <2>3. Stamps' \subseteq Seconds
        BY <1>1, <2>1, <2>2, StampsNow, StampsHave DEF Reached
    <2>4. Keeps /\ local'[c][n].data \in Secure'
        BY <1>1, <2>1, <2>3, WroteKeeps
    <2>5. Sound(c) /\ pass[c].conf # Main
        BY <1>1 DEF IInv, Guarded, Sound, Parked
    <2>6. Sound(c)' /\ Alone(c)
        BY <1>1, <2>1, <2>4, <2>5, SoundMoves DEF Reached, Alone, Now, Wrote
    <2> QED
        BY <2>4, <2>6, GuardedAfter
  <1> QED
      BY <1>2, <1>3

LEMMA ConflictStatKeeps ==
    ASSUME IInv, TypeOK', NEW c \in Client, ConflictStat(c)
    PROVE  Guarded'
  <1> DEFINE n == pass[c].name
             t == StatTime(c)
  <1>1. /\ TypeOK /\ pass[c] \in Pass /\ pass[c].pc = "cf_stat"
        /\ UNCHANGED <<base, remote, archive, clock, hot>>
      BY DirFacts DEF IInv, ConflictStat
  <1>2. n \in Name /\ t \in Nat /\ Began(c, "cf_mirror", n, t) /\ Chtimed(c, n, t)
      BY <1>1, ConflictStatDoes
  <1>3. t \in Seconds /\ t <= clock
      BY <1>2, StampsHave DEF StatTime, IInv, Guarded, Ages, Stamps
  <1>4. \A e \in Name : remote'[e].mtime \in Seconds /\ pass[c].base[e] \in Seconds
      BY <1>1, StampsHave
  <1>5. Stamps' \subseteq Seconds
      BY <1>1, <1>2, <1>3, <1>4, StampsNow, StampsHave DEF Began
  <1>6. Sound(c) /\ local[c][n].data \in Secure /\ pass[c].conf # Main
      BY <1>1 DEF IInv, Guarded, Sound, Parked
  <1> HIDE DEF t
  <1>7. Keeps
      BY <1>1, <1>2, <1>3, <1>5, <1>6, ChtimedKeeps
  <1>8. Sound(c)' /\ Alone(c)
      BY <1>1, <1>2, <1>6, <1>7, SoundMoves DEF Began, Alone, Now, Chtimed
  <1> QED
      BY <1>7, <1>8, GuardedAfter

LEMMA ConflictMirrorKeeps ==
    ASSUME IInv, TypeOK', NEW c \in Client, ConflictMirror(c)
    PROVE  Guarded'
  <1> DEFINE k == pass[c].conf
  <1>1. TypeOK /\ pass[c] \in Pass /\ pass[c].pc = "cf_mirror" /\ k \in Name
      BY ConflictMirrorDoes DEF IInv, ConflictMirror, TypeOK
  <1>2. CASE GiveUp(c)
      BY <1>1, <1>2, GiveUpKeeps
  <1>3. CASE ~GiveUp(c)
    <2>1. /\ Reached(c, "cf_stamp") /\ Wrote(c, k, remote[k].data)
          /\ UNCHANGED <<base, remote, archive, clock, hot>>
        BY <1>1, <1>3, ConflictMirrorDoes
    <2>2. \A e \in Name : remote'[e].mtime \in Seconds /\ pass[c].base[e] \in Seconds
        BY <1>1, <2>1, StampsHave
    <2>3. Stamps' \subseteq Seconds
        BY <1>1, <2>1, <2>2, StampsNow, StampsHave DEF Reached
    <2>4. Keeps
        BY <1>1, <2>1, <2>3, WroteKeeps
    <2>5. Sound(c) /\ pass[c].conf # Main
        BY <1>1 DEF IInv, Guarded, Sound, Parked
    <2>6. Sound(c)'
        BY <1>1, <2>1, <2>4, <2>5, SoundMoves DEF Reached, Pass
    <2>7. Alone(c)
        BY <2>1 DEF Reached, Alone, Now, Wrote
    <2> QED
        BY <2>4, <2>6, <2>7, GuardedAfter
  <1> QED
      BY <1>2, <1>3

LEMMA ConflictDoneKeeps ==
    ASSUME IInv, TypeOK', NEW c \in Client, ConflictDone(c)
    PROVE  Guarded'
  <1> DEFINE n == pass[c].name
             k == pass[c].conf
             t == pass[c].cmeta
             b == [pass[c].base EXCEPT ![n] = pass[c].meta, ![k] = t]
  <1>1. /\ TypeOK /\ pass[c] \in Pass /\ pass[c].pc = "cf_stamp"
        /\ UNCHANGED <<base, remote, archive, clock, hot>>
      BY DirFacts DEF IInv, ConflictDone
  <1>2. /\ n \in Name /\ k \in Name /\ t \in Nat /\ Chtimed(c, k, t)
        /\ Now(c, "pick", n, pass[c].meta, k, t, pass[c].todo \ {n}, b)
      BY <1>1, ConflictDoneDoes
  <1>3. t \in Seconds /\ pass[c].meta \in Seconds /\ t <= clock
      BY StampsHave DEF IInv, Guarded, Ages, Stamps
  <1>4. \A e \in Name : remote'[e].mtime \in Seconds /\ b[e] \in Seconds
      BY <1>1, <1>3, StampsHave DEF Pass
  <1> HIDE DEF b
  <1>5. Stamps' \subseteq Seconds
      BY <1>1, <1>2, <1>3, <1>4, StampsNow
  <1>6. Sound(c) /\ k # Main
      BY <1>1 DEF IInv, Guarded, Sound, Parked
  <1>7. local[c][k].data \in Secure
      BY <1>2, <1>6 DEF IInv, Guarded, Marked
  <1>8. Keeps
      BY <1>1, <1>2, <1>3, <1>5, <1>7, ChtimedKeeps
  <1>9. Sound(c)' /\ Alone(c)
      BY <1>1, <1>2, <1>6, <1>8, SoundMoves DEF Parked, Alone, Now, Chtimed
  <1> QED
      BY <1>8, <1>9, GuardedAfter

LEMMA WalkKeeps ==
    ASSUME IInv, TypeOK', NEW c \in Client, WalkLocal(c) \/ WalkRemote(c)
    PROVE  Guarded'
  <1>1. /\ TypeOK /\ UNCHANGED <<local, base, remote, archive, clock, hot>>
      BY DEF IInv, WalkLocal, WalkRemote, sides
  <1>2. Walked(c) \/ Compared(c)
      BY <1>1, WalkLocalDoes, WalkRemoteDoes
  <1>3. Stamps' \subseteq Seconds
    <2>1. \A d \in Client, e \in Name :
            remote'[e].mtime \in Seconds /\ base'[d][e] \in Seconds /\ pass'[d].base[e] \in Seconds
        BY <1>1, <1>2, StampsHave DEF Walked, Compared
    <2>2. \A d \in Client, e \in Name : pass'[d].remote[e] \in Seconds
        BY <1>1, <1>2, StampsHave, NameFacts DEF Walked, Compared
    <2>3. \A d \in Client : pass'[d].meta \in Seconds /\ pass'[d].cmeta \in Seconds
        BY <1>2, StampsHave DEF Walked, Compared
    <2> QED
        BY <2>1, <2>2, <2>3, StampsWithin
  <1>4. Keeps
      BY <1>1, <1>3, ServerKeeps DEF Keeps, TypeOK
  <1>5. Sound(c)'
    <2>1. CASE Walked(c)
        BY <1>1, <2>1 DEF Walked, Sound, Parked
    <2>2. CASE WalkRemote(c)
      <3>1. Compared(c) /\ pass[c].pc = "listed"
          BY <1>1, <2>2, WalkRemoteDoes DEF WalkRemote
      <3> QED
          BY <1>1, <1>4, <3>1 DEF Compared, Sound, Parked, IInv, Guarded, Keeps
    <2> QED
        BY <1>1, <2>1, <2>2, WalkLocalDoes
  <1>6. Alone(c)
      BY <1>1, <1>2 DEF Alone, Walked, Compared
  <1> QED
      BY <1>4, <1>5, <1>6, GuardedAfter

LEMMA SaveKeeps ==
    ASSUME IInv, TypeOK', NEW c \in Client, Save(c) \/ Interrupt(c) \/ LoseBaseline(c)
    PROVE  Guarded'
  <1>1. TypeOK /\ UNCHANGED <<local, remote, archive, clock, hot>>
      BY DEF IInv, Save, Interrupt, LoseBaseline, sides
  <1>2. Ended(c) \/ pass' = pass
      BY <1>1, EndedAt DEF Save, Interrupt, LoseBaseline
  <1>3. \A d \in Client, e \in Name : base'[d][e] \in Seconds
    <2>1. CASE Save(c)
        BY <1>1, <2>1, StampsHave DEF Save, TypeOK
    <2>2. CASE Interrupt(c)
        BY <2>2, StampsHave DEF Interrupt, sides
    <2>3. CASE LoseBaseline(c)
        BY <1>1, <2>3, StampsHave, NameFacts DEF LoseBaseline, TypeOK
    <2> QED
        BY <2>1, <2>2, <2>3
  <1>4. Stamps' \subseteq Seconds
    <2>1. \A d \in Client, e \in Name : /\ remote'[e].mtime \in Seconds
                                        /\ pass'[d].base[e] \in Seconds /\ pass'[d].remote[e] \in Seconds
        BY <1>1, <1>2, StampsHave, NameFacts DEF Ended
    <2>2. \A d \in Client : pass'[d].meta \in Seconds /\ pass'[d].cmeta \in Seconds
        BY <1>2, StampsHave, NameFacts DEF Ended
    <2> QED
        BY <1>3, <2>1, <2>2, StampsWithin
  <1>5. Keeps
      BY <1>1, <1>4, ServerKeeps DEF Keeps, TypeOK
  <1>6. Alone(c)
      BY <1>1, <1>2 DEF Alone, Ended
  <1>7. Sound(c)'
    <2>1. CASE Ended(c)
        BY <2>1, NameFacts DEF Ended, Sound, Parked
    <2>2. CASE pass' = pass
      <3>1. pass[c].name \in Name
          BY <1>1, DirFacts DEF Pass
      <3> QED
          BY <1>1, <1>5, <2>2, <3>1, SoundKept DEF IInv, Guarded, Keeps
    <2> QED
        BY <1>2, <2>1, <2>2
  <1> QED
      BY <1>5, <1>6, <1>7, GuardedAfter

\* What a user writes is in the only file with that mtime, and a pass that runs
\* in the directory meanwhile may not see it.
LEMMA EditKeeps ==
    ASSUME IInv, TypeOK', NEW c \in Client, Edit(c)
    PROVE  Guarded'
  <1>1. /\ TypeOK /\ Edited(c) /\ UNCHANGED <<base, remote, archive, pass>>
        /\ hot' = IF pass[c].pc = "idle" THEN hot ELSE hot \cup {clock + 1}
      BY EditDoes DEF IInv, Edit
  <1>2. clock \in Nat /\ clock' = clock + 1 /\ Stamps' = Stamps /\ Secure \subseteq Secure'
      BY <1>1 DEF Edited, TypeOK, Stamps, Secure, Server, Contents
  <1>3. \A t \in Stamps : t \in Nat /\ t <= clock
      BY <1>1, DirFacts, FileFacts DEF IInv, TypeOK, Guarded, Ages, Stamps, Pass
  <1>4. Ages'
    <2>1. \A t \in Stamps' : t <= clock'
        BY <1>2, <1>3
    <2>2. ASSUME NEW d \in Client, NEW n \in Name PROVE local'[d][n].mtime <= clock'
      <3>1. local[d][n].mtime <= clock /\ local[d][n].mtime \in Nat
          BY <1>1, DirFacts, FileFacts DEF IInv, Guarded, Ages
      <3> QED
          BY <1>1, <1>2, <3>1 DEF Edited
    <2> QED
        BY <2>1, <2>2 DEF Ages
  <1>5. Marked'
    <2>1. clock + 1 \notin Stamps'
        BY <1>2, <1>3
    <2>2. ASSUME NEW d \in Client, NEW n \in Name, d # c \/ n # Main
          PROVE  local'[d][n].data \in Secure' \/ (n = Main /\ local'[d][n].mtime \notin Stamps')
        BY <1>1, <1>2, <2>2 DEF Edited, IInv, Guarded, Marked
    <2> QED
        BY <1>1, <2>1, <2>2 DEF Marked, Edited
  <1>6. ASSUME NEW d \in Client, d # c PROVE Sound(d)'
    <2>1. pass[d].name \in Name /\ Sound(d)
        BY <1>1, DirFacts DEF Pass, IInv, Guarded
    <2>2. \A n \in Name : local'[d][n] = local[d][n]
        BY <1>1, <1>6 DEF Edited
    <2> QED
        BY <1>1, <1>2, <2>1, <2>2, SoundKept
  <1>7. Sound(c)'
    <2>1. CASE pass[c].pc = "idle"
        BY <1>1, <2>1 DEF Sound, Parked
    <2>2. CASE pass[c].pc # "idle"
      <3>1. \A n \in Name : n = Main \/ local'[c][n] = local[c][n]
          BY <1>1 DEF Edited
      <3>2. local'[c][Main].data \in Secure'
          BY <1>1, <2>2 DEF Edited, Secure
      <3>3. pass[c].name \in Name /\ Sound(c)
          BY <1>1, DirFacts DEF Pass, IInv, Guarded
      <3> QED
          BY <1>1, <1>2, <2>2, <3>1, <3>2, <3>3 DEF Sound
    <2> QED
        BY <2>1, <2>2
  <1> QED
      BY <1>4, <1>5, <1>6, <1>7 DEF Guarded

LEMMA RemoveKeeps ==
    ASSUME IInv, TypeOK', NEW c \in Client, Remove(c)
    PROVE  Guarded'
  <1>1. TypeOK /\ Cleared(c, Main) /\ UNCHANGED <<base, remote, archive, pass, clock, hot>>
      BY ClearedAt, NameFacts DEF IInv, Remove
  <1>2. Stamps' \subseteq Seconds /\ Secure \subseteq Secure'
      BY <1>1, ServerKeeps DEF Stamps, Seconds
  <1>3. local'[c][Main].data \in Secure' /\ local'[c][Main].mtime = 0
      BY <1>1, NameFacts DEF Cleared, Secure
  <1>4. Keeps
      BY <1>1, <1>2, <1>3 DEF Keeps, Cleared, TypeOK
  <1>5. Alone(c)
      BY <1>1 DEF Alone, Cleared
  <1>6. Sound(c)'
    <2>1. \A n \in Name : n = Main \/ local'[c][n] = local[c][n]
        BY <1>1 DEF Cleared
    <2>2. pass[c].name \in Name /\ Sound(c)
        BY <1>1, DirFacts DEF Pass, IInv, Guarded
    <2> QED
        BY <1>1, <1>2, <1>3, <2>1, <2>2 DEF Sound
  <1> QED
      BY <1>4, <1>5, <1>6, GuardedAfter

LEMMA WebKeeps ==
    ASSUME IInv, TypeOK', WebPut \/ WebRemove
    PROVE  Guarded'
  <1>1. /\ TypeOK /\ UNCHANGED <<local, base, pass, hot>>
        /\ Stored(Main, clock + 1) \/ (Discarded(Main) /\ clock' = clock)
        /\ clock \in Nat /\ clock + 1 \in Nat \ {0}
      BY StoreFacts, DiscardFacts, NameFacts DEF IInv, WebPut, WebRemove, TypeOK
  <1>2. clock <= clock' /\ Secure \subseteq Secure'
    <2>1. clock <= clock'
        BY <1>1 DEF Stored
    <2> QED
        BY <1>1, <2>1, ServerKeeps, NameFacts
  <1>3. \A n \in Name : remote'[n].mtime \in Seconds
    <2>1. CASE Stored(Main, clock + 1)
      <3>1. clock + 1 \in Seconds
          BY <1>1, <2>1 DEF Stored, Seconds
      <3> QED
          BY <2>1, <3>1, StampsHave DEF Stored
    <2>2. CASE Discarded(Main)
        BY <2>2, StampsHave, NameFacts DEF Discarded
    <2> QED
        BY <1>1, <2>1, <2>2
  <1>4. Stamps' \subseteq Seconds
      BY <1>1, <1>3, StampsHave, StampsWithin
  <1>5. Keeps
      BY <1>1, <1>2, <1>4 DEF Keeps
  <1>6. ASSUME NEW d \in Client PROVE Sound(d)'
    <2>1. pass[d].name \in Name /\ Sound(d)
        BY <1>1, DirFacts DEF Pass, IInv, Guarded
    <2> QED
        BY <1>1, <1>2, <2>1, SoundKept
  <1> QED
      BY <1>5, <1>6, AgesKept DEF Guarded

LEMMA InitIInv == Init => IInv
  <1> SUFFICES ASSUME Init PROVE IInv
      OBVIOUS
  <1>1. TypeOK
      BY InitTypes
  <1>2. \A c \in Client : /\ pass[c] = NoPass /\ base[c] = Nothing
                          /\ \A n \in Name : local[c][n] = NoFile
      BY DEF Init
  <1>3. \A n \in Name : remote[n] = NoFile
      BY DEF Init
  <1>4. \A t \in Stamps : t = 0
      BY <1>2, <1>3, NameFacts DEF Stamps
  <1>5. Ages
      BY <1>2, <1>4, NameFacts DEF Ages, Init, Unstamped
  <1>6. Marked /\ \A c \in Client : Sound(c)
      BY <1>2, NameFacts DEF Marked, Sound, Secure, Parked
  <1> QED
      BY <1>1, <1>5, <1>6 DEF IInv, Guarded

LEMMA StepIInv == IInv /\ [Next]_vars => IInv'
  <1> SUFFICES ASSUME IInv, [Next]_vars PROVE Guarded'
      BY StepTypes DEF IInv
  <1>0. TypeOK /\ TypeOK'
      BY StepTypes DEF IInv
  <1>1. CASE UNCHANGED vars
    <2>1. UNCHANGED <<local, bin, base, remote, archive, pass, clock, hot>>
        BY <1>1 DEF vars
    <2>2. Stamps' = Stamps /\ Secure' = Secure
        BY <2>1 DEF Stamps, Secure, Server, Contents
    <2>3. Ages' <=> Ages
        BY <2>1, <2>2 DEF Ages
    <2>4. Marked' <=> Marked
        BY <2>1, <2>2 DEF Marked
    <2>5. \A c \in Client : Sound(c)' <=> Sound(c)
        BY <2>1, <2>2 DEF Sound
    <2> QED
        BY <2>3, <2>4, <2>5 DEF IInv, Guarded
  <1>2. ASSUME NEW c \in Client, NEW n \in Name,
               \/ Adopt(c, n) \/ Diverged(c, n) \/ Push(c, n) \/ PushRefused(c, n) \/ PushGone(c, n)
               \/ DeleteRemote(c, n) \/ Pull(c, n) \/ PullGone(c, n)
               \/ TrashLocal(c, n) \/ Forget(c, n)
        PROVE  Guarded'
      BY <1>0, <1>2, DecidesKeeps, PushKeeps, DeleteRemoteKeeps, PullKeeps, TrashLocalKeeps
  <1>3. ASSUME NEW c \in Client, Park(c)
        PROVE  Guarded'
    <2>1. pass[c].pc # "idle"
        BY <1>3 DEF Park
    <2> QED
        BY <1>0, <1>3, <2>1, ParkDoes, ParkKeeps, GiveUpKeeps
  <1>4. ASSUME NEW c \in Client, PassStep(c)
        PROVE  Guarded'
      BY <1>0, <1>2, <1>3, <1>4, WalkKeeps, SaveKeeps, StampKeeps, ConflictPullKeeps, ConflictStatKeeps,
         ConflictMirrorKeeps, ConflictDoneKeeps DEF PassStep
  <1>5. CASE UserStep
      BY <1>0, <1>5, WebKeeps, EditKeeps, RemoveKeeps DEF UserStep
  <1> QED
      BY <1>0, <1>1, <1>4, <1>5, SaveKeeps DEF Next

\* What the clients hold, the server holds and the trashes hold.
Yours == UNION {Contents(local[c]) : c \in Client}

LEMMA HeldParts == Held = Yours \cup Server \cup bin
  <1>1. Held = Yours \cup Contents(remote) \cup bin \cup archive
      BY Zenon DEF Held, Yours
  <1> QED
      BY <1>1, Zenon DEF Server

\* A step destroys no content the server or a trash has, nor one a directory has
\* that is secure.
LEMMA Spares ==
    ASSUME Server \subseteq Server', bin \subseteq bin',
           \A c \in Client, n \in Name : \/ local'[c][n].data = local[c][n].data
                                         \/ local[c][n].data \in Secure \cup bin'
    PROVE  Lost \subseteq hot
  <1> SUFFICES ASSUME NEW x \in Held, x \notin Held' PROVE x \in hot
      BY DEF Lost
  <1>1. (Held = Yours \cup Server \cup bin)'
      BY HeldParts, PTL
  <1>2. x \notin Yours' /\ x \notin Server' /\ x \notin bin' /\ x \in Yours
      BY <1>1, HeldParts
  <1>3. PICK c \in Client, n \in Name : x = local[c][n].data /\ x # 0
      BY <1>2 DEF Yours, Contents
  <1>4. x # local'[c][n].data
      BY <1>2, <1>3 DEF Yours, Contents
  <1> QED
      BY <1>2, <1>3, <1>4 DEF Secure

\* Of all the steps of the passes only a download replaces a file, and only the
\* trash takes one away.
LEMMA PassSpares ==
    ASSUME IInv, NEW c \in Client, PassStep(c) \/ Interrupt(c) \/ LoseBaseline(c)
    PROVE  Lost \subseteq hot
  <1> USE DEF sides
  <1>1. TypeOK
      BY DEF IInv
  <1>2. ASSUME UNCHANGED <<local, bin, remote, archive>>
        PROVE  Lost \subseteq hot
      BY <1>2, Spares DEF Server, Contents
  <1>3. ASSUME NEW n \in Name, Chtimed(c, n, pass[c].meta) \/ Chtimed(c, n, pass[c].cmeta)
                               \/ Chtimed(c, n, StatTime(c)),
               UNCHANGED <<bin, remote, archive>>
        PROVE  Lost \subseteq hot
    <2>1. \A d \in Client, m \in Name : local'[d][m].data = local[d][m].data
        BY <1>3 DEF Chtimed
    <2> QED
        BY <1>3, <2>1, Spares DEF Server, Contents
  <1>4. ASSUME NEW n \in Name, NEW d, Wrote(c, n, d), local[c][n].data \in Secure,
               UNCHANGED <<bin, remote, archive>>
        PROVE  Lost \subseteq hot
    <2>1. \A e \in Client, m \in Name : \/ local'[e][m].data = local[e][m].data
                                        \/ local[e][m].data \in Secure
        BY <1>4 DEF Wrote
    <2> QED
        BY <1>4, <2>1, Spares DEF Server, Contents
  <1>5. ASSUME NEW n \in Name, Push(c, n) \/ DeleteRemote(c, n)
        PROVE  Lost \subseteq hot
    <2>1. UNCHANGED <<local, bin, hot>>
        BY <1>5 DEF Push, DeleteRemote
    <2>2. Discarded(n) \/ (Stored(n, local[c][n].data) /\ local[c][n].data \in Nat)
        BY <1>1, <1>5, PushDoes, DeleteRemoteDoes, DirFacts, FileFacts
    <2>3. Server \subseteq Server'
        BY <1>1, <2>1, <2>2, ServerKeeps
    <2> QED
        BY <2>1, <2>3, Spares
  <1>6. ASSUME NEW n \in Name, Pull(c, n)
        PROVE  Lost \subseteq hot
    <2>1. At(c, n) /\ ~LChanged(c, n) /\ UNCHANGED <<bin, remote, archive>>
        BY <1>6 DEF Pull
    <2> QED
        BY <1>1, <1>4, <1>6, <2>1, PullDoes, Unedited
  <1>7. ASSUME NEW n \in Name, TrashLocal(c, n)
        PROVE  Lost \subseteq hot
    <2>1. UNCHANGED <<remote, archive>>
        BY <1>7 DEF TrashLocal
    <2>2. Cleared(c, n) /\ bin \subseteq bin' /\ local[c][n].data \in bin' \cup {0}
        BY <1>1, <1>7, TrashLocalDoes
    <2>3. \A e \in Client, m \in Name : \/ local'[e][m].data = local[e][m].data
                                        \/ local[e][m].data \in Secure \cup bin'
        BY <2>2 DEF Cleared, Secure
    <2> QED
        BY <2>1, <2>2, <2>3, Spares DEF Server, Contents
  <1>8. ASSUME Park(c)
        PROVE  Lost \subseteq hot
    <2>1. CASE Parks(c)
      <3>1. /\ copies + 1 \in Name /\ Stored(copies + 1, local[c][pass[c].name].data)
            /\ local[c][pass[c].name].data \in Nat /\ UNCHANGED <<local, bin, hot>>
          BY <1>1, <2>1, DirFacts, FileFacts DEF Parks
      <3>2. Server \subseteq Server'
          BY <1>1, <3>1, ServerKeeps
      <3> QED
          BY <3>1, <3>2, Spares
    <2>2. CASE GiveUp(c)
        BY <1>2, <2>2 DEF GiveUp
    <2> QED
        BY <1>1, <1>8, <2>1, <2>2, ParkDoes
  <1>9. ASSUME ConflictPull(c)
        PROVE  Lost \subseteq hot
    <2>1. local[c][pass[c].name].data \in Secure
        BY <1>9 DEF ConflictPull, IInv, Guarded, Sound
    <2> QED
        BY <1>1, <1>2, <1>4, <1>9, <2>1, ConflictPullDoes DEF GiveUp
  <1>10. ASSUME ConflictMirror(c)
         PROVE  Lost \subseteq hot
    <2>1. pass[c].conf \in Name
        BY <1>1, DirFacts DEF Pass
    <2>2. local[c][pass[c].conf].data \in Secure
        BY <1>10, <2>1 DEF ConflictMirror, IInv, Guarded, Sound, Marked, Parked
    <2> QED
        BY <1>1, <1>2, <1>4, <1>10, <2>2, ConflictMirrorDoes DEF GiveUp
  <1>11. ASSUME PushStamp(c) \/ PullStamp(c) \/ ConflictStat(c) \/ ConflictDone(c)
         PROVE  Lost \subseteq hot
    <2>1. UNCHANGED <<bin, remote, archive>>
        BY <1>11 DEF PushStamp, PullStamp, ConflictStat, ConflictDone
    <2> QED
        BY <1>1, <1>3, <1>11, <2>1, StampDoes, ConflictStatDoes, ConflictDoneDoes
  <1>12. ASSUME NEW n \in Name, \/ Adopt(c, n) \/ Diverged(c, n) \/ PushRefused(c, n)
                                \/ PushGone(c, n) \/ PullGone(c, n) \/ Forget(c, n)
         PROVE  Lost \subseteq hot
      BY <1>2, <1>12 DEF Adopt, Diverged, PushRefused, PushGone, PullGone, Forget
  <1>13. ASSUME WalkLocal(c) \/ WalkRemote(c) \/ Save(c) \/ Interrupt(c) \/ LoseBaseline(c)
         PROVE  Lost \subseteq hot
      BY <1>2, <1>13 DEF WalkLocal, WalkRemote, Save, Interrupt, LoseBaseline
  <1> QED
      BY <1>5, <1>6, <1>7, <1>8, <1>9, <1>10, <1>11, <1>12, <1>13 DEF PassStep

\* No step of a pass destroys the last copy of a content, except one a user wrote
\* in the directory while the pass was running in it.
THEOREM NoLoss == Spec => NothingLost
  <1>1. IInv /\ [Next]_vars => [edits' = edits => Lost \subseteq hot]_vars
    <2> SUFFICES ASSUME IInv, Next, edits' = edits PROVE Lost \subseteq hot
        BY DEF NothingLost
    <2>1. ASSUME UserStep PROVE FALSE
      <3>1. edits' = edits + 1
          BY <2>1 DEF UserStep, WebPut, WebRemove, Edit, Remove
      <3> QED
          BY <3>1 DEF IInv, TypeOK
    <2> QED
        BY <2>1, PassSpares DEF Next
  <1> QED
      BY <1>1, InitIInv, StepIInv, PTL DEF Spec, NothingLost

-----------------------------------------------------------------------------
(* Conflict copies                                                           *)

Copy == 1..MaxCopies
Busy == {"pull_stamp", "cf_park"} \cup Parked

Has(c, k) == Exists(remote[k]) /\ local[c][k] = remote[k]

\* A copy is written once.  A client that has it has what was written, and its
\* baseline names it only then; a pass has it to reconcile only where the drive
\* had it when it was listed, and then in no baseline.
CopyOf(c, k) ==
    /\ Exists(local[c][k]) => /\ Exists(remote[k]) /\ local[c][k].data = remote[k].data
                              /\ local[c][k].mtime \in {Unstamped, remote[k].mtime}
    /\ base[c][k] # 0 => base[c][k] = remote[k].mtime /\ Has(c, k)
    /\ pass[c].base[k] # 0 => pass[c].base[k] = remote[k].mtime /\ Has(c, k)
    /\ pass[c].pc = "listed" => pass[c].local[k] = local[c][k].mtime /\ pass[c].base[k] = base[c][k]
                                /\ pass[c].todo = {}
    /\ k \in pass[c].todo => /\ Exists(remote[k]) /\ pass[c].remote[k] = remote[k].mtime
                             /\ pass[c].base[k] = 0 /\ base[c][k] = 0
                             /\ pass[c].local[k] = remote[k].mtime => Has(c, k)

\* The copy k at hand, as the path to reconcile or as the copy being made.
InHand(c, k) ==
    /\ pass[c].pc = "push_stamp" => pass[c].name # k
    /\ pass[c].pc \in Busy /\ pass[c].name = k =>
          k \in pass[c].todo /\ pass[c].meta = remote[k].mtime /\ pass[c].local[k] # remote[k].mtime
    /\ pass[c].pc \in {"pull_stamp", "cf_stat"} /\ pass[c].name = k => Exists(local[c][k])
    /\ pass[c].pc \in {"cf_mirror", "cf_stamp"} /\ pass[c].name = k => Has(c, k)
    /\ pass[c].pc \in Parked /\ pass[c].conf = k =>
          /\ Exists(remote[k]) /\ k \notin pass[c].todo /\ pass[c].cmeta = remote[k].mtime
          /\ pass[c].base[k] = 0 /\ base[c][k] = 0
    /\ pass[c].pc = "cf_stamp" /\ pass[c].conf = k => Exists(local[c][k])

\* The local version parked as `conf`.
Parking(c) ==
    /\ pass[c].pc \in Parked => pass[c].conf \in Copy
    /\ pass[c].pc = "cf_pull" =>
         local[c][pass[c].name].data \in {remote[pass[c].conf].data} \cup hot \cup {0}

Tidy(c) == Parking(c) /\ \A k \in Copy : CopyOf(c, k) /\ InHand(c, k)
Fresh == \A k \in Copy : Exists(remote[k]) => k <= copies

Copies == Fresh /\ \A c \in Client : Tidy(c)

LEMMA CopyFacts ==
    /\ Copy \subseteq Name /\ Main \notin Copy /\ \A n \in Name : n = Main \/ n \in Copy
    /\ TypeOK => \A c \in Client, k \in Copy :
         /\ IsFile(local[c][k]) /\ IsFile(remote[k]) /\ pass[c].local[k] \in Nat
         /\ Exists(local[c][k]) <=> local[c][k].mtime # 0
         /\ Exists(remote[k]) <=> remote[k].mtime # 0
         /\ local[c][k] \in File /\ remote[k] \in File
  <1>1. Copy \subseteq Name /\ Main \notin Copy /\ \A n \in Name : n = Main \/ n \in Copy
      BY SyncBoundAssumption DEF Copy, Name, Main
  <1>2. ASSUME TypeOK, NEW c \in Client, NEW k \in Copy
        PROVE  /\ IsFile(local[c][k]) /\ IsFile(remote[k]) /\ pass[c].local[k] \in Nat
               /\ Exists(local[c][k]) <=> local[c][k].mtime # 0
               /\ Exists(remote[k]) <=> remote[k].mtime # 0
               /\ local[c][k] \in File /\ remote[k] \in File
    <2>1. IsFile(local[c][k]) /\ IsFile(remote[k]) /\ pass[c].local[k] \in Nat
        BY <1>1, <1>2, DirFacts DEF Pass
    <2> QED
        BY <2>1, FileFacts
  <1> QED
      BY <1>1, <1>2

\* The copies of a client are as they were, and so is its pass.
LEMMA TidyStays ==
    ASSUME TypeOK, NEW d \in Client, Tidy(d), pass'[d] = pass[d], base'[d] = base[d],
           \A k \in Copy : remote'[k] = remote[k] /\ local'[d][k] = local[d][k],
           hot \subseteq hot',
           \A n \in Name : \/ local'[d][n] = local[d][n] \/ local'[d][n].data \in hot' \cup {0}
                           \/ pass[d].pc # "cf_pull"
    PROVE  Tidy(d)'
  <1>1. pass[d].name \in Name
      BY DirFacts DEF Pass
  <1>2. Parking(d)'
      BY <1>1 DEF Tidy, Parking, Parked
  <1>3. ASSUME NEW k \in Copy PROVE CopyOf(d, k)' /\ InHand(d, k)'
      BY DEF Tidy, CopyOf, InHand, Has
  <1> QED
      BY <1>2, <1>3 DEF Tidy

\* A copy that a pass step leaves alone.
LEMMA CopyStays ==
    ASSUME NEW c \in Client, NEW k \in Copy, CopyOf(c, k), remote'[k] = remote[k],
           local'[c][k] = local[c][k], base'[c][k] = base[c][k], pass'[c].base[k] = pass[c].base[k],
           pass'[c].local = pass[c].local, pass'[c].remote = pass[c].remote,
           pass'[c].pc # "listed", k \in pass'[c].todo => k \in pass[c].todo
    PROVE  CopyOf(c, k)'
  BY DEF CopyOf, Has

\* Back at picking a path, a pass has no copy in hand.
LEMMA TidyPick ==
    ASSUME NEW c \in Client, pass'[c].pc \notin {"push_stamp"} \cup Busy, \A k \in Copy : CopyOf(c, k)'
    PROVE  Tidy(c)'
  BY DEF Tidy, Parking, InHand, Parked, Busy

\* What a pass finds about a copy it has to reconcile: it can only adopt or pull
\* it, or be in conflict about it.
LEMMA CopyListed ==
    ASSUME TypeOK, NEW c \in Client, NEW k \in Copy, Tidy(c), At(c, k)
    PROVE  /\ RChanged(c, k) /\ ~RGone(c, k) /\ ~LGone(c, k)
           /\ Exists(remote[k]) /\ pass[c].remote[k] = remote[k].mtime
           /\ pass[c].base[k] = 0 /\ base[c][k] = 0
           /\ ~LChanged(c, k) => pass[c].local[k] = 0
  BY CopyFacts DEF Tidy, CopyOf, At, RChanged, RGone, LGone, LChanged

LEMMA DecidesTidy ==
    ASSUME TypeOK, NEW c \in Client, NEW n \in Name, Tidy(c),
           Adopt(c, n) \/ Forget(c, n) \/ PushGone(c, n) \/ PullGone(c, n)
    PROVE  Tidy(c)'
  <1>1. pass[c] \in Pass /\ UNCHANGED <<local, base, remote>> /\ At(c, n) /\ pass[c].pc = "pick"
      BY DirFacts DEF Adopt, Forget, PushGone, PullGone, sides, At
  <1>2. /\ Adopt(c, n) => Settled(c, n, pass[c].local[n])
        /\ Forget(c, n) => Settled(c, n, 0)
        /\ PushGone(c, n) \/ PullGone(c, n) => Skipped(c, n)
      BY Decides
  <1>3. /\ pass'[c].pc = "pick" /\ pass'[c].local = pass[c].local /\ pass'[c].remote = pass[c].remote
        /\ pass'[c].todo = pass[c].todo \ {n}
      BY <1>2 DEF Settled, Skipped, Now
  <1>4. ASSUME NEW k \in Copy PROVE CopyOf(c, k)'
    <2>1. k \in Name /\ CopyOf(c, k) /\ pass[c].base \in [Name -> Nat]
        BY <1>1, CopyFacts DEF Tidy, Pass
    <2>2. CASE k # n \/ PushGone(c, n) \/ PullGone(c, n)
      <3>1. pass'[c].base[k] = pass[c].base[k]
          BY <1>2, <2>1, <2>2 DEF Settled, Skipped, Now
      <3> QED
          BY <1>1, <1>3, <2>1, <3>1, CopyStays
    <2>3. CASE k = n /\ Forget(c, n)
        BY <2>3, <1>1, CopyListed DEF Forget
    <2>4. CASE k = n /\ Adopt(c, n)
      <3>1. pass'[c].base[k] = pass[c].local[k] /\ pass[c].local[k] = pass[c].remote[k]
          BY <1>2, <2>1, <2>4 DEF Settled, Now, Adopt
      <3>2. Has(c, k) /\ pass[c].remote[k] = remote[k].mtime
          BY <1>1, <2>1, <2>4, <3>1 DEF CopyOf, At
      <3>3. Has(c, k)'
          BY <1>1, <3>2 DEF Has
      <3> QED
          BY <1>1, <1>3, <2>1, <2>4, <3>1, <3>2, <3>3 DEF CopyOf
    <2> QED
        BY <1>2, <2>2, <2>3, <2>4
  <1> QED
      BY <1>3, <1>4, TidyPick DEF Busy, Parked

\* No copy is deleted, on either side, and none is uploaded again.
LEMMA DeletesTidy ==
    ASSUME TypeOK, NEW c \in Client, NEW n \in Name, Tidy(c), DeleteRemote(c, n) \/ TrashLocal(c, n)
    PROVE  n = Main /\ Tidy(c)'
  <1>1. n = Main
      BY CopyFacts, CopyListed DEF DeleteRemote, TrashLocal
  <1>2. Settled(c, n, 0) \/ Skipped(c, n)
      BY DeleteRemoteDoes, TrashLocalDoes
  <1>3. base' = base /\ \A k \in Copy : remote'[k] = remote[k] /\ local'[c][k] = local[c][k]
    <2>1. CASE DeleteRemote(c, n)
        BY <1>1, <2>1, CopyFacts, DeleteRemoteDoes DEF Discarded, DeleteRemote
    <2>2. CASE TrashLocal(c, n)
        BY <1>1, <2>2, CopyFacts, TrashLocalDoes DEF Cleared, TrashLocal
    <2> QED
        BY <2>1, <2>2
  <1>4. /\ pass'[c].pc = "pick" /\ pass'[c].local = pass[c].local /\ pass'[c].remote = pass[c].remote
        /\ pass'[c].todo = pass[c].todo \ {n}
      BY <1>2 DEF Settled, Skipped, Now
  <1>5. ASSUME NEW k \in Copy PROVE CopyOf(c, k)'
    <2>1. k \in Name /\ k # n /\ CopyOf(c, k) /\ pass[c].base \in [Name -> Nat]
        BY <1>1, CopyFacts, DirFacts DEF Tidy, Pass
    <2>2. pass'[c].base[k] = pass[c].base[k]
        BY <1>2, <2>1 DEF Settled, Skipped, Now
    <2> QED
        BY <1>3, <1>4, <2>1, <2>2, CopyStays
  <1> QED
      BY <1>1, <1>4, <1>5, TidyPick DEF Busy, Parked

LEMMA PushTidy ==
    ASSUME TypeOK, NEW c \in Client, NEW n \in Name, Tidy(c), Push(c, n)
    PROVE  n = Main /\ Tidy(c)'
  <1>1. n = Main
      BY CopyFacts, CopyListed DEF Push
  <1>2. Began(c, "push_stamp", n, clock + 1) /\ Stored(n, local[c][n].data)
        /\ UNCHANGED <<local, base>>
      BY PushDoes DEF Push
  <1>3. ASSUME NEW k \in Copy PROVE CopyOf(c, k)' /\ InHand(c, k)'
    <2>1. k \in Name /\ k # n /\ CopyOf(c, k)
        BY <1>1, CopyFacts DEF Tidy
    <2>2. CopyOf(c, k)'
        BY <1>2, <2>1, CopyStays DEF Began, Now, Stored
    <2>3. InHand(c, k)'
        BY <1>2, <2>1 DEF Began, Now, InHand, Busy, Parked
    <2> QED
        BY <2>2, <2>3
  <1>4. Parking(c)'
      BY <1>2 DEF Began, Now, Parking, Parked
  <1> QED
      BY <1>1, <1>3, <1>4 DEF Tidy

LEMMA BeginsTidy ==
    ASSUME TypeOK, NEW c \in Client, NEW n \in Name, Tidy(c), Diverged(c, n) \/ PushRefused(c, n)
    PROVE  Tidy(c)'
  <1>1. Began(c, "cf_park", n, pass[c].remote[n]) /\ UNCHANGED <<local, base, remote>> /\ At(c, n)
      BY Decides DEF Diverged, PushRefused, sides
  <1>2. n \in Copy => Diverged(c, n)
      BY CopyListed DEF PushRefused
  <1>3. ASSUME NEW k \in Copy PROVE CopyOf(c, k)' /\ InHand(c, k)'
    <2>1. CopyOf(c, k)
        BY DEF Tidy
    <2>2. CopyOf(c, k)'
        BY <1>1, <2>1, CopyStays DEF Began, Now
    <2>3. CASE k # n
        BY <1>1, <2>2, <2>3 DEF Began, Now, InHand, Busy, Parked
    <2>4. CASE k = n
      <3>1. /\ k \in pass[c].todo /\ pass[c].remote[k] = remote[k].mtime
            /\ pass[c].local[k] # pass[c].remote[k]
          BY <1>1, <1>2, <2>4, CopyListed DEF At, Diverged
      <3> QED
          BY <1>1, <2>2, <2>4, <3>1 DEF Began, Now, InHand, Busy, Parked
    <2> QED
        BY <2>3, <2>4
  <1>4. Parking(c)'
      BY <1>1 DEF Began, Now, Parking, Parked
  <1> QED
      BY <1>3, <1>4 DEF Tidy

LEMMA PullTidy ==
    ASSUME TypeOK, NEW c \in Client, NEW n \in Name, Tidy(c), Pull(c, n)
    PROVE  Tidy(c)'
  <1>1. /\ Began(c, "pull_stamp", n, pass[c].remote[n]) /\ Wrote(c, n, remote[n].data)
        /\ UNCHANGED <<base, remote>> /\ At(c, n) /\ ~LChanged(c, n)
      BY PullDoes DEF Pull
  <1>2. ASSUME NEW k \in Copy PROVE CopyOf(c, k)' /\ InHand(c, k)'
    <2>1. CopyOf(c, k) /\ k \in Name
        BY CopyFacts DEF Tidy
    <2>2. CASE k # n
      <3>1. local'[c][k] = local[c][k]
          BY <1>1, <2>1, <2>2 DEF Wrote
      <3>2. CopyOf(c, k)'
          BY <1>1, <2>1, <3>1, CopyStays DEF Began, Now
      <3> QED
          BY <1>1, <2>2, <3>2 DEF Began, Now, InHand, Busy, Parked
    <2>3. CASE k = n
      <3>1. /\ k \in pass[c].todo /\ Exists(remote[k]) /\ pass[c].remote[k] = remote[k].mtime
            /\ pass[c].base[k] = 0 /\ base[c][k] = 0 /\ pass[c].local[k] = 0 /\ remote[k].mtime # 0
          BY <1>1, <2>3, CopyListed, CopyFacts DEF At
      <3>2. CopyOf(c, k)'
          BY <1>1, <2>3, <3>1 DEF Began, Now, Wrote, CopyOf
      <3>3. InHand(c, k)'
          BY <1>1, <2>3, <3>1 DEF Began, Now, Wrote, InHand, Busy, Parked
      <3> QED
          BY <3>2, <3>3
    <2> QED
        BY <2>2, <2>3
  <1>3. Parking(c)'
      BY <1>1 DEF Began, Now, Parking, Parked
  <1> QED
      BY <1>2, <1>3 DEF Tidy

\* A stamp gives the client that pulled a copy the very file of the drive.
LEMMA CopyStamped ==
    ASSUME TypeOK, TypeOK', NEW c \in Client, NEW k \in Copy, CopyOf(c, k), remote'[k] = remote[k],
           Chtimed(c, k, remote[k].mtime)
    PROVE  /\ Has(c, k) => local'[c][k] = local[c][k]
           /\ Exists(local[c][k]) => Has(c, k)'
           /\ Exists(local'[c][k]) <=> Exists(local[c][k])
           /\ Exists(local[c][k]) => local'[c][k].mtime = remote[k].mtime
  <1>1. /\ local'[c][k] \in File /\ remote[k] \in File
        /\ local[c][k] \in File /\ (Exists(remote[k]) => remote[k].mtime # 0)
    <2>1. local[c][k] \in File /\ remote[k] \in File /\ (Exists(remote[k]) => remote[k].mtime # 0)
        BY CopyFacts
    <2>2. k \in Name /\ local' \in [Client -> [Name -> File]]
        BY CopyFacts DEF TypeOK
    <2> QED
        BY <2>1, <2>2
  <1>2. CASE Exists(local[c][k])
    <2>1. Exists(remote[k]) /\ local'[c][k].data = remote[k].data /\ local'[c][k].mtime = remote[k].mtime
          /\ (Exists(local'[c][k]) <=> Exists(local[c][k]))
      <3>1. Exists(remote[k]) /\ local[c][k].data = remote[k].data /\ remote[k].mtime # 0
          BY <1>1, <1>2 DEF CopyOf
      <3> QED
          BY <1>2, <3>1 DEF Chtimed
    <2>2. local'[c][k] = remote[k]
      <3> DEFINE f == local'[c][k]
                 g == remote[k]
      <3>1. f \in File /\ g \in File /\ f.data = g.data /\ f.mtime = g.mtime
          BY <1>1, <2>1
      <3> HIDE DEF f, g
      <3>2. f = g
          BY <3>1 DEF File
      <3> QED
          BY <3>2 DEF f, g
    <2>3. Exists(remote'[k]) /\ local'[c][k] = remote'[k]
        BY <2>1, <2>2
    <2>4. Has(c, k) => local'[c][k] = local[c][k]
        BY <2>2 DEF Has
    <2> QED
        BY <1>2, <2>1, <2>3, <2>4 DEF Has
  <1>3. CASE ~Exists(local[c][k])
      BY <1>3 DEF Has, Chtimed
  <1> QED
      BY <1>2, <1>3

LEMMA StampTidy ==
    ASSUME TypeOK, TypeOK', NEW c \in Client, Tidy(c), PushStamp(c) \/ PullStamp(c)
    PROVE  Tidy(c)'
  <1> DEFINE n == pass[c].name
             t == pass[c].meta
  <1>1. /\ pass[c] \in Pass /\ pass[c].pc \in {"push_stamp", "pull_stamp"}
        /\ UNCHANGED <<base, remote>>
      BY DirFacts DEF PushStamp, PullStamp
  <1>2. n \in Name /\ Chtimed(c, n, t) /\ Settled(c, n, t)
      BY StampDoes
  <1>3. /\ pass'[c].pc = "pick" /\ pass'[c].local = pass[c].local /\ pass'[c].remote = pass[c].remote
        /\ pass'[c].todo = pass[c].todo \ {n} /\ pass'[c].base = [pass[c].base EXCEPT ![n] = t]
      BY <1>2 DEF Settled, Now
  <1>4. ASSUME NEW k \in Copy PROVE CopyOf(c, k)'
    <2>1. k \in Name /\ CopyOf(c, k) /\ InHand(c, k) /\ pass[c].base \in [Name -> Nat]
        BY <1>1, CopyFacts DEF Tidy, Pass
    <2>2. CASE k # n
      <3>1. pass'[c].base[k] = pass[c].base[k] /\ local'[c][k] = local[c][k]
          BY <1>2, <1>3, <2>1, <2>2 DEF Chtimed
      <3> QED
          BY <1>1, <1>3, <2>1, <3>1, CopyStays
    <2>3. CASE k = n
      <3>1. /\ pass[c].pc = "pull_stamp" /\ t = remote[k].mtime /\ Exists(local[c][k])
          BY <1>1, <2>1, <2>3 DEF InHand, Busy
      <3>2. Has(c, k)' /\ pass'[c].base[k] = remote[k].mtime /\ local'[c][k].mtime = remote[k].mtime
          BY <1>1, <1>2, <1>3, <2>1, <2>3, <3>1, CopyStamped
      <3>3. base[c][k] # 0 => base[c][k] = remote[k].mtime
          BY <2>1 DEF CopyOf
      <3> QED
          BY <1>1, <1>3, <2>3, <3>2, <3>3 DEF CopyOf, Has
    <2> QED
        BY <2>2, <2>3
  <1> QED
      BY <1>3, <1>4, TidyPick DEF Busy, Parked

LEMMA GiveUpTidy ==
    ASSUME TypeOK, NEW c \in Client, Tidy(c), GiveUp(c)
    PROVE  Tidy(c)'
  <1>1. Skipped(c, pass[c].name) /\ UNCHANGED <<local, base, remote>>
      BY GiveUpDoes DEF sides
  <1>2. \A k \in Copy : CopyOf(c, k)'
      BY <1>1, CopyStays DEF Skipped, Now, Tidy
  <1> QED
      BY <1>1, <1>2, TidyPick DEF Skipped, Now, Busy, Parked

\* The copy that is made now is none there was before, for anyone.
LEMMA ParkTidy ==
    ASSUME TypeOK, Copies, NEW c \in Client, Parks(c)
    PROVE  Copies'
  <1> DEFINE n == pass[c].name
             new == copies + 1
  <1>1. /\ new \in Name /\ copies \in Nat /\ Stored(new, local[c][n].data) /\ copies' = new
        /\ Now(c, "cf_pull", n, pass[c].meta, new, clock + 1, pass[c].todo, pass[c].base)
        /\ UNCHANGED <<local, base, hot>> /\ pass[c].pc = "cf_park" /\ n \in Name
      BY SyncBoundAssumption DEF Parks, TypeOK
  <1>2. new \in Copy /\ ~Exists(remote[new])
    <2>1. new \in Copy
        BY <1>1, SyncBoundAssumption DEF Name, Copy
    <2>2. ~(new <= copies)
        BY <1>1
    <2> QED
        BY <2>1, <2>2 DEF Copies, Fresh
  <1>3. \A d \in Client : /\ ~Exists(local[d][new]) /\ base[d][new] = 0 /\ pass[d].base[new] = 0
                          /\ new \notin pass[d].todo
                          /\ ~(pass[d].pc \in Busy /\ pass[d].name = new)
                          /\ ~(pass[d].pc \in Parked /\ pass[d].conf = new)
      BY <1>2 DEF Copies, Tidy, CopyOf, InHand, Has
  <1>4. Fresh'
    <2>1. ASSUME NEW k \in Copy, Exists(remote'[k]) PROVE k <= new
        BY <1>1, <2>1, CopyFacts DEF Copies, Fresh, Stored, Copy
    <2> QED
        BY <1>1, <2>1 DEF Fresh
  <1>5. ASSUME NEW d \in Client, NEW k \in Copy PROVE CopyOf(d, k)'
    <2>1. CopyOf(d, k) /\ k \in Name
        BY CopyFacts DEF Copies, Tidy
    <2>2. /\ pass'[d].base = pass[d].base /\ pass'[d].local = pass[d].local
          /\ pass'[d].remote = pass[d].remote /\ pass'[d].todo = pass[d].todo
          /\ pass'[d].pc = "listed" => pass[d].pc = "listed"
        BY <1>1 DEF Now
    <2>3. CASE k # new
      <3>1. remote'[k] = remote[k]
          BY <1>1, <2>1, <2>3 DEF Stored
      <3> QED
          BY <1>1, <2>1, <2>2, <3>1 DEF CopyOf, Has
    <2>4. CASE k = new
        BY <1>1, <1>3, <2>1, <2>2, <2>4 DEF CopyOf
    <2> QED
        BY <2>3, <2>4
  <1>6. ASSUME NEW d \in Client, NEW k \in Copy PROVE InHand(d, k)'
    <2>1. InHand(d, k) /\ k \in Name
        BY CopyFacts DEF Copies, Tidy
    <2>2. CASE k # new /\ d # c
      <3>1. remote'[k] = remote[k] /\ pass'[d] = pass[d]
          BY <1>1, <2>1, <2>2 DEF Stored, Now
      <3> QED
          BY <1>1, <2>1, <3>1 DEF InHand, Has
    <2>3. CASE k # new /\ d = c
      <3>1. remote'[k] = remote[k]
          BY <1>1, <2>1, <2>3 DEF Stored
      <3> QED
          BY <1>1, <2>1, <2>3, <3>1 DEF InHand, Now, Busy, Parked
    <2>4. CASE k = new /\ d # c
      <3>1. pass'[d] = pass[d]
          BY <1>1, <2>4 DEF Now
      <3>2. pass[d].pc \in {"cf_mirror", "cf_stamp", "cf_stat", "pull_stamp"} => pass[d].pc \in Busy
          BY DEF Busy, Parked
      <3> QED
          BY <1>3, <2>1, <2>4, <3>1, <3>2 DEF InHand, Parked
    <2>5. CASE k = new /\ d = c
      <3>1. n # new
          BY <1>1, <1>3 DEF Busy
      <3>2. remote'[new].mtime = clock + 1 /\ Exists(remote'[new])
          BY <1>1 DEF Stored
      <3> QED
          BY <1>1, <1>3, <2>5, <3>1, <3>2 DEF InHand, Now, Parked, Busy
    <2> QED
        BY <2>2, <2>3, <2>4, <2>5
  <1>7. ASSUME NEW d \in Client PROVE Parking(d)'
    <2>1. CASE d = c
        BY <1>1, <1>2, <2>1 DEF Parking, Now, Stored, Parked
    <2>2. CASE d # c
      <3>1. pass'[d] = pass[d] /\ Parking(d)
          BY <1>1, <2>2 DEF Now, Copies, Tidy
      <3>2. pass[d].pc \in Parked => pass[d].conf \in Copy /\ pass[d].conf # new
          BY <1>3, <3>1 DEF Parking
      <3>3. pass[d].pc \in Parked => remote'[pass[d].conf] = remote[pass[d].conf]
          BY <1>1, <3>2, CopyFacts DEF Stored
      <3> QED
          BY <1>1, <3>1, <3>3 DEF Parking, Parked
    <2> QED
        BY <2>1, <2>2
  <1> QED
      BY <1>4, <1>5, <1>6, <1>7 DEF Copies, Tidy

LEMMA ConflictPullTidy ==
    ASSUME TypeOK, NEW c \in Client, Tidy(c), ConflictPull(c)
    PROVE  Tidy(c)'
  <1> DEFINE n == pass[c].name
  <1>1. CASE GiveUp(c)
      BY <1>1, GiveUpTidy
  <1>2. CASE ~GiveUp(c)
    <2>1. /\ Reached(c, "cf_stat") /\ Wrote(c, n, remote[n].data) /\ n \in Name
          /\ UNCHANGED <<base, remote, hot>> /\ pass[c].pc = "cf_pull"
          /\ remote[n].data # 0
        BY <1>2, ConflictPullDoes DEF ConflictPull
    <2>2. ASSUME NEW k \in Copy PROVE CopyOf(c, k)' /\ InHand(c, k)'
      <3>1. CopyOf(c, k) /\ InHand(c, k) /\ k \in Name
          BY CopyFacts DEF Tidy
      <3>2. CASE k # n
        <4>1. local'[c][k] = local[c][k]
            BY <2>1, <3>1, <3>2 DEF Wrote
        <4>2. CopyOf(c, k)'
            BY <2>1, <3>1, <4>1, CopyStays DEF Reached, Now
        <4> QED
            BY <2>1, <3>1, <3>2, <4>1, <4>2 DEF Reached, Now, InHand, Busy, Parked
      <3>3. CASE k = n
        <4>1. /\ k \in pass[c].todo /\ pass[c].meta = remote[k].mtime
              /\ pass[c].local[k] # remote[k].mtime /\ Exists(remote[k])
              /\ pass[c].base[k] = 0 /\ base[c][k] = 0 /\ pass[c].remote[k] = remote[k].mtime
            BY <2>1, <3>1, <3>3 DEF InHand, CopyOf, Busy, Parked
        <4>2. CopyOf(c, k)'
            BY <2>1, <3>3, <4>1 DEF Reached, Now, Wrote, CopyOf
        <4>3. InHand(c, k)'
            BY <2>1, <3>1, <3>3, <4>1 DEF Reached, Now, Wrote, InHand, Busy, Parked
        <4> QED
            BY <4>2, <4>3
      <3> QED
          BY <3>2, <3>3
    <2>3. Parking(c)'
        BY <2>1 DEF Reached, Now, Tidy, Parking, Parked
    <2> QED
        BY <2>2, <2>3 DEF Tidy
  <1> QED
      BY <1>1, <1>2

LEMMA ConflictStatTidy ==
    ASSUME TypeOK, TypeOK', NEW c \in Client, Tidy(c), ConflictStat(c)
    PROVE  Tidy(c)'
  <1> DEFINE n == pass[c].name
             t == StatTime(c)
  <1>1. /\ Began(c, "cf_mirror", n, t) /\ Chtimed(c, n, t) /\ n \in Name
        /\ UNCHANGED <<base, remote, hot>> /\ pass[c].pc = "cf_stat"
      BY ConflictStatDoes DEF ConflictStat
  <1>2. ASSUME NEW k \in Copy PROVE CopyOf(c, k)' /\ InHand(c, k)'
    <2>1. CopyOf(c, k) /\ InHand(c, k) /\ k \in Name
        BY CopyFacts DEF Tidy
    <2>2. CASE k # n
      <3>1. local'[c][k] = local[c][k]
          BY <1>1, <2>1, <2>2 DEF Chtimed
      <3>2. CopyOf(c, k)'
          BY <1>1, <2>1, <3>1, CopyStays DEF Began, Now
      <3> QED
          BY <1>1, <2>1, <2>2, <3>1, <3>2 DEF Began, Now, InHand, Busy, Parked
    <2>3. CASE k = n
      <3>1. /\ k \in pass[c].todo /\ Exists(remote[k]) /\ pass[c].local[k] # remote[k].mtime
            /\ pass[c].base[k] = 0 /\ base[c][k] = 0 /\ pass[c].remote[k] = remote[k].mtime
            /\ Exists(local[c][k])
          BY <1>1, <2>1, <2>3 DEF InHand, CopyOf, Busy, Parked
      <3>2. t = remote[k].mtime
          BY <2>3, <3>1 DEF StatTime
      <3>3. Has(c, k)' /\ local'[c][k].mtime = remote[k].mtime
          BY <1>1, <2>1, <2>3, <3>1, <3>2, CopyStamped
      <3>4. CopyOf(c, k)'
          BY <1>1, <2>3, <3>1, <3>3 DEF Began, Now, CopyOf, Has
      <3>5. InHand(c, k)'
          BY <1>1, <2>1, <2>3, <3>1, <3>2, <3>3 DEF Began, Now, InHand, Busy, Parked
      <3> QED
          BY <3>4, <3>5
    <2> QED
        BY <2>2, <2>3
  <1>3. Parking(c)'
      BY <1>1 DEF Began, Now, Tidy, Parking, Parked
  <1> QED
      BY <1>2, <1>3 DEF Tidy

LEMMA ConflictMirrorTidy ==
    ASSUME TypeOK, NEW c \in Client, Tidy(c), ConflictMirror(c)
    PROVE  Tidy(c)'
  <1> DEFINE i == pass[c].conf
  <1>1. CASE GiveUp(c)
      BY <1>1, GiveUpTidy
  <1>2. CASE ~GiveUp(c)
    <2>1. /\ Reached(c, "cf_stamp") /\ Wrote(c, i, remote[i].data) /\ i \in Name
          /\ UNCHANGED <<base, remote, hot>> /\ pass[c].pc = "cf_mirror"
        BY <1>2, ConflictMirrorDoes DEF ConflictMirror
    <2>2. i \in Copy
        BY <2>1 DEF Tidy, Parking, Parked
    <2>3. ASSUME NEW k \in Copy PROVE CopyOf(c, k)' /\ InHand(c, k)'
      <3>1. CopyOf(c, k) /\ InHand(c, k) /\ k \in Name
          BY CopyFacts DEF Tidy
      <3>2. CASE k # i
        <4>1. local'[c][k] = local[c][k]
            BY <2>1, <3>1, <3>2 DEF Wrote
        <4>2. CopyOf(c, k)'
            BY <2>1, <3>1, <4>1, CopyStays DEF Reached, Now
        <4>3. InHand(c, k)'
            BY <2>1, <3>1, <3>2, <4>1 DEF Reached, Now, InHand, Busy, Parked, Has
        <4> QED
            BY <4>2, <4>3
      <3>3. CASE k = i
        <4>1. /\ Exists(remote[k]) /\ k \notin pass[c].todo /\ pass[c].cmeta = remote[k].mtime
              /\ pass[c].base[k] = 0 /\ base[c][k] = 0
            BY <2>1, <3>1, <3>3 DEF InHand, Parked
        <4>2. pass[c].name # k
            BY <2>1, <3>1, <4>1 DEF InHand, Busy, Parked
        <4>3. CopyOf(c, k)'
            BY <2>1, <3>3, <4>1 DEF Reached, Now, Wrote, CopyOf
        <4>4. InHand(c, k)'
            BY <2>1, <3>3, <4>1, <4>2 DEF Reached, Now, Wrote, InHand, Busy, Parked
        <4> QED
            BY <4>3, <4>4
      <3> QED
          BY <3>2, <3>3
    <2>4. Parking(c)'
        BY <2>1 DEF Reached, Now, Tidy, Parking, Parked
    <2> QED
        BY <2>3, <2>4 DEF Tidy
  <1> QED
      BY <1>1, <1>2

LEMMA ConflictDoneTidy ==
    ASSUME TypeOK, TypeOK', NEW c \in Client, Tidy(c), ConflictDone(c)
    PROVE  Tidy(c)'
  <1> DEFINE n == pass[c].name
             i == pass[c].conf
             b == [pass[c].base EXCEPT ![n] = pass[c].meta, ![i] = pass[c].cmeta]
  <1>1. /\ Now(c, "pick", n, pass[c].meta, i, pass[c].cmeta, pass[c].todo \ {n}, b)
        /\ Chtimed(c, i, pass[c].cmeta) /\ n \in Name /\ i \in Name
        /\ UNCHANGED <<base, remote>> /\ pass[c].pc = "cf_stamp" /\ pass[c] \in Pass
      BY ConflictDoneDoes, DirFacts DEF ConflictDone
  <1>2. /\ pass'[c].pc = "pick" /\ pass'[c].local = pass[c].local /\ pass'[c].remote = pass[c].remote
        /\ pass'[c].todo = pass[c].todo \ {n}
        /\ \A k \in Name : pass'[c].base[k] = IF k = i THEN pass[c].cmeta
                                              ELSE IF k = n THEN pass[c].meta ELSE pass[c].base[k]
      BY <1>1 DEF Now, Pass
  <1>3. ASSUME NEW k \in Copy PROVE CopyOf(c, k)'
    <2>1. CopyOf(c, k) /\ InHand(c, k) /\ k \in Name
        BY CopyFacts DEF Tidy
    <2>2. CASE k # n /\ k # i
      <3>1. local'[c][k] = local[c][k] /\ pass'[c].base[k] = pass[c].base[k]
          BY <1>1, <1>2, <2>1, <2>2 DEF Chtimed
      <3> QED
          BY <1>1, <1>2, <2>1, <3>1, CopyStays
    <2>3. CASE k = n /\ k # i
      <3>1. Has(c, k) /\ pass[c].meta = remote[k].mtime /\ base[c][k] = 0
          BY <1>1, <2>1, <2>3 DEF InHand, CopyOf, Busy, Parked
      <3>2. local'[c][k] = local[c][k] /\ pass'[c].base[k] = remote[k].mtime
          BY <1>1, <1>2, <2>1, <2>3, <3>1 DEF Chtimed
      <3> QED
          BY <1>1, <1>2, <2>1, <2>3, <3>1, <3>2 DEF CopyOf, Has
    <2>4. CASE k = i
      <3>1. /\ Exists(remote[k]) /\ k \notin pass[c].todo /\ pass[c].cmeta = remote[k].mtime
            /\ base[c][k] = 0 /\ Exists(local[c][k])
          BY <1>1, <2>1, <2>4 DEF InHand, Parked
      <3>2. Has(c, k)' /\ local'[c][k].mtime = remote[k].mtime /\ pass'[c].base[k] = remote[k].mtime
          BY <1>1, <1>2, <2>1, <2>4, <3>1, CopyStamped
      <3> QED
          BY <1>1, <1>2, <2>4, <3>1, <3>2 DEF CopyOf, Has
    <2> QED
        BY <2>2, <2>3, <2>4
  <1> QED
      BY <1>2, <1>3, TidyPick DEF Busy, Parked

LEMMA WalkTidy ==
    ASSUME TypeOK, NEW c \in Client, Tidy(c), WalkLocal(c) \/ WalkRemote(c)
    PROVE  Tidy(c)'
  <1>1. UNCHANGED <<local, base, remote>>
      BY DEF WalkLocal, WalkRemote, sides
  <1>2. ASSUME NEW k \in Copy, WalkLocal(c) PROVE CopyOf(c, k)'
    <2>1. CopyOf(c, k) /\ k \in Name /\ Walked(c)
        BY <1>2, CopyFacts, WalkLocalDoes DEF Tidy
    <2> QED
        BY <1>1, <2>1 DEF CopyOf, Walked, Has
  <1>3. ASSUME NEW k \in Copy, WalkRemote(c) PROVE CopyOf(c, k)'
    <2>1. CopyOf(c, k) /\ k \in Name /\ Compared(c) /\ pass[c].pc = "listed"
        BY <1>3, CopyFacts, WalkRemoteDoes DEF Tidy, WalkRemote
    <2>2. /\ Exists(local[c][k]) <=> local[c][k].mtime # 0
          /\ Exists(remote[k]) <=> remote[k].mtime # 0
          /\ local[c][k] \in File /\ remote[k] \in File
        BY CopyFacts
    <2>3. pass[c].local[k] = local[c][k].mtime /\ pass[c].base[k] = base[c][k]
        BY <2>1 DEF CopyOf
    <2>4. Exists(remote[k]) /\ local[c][k].mtime = remote[k].mtime => Has(c, k)
      <3> SUFFICES ASSUME Exists(remote[k]), local[c][k].mtime = remote[k].mtime PROVE Has(c, k)
          OBVIOUS
      <3> DEFINE f == local[c][k]
                 g == remote[k]
      <3>1. f \in File /\ g \in File /\ f.data = g.data /\ f.mtime = g.mtime
          BY <2>1, <2>2 DEF CopyOf
      <3> HIDE DEF f, g
      <3>2. f = g
          BY <3>1 DEF File
      <3> QED
          BY <3>2 DEF f, g, Has
    <2>5. k \in pass'[c].todo => Exists(remote[k]) /\ base[c][k] = 0
        BY <2>1, <2>2, <2>3 DEF Compared, CopyOf, Has
    <2> QED
        BY <1>1, <2>1, <2>3, <2>4, <2>5 DEF CopyOf, Compared, Has
  <1>4. pass'[c].pc \in {"listed", "pick"}
      BY WalkLocalDoes, WalkRemoteDoes DEF Walked, Compared
  <1> QED
      BY <1>2, <1>3, <1>4, TidyPick DEF Busy, Parked

LEMMA SaveTidy ==
    ASSUME TypeOK, NEW c \in Client, Tidy(c), Save(c) \/ Interrupt(c) \/ LoseBaseline(c)
    PROVE  Tidy(c)'
  <1>1. UNCHANGED <<local, remote>>
      BY DEF Save, Interrupt, LoseBaseline, sides
  <1>2. pass'[c].pc = "idle"
      BY EndedAt, NameFacts DEF Save, Interrupt, LoseBaseline, Ended
  <1>3. ASSUME NEW k \in Copy PROVE CopyOf(c, k)'
    <2>1. CopyOf(c, k) /\ k \in Name
        BY CopyFacts DEF Tidy
    <2>2. CASE Save(c)
      <3>1. Ended(c) /\ base'[c] = pass[c].base
          BY <2>2, EndedAt DEF Save, TypeOK
      <3> QED
          BY <1>1, <2>1, <3>1, NameFacts DEF Ended, CopyOf, Has
    <2>3. CASE Interrupt(c)
        BY <1>1, <2>1, <2>3, EndedAt, NameFacts DEF Interrupt, sides, Ended, CopyOf, Has
    <2>4. CASE LoseBaseline(c)
      <3>1. base'[c][k] = 0 /\ pass' = pass
          BY <2>1, <2>4, NameFacts DEF LoseBaseline, TypeOK
      <3> QED
          BY <1>1, <1>2, <2>1, <3>1 DEF CopyOf, Has
    <2> QED
        BY <2>2, <2>3, <2>4
  <1> QED
      BY <1>2, <1>3, TidyPick DEF Busy, Parked

\* Users work on the main file only.
LEMMA UserTidy ==
    ASSUME TypeOK, Copies, UserStep
    PROVE  Copies'
  <1>1. UNCHANGED <<base, pass, copies>> /\ hot \subseteq hot'
      BY DEF UserStep, WebPut, WebRemove, Edit, Remove
  <1>2. \A k \in Copy : remote'[k] = remote[k]
    <2>1. CASE WebPut \/ WebRemove
      <3>1. Discarded(Main) \/ Stored(Main, clock + 1)
          BY <2>1, StoreFacts, DiscardFacts, NameFacts DEF WebPut, WebRemove, TypeOK
      <3> QED
          BY <3>1, CopyFacts DEF Discarded, Stored
    <2> QED
        BY <2>1 DEF UserStep, Edit, Remove
  <1>3. ASSUME NEW d \in Client
        PROVE  /\ \A k \in Copy : local'[d][k] = local[d][k]
               /\ \A n \in Name : \/ local'[d][n] = local[d][n]
                                  \/ local'[d][n].data \in hot' \cup {0}
                                  \/ pass[d].pc # "cf_pull"
    <2>1. CASE WebPut \/ WebRemove
        BY <2>1 DEF WebPut, WebRemove
    <2>2. ASSUME NEW c \in Client, Edit(c)
          PROVE  /\ \A k \in Copy : local'[d][k] = local[d][k]
                 /\ \A n \in Name : \/ local'[d][n] = local[d][n]
                                    \/ local'[d][n].data \in hot' \cup {0}
                                    \/ pass[d].pc # "cf_pull"
      <3>1. Edited(c) /\ hot' = IF pass[c].pc = "idle" THEN hot ELSE hot \cup {clock + 1}
          BY <2>2, EditDoes DEF Edit
      <3> QED
          BY <3>1, CopyFacts DEF Edited
    <2>3. ASSUME NEW c \in Client, Remove(c)
          PROVE  /\ \A k \in Copy : local'[d][k] = local[d][k]
                 /\ \A n \in Name : local'[d][n] = local[d][n] \/ local'[d][n].data = 0
      <3>1. Cleared(c, Main)
          BY <2>3, ClearedAt, NameFacts DEF Remove
      <3> QED
          BY <3>1, CopyFacts, NameFacts DEF Cleared
    <2> QED
        BY <2>1, <2>2, <2>3 DEF UserStep
  <1>4. \A d \in Client : Tidy(d)'
      BY <1>1, <1>2, <1>3, TidyStays DEF Copies
  <1> QED
      BY <1>1, <1>2, <1>4 DEF Copies, Fresh

LEMMA InitCopies == Init => Copies
  <1> SUFFICES ASSUME Init PROVE Copies
      OBVIOUS
  <1>1. \A c \in Client, k \in Copy : /\ pass[c] = NoPass /\ base[c] = Nothing /\ Nothing[k] = 0
                                      /\ local[c][k] = NoFile /\ remote[k] = NoFile
      BY CopyFacts, NameFacts DEF Init
  <1>2. Fresh
      BY CopyFacts, NameFacts DEF Init, Fresh
  <1>3. \A c \in Client, k \in Copy : CopyOf(c, k) /\ InHand(c, k)
      BY <1>1, NameFacts DEF CopyOf, InHand, Busy, Parked
  <1>4. \A c \in Client : pass[c] = NoPass
      BY DEF Init
  <1>5. \A c \in Client : Parking(c)
      BY <1>4, NameFacts DEF Parking, Parked
  <1> QED
      BY <1>2, <1>3, <1>5 DEF Copies, Tidy

\* A step of one pass that makes no copy concerns no other.
LEMMA CopiesAfter ==
    ASSUME TypeOK, Copies, NEW c \in Client, Tidy(c)', Alone(c), hot' = hot, copies' = copies,
           \A d \in Client \ {c} : base'[d] = base[d], \A k \in Copy : remote'[k] = remote[k]
    PROVE  Copies'
  <1>1. ASSUME NEW d \in Client, d # c PROVE Tidy(d)'
      BY <1>1, TidyStays, CopyFacts DEF Copies, Alone
  <1>2. Fresh'
      BY DEF Copies, Fresh
  <1> QED
      BY <1>1, <1>2 DEF Copies

LEMMA PathTidy ==
    ASSUME TypeOK, TypeOK', Copies, NEW c \in Client, NEW n \in Name,
           \/ Adopt(c, n) \/ Diverged(c, n) \/ Push(c, n) \/ PushRefused(c, n) \/ PushGone(c, n)
           \/ DeleteRemote(c, n) \/ Pull(c, n) \/ PullGone(c, n) \/ TrashLocal(c, n) \/ Forget(c, n)
    PROVE  Copies'
  <1>1. Tidy(c)
      BY DEF Copies
  <1>2. UNCHANGED <<base, hot, copies>>
      BY DEF Adopt, Diverged, Push, PushRefused, PushGone, DeleteRemote, Pull, PullGone, TrashLocal,
             Forget, sides
  <1>3. CASE \/ Adopt(c, n) \/ Diverged(c, n) \/ PushRefused(c, n) \/ PushGone(c, n)
             \/ PullGone(c, n) \/ Forget(c, n)
    <2>1. UNCHANGED <<local, remote>>
        BY <1>3 DEF Adopt, Diverged, PushRefused, PushGone, PullGone, Forget, sides
    <2>2. Tidy(c)'
        BY <1>1, <1>3, DecidesTidy, BeginsTidy
    <2>3. Alone(c)
        BY <1>3, <2>1, Decides DEF Alone, Settled, Skipped, Began, Now
    <2> QED
        BY <1>2, <2>1, <2>2, <2>3, CopiesAfter
  <1>4. CASE Push(c, n)
    <2>1. Began(c, "push_stamp", n, clock + 1) /\ Stored(n, local[c][n].data) /\ local' = local
        BY <1>4, PushDoes DEF Push
    <2>2. Alone(c)
        BY <2>1 DEF Alone, Began, Now
    <2>3. n = Main /\ Tidy(c)'
        BY <1>1, <1>4, PushTidy
    <2>4. \A k \in Copy : remote'[k] = remote[k]
        BY <2>1, <2>3, CopyFacts DEF Stored
    <2> QED
        BY <1>2, <2>2, <2>3, <2>4, CopiesAfter
  <1>5. CASE DeleteRemote(c, n)
    <2>1. Discarded(n) /\ (Settled(c, n, 0) \/ Skipped(c, n)) /\ local' = local
        BY <1>5, DeleteRemoteDoes DEF DeleteRemote
    <2>2. Alone(c)
        BY <2>1 DEF Alone, Settled, Skipped, Now
    <2>3. n = Main /\ Tidy(c)'
        BY <1>1, <1>5, DeletesTidy
    <2>4. \A k \in Copy : remote'[k] = remote[k]
        BY <2>1, <2>3, CopyFacts DEF Discarded
    <2> QED
        BY <1>2, <2>2, <2>3, <2>4, CopiesAfter
  <1>6. CASE TrashLocal(c, n)
    <2>1. Cleared(c, n) /\ (Settled(c, n, 0) \/ Skipped(c, n)) /\ remote' = remote
        BY <1>6, TrashLocalDoes DEF TrashLocal
    <2>2. Alone(c)
        BY <2>1 DEF Alone, Settled, Skipped, Now, Cleared
    <2> QED
        BY <1>1, <1>2, <1>6, <2>1, <2>2, DeletesTidy, CopiesAfter
  <1>7. CASE Pull(c, n)
    <2>1. Began(c, "pull_stamp", n, pass[c].remote[n]) /\ Wrote(c, n, remote[n].data) /\ remote' = remote
        BY <1>7, PullDoes DEF Pull
    <2>2. Alone(c)
        BY <2>1 DEF Alone, Began, Now, Wrote
    <2> QED
        BY <1>1, <1>2, <1>7, <2>1, <2>2, PullTidy, CopiesAfter
  <1> QED
      BY <1>3, <1>4, <1>5, <1>6, <1>7

LEMMA StepCopies == TypeOK /\ Copies /\ [Next]_vars => Copies'
  <1> SUFFICES ASSUME TypeOK, Copies, [Next]_vars PROVE Copies'
      OBVIOUS
  <1>0. TypeOK'
      BY StepTypes
  <1>1. CASE UNCHANGED vars
      BY <1>1 DEF vars, Copies, Fresh, Tidy, Parking, CopyOf, InHand, Has
  <1>2. ASSUME NEW c \in Client, GiveUp(c) PROVE Copies'
    <2>1. Skipped(c, pass[c].name) /\ UNCHANGED <<sides, hot, copies>>
        BY <1>2, GiveUpDoes
    <2>2. Alone(c)
        BY <2>1 DEF Alone, Skipped, Now, sides
    <2> QED
        BY <1>2, <2>1, <2>2, GiveUpTidy, CopiesAfter DEF Copies, sides
  <1>3. ASSUME NEW c \in Client, Park(c) PROVE Copies'
      BY <1>2, <1>3, ParkDoes, ParkTidy
  <1>4. ASSUME NEW c \in Client, ConflictPull(c) \/ ConflictMirror(c), ~GiveUp(c) PROVE Copies'
    <2>1. /\ Reached(c, "cf_stat") \/ Reached(c, "cf_stamp")
          /\ Wrote(c, pass[c].name, remote[pass[c].name].data)
               \/ Wrote(c, pass[c].conf, remote[pass[c].conf].data)
          /\ UNCHANGED <<base, remote, copies, hot>>
        BY <1>4, ConflictPullDoes, ConflictMirrorDoes
    <2>2. Alone(c)
        BY <2>1 DEF Alone, Reached, Now, Wrote
    <2> QED
        BY <1>4, <2>1, <2>2, ConflictPullTidy, ConflictMirrorTidy, CopiesAfter DEF Copies
  <1>5. ASSUME NEW c \in Client, PushStamp(c) \/ PullStamp(c) \/ ConflictStat(c) \/ ConflictDone(c)
        PROVE  Copies'
    <2>1. UNCHANGED <<base, remote, copies, hot>>
        BY <1>5 DEF PushStamp, PullStamp, ConflictStat, ConflictDone
    <2>2. Alone(c)
      <3>1. CASE PushStamp(c) \/ PullStamp(c)
        <4>1. Chtimed(c, pass[c].name, pass[c].meta) /\ Settled(c, pass[c].name, pass[c].meta)
            BY <3>1, StampDoes
        <4> QED
            BY <4>1 DEF Alone, Settled, Now, Chtimed
      <3>2. CASE ConflictStat(c)
          BY <3>2, ConflictStatDoes DEF Alone, Began, Now, Chtimed
      <3>3. CASE ConflictDone(c)
        <4>1. /\ Chtimed(c, pass[c].conf, pass[c].cmeta)
              /\ \A d \in Client \ {c} : pass'[d] = pass[d]
            BY <3>3, ConflictDoneDoes DEF Now
        <4> QED
            BY <4>1 DEF Alone, Chtimed
      <3> QED
          BY <1>5, <3>1, <3>2, <3>3
    <2>3. Tidy(c)'
        BY <1>0, <1>5, StampTidy, ConflictStatTidy, ConflictDoneTidy DEF Copies
    <2> QED
        BY <2>1, <2>2, <2>3, CopiesAfter
  <1>6. ASSUME NEW c \in Client, WalkLocal(c) \/ WalkRemote(c) PROVE Copies'
    <2>1. UNCHANGED <<local, base, remote, copies, hot>>
        BY <1>6 DEF WalkLocal, WalkRemote, sides
    <2>2. Alone(c)
        BY <1>6, <2>1, WalkLocalDoes, WalkRemoteDoes DEF Alone, Walked, Compared
    <2> QED
        BY <1>6, <2>1, <2>2, WalkTidy, CopiesAfter DEF Copies
  <1>7. ASSUME NEW c \in Client, Save(c) \/ Interrupt(c) \/ LoseBaseline(c) PROVE Copies'
    <2>1. UNCHANGED <<local, remote, copies, hot>> /\ \A d \in Client \ {c} : base'[d] = base[d]
        BY <1>7 DEF Save, Interrupt, LoseBaseline, sides, TypeOK
    <2>2. Alone(c)
        BY <1>7, <2>1, EndedAt DEF Alone, Save, Interrupt, LoseBaseline, Ended
    <2> QED
        BY <1>7, <2>1, <2>2, SaveTidy, CopiesAfter DEF Copies
  <1>8. ASSUME NEW c \in Client, PassStep(c) PROVE Copies'
      BY <1>0, <1>2, <1>3, <1>4, <1>5, <1>6, <1>7, <1>8, PathTidy DEF PassStep
  <1> QED
      BY <1>1, <1>7, <1>8, UserTidy DEF Next

\* A conflict copy is never overwritten on the drive, nor deleted from it.
LEMMA CopyForever ==
    ASSUME TypeOK, Copies, Next, NEW k \in Copy, Exists(remote[k])
    PROVE  remote'[k] = remote[k]
  <1> USE DEF sides
  <1>1. ASSUME NEW c \in Client, NEW n \in Name, Push(c, n) \/ DeleteRemote(c, n)
        PROVE  remote'[k] = remote[k]
    <2>1. n = Main
        BY <1>1, PushTidy, DeletesTidy DEF Copies
    <2>2. Discarded(n) \/ Stored(n, local[c][n].data)
        BY <1>1, PushDoes, DeleteRemoteDoes
    <2> QED
        BY <2>1, <2>2, CopyFacts DEF Discarded, Stored
  <1>2. ASSUME NEW c \in Client, Park(c)
        PROVE  remote'[k] = remote[k]
    <2>1. CASE Parks(c)
      <3>1. k # copies + 1 /\ Stored(copies + 1, local[c][pass[c].name].data)
          BY <2>1, SyncBoundAssumption DEF Parks, Copies, Fresh, Copy, TypeOK
      <3> QED
          BY <3>1, CopyFacts DEF Stored
    <2> QED
        BY <1>2, <2>1, ParkDoes DEF GiveUp
  <1>3. CASE UserStep
    <2>1. CASE WebPut \/ WebRemove
      <3>1. Discarded(Main) \/ Stored(Main, clock + 1)
          BY <2>1, StoreFacts, DiscardFacts, NameFacts DEF WebPut, WebRemove, TypeOK
      <3> QED
          BY <3>1, CopyFacts DEF Discarded, Stored
    <2> QED
        BY <1>3, <2>1 DEF UserStep, Edit, Remove
  <1>4. ASSUME NEW c \in Client, NEW n \in Name,
               \/ Adopt(c, n) \/ Diverged(c, n) \/ PushRefused(c, n) \/ PushGone(c, n)
               \/ Pull(c, n) \/ PullGone(c, n) \/ TrashLocal(c, n) \/ Forget(c, n)
        PROVE  remote' = remote
      BY <1>4 DEF Adopt, Diverged, PushRefused, PushGone, Pull, PullGone, TrashLocal, Forget
  <1>5. ASSUME NEW c \in Client, \/ PushStamp(c) \/ PullStamp(c) \/ ConflictPull(c)
                                 \/ ConflictStat(c) \/ ConflictMirror(c) \/ ConflictDone(c)
        PROVE  remote' = remote
      BY <1>5 DEF PushStamp, PullStamp, ConflictPull, ConflictStat, ConflictMirror, ConflictDone, GiveUp
  <1>6. ASSUME NEW c \in Client, \/ WalkLocal(c) \/ WalkRemote(c) \/ Save(c)
                                 \/ Interrupt(c) \/ LoseBaseline(c)
        PROVE  remote' = remote
      BY <1>6 DEF WalkLocal, WalkRemote, Save, Interrupt, LoseBaseline
  <1> QED
      BY <1>1, <1>2, <1>3, <1>4, <1>5, <1>6 DEF Next, PassStep

\* The local content a conflict replaces is by then a live file of the drive.
THEOREM BothKept == Spec => ConflictKeepsBoth
  <1>1. TypeOK /\ Copies /\ [Next]_vars =>
          [\A c \in Client : pass[c].pc = "cf_pull" /\ pass'[c].pc = "cf_stat" =>
             {local[c][pass[c].name].data} \subseteq Contents(remote') \cup hot \cup {0}]_vars
    <2> SUFFICES ASSUME TypeOK, Copies, Next, NEW c \in Client, pass[c].pc = "cf_pull",
                        pass'[c].pc = "cf_stat"
                 PROVE  local[c][pass[c].name].data \in Contents(remote') \cup hot \cup {0}
        OBVIOUS
    <2>1. /\ pass[c].conf \in Name
          /\ local[c][pass[c].name].data \in {remote[pass[c].conf].data} \cup hot \cup {0}
        BY DirFacts DEF Copies, Tidy, Parking, Pass
    <2>2. pass[c].conf \in Copy /\ Exists(remote[pass[c].conf])
        BY DEF Copies, Tidy, Parking, InHand, Parked
    <2>3. remote'[pass[c].conf] = remote[pass[c].conf]
        BY <2>2, CopyForever
    <2> QED
        BY <2>1, <2>3 DEF Contents
  <1> QED
      BY <1>1, InitTypes, InitCopies, StepTypes, StepCopies, PTL DEF Spec, ConflictKeepsBoth

-----------------------------------------------------------------------------
(* Passes one after another                                                  *)

\* One pass at a time.
OnePass == \A c, d \in Client : pass[c].pc # "idle" /\ pass[d].pc # "idle" => c = d

\* A file of a client with the mtime of the drive's has its content.
SameSecond == \A c \in Client, n \in Name :
    Exists(remote[n]) /\ local[c][n].mtime = remote[n].mtime => local[c][n].data = remote[n].data

\* So has one that is about to be given that mtime.
Fetched(c) ==
    /\ pass[c].pc \in {"push_stamp", "pull_stamp", "cf_stat"} =>
          local[c][pass[c].name].data = remote[pass[c].name].data
    /\ pass[c].pc = "cf_stamp" => local[c][pass[c].conf].data = remote[pass[c].conf].data

Serial == OnePass /\ SameSecond /\ \A c \in Client : Fetched(c)

\* The file n of client d and the drive's after a step: both as they were, or one
\* of them written just now, or gone, or both with one content.
Agrees(d, n) ==
    \/ local'[d][n].mtime = local[d][n].mtime /\ local'[d][n].data = local[d][n].data
       /\ remote'[n] = remote[n]
    \/ local'[d][n] = local[d][n] /\ (remote'[n].mtime = clock + 1 \/ remote'[n] = NoFile)
    \/ local'[d][n].data = remote'[n].data
    \/ remote'[n] = remote[n] /\ local'[d][n].mtime \in {0, clock + 1}

LEMMA SameAfter ==
    ASSUME IInv, TypeOK', SameSecond, \A d \in Client, n \in Name : Agrees(d, n)
    PROVE  SameSecond'
  <1> SUFFICES ASSUME NEW d \in Client, NEW n \in Name, Exists(remote'[n]),
                      local'[d][n].mtime = remote'[n].mtime
               PROVE  local'[d][n].data = remote'[n].data
      BY DEF SameSecond
  <1>1. /\ clock \in Nat /\ local[d][n].mtime \in Nat /\ local[d][n].mtime <= clock
        /\ remote[n].mtime \in Nat /\ remote[n].mtime <= clock
      BY DirFacts, FileFacts DEF IInv, TypeOK, Guarded, Ages, Stamps
  <1>2. remote'[n] # NoFile /\ remote'[n].mtime # 0
    <2>1. IsFile(remote'[n])
        BY DEF TypeOK
    <2> QED
        BY <2>1, FileFacts DEF Exists
  <1> QED
      BY <1>1, <1>2 DEF Agrees, SameSecond

\* While the pass of c runs, no other does.
LEMMA SerialAfter ==
    ASSUME IInv, TypeOK', Serial, NEW c \in Client, Alone(c),
           \A d \in Client \ {c} : pass[d].pc = "idle",
           \A d \in Client, n \in Name : Agrees(d, n), Fetched(c)'
    PROVE  Serial'
  <1>1. \A d \in Client \ {c} : pass'[d].pc = "idle"
      BY DEF Alone
  <1>2. OnePass' /\ \A d \in Client : Fetched(d)'
      BY <1>1 DEF OnePass, Fetched
  <1> QED
      BY <1>2, SameAfter DEF Serial

\* Files that do not change agree.
LEMMA AgreesSame ==
    ASSUME NEW d \in Client, NEW n \in Name, local'[d][n] = local[d][n], remote'[n] = remote[n]
    PROVE  Agrees(d, n)
  BY DEF Agrees

LEMMA PathSerial ==
    ASSUME IInv, TypeOK', Serial, NEW c \in Client, NEW n \in Name,
           \/ Adopt(c, n) \/ Diverged(c, n) \/ Push(c, n) \/ PushRefused(c, n) \/ PushGone(c, n)
           \/ DeleteRemote(c, n) \/ Pull(c, n) \/ PullGone(c, n) \/ TrashLocal(c, n) \/ Forget(c, n)
    PROVE  Serial'
  <1>1. TypeOK /\ pass[c].pc = "pick"
      BY DEF IInv, Adopt, Diverged, Push, PushRefused, PushGone, DeleteRemote, Pull, PullGone,
             TrashLocal, Forget, At
  <1>2. \A d \in Client \ {c} : pass[d].pc = "idle"
      BY <1>1 DEF Serial, OnePass
  <1>3. CASE \/ Adopt(c, n) \/ Diverged(c, n) \/ PushRefused(c, n) \/ PushGone(c, n)
             \/ PullGone(c, n) \/ Forget(c, n)
    <2>1. UNCHANGED <<local, remote>>
        BY <1>3 DEF Adopt, Diverged, PushRefused, PushGone, PullGone, Forget, sides
    <2>2. pass'[c].pc \in {"pick", "cf_park"} /\ \A d \in Client \ {c} : pass'[d] = pass[d]
        BY <1>1, <1>3, Decides DEF Settled, Skipped, Began, Now
    <2> QED
        BY <1>2, <2>1, <2>2, SerialAfter, AgreesSame DEF Alone, Fetched
  <1>4. CASE Push(c, n)
    <2>1. Began(c, "push_stamp", n, clock + 1) /\ Stored(n, local[c][n].data) /\ local' = local
        BY <1>1, <1>4, PushDoes DEF Push
    <2>2. \A d \in Client, m \in Name : Agrees(d, m)
        BY <2>1 DEF Stored, Agrees
    <2>3. Alone(c) /\ Fetched(c)'
        BY <2>1 DEF Began, Now, Stored, Alone, Fetched
    <2> QED
        BY <1>2, <2>2, <2>3, SerialAfter
  <1>5. CASE DeleteRemote(c, n)
    <2>1. Discarded(n) /\ (Settled(c, n, 0) \/ Skipped(c, n)) /\ local' = local
        BY <1>1, <1>5, DeleteRemoteDoes DEF DeleteRemote
    <2>2. \A d \in Client, m \in Name : Agrees(d, m)
        BY <2>1 DEF Discarded, Agrees
    <2>3. Alone(c) /\ Fetched(c)'
        BY <2>1 DEF Settled, Skipped, Now, Alone, Fetched
    <2> QED
        BY <1>2, <2>2, <2>3, SerialAfter
  <1>6. CASE TrashLocal(c, n)
    <2>1. Cleared(c, n) /\ (Settled(c, n, 0) \/ Skipped(c, n)) /\ remote' = remote
        BY <1>1, <1>6, TrashLocalDoes DEF TrashLocal
    <2>2. \A d \in Client, m \in Name : Agrees(d, m)
        BY <2>1, NameFacts DEF Cleared, Agrees
    <2>3. Alone(c) /\ Fetched(c)'
        BY <2>1 DEF Cleared, Settled, Skipped, Now, Alone, Fetched
    <2> QED
        BY <1>2, <2>2, <2>3, SerialAfter
  <1>7. CASE Pull(c, n)
    <2>1. Began(c, "pull_stamp", n, pass[c].remote[n]) /\ Wrote(c, n, remote[n].data) /\ remote' = remote
        BY <1>1, <1>7, PullDoes DEF Pull
    <2>2. \A d \in Client, m \in Name : Agrees(d, m)
        BY <2>1 DEF Wrote, Agrees
    <2>3. Alone(c) /\ Fetched(c)'
        BY <2>1 DEF Wrote, Began, Now, Alone, Fetched
    <2> QED
        BY <1>2, <2>2, <2>3, SerialAfter
  <1> QED
      BY <1>3, <1>4, <1>5, <1>6, <1>7

\* What is stamped agrees: it was fetched, or is not there.
LEMMA ChtimedAgrees ==
    ASSUME NEW c \in Client, NEW n \in Name, NEW t, Chtimed(c, n, t), remote' = remote,
           local[c][n].data = remote[n].data
    PROVE  \A d \in Client, m \in Name : Agrees(d, m)
  BY DEF Chtimed, Agrees

LEMMA StampSerial ==
    ASSUME IInv, TypeOK', Serial, NEW c \in Client,
           PushStamp(c) \/ PullStamp(c) \/ ConflictStat(c) \/ ConflictDone(c)
    PROVE  Serial'
  <1>1. TypeOK /\ Fetched(c) /\ remote' = remote
        /\ pass[c].pc \in {"push_stamp", "pull_stamp", "cf_stat", "cf_stamp"}
      BY DEF IInv, Serial, PushStamp, PullStamp, ConflictStat, ConflictDone
  <1>2. \A d \in Client \ {c} : pass[d].pc = "idle"
      BY <1>1 DEF Serial, OnePass
  <1>3. CASE PushStamp(c) \/ PullStamp(c)
    <2>1. /\ pass[c].name \in Name /\ Chtimed(c, pass[c].name, pass[c].meta)
          /\ Settled(c, pass[c].name, pass[c].meta)
          /\ local[c][pass[c].name].data = remote[pass[c].name].data
        BY <1>1, <1>3, StampDoes DEF PushStamp, PullStamp, Fetched
    <2>2. Alone(c) /\ Fetched(c)'
        BY <2>1 DEF Settled, Now, Chtimed, Alone, Fetched
    <2> QED
        BY <1>1, <1>2, <2>1, <2>2, ChtimedAgrees, SerialAfter
  <1>4. CASE ConflictStat(c)
    <2>1. /\ pass[c].name \in Name /\ Chtimed(c, pass[c].name, StatTime(c))
          /\ Began(c, "cf_mirror", pass[c].name, StatTime(c))
          /\ local[c][pass[c].name].data = remote[pass[c].name].data
        BY <1>1, <1>4, ConflictStatDoes DEF ConflictStat, Fetched
    <2>2. Alone(c) /\ Fetched(c)'
        BY <2>1 DEF Began, Now, Chtimed, Alone, Fetched
    <2> QED
        BY <1>1, <1>2, <2>1, <2>2, ChtimedAgrees, SerialAfter
  <1>5. CASE ConflictDone(c)
    <2>1. /\ pass[c].conf \in Name /\ Chtimed(c, pass[c].conf, pass[c].cmeta)
          /\ pass'[c].pc = "pick" /\ \A d \in Client \ {c} : pass'[d] = pass[d]
          /\ local[c][pass[c].conf].data = remote[pass[c].conf].data
        BY <1>1, <1>5, ConflictDoneDoes DEF ConflictDone, Fetched, Now
    <2>2. Alone(c) /\ Fetched(c)'
        BY <2>1 DEF Chtimed, Alone, Fetched
    <2> QED
        BY <1>1, <1>2, <2>1, <2>2, ChtimedAgrees, SerialAfter
  <1> QED
      BY <1>3, <1>4, <1>5

LEMMA ConflictSerial ==
    ASSUME IInv, TypeOK', Serial, NEW c \in Client, Park(c) \/ ConflictPull(c) \/ ConflictMirror(c)
    PROVE  Serial'
  <1>1. TypeOK /\ pass[c].pc \in {"cf_park", "cf_pull", "cf_mirror"}
      BY DEF IInv, Park, ConflictPull, ConflictMirror
  <1>2. \A d \in Client \ {c} : pass[d].pc = "idle"
      BY <1>1 DEF Serial, OnePass
  <1>3. CASE GiveUp(c)
    <2>1. Skipped(c, pass[c].name) /\ UNCHANGED <<local, remote>>
        BY <1>1, <1>3, GiveUpDoes DEF sides
    <2> QED
        BY <1>2, <2>1, SerialAfter, AgreesSame DEF Skipped, Now, Alone, Fetched
  <1>4. CASE Parks(c)
    <2>1. /\ Stored(copies + 1, local[c][pass[c].name].data) /\ local' = local
          /\ pass'[c].pc = "cf_pull" /\ \A d \in Client \ {c} : pass'[d] = pass[d]
        BY <1>4 DEF Parks, Now
    <2>2. \A d \in Client, m \in Name : Agrees(d, m)
        BY <2>1 DEF Stored, Agrees
    <2> QED
        BY <1>2, <2>1, <2>2, SerialAfter DEF Alone, Fetched
  <1>5. CASE ConflictPull(c) /\ ~GiveUp(c)
    <2>1. /\ Wrote(c, pass[c].name, remote[pass[c].name].data) /\ pass[c].name \in Name
          /\ Reached(c, "cf_stat") /\ remote' = remote
        BY <1>1, <1>5, ConflictPullDoes
    <2>2. \A d \in Client, m \in Name : Agrees(d, m)
        BY <2>1 DEF Wrote, Agrees
    <2>3. Alone(c) /\ Fetched(c)'
        BY <2>1 DEF Wrote, Reached, Now, Alone, Fetched
    <2> QED
        BY <1>2, <2>2, <2>3, SerialAfter
  <1>6. CASE ConflictMirror(c) /\ ~GiveUp(c)
    <2>1. /\ Wrote(c, pass[c].conf, remote[pass[c].conf].data) /\ pass[c].conf \in Name
          /\ Reached(c, "cf_stamp") /\ remote' = remote
        BY <1>1, <1>6, ConflictMirrorDoes
    <2>2. \A d \in Client, m \in Name : Agrees(d, m)
        BY <2>1 DEF Wrote, Agrees
    <2>3. Alone(c) /\ Fetched(c)'
        BY <2>1 DEF Wrote, Reached, Now, Alone, Fetched
    <2> QED
        BY <1>2, <2>2, <2>3, SerialAfter
  <1> QED
      BY <1>1, <1>3, <1>4, <1>5, <1>6, ParkDoes

\* Nobody else is about while a pass starts or a user works.
LEMMA StepSerial ==
    ASSUME Races = FALSE, IInv, Serial, [Next]_vars
    PROVE  Serial'
  <1>0. TypeOK /\ TypeOK'
      BY StepTypes DEF IInv
  <1>1. CASE UNCHANGED vars
      BY <1>1 DEF vars, Serial, OnePass, SameSecond, Fetched
  <1>2. ASSUME NEW c \in Client, WalkLocal(c) PROVE Serial'
    <2>1. Walked(c) /\ UNCHANGED <<local, remote>> /\ \A d \in Client : pass[d].pc = "idle"
        BY <1>0, <1>2, WalkLocalDoes DEF WalkLocal, sides, Resting
    <2> QED
        BY <1>0, <2>1, SerialAfter, AgreesSame DEF Walked, Alone, Fetched
  <1>3. ASSUME NEW c \in Client, WalkRemote(c) \/ Save(c) \/ Interrupt(c) PROVE Serial'
    <2>1. UNCHANGED <<local, remote>> /\ pass[c].pc # "idle"
        BY <1>3 DEF WalkRemote, Save, Interrupt, sides
    <2>2. pass'[c].pc \in {"pick", "idle"} /\ \A d \in Client \ {c} : pass'[d] = pass[d]
        BY <1>0, <1>3, WalkRemoteDoes, EndedAt, NameFacts DEF Save, Interrupt, Compared, Ended
    <2>3. \A d \in Client \ {c} : pass[d].pc = "idle"
        BY <2>1 DEF Serial, OnePass
    <2> QED
        BY <1>0, <2>1, <2>2, <2>3, SerialAfter, AgreesSame DEF Alone, Fetched
  <1>4. ASSUME NEW c \in Client, LoseBaseline(c) PROVE Serial'
      BY <1>4 DEF LoseBaseline, Serial, OnePass, SameSecond, Fetched
  <1>5. CASE UserStep
    <2>1. pass' = pass /\ \A d \in Client : pass[d].pc = "idle"
        BY <1>5 DEF UserStep, WebPut, WebRemove, Edit, Remove, MayEdit, Resting
    <2>2. \A d \in Client, m \in Name : Agrees(d, m)
      <3>1. CASE WebPut \/ WebRemove
        <4>1. (Discarded(Main) \/ Stored(Main, clock + 1)) /\ local' = local
            BY <1>0, <3>1, StoreFacts, DiscardFacts, NameFacts DEF WebPut, WebRemove, TypeOK
        <4> QED
            BY <4>1 DEF Discarded, Stored, Agrees
      <3>2. ASSUME NEW c \in Client, Edit(c) \/ Remove(c)
            PROVE  \A d \in Client, m \in Name : Agrees(d, m)
        <4>1. (Edited(c) \/ Cleared(c, Main)) /\ remote' = remote
            BY <1>0, <3>2, EditDoes, ClearedAt, NameFacts DEF Edit, Remove
        <4> QED
            BY <4>1, NameFacts DEF Edited, Cleared, Agrees
      <3> QED
          BY <1>5, <3>1, <3>2 DEF UserStep
    <2>3. OnePass' /\ \A d \in Client : Fetched(d)'
        BY <2>1 DEF OnePass, Fetched
    <2> QED
        BY <1>0, <2>2, <2>3, SameAfter DEF Serial
  <1>6. ASSUME NEW c \in Client, PassStep(c) PROVE Serial'
      BY <1>0, <1>2, <1>3, <1>6, PathSerial, StampSerial, ConflictSerial DEF PassStep
  <1> QED
      BY <1>1, <1>3, <1>4, <1>5, <1>6 DEF Next

\* Where passes exclude one another, a path whose local and remote mtimes are the
\* baseline's has one content on both sides: to leave it alone leaves nothing out.
THEOREM LeftInSync ==
    ASSUME Races = FALSE
    PROVE  Spec => []InSync
  <1>1. Init => Serial
    <2>1. Init => \A c \in Client : pass[c] = NoPass /\ \A n \in Name : local[c][n] = NoFile
        BY DEF Init
    <2>2. Init => \A n \in Name : remote[n] = NoFile
        BY DEF Init
    <2> QED
        BY <2>1, <2>2, NameFacts DEF Serial, OnePass, SameSecond, Fetched
  <1>2. IInv /\ Serial /\ [Next]_vars => Serial'
      BY StepSerial
  <1>3. IInv /\ Serial => InSync
    <2> SUFFICES ASSUME IInv, Serial, NEW c \in Client, NEW n \in Name, base[c][n] # 0,
                        local[c][n].mtime = base[c][n], remote[n].mtime = base[c][n]
                 PROVE  local[c][n].data = remote[n].data
        BY DEF InSync
    <2>1. Exists(remote[n])
        BY DirFacts, FileFacts DEF IInv
    <2> QED
        BY <2>1 DEF Serial, SameSecond
  <1> QED
      BY <1>1, <1>2, <1>3, InitIInv, StepIInv, PTL DEF Spec

-----------------------------------------------------------------------------
(* Echoes                                                                    *)

\* The pass of c has the file that users work on in hand.
AtMain(c) ==
    /\ pass[c].name = Main
    /\ pass[c].pc \in {"push_stamp", "pull_stamp", "cf_stat", "cf_mirror", "cf_stamp"}

\* What client c takes for the latest write that both sides have.
Baseline(c) == IF pass[c].pc = "idle" THEN base[c][Main] ELSE pass[c].base[Main]

\* What others have where c works.
Others(c) == {remote[Main].data} \cup {local[d][Main].data : d \in Client \ {c}}

\* Only c has what it has there, ...
Own(c) == local[c][Main].data \notin Others(c) \ {0}

\* ... or it has it from the write of second t, if any.
Dated(c, t) == \/ Own(c)
               \/ local[c][Main].mtime = t
               \/ t = 0 /\ local[c][Main].mtime = Unstamped

\* A client's baseline dates what it has in common with others, except while a
\* pass is about to stamp it; a pass will see a file as it was listed, or as only
\* its client has it.
Honest(c) ==
    /\ ~AtMain(c) => Dated(c, Baseline(c))
    /\ pass[c].pc = "listed" \/ (Main \in pass[c].todo /\ ~AtMain(c)) =>
         Own(c) \/ local[c][Main].mtime = pass[c].local[Main]
    /\ AtMain(c) /\ pass[c].pc \in {"cf_mirror", "cf_stamp"} => Dated(c, pass[c].meta)

\* Contents are named by seconds that have been.
Recent == /\ remote[Main].data <= clock
          /\ \A c \in Client : local[c][Main].data <= clock

\* So it is until a pass is cut short or a baseline lost.
Original == faults = 0 => Recent /\ \A c \in Client : Honest(c)

LEMMA MainFacts ==
    ASSUME TypeOK
    PROVE  /\ Main \in Name /\ clock \in Nat
           /\ remote[Main].data \in Nat /\ remote[Main].mtime \in Nat
           /\ Exists(remote[Main]) <=> remote[Main].data # 0
           /\ \A c \in Client : /\ local[c][Main].data \in Nat /\ local[c][Main].mtime \in Nat
                                /\ Exists(local[c][Main]) <=> local[c][Main].data # 0
                                /\ Exists(local[c][Main]) <=> local[c][Main].mtime # 0
                                /\ pass[c] \in Pass
  <1>1. Main \in Name
      BY NameFacts
  <1>2. IsFile(remote[Main]) /\ \A c \in Client : IsFile(local[c][Main])
      BY <1>1, DirFacts
  <1> QED
      BY <1>1, <1>2, FileFacts, DirFacts DEF TypeOK

\* What a pass step of c does where users work: contents move between c and the
\* drive.
Passes(c) ==
    /\ \A d \in Client \ {c} : /\ pass'[d] = pass[d] /\ base'[d] = base[d]
                               /\ local'[d][Main] = local[d][Main]
    /\ remote'[Main].data \in {0, remote[Main].data, local[c][Main].data}
    /\ local'[c][Main].data \in {0, remote[Main].data, local[c][Main].data}
    /\ clock <= clock'

LEMMA OwnHonest ==
    ASSUME NEW c \in Client, Own(c)'
    PROVE  Honest(c)'
  BY DEF Honest, Dated

\* Nobody who had it has it for a while, and others get only what they had.
LEMMA OwnKept ==
    ASSUME NEW d \in Client, Own(d), Others(d)' \subseteq Others(d) \cup {0},
           local'[d][Main].data \in {0, local[d][Main].data}
    PROVE  Own(d)'
  <1>1. Own(d)' <=> local'[d][Main].data \notin Others(d)' \ {0}
      BY DEF Own
  <1> QED
      BY <1>1 DEF Own

LEMMA OthersHonest ==
    ASSUME TypeOK, TypeOK', Recent, NEW c \in Client, Passes(c), \A d \in Client : Honest(d), Honest(c)'
    PROVE  Recent' /\ \A d \in Client : Honest(d)'
  <1>1. Recent'
    <2>1. \A d \in Client : local'[d][Main].data <= clock /\ remote'[Main].data <= clock
        BY MainFacts DEF Recent, Passes
    <2>2. clock' \in Nat /\ clock \in Nat /\ clock <= clock'
        BY DEF TypeOK, Passes
    <2>3. /\ remote'[Main].data \in Nat
          /\ \A d \in Client : local'[d][Main].data \in Nat
      <3>1. IsFile(remote'[Main]) /\ \A d \in Client : IsFile(local'[d][Main])
          BY NameFacts DEF TypeOK
      <3> QED
          BY <3>1, FileFacts
    <2> QED
        BY <2>1, <2>2, <2>3 DEF Recent
  <1>2. ASSUME NEW d \in Client \ {c} PROVE Honest(d)'
    <2>1. Others(d)' \subseteq Others(d) \cup {0}
        BY DEF Passes, Others
    <2>2. pass'[d] = pass[d] /\ base'[d] = base[d] /\ local'[d][Main] = local[d][Main]
        BY DEF Passes
    <2>3. Own(d) => Own(d)'
        BY <2>1, <2>2, OwnKept
    <2>4. Baseline(d)' = Baseline(d) /\ (AtMain(d)' <=> AtMain(d))
        BY <2>2 DEF Baseline, AtMain
    <2>5. Dated(d, Baseline(d)) => Dated(d, Baseline(d))'
        BY <2>2, <2>3, <2>4 DEF Dated
    <2>6. Dated(d, pass[d].meta) => Dated(d, pass[d].meta)'
        BY <2>2, <2>3 DEF Dated
    <2> QED
        BY <2>2, <2>3, <2>4, <2>5, <2>6 DEF Honest
  <1> QED
      BY <1>1, <1>2

\* A step within a pass that leaves the file alone, and what the pass knows of it.
LEMMA Elsewhere ==
    ASSUME NEW c \in Client, Honest(c), ~AtMain(c), ~AtMain(c)',
           pass[c].pc \notin {"idle", "listed"}, pass'[c].pc \notin {"idle", "listed"},
           pass'[c].local = pass[c].local, pass'[c].base[Main] = pass[c].base[Main],
           Main \in pass'[c].todo => Main \in pass[c].todo,
           local'[c][Main].mtime = local[c][Main].mtime, Own(c) => Own(c)'
    PROVE  Honest(c)'
  <1>1. Baseline(c)' = Baseline(c)
      BY DEF Baseline
  <1>2. Dated(c, Baseline(c))'
      BY <1>1 DEF Honest, Dated
  <1> QED
      BY <1>2 DEF Honest

\* Nothing changes where users work.
LEMMA OwnStill ==
    ASSUME NEW c \in Client, remote'[Main] = remote[Main],
           \A d \in Client : local'[d][Main].data = local[d][Main].data
    PROVE  Own(c) <=> Own(c)'
  BY DEF Own, Others

LEMMA DecidesHonest ==
    ASSUME TypeOK, NEW c \in Client, NEW n \in Name, Honest(c),
           \/ Adopt(c, n) \/ Diverged(c, n) \/ PushRefused(c, n) \/ PushGone(c, n)
           \/ PullGone(c, n) \/ Forget(c, n)
    PROVE  Passes(c) /\ Honest(c)'
  <1>1. /\ UNCHANGED <<local, base, remote, clock>> /\ At(c, n) /\ pass[c].pc = "pick"
        /\ pass[c].base \in [Name -> Nat] /\ clock \in Nat /\ Main \in Name
      BY MainFacts DEF Adopt, Diverged, PushRefused, PushGone, PullGone, Forget, sides, At, Pass
  <1>2. /\ Adopt(c, n) => Settled(c, n, pass[c].local[n])
        /\ Forget(c, n) => Settled(c, n, 0)
        /\ PushGone(c, n) \/ PullGone(c, n) => Skipped(c, n)
        /\ Diverged(c, n) \/ PushRefused(c, n) => Began(c, "cf_park", n, pass[c].remote[n])
      BY Decides
  <1>3. /\ pass'[c].pc \in {"pick", "cf_park"} /\ pass'[c].local = pass[c].local
        /\ pass'[c].todo \subseteq pass[c].todo /\ \A d \in Client \ {c} : pass'[d] = pass[d]
      BY <1>2 DEF Settled, Skipped, Began, Now
  <1>4. Passes(c)
      BY <1>1, <1>3 DEF Passes
  <1>5. Own(c) <=> Own(c)'
      BY <1>1, OwnStill
  <1>6. ~AtMain(c) /\ ~AtMain(c)'
      BY <1>1, <1>3 DEF AtMain
  <1>7. CASE pass'[c].base[Main] = pass[c].base[Main]
    <2>1. /\ pass[c].pc \notin {"idle", "listed"} /\ pass'[c].pc \notin {"idle", "listed"}
          /\ Main \in pass'[c].todo => Main \in pass[c].todo
          /\ local'[c][Main].mtime = local[c][Main].mtime
        BY <1>1, <1>3
    <2> QED
        BY <1>3, <1>4, <1>5, <1>6, <1>7, <2>1, Elsewhere
  <1>8. CASE pass'[c].base[Main] # pass[c].base[Main]
    <2>1. n = Main /\ (Adopt(c, n) \/ Forget(c, n))
        BY <1>1, <1>2, <1>8 DEF Settled, Skipped, Began, Now
    <2>2. pass'[c].base[Main] = pass[c].local[Main] /\ Main \notin pass'[c].todo
      <3>1. CASE Adopt(c, n)
          BY <1>1, <1>2, <2>1, <3>1 DEF Settled, Now
      <3>2. CASE Forget(c, n)
          BY <1>1, <1>2, <2>1, <3>2 DEF Settled, Now, Forget, LGone
      <3> QED
          BY <2>1, <3>1, <3>2
    <2>3. Own(c) \/ local[c][Main].mtime = pass[c].local[Main]
        BY <1>1, <1>6, <2>1 DEF Honest, At
    <2>4. pass'[c].pc = "pick" /\ Baseline(c)' = pass[c].local[Main]
        BY <1>2, <2>1, <2>2 DEF Settled, Now, Baseline
    <2>5. Dated(c, Baseline(c))'
      <3>1. Own(c)' \/ local'[c][Main].mtime = Baseline(c)'
          BY <1>1, <1>5, <2>3, <2>4
      <3> QED
          BY <3>1 DEF Dated
    <2> QED
        BY <1>4, <1>6, <2>2, <2>4, <2>5 DEF Honest
  <1> QED
      BY <1>4, <1>7, <1>8

LEMMA PushHonest ==
    ASSUME TypeOK, Copies, NEW c \in Client, NEW n \in Name, Push(c, n)
    PROVE  Passes(c) /\ Honest(c)'
  <1>1. n = Main
      BY PushTidy DEF Copies
  <1>2. Began(c, "push_stamp", n, clock + 1) /\ Stored(n, local[c][n].data)
        /\ UNCHANGED <<local, base>>
      BY PushDoes DEF Push
  <1>3. Passes(c)
      BY <1>1, <1>2, MainFacts DEF Passes, Began, Now, Stored
  <1>4. AtMain(c)' /\ pass'[c].pc = "push_stamp"
      BY <1>1, <1>2 DEF Began, Now, AtMain
  <1> QED
      BY <1>3, <1>4 DEF Honest

LEMMA DeletesHonest ==
    ASSUME TypeOK, Copies, NEW c \in Client, NEW n \in Name, Honest(c),
           DeleteRemote(c, n) \/ TrashLocal(c, n)
    PROVE  Passes(c) /\ Honest(c)'
  <1>1. n = Main /\ At(c, Main) /\ pass[c].pc = "pick" /\ base' = base
        /\ Main \in Name /\ clock \in Nat /\ clock' = clock /\ pass[c].base \in [Name -> Nat]
      BY DeletesTidy, MainFacts DEF Copies, DeleteRemote, TrashLocal, At, Pass
  <1>2. Settled(c, Main, 0) \/ Skipped(c, Main)
      BY <1>1, DeleteRemoteDoes, TrashLocalDoes
  <1>3. /\ pass'[c].pc = "pick" /\ pass'[c].local = pass[c].local
        /\ Main \notin pass'[c].todo /\ \A d \in Client \ {c} : pass'[d] = pass[d]
        /\ pass'[c].base[Main] \in {0, pass[c].base[Main]}
      BY <1>1, <1>2 DEF Settled, Skipped, Now
  <1>4. CASE TrashLocal(c, n)
    <2>1. Cleared(c, Main) /\ remote' = remote
        BY <1>1, <1>4, TrashLocalDoes DEF TrashLocal
    <2>2. local'[c][Main].data = 0
        BY <2>1, NameFacts DEF Cleared
    <2>3. Own(c)'
        BY <2>2 DEF Own
    <2>4. Passes(c)
        BY <1>1, <1>3, <2>1, <2>2 DEF Passes, Cleared
    <2> QED
        BY <2>3, <2>4, OwnHonest
  <1>5. CASE DeleteRemote(c, n)
    <2>1. Discarded(Main) /\ local' = local
        BY <1>1, <1>5, DeleteRemoteDoes DEF DeleteRemote
    <2>2. remote'[Main].data = 0
        BY <2>1, NameFacts DEF Discarded
    <2>3. Passes(c)
        BY <1>1, <1>3, <2>1, <2>2 DEF Passes
    <2>4. Own(c) => Own(c)'
        BY <2>1, <2>2, OwnKept DEF Others
    <2>5. ~AtMain(c) /\ ~AtMain(c)'
        BY <1>1, <1>3 DEF AtMain
    <2>6. pass[c].local[Main] = 0
        BY <1>1, <1>5 DEF DeleteRemote, LGone
    <2>7. Own(c) \/ local[c][Main].mtime = 0
        BY <1>1, <2>5, <2>6 DEF Honest, At
    <2>8. Own(c)'
      <3>1. local[c][Main].mtime = 0 => local[c][Main].data = 0
          BY MainFacts
      <3>2. CASE local[c][Main].data = 0
          BY <2>1, <3>2 DEF Own
      <3> QED
          BY <2>4, <2>7, <3>1, <3>2
    <2> QED
        BY <2>3, <2>8, OwnHonest
  <1> QED
      BY <1>4, <1>5

LEMMA PullHonest ==
    ASSUME TypeOK, NEW c \in Client, NEW n \in Name, Honest(c), Pull(c, n)
    PROVE  Passes(c) /\ Honest(c)'
  <1>1. /\ Began(c, "pull_stamp", n, pass[c].remote[n]) /\ Wrote(c, n, remote[n].data)
        /\ UNCHANGED <<base, remote, clock>> /\ pass[c].pc = "pick"
        /\ clock \in Nat /\ Main \in Name
      BY PullDoes, MainFacts DEF Pull, At
  <1>2. Passes(c)
      BY <1>1 DEF Passes, Began, Now, Wrote
  <1>3. CASE n = Main
    <2>1. AtMain(c)' /\ pass'[c].pc = "pull_stamp"
        BY <1>1, <1>3 DEF Began, Now, AtMain
    <2> QED
        BY <1>2, <2>1 DEF Honest
  <1>4. CASE n # Main
    <2>1. \A d \in Client : local'[d][Main] = local[d][Main]
        BY <1>1, <1>4 DEF Wrote
    <2>2. /\ ~AtMain(c) /\ ~AtMain(c)' /\ pass'[c].pc = "pull_stamp"
          /\ pass'[c].local = pass[c].local /\ pass'[c].base = pass[c].base
          /\ pass'[c].todo = pass[c].todo
        BY <1>1, <1>4 DEF Began, Now, AtMain
    <2> QED
        BY <1>1, <1>2, <2>1, <2>2, OwnStill, Elsewhere
  <1> QED
      BY <1>3, <1>4

\* A stamp changes no content.
LEMMA ChtimedOwn ==
    ASSUME TypeOK, NEW c \in Client, NEW n \in Name, NEW t \in Nat, Chtimed(c, n, t), remote' = remote
    PROVE  /\ \A d \in Client : local'[d][Main].data = local[d][Main].data
           /\ Own(c) <=> Own(c)'
           /\ \A d \in Client \ {c} : local'[d][Main] = local[d][Main]
           /\ n # Main => local'[c][Main] = local[c][Main]
           /\ n = Main => \/ Own(c)'
                          \/ local'[c][Main].mtime = IF t = 0 THEN Unstamped ELSE t
  <1>1. Main \in Name
      BY MainFacts
  <1>2. /\ \A d \in Client : local'[d][Main].data = local[d][Main].data
        /\ \A d \in Client \ {c} : local'[d][Main] = local[d][Main]
        /\ n # Main => local'[c][Main] = local[c][Main]
    <2>1. \A d \in Client, m \in Name : d # c \/ m # n => local'[d][m] = local[d][m]
        BY DEF Chtimed
    <2>2. n = Main => local'[c][Main].data = local[c][Main].data
        BY DEF Chtimed
    <2> QED
        BY <1>1, <2>1, <2>2
  <1>3. Own(c) <=> Own(c)'
      BY <1>2, OwnStill
  <1>4. local[c][Main].data = 0 => Own(c)
      BY DEF Own
  <1>5. local[c][Main].data # 0 => Exists(local[c][Main])
      BY MainFacts
  <1>6. n = Main => Own(c)' \/ local'[c][Main].mtime = IF t = 0 THEN Unstamped ELSE t
      BY <1>3, <1>4, <1>5 DEF Chtimed
  <1> QED
      BY <1>2, <1>3, <1>6

LEMMA StampHonest ==
    ASSUME TypeOK, NEW c \in Client, Honest(c), PushStamp(c) \/ PullStamp(c)
    PROVE  Passes(c) /\ Honest(c)'
  <1> DEFINE n == pass[c].name
             t == pass[c].meta
  <1>1. /\ n \in Name /\ t \in Nat /\ Chtimed(c, n, t) /\ Settled(c, n, t)
        /\ UNCHANGED <<base, remote, clock>> /\ clock \in Nat /\ Main \in Name
        /\ pass[c].base \in [Name -> Nat] /\ pass[c].pc \in {"push_stamp", "pull_stamp"}
      BY StampDoes, MainFacts DEF PushStamp, PullStamp, Pass
  <1>2. /\ \A d \in Client : local'[d][Main].data = local[d][Main].data
        /\ Own(c) <=> Own(c)'
        /\ \A d \in Client \ {c} : local'[d][Main] = local[d][Main]
        /\ n # Main => local'[c][Main] = local[c][Main]
        /\ n = Main => Own(c)' \/ local'[c][Main].mtime = IF t = 0 THEN Unstamped ELSE t
      BY <1>1, ChtimedOwn
  <1>3. /\ pass'[c].pc = "pick" /\ pass'[c].local = pass[c].local
        /\ pass'[c].todo = pass[c].todo \ {n} /\ pass'[c].base = [pass[c].base EXCEPT ![n] = t]
        /\ \A d \in Client \ {c} : pass'[d] = pass[d]
      BY <1>1 DEF Settled, Now
  <1>4. Passes(c)
      BY <1>1, <1>2, <1>3 DEF Passes
  <1>5. ~AtMain(c)'
      BY <1>3 DEF AtMain
  <1>6. CASE n = Main
    <2>1. Baseline(c)' = t
        BY <1>1, <1>3, <1>6 DEF Baseline
    <2>2. Dated(c, Baseline(c))'
        BY <1>2, <1>6, <2>1 DEF Dated
    <2> QED
        BY <1>3, <1>4, <1>5, <1>6, <2>2 DEF Honest
  <1>7. CASE n # Main
    <2>1. pass'[c].base[Main] = pass[c].base[Main] /\ ~AtMain(c)
        BY <1>1, <1>3, <1>7 DEF AtMain
    <2> QED
        BY <1>1, <1>2, <1>3, <1>4, <1>5, <1>7, <2>1, Elsewhere
  <1> QED
      BY <1>6, <1>7

LEMMA GiveUpHonest ==
    ASSUME TypeOK, NEW c \in Client, Honest(c), ~AtMain(c), pass[c].pc \notin {"idle", "listed"}, GiveUp(c)
    PROVE  Passes(c) /\ Honest(c)'
  <1>1. Skipped(c, pass[c].name) /\ UNCHANGED <<local, base, remote, clock>> /\ clock \in Nat
      BY GiveUpDoes, MainFacts DEF sides
  <1>2. /\ pass'[c].pc = "pick" /\ pass'[c].local = pass[c].local /\ pass'[c].base = pass[c].base
        /\ pass'[c].todo \subseteq pass[c].todo /\ \A d \in Client \ {c} : pass'[d] = pass[d]
      BY <1>1 DEF Skipped, Now
  <1>3. Passes(c) /\ ~AtMain(c)'
      BY <1>1, <1>2 DEF Passes, AtMain
  <1> QED
      BY <1>1, <1>2, <1>3, OwnStill, Elsewhere

\* The copy is made under another name; the file stays until it is overwritten.
LEMMA ParkHonest ==
    ASSUME TypeOK, NEW c \in Client, Honest(c), Park(c)
    PROVE  Passes(c) /\ Honest(c)'
  <1>1. pass[c].pc = "cf_park" /\ ~AtMain(c)
      BY DEF Park, AtMain
  <1>2. CASE GiveUp(c)
      BY <1>1, <1>2, GiveUpHonest
  <1>3. CASE Parks(c)
    <2>1. copies + 1 # Main /\ Main \in Name /\ clock \in Nat
        BY MainFacts DEF TypeOK, Main
    <2>2. remote'[Main] = remote[Main] /\ local' = local /\ base' = base /\ clock' = clock + 1
        BY <1>3, <2>1 DEF Parks, Stored
    <2>3. /\ pass'[c].pc = "cf_pull" /\ pass'[c].local = pass[c].local
          /\ pass'[c].base = pass[c].base /\ pass'[c].todo = pass[c].todo
          /\ \A d \in Client \ {c} : pass'[d] = pass[d]
        BY <1>3 DEF Parks, Now
    <2>4. Passes(c) /\ ~AtMain(c)'
        BY <2>1, <2>2, <2>3 DEF Passes, AtMain
    <2> QED
        BY <1>1, <2>2, <2>3, <2>4, OwnStill, Elsewhere
  <1> QED
      BY <1>2, <1>3, ParkDoes

LEMMA ConflictPullHonest ==
    ASSUME TypeOK, NEW c \in Client, Honest(c), ConflictPull(c)
    PROVE  Passes(c) /\ Honest(c)'
  <1> DEFINE n == pass[c].name
  <1>1. pass[c].pc = "cf_pull" /\ ~AtMain(c)
      BY DEF ConflictPull, AtMain
  <1>2. CASE GiveUp(c)
      BY <1>1, <1>2, GiveUpHonest
  <1>3. CASE ~GiveUp(c)
    <2>1. /\ Reached(c, "cf_stat") /\ Wrote(c, n, remote[n].data)
          /\ UNCHANGED <<base, remote, clock>> /\ clock \in Nat /\ Main \in Name /\ n \in Name
        BY <1>3, ConflictPullDoes, MainFacts
    <2>2. Passes(c)
        BY <2>1 DEF Passes, Reached, Now, Wrote
    <2>3. CASE n = Main
      <3>1. AtMain(c)' /\ pass'[c].pc = "cf_stat"
          BY <2>1, <2>3 DEF Reached, Now, AtMain
      <3> QED
          BY <2>2, <3>1 DEF Honest
    <2>4. CASE n # Main
      <3>1. \A d \in Client : local'[d][Main] = local[d][Main]
          BY <2>1, <2>4 DEF Wrote
      <3>2. /\ ~AtMain(c)' /\ pass'[c].pc = "cf_stat"
            /\ pass'[c].local = pass[c].local /\ pass'[c].base = pass[c].base
            /\ pass'[c].todo = pass[c].todo
          BY <2>1, <2>4 DEF Reached, Now, AtMain
      <3> QED
          BY <1>1, <2>1, <2>2, <3>1, <3>2, OwnStill, Elsewhere
    <2> QED
        BY <2>3, <2>4
  <1> QED
      BY <1>2, <1>3

LEMMA ConflictStatHonest ==
    ASSUME TypeOK, NEW c \in Client, Honest(c), ConflictStat(c)
    PROVE  Passes(c) /\ Honest(c)'
  <1> DEFINE n == pass[c].name
             t == StatTime(c)
  <1>1. /\ Began(c, "cf_mirror", n, t) /\ Chtimed(c, n, t) /\ n \in Name /\ t \in Nat
        /\ UNCHANGED <<base, remote, clock>> /\ pass[c].pc = "cf_stat" /\ clock \in Nat
      BY ConflictStatDoes, MainFacts DEF ConflictStat
  <1>2. /\ \A d \in Client : local'[d][Main].data = local[d][Main].data
        /\ Own(c) <=> Own(c)'
        /\ \A d \in Client \ {c} : local'[d][Main] = local[d][Main]
        /\ n # Main => local'[c][Main] = local[c][Main]
        /\ n = Main => Own(c)' \/ local'[c][Main].mtime = IF t = 0 THEN Unstamped ELSE t
      BY <1>1, ChtimedOwn
  <1>3. /\ pass'[c].pc = "cf_mirror" /\ pass'[c].local = pass[c].local /\ pass'[c].name = n
        /\ pass'[c].meta = t /\ pass'[c].todo = pass[c].todo /\ pass'[c].base = pass[c].base
        /\ \A d \in Client \ {c} : pass'[d] = pass[d]
      BY <1>1 DEF Began, Now
  <1> HIDE DEF t
  <1>4. Passes(c)
      BY <1>1, <1>2, <1>3 DEF Passes
  <1>5. CASE n = Main
    <2>1. AtMain(c)' /\ pass'[c].pc = "cf_mirror"
        BY <1>3, <1>5 DEF AtMain
    <2>2. Dated(c, pass[c].meta)'
        BY <1>2, <1>3, <1>5 DEF Dated
    <2> QED
        BY <1>4, <2>1, <2>2 DEF Honest
  <1>6. CASE n # Main
    <2>1. ~AtMain(c) /\ ~AtMain(c)'
        BY <1>3, <1>6 DEF AtMain
    <2> QED
        BY <1>1, <1>2, <1>3, <1>4, <1>6, <2>1, Elsewhere
  <1> QED
      BY <1>5, <1>6

\* The copy in hand is another file.
LEMMA CopyApart ==
    ASSUME TypeOK, NEW c \in Client, Tidy(c), pass[c].pc \in Parked
    PROVE  pass[c].conf # Main /\ pass[c].conf \in Name /\ Exists(remote[pass[c].conf])
  <1>1. pass[c].conf \in Copy
      BY DEF Tidy, Parking
  <1>2. Exists(remote[pass[c].conf])
      BY <1>1 DEF Tidy, InHand
  <1> QED
      BY <1>1, <1>2, CopyFacts

LEMMA ConflictMirrorHonest ==
    ASSUME TypeOK, NEW c \in Client, Tidy(c), Honest(c), ConflictMirror(c)
    PROVE  Passes(c) /\ Honest(c)'
  <1> DEFINE k == pass[c].conf
  <1>1. k # Main /\ k \in Name /\ Exists(remote[k]) /\ pass[c].pc = "cf_mirror"
      BY CopyApart DEF ConflictMirror, Parked
  <1>2. ~GiveUp(c)
    <2>1. pass' = [pass EXCEPT ![c].pc = "cf_stamp"] /\ "cf_stamp" \in PassPC
        BY <1>1 DEF ConflictMirror, PassPC
    <2>2. pass'[c].pc = "cf_stamp"
        BY <2>1, ReachedAt DEF Reached, Now
    <2> QED
        BY <2>2, GiveUpDoes DEF Skipped, Now
  <1>3. /\ Reached(c, "cf_stamp") /\ Wrote(c, k, remote[k].data)
        /\ UNCHANGED <<base, remote, clock>> /\ clock \in Nat /\ Main \in Name
      BY <1>2, ConflictMirrorDoes, MainFacts
  <1>4. \A d \in Client : local'[d][Main] = local[d][Main]
      BY <1>1, <1>3 DEF Wrote
  <1>5. /\ pass'[c].pc = "cf_stamp" /\ pass'[c].local = pass[c].local /\ pass'[c].name = pass[c].name
        /\ pass'[c].meta = pass[c].meta /\ pass'[c].todo = pass[c].todo
        /\ pass'[c].base = pass[c].base /\ \A d \in Client \ {c} : pass'[d] = pass[d]
      BY <1>3 DEF Reached, Now
  <1>6. Passes(c) /\ (Own(c) <=> Own(c)')
      BY <1>3, <1>4, <1>5, OwnStill DEF Passes
  <1>7. CASE AtMain(c)
    <2>1. AtMain(c)' /\ Dated(c, pass[c].meta)
        BY <1>1, <1>5, <1>7 DEF AtMain, Honest
    <2>2. Dated(c, pass[c].meta)'
        BY <1>4, <1>5, <1>6, <2>1 DEF Dated
    <2> QED
        BY <1>5, <1>6, <2>1, <2>2 DEF Honest
  <1>8. CASE ~AtMain(c)
    <2>1. ~AtMain(c)'
        BY <1>1, <1>5, <1>8 DEF AtMain
    <2> QED
        BY <1>1, <1>4, <1>5, <1>6, <1>8, <2>1, Elsewhere
  <1> QED
      BY <1>7, <1>8

LEMMA ConflictDoneHonest ==
    ASSUME TypeOK, NEW c \in Client, Tidy(c), Honest(c), ConflictDone(c)
    PROVE  Passes(c) /\ Honest(c)'
  <1> DEFINE n == pass[c].name
             k == pass[c].conf
  <1>1. k # Main /\ n \in Name /\ k \in Name /\ pass[c].pc = "cf_stamp"
        /\ pass[c].cmeta \in Nat /\ pass[c].base \in [Name -> Nat]
      BY CopyApart, ConflictDoneDoes, DirFacts DEF ConflictDone, Parked, Pass
  <1>2. /\ Chtimed(c, k, pass[c].cmeta) /\ UNCHANGED <<base, remote, clock>>
        /\ clock \in Nat /\ Main \in Name
      BY ConflictDoneDoes, MainFacts DEF ConflictDone
  <1>3. \A d \in Client : local'[d][Main] = local[d][Main]
      BY <1>1, <1>2 DEF Chtimed
  <1>4. /\ pass'[c].pc = "pick" /\ pass'[c].local = pass[c].local
        /\ pass'[c].todo = pass[c].todo \ {n} /\ \A d \in Client \ {c} : pass'[d] = pass[d]
        /\ pass'[c].base = [pass[c].base EXCEPT ![n] = pass[c].meta, ![k] = pass[c].cmeta]
      BY ConflictDoneDoes DEF Now
  <1>5. pass'[c].base[Main] = IF n = Main THEN pass[c].meta ELSE pass[c].base[Main]
      BY <1>1, <1>2, <1>4
  <1>6. Passes(c) /\ (Own(c) <=> Own(c)') /\ ~AtMain(c)'
      BY <1>2, <1>3, <1>4, OwnStill DEF Passes, AtMain
  <1>7. CASE n = Main
    <2>1. Dated(c, pass[c].meta)
        BY <1>1, <1>7 DEF Honest, AtMain
    <2>2. Baseline(c)' = pass[c].meta
        BY <1>4, <1>5, <1>7 DEF Baseline
    <2>3. Dated(c, Baseline(c))'
        BY <1>3, <1>6, <2>1, <2>2 DEF Dated
    <2> QED
        BY <1>4, <1>6, <1>7, <2>3 DEF Honest
  <1>8. CASE n # Main
    <2>1. ~AtMain(c)
        BY <1>8 DEF AtMain
    <2> QED
        BY <1>1, <1>3, <1>4, <1>5, <1>6, <1>8, <2>1, Elsewhere
  <1> QED
      BY <1>7, <1>8

\* A pass lists the file as it is.
LEMMA WalkHonest ==
    ASSUME TypeOK, NEW c \in Client, Honest(c), WalkLocal(c) \/ WalkRemote(c)
    PROVE  Passes(c) /\ Honest(c)'
  <1>1. UNCHANGED <<local, base, remote, clock>> /\ clock \in Nat /\ Main \in Name
      BY MainFacts DEF WalkLocal, WalkRemote, sides
  <1>2. /\ pass[c].pc \in {"idle", "listed"} /\ pass'[c].pc \in {"listed", "pick"}
        /\ Baseline(c)' = Baseline(c) /\ \A d \in Client \ {c} : pass'[d] = pass[d]
      BY <1>1, WalkLocalDoes, WalkRemoteDoes DEF WalkLocal, WalkRemote, Walked, Compared, Baseline
  <1>3. Passes(c) /\ (Own(c) <=> Own(c)')
      BY <1>1, <1>2, OwnStill DEF Passes
  <1>4. ~AtMain(c) /\ ~AtMain(c)'
      BY <1>2 DEF AtMain
  <1>5. Dated(c, Baseline(c))'
      BY <1>1, <1>2, <1>3, <1>4 DEF Honest, Dated
  <1>6. Own(c)' \/ local'[c][Main].mtime = pass'[c].local[Main]
    <2>1. CASE WalkLocal(c)
        BY <1>1, <2>1, WalkLocalDoes DEF Walked
    <2>2. CASE WalkRemote(c)
        BY <1>1, <1>3, <2>2, WalkRemoteDoes DEF WalkRemote, Compared, Honest
    <2> QED
        BY <2>1, <2>2
  <1> QED
      BY <1>3, <1>4, <1>5, <1>6 DEF Honest

LEMMA SaveHonest ==
    ASSUME TypeOK, NEW c \in Client, Honest(c), Save(c)
    PROVE  Passes(c) /\ Honest(c)'
  <1>1. /\ UNCHANGED <<local, remote, clock>> /\ clock \in Nat /\ pass[c].pc = "pick"
        /\ base'[c] = pass[c].base /\ \A d \in Client \ {c} : base'[d] = base[d]
      BY MainFacts DEF Save, TypeOK
  <1>2. Ended(c)
      BY EndedAt DEF Save
  <1>3. Passes(c) /\ (Own(c) <=> Own(c)')
      BY <1>1, <1>2, OwnStill DEF Ended, Passes
  <1>4. pass'[c].pc = "idle" /\ pass'[c].todo = {}
      BY <1>2, NameFacts DEF Ended
  <1>5. Baseline(c)' = Baseline(c) /\ ~AtMain(c) /\ ~AtMain(c)'
      BY <1>1, <1>4 DEF Baseline, AtMain
  <1>6. Dated(c, Baseline(c))'
      BY <1>1, <1>3, <1>5 DEF Honest, Dated
  <1> QED
      BY <1>3, <1>4, <1>5, <1>6 DEF Honest

\* What a user writes, in a directory or on the drive, nobody has.
LEMMA OwnMeanwhile ==
    ASSUME TypeOK, Recent, NEW d \in Client, Own(d), local'[d][Main] = local[d][Main],
           Others(d)' \subseteq Others(d) \cup {0, clock + 1}
    PROVE  Own(d)'
  <1>1. local[d][Main].data # clock + 1
      BY MainFacts DEF Recent
  <1>2. Own(d)' <=> local'[d][Main].data \notin Others(d)' \ {0}
      BY DEF Own
  <1> QED
      BY <1>1, <1>2 DEF Own

LEMMA UserHonest ==
    ASSUME TypeOK, TypeOK', Recent, UserStep
    PROVE  Recent' /\ ((\A d \in Client : Honest(d)) => \A d \in Client : Honest(d)')
  <1>1. /\ UNCHANGED <<pass, base>> /\ clock \in Nat /\ Main \in Name
        /\ clock' \in {clock, clock + 1}
      BY MainFacts DEF UserStep, Edit, Remove, WebPut, WebRemove, Store
  <1>2. \A d \in Client : clock + 1 \notin Others(d) \cup {local[d][Main].data}
      BY MainFacts DEF Recent, Others
  <1> DEFINE Written == /\ remote'[Main].data \in {0, remote[Main].data, clock'}
                        /\ \A d \in Client :
                             /\ local'[d][Main].data \in {0, local[d][Main].data, clock'}
                             /\ Others(d)' \subseteq Others(d) \cup {0, clock + 1}
                             /\ local'[d][Main] = local[d][Main] \/ Own(d)'
  <1>3. Written
    <2>1. CASE WebPut \/ WebRemove
      <3>1. local' = local
          BY <2>1 DEF WebPut, WebRemove
      <3>2. Stored(Main, clock + 1) \/ (Discarded(Main) /\ clock' = clock)
          BY <1>1, <2>1, StoreFacts, DiscardFacts DEF WebPut, WebRemove
      <3>3. \/ remote'[Main].data = clock + 1 /\ clock' = clock + 1
            \/ remote'[Main].data = 0
          BY <3>2, NameFacts DEF Stored, Discarded
      <3> QED
          BY <3>1, <3>3 DEF Others
    <2>2. ASSUME NEW c \in Client, Edit(c)
          PROVE  Written
      <3>1. remote' = remote /\ Edited(c)
          BY <2>2, EditDoes DEF Edit
      <3>2. /\ local'[c][Main].data = clock + 1 /\ clock' = clock + 1
            /\ \A d \in Client \ {c} : local'[d][Main] = local[d][Main]
          BY <1>1, <3>1 DEF Edited
      <3>3. Others(c)' = Others(c)
          BY <3>1, <3>2 DEF Others
      <3>4. Own(c)'
          BY <1>2, <3>2, <3>3 DEF Own
      <3> QED
          BY <3>1, <3>2, <3>4 DEF Others
    <2>3. ASSUME NEW c \in Client, Remove(c)
          PROVE  Written
      <3>1. remote' = remote /\ Cleared(c, Main)
          BY <1>1, <2>3, ClearedAt DEF Remove
      <3>2. /\ local'[c][Main].data = 0
            /\ \A d \in Client \ {c} : local'[d][Main] = local[d][Main]
          BY <1>1, <3>1, NameFacts DEF Cleared
      <3>3. Own(c)'
          BY <3>2 DEF Own
      <3> QED
          BY <3>1, <3>2, <3>3 DEF Others
    <2> QED
        BY <2>1, <2>2, <2>3 DEF UserStep
  <1>4. Recent'
    <2>1. remote[Main].data <= clock' /\ 0 <= clock' /\ clock' <= clock'
        BY <1>1, MainFacts DEF Recent
    <2>2. \A d \in Client : local[d][Main].data <= clock'
        BY <1>1, MainFacts DEF Recent
    <2> QED
        BY <1>3, <2>1, <2>2 DEF Recent
  <1>5. ASSUME NEW d \in Client, Honest(d), local'[d][Main] = local[d][Main] PROVE Honest(d)'
    <2>1. Own(d) => Own(d)'
        BY <1>3, <1>5, OwnMeanwhile
    <2>2. Baseline(d)' = Baseline(d) /\ (AtMain(d)' <=> AtMain(d))
        BY <1>1 DEF Baseline, AtMain
    <2>3. /\ Dated(d, Baseline(d)) => Dated(d, Baseline(d))'
          /\ Dated(d, pass[d].meta) => Dated(d, pass[d].meta)'
        BY <1>1, <1>5, <2>1, <2>2 DEF Dated
    <2> QED
        BY <1>1, <1>5, <2>1, <2>2, <2>3 DEF Honest
  <1> QED
      BY <1>3, <1>4, <1>5, OwnHonest

LEMMA InitOriginal == Init => Original
  <1> SUFFICES ASSUME Init PROVE Original
      OBVIOUS
  <1>1. /\ clock = 1 /\ remote[Main].data = 0
        /\ \A c \in Client : /\ pass[c] = NoPass /\ base[c][Main] = 0
                             /\ local[c][Main] = NoFile
      BY NameFacts DEF Init, Unstamped
  <1>2. Recent
      BY <1>1, NameFacts DEF Recent
  <1>3. \A c \in Client : ~AtMain(c) /\ Own(c)
      BY <1>1, NameFacts DEF AtMain, Own
  <1>4. \A c \in Client : Honest(c)
      BY <1>3 DEF Honest, Dated
  <1> QED
      BY <1>2, <1>4 DEF Original

LEMMA StepOriginal == TypeOK /\ Copies /\ Original /\ [Next]_vars => Original'
  <1> SUFFICES ASSUME TypeOK, Copies, Original, [Next]_vars PROVE Original'
      OBVIOUS
  <1>0. TypeOK'
      BY StepTypes
  <1>1. CASE UNCHANGED vars
    <2>1. UNCHANGED <<local, base, remote, pass, clock>>
        BY <1>1 DEF vars
    <2>2. Recent' <=> Recent
        BY <2>1 DEF Recent
    <2>3. \A c \in Client : (AtMain(c)' <=> AtMain(c)) /\ (Own(c)' <=> Own(c))
        BY <2>1 DEF AtMain, Own, Others
    <2>4. \A c \in Client : Baseline(c)' = Baseline(c)
        BY <2>1 DEF Baseline
    <2>5. \A c \in Client : Honest(c)' <=> Honest(c)
        BY <2>1, <2>3, <2>4 DEF Honest, Dated
    <2> QED
        BY <1>1, <2>2, <2>5 DEF vars, Original
  <1>2. CASE UserStep
    <2>1. faults' = faults
        BY <1>2 DEF UserStep, Edit, Remove, WebPut, WebRemove
    <2> QED
        BY <1>0, <1>2, <2>1, UserHonest DEF Original
  <1>3. ASSUME NEW c \in Client, Interrupt(c) \/ LoseBaseline(c) PROVE Original'
    <2>1. faults \in Nat /\ faults' = faults + 1
        BY <1>3, SyncBoundAssumption DEF TypeOK, Interrupt, LoseBaseline
    <2> QED
        BY <2>1 DEF Original
  <1>4. ASSUME NEW c \in Client, PassStep(c) PROVE Original'
    <2>1. Tidy(c)
        BY DEF Copies
    <2>2. faults' = faults
        BY <1>4 DEF PassStep, WalkLocal, WalkRemote, Save, Adopt, Diverged, Push, PushRefused, PushGone,
           DeleteRemote, Pull, PullGone, TrashLocal, Forget, PushStamp, PullStamp, Park, ConflictPull,
           ConflictStat, ConflictMirror, ConflictDone, GiveUp
    <2>3. Honest(c) => Passes(c) /\ Honest(c)'
        BY <1>4, <2>1, DecidesHonest, PushHonest, DeletesHonest, PullHonest, StampHonest, ParkHonest,
           ConflictPullHonest, ConflictStatHonest, ConflictMirrorHonest, ConflictDoneHonest,
           WalkHonest, SaveHonest DEF PassStep
    <2> QED
        BY <1>0, <2>2, <2>3, OthersHonest DEF Original
  <1> QED
      BY <1>1, <1>2, <1>3, <1>4 DEF Next

\* Nothing but a push or another device writes the file users work on.
LEMMA StoresMain ==
    ASSUME TypeOK, Copies, Next, Exists(remote'[Main]), remote'[Main] # remote[Main]
    PROVE  WebPut \/ \E c \in Client : Push(c, Main)
  <1> USE DEF sides
  <1>1. ASSUME NEW c \in Client, NEW n \in Name, Push(c, n) \/ DeleteRemote(c, n)
        PROVE  Push(c, Main)
    <2>1. n = Main
        BY <1>1, PushTidy, DeletesTidy DEF Copies
    <2>2. ~DeleteRemote(c, Main)
        BY NameFacts, DeleteRemoteDoes DEF Discarded
    <2> QED
        BY <1>1, <2>1, <2>2
  <1>2. ASSUME NEW c \in Client PROVE ~Park(c)
    <2>1. ~GiveUp(c)
        BY DEF GiveUp
    <2>2. copies + 1 # Main
        BY DEF TypeOK, Main
    <2>3. ~Parks(c)
        BY <2>2, NameFacts DEF Parks, Stored
    <2> QED
        BY <2>1, <2>3, ParkDoes
  <1>3. CASE UserStep
    <2>1. ~WebRemove
        BY NameFacts, DiscardFacts DEF WebRemove, Discarded
    <2> QED
        BY <1>3, <2>1 DEF UserStep, Edit, Remove
  <1>4. ASSUME NEW c \in Client, NEW n \in Name
        PROVE  ~ \/ Adopt(c, n) \/ Diverged(c, n) \/ PushRefused(c, n) \/ PushGone(c, n)
                 \/ Pull(c, n) \/ PullGone(c, n) \/ TrashLocal(c, n) \/ Forget(c, n)
      BY DEF Adopt, Diverged, PushRefused, PushGone, Pull, PullGone, TrashLocal, Forget
  <1>5. ASSUME NEW c \in Client
        PROVE  ~ \/ PushStamp(c) \/ PullStamp(c) \/ ConflictPull(c)
                 \/ ConflictStat(c) \/ ConflictMirror(c) \/ ConflictDone(c)
      BY DEF PushStamp, PullStamp, ConflictPull, ConflictStat, ConflictMirror, ConflictDone, GiveUp
  <1>6. ASSUME NEW c \in Client
        PROVE  ~ \/ WalkLocal(c) \/ WalkRemote(c) \/ Save(c) \/ Interrupt(c) \/ LoseBaseline(c)
      BY DEF WalkLocal, WalkRemote, Save, Interrupt, LoseBaseline
  <1> QED
      BY <1>1, <1>2, <1>3, <1>4, <1>5, <1>6 DEF Next, PassStep

\* As long as no pass is cut short and no baseline lost, a pass uploads what the
\* server holds at that path only for a file orphaned by a delete on the drive
\* while its conflict was being resolved.
THEOREM EchoesAreOrphans == Spec => NoEcho
  <1> DEFINE Echo(n) == /\ Exists(remote[n]) /\ remote'[n].mtime # remote[n].mtime
                        /\ remote'[n].data = remote[n].data
             OrphanEcho == faults = 0 => \A n \in Name :
                             Echo(n) => \E c \in Client : pass'[c] # pass[c] /\ Orphaned(c, n)
  <1>1. TypeOK /\ Copies /\ Original /\ [Next]_vars => [OrphanEcho]_vars
    <2> SUFFICES ASSUME TypeOK, Copies, Original, Next, faults = 0, NEW n \in Name, Echo(n)
                 PROVE  \E c \in Client : pass'[c] # pass[c] /\ Orphaned(c, n)
        OBVIOUS
    <2>1. TypeOK' /\ Recent /\ \A c \in Client : Honest(c)
        BY StepTypes DEF Original
    <2>2. n = Main
      <3>1. n \in Copy \/ n = Main
          BY SyncBoundAssumption DEF Name, Copy, Main
      <3> QED
          BY <3>1, CopyForever
    <2>3. Exists(remote'[Main])
      <3>1. IsFile(remote'[Main]) /\ IsFile(remote[Main])
          BY <2>1, <2>2, NameFacts DEF TypeOK
      <3> QED
          BY <2>2, <3>1, FileFacts
    <2>4. remote'[Main] # remote[Main]
        BY <2>2
    <2>5. ~WebPut
      <3>1. WebPut => Stored(Main, clock + 1)
          BY MainFacts, StoreFacts DEF WebPut
      <3>2. clock \in Nat /\ remote[Main].data <= clock /\ remote[Main].data \in Nat
          BY <2>1, MainFacts DEF Recent
      <3> QED
          BY <2>2, <3>1, <3>2 DEF Stored
    <2>6. PICK c \in Client : Push(c, Main)
        BY <2>3, <2>4, <2>5, StoresMain
    <2>7. /\ Main \in Name /\ remote'[Main].data = local[c][Main].data
          /\ pass'[c].pc = "push_stamp"
        BY <2>6, PushDoes, MainFacts DEF Stored, Began, Now
    <2>8. /\ pass[c].pc = "pick" /\ Main \in pass[c].todo
          /\ pass[c].local[Main] # pass[c].base[Main] /\ Exists(local[c][Main])
        BY <2>6 DEF Push, At, LChanged
    <2>9. ~Own(c) /\ ~AtMain(c)
      <3>1. local[c][Main].data = remote[Main].data /\ local[c][Main].data # 0
          BY <2>2, <2>7, <2>8, MainFacts
      <3> QED
          BY <2>8, <3>1 DEF Own, Others, AtMain
    <2>10. pass[c].base[Main] = 0 /\ local[c][Main].mtime = Unstamped
        BY <2>1, <2>8, <2>9 DEF Honest, Dated, Baseline
    <2>11. local[c][Main] = [data |-> remote[Main].data, mtime |-> Unstamped]
      <3> DEFINE f == local[c][Main]
      <3>1. f \in File /\ f.data = remote[Main].data /\ f.mtime = Unstamped
          BY <2>2, <2>7, <2>10, DirFacts, FileFacts
      <3> HIDE DEF f
      <3>2. f = [data |-> remote[Main].data, mtime |-> Unstamped]
          BY <3>1 DEF File
      <3> QED
          BY <3>2 DEF f
    <2> QED
        BY <2>2, <2>7, <2>8, <2>10, <2>11 DEF Orphaned
  <1> QED
      BY <1>1, InitTypes, InitCopies, InitOriginal, StepTypes, StepCopies, StepOriginal,
         PTL DEF Spec, NoEcho
=============================================================================
