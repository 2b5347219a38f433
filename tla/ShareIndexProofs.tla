---------------------------- MODULE ShareIndexProofs ----------------------------
(***************************************************************************)
(* Theorems about ShareIndex, for any owners, shares, requests and bounds. *)
(***************************************************************************)
EXTENDS ShareIndex, TLAPS

\* Every change has been announced.
Quiet == \A u \in User \cup {Admin} : ~mgr[u]

\* A map has nothing for a share, or the share's own row as it was created.
Faithful(map) ==
    \A s \in Share : map[s] # NoRow =>
        /\ shares[s] # NoRow
        /\ map[s].owner = shares[s].owner /\ map[s].expires = shares[s].expires

\* A map has nothing for a share that is revoked or whose owner is gone.
Spares(map, s) == Listed(shares[s]) \/ map[s] = NoRow

\* The mutex is held by the one visit that rebuilds, and a rebuild starts from nothing.
OneBuilder == \A c \in Conn : /\ visit[c].pc = "build" <=> mu = c
                              /\ visit[c].pc = "lock" => visit[c].list = Empty

\* Neither the index, while it counts as fresh, nor a listing that is to
\* become the index has anything for s if s is not to be had.
Clean(s) ==
    /\ stale \/ Spares(idx, s)
    /\ \A c \in Conn : visit[c].pc = "build" => Spares(visit[c].list, s)

\* Closed for good, in a way no rebuild can undo.
Shuttered(s) ==
    /\ shares[s] # NoRow
    /\ Expired(shares[s]) \/ (~Listed(shares[s]) /\ Clean(s))

\* What announcing a change under the mutex achieves, ...
QuietClean == Quiet => \A s \in Share : Clean(s)

\* ... and what a visit relies on that came late.
LateShut(q) ==
    q.pc # "idle" /\ q.late =>
        /\ Shuttered(q.share)
        /\ q.pc \in {"found", "served"} => q.blind

FaithfulMaps == Faithful(idx) /\ \A c \in Conn : visit[c].pc = "build" => Faithful(visit[c].list)

IInv == /\ TypeOK /\ OneBuilder /\ FaithfulMaps
        /\ QuietClean /\ \A c \in Conn : LateShut(visit[c])

-----------------------------------------------------------------------------
(* Types                                                                     *)

LEMMA DataTypes ==
    /\ NoRow \in Row /\ Empty \in [Share -> Row]
    /\ NoVisit \in Visit /\ NoVisit.pc = "idle" /\ NoVisit.list = Empty
  <1>1. NoRow \in Row
      BY IndexConstants DEF IndexConstants, NoRow, Row
  <1>2. Empty \in [Share -> Row]
      BY <1>1 DEF Empty
  <1>3. (CHOOSE s \in Share : TRUE) \in Share
      BY IndexConstants DEF IndexConstants
  <1>4. NoVisit \in Visit /\ NoVisit.pc = "idle" /\ NoVisit.list = Empty
      BY <1>1, <1>2, <1>3 DEF Visit, NoVisit
  <1> QED
      BY <1>1, <1>2, <1>4

LEMMA AskType ==
    ASSUME NEW s \in Share
    PROVE  /\ Ask(s) \in Visit /\ Ask(s).list = Empty /\ Ask(s).share = s
           /\ Ask(s).late = Shut(s) /\ Ask(s).open = Open(s)
  <1>1. Shut(s) \in BOOLEAN /\ Open(s) \in BOOLEAN
      BY DEF Shut, Open, Live, Listed
  <1> QED
      BY <1>1, DataTypes DEF Ask, Visit

LEMMA LookupType ==
    ASSUME NEW q \in Visit, NEW map \in [Share -> Row]
    PROVE  /\ Lookup(q, map) \in Visit
           /\ Lookup(q, map).pc \in {"missing", "found"}
           /\ Lookup(q, map).share = q.share
           /\ Lookup(q, map).late = q.late /\ Lookup(q, map).blind = q.blind
           /\ Lookup(q, map).open = q.open
           /\ Lookup(q, map).pc = "found" =>
                map[q.share] # NoRow /\ ~Expired(map[q.share])
  BY DataTypes DEF Lookup, Visit

-----------------------------------------------------------------------------
(* The invariant                                                             *)

LEMMA InitIInv == Init => IInv
  <1> SUFFICES ASSUME Init PROVE IInv
      OBVIOUS
  <1> USE IndexConstants DEF IndexConstants
  <1>1. TypeOK
      BY DataTypes DEF Init, TypeOK
  <1>2. OneBuilder
      BY DataTypes DEF Init, OneBuilder
  <1>3. FaithfulMaps
      BY DataTypes DEF Init, FaithfulMaps, Faithful, Empty
  <1>4. QuietClean /\ \A c \in Conn : LateShut(visit[c])
      BY DataTypes DEF Init, QuietClean, LateShut, Clean
  <1> QED
      BY <1>1, <1>2, <1>3, <1>4 DEF IInv

\* A late visit finds nothing in a map that is fit to be the index.
LEMMA LookupRefuses ==
    ASSUME IInv, NEW q \in Visit, NEW map \in [Share -> Row], Faithful(map),
           Shuttered(q.share), Clean(q.share) => Spares(map, q.share)
    PROVE  Lookup(q, map).pc = "missing"
  <1>1. q.share \in Share
      BY DEF Visit
  <1>2. map[q.share] = NoRow \/ Expired(map[q.share])
      BY <1>1 DEF Faithful, Shuttered, Spares, Expired
  <1> QED
      BY <1>2 DEF Lookup, Visit

\* A change of the table is not announced yet when it is made; it never opens
\* a share again that was closed, and leaves owner and expiry alone.
LEMMA TableChanges ==
    ASSUME IInv, TypeOK', ~Quiet', UNCHANGED <<idx, stale, mu, visit, now>>,
           \A s \in Share : shares[s] # NoRow =>
             /\ shares'[s] # NoRow
             /\ shares'[s].owner = shares[s].owner /\ shares'[s].expires = shares[s].expires
             /\ Listed(shares[s])' => Listed(shares[s])
    PROVE  IInv'
  <1>1. OneBuilder' /\ QuietClean'
      BY DEF IInv, OneBuilder, QuietClean
  <1>2. FaithfulMaps'
    <2>1. ASSUME NEW map \in [Share -> Row], Faithful(map)
          PROVE  \A s \in Share : map[s] # NoRow =>
                     /\ shares'[s] # NoRow
                     /\ map[s].owner = shares'[s].owner /\ map[s].expires = shares'[s].expires
        BY <2>1 DEF Faithful
    <2> QED
        BY <2>1 DEF IInv, TypeOK, Visit, FaithfulMaps, Faithful
  <1>3. ASSUME NEW c \in Conn PROVE LateShut(visit[c])'
    <2>1. visit[c].share \in Share
        BY DEF IInv, TypeOK, Visit
    <2>2. ASSUME Shuttered(visit[c].share) PROVE Shuttered(visit[c].share)'
        BY <2>1, <2>2 DEF Shuttered, Expired, Clean, Spares
    <2> QED
        BY <2>2 DEF IInv, LateShut
  <1> QED
      BY <1>1, <1>2, <1>3 DEF IInv

\* A visit goes on, but neither starts, continues nor ends a rebuild.
LEMMA VisitMoves ==
    ASSUME IInv, TypeOK', NEW c \in Conn, NEW q \in Visit, visit' = [visit EXCEPT ![c] = q],
           visit[c].pc # "build", q.pc # "build", q.pc = "lock" => q.list = Empty,
           LateShut(q), UNCHANGED <<users, shares, idx, stale, mu, mgr, now>>
    PROVE  IInv'
  <1>1. \A d \in Conn : visit'[d] = IF d = c THEN q ELSE visit[d]
      BY DEF IInv, TypeOK
  <1>2. OneBuilder'
      BY <1>1 DEF IInv, OneBuilder
  <1>3. FaithfulMaps'
      BY <1>1 DEF IInv, FaithfulMaps, Faithful
  <1>4. \A s \in Share : Clean(s) => Clean(s)'
      BY <1>1 DEF Clean, Spares, Listed
  <1>5. QuietClean'
      BY <1>4 DEF IInv, QuietClean, Quiet
  <1>6. ASSUME NEW d \in Conn PROVE LateShut(visit[d])'
    <2>1. visit'[d].share \in Share
        BY DEF TypeOK, Visit
    <2>2. ASSUME NEW s \in Share, Shuttered(s) PROVE Shuttered(s)'
        BY <1>4, <2>2 DEF Shuttered, Expired, Listed
    <2>3. LateShut(visit'[d])
        BY <1>1 DEF IInv
    <2> QED
        BY <2>1, <2>2, <2>3 DEF LateShut
  <1> QED
      BY <1>2, <1>3, <1>5, <1>6 DEF IInv

-----------------------------------------------------------------------------
(* Each action                                                               *)

LEMMA CreateKeeps ==
    ASSUME IInv, NEW u \in User, NEW s \in Share, Create(u, s)
    PROVE  IInv'
  <1>1. PICK e \in {0, now + 1} :
           shares' = [shares EXCEPT ![s] = [owner |-> u, expires |-> e, revoked |-> FALSE]]
      BY DEF Create
  <1>2. [owner |-> u, expires |-> e, revoked |-> FALSE] \in Row
      BY <1>1, IndexConstants DEF IndexConstants, IInv, TypeOK, Row
  <1>3. TypeOK'
      BY <1>1, <1>2 DEF Create, index, IInv, TypeOK
  <1>4. ~Quiet'
      BY DEF Create, Quiet, IInv, TypeOK
  <1>5. \A r \in Share : shares[r] # NoRow => shares'[r] = shares[r] /\ users' = users
      BY <1>1 DEF Create, IInv, TypeOK
  <1> QED
      BY <1>3, <1>4, <1>5, TableChanges DEF Create, index, Listed

LEMMA RevokeKeeps ==
    ASSUME IInv, NEW u \in User, NEW s \in Share, Revoke(u, s)
    PROVE  IInv'
  <1>1. shares[s] \in Row /\ Listed(shares[s])
      BY DEF Revoke, IInv, TypeOK
  <1>2. shares' = [shares EXCEPT ![s] = [shares[s] EXCEPT !.revoked = TRUE]] /\ users' = users
      BY DEF Revoke
  <1>3. TypeOK'
    <2>1. [shares[s] EXCEPT !.revoked = TRUE] \in Row
        BY <1>1 DEF Row
    <2>2. shares' \in [Share -> Row]
        BY <1>2, <2>1 DEF IInv, TypeOK
    <2>3. mgr' \in [User \cup {Admin} -> BOOLEAN]
        BY DEF Revoke, IInv, TypeOK
    <2>4. UNCHANGED <<users, idx, stale, mu, visit, now, faults>>
        BY DEF Revoke, index
    <2> QED
        BY <2>2, <2>3, <2>4 DEF IInv, TypeOK
  <1>4. ~Quiet'
      BY DEF Revoke, Quiet, IInv, TypeOK
  <1>5. ASSUME NEW r \in Share, shares[r] # NoRow
        PROVE  /\ shares'[r] # NoRow
               /\ shares'[r].owner = shares[r].owner /\ shares'[r].expires = shares[r].expires
               /\ Listed(shares[r])' => Listed(shares[r])
      BY <1>1, <1>2, <1>5 DEF IInv, TypeOK, Row, NoRow, Listed
  <1> QED
      BY <1>3, <1>4, <1>5, TableChanges DEF Revoke, index

LEMMA DeleteOwnerKeeps ==
    ASSUME IInv, NEW u \in User, DeleteOwner(u)
    PROVE  IInv'
  <1>1. TypeOK'
      BY DEF DeleteOwner, index, IInv, TypeOK
  <1>2. ~Quiet'
      BY DEF DeleteOwner, Quiet, IInv, TypeOK
  <1> QED
      BY <1>1, <1>2, TableChanges DEF DeleteOwner, index, Listed

\* No rebuild is under way when a change is announced.
LEMMA InvalidateKeeps ==
    ASSUME IInv, NEW u \in User \cup {Admin}, Invalidate(u)
    PROVE  IInv'
  <1>1. TypeOK'
      BY DEF Invalidate, store, IInv, TypeOK
  <1>2. \A c \in Conn : visit[c].pc # "build"
      BY IndexConstants DEF IndexConstants, Invalidate, IInv, OneBuilder
  <1>3. UNCHANGED <<users, shares, idx, mu, visit, now>> /\ stale'
      BY DEF Invalidate, store
  <1>4. OneBuilder' /\ FaithfulMaps'
      BY <1>3 DEF IInv, OneBuilder, FaithfulMaps, Faithful
  <1>5. \A s \in Share : Clean(s)'
      BY <1>2, <1>3 DEF Clean
  <1>6. ASSUME NEW c \in Conn PROVE LateShut(visit[c])'
    <2>1. visit[c].share \in Share
        BY DEF IInv, TypeOK, Visit
    <2> QED
        BY <2>1, <1>3, <1>5 DEF IInv, LateShut, Shuttered, Expired, Listed
  <1> QED
      BY <1>1, <1>4, <1>5, <1>6 DEF IInv, QuietClean

LEMMA VisitByTokenKeeps ==
    ASSUME IInv, NEW c \in Conn, NEW s \in Share, VisitByToken(c, s)
    PROVE  IInv'
  <1> DEFINE q == IF Live(shares[s]) THEN [Ask(s) EXCEPT !.pc = "found", !.row = shares[s]]
                  ELSE [Ask(s) EXCEPT !.pc = "missing"]
  <1>1. q \in Visit /\ q.pc \in {"found", "missing"} /\ q.share = s /\ q.late = Shut(s)
        /\ (q.pc = "found" => Live(shares[s]))
    <2>1. shares[s] \in Row
        BY DEF IInv, TypeOK
    <2> HIDE DEF q
    <2>2. CASE Live(shares[s])
      <3> DEFINE a == Ask(s)
      <3>1. q = [a EXCEPT !.pc = "found", !.row = shares[s]]
          BY <2>2 DEF q
      <3>2. a \in Visit /\ a.share = s /\ a.late = Shut(s)
          BY AskType
      <3> HIDE DEF a
      <3>3. q \in Visit
          BY <2>1, <3>1, <3>2 DEF Visit
      <3>4. q.pc = "found" /\ q.share = s /\ q.late = Shut(s)
          BY <3>1, <3>2 DEF Visit
      <3> QED
          BY <2>2, <3>3, <3>4
    <2>3. CASE ~Live(shares[s])
      <3>1. q = [Ask(s) EXCEPT !.pc = "missing"]
          BY <2>3 DEF q
      <3> QED
          BY <3>1, AskType DEF Visit
    <2> QED
        BY <2>2, <2>3
  <1>2. LateShut(q)
      BY <1>1 DEF LateShut, Shut, Shuttered, Live, IInv, QuietClean, Quiet
  <1>3. visit' = [visit EXCEPT ![c] = q]
      BY DEF VisitByToken
  <1>4. TypeOK'
      BY <1>1, <1>3 DEF VisitByToken, store, index, IInv, TypeOK
  <1> QED
      BY <1>1, <1>2, <1>3, <1>4, VisitMoves DEF VisitByToken, store, index

LEMMA VisitByPrefixKeeps ==
    ASSUME IInv, NEW c \in Conn, NEW s \in Share, VisitByPrefix(c, s)
    PROVE  IInv'
  <1> DEFINE q == [Ask(s) EXCEPT !.pc = "lock"]
  <1>1. q \in Visit /\ q.pc = "lock" /\ q.list = Empty /\ q.share = s /\ q.late = Shut(s)
      BY AskType DEF Visit
  <1>2. LateShut(q)
      BY <1>1 DEF LateShut, Shut, Shuttered, Live, IInv, QuietClean, Quiet
  <1>3. visit' = [visit EXCEPT ![c] = q]
      BY DEF VisitByPrefix
  <1>4. TypeOK'
      BY <1>1, <1>3 DEF VisitByPrefix, store, index, IInv, TypeOK
  <1> QED
      BY <1>1, <1>2, <1>3, <1>4, VisitMoves DEF VisitByPrefix, store, index

LEMMA LookupFreshKeeps ==
    ASSUME IInv, NEW c \in Conn, LookupFresh(c)
    PROVE  IInv'
  <1> DEFINE q == Lookup(visit[c], idx)
  <1>1. visit[c] \in Visit /\ idx \in [Share -> Row] /\ visit[c].share \in Share
      BY DEF IInv, TypeOK, Visit
  <1>2. q \in Visit /\ q.pc \in {"missing", "found"} /\ q.share = visit[c].share
        /\ q.late = visit[c].late
      BY <1>1, LookupType
  <1>3. LateShut(q)
    <2>1. SUFFICES ASSUME visit[c].late PROVE Shuttered(visit[c].share) /\ q.pc = "missing"
        BY <1>2 DEF LateShut
    <2>2. Shuttered(visit[c].share)
        BY <2>1 DEF LookupFresh, IInv, LateShut
    <2>3. Clean(visit[c].share) => Spares(idx, visit[c].share)
        BY DEF LookupFresh, Clean
    <2> QED
        BY <2>2, <2>3, <1>1, LookupRefuses DEF IInv, FaithfulMaps
  <1>4. visit' = [visit EXCEPT ![c] = q]
      BY DEF LookupFresh
  <1>5. TypeOK'
      BY <1>2, <1>4 DEF LookupFresh, store, index, IInv, TypeOK
  <1> QED
      BY <1>2, <1>3, <1>4, <1>5, VisitMoves DEF LookupFresh, store, index

LEMMA RebuildFailsKeeps ==
    ASSUME IInv, NEW c \in Conn, RebuildFails(c)
    PROVE  IInv'
  <1> DEFINE p == [visit[c] EXCEPT !.blind = TRUE]
             q == Lookup(p, idx)
  <1>1. visit[c] \in Visit /\ idx \in [Share -> Row]
      BY DEF IInv, TypeOK
  <1>2. p \in Visit /\ p.share = visit[c].share /\ p.late = visit[c].late /\ p.blind
      BY <1>1 DEF Visit
  <1>3. q \in Visit /\ q.pc \in {"missing", "found"} /\ q.share = visit[c].share
        /\ q.late = visit[c].late /\ q.blind
      BY <1>1, <1>2, LookupType
  <1>4. LateShut(q)
      BY <1>3 DEF LateShut, RebuildFails, IInv
  <1>5. visit' = [visit EXCEPT ![c] = q]
      BY DEF RebuildFails
  <1>6. TypeOK'
      BY <1>3, <1>5, IndexConstants DEF IndexConstants, RebuildFails, store, index, IInv, TypeOK
  <1> QED
      BY <1>3, <1>4, <1>5, <1>6, VisitMoves DEF RebuildFails, store, index

LEMMA ServeKeeps ==
    ASSUME IInv, NEW c \in Conn, Serve(c)
    PROVE  IInv'
  <1>1. visit[c] \in Visit
      BY DEF IInv, TypeOK
  <1>2. PICK q \in Visit : /\ q = [visit[c] EXCEPT !.pc = "served"] \/ q = NoVisit
                           /\ visit' = [visit EXCEPT ![c] = q]
      BY <1>1, DataTypes DEF Serve, Visit
  <1>3. q.pc \in {"served", "idle"} /\ LateShut(q)
      BY <1>1, <1>2, DataTypes DEF Serve, IInv, LateShut, Visit
  <1>4. TypeOK'
      BY <1>2 DEF Serve, store, index, IInv, TypeOK
  <1> QED
      BY <1>2, <1>3, <1>4, VisitMoves DEF Serve, store, index

LEMMA DoneKeeps ==
    ASSUME IInv, NEW c \in Conn, Done(c)
    PROVE  IInv'
  <1>1. LateShut(NoVisit)
      BY DataTypes DEF LateShut
  <1>2. TypeOK'
      BY DataTypes DEF Done, store, index, IInv, TypeOK
  <1> QED
      BY <1>1, <1>2, DataTypes, VisitMoves DEF Done, store, index

\* A rebuild starts from nothing.
LEMMA RebuildUsersKeeps ==
    ASSUME IInv, NEW c \in Conn, RebuildUsers(c)
    PROVE  IInv'
  <1> DEFINE q == [visit[c] EXCEPT !.pc = "build", !.todo = users]
  <1>1. q \in Visit /\ q.pc = "build" /\ q.list = Empty /\ q.share = visit[c].share
        /\ q.late = visit[c].late
      BY DEF RebuildUsers, IInv, TypeOK, OneBuilder, Visit
  <1>2. \A s \in Share : q.list[s] = NoRow
      BY <1>1 DEF Empty
  <1> HIDE DEF q
  <1>3. visit' = [visit EXCEPT ![c] = q] /\ mu = NoConn /\ mu' = c
      BY DEF RebuildUsers, q
  <1>4. \A d \in Conn : visit'[d] = IF d = c THEN q ELSE visit[d]
      BY <1>3 DEF IInv, TypeOK
  <1>5. UNCHANGED <<users, shares, idx, stale, mgr, now>>
      BY DEF RebuildUsers, store
  <1>6. TypeOK'
      BY <1>1, <1>3 DEF RebuildUsers, store, IInv, TypeOK
  <1>7. OneBuilder'
      BY <1>1, <1>3, <1>4, IndexConstants DEF IndexConstants, IInv, OneBuilder
  <1>8. FaithfulMaps'
      BY <1>1, <1>2, <1>4, <1>5 DEF IInv, FaithfulMaps, Faithful
  <1>9. \A s \in Share : Clean(s) => Clean(s)'
      BY <1>1, <1>2, <1>4, <1>5 DEF Clean, Spares, Listed
  <1>10. QuietClean'
      BY <1>5, <1>9 DEF IInv, QuietClean, Quiet
  <1>11. ASSUME NEW d \in Conn PROVE LateShut(visit[d])'
    <2>1. visit[d].share \in Share
        BY DEF IInv, TypeOK, Visit
    <2>2. visit'[d].share = visit[d].share /\ visit'[d].late = visit[d].late
        BY <1>1, <1>4
    <2>3. Shuttered(visit[d].share) => Shuttered(visit[d].share)'
        BY <2>1, <2>2, <1>5, <1>9 DEF Shuttered, Expired, Listed
    <2>4. visit[c].pc = "lock"
        BY DEF RebuildUsers
    <2> QED
        BY <2>2, <2>3, <2>4, <1>1, <1>4 DEF IInv, LateShut
  <1> QED
      BY <1>6, <1>7, <1>8, <1>10, <1>11 DEF IInv

\* A rebuild takes in what is listed, or leaves it out.
TakesListed(old, new) ==
    \A s \in Share : new[s] = old[s] \/ (new[s] = shares[s] /\ Listed(shares[s]))

LEMMA ListingGrows ==
    ASSUME IInv, TypeOK', NEW c \in Conn, NEW q \in Visit, visit' = [visit EXCEPT ![c] = q],
           visit[c].pc = "build", q.pc = "build", q.share = visit[c].share,
           q.late = visit[c].late,
           TakesListed(visit[c].list, q.list),
           UNCHANGED <<users, shares, idx, stale, mu, mgr, now>>
    PROVE  IInv'
  <1>1. \A d \in Conn : visit'[d] = IF d = c THEN q ELSE visit[d]
      BY DEF IInv, TypeOK
  <1>2. OneBuilder'
      BY <1>1 DEF IInv, OneBuilder
  <1>3. Faithful(q.list)
      BY DEF TakesListed, IInv, FaithfulMaps, Faithful
  <1>4. FaithfulMaps'
      BY <1>1, <1>3 DEF IInv, FaithfulMaps, Faithful
  <1>5. \A s \in Share : Clean(s) => Clean(s)'
      BY <1>1 DEF TakesListed, Clean, Spares, Listed
  <1>6. QuietClean'
      BY <1>5 DEF IInv, QuietClean, Quiet
  <1>7. ASSUME NEW d \in Conn PROVE LateShut(visit[d])'
    <2>1. visit[d].share \in Share
        BY DEF IInv, TypeOK, Visit
    <2>2. visit'[d].share = visit[d].share /\ visit'[d].late = visit[d].late
          /\ visit'[d].pc = visit[d].pc /\ (visit'[d].pc = "build" \/ visit'[d] = visit[d])
        BY <1>1
    <2>3. Shuttered(visit[d].share) => Shuttered(visit[d].share)'
        BY <2>1, <2>2, <1>5 DEF Shuttered, Expired, Listed
    <2> QED
        BY <2>2, <2>3 DEF IInv, LateShut
  <1> QED
      BY <1>2, <1>4, <1>6, <1>7 DEF IInv

LEMMA RebuildSharesKeeps ==
    ASSUME IInv, NEW c \in Conn, NEW u \in User, RebuildShares(c, u)
    PROVE  IInv'
  <1> DEFINE new == [s \in Share |-> IF Listed(shares[s]) /\ shares[s].owner = u
                                     THEN shares[s] ELSE visit[c].list[s]]
             q == [visit[c] EXCEPT !.todo = visit[c].todo \ {u}, !.list = new]
  <1>1. visit[c] \in Visit /\ new \in [Share -> Row]
      BY DEF IInv, TypeOK, Visit
  <1>2. q \in Visit /\ q.pc = visit[c].pc /\ q.share = visit[c].share
        /\ q.late = visit[c].late /\ q.list = new
      BY <1>1 DEF Visit
  <1>3. visit' = [visit EXCEPT ![c] = q] /\ visit[c].pc = "build"
      BY DEF RebuildShares
  <1>4. TypeOK'
      BY <1>2, <1>3 DEF RebuildShares, store, index, IInv, TypeOK
  <1>5. TakesListed(visit[c].list, q.list)
      BY <1>2 DEF TakesListed
  <1>6. UNCHANGED <<users, shares, idx, stale, mu, mgr, now>>
      BY DEF RebuildShares, store, index
  <1> HIDE DEF new, q
  <1> QED
      BY <1>2, <1>3, <1>4, <1>5, <1>6, ListingGrows

LEMMA RebuildSkipsKeeps ==
    ASSUME IInv, NEW c \in Conn, NEW u \in User, RebuildSkips(c, u)
    PROVE  IInv'
  <1> DEFINE q == [visit[c] EXCEPT !.todo = visit[c].todo \ {u}]
  <1>1. q \in Visit /\ q.pc = visit[c].pc /\ q.share = visit[c].share
        /\ q.late = visit[c].late /\ q.list = visit[c].list
      BY DEF IInv, TypeOK, Visit
  <1>2. visit' = [visit EXCEPT ![c] = q] /\ visit[c].pc = "build"
      BY DEF RebuildSkips
  <1>3. TypeOK'
      BY <1>1, <1>2, IndexConstants DEF IndexConstants, RebuildSkips, store, index, IInv, TypeOK
  <1>4. TakesListed(visit[c].list, q.list)
      BY <1>1 DEF TakesListed
  <1> QED
      BY <1>1, <1>2, <1>3, <1>4, ListingGrows DEF RebuildSkips, store, index

\* The listing becomes the index, and nobody else was rebuilding.
LEMMA RebuildDoneKeeps ==
    ASSUME IInv, NEW c \in Conn, RebuildDone(c)
    PROVE  IInv'
  <1> DEFINE map == visit[c].list
             q == Lookup(visit[c], map)
  <1>1. visit[c] \in Visit /\ map \in [Share -> Row] /\ visit[c].pc = "build" /\ mu = c
      BY DEF RebuildDone, IInv, TypeOK, OneBuilder, Visit
  <1>2. q \in Visit /\ q.pc \in {"missing", "found"} /\ q.share = visit[c].share
        /\ q.late = visit[c].late
      BY <1>1, LookupType
  <1>3. /\ visit' = [visit EXCEPT ![c] = q] /\ idx' = map /\ mu' = NoConn
        /\ UNCHANGED <<users, shares, mgr, now, faults>>
      BY DEF RebuildDone, store
  <1>4. Faithful(map) /\ \A s \in Share : Clean(s) => Spares(map, s)
      BY <1>1 DEF IInv, FaithfulMaps, Clean
  <1>5. q.late => Shuttered(q.share) /\ q.pc = "missing"
    <2>1. SUFFICES ASSUME visit[c].late PROVE Shuttered(visit[c].share) /\ q.pc = "missing"
        BY <1>2
    <2>2. Shuttered(visit[c].share) /\ visit[c].share \in Share
        BY <2>1, <1>1 DEF IInv, LateShut, Visit
    <2> QED
        BY <2>2, <1>1, <1>4, LookupRefuses
  <1>6. TypeOK'
      BY <1>1, <1>2, <1>3 DEF RebuildDone, IInv, TypeOK
  <1> HIDE DEF map, q
  <1>7. \A d \in Conn : visit'[d] = IF d = c THEN q ELSE visit[d]
      BY <1>3 DEF IInv, TypeOK
  <1>8. \A d \in Conn : visit'[d].pc # "build"
      BY <1>1, <1>2, <1>7 DEF IInv, OneBuilder
  <1>9. OneBuilder'
      BY <1>2, <1>3, <1>7, <1>8, IndexConstants DEF IndexConstants, IInv, OneBuilder
  <1>10. FaithfulMaps'
      BY <1>3, <1>4, <1>8 DEF FaithfulMaps, Faithful
  <1>11. \A s \in Share : Clean(s) => Clean(s)'
      BY <1>3, <1>4, <1>8 DEF Clean, Spares, Listed
  <1>12. QuietClean'
      BY <1>3, <1>11 DEF IInv, QuietClean, Quiet
  <1>13. ASSUME NEW d \in Conn PROVE LateShut(visit[d])'
    <2>1. visit'[d].share \in Share
        BY <1>6 DEF TypeOK, Visit
    <2>2. ASSUME NEW s \in Share, Shuttered(s) PROVE Shuttered(s)'
        BY <1>3, <1>11, <2>2 DEF Shuttered, Expired, Listed
    <2> QED
        BY <2>1, <2>2, <1>2, <1>5, <1>7 DEF IInv, LateShut
  <1> QED
      BY <1>6, <1>9, <1>10, <1>12, <1>13 DEF IInv

LEMMA TickKeeps ==
    ASSUME IInv, Tick
    PROVE  IInv'
  <1>1. UNCHANGED <<users, shares, idx, stale, mu, visit, mgr, faults>> /\ now' = now + 1
        /\ now \in Nat
      BY DEF Tick, store, index, IInv, TypeOK
  <1>2. TypeOK'
      BY <1>1, IndexConstants DEF IndexConstants, Tick, IInv, TypeOK
  <1>3. OneBuilder' /\ FaithfulMaps'
      BY <1>1 DEF IInv, OneBuilder, FaithfulMaps, Faithful
  <1>4. \A s \in Share : Clean(s)' = Clean(s)
      BY <1>1 DEF Clean, Spares, Listed
  <1>5. QuietClean'
      BY <1>1, <1>4 DEF IInv, QuietClean, Quiet
  <1>6. \A s \in Share : Shuttered(s) => Shuttered(s)'
    <2>1. \A s \in Share : shares[s].expires \in Nat
        BY IndexConstants DEF IndexConstants, IInv, TypeOK, Row
    <2> QED
        BY <1>1, <1>4, <2>1 DEF Shuttered, Expired, Listed
  <1>7. ASSUME NEW d \in Conn PROVE LateShut(visit[d])'
    <2>1. visit[d].share \in Share
        BY DEF IInv, TypeOK, Visit
    <2> QED
        BY <2>1, <1>1, <1>6 DEF IInv, LateShut
  <1> QED
      BY <1>2, <1>3, <1>5, <1>7 DEF IInv

LEMMA RestartKeeps ==
    ASSUME IInv, Restart
    PROVE  IInv'
  <1>1. TypeOK'
      BY DataTypes, IndexConstants DEF IndexConstants, Restart, store, IInv, TypeOK
  <1>2. \A c \in Conn : visit'[c] = NoVisit
      BY DEF Restart
  <1>3. OneBuilder' /\ FaithfulMaps'
      BY <1>2, DataTypes, IndexConstants
      DEF IndexConstants, Restart, OneBuilder, FaithfulMaps, Faithful, Empty
  <1>4. QuietClean' /\ \A c \in Conn : LateShut(visit[c])'
      BY <1>2, DataTypes DEF Restart, QuietClean, Clean, LateShut
  <1> QED
      BY <1>1, <1>3, <1>4 DEF IInv

LEMMA StutterKeeps ==
    ASSUME IInv, UNCHANGED vars
    PROVE  IInv'
  BY DEF vars, IInv, TypeOK, OneBuilder, FaithfulMaps, Faithful, QuietClean, Quiet, Clean,
         Spares, Listed, LateShut, Shuttered, Expired

LEMMA StepKeeps == IInv /\ [Next]_vars => IInv'
  BY CreateKeeps, RevokeKeeps, DeleteOwnerKeeps, InvalidateKeeps, VisitByTokenKeeps,
     VisitByPrefixKeeps, LookupFreshKeeps, RebuildUsersKeeps, RebuildFailsKeeps,
     RebuildSharesKeeps, RebuildSkipsKeeps, RebuildDoneKeeps, ServeKeeps, DoneKeeps,
     TickKeeps, RestartKeeps, StutterKeeps
  DEF Next

LEMMA InvariantHolds == Spec => []IInv
  BY InitIInv, StepKeeps, PTL DEF Spec

-----------------------------------------------------------------------------
\* The types of the table, the index and the visits, at every step.
THEOREM TypeCorrect == Spec => []TypeOK
  <1>1. IInv => TypeOK
      BY DEF IInv
  <1> QED
      BY <1>1, InvariantHolds, PTL

\* A visit that came after its share had run out, or after the answer to the
\* revocation or to the owner's deletion, is not served, whatever rebuilds of the
\* index were under way; but for a visit whose own rebuild failed.
THEOREM LateVisitsRefused == Spec => []ServedWasLive
  <1>1. IInv => ServedWasLive
      BY DEF IInv, LateShut, ServedWasLive
  <1> QED
      BY <1>1, InvariantHolds, PTL

-----------------------------------------------------------------------------
(* The index is complete, too, while no query has failed and no process died *)

\* What a rebuild has listed when the owners in `todo` are still to be asked.
Table(todo, s) ==
    IF Listed(shares[s]) /\ shares[s].owner \notin todo THEN shares[s] ELSE NoRow

\* With every change announced, the index and the listings under way are complete.
Complete ==
    faults = 0 /\ Quiet =>
        /\ ~stale => \A s \in Share : idx[s] = Table({}, s)
        /\ \A c \in Conn : visit[c].pc = "build" =>
             \A s \in Share : visit[c].list[s] = Table(visit[c].todo, s)

\* A step of a visit that is not in a rebuild, or of the clock.
LEMMA CompleteStays ==
    ASSUME Complete, UNCHANGED <<users, shares, idx, stale, mgr>>, faults' = 0 => faults = 0,
           \A d \in Conn : visit'[d].pc = "build" => visit'[d] = visit[d]
    PROVE  Complete'
  BY DEF Complete, Quiet, Table, Listed

LEMMA StepComplete == IInv /\ Complete /\ [Next]_vars => Complete'
  <1> SUFFICES ASSUME IInv, Complete, [Next]_vars PROVE Complete'
      OBVIOUS
  <1>1. ASSUME NEW u \in User, NEW s \in Share, Create(u, s) \/ Revoke(u, s)
        PROVE  Complete'
    <2>1. ~Quiet'
        BY <1>1 DEF Create, Revoke, Quiet, IInv, TypeOK
    <2> QED
        BY <2>1 DEF Complete
  <1>2. ASSUME NEW u \in User, DeleteOwner(u) PROVE Complete'
    <2>1. ~Quiet'
        BY <1>2 DEF DeleteOwner, Quiet, IInv, TypeOK
    <2> QED
        BY <2>1 DEF Complete
  <1>3. ASSUME NEW u \in User \cup {Admin}, Invalidate(u) PROVE Complete'
    <2>1. \A c \in Conn : visit[c].pc # "build"
        BY <1>3, IndexConstants DEF IndexConstants, Invalidate, IInv, OneBuilder
    <2> QED
        BY <1>3, <2>1 DEF Invalidate, Complete
  <1>4. ASSUME NEW c \in Conn, NEW s \in Share, VisitByToken(c, s) PROVE Complete'
    <2>1. Ask(s) \in Visit
        BY AskType
    <2>2. visit'[c].pc # "build" /\ \A d \in Conn \ {c} : visit'[d] = visit[d]
        BY <1>4, <2>1 DEF VisitByToken, IInv, TypeOK, Visit
    <2> QED
        BY <1>4, <2>2, CompleteStays DEF VisitByToken, store, index
  <1>5. ASSUME NEW c \in Conn, NEW s \in Share, VisitByPrefix(c, s) PROVE Complete'
    <2>1. Ask(s) \in Visit
        BY AskType
    <2>2. visit'[c].pc # "build" /\ \A d \in Conn \ {c} : visit'[d] = visit[d]
        BY <1>5, <2>1 DEF VisitByPrefix, IInv, TypeOK, Visit
    <2> QED
        BY <1>5, <2>2, CompleteStays DEF VisitByPrefix, store, index
  <1>6. ASSUME NEW c \in Conn, LookupFresh(c) PROVE Complete'
    <2>1. visit[c] \in Visit /\ idx \in [Share -> Row]
        BY DEF IInv, TypeOK
    <2>2. visit'[c].pc # "build" /\ \A d \in Conn \ {c} : visit'[d] = visit[d]
        BY <1>6, <2>1, LookupType DEF LookupFresh, IInv, TypeOK
    <2> QED
        BY <1>6, <2>2, CompleteStays DEF LookupFresh, store, index
  <1>7. ASSUME NEW c \in Conn, RebuildUsers(c) PROVE Complete'
    <2>1. visit[c] \in Visit /\ visit[c].list = Empty
        BY <1>7 DEF RebuildUsers, IInv, TypeOK, OneBuilder
    <2>2. visit'[c].list = Empty /\ visit'[c].todo = users
        BY <1>7, <2>1 DEF RebuildUsers, IInv, TypeOK, Visit
    <2>3. \A d \in Conn \ {c} : visit'[d] = visit[d]
        BY <1>7 DEF RebuildUsers, IInv, TypeOK
    <2>4. UNCHANGED <<users, shares, idx, stale, mgr, faults>>
        BY <1>7 DEF RebuildUsers, store
    <2>5. \A s \in Share : visit'[c].list[s] = NoRow
        BY <2>2 DEF Empty
    <2>6. \A s \in Share : ~(Listed(shares[s]) /\ shares[s].owner \notin users)
        BY DEF Listed
    <2> QED
        BY <2>2, <2>3, <2>4, <2>5, <2>6 DEF Complete, Quiet, Table, Listed
  <1>8. ASSUME NEW c \in Conn, NEW u \in User, RebuildShares(c, u) PROVE Complete'
    <2> DEFINE new == [s \in Share |-> IF Listed(shares[s]) /\ shares[s].owner = u
                                       THEN shares[s] ELSE visit[c].list[s]]
    <2>1. visit[c] \in Visit /\ visit[c].pc = "build" /\ u \in visit[c].todo
        BY <1>8 DEF RebuildShares, IInv, TypeOK
    <2>2. visit'[c].list = new /\ visit'[c].todo = visit[c].todo \ {u}
        BY <1>8, <2>1 DEF RebuildShares, IInv, TypeOK, Visit
    <2>3. \A d \in Conn \ {c} : visit'[d] = visit[d]
        BY <1>8 DEF RebuildShares, IInv, TypeOK
    <2>4. UNCHANGED <<users, shares, idx, stale, mgr, faults>>
        BY <1>8 DEF RebuildShares, store, index
    <2>5. ASSUME NEW s \in Share, visit[c].list[s] = Table(visit[c].todo, s)
          PROVE  visit'[c].list[s] = Table(visit'[c].todo, s)
        BY <2>1, <2>2, <2>5 DEF Table
    <2> HIDE DEF new
    <2> QED
        BY <2>1, <2>3, <2>4, <2>5 DEF Complete, Quiet, Table, Listed
  <1>9. ASSUME NEW c \in Conn, NEW u \in User, RebuildSkips(c, u) PROVE Complete'
      BY <1>9 DEF RebuildSkips, Complete, IInv, TypeOK
  <1>10. ASSUME NEW c \in Conn, RebuildFails(c) PROVE Complete'
      BY <1>10 DEF RebuildFails, Complete, IInv, TypeOK
  <1>11. ASSUME NEW c \in Conn, RebuildDone(c) PROVE Complete'
    <2>1. visit[c] \in Visit /\ visit[c].pc = "build" /\ visit[c].todo = {} /\ mu = c
        BY <1>11 DEF RebuildDone, IInv, TypeOK, OneBuilder
    <2>2. visit[c].list \in [Share -> Row]
        BY <2>1 DEF Visit
    <2>3. \A d \in Conn : visit'[d].pc # "build"
        BY <1>11, <2>1, <2>2, LookupType DEF RebuildDone, IInv, TypeOK, OneBuilder
    <2>4. idx' = visit[c].list /\ UNCHANGED <<users, shares, mgr, faults>>
        BY <1>11 DEF RebuildDone, store
    <2> QED
        BY <2>1, <2>3, <2>4 DEF Complete, Quiet, Table, Listed
  <1>12. ASSUME NEW c \in Conn, Serve(c) \/ Done(c) PROVE Complete'
    <2>1. visit'[c].pc # "build" /\ \A d \in Conn \ {c} : visit'[d] = visit[d]
        BY <1>12, DataTypes DEF Serve, Done, IInv, TypeOK, Visit
    <2>2. UNCHANGED <<users, shares, idx, stale, mgr, faults>>
        BY <1>12 DEF Serve, Done, store, index
    <2> QED
        BY <2>1, <2>2, CompleteStays
  <1>13. CASE Tick \/ UNCHANGED vars
      BY <1>13, CompleteStays DEF Tick, store, index, vars
  <1>14. CASE Restart
      BY <1>14 DEF Restart, Complete, IInv, TypeOK
  <1> QED
      BY <1>1, <1>2, <1>3, <1>4, <1>5, <1>6, <1>7, <1>8, <1>9, <1>10, <1>11, <1>12, <1>13, <1>14
      DEF Next

\* An index that is not marked stale agrees with the table once every change has
\* been announced: no listing made before a change is installed after it.
THEOREM FreshIndexIsRight == Spec => []FreshIndexAgrees
  <1>1. Init => Complete
      BY DataTypes DEF Init, Complete
  <1>2. IInv /\ Complete => FreshIndexAgrees
      BY DEF IInv, Complete, Quiet, Table, FreshIndexAgrees
  <1> QED
      BY <1>1, <1>2, InitIInv, StepKeeps, StepComplete, PTL DEF Spec

-----------------------------------------------------------------------------
(* One share's row in the index, whatever the other owners are about.        *)

\* If the share is to be had, its row is in the index while that counts as fresh,
\* and in every listing that has passed its owner.
Known(s) ==
    Listed(shares[s]) =>
        /\ ~stale => idx[s] = shares[s]
        /\ \A c \in Conn : visit[c].pc = "build" /\ shares[s].owner \notin visit[c].todo =>
             visit[c].list[s] = shares[s]

\* A share is known once its creation is announced, and stays so when its owner
\* makes another; ...
AnnouncedKnown == \A s \in Share : shares[s] # NoRow /\ ~mgr[shares[s].owner] => Known(s)

\* ... a visit that asked for it while it was open relies on that, ...
AskedKnown == \A c \in Conn : visit[c].pc # "idle" /\ visit[c].open =>
    /\ shares[visit[c].share] # NoRow /\ Known(visit[c].share)
    /\ visit[c].pc = "missing" => ~Live(shares[visit[c].share])

\* ... until the first query fails or the process dies.
Findable == faults = 0 => AnnouncedKnown /\ AskedKnown

\* Only the owner, the administrator and the clock touch the table and the time.
LEMMA TableSteps ==
    ASSUME [Next]_vars
    PROVE  \/ \E u \in User, s \in Share : Create(u, s) \/ Revoke(u, s)
           \/ \E u \in User : DeleteOwner(u)
           \/ Tick
           \/ UNCHANGED <<users, shares, now>>
  <1>1. ASSUME NEW u \in User \cup {Admin}, Invalidate(u) PROVE UNCHANGED <<users, shares, now>>
      BY <1>1 DEF Invalidate, store
  <1>2. ASSUME NEW c \in Conn, NEW s \in Share, VisitByToken(c, s) \/ VisitByPrefix(c, s)
        PROVE  UNCHANGED <<users, shares, now>>
      BY <1>2 DEF VisitByToken, VisitByPrefix, store
  <1>3. ASSUME NEW c \in Conn, \/ LookupFresh(c) \/ RebuildUsers(c) \/ RebuildFails(c)
                                \/ RebuildDone(c) \/ Serve(c) \/ Done(c)
        PROVE  UNCHANGED <<users, shares, now>>
      BY <1>3 DEF LookupFresh, RebuildUsers, RebuildFails, RebuildDone, Serve, Done, store
  <1>4. ASSUME NEW c \in Conn, NEW u \in User, RebuildShares(c, u) \/ RebuildSkips(c, u)
        PROVE  UNCHANGED <<users, shares, now>>
      BY <1>4 DEF RebuildShares, RebuildSkips, store
  <1>5. CASE Restart \/ UNCHANGED vars
      BY <1>5 DEF Restart, store, vars
  <1> QED
      BY <1>1, <1>2, <1>3, <1>4, <1>5 DEF Next

\* A row keeps its owner; one that is revoked, run out or without an owner stays so.
LEMMA RowStays ==
    ASSUME IInv, [Next]_vars, NEW s \in Share, shares[s] # NoRow
    PROVE  /\ shares'[s] # NoRow /\ shares'[s].owner = shares[s].owner
           /\ Listed(shares[s])' => Listed(shares[s]) /\ shares'[s] = shares[s]
           /\ Live(shares[s])' => Live(shares[s])
  <1>1. shares[s] \in Row /\ now \in Nat /\ shares[s].expires \in Nat
      BY IndexConstants DEF IndexConstants, IInv, TypeOK, Row
  <1>2. ASSUME shares'[s] = shares[s], users' \subseteq users, now' = now \/ now' = now + 1
        PROVE  /\ shares'[s] # NoRow /\ shares'[s].owner = shares[s].owner
               /\ Listed(shares[s])' => Listed(shares[s]) /\ shares'[s] = shares[s]
               /\ Live(shares[s])' => Live(shares[s])
      BY <1>1, <1>2 DEF Listed, Live, Expired
  <1>3. ASSUME NEW u \in User, NEW t \in Share, Create(u, t)
        PROVE  shares'[s] = shares[s] /\ users' = users /\ now' = now
      BY <1>3 DEF Create, IInv, TypeOK
  <1>4. ASSUME NEW u \in User, NEW t \in Share, Revoke(u, t), t # s
        PROVE  shares'[s] = shares[s] /\ users' = users /\ now' = now
      BY <1>4 DEF Revoke, IInv, TypeOK
  <1>5. ASSUME NEW u \in User, Revoke(u, s)
        PROVE  /\ shares'[s] # NoRow /\ shares'[s].owner = shares[s].owner
               /\ ~Listed(shares[s])' /\ ~Live(shares[s])'
    <2>1. shares' = [shares EXCEPT ![s].revoked = TRUE]
        BY <1>5 DEF Revoke
    <2>2. shares'[s].revoked = TRUE /\ shares'[s].owner = shares[s].owner
        BY <2>1, <1>1 DEF IInv, TypeOK, Row
    <2> QED
        BY <2>2 DEF Listed, Live, NoRow
  <1>6. ASSUME NEW u \in User, DeleteOwner(u)
        PROVE  shares' = shares /\ users' \subseteq users /\ now' = now
      BY <1>6 DEF DeleteOwner
  <1>7. CASE Tick
      BY <1>2, <1>7 DEF Tick, store
  <1>8. CASE UNCHANGED <<users, shares, now>>
      BY <1>2, <1>8
  <1> QED
      BY <1>2, <1>3, <1>4, <1>5, <1>6, <1>7, <1>8, TableSteps

\* A failed query or a restart is counted, and never forgotten.
LEMMA FaultsStay ==
    ASSUME IInv, [Next]_vars, faults' = 0
    PROVE  /\ faults = 0 /\ ~Restart
           /\ \A c \in Conn : ~RebuildFails(c) /\ \A u \in User : ~RebuildSkips(c, u)
  <1>1. faults \in Nat
      BY IndexConstants DEF IndexConstants, IInv, TypeOK
  <1>2. /\ ~Restart
        /\ \A c \in Conn : ~RebuildFails(c) /\ \A u \in User : ~RebuildSkips(c, u)
      BY <1>1 DEF Restart, RebuildFails, RebuildSkips
  <1>3. ASSUME NEW u \in User, NEW s \in Share, Create(u, s) \/ Revoke(u, s)
        PROVE  faults = 0
      BY <1>3 DEF Create, Revoke
  <1>4. ASSUME NEW u \in User \cup {Admin}, Invalidate(u) PROVE faults = 0
      BY <1>4 DEF Invalidate
  <1>5. ASSUME NEW c \in Conn, NEW s \in Share, VisitByToken(c, s) \/ VisitByPrefix(c, s)
        PROVE  faults = 0
      BY <1>5 DEF VisitByToken, VisitByPrefix
  <1>6. ASSUME NEW c \in Conn, \/ LookupFresh(c) \/ RebuildUsers(c)
                                \/ RebuildDone(c) \/ Serve(c) \/ Done(c)
        PROVE  faults = 0
      BY <1>6 DEF LookupFresh, RebuildUsers, RebuildDone, Serve, Done
  <1>7. ASSUME NEW c \in Conn, NEW u \in User, RebuildShares(c, u) PROVE faults = 0
      BY <1>7 DEF RebuildShares
  <1>8. ASSUME NEW u \in User, DeleteOwner(u) PROVE faults = 0
      BY <1>8 DEF DeleteOwner
  <1>9. ASSUME Tick \/ UNCHANGED vars PROVE faults = 0
      BY <1>9 DEF Tick, vars
  <1>10. faults = 0
      BY <1>2, <1>3, <1>4, <1>5, <1>6, <1>7, <1>8, <1>9 DEF Next
  <1> QED
      BY <1>2, <1>10

\* The index and the listings of a share's row.
LEMMA KnownStays ==
    ASSUME IInv, [Next]_vars, faults' = 0, NEW s \in Share, shares[s] # NoRow, Known(s)
    PROVE  Known(s)'
  <1>1. SUFFICES ASSUME Listed(shares[s])' PROVE Known(s)'
      BY DEF Known
  <1>2. Listed(shares[s]) /\ shares'[s] = shares[s]
      BY <1>1, RowStays
  <1>3. /\ ~stale => idx[s] = shares[s]
        /\ \A c \in Conn : visit[c].pc = "build" /\ shares[s].owner \notin visit[c].todo =>
             visit[c].list[s] = shares[s]
      BY <1>2 DEF Known
  <1>4. ASSUME UNCHANGED <<idx, stale>>,
               \A d \in Conn : visit'[d].pc = "build" => visit'[d] = visit[d]
        PROVE  Known(s)'
      BY <1>2, <1>3, <1>4 DEF Known
  <1>5. ASSUME UNCHANGED <<idx, stale, visit>> PROVE Known(s)'
      BY <1>4, <1>5
  <1>6. ASSUME NEW c \in Conn, UNCHANGED <<idx, stale>>, visit'[c].pc # "build",
               \A d \in Conn \ {c} : visit'[d] = visit[d]
        PROVE  Known(s)'
      BY <1>4, <1>6
  <1>7. ASSUME NEW u \in User \cup {Admin}, Invalidate(u) PROVE Known(s)'
    <2>1. \A c \in Conn : visit[c].pc # "build"
        BY <1>7, IndexConstants DEF IndexConstants, Invalidate, IInv, OneBuilder
    <2> QED
        BY <1>7, <2>1 DEF Invalidate, Known
  <1>8. ASSUME NEW c \in Conn, NEW t \in Share, VisitByToken(c, t) \/ VisitByPrefix(c, t)
        PROVE  Known(s)'
    <2>0. Ask(t) \in Visit
        BY AskType
    <2>1. visit'[c].pc # "build" /\ \A d \in Conn \ {c} : visit'[d] = visit[d]
      <3>1. CASE VisitByToken(c, t)
          BY <2>0, <3>1 DEF VisitByToken, IInv, TypeOK, Visit
      <3>2. CASE VisitByPrefix(c, t)
          BY <2>0, <3>2 DEF VisitByPrefix, IInv, TypeOK, Visit
      <3> QED
          BY <1>8, <3>1, <3>2
    <2>2. UNCHANGED <<idx, stale>>
        BY <1>8 DEF VisitByToken, VisitByPrefix, index
    <2> QED
        BY <2>1, <2>2, <1>6
  <1>9. ASSUME NEW c \in Conn, LookupFresh(c) PROVE Known(s)'
    <2>1. visit'[c].pc # "build" /\ \A d \in Conn \ {c} : visit'[d] = visit[d]
        BY <1>9, LookupType DEF LookupFresh, IInv, TypeOK
    <2>2. UNCHANGED <<idx, stale>>
        BY <1>9 DEF LookupFresh, index
    <2> QED
        BY <2>1, <2>2, <1>6
  <1>10. ASSUME NEW c \in Conn, RebuildUsers(c) PROVE Known(s)'
    <2>1. visit'[c].todo = users /\ \A d \in Conn \ {c} : visit'[d] = visit[d]
        BY <1>10 DEF RebuildUsers, IInv, TypeOK, Visit
    <2>2. UNCHANGED <<idx, stale>>
        BY <1>10 DEF RebuildUsers
    <2>3. shares[s].owner \in users
        BY <1>2 DEF Listed
    <2> QED
        BY <2>1, <2>2, <2>3, <1>2, <1>3 DEF Known
  <1>11. ASSUME NEW c \in Conn, NEW u \in User, RebuildShares(c, u) PROVE Known(s)'
    <2> DEFINE new == [r \in Share |-> IF Listed(shares[r]) /\ shares[r].owner = u
                                       THEN shares[r] ELSE visit[c].list[r]]
    <2>1. visit[c] \in Visit /\ visit[c].pc = "build" /\ u \in visit[c].todo
        BY <1>11 DEF RebuildShares, IInv, TypeOK
    <2>2. visit'[c].list = new /\ visit'[c].todo = visit[c].todo \ {u}
        BY <1>11, <2>1 DEF RebuildShares, IInv, TypeOK, Visit
    <2>3. \A d \in Conn \ {c} : visit'[d] = visit[d]
        BY <1>11 DEF RebuildShares, IInv, TypeOK
    <2>4. UNCHANGED <<idx, stale>>
        BY <1>11 DEF RebuildShares, index
    <2>5. shares[s].owner \notin visit'[c].todo => visit'[c].list[s] = shares[s]
        BY <2>1, <2>2, <1>2, <1>3
    <2> HIDE DEF new
    <2> QED
        BY <2>3, <2>4, <2>5, <1>2, <1>3 DEF Known
  <1>12. ASSUME NEW c \in Conn, RebuildDone(c) PROVE Known(s)'
    <2>1. visit[c] \in Visit /\ visit[c].pc = "build" /\ visit[c].todo = {} /\ mu = c
        BY <1>12 DEF RebuildDone, IInv, TypeOK, OneBuilder
    <2>2. visit[c].list \in [Share -> Row]
        BY <2>1 DEF Visit
    <2>3. \A d \in Conn : visit'[d].pc # "build"
        BY <1>12, <2>1, <2>2, LookupType DEF RebuildDone, IInv, TypeOK, OneBuilder
    <2>4. idx' = visit[c].list
        BY <1>12 DEF RebuildDone
    <2> QED
        BY <2>1, <2>3, <2>4, <1>2, <1>3 DEF Known
  <1>13. ASSUME NEW c \in Conn, Serve(c) \/ Done(c) PROVE Known(s)'
    <2>1. visit'[c].pc # "build" /\ \A d \in Conn \ {c} : visit'[d] = visit[d]
        BY <1>13, DataTypes DEF Serve, Done, IInv, TypeOK, Visit
    <2>2. UNCHANGED <<idx, stale>>
        BY <1>13 DEF Serve, Done, index
    <2> QED
        BY <2>1, <2>2, <1>6
  <1>14. ASSUME NEW u \in User, NEW t \in Share, Create(u, t) \/ Revoke(u, t) PROVE Known(s)'
      BY <1>5, <1>14 DEF Create, Revoke, index
  <1>15. ASSUME NEW u \in User, DeleteOwner(u) PROVE Known(s)'
      BY <1>5, <1>15 DEF DeleteOwner, index
  <1>16. CASE Tick \/ UNCHANGED vars
      BY <1>5, <1>16 DEF Tick, index, vars
  <1> QED
      BY <1>7, <1>8, <1>9, <1>10, <1>11, <1>12, <1>13, <1>14, <1>15, <1>16, FaultsStay DEF Next

\* An announcement is made with no rebuild under way, and marks the index stale.
LEMMA AnnouncedStays ==
    ASSUME IInv, [Next]_vars, faults' = 0, AnnouncedKnown
    PROVE  AnnouncedKnown'
  <1> SUFFICES ASSUME NEW s \in Share, (shares[s] # NoRow)', (~mgr[shares[s].owner])'
               PROVE  Known(s)'
      BY DEF AnnouncedKnown
  <1>1. ASSUME shares[s] # NoRow, ~mgr[shares[s].owner] PROVE Known(s)'
      BY <1>1, KnownStays DEF AnnouncedKnown
  <1>2. ASSUME NEW u \in User, NEW t \in Share, Create(u, t) \/ Revoke(u, t) PROVE Known(s)'
    <2>1. mgr'[u] /\ \A w \in User \ {u} : mgr'[w] = mgr[w]
        BY <1>2 DEF Create, Revoke, IInv, TypeOK
    <2>2. CASE Create(u, t) /\ t = s
      <3>1. shares'[s].owner = u
          BY <2>2 DEF Create, IInv, TypeOK
      <3> QED
          BY <2>1, <3>1
    <2>3. CASE ~(Create(u, t) /\ t = s)
      <3>1. shares[s] # NoRow
          BY <1>2, <2>3 DEF Create, Revoke, Listed, IInv, TypeOK
      <3>2. shares'[s].owner = shares[s].owner /\ (Listed(shares[s])' => Listed(shares[s]))
          BY <3>1, RowStays
      <3>3. CASE ~Listed(shares[s])
          BY <3>2, <3>3 DEF Known
      <3>4. CASE Listed(shares[s])
        <4>1. shares[s].owner \in User
            BY <3>4 DEF Listed, IInv, TypeOK
        <4> QED
            BY <4>1, <3>1, <3>2, <2>1, <1>1
      <3> QED
          BY <3>3, <3>4
    <2> QED
        BY <2>2, <2>3
  <1>3. ASSUME NEW u \in User \cup {Admin}, Invalidate(u) PROVE Known(s)'
    <2>1. \A c \in Conn : visit[c].pc # "build"
        BY <1>3, IndexConstants DEF IndexConstants, Invalidate, IInv, OneBuilder
    <2> QED
        BY <1>3, <2>1 DEF Invalidate, Known
  <1>4. ASSUME NEW u \in User, DeleteOwner(u) PROVE Known(s)'
    <2>1. shares' = shares /\ \A w \in User : mgr'[w] = mgr[w]
        BY <1>4, IndexConstants DEF IndexConstants, DeleteOwner, IInv, TypeOK
    <2>2. CASE Listed(shares[s])
        BY <1>1, <2>1, <2>2 DEF Listed, IInv, TypeOK
    <2>3. CASE ~Listed(shares[s])
        BY <2>1, <2>3, RowStays DEF Known
    <2> QED
        BY <2>2, <2>3
  <1>5. ASSUME UNCHANGED <<shares, mgr>> PROVE Known(s)'
      BY <1>1, <1>5
  <1>6. ASSUME NEW c \in Conn, NEW t \in Share, VisitByToken(c, t) \/ VisitByPrefix(c, t)
        PROVE  UNCHANGED <<shares, mgr>>
      BY <1>6 DEF VisitByToken, VisitByPrefix, store
  <1>7. ASSUME NEW c \in Conn, \/ LookupFresh(c) \/ RebuildUsers(c)
                                \/ RebuildDone(c) \/ Serve(c) \/ Done(c)
        PROVE  UNCHANGED <<shares, mgr>>
      BY <1>7 DEF LookupFresh, RebuildUsers, RebuildDone, Serve, Done, store
  <1>8. ASSUME NEW c \in Conn, NEW u \in User, RebuildShares(c, u) PROVE UNCHANGED <<shares, mgr>>
      BY <1>8 DEF RebuildShares, store
  <1>9. CASE Tick \/ UNCHANGED vars
      BY <1>5, <1>9 DEF Tick, store, vars
  <1> QED
      BY <1>2, <1>3, <1>4, <1>5, <1>6, <1>7, <1>8, <1>9, FaultsStay DEF Next

\* A lookup that has the share's row misses the share only once it has run out.
LEMMA LookupFinds ==
    ASSUME IInv, NEW q \in Visit, NEW map \in [Share -> Row], shares[q.share] # NoRow,
           Listed(shares[q.share]) => map[q.share] = shares[q.share],
           Lookup(q, map).pc = "missing"
    PROVE  ~Live(shares[q.share])
  <1>1. Lookup(q, map).pc = "found"
        <=> ~(map[q.share] = NoRow \/ Expired(map[q.share]))
      BY DEF Lookup, Visit
  <1> QED
      BY <1>1 DEF Live

\* What a visit that asked in time needs, of what it has become.
Relies(q) == q.pc # "idle" /\ q.open =>
    /\ shares[q.share] # NoRow /\ Known(q.share)
    /\ q.pc = "missing" => ~Live(shares[q.share])

LEMMA AskedStays ==
    ASSUME IInv, [Next]_vars, faults' = 0, AnnouncedKnown, AskedKnown
    PROVE  AskedKnown'
  <1> SUFFICES ASSUME NEW c \in Conn PROVE Relies(visit[c])'
      BY DEF AskedKnown, Relies
  <1>1. visit[c] \in Visit /\ visit[c].share \in Share /\ Relies(visit[c])
      BY DEF IInv, TypeOK, Visit, AskedKnown, Relies
  <1>2. ASSUME visit'[c].share = visit[c].share, visit'[c].open = visit[c].open,
               visit[c].pc # "idle",
               visit'[c].pc = "missing" => (visit[c].pc = "missing" \/ ~Live(shares[visit[c].share]) \/ ~visit[c].open)
        PROVE  Relies(visit[c])'
      BY <1>1, <1>2, RowStays, KnownStays DEF Relies
  <1>3. ASSUME visit'[c] = visit[c] PROVE Relies(visit[c])'
      BY <1>1, <1>2, <1>3 DEF Relies
  <1>4. ASSUME NEW d \in Conn, NEW s \in Share, VisitByToken(d, s) \/ VisitByPrefix(d, s)
        PROVE  Relies(visit[c])'
    <2>1. CASE d # c
        BY <1>3, <1>4, <2>1 DEF VisitByToken, VisitByPrefix, IInv, TypeOK
    <2>2. CASE d = c
      <3>1. Ask(s) \in Visit /\ Ask(s).share = s /\ Ask(s).open = Open(s)
          BY AskType
      <3>2. CASE VisitByToken(c, s)
        <4>1. /\ visit'[c].share = s /\ visit'[c].open = Open(s)
              /\ visit'[c].pc = "missing" => ~Live(shares[s])
            BY <3>1, <3>2 DEF VisitByToken, IInv, TypeOK, Visit
        <4>2. Open(s) => shares[s] # NoRow /\ Known(s) /\ Live(shares[s])
            BY DEF Open, Live, Listed, AnnouncedKnown
        <4> QED
            BY <4>1, <4>2, RowStays, KnownStays DEF Relies
      <3>3. CASE VisitByPrefix(c, s)
        <4>1. visit'[c].share = s /\ visit'[c].open = Open(s) /\ visit'[c].pc = "lock"
            BY <3>1, <3>3 DEF VisitByPrefix, IInv, TypeOK, Visit
        <4>2. Open(s) => shares[s] # NoRow /\ Known(s)
            BY DEF Open, Live, Listed, AnnouncedKnown
        <4> QED
            BY <4>1, <4>2, RowStays, KnownStays DEF Relies
      <3> QED
          BY <1>4, <2>2, <3>2, <3>3
    <2> QED
        BY <2>1, <2>2
  <1>5. ASSUME NEW d \in Conn, LookupFresh(d) PROVE Relies(visit[c])'
    <2>1. CASE d # c
        BY <1>3, <1>5, <2>1 DEF LookupFresh, IInv, TypeOK
    <2>2. CASE d = c
      <3>1. visit'[c] = Lookup(visit[c], idx) /\ ~stale /\ visit[c].pc = "lock"
            /\ idx \in [Share -> Row]
          BY <1>5, <2>2 DEF LookupFresh, IInv, TypeOK
      <3>2. visit'[c].share = visit[c].share /\ visit'[c].open = visit[c].open
          BY <3>1, <1>1, LookupType
      <3>3. visit'[c].pc = "missing" /\ visit[c].open => ~Live(shares[visit[c].share])
          BY <3>1, <1>1, LookupFinds DEF Relies, Known
      <3> QED
          BY <3>1, <3>2, <3>3, <1>2
    <2> QED
        BY <2>1, <2>2
  <1>6. ASSUME NEW d \in Conn, RebuildDone(d) PROVE Relies(visit[c])'
    <2>1. CASE d # c
        BY <1>3, <1>6, <2>1 DEF RebuildDone, IInv, TypeOK
    <2>2. CASE d = c
      <3>1. visit'[c] = Lookup(visit[c], visit[c].list) /\ visit[c].pc = "build"
            /\ visit[c].todo = {} /\ visit[c].list \in [Share -> Row]
          BY <1>1, <1>6, <2>2 DEF RebuildDone, IInv, TypeOK, Visit
      <3>2. visit'[c].share = visit[c].share /\ visit'[c].open = visit[c].open
          BY <3>1, <1>1, LookupType
      <3>3. visit'[c].pc = "missing" /\ visit[c].open => ~Live(shares[visit[c].share])
          BY <3>1, <1>1, LookupFinds DEF Relies, Known
      <3> QED
          BY <3>1, <3>2, <3>3, <1>2
    <2> QED
        BY <2>1, <2>2
  <1>7. ASSUME NEW d \in Conn, \/ RebuildUsers(d) \/ \E u \in User : RebuildShares(d, u)
        PROVE  Relies(visit[c])'
    <2>1. CASE d # c
        BY <1>3, <1>7, <2>1 DEF RebuildUsers, RebuildShares, IInv, TypeOK
    <2>2. CASE d = c
      <3> DEFINE Asks == /\ visit'[c].share = visit[c].share /\ visit'[c].open = visit[c].open
                         /\ visit'[c].pc = "build" /\ visit[c].pc # "idle"
      <3>1. ASSUME RebuildUsers(c) PROVE Asks
          BY <1>1, <3>1 DEF RebuildUsers, IInv, TypeOK, Visit
      <3>2. ASSUME NEW u \in User, RebuildShares(c, u) PROVE Asks
        <4> DEFINE new == [s \in Share |-> IF Listed(shares[s]) /\ shares[s].owner = u
                                           THEN shares[s] ELSE visit[c].list[s]]
                   q == [visit[c] EXCEPT !.todo = visit[c].todo \ {u}, !.list = new]
        <4>1. visit' = [visit EXCEPT ![c] = q] /\ visit[c].pc = "build"
            BY <3>2 DEF RebuildShares
        <4>2. q.share = visit[c].share /\ q.open = visit[c].open /\ q.pc = "build"
            BY <4>1, <1>1 DEF Visit
        <4>3. visit'[c] = q
            BY <4>1 DEF IInv, TypeOK
        <4> QED
            BY <4>1, <4>2, <4>3
      <3>3. Asks
          BY <3>1, <3>2, <1>7, <2>2
      <3> QED
          BY <3>3, <1>2
    <2> QED
        BY <2>1, <2>2
  <1>8. ASSUME NEW d \in Conn, Serve(d) \/ Done(d) PROVE Relies(visit[c])'
    <2>1. CASE d # c
        BY <1>3, <1>8, <2>1 DEF Serve, Done, IInv, TypeOK
    <2>2. CASE d = c /\ visit'[c] = NoVisit
        BY <2>2, DataTypes DEF Relies
    <2>3. CASE d = c /\ visit'[c] # NoVisit
      <3>1. visit'[c] = [visit[c] EXCEPT !.pc = "served"] /\ visit[c].pc = "found"
          BY <1>8, <2>3 DEF Serve, Done, IInv, TypeOK
      <3>2. /\ visit'[c].share = visit[c].share /\ visit'[c].open = visit[c].open
            /\ visit'[c].pc = "served"
          BY <3>1, <1>1 DEF Visit
      <3> QED
          BY <3>1, <3>2, <1>2
    <2> QED
        BY <2>1, <2>2, <2>3
  <1>9. ASSUME NEW u \in User, NEW t \in Share, Create(u, t) \/ Revoke(u, t)
        PROVE  Relies(visit[c])'
      BY <1>3, <1>9 DEF Create, Revoke
  <1>10. ASSUME NEW u \in User, DeleteOwner(u) PROVE Relies(visit[c])'
      BY <1>3, <1>10 DEF DeleteOwner
  <1>11. ASSUME NEW u \in User \cup {Admin}, Invalidate(u) PROVE Relies(visit[c])'
      BY <1>3, <1>11 DEF Invalidate
  <1>12. CASE Tick \/ UNCHANGED vars
      BY <1>3, <1>12 DEF Tick, vars
  <1> QED
      BY <1>4, <1>5, <1>6, <1>7, <1>8, <1>9, <1>10, <1>11, <1>12, FaultsStay DEF Next

\* A visit that comes after the creation of a share was answered finds it as long
\* as it is live, by token and by prefix, whichever visit rebuilt the index, from
\* a listing begun before or after, and whatever other shares change meanwhile.
THEOREM SharesAreFound == Spec => []LiveShareFound
  <1>1. Init => Findable
      BY DataTypes DEF Init, Findable, AnnouncedKnown, AskedKnown, Empty
  <1>2. IInv /\ Findable /\ [Next]_vars => Findable'
      BY AnnouncedStays, AskedStays, FaultsStay DEF Findable
  <1>3. Findable => LiveShareFound
      BY DEF Findable, AskedKnown, LiveShareFound
  <1> QED
      BY <1>1, <1>2, <1>3, InitIInv, StepKeeps, PTL DEF Spec
=============================================================================
