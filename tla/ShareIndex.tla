------------------------------- MODULE ShareIndex -------------------------------
(***************************************************************************)
(* How a visit finds its share (internal/api/shares.go): the shares table, *)
(* and the in-memory index of token prefixes that answers short URLs.      *)
(*                                                                         *)
(* An owner's own requests run one at a time, an administrator may delete  *)
(* the owner meanwhile, and anonymous visits take no lock but shareMu,     *)
(* which covers the index and its rebuild but no write to the table.  A    *)
(* visit is cut at every query and wherever it takes or leaves the lock.   *)
(* What happens to a visit that found its share is in ShareGates.          *)
(***************************************************************************)
EXTENDS Naturals

CONSTANTS
    User,      \* owners
    Share,     \* capability tokens, with distinct prefixes of 16 characters
    Conn,      \* requests that may be in flight at once
    Admin,     \* the administrator who deletes owners
    NoConn, NoUser,
    MaxTime, MaxFaults   \* bounds

ASSUME IndexConstants ==
    /\ MaxTime \in Nat \ {0} /\ MaxFaults \in Nat
    /\ Share # {} /\ NoConn \notin Conn /\ NoUser \notin User /\ Admin \notin User

VARIABLES
    users,     \* owners whose account exists
    shares,    \* the shares table, with the rows whose owner was deleted
    idx,       \* shareIdx: what each prefix resolves to, NoRow if nothing
    stale,     \* shareIdxStale
    mu,        \* who holds shareMu across a rebuild
    visit,     \* the visits in flight
    mgr,       \* owner or administrator |-> whether their change is yet to reach the index
    now,
    faults     \* restarts and failed queries so far

vars == <<users, shares, idx, stale, mu, visit, mgr, now, faults>>
store == <<users, shares>>
index == <<idx, stale, mu>>

-----------------------------------------------------------------------------
\* expires = 0 for a share without expiry; only `revoked` ever changes.
Row   == [owner : User \cup {NoUser}, expires : 0..MaxTime + 1, revoked : BOOLEAN]
NoRow == [owner |-> NoUser, expires |-> 0, revoked |-> FALSE]

\* A visit: the share it asks for, the row it resolved to, the listing it is
\* rebuilding the index from, and (not in the code) whether it came after the
\* share was shut for good, or while it was open, and whether its own rebuild
\* failed.
Visit == [pc    : {"idle", "lock", "build", "found", "served", "missing"},
          share : Share,
          row   : Row,
          todo  : SUBSET User, list : [Share -> Row],
          late  : BOOLEAN, open : BOOLEAN, blind : BOOLEAN]

Empty == [s \in Share |-> NoRow]
NoVisit == [pc |-> "idle", share |-> CHOOSE s \in Share : TRUE, row |-> NoRow,
            todo |-> {}, list |-> Empty, late |-> FALSE, open |-> FALSE, blind |-> FALSE]

Expired(r) == r.expires # 0 /\ now >= r.expires

\* A row is in the table while its owner is (ON DELETE CASCADE).
Listed(r) == r # NoRow /\ r.owner \in users /\ ~r.revoked
Live(r)   == Listed(r) /\ ~Expired(r)

\* The share exists and is (not) to be had, and no change is still on its way to the index.
Shut(s) == shares[s] # NoRow /\ ~Live(shares[s]) /\ \A u \in User \cup {Admin} : ~mgr[u]
Open(s) == Live(shares[s]) /\ ~mgr[shares[s].owner]

-----------------------------------------------------------------------------
(* Faulty variants of definitions below, which no specification uses.        *)

\* The index is not told of a new share.
CreateUnannounced(u, s) ==
    /\ u \in users /\ ~mgr[u] /\ shares[s] = NoRow
    /\ \E expires \in {0, now + 1} :
         shares' = [shares EXCEPT ![s] = [owner |-> u, expires |-> expires, revoked |-> FALSE]]
    /\ UNCHANGED <<users, index, visit, mgr, now, faults>>

\* The lifetime is added to the time twice.
CreateExpiryTwice(u, s) ==
    /\ u \in users /\ ~mgr[u] /\ shares[s] = NoRow
    /\ \E expires \in {0, now + now + 1} :
         shares' = [shares EXCEPT ![s] = [owner |-> u, expires |-> expires, revoked |-> FALSE]]
    /\ mgr' = [mgr EXCEPT ![u] = TRUE]
    /\ UNCHANGED <<users, index, visit, now, faults>>

\* The flag is set without shareMu.
InvalidateUnlocked(u) ==
    /\ mgr[u]
    /\ stale' = TRUE
    /\ mgr' = [mgr EXCEPT ![u] = FALSE]
    /\ UNCHANGED <<store, idx, mu, visit, now, faults>>

\* A rebuild starts from the old index instead of an empty one.
RebuildUsersFromIndex(c) ==
    /\ visit[c].pc = "lock" /\ mu = NoConn /\ stale
    /\ mu' = c
    /\ visit' = [visit EXCEPT ![c].pc = "build", ![c].todo = users, ![c].list = idx]
    /\ UNCHANGED <<store, idx, stale, mgr, now, faults>>

\* The old index is used and shareMu is not given back.
RebuildFailsLocked(c) ==
    /\ visit[c].pc = "lock" /\ mu = NoConn /\ stale
    /\ faults < MaxFaults
    /\ faults' = faults + 1 /\ mu' = c
    /\ visit' = [visit EXCEPT ![c] = NoVisit]
    /\ UNCHANGED <<store, idx, stale, mgr, now>>

-----------------------------------------------------------------------------
Init ==
    /\ users = User
    /\ shares = Empty
    /\ idx = Empty /\ stale = TRUE /\ mu = NoConn
    /\ visit = [c \in Conn |-> NoVisit]
    /\ mgr = [u \in User \cup {Admin} |-> FALSE]
    /\ now = 1 /\ faults = 0

-----------------------------------------------------------------------------
(* The owner and the administrator                                           *)

\* handleShareCreate: the INSERT, then the announcement.
Create(u, s) ==
    /\ u \in users /\ ~mgr[u] /\ shares[s] = NoRow
    /\ \E expires \in {0, now + 1} :
         shares' = [shares EXCEPT ![s] = [owner |-> u, expires |-> expires, revoked |-> FALSE]]
    /\ mgr' = [mgr EXCEPT ![u] = TRUE]
    /\ UNCHANGED <<users, index, visit, now, faults>>

\* handleShareRevoke: the share is among the owner's, then the UPDATE.
Revoke(u, s) ==
    /\ ~mgr[u] /\ Listed(shares[s]) /\ shares[s].owner = u
    /\ shares' = [shares EXCEPT ![s].revoked = TRUE]
    /\ mgr' = [mgr EXCEPT ![u] = TRUE]
    /\ UNCHANGED <<users, index, visit, now, faults>>

\* handleAdminDeleteUser, from the deletion of the row on.
DeleteOwner(u) ==
    /\ u \in users /\ ~mgr[Admin]
    /\ users' = users \ {u}
    /\ mgr' = [mgr EXCEPT ![Admin] = TRUE]
    /\ UNCHANGED <<shares, index, visit, now, faults>>

\* invalidateShareIndex waits for a rebuild under way.
Invalidate(u) ==
    /\ mgr[u] /\ mu = NoConn
    /\ stale' = TRUE
    /\ mgr' = [mgr EXCEPT ![u] = FALSE]
    /\ UNCHANGED <<store, idx, mu, visit, now, faults>>

-----------------------------------------------------------------------------
(* A visit (resolveShare)                                                    *)

Ask(s) == [NoVisit EXCEPT !.share = s, !.late = Shut(s), !.open = Open(s)]

\* By its full token: ShareByToken asks the table.
VisitByToken(c, s) ==
    /\ visit[c].pc = "idle"
    /\ visit' = [visit EXCEPT ![c] =
         IF Live(shares[s]) THEN [Ask(s) EXCEPT !.pc = "found", !.row = shares[s]]
         ELSE [Ask(s) EXCEPT !.pc = "missing"]]
    /\ UNCHANGED <<store, index, mgr, now, faults>>

\* By its prefix: shareByPrefix asks the index ...
VisitByPrefix(c, s) ==
    /\ visit[c].pc = "idle"
    /\ visit' = [visit EXCEPT ![c] = [Ask(s) EXCEPT !.pc = "lock"]]
    /\ UNCHANGED <<store, index, mgr, now, faults>>

\* ... whose answer is checked for expiry again.
Lookup(q, map) ==
    IF map[q.share] = NoRow \/ Expired(map[q.share])
    THEN [q EXCEPT !.pc = "missing", !.list = Empty]
    ELSE [q EXCEPT !.pc = "found", !.list = Empty, !.row = map[q.share]]

LookupFresh(c) ==
    /\ visit[c].pc = "lock" /\ mu = NoConn /\ ~stale
    /\ visit' = [visit EXCEPT ![c] = Lookup(@, idx)]
    /\ UNCHANGED <<store, index, mgr, now, faults>>

\* A stale index is rebuilt under shareMu: ListUsers ...
RebuildUsers(c) ==
    /\ visit[c].pc = "lock" /\ mu = NoConn /\ stale
    /\ mu' = c
    /\ visit' = [visit EXCEPT ![c].pc = "build", ![c].todo = users]
    /\ UNCHANGED <<store, idx, stale, mgr, now, faults>>

\* ... which may fail, and the old index is used ...
RebuildFails(c) ==
    /\ visit[c].pc = "lock" /\ mu = NoConn /\ stale
    /\ faults < MaxFaults
    /\ faults' = faults + 1
    /\ visit' = [visit EXCEPT ![c] = Lookup([@ EXCEPT !.blind = TRUE], idx)]
    /\ UNCHANGED <<store, index, mgr, now>>

\* ... ListShares of each user ...
RebuildShares(c, u) ==
    /\ visit[c].pc = "build" /\ u \in visit[c].todo
    /\ visit' = [visit EXCEPT
         ![c].todo = @ \ {u},
         ![c].list = [s \in Share |-> IF Listed(shares[s]) /\ shares[s].owner = u
                                      THEN shares[s] ELSE @[s]]]
    /\ UNCHANGED <<store, index, mgr, now, faults>>

\* ... a user whose query fails is left out ...
RebuildSkips(c, u) ==
    /\ visit[c].pc = "build" /\ u \in visit[c].todo
    /\ faults < MaxFaults
    /\ faults' = faults + 1
    /\ visit' = [visit EXCEPT ![c].todo = @ \ {u}]
    /\ UNCHANGED <<store, index, mgr, now>>

\* ... and the new index answers.
RebuildDone(c) ==
    /\ visit[c].pc = "build" /\ visit[c].todo = {}
    /\ idx' = visit[c].list /\ stale' = FALSE /\ mu' = NoConn
    /\ visit' = [visit EXCEPT ![c] = Lookup(@, visit[c].list)]
    /\ UNCHANGED <<store, mgr, now, faults>>

\* UserByID finds the owner, and the content goes out.
Serve(c) ==
    /\ visit[c].pc = "found"
    /\ visit' = [visit EXCEPT ![c] = IF @.row.owner \in users THEN [@ EXCEPT !.pc = "served"]
                                     ELSE NoVisit]
    /\ UNCHANGED <<store, index, mgr, now, faults>>

Done(c) ==
    /\ visit[c].pc \in {"served", "missing"}
    /\ visit' = [visit EXCEPT ![c] = NoVisit]
    /\ UNCHANGED <<store, index, mgr, now, faults>>

-----------------------------------------------------------------------------
Tick ==
    /\ now < MaxTime
    /\ now' = now + 1
    /\ UNCHANGED <<store, index, visit, mgr, faults>>

\* The process dies and is started again: all but the table is gone.
Restart ==
    /\ faults < MaxFaults
    /\ faults' = faults + 1
    /\ idx' = Empty /\ stale' = TRUE /\ mu' = NoConn
    /\ visit' = [c \in Conn |-> NoVisit]
    /\ mgr' = [u \in User \cup {Admin} |-> FALSE]
    /\ UNCHANGED <<store, now>>

Next ==
    \/ \E u \in User, s \in Share : Create(u, s) \/ Revoke(u, s)
    \/ \E u \in User : DeleteOwner(u)
    \/ \E u \in User \cup {Admin} : Invalidate(u)
    \/ \E c \in Conn, s \in Share : VisitByToken(c, s) \/ VisitByPrefix(c, s)
    \/ \E c \in Conn : \/ LookupFresh(c) \/ RebuildUsers(c) \/ RebuildFails(c)
                       \/ RebuildDone(c) \/ Serve(c) \/ Done(c)
    \/ \E c \in Conn, u \in User : RebuildShares(c, u) \/ RebuildSkips(c, u)
    \/ Tick \/ Restart

Spec == Init /\ [][Next]_vars

\* A request that has started goes on, and a mutex passes to whoever waits for it.
FairSpec ==
    /\ Spec
    /\ \A c \in Conn :
         /\ SF_vars(LookupFresh(c) \/ RebuildUsers(c))
         /\ WF_vars(RebuildDone(c) \/ Serve(c) \/ Done(c) \/ \E u \in User : RebuildShares(c, u))
    /\ \A u \in User \cup {Admin} : SF_vars(Invalidate(u))

-----------------------------------------------------------------------------
(* Properties                                                                *)

TypeOK ==
    /\ users \in SUBSET User /\ shares \in [Share -> Row]
    /\ idx \in [Share -> Row] /\ stale \in BOOLEAN /\ mu \in Conn \cup {NoConn}
    /\ visit \in [Conn -> Visit]
    /\ mgr \in [User \cup {Admin} -> BOOLEAN]
    /\ now \in 1..MaxTime /\ faults \in 0..MaxFaults

\* "So revoked/expired shares never resolve": whoever asks after a share expired,
\* or after its revocation or its owner's deletion was answered, is not served,
\* whatever index a rebuild under way at the time leaves behind.  Only a request
\* whose own rebuild failed goes by the old index.
ServedWasLive ==
    \A c \in Conn : visit[c].pc = "served" /\ visit[c].late => visit[c].blind

\* A share whose creation was answered before a visit, and that is live when the
\* visit ends, is found, by its token and by its prefix, whoever rebuilt the index
\* and from whichever listing.
LiveShareFound ==
    \A c \in Conn :
        faults = 0 /\ visit[c].pc = "missing" /\ visit[c].open => ~Live(shares[visit[c].share])

\* An index that is not marked stale agrees with the table, but for changes that
\* are yet to be announced: no rebuild from an old listing passes for a fresh one.
FreshIndexAgrees ==
    \A s \in Share :
        faults = 0 /\ (\A u \in User \cup {Admin} : ~mgr[u]) /\ ~stale =>
            idx[s] = IF Listed(shares[s]) THEN shares[s] ELSE NoRow

\* No visit and no owner's request waits for shareMu for ever, however often other
\* requests make the index stale and other visits rebuild it.
EveryoneAnswered ==
    /\ \A c \in Conn : visit[c].pc # "idle" ~> visit[c].pc = "idle"
    /\ \A u \in User \cup {Admin} : mgr[u] ~> ~mgr[u]
=============================================================================
