------------------------------- MODULE ShareGates -------------------------------
(***************************************************************************)
(* What lets a visitor into a share with a password (internal/api/shares.go *)
(* and the limiter of server.go): grants, bound to a cookie, with a         *)
(* lifetime and a cap on their number; and the count of wrong guesses.      *)
(*                                                                         *)
(* Requests here have found their share (ShareIndex).  pubMu and rateMu     *)
(* cover one call each, so a request that checks the limiter, verifies the  *)
(* password and counts the failure does so in three steps.                  *)
(***************************************************************************)
EXTENDS Naturals, FiniteSets

CONSTANTS
    Share,     \* the shares
    Visitor,   \* client addresses, each with a cookie jar
    Conn,      \* requests that may be in flight at once
    NoVisitor, NoShare,
    Cap,       \* pubGrantMaxEnts (1024)
    TTL,       \* shareGrantTTL (24 hours)
    Limit,     \* failures before the limiter refuses (10)
    Window,    \* the limiter's window (15 minutes)
    MaxTime, MaxGrant, MaxRestart   \* bounds

ASSUME GateConstants ==
    /\ Cap \in Nat \ {0} /\ TTL \in Nat \ {0} /\ Limit \in Nat \ {0} /\ Window \in Nat
    /\ MaxTime \in Nat \ {0} /\ MaxGrant \in Nat /\ MaxRestart \in Nat
    /\ IsFiniteSet(Conn) /\ NoVisitor \notin Visitor /\ NoShare \notin Share

VARIABLES
    locked,    \* the shares with a password, which never changes
    grants,    \* pubGr
    cookie,    \* the grant in each visitor's cookie for a share, 0 if none
    rate,      \* the limiter's buckets, per visitor and share
    req,       \* the requests in flight
    now,
    restarts,
    drawn,     \* grants drawn so far
    issued     \* every grant issued since the server started (not in the code)

vars == <<locked, grants, cookie, rate, req, now, restarts, drawn, issued>>

-----------------------------------------------------------------------------
\* `id` stands for the random value of a grant.
Grant == [id : 1..MaxGrant, share : Share, who : Visitor, exp : 1..MaxTime + TTL]

NoBucket == [failures |-> 0, window |-> 0]

Request == [pc  : {"idle", "limit", "verify", "wrong"},
            who : Visitor \cup {NoVisitor}, share : Share \cup {NoShare}]
NoRequest == [pc |-> "idle", who |-> NoVisitor, share |-> NoShare]

\* The limiter's window is over.
Past(b) == now - b.window > Window

-----------------------------------------------------------------------------
(* Faulty variants of definitions below, which no specification uses.        *)

\* A cookie is good for as long as its grant is in the map.
HeldForever(v, s) == {g \in grants : g.id = cookie[v][s] /\ g.share = s}

\* The cap takes the newest grants.
CappedNewestFirst(G) ==
    {K \in SUBSET G : /\ Cardinality(K) = IF Cardinality(G) > Cap THEN Cap ELSE Cardinality(G)
                      /\ \A g \in G \ K, k \in K : g.exp >= k.exp}

\* The check is off by one.
AllowedOneMore(b) == Past(b) \/ b.failures <= Limit

\* A bucket keeps the end of its window instead of its start.
LoginFailedUntil(c) ==
    LET q == req[c]
        b == rate[q.who][q.share]
    IN /\ q.pc = "wrong"
       /\ rate' = [rate EXCEPT ![q.who][q.share] =
                     IF b = NoBucket \/ Past(b) THEN [failures |-> 1, window |-> now + Window]
                     ELSE [b EXCEPT !.failures = b.failures + 1]]
       /\ req' = [req EXCEPT ![c] = NoRequest]
       /\ UNCHANGED <<locked, grants, cookie, issued, drawn, now, restarts>>

-----------------------------------------------------------------------------
Init ==
    /\ locked \in SUBSET Share
    /\ grants = {} /\ issued = {} /\ drawn = 0
    /\ cookie = [v \in Visitor |-> [s \in Share |-> 0]]
    /\ rate = [v \in Visitor |-> [s \in Share |-> NoBucket]]
    /\ req = [c \in Conn |-> NoRequest]
    /\ now = 1 /\ restarts = 0

-----------------------------------------------------------------------------
(* Opening a share: guardShare, guardSharePage and hasGrant                  *)

Held(v, s) == {g \in grants : g.id = cookie[v][s] /\ g.share = s /\ now <= g.exp}

Admits(v, s) == s \in locked => Held(v, s) # {}

\* A grant that hasGrant finds expired is dropped.  What is served when the
\* visitor is admitted changes nothing here.
Open(v, s) ==
    /\ s \in locked
    /\ grants' = {g \in grants : g.id = cookie[v][s] => now <= g.exp}
    /\ grants' # grants
    /\ UNCHANGED <<locked, cookie, rate, req, now, restarts, drawn, issued>>

-----------------------------------------------------------------------------
(* Unlocking it (handlePublicPassword)                                       *)

Allowed(b) == Past(b) \/ b.failures < Limit

Ask(c, v, s) ==
    /\ req[c].pc = "idle"
    /\ req' = [req EXCEPT ![c] = [pc |-> "limit", who |-> v, share |-> s]]
    /\ UNCHANGED <<locked, grants, cookie, rate, now, restarts, drawn, issued>>

\* loginAllowed, which drops a bucket whose window is over.
LimitCheck(c) ==
    LET q == req[c]
        b == rate[q.who][q.share]
    IN /\ q.pc = "limit"
       /\ rate' = [rate EXCEPT ![q.who][q.share] = IF Past(b) THEN NoBucket ELSE b]
       /\ req' = [req EXCEPT ![c] = IF Allowed(b) THEN [q EXCEPT !.pc = "verify"] ELSE NoRequest]
       /\ UNCHANGED <<locked, grants, cookie, now, restarts, drawn, issued>>

\* sweepGrantsLocked and capGrantsLocked: among equals, map order decides.
Swept(G) == {g \in G : g.exp > now}
Capped(G) ==
    {K \in SUBSET G : /\ Cardinality(K) = IF Cardinality(G) > Cap THEN Cap ELSE Cardinality(G)
                      /\ \A g \in G \ K, k \in K : g.exp <= k.exp}

\* The password matches, or the share has none: issueGrant.
Unlock(c) ==
    LET q == req[c]
        g == [id |-> drawn + 1, share |-> q.share, who |-> q.who, exp |-> now + TTL]
    IN /\ q.pc = "verify" /\ drawn < MaxGrant
       /\ grants' \in Capped(Swept(grants \cup {g}))
       /\ issued' = issued \cup {g} /\ drawn' = drawn + 1
       /\ cookie' = [cookie EXCEPT ![q.who][q.share] = drawn + 1]
       /\ req' = [req EXCEPT ![c] = NoRequest]
       /\ UNCHANGED <<locked, rate, now, restarts>>

\* It does not; the failure is counted later.
WrongPassword(c) ==
    /\ req[c].pc = "verify" /\ req[c].share \in locked
    /\ req' = [req EXCEPT ![c].pc = "wrong"]
    /\ UNCHANGED <<locked, grants, cookie, rate, now, restarts, drawn, issued>>

LoginFailed(c) ==
    LET q == req[c]
        b == rate[q.who][q.share]
    IN /\ q.pc = "wrong"
       /\ rate' = [rate EXCEPT ![q.who][q.share] =
                     IF b = NoBucket \/ Past(b) THEN [failures |-> 1, window |-> now]
                     ELSE [b EXCEPT !.failures = b.failures + 1]]
       /\ req' = [req EXCEPT ![c] = NoRequest]
       /\ UNCHANGED <<locked, grants, cookie, now, restarts, drawn, issued>>

-----------------------------------------------------------------------------
\* The janitor's SweepShareGrants.
Sweep ==
    /\ Swept(grants) # grants
    /\ grants' = Swept(grants)
    /\ UNCHANGED <<locked, cookie, rate, req, now, restarts, drawn, issued>>

Tick ==
    /\ now < MaxTime
    /\ now' = now + 1
    /\ UNCHANGED <<locked, grants, cookie, rate, req, restarts, drawn, issued>>

\* The process dies and is started again: visitors keep their cookies.
Restart ==
    /\ restarts < MaxRestart
    /\ restarts' = restarts + 1
    /\ grants' = {} /\ issued' = {}
    /\ rate' = [v \in Visitor |-> [s \in Share |-> NoBucket]]
    /\ req' = [c \in Conn |-> NoRequest]
    /\ UNCHANGED <<locked, cookie, drawn, now>>

Next ==
    \/ \E v \in Visitor, s \in Share : Open(v, s)
    \/ \E c \in Conn, v \in Visitor, s \in Share : Ask(c, v, s)
    \/ \E c \in Conn : LimitCheck(c) \/ Unlock(c) \/ WrongPassword(c) \/ LoginFailed(c)
    \/ Sweep \/ Tick \/ Restart

Spec == Init /\ [][Next]_vars

-----------------------------------------------------------------------------
(* Properties                                                                *)

TypeOK ==
    /\ locked \in SUBSET Share
    /\ grants \in SUBSET Grant /\ issued \in SUBSET Grant /\ drawn \in 0..MaxGrant
    /\ cookie \in [Visitor -> [Share -> 0..MaxGrant]]
    /\ rate \in [Visitor -> [Share -> [failures : Nat, window : 0..MaxTime]]]
    /\ req \in [Conn -> Request]
    /\ now \in 1..MaxTime /\ restarts \in 0..MaxRestart

\* A share with a password admits only a visitor who gave it, for that share, to
\* this process, no longer ago than a grant lasts.
AdmitsHolders ==
    \A v \in Visitor, s \in locked :
        Admits(v, s) => \E g \in issued : g.who = v /\ g.share = s /\ now <= g.exp

\* The grants never outgrow the cap, and neither the cap nor a sweep takes a
\* grant that has not run out while fewer than Cap others last as long.
EntitledKept ==
    /\ Cardinality(grants) <= Cap
    /\ \A g \in issued :
         now < g.exp /\ Cardinality({h \in issued \ {g} : h.exp >= g.exp}) < Cap => g \in grants

\* However requests overlap, a client has at most Limit - 1 wrong guesses at a
\* share in a window, and one more for every request it had in flight at once.
GuessesBounded ==
    \A v \in Visitor, s \in Share : rate[v][s].failures < Limit + Cardinality(Conn)
=============================================================================
