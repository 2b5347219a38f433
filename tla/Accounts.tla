-------------------------------- MODULE Accounts --------------------------------
(***************************************************************************)
(* Accounts, sessions and the administrator: the users and sessions tables  *)
(* of internal/store/store.go, authentication and the per-user lock of       *)
(* internal/api/server.go, the auth and admin handlers of handlers.go, and   *)
(* estate identities, whose account is made when they are first seen.        *)
(*                                                                         *)
(* A request is cut at its SQL statements and at the removal of a user's     *)
(* files.  The lock a mutation takes is that of the user who ACTS, so an     *)
(* administrator's changes to an account interleave with the account's own   *)
(* requests.  The database holds one statement at a time.                    *)
(***************************************************************************)
EXTENDS Naturals, FiniteSets

CONSTANTS
    Root,      \* the administrator's name, from bootstrapAdmin
    Name,      \* the names an administrator gives
    Shadow,    \* the name of the estate identity's account, "fabric_<id>"
    Deputy,    \* the names made with isAdmin
    Keeper,    \* the names whose files are followed, a bound
    Conn,      \* requests that may be in flight at once
    NoUser, NoSession, NoName,
    TTL,       \* the lifetime of a session, in the clock's ticks
    EstateExp, \* when the estate token runs out
    MaxUid, MaxSession, MaxTime   \* bounds

ASSUME AccountConstants ==
    /\ Root \notin Name \cup {Shadow} /\ Shadow \notin Name /\ Deputy \subseteq Name
    /\ Keeper \subseteq Name \cup {Root, Shadow}
    /\ NoName \notin Name \cup {Root, Shadow}
    /\ TTL \in Nat \ {0} /\ EstateExp \in Nat
    /\ MaxUid \in Nat \ {0} /\ MaxSession \in Nat /\ MaxTime \in Nat \ {0}

VARIABLES
    users,     \* the users table
    sessions,  \* the sessions table, by token
    home,      \* whose files lie under files/, trash/ and versions/<name>
    req,       \* the requests in flight
    ids, drawn,\* uids and tokens used so far; neither is used twice
    now

vars == <<users, sessions, home, req, ids, drawn, now>>

-----------------------------------------------------------------------------
Names == Name \cup {Root, Shadow}
Uid   == 1..MaxUid
Token == 1..MaxSession

\* `usable`: a password can match the hash, as none does the "!" of a shadow.
Account == [uid : Uid, name : Names, admin : BOOLEAN, disabled : BOOLEAN,
            usable : BOOLEAN, estate : BOOLEAN]
NobodyYet == [uid |-> 0, name |-> NoName, admin |-> FALSE, disabled |-> FALSE,
              usable |-> FALSE, estate |-> FALSE]
Session == [uid : Uid, exp : 1..MaxTime + TTL]

ASSUME NoRow == NoUser \notin Account /\ NoSession \notin Session

\* A session gives no more of its user than the id.
Reader == [uid : 0..MaxUid, name : Names \cup {NoName}, admin : BOOLEAN,
           disabled : BOOLEAN, usable : BOOLEAN, estate : BOOLEAN]

\* `user` is the row as it was read, `tok` and `exp` the session, `target` the
\* account an administrator acts on, `left` the sessions still to revoke.
Holding == {"locked", "sweep", "revoke", "files", "row"}
Request == [pc : {"idle", "read", "in", "session", "shadow", "made", "again"} \cup Holding,
            user : Reader, tok : 0..MaxSession, exp : 0..MaxTime + TTL,
            target : Account \cup {NobodyYet}, left : SUBSET Token]
Idle == [pc |-> "idle", user |-> NobodyYet, tok |-> 0, exp |-> 0,
         target |-> NobodyYet, left |-> {}]

Present == {u \in Uid : users[u] # NoUser}
Named(n) == {u \in Present : users[u].name = n}
Of(u) == {t \in Token : sessions[t] # NoSession /\ sessions[t].uid = u}
Closed(T) == [t \in Token |-> IF t \in T THEN NoSession ELSE sessions[t]]

End(c) == req' = [req EXCEPT ![c] = Idle]

-----------------------------------------------------------------------------
(* Faulty variants of definitions below, which no specification uses.        *)

\* The throttle asks for a whole lifetime instead of half of one.
DueTooLate(e) == now + TTL > e + TTL

\* Sliding a session writes its row, whether it is still there or not.
EnterUpserting(c) ==
    LET q == req[c]
    IN /\ q.pc = "read"
       /\ IF q.user.uid \in Present /\ ~users[q.user.uid].disabled
          THEN /\ req' = [req EXCEPT ![c].pc = "in", ![c].exp = 0, ![c].user = users[q.user.uid]]
               /\ sessions' = IF now + TTL > q.exp + TTL \div 2
                              THEN [sessions EXCEPT ![q.tok] = [uid |-> q.user.uid, exp |-> now + TTL]]
                              ELSE sessions
          ELSE End(c) /\ UNCHANGED sessions
       /\ UNCHANGED <<users, home, ids, drawn, now>>

\* Mutations do not wait for one another.
LockIgnored(c) ==
    /\ req[c].pc = "in"
    /\ req' = [req EXCEPT ![c].pc = "locked"]
    /\ UNCHANGED <<users, sessions, home, ids, drawn, now>>

\* Deleting an account leaves its sessions.
DeleteUserNoCascade(c) ==
    LET q == req[c]
    IN /\ q.pc = "row"
       /\ users' = [users EXCEPT ![q.target.uid] = NoUser]
       /\ End(c) /\ UNCHANGED <<sessions, home, ids, drawn, now>>

-----------------------------------------------------------------------------
\* bootstrapAdmin, on an empty table.
Init ==
    /\ users = [u \in Uid |-> IF u = 1 THEN [uid |-> 1, name |-> Root, admin |-> TRUE,
                                             disabled |-> FALSE, usable |-> TRUE, estate |-> FALSE]
                              ELSE NoUser]
    /\ sessions = [t \in Token |-> NoSession]
    /\ home = [n \in Names |-> {}]
    /\ req = [c \in Conn |-> Idle]
    /\ ids = 1 /\ drawn = 0 /\ now = 1

-----------------------------------------------------------------------------
(* A session presented: Store.Session, in authenticate                       *)

Lapse(t) ==
    /\ sessions[t] # NoSession /\ now >= sessions[t].exp
    /\ sessions' = Closed({t})
    /\ UNCHANGED <<users, home, req, ids, drawn, now>>

Read(c, t) ==
    /\ req[c].pc = "idle"
    /\ sessions[t] # NoSession /\ now < sessions[t].exp
    /\ req' = [req EXCEPT ![c] = [Idle EXCEPT !.pc = "read", !.tok = t, !.exp = sessions[t].exp,
                                              !.user.uid = sessions[t].uid]]
    /\ UNCHANGED <<users, sessions, home, ids, drawn, now>>

\* The session is worth sliding.
Due(e) == now + TTL > e + TTL \div 2

Enter(c) ==
    LET q == req[c]
    IN /\ q.pc = "read"
       /\ IF q.user.uid \in Present /\ ~users[q.user.uid].disabled
          THEN /\ req' = [req EXCEPT ![c].pc = "in", ![c].exp = 0, ![c].user = users[q.user.uid]]
               /\ sessions' = IF Due(q.exp) /\ sessions[q.tok] # NoSession
                              THEN [sessions EXCEPT ![q.tok].exp = now + TTL]
                              ELSE sessions
          ELSE End(c) /\ UNCHANGED sessions
       /\ UNCHANGED <<users, home, ids, drawn, now>>

\* A request that only reads.
Answer(c) ==
    /\ req[c].pc = "in"
    /\ End(c) /\ UNCHANGED <<users, sessions, home, ids, drawn, now>>

\* A mutation waits for the others of the same user.
Lock(c) ==
    /\ req[c].pc = "in"
    /\ \A d \in Conn : req[d].pc \in Holding => req[d].user.name # req[c].user.name
    /\ req' = [req EXCEPT ![c].pc = "locked"]
    /\ UNCHANGED <<users, sessions, home, ids, drawn, now>>

-----------------------------------------------------------------------------
(* Logging in                                                               *)

\* handleLogin up to the verified password.
Login(c, n) ==
    /\ req[c].pc = "idle"
    /\ \E u \in Named(n) : /\ users[u].usable /\ ~users[u].disabled
                           /\ req' = [req EXCEPT ![c] = [Idle EXCEPT !.pc = "session", !.user = users[u]]]
    /\ UNCHANGED <<users, sessions, home, ids, drawn, now>>

\* The row is refused when its account is gone.
CreateSession(c) ==
    LET u == req[c].user.uid
    IN /\ req[c].pc = "session"
       /\ IF u \in Present
          THEN /\ drawn < MaxSession /\ drawn' = drawn + 1
               /\ sessions' = [sessions EXCEPT ![drawn + 1] = [uid |-> u, exp |-> now + TTL]]
          ELSE UNCHANGED <<sessions, drawn>>
       /\ End(c) /\ UNCHANGED <<users, home, ids, now>>

Estate == {u \in Present : users[u].estate}

\* GetOrCreateFabricUser has found the account: handleFabricLogin goes on to make
\* a session, authenticateFabric to the handler.
Found(c, u) == \E pc \in {"session", "in"} :
    req' = [req EXCEPT ![c] = [Idle EXCEPT !.pc = pc, !.user = users[u]]]

\* The token verifies and has not run out (Keyring.Validate).
TokenValid == now < EstateExp

Knock(c) ==
    /\ req[c].pc = "idle" /\ TokenValid
    /\ IF Estate = {} THEN req' = [req EXCEPT ![c].pc = "shadow"]
       ELSE \E u \in Estate : ~users[u].disabled /\ Found(c, u)
    /\ UNCHANGED <<users, sessions, home, ids, drawn, now>>

\* First sight.  The insert fails when the name or the identity has a row.
MakeShadow(c) ==
    /\ req[c].pc = "shadow"
    /\ IF Named(Shadow) \cup Estate = {}
       THEN /\ ids < MaxUid /\ ids' = ids + 1
            /\ users' = [users EXCEPT ![ids + 1] =
                           [uid |-> ids + 1, name |-> Shadow, admin |-> FALSE,
                            disabled |-> FALSE, usable |-> FALSE, estate |-> TRUE]]
            /\ req' = [req EXCEPT ![c].pc = "made"]
       ELSE req' = [req EXCEPT ![c].pc = "again"] /\ UNCHANGED <<users, ids>>
    /\ UNCHANGED <<sessions, home, drawn, now>>

LookAgain(c) ==
    /\ req[c].pc \in {"made", "again"}
    /\ \/ \E u \in Estate : (req[c].pc = "again" => ~users[u].disabled) /\ Found(c, u)
       \/ (\A u \in Estate : req[c].pc = "again" /\ users[u].disabled) /\ End(c)
    /\ UNCHANGED <<users, sessions, home, ids, drawn, now>>

-----------------------------------------------------------------------------
(* What a user does, under the user's lock                                   *)

\* Any mutation that leaves a file under the name the request came in with.
Store(c) ==
    LET q == req[c]
    IN /\ q.pc = "locked" /\ q.user.name \in Keeper
       /\ home' = [home EXCEPT ![q.user.name] = @ \cup {q.user.uid}]
       /\ End(c) /\ UNCHANGED <<users, sessions, ids, drawn, now>>

Logout(c) ==
    /\ req[c].pc = "locked"
    /\ sessions' = Closed({req[c].tok})
    /\ End(c) /\ UNCHANGED <<users, home, ids, drawn, now>>

\* handleRevokeOthers lists the sessions, then deletes each.
ListOthers(c) ==
    LET q == req[c]
    IN /\ q.pc = "locked"
       /\ req' = [req EXCEPT ![c].pc = "revoke", ![c].left = Of(q.user.uid) \ {q.tok}]
       /\ UNCHANGED <<users, sessions, home, ids, drawn, now>>

RevokeNext(c) ==
    /\ req[c].pc = "revoke"
    /\ \/ \E t \in req[c].left : /\ sessions' = Closed({t})
                                 /\ req' = [req EXCEPT ![c].left = @ \ {t}]
       \/ req[c].left = {} /\ End(c) /\ UNCHANGED sessions
    /\ UNCHANGED <<users, home, ids, drawn, now>>

-----------------------------------------------------------------------------
(* What an administrator does, under the administrator's lock                *)

\* The account named n, which the handler finds first; never one's own where the
\* handler asks.
Admin(c) == req[c].pc = "locked" /\ req[c].user.admin

CreateUser(c, n) ==
    /\ Admin(c)
    /\ Named(n) = {} /\ ids < MaxUid
    /\ ids' = ids + 1
    /\ users' = [users EXCEPT ![ids + 1] =
                   [uid |-> ids + 1, name |-> n, admin |-> n \in Deputy,
                    disabled |-> FALSE, usable |-> TRUE, estate |-> FALSE]]
    /\ End(c) /\ UNCHANGED <<sessions, home, drawn, now>>

\* handleAdminSetPassword; it makes a shadow account's hash usable too.  One's
\* own password change leaves the table as it is here.
SetPassword(c, u) ==
    /\ Admin(c)
    /\ users' = [users EXCEPT ![u].usable = TRUE]
    /\ End(c) /\ UNCHANGED <<sessions, home, ids, drawn, now>>

\* `xxdrive-server -passwd`, beside the running server.
Passwd(u) ==
    /\ ~users[u].usable
    /\ users' = [users EXCEPT ![u].usable = TRUE]
    /\ UNCHANGED <<sessions, home, req, ids, drawn, now>>

Enable(c, u) ==
    /\ Admin(c) /\ u # req[c].user.uid
    /\ users' = [users EXCEPT ![u].disabled = FALSE]
    /\ End(c) /\ UNCHANGED <<sessions, home, ids, drawn, now>>

\* SetDisabled: the flag, then the sessions.
Disable(c, u) ==
    /\ Admin(c) /\ u # req[c].user.uid
    /\ users' = [users EXCEPT ![u].disabled = TRUE]
    /\ req' = [req EXCEPT ![c].pc = "sweep", ![c].target = users[u]]
    /\ UNCHANGED <<sessions, home, ids, drawn, now>>

SweepSessions(c) ==
    /\ req[c].pc = "sweep"
    /\ sessions' = Closed(Of(req[c].target.uid))
    /\ End(c) /\ UNCHANGED <<users, home, ids, drawn, now>>

\* handleAdminDeleteUser: the checks, the files, the row.
DeleteChecks(c, u) ==
    /\ Admin(c) /\ u # req[c].user.uid /\ users[u].disabled
    /\ req' = [req EXCEPT ![c].pc = "files", ![c].target = users[u]]
    /\ UNCHANGED <<users, sessions, home, ids, drawn, now>>

RemoveUser(c) ==
    /\ req[c].pc = "files"
    /\ home' = [home EXCEPT ![req[c].target.name] = {}]
    /\ req' = [req EXCEPT ![c].pc = "row"]
    /\ UNCHANGED <<users, sessions, ids, drawn, now>>

RemoveFails(c) ==
    /\ req[c].pc = "files"
    /\ End(c) /\ UNCHANGED <<users, sessions, home, ids, drawn, now>>

\* Its sessions cascade.  A row already gone is an error that changes nothing.
DeleteUser(c) ==
    LET q == req[c]
    IN /\ q.pc = "row"
       /\ users' = [users EXCEPT ![q.target.uid] = NoUser]
       /\ sessions' = Closed(Of(q.target.uid))
       /\ End(c) /\ UNCHANGED <<home, ids, drawn, now>>

-----------------------------------------------------------------------------
\* A tick is long: no request is still between the read of a session and its
\* slide when it comes.
Tick ==
    /\ now < MaxTime /\ \A c \in Conn : req[c].pc # "read"
    /\ now' = now + 1
    /\ UNCHANGED <<users, sessions, home, req, ids, drawn>>

\* The process dies with its requests and locks, and is started again.
Restart ==
    /\ req' = [c \in Conn |-> Idle] /\ req' # req
    /\ UNCHANGED <<users, sessions, home, ids, drawn, now>>

Next ==
    \/ \E t \in Token : Lapse(t)
    \/ \E c \in Conn, t \in Token : Read(c, t)
    \/ \E c \in Conn : \/ Enter(c) \/ Answer(c) \/ Lock(c) \/ CreateSession(c)
                       \/ Knock(c) \/ MakeShadow(c) \/ LookAgain(c)
                       \/ Store(c) \/ Logout(c) \/ ListOthers(c) \/ RevokeNext(c)
                       \/ SweepSessions(c) \/ RemoveUser(c) \/ RemoveFails(c) \/ DeleteUser(c)
    \/ \E c \in Conn, n \in Names : Login(c, n)
    \/ \E c \in Conn, n \in Name : CreateUser(c, n)
    \/ \E c \in Conn, u \in Present : \/ SetPassword(c, u) \/ Enable(c, u)
                                      \/ Disable(c, u) \/ DeleteChecks(c, u)
    \/ \E u \in Present : Passwd(u)
    \/ Tick \/ Restart

Spec == Init /\ [][Next]_vars

-----------------------------------------------------------------------------
(* Properties                                                                *)

\* The tables' constraints included: one account to a name and to an estate
\* identity, and no session without its account.
TypeOK ==
    /\ users \in [Uid -> Account \cup {NoUser}]
    /\ \A u \in Present : users[u].uid = u /\ u <= ids
    /\ \A n \in Names : Cardinality(Named(n)) <= 1
    /\ Cardinality(Estate) <= 1
    /\ sessions \in [Token -> Session \cup {NoSession}]
    /\ \A t \in Token : sessions[t] # NoSession => sessions[t].uid \in Present /\ t <= drawn
    /\ home \in [Names -> SUBSET Uid]
    /\ req \in [Conn -> Request]
    /\ \A c \in Conn : req[c].pc \in {"in", "session"} \cup Holding => req[c].user \in Account
    /\ ids \in Uid /\ drawn \in 0..MaxSession /\ now \in 1..MaxTime

\* The files of an account that is not disabled are never removed: with one
\* administrator (no Deputy), whose lock orders its mutations, an account enabled
\* again is safe from a deletion that checked it while it was disabled.
FilesStay ==
    [][\A n \in Names : \A u \in home[n] \ home'[n] :
          users[u] = NoUser \/ users[u].disabled]_vars

\* A session that was logged out, revoked, swept or has run out never comes back,
\* whatever requests that read it before are still on their way.
LoggedOutStaysOut ==
    [][\A t \in Token : t <= drawn /\ sessions[t] = NoSession => sessions'[t] = NoSession]_vars

\* Whoever uses a session could come back with it for half a lifetime
\* more, at least, unless it is ended meanwhile.
ActiveStaysIn ==
    [][\A c \in Conn : req[c].pc = "read" /\ req'[c].pc = "in" /\ sessions[req[c].tok] # NoSession
          => sessions'[req[c].tok].exp >= now + TTL - TTL \div 2]_vars
=============================================================================
