----------------------------- MODULE AccountsProofs -----------------------------
(***************************************************************************)
(* Theorems about Accounts, for any names, requests, lifetimes and bounds. *)
(***************************************************************************)
EXTENDS Accounts, FiniteSetTheorems, TLAPS

\* The row of an account keeps its place, under an id that has been given out.
Filed == \A u \in Present : users[u].uid = u /\ u <= ids

\* The tables' unique keys.
Keys == /\ \A u, v \in Present : users[u].name = users[v].name => u = v
        /\ \A u, v \in Estate : u = v

\* A session is its account's, under a token that has been drawn, and ends no
\* later than one that slides now.
Sessions == \A t \in Token : sessions[t] # NoSession =>
    /\ sessions[t].uid \in Present /\ t <= drawn
    /\ sessions[t].exp <= now + TTL

\* What the states of a request say of the user in it.
Known == {"in", "session"} \cup Holding

\* A session that is being slid lasts at least as long as when it was read.
ReadWell(q) == q.pc = "read" =>
    /\ q.tok \in Token /\ q.tok <= drawn
    /\ sessions[q.tok] # NoSession => sessions[q.tok].exp >= q.exp

Requests == \A c \in Conn : /\ req[c].pc \in Known => req[c].user \in Account
                            /\ ReadWell(req[c])

Kinds == /\ users \in [Uid -> Account \cup {NoUser}]
         /\ sessions \in [Token -> Session \cup {NoSession}]
         /\ home \in [Names -> SUBSET Uid]
         /\ req \in [Conn -> Request]
         /\ ids \in Uid /\ drawn \in 0..MaxSession /\ now \in 1..MaxTime

IInv == Kinds /\ Filed /\ Keys /\ Sessions /\ Requests

-----------------------------------------------------------------------------
(* Types                                                                     *)

LEMMA IdleType == /\ Idle \in Request /\ Idle.pc = "idle"
                  /\ NobodyYet \in Reader \ Account /\ Account \subseteq Reader
  <1>1. MaxUid \in Nat /\ MaxSession \in Nat /\ MaxTime + TTL \in Nat
      BY AccountConstants DEF AccountConstants
  <1>2. NobodyYet \in Reader
      BY <1>1 DEF NobodyYet, Reader
  <1>3. NobodyYet \notin Account
      BY AccountConstants DEF AccountConstants, NobodyYet, Account, Names
  <1>4. Account \subseteq Reader
      BY DEF Account, Reader, Uid
  <1> QED
      BY <1>1, <1>2, <1>3, <1>4 DEF Idle, Request

LEMMA IInvTypes ==
    ASSUME IInv
    PROVE  /\ \A u \in Present : u \in Uid /\ users[u] \in Account /\ users[u].uid = u
           /\ \A t \in Token : sessions[t] # NoSession => sessions[t] \in Session
           /\ \A c \in Conn : req[c] \in Request
  BY DEF IInv, Kinds, Filed, Present

LEMMA ClosedShrinks ==
    ASSUME IInv, NEW T
    PROVE  /\ Closed(T) \in [Token -> Session \cup {NoSession}]
           /\ \A t \in Token : Closed(T)[t] = IF t \in T THEN NoSession ELSE sessions[t]
  BY DEF Closed, IInv, Kinds

InitAccount == [uid |-> 1, name |-> Root, admin |-> TRUE, disabled |-> FALSE,
                usable |-> TRUE, estate |-> FALSE]

LEMMA InitIInv == Init => IInv
  <1> SUFFICES ASSUME Init PROVE IInv
      OBVIOUS
  <1>1. 1 \in Uid /\ InitAccount \in Account
      BY AccountConstants DEF AccountConstants, Uid, InitAccount, Account, Names
  <1>2. users = [u \in Uid |-> IF u = 1 THEN InitAccount ELSE NoUser]
      BY DEF Init, InitAccount
  <1>3. Kinds
    <2>1. users \in [Uid -> Account \cup {NoUser}]
        BY <1>1, <1>2
    <2>2. sessions \in [Token -> Session \cup {NoSession}] /\ req \in [Conn -> Request]
        BY IdleType DEF Init
    <2>3. home \in [Names -> SUBSET Uid]
        BY DEF Init
    <2>4. ids \in Uid /\ drawn \in 0..MaxSession /\ now \in 1..MaxTime
        BY <1>1, AccountConstants DEF AccountConstants, Init
    <2> QED
        BY <2>1, <2>2, <2>3, <2>4 DEF Kinds
  <1>4. \A u \in Present : u = 1 /\ users[u].uid = 1
      BY <1>1, <1>2 DEF Present, InitAccount
  <1>5. Filed /\ Keys
      BY <1>4 DEF Init, Filed, Keys, Estate
  <1>6. Sessions /\ Requests
      BY IdleType DEF Init, Sessions, Requests, ReadWell, Known, Holding
  <1> QED
      BY <1>3, <1>5, <1>6 DEF IInv

-----------------------------------------------------------------------------
(* Steps that leave the accounts alone                                       *)

\* One request moves on, or none does, and sessions can only end.
LEMMA QuietKeeps ==
    ASSUME IInv, UNCHANGED <<users, ids, drawn, now>>,
           home' \in [Names -> SUBSET Uid],
           sessions' \in [Token -> Session \cup {NoSession}],
           \A t \in Token : sessions'[t] \in {NoSession, sessions[t]},
           req' \in [Conn -> Request],
           \A c \in Conn : \/ req'[c] = req[c]
                           \/ /\ req'[c].pc \in Known => req'[c].user \in Account
                              /\ req'[c].pc = "read" => ReadWell(req'[c])
    PROVE  IInv'
  <1>1. Kinds' /\ Filed' /\ Keys'
      BY DEF IInv, Kinds, Filed, Keys, Present, Estate
  <1>2. Sessions'
      BY DEF IInv, Sessions, Present
  <1>3. Requests'
      BY DEF IInv, Requests, ReadWell
  <1> QED
      BY <1>1, <1>2, <1>3 DEF IInv

\* The usual case: the tables stay, and c goes on as r.
LEMMA RequestKeeps ==
    ASSUME IInv, UNCHANGED <<users, sessions, ids, drawn, now>>,
           home' \in [Names -> SUBSET Uid],
           NEW c \in Conn, NEW r \in Request, req' = [req EXCEPT ![c] = r],
           r.pc \in Known => r.user \in Account, r.pc = "read" => ReadWell(r)
    PROVE  IInv'
  <1>1. req' \in [Conn -> Request] /\ \A d \in Conn : req'[d] = IF d = c THEN r ELSE req[d]
      BY DEF IInv, Kinds
  <1>2. sessions' \in [Token -> Session \cup {NoSession}]
      BY DEF IInv, Kinds
  <1> QED
      BY <1>1, <1>2, QuietKeeps

LEMMA EndTypes ==
    ASSUME IInv, NEW c \in Conn, End(c)
    PROVE  /\ req' \in [Conn -> Request]
           /\ \A d \in Conn : req'[d] = IF d = c THEN Idle ELSE req[d]
           /\ Idle.pc \notin Known /\ Idle.pc # "read"
  BY IdleType DEF End, IInv, Kinds, Known, Holding

LEMMA EndKeeps ==
    ASSUME IInv, NEW c \in Conn, End(c), UNCHANGED <<users, ids, drawn, now>>,
           home' \in [Names -> SUBSET Uid],
           sessions' \in [Token -> Session \cup {NoSession}],
           \A t \in Token : sessions'[t] \in {NoSession, sessions[t]}
    PROVE  IInv'
  BY EndTypes, QuietKeeps

\* A request gets to another place, its user as it was.
LEMMA PlaceKeeps ==
    ASSUME IInv, NEW c \in Conn, NEW pc,
           pc \in {"locked", "shadow", "made", "again", "row"},
           pc \in Known => req[c].pc \in Known
    PROVE  /\ [req[c] EXCEPT !.pc = pc] \in Request
           /\ [req[c] EXCEPT !.pc = pc].pc = pc
           /\ pc \in Known => [req[c] EXCEPT !.pc = pc].user \in Account
  BY DEF IInv, Kinds, Requests, Request, Known, Holding

LEMMA ReadKeeps ==
    ASSUME IInv, NEW c \in Conn, NEW t \in Token, Read(c, t)
    PROVE  IInv' /\ req'[c].pc = "read" /\ \A d \in Conn \ {c} : req'[d] = req[d]
  <1> DEFINE u == sessions[t].uid
             s == [Idle.user EXCEPT !.uid = u]
             r == [Idle EXCEPT !.pc = "read", !.tok = t, !.exp = sessions[t].exp, !.user.uid = u]
  <1>1. sessions[t] \in Session /\ t <= drawn /\ sessions[t] # NoSession
      BY IInvTypes DEF Read, IInv, Sessions
  <1>2. t \in 0..MaxSession /\ sessions[t].exp \in 0..MaxTime + TTL /\ u \in 0..MaxUid
      BY <1>1 DEF Session, Token, Uid
  <1>3. s \in Reader
      BY <1>2, IdleType DEF Idle, Reader
  <1>4. r = [Idle EXCEPT !.pc = "read", !.tok = t, !.exp = sessions[t].exp, !.user = s]
      OBVIOUS
  <1>5. r \in Request /\ r.pc = "read" /\ r.tok = t /\ r.exp = sessions[t].exp
    <2> HIDE DEF r, s
    <2> QED
        BY <1>2, <1>3, <1>4, IdleType DEF Request
  <1>6. ReadWell(r)
      BY <1>1, <1>2, <1>5 DEF ReadWell
  <1>7. req' = [req EXCEPT ![c] = r] /\ UNCHANGED <<users, sessions, home, ids, drawn, now>>
      BY DEF Read
  <1>8. home' \in [Names -> SUBSET Uid]
      BY <1>7 DEF IInv, Kinds
  <1>9. r.pc \notin Known
      BY <1>5 DEF Known, Holding
  <1> HIDE DEF r
  <1>10. IInv'
      BY <1>5, <1>6, <1>7, <1>8, <1>9, RequestKeeps
  <1> QED
      BY <1>5, <1>7, <1>10 DEF IInv, Kinds

-----------------------------------------------------------------------------
(* Sessions that slide and sessions that begin                               *)

LEMMA SlideKeeps ==
    ASSUME IInv, NEW t \in Token, sessions[t] # NoSession,
           sessions' = [sessions EXCEPT ![t].exp = now + TTL],
           UNCHANGED <<users, home, ids, drawn, now>>,
           NEW c \in Conn, NEW r \in Request, req' = [req EXCEPT ![c] = r],
           r.pc \in Known => r.user \in Account, r.pc # "read"
    PROVE  /\ IInv'
           /\ \A d \in Token : sessions'[d] # NoSession => sessions[d] # NoSession
  <1> DEFINE s == [sessions[t] EXCEPT !.exp = now + TTL]
  <1>1. sessions[t] \in Session /\ now + TTL \in 1..MaxTime + TTL
      BY IInvTypes, AccountConstants DEF AccountConstants, IInv, Kinds
  <1>2. s \in Session /\ s # NoSession /\ s.uid = sessions[t].uid /\ s.exp = now + TTL
      BY <1>1, NoRow DEF Session
  <1>3. /\ sessions' \in [Token -> Session \cup {NoSession}]
        /\ \A d \in Token : sessions'[d] = IF d = t THEN s ELSE sessions[d]
      BY <1>2 DEF IInv, Kinds
  <1>4. req' \in [Conn -> Request] /\ \A d \in Conn : req'[d] = IF d = c THEN r ELSE req[d]
      BY DEF IInv, Kinds
  <1>5. Kinds' /\ Filed' /\ Keys'
      BY <1>3, <1>4 DEF IInv, Kinds, Filed, Keys, Present, Estate
  <1>6. Sessions'
      BY <1>1, <1>2, <1>3 DEF IInv, Kinds, Sessions, Present, Session
  <1>7. Requests'
    <2> SUFFICES ASSUME NEW d \in Conn
                 PROVE  /\ req'[d].pc \in Known => req'[d].user \in Account
                        /\ ReadWell(req[d])' 
        BY DEF Requests
    <2>1. CASE d = c
        BY <2>1, <1>4 DEF ReadWell
    <2>2. CASE d # c
      <3>1. req'[d] = req[d] /\ ReadWell(req[d]) /\ req[d] \in Request
          BY <2>2, <1>4 DEF IInv, Kinds, Requests
      <3>2. req[d].pc = "read" => /\ req[d].tok \in Token /\ req[d].tok <= drawn
                                  /\ sessions'[req[d].tok] # NoSession => sessions'[req[d].tok].exp >= req[d].exp
        <4> SUFFICES ASSUME req[d].pc = "read"
                     PROVE  /\ req[d].tok \in Token /\ req[d].tok <= drawn
                            /\ sessions'[req[d].tok] # NoSession => sessions'[req[d].tok].exp >= req[d].exp
            OBVIOUS
        <4>1. req[d].tok # t => sessions'[req[d].tok] = sessions[req[d].tok]
            BY <3>1, <1>3 DEF ReadWell
        <4>2. req[d].tok = t => now + TTL >= req[d].exp
          <5>1. sessions[t].exp <= now + TTL /\ sessions[t].exp \in Nat /\ now + TTL \in Nat
              BY <1>1 DEF IInv, Sessions, Session
          <5>2. req[d].tok = t => sessions[t].exp >= req[d].exp /\ req[d].exp \in Nat
              BY <3>1 DEF ReadWell, Request
          <5> QED
              BY <5>1, <5>2
        <4> QED
            BY <3>1, <4>1, <4>2, <1>2, <1>3 DEF ReadWell
      <3> QED
          BY <3>1, <3>2 DEF ReadWell, IInv, Requests
    <2> QED
        BY <2>1, <2>2
  <1> QED
      BY <1>3, <1>5, <1>6, <1>7 DEF IInv

LEMMA EnterKeeps ==
    ASSUME IInv, NEW c \in Conn, Enter(c)
    PROVE  /\ IInv'
           /\ \A t \in Token : sessions[t] = NoSession => sessions'[t] = NoSession
  <1> DEFINE q == req[c]
             u == q.user.uid
             r == [q EXCEPT !.pc = "in", !.exp = 0, !.user = users[u]]
  <1>1. UNCHANGED <<users, home, ids, drawn, now>> /\ home' \in [Names -> SUBSET Uid]
      BY DEF Enter, IInv, Kinds
  <1>2. CASE ~(u \in Present /\ ~users[u].disabled)
    <2>1. End(c) /\ sessions' = sessions
        BY <1>2 DEF Enter
    <2>2. sessions' \in [Token -> Session \cup {NoSession}]
        BY <2>1 DEF IInv, Kinds
    <2> QED
        BY <1>1, <2>1, <2>2, EndKeeps
  <1>3. CASE u \in Present /\ ~users[u].disabled
    <2>1. users[u] \in Account /\ q \in Request /\ q.pc = "read" /\ ReadWell(q)
        BY <1>3, IInvTypes DEF IInv, Requests, Enter
    <2>2. 0 \in 0..MaxTime + TTL
        BY AccountConstants DEF AccountConstants
    <2>3. r \in Request /\ r.pc = "in" /\ r.user \in Account
        BY <2>1, <2>2, IdleType DEF Request
    <2>4. req' = [req EXCEPT ![c] = r]
        BY <1>3 DEF Enter
    <2>5. CASE Due(q.exp) /\ sessions[q.tok] # NoSession
      <3>1. sessions' = [sessions EXCEPT ![q.tok].exp = now + TTL]
          BY <1>3, <2>5 DEF Enter
      <3>2. q.tok \in Token
          BY <2>1 DEF ReadWell
      <3> HIDE DEF r
      <3>3. IInv' /\ \A d \in Token : sessions'[d] # NoSession => sessions[d] # NoSession
          BY <1>1, <2>3, <2>4, <2>5, <3>1, <3>2, SlideKeeps
      <3> QED
          BY <3>3
    <2>6. CASE ~(Due(q.exp) /\ sessions[q.tok] # NoSession)
      <3>1. sessions' = sessions
          BY <1>3, <2>6 DEF Enter
      <3> HIDE DEF r
      <3> QED
          BY <1>1, <2>3, <2>4, <3>1, RequestKeeps
    <2> QED
        BY <2>5, <2>6
  <1> QED
      BY <1>2, <1>3

LEMMA CreateSessionKeeps ==
    ASSUME IInv, NEW c \in Conn, CreateSession(c)
    PROVE  /\ IInv'
           /\ \A t \in Token : t <= drawn => sessions'[t] = sessions[t]
  <1> DEFINE u == req[c].user.uid
             s == [uid |-> u, exp |-> now + TTL]
  <1>1. UNCHANGED <<users, home, ids, now>> /\ home' \in [Names -> SUBSET Uid] /\ End(c)
      BY DEF CreateSession, IInv, Kinds
  <1>2. CASE u \notin Present
    <2>1. UNCHANGED <<sessions, drawn>>
        BY <1>2 DEF CreateSession
    <2>2. sessions' \in [Token -> Session \cup {NoSession}]
        BY <2>1 DEF IInv, Kinds
    <2> QED
        BY <1>1, <2>1, <2>2, EndKeeps
  <1>3. CASE u \in Present
    <2>1. /\ drawn < MaxSession /\ drawn' = drawn + 1
          /\ sessions' = [sessions EXCEPT ![drawn + 1] = s]
        BY <1>3 DEF CreateSession
    <2>2. drawn \in Nat /\ drawn + 1 \in Token /\ drawn' \in 0..MaxSession
        BY <2>1, AccountConstants DEF AccountConstants, IInv, Kinds, Token
    <2>3. now + TTL \in 1..MaxTime + TTL /\ now + TTL \in Nat
        BY AccountConstants DEF AccountConstants, IInv, Kinds
    <2>4. s \in Session /\ s.uid = u /\ s.exp = now + TTL
        BY <2>3, <1>3 DEF Session, Present
    <2>5. /\ sessions' \in [Token -> Session \cup {NoSession}]
          /\ \A t \in Token : sessions'[t] = IF t = drawn + 1 THEN s ELSE sessions[t]
        BY <2>1, <2>2, <2>4 DEF IInv, Kinds
    <2>6. Kinds' /\ Filed' /\ Keys'
        BY <1>1, <2>2, <2>5, EndTypes DEF IInv, Kinds, Filed, Keys, Present, Estate
    <2>7. Sessions'
      <3> HIDE DEF s
      <3> SUFFICES ASSUME NEW t \in Token, sessions'[t] # NoSession
                   PROVE  /\ sessions'[t].uid \in Present' /\ t <= drawn'
                          /\ sessions'[t].exp <= now' + TTL
          BY DEF Sessions
      <3>1. Present' = Present
          BY <1>1 DEF Present
      <3>2. CASE t = drawn + 1
          BY <1>1, <1>3, <2>1, <2>2, <2>3, <2>4, <2>5, <3>1, <3>2
      <3>3. CASE t # drawn + 1
        <4>1. sessions'[t] = sessions[t] /\ t \in Nat
            BY <2>5, <3>3 DEF Token
        <4> QED
            BY <1>1, <2>1, <2>2, <3>1, <4>1 DEF IInv, Sessions
      <3> QED
          BY <3>2, <3>3
    <2>8. Requests'
      <3> HIDE DEF s
      <3> SUFFICES ASSUME NEW d \in Conn
                   PROVE  /\ req'[d].pc \in Known => req'[d].user \in Account
                          /\ ReadWell(req[d])'
          BY DEF Requests
      <3>1. CASE d = c
          BY <1>1, <3>1, EndTypes DEF ReadWell
      <3>2. CASE d # c
        <4>1. req'[d] = req[d] /\ ReadWell(req[d]) /\ (req[d].pc \in Known => req[d].user \in Account)
            BY <1>1, <3>2, EndTypes DEF IInv, Requests
        <4>2. req[d].pc = "read" => /\ req[d].tok <= drawn' /\ req[d].tok \in Token
                                    /\ sessions'[req[d].tok] = sessions[req[d].tok]
            BY <4>1, <2>1, <2>2, <2>5 DEF ReadWell, Token
        <4> QED
            BY <4>1, <4>2 DEF ReadWell
      <3> QED
          BY <3>1, <3>2
    <2>9. \A t \in Token : t <= drawn => sessions'[t] = sessions[t]
        BY <2>2, <2>5 DEF Token
    <2> QED
        BY <2>6, <2>7, <2>8, <2>9 DEF IInv
  <1> QED
      BY <1>2, <1>3

-----------------------------------------------------------------------------
(* Changes of the users table                                                *)

\* What a step owes the requests, where no session changes.
Moves == /\ req' \in [Conn -> Request]
         /\ \A c \in Conn : \/ req'[c] = req[c]
                            \/ /\ req'[c].pc \in Known => req'[c].user \in Account
                               /\ req'[c].pc # "read"

LEMMA EndMoves ==
    ASSUME IInv, NEW c \in Conn, End(c)
    PROVE  Moves
  BY EndTypes DEF Moves

\* A flag of a row changes.
LEMMA EditKeeps ==
    ASSUME IInv, NEW u \in Present, NEW a \in Account, users' = [users EXCEPT ![u] = a],
           a.uid = users[u].uid, a.name = users[u].name, a.estate = users[u].estate,
           UNCHANGED <<sessions, home, ids, drawn, now>>, Moves
    PROVE  IInv'
  <1>1. /\ users' \in [Uid -> Account \cup {NoUser}]
        /\ \A v \in Uid : users'[v] = IF v = u THEN a ELSE users[v]
        /\ u \in Uid /\ a # NoUser /\ users[u] # NoUser
      BY NoRow DEF IInv, Kinds, Present
  <1>2. Present' = Present
      BY <1>1 DEF Present
  <1>3. \A v \in Present : users'[v].uid = users[v].uid /\ users'[v].name = users[v].name
                           /\ users'[v].estate = users[v].estate
      BY <1>1 DEF Present
  <1>4. Estate' = Estate
      BY <1>2, <1>3 DEF Estate
  <1>5. Kinds' /\ Filed' /\ Keys'
      BY <1>1, <1>2, <1>3, <1>4 DEF IInv, Kinds, Filed, Keys, Moves
  <1>6. Sessions'
      BY <1>2 DEF IInv, Sessions
  <1>7. Requests'
      BY DEF IInv, Requests, ReadWell, Moves
  <1> QED
      BY <1>5, <1>6, <1>7 DEF IInv

\* A row is added, under an id that is new.
LEMMA InsertKeeps ==
    ASSUME IInv, ids < MaxUid, ids' = ids + 1, NEW a \in Account,
           users' = [users EXCEPT ![ids + 1] = a], a.uid = ids + 1,
           Named(a.name) = {}, a.estate => Estate = {},
           UNCHANGED <<sessions, home, drawn, now>>, Moves
    PROVE  IInv'
  <1>1. ids \in Nat /\ ids + 1 \in Uid /\ ids + 1 \notin Present
      BY AccountConstants DEF AccountConstants, IInv, Kinds, Filed, Uid
  <1>2. /\ users' \in [Uid -> Account \cup {NoUser}]
        /\ \A v \in Uid : users'[v] = IF v = ids + 1 THEN a ELSE users[v]
        /\ a # NoUser
      BY <1>1, NoRow DEF IInv, Kinds
  <1>3. Present' = Present \cup {ids + 1}
      BY <1>1, <1>2 DEF Present
  <1>4. users'[ids + 1] = a /\ \A v \in Present : users'[v] = users[v]
      BY <1>1, <1>2 DEF Present
  <1>5. Filed'
    <2>1. \A v \in Present : users[v].uid = v /\ v <= ids /\ v \in Nat
        BY DEF IInv, Filed, Present, Uid
    <2> QED
        BY <1>1, <1>3, <1>4, <2>1 DEF Filed
  <1>6. Keys'
    <2>1. \A v \in Present : users[v].name # a.name /\ (users[v].estate => ~a.estate)
        BY DEF Named, Estate
    <2>2. \A u, v \in Present' : users'[u].name = users'[v].name => u = v
        BY <1>3, <1>4, <2>1 DEF IInv, Keys
    <2>3. \A u, v \in Estate' : u = v
        BY <1>3, <1>4, <2>1 DEF IInv, Keys, Estate
    <2> QED
        BY <2>2, <2>3 DEF Keys
  <1>7. Kinds'
      BY <1>1, <1>2 DEF IInv, Kinds, Moves
  <1>8. Sessions'
      BY <1>3 DEF IInv, Sessions
  <1>9. Requests'
      BY DEF IInv, Requests, ReadWell, Moves
  <1> QED
      BY <1>5, <1>6, <1>7, <1>8, <1>9 DEF IInv

\* A row goes, and its sessions with it.
LEMMA DeleteKeeps ==
    ASSUME IInv, NEW u, users' = [users EXCEPT ![u] = NoUser], sessions' = Closed(Of(u)),
           UNCHANGED <<home, ids, drawn, now>>, Moves
    PROVE  IInv'
  <1>1. /\ users' \in [Uid -> Account \cup {NoUser}]
        /\ \A v \in Uid : users'[v] = IF v = u THEN NoUser ELSE users[v]
      BY DEF IInv, Kinds
  <1>2. Present' = Present \ {u} /\ \A v \in Present' : users'[v] = users[v]
      BY <1>1 DEF Present
  <1>3. Estate' \subseteq Estate
      BY <1>2 DEF Estate
  <1>4. /\ sessions' \in [Token -> Session \cup {NoSession}]
        /\ \A t \in Token : sessions'[t] = IF t \in Of(u) THEN NoSession ELSE sessions[t]
      BY ClosedShrinks
  <1>5. Kinds' /\ Filed' /\ Keys'
      BY <1>1, <1>2, <1>3, <1>4 DEF IInv, Kinds, Filed, Keys, Moves
  <1>6. Sessions'
      BY <1>2, <1>4 DEF IInv, Sessions, Of
  <1>7. Requests'
    <2> SUFFICES ASSUME NEW c \in Conn
                 PROVE  /\ req'[c].pc \in Known => req'[c].user \in Account
                        /\ ReadWell(req[c])'
        BY DEF Requests
    <2> QED
        BY <1>4 DEF IInv, Requests, ReadWell, Moves
  <1> QED
      BY <1>5, <1>6, <1>7 DEF IInv

-----------------------------------------------------------------------------
(* The invariant, action by action                                           *)

\* A request that has found the account u goes on with its row.
LEMMA FoundKeeps ==
    ASSUME IInv, NEW c \in Conn, NEW u \in Present, NEW pc \in {"session", "in"},
           req' = [req EXCEPT ![c] = [Idle EXCEPT !.pc = pc, !.user = users[u]]],
           UNCHANGED <<users, sessions, home, ids, drawn, now>>
    PROVE  IInv'
  <1> DEFINE r == [Idle EXCEPT !.pc = pc, !.user = users[u]]
  <1>1. users[u] \in Account
      BY IInvTypes
  <1>2. r \in Request /\ r.user \in Account /\ r.pc # "read"
      BY <1>1, IdleType DEF Request
  <1>3. home' \in [Names -> SUBSET Uid]
      BY DEF IInv, Kinds
  <1>4. req' = [req EXCEPT ![c] = r] /\ UNCHANGED <<users, sessions, ids, drawn, now>>
      OBVIOUS
  <1> HIDE DEF r
  <1> QED
      BY <1>2, <1>3, <1>4, RequestKeeps

\* Steps of c that touch no table but home.
LEMMA QuietStepKeeps ==
    ASSUME IInv, NEW c \in Conn,
           \/ Answer(c) \/ Lock(c) \/ Knock(c) \/ LookAgain(c) \/ Store(c) \/ ListOthers(c)
           \/ RemoveUser(c) \/ RemoveFails(c)
    PROVE  IInv'
  <1> DEFINE q == req[c]
  <1>1. home \in [Names -> SUBSET Uid] /\ sessions \in [Token -> Session \cup {NoSession}]
        /\ q \in Request /\ (q.pc \in Known => q.user \in Account)
      BY DEF IInv, Kinds, Requests
  <1>2. CASE Answer(c) \/ RemoveFails(c)
      BY <1>1, <1>2, EndKeeps DEF Answer, RemoveFails
  <1>3. CASE Lock(c)
    <2> DEFINE r == [q EXCEPT !.pc = "locked"]
    <2>1. req' = [req EXCEPT ![c] = r] /\ q.pc = "in"
        BY <1>3 DEF Lock
    <2>2. r \in Request /\ r.pc = "locked" /\ r.user \in Account
        BY <1>1, <2>1 DEF Request, Known, Holding
    <2> HIDE DEF r
    <2> QED
        BY <1>1, <1>3, <2>1, <2>2, RequestKeeps DEF Lock
  <1>4. CASE Knock(c)
    <2>1. CASE Estate = {}
      <3> DEFINE r == [q EXCEPT !.pc = "shadow"]
      <3>1. req' = [req EXCEPT ![c] = r]
          BY <1>4, <2>1 DEF Knock
      <3>2. r \in Request /\ r.pc = "shadow"
          BY <1>1 DEF Request
      <3> HIDE DEF r
      <3> QED
          BY <1>1, <1>4, <3>1, <3>2, RequestKeeps DEF Knock, Known, Holding
    <2>2. CASE Estate # {}
      <3>1. PICK u \in Estate : Found(c, u)
          BY <1>4, <2>2 DEF Knock
      <3>2. PICK pc \in {"session", "in"} :
              req' = [req EXCEPT ![c] = [Idle EXCEPT !.pc = pc, !.user = users[u]]]
          BY <3>1 DEF Found
      <3> QED
          BY <1>4, <3>1, <3>2, FoundKeeps DEF Knock, Estate
    <2> QED
        BY <2>1, <2>2
  <1>5. CASE LookAgain(c)
    <2>1. CASE End(c)
        BY <1>1, <1>5, <2>1, EndKeeps DEF LookAgain
    <2>2. CASE \E u \in Estate : Found(c, u)
      <3>1. PICK u \in Estate : Found(c, u)
          BY <2>2
      <3>2. PICK pc \in {"session", "in"} :
              req' = [req EXCEPT ![c] = [Idle EXCEPT !.pc = pc, !.user = users[u]]]
          BY <3>1 DEF Found
      <3> QED
          BY <1>5, <3>1, <3>2, FoundKeeps DEF LookAgain, Estate
    <2> QED
        BY <1>5, <2>1, <2>2 DEF LookAgain
  <1>6. CASE Store(c)
    <2>1. q.user \in Account
        BY <1>1, <1>6 DEF Store, Known, Holding
    <2>2. home' \in [Names -> SUBSET Uid]
        BY <1>1, <1>6, <2>1 DEF Store, Account
    <2> QED
        BY <1>1, <1>6, <2>2, EndKeeps DEF Store
  <1>7. CASE ListOthers(c)
    <2> DEFINE r == [q EXCEPT !.pc = "revoke", !.left = Of(q.user.uid) \ {q.tok}]
    <2>1. req' = [req EXCEPT ![c] = r] /\ q.pc = "locked"
        BY <1>7 DEF ListOthers
    <2>2. r \in Request /\ r.pc = "revoke" /\ r.user \in Account
      <3>1. Of(q.user.uid) \ {q.tok} \in SUBSET Token
          BY DEF Of
      <3> QED
          BY <1>1, <2>1, <3>1 DEF Request, Known, Holding
    <2> HIDE DEF r
    <2> QED
        BY <1>1, <1>7, <2>1, <2>2, RequestKeeps DEF ListOthers
  <1>8. CASE RemoveUser(c)
    <2> DEFINE r == [q EXCEPT !.pc = "row"]
    <2>1. req' = [req EXCEPT ![c] = r] /\ q.pc = "files"
        BY <1>8 DEF RemoveUser
    <2>2. r \in Request /\ r.pc = "row" /\ r.user \in Account
        BY <1>1, <2>1 DEF Request, Known, Holding
    <2>3. home' \in [Names -> SUBSET Uid]
        BY <1>1, <1>8 DEF RemoveUser
    <2> HIDE DEF r
    <2> QED
        BY <1>8, <2>1, <2>2, <2>3, RequestKeeps DEF RemoveUser
  <1> QED
      BY <1>2, <1>3, <1>4, <1>5, <1>6, <1>7, <1>8

\* Steps that end sessions.
LEMMA EndingStepKeeps ==
    ASSUME IInv, NEW c \in Conn, Logout(c) \/ RevokeNext(c) \/ SweepSessions(c)
    PROVE  IInv'
  <1>1. home \in [Names -> SUBSET Uid] /\ UNCHANGED <<users, home, ids, drawn, now>>
      BY DEF IInv, Kinds, Logout, RevokeNext, SweepSessions
  <1>2. CASE Logout(c)
    <2>1. sessions' = Closed({req[c].tok}) /\ End(c)
        BY <1>2 DEF Logout
    <2> QED
        BY <1>1, <2>1, ClosedShrinks, EndKeeps
  <1>3. CASE SweepSessions(c)
    <2>1. sessions' = Closed(Of(req[c].target.uid)) /\ End(c)
        BY <1>3 DEF SweepSessions
    <2> QED
        BY <1>1, <2>1, ClosedShrinks, EndKeeps
  <1>4. CASE RevokeNext(c)
    <2>1. CASE End(c) /\ UNCHANGED sessions
      <3>1. sessions' \in [Token -> Session \cup {NoSession}]
          BY <2>1 DEF IInv, Kinds
      <3> QED
          BY <1>1, <2>1, <3>1, EndKeeps
    <2>2. CASE \E t \in req[c].left : /\ sessions' = Closed({t})
                                      /\ req' = [req EXCEPT ![c].left = @ \ {t}]
      <3>1. PICK t \in req[c].left : /\ sessions' = Closed({t})
                                     /\ req' = [req EXCEPT ![c].left = @ \ {t}]
          BY <2>2
      <3> DEFINE r == [req[c] EXCEPT !.left = @ \ {t}]
      <3>2. req[c] \in Request /\ req[c].pc = "revoke" /\ req[c].user \in Account
          BY <1>4 DEF RevokeNext, IInv, Kinds, Requests, Known, Holding
      <3>3. req[c].left \ {t} \in SUBSET Token
          BY <3>2 DEF Request
      <3>4. r \in Request /\ r.pc = "revoke" /\ r.user \in Account
          BY <3>2, <3>3 DEF Request
      <3>5. req' = [req EXCEPT ![c] = r]
          BY <3>1
      <3> HIDE DEF r
      <3>6. req' \in [Conn -> Request] /\ \A d \in Conn : req'[d] = IF d = c THEN r ELSE req[d]
          BY <3>4, <3>5 DEF IInv, Kinds
      <3>7. /\ sessions' \in [Token -> Session \cup {NoSession}]
            /\ \A d \in Token : sessions'[d] \in {NoSession, sessions[d]}
          BY <3>1, ClosedShrinks
      <3> QED
          BY <1>1, <3>4, <3>6, <3>7, QuietKeeps
    <2> QED
        BY <1>4, <2>1, <2>2 DEF RevokeNext
  <1> QED
      BY <1>2, <1>3, <1>4

LEMMA InsertStepKeeps ==
    ASSUME IInv, NEW c \in Conn, MakeShadow(c) \/ \E n \in Name : CreateUser(c, n)
    PROVE  IInv'
  <1>1. /\ req[c] \in Request /\ ids \in Nat
        /\ home \in [Names -> SUBSET Uid] /\ Shadow \in Names /\ Name \subseteq Names
      BY IdleType DEF IInv, Kinds, Names, Uid
  <1>2. ids < MaxUid => ids + 1 \in Uid
      BY <1>1, AccountConstants DEF AccountConstants, Uid
  <1>3. CASE MakeShadow(c)
    <2>1. CASE Named(Shadow) \cup Estate = {}
      <3> DEFINE a == [uid |-> ids + 1, name |-> Shadow, admin |-> FALSE,
                       disabled |-> FALSE, usable |-> FALSE, estate |-> TRUE]
                 r == [req[c] EXCEPT !.pc = "made"]
      <3>1. /\ ids < MaxUid /\ ids' = ids + 1 /\ users' = [users EXCEPT ![ids + 1] = a]
            /\ req' = [req EXCEPT ![c] = r] /\ UNCHANGED <<sessions, home, drawn, now>>
          BY <1>3, <2>1 DEF MakeShadow
      <3>2. r \in Request /\ r.pc = "made"
          BY <1>1 DEF Request
      <3>3. a \in Account
          BY <1>1, <1>2, <3>1 DEF Account
      <3>4. Moves
        <4> HIDE DEF r
        <4>1. req' \in [Conn -> Request] /\ \A d \in Conn : req'[d] = IF d = c THEN r ELSE req[d]
            BY <3>1, <3>2 DEF IInv, Kinds
        <4> QED
            BY <3>2, <4>1 DEF Moves, Known, Holding
      <3>5. a.uid = ids + 1 /\ a.name = Shadow
          OBVIOUS
      <3> HIDE DEF a, r
      <3> QED
          BY <2>1, <3>1, <3>3, <3>4, <3>5, InsertKeeps
    <2>2. CASE Named(Shadow) \cup Estate # {}
      <3> DEFINE r == [req[c] EXCEPT !.pc = "again"]
      <3>1. /\ req' = [req EXCEPT ![c] = r]
            /\ UNCHANGED <<users, ids, sessions, home, drawn, now>>
          BY <1>3, <2>2 DEF MakeShadow
      <3>2. r \in Request /\ r.pc = "again"
          BY <1>1 DEF Request
      <3> HIDE DEF r
      <3> QED
          BY <1>1, <3>1, <3>2, RequestKeeps DEF Known, Holding
    <2> QED
        BY <2>1, <2>2
  <1>4. CASE \E n \in Name : CreateUser(c, n)
    <2>1. PICK n \in Name : CreateUser(c, n)
        BY <1>4
    <2> DEFINE a == [uid |-> ids + 1, name |-> n, admin |-> n \in Deputy,
                     disabled |-> FALSE, usable |-> TRUE, estate |-> FALSE]
    <2>2. /\ ids < MaxUid /\ ids' = ids + 1 /\ users' = [users EXCEPT ![ids + 1] = a]
          /\ Named(n) = {} /\ End(c) /\ UNCHANGED <<sessions, home, drawn, now>>
        BY <2>1 DEF CreateUser
    <2>3. a \in Account
        BY <1>1, <1>2, <2>2 DEF Account
    <2>4. a.uid = ids + 1 /\ a.name = n /\ ~a.estate
        OBVIOUS
    <2> HIDE DEF a
    <2> QED
        BY <2>2, <2>3, <2>4, EndMoves, InsertKeeps
  <1> QED
      BY <1>3, <1>4

LEMMA EditStepKeeps ==
    ASSUME IInv, NEW u \in Present,
           \/ Passwd(u)
           \/ \E c \in Conn : SetPassword(c, u) \/ Enable(c, u) \/ Disable(c, u) \/ DeleteChecks(c, u)
    PROVE  IInv'
  <1> DEFINE a == users[u]
  <1>1. a \in Account /\ u \in Uid /\ \A c \in Conn : req[c] \in Request
      BY IInvTypes
  <1>2. ASSUME NEW b \in Account, b.uid = a.uid, b.name = a.name, b.estate = a.estate,
               users' = [users EXCEPT ![u] = b],
               UNCHANGED <<sessions, home, ids, drawn, now>>, Moves
        PROVE  IInv'
      BY <1>2, EditKeeps
  <1>3. /\ [a EXCEPT !.usable = TRUE] \in Account /\ [a EXCEPT !.disabled = TRUE] \in Account
        /\ [a EXCEPT !.disabled = FALSE] \in Account
      BY <1>1 DEF Account
  <1>4. /\ [a EXCEPT !.usable = TRUE].uid = a.uid /\ [a EXCEPT !.usable = TRUE].name = a.name
        /\ [a EXCEPT !.usable = TRUE].estate = a.estate
      BY <1>1 DEF Account
  <1>5. \A b \in BOOLEAN : /\ [a EXCEPT !.disabled = b].uid = a.uid
                           /\ [a EXCEPT !.disabled = b].name = a.name
                           /\ [a EXCEPT !.disabled = b].estate = a.estate
      BY <1>1 DEF Account
  <1>6. CASE Passwd(u)
    <2>1. Moves
        BY <1>6 DEF Passwd, Moves, IInv, Kinds
    <2>2. users' = [users EXCEPT ![u] = [a EXCEPT !.usable = TRUE]]
        BY <1>6 DEF Passwd
    <2> HIDE DEF a
    <2> QED
        BY <1>2, <1>3, <1>4, <1>6, <2>1, <2>2 DEF Passwd
  <1>7. ASSUME NEW c \in Conn, SetPassword(c, u)
        PROVE  IInv'
    <2>1. Moves
        BY <1>7, EndMoves DEF SetPassword
    <2>2. users' = [users EXCEPT ![u] = [a EXCEPT !.usable = TRUE]]
        BY <1>7 DEF SetPassword
    <2> HIDE DEF a
    <2> QED
        BY <1>2, <1>3, <1>4, <1>7, <2>1, <2>2 DEF SetPassword
  <1>8. ASSUME NEW c \in Conn, Enable(c, u)
        PROVE  IInv'
    <2>1. Moves
        BY <1>8, EndMoves DEF Enable
    <2>2. users' = [users EXCEPT ![u] = [a EXCEPT !.disabled = FALSE]]
        BY <1>8 DEF Enable
    <2> HIDE DEF a
    <2> QED
        BY <1>2, <1>3, <1>5, <1>8, <2>1, <2>2 DEF Enable
  <1>9. ASSUME NEW c \in Conn, Disable(c, u)
        PROVE  IInv'
    <2> DEFINE r == [req[c] EXCEPT !.pc = "sweep", !.target = a]
    <2>1. req' = [req EXCEPT ![c] = r] /\ req[c].pc = "locked"
        BY <1>9 DEF Disable, Admin
    <2>2. r \in Request /\ r.pc = "sweep" /\ r.user = req[c].user
        BY <1>1 DEF Request, Holding
    <2>3. r.user \in Account
        BY <2>1, <2>2 DEF IInv, Requests, Known, Holding
    <2>4. Moves
      <3> HIDE DEF r
      <3>1. req' \in [Conn -> Request] /\ \A d \in Conn : req'[d] = IF d = c THEN r ELSE req[d]
          BY <2>1, <2>2 DEF IInv, Kinds
      <3> QED
          BY <2>2, <2>3, <3>1 DEF Moves
    <2>5. users' = [users EXCEPT ![u] = [a EXCEPT !.disabled = TRUE]]
        BY <1>9 DEF Disable
    <2> HIDE DEF a, r
    <2> QED
        BY <1>2, <1>3, <1>5, <1>9, <2>4, <2>5 DEF Disable
  <1>10. ASSUME NEW c \in Conn, DeleteChecks(c, u)
         PROVE  IInv'
    <2> DEFINE r == [req[c] EXCEPT !.pc = "files", !.target = a]
    <2>1. req' = [req EXCEPT ![c] = r] /\ req[c].pc = "locked"
        BY <1>10 DEF DeleteChecks, Admin
    <2>2. r \in Request /\ r.pc = "files" /\ r.user = req[c].user
        BY <1>1 DEF Request, Holding
    <2>3. r.user \in Account
        BY <2>1, <2>2 DEF IInv, Requests, Known, Holding
    <2>4. home' \in [Names -> SUBSET Uid] /\ UNCHANGED <<users, sessions, ids, drawn, now>>
        BY <1>10 DEF DeleteChecks, IInv, Kinds
    <2> HIDE DEF r
    <2> QED
        BY <2>1, <2>2, <2>3, <2>4, RequestKeeps
  <1> QED
      BY <1>6, <1>7, <1>8, <1>9, <1>10

LEMMA StepIInv == IInv /\ [Next]_vars => IInv'
  <1> SUFFICES ASSUME IInv, [Next]_vars PROVE IInv'
      OBVIOUS
  <1>1. CASE UNCHANGED vars
      BY <1>1 DEF vars, IInv, Kinds, Filed, Keys, Sessions, Requests, ReadWell, Present, Estate
  <1>2. ASSUME NEW t \in Token, Lapse(t)
        PROVE  IInv'
    <2>1. /\ sessions' \in [Token -> Session \cup {NoSession}]
          /\ \A d \in Token : sessions'[d] \in {NoSession, sessions[d]}
        BY <1>2, ClosedShrinks DEF Lapse
    <2> QED
        BY <1>2, <2>1, QuietKeeps DEF Lapse, IInv, Kinds
  <1>3. ASSUME NEW c \in Conn, DeleteUser(c)
        PROVE  IInv'
      BY <1>3, EndMoves, DeleteKeeps DEF DeleteUser
  <1>4. ASSUME NEW c \in Conn, NEW n \in Names, Login(c, n)
        PROVE  IInv'
    <2>1. PICK u \in Named(n) :
            req' = [req EXCEPT ![c] = [Idle EXCEPT !.pc = "session", !.user = users[u]]]
        BY <1>4 DEF Login
    <2> QED
        BY <1>4, <2>1, FoundKeeps DEF Login, Named
  <1>5. CASE Tick
    <2>1. now \in Nat /\ now' = now + 1 /\ now' \in 1..MaxTime
        BY <1>5, AccountConstants DEF AccountConstants, Tick, IInv, Kinds
    <2>2. Kinds' /\ Filed' /\ Keys'
        BY <1>5, <2>1 DEF Tick, IInv, Kinds, Filed, Keys, Present, Estate
    <2>3. Sessions'
      <3>1. \A t \in Token : sessions[t] # NoSession => sessions[t].exp \in Nat
          BY IInvTypes DEF Session
      <3> QED
          BY <1>5, <2>1, <3>1, AccountConstants DEF AccountConstants, Tick, IInv, Sessions, Present
    <2>4. Requests'
        BY <1>5 DEF Tick, IInv, Requests, ReadWell
    <2> QED
        BY <2>2, <2>3, <2>4 DEF IInv
  <1>6. CASE Restart
    <2>1. req' \in [Conn -> Request] /\ \A c \in Conn : req'[c].pc \notin Known \cup {"read"}
        BY <1>6, IdleType DEF Restart, Known, Holding
    <2> QED
        BY <1>6, <2>1, QuietKeeps DEF Restart, IInv, Kinds
  <1> QED
      BY <1>1, <1>2, <1>3, <1>4, <1>5, <1>6, ReadKeeps, EnterKeeps, CreateSessionKeeps,
         QuietStepKeeps, EndingStepKeeps, InsertStepKeeps, EditStepKeeps DEF Next

LEMMA Invariance == Spec => []IInv
  BY InitIInv, StepIInv, PTL DEF Spec

\* The tables keep their constraints, and every request is well formed.
THEOREM TypeCorrect == Spec => []TypeOK
  <1>1. IInv => TypeOK
    <2> SUFFICES ASSUME IInv PROVE TypeOK
        OBVIOUS
    <2>1. ASSUME NEW S, \A u, v \in S : u = v
          PROVE  Cardinality(S) <= 1
      <3>1. CASE S = {}
          BY <3>1, FS_EmptySet
      <3>2. CASE S # {}
        <4>1. PICK u : S = {u}
            BY <2>1, <3>2
        <4> QED
            BY <4>1, FS_Singleton
      <3> QED
          BY <3>1, <3>2
    <2>2. \A n \in Names : Cardinality(Named(n)) <= 1
      <3> SUFFICES ASSUME NEW n \in Names PROVE Cardinality(Named(n)) <= 1
          OBVIOUS
      <3>1. \A u, v \in Named(n) : u = v
          BY DEF Named, IInv, Keys
      <3> QED
          BY <2>1, <3>1
    <2>3. Cardinality(Estate) <= 1
        BY <2>1 DEF IInv, Keys
    <2> QED
        BY <2>2, <2>3 DEF IInv, Kinds, Filed, Sessions, Requests, Known, TypeOK
  <1> QED
      BY <1>1, Invariance, PTL

-----------------------------------------------------------------------------
(* Sessions                                                                  *)

\* A token is drawn once: a session that was logged out, revoked, swept, deleted
\* with its account or has run out is never written again, not by a request that
\* read it before either.
THEOREM SessionsEnd == Spec => LoggedOutStaysOut
  <1> DEFINE StaysOut == \A t \in Token : t <= drawn /\ sessions[t] = NoSession => sessions'[t] = NoSession
  <1>1. IInv /\ [Next]_vars => [StaysOut]_vars
    <2> SUFFICES ASSUME IInv, Next PROVE StaysOut
        BY DEF vars
    <2>1. ASSUME NEW c \in Conn, Enter(c)
          PROVE  StaysOut
        BY <2>1, EnterKeeps
    <2>2. ASSUME NEW c \in Conn, CreateSession(c)
          PROVE  StaysOut
        BY <2>2, CreateSessionKeeps
    <2>3. CASE UNCHANGED sessions
        BY <2>3
    <2>4. ASSUME NEW T, sessions' = Closed(T)
          PROVE  StaysOut
        BY <2>4, ClosedShrinks
    <2>5. ASSUME NEW c \in Conn, Logout(c) \/ RevokeNext(c) \/ SweepSessions(c) \/ DeleteUser(c)
          PROVE  StaysOut
        BY <2>3, <2>4, <2>5 DEF Logout, RevokeNext, SweepSessions, DeleteUser
    <2>6. ASSUME NEW c \in Conn,
                 \/ Answer(c) \/ Lock(c) \/ Knock(c) \/ MakeShadow(c) \/ LookAgain(c)
                 \/ Store(c) \/ ListOthers(c) \/ RemoveUser(c) \/ RemoveFails(c)
          PROVE  UNCHANGED sessions
        BY <2>6 DEF Answer, Lock, Knock, MakeShadow, LookAgain, Store, ListOthers, RemoveUser,
                    RemoveFails
    <2>7. ASSUME NEW c \in Conn, NEW u \in Present,
                 SetPassword(c, u) \/ Enable(c, u) \/ Disable(c, u) \/ DeleteChecks(c, u)
          PROVE  UNCHANGED sessions
        BY <2>7 DEF SetPassword, Enable, Disable, DeleteChecks
    <2>8. ASSUME NEW t \in Token, Lapse(t)
          PROVE  StaysOut
        BY <2>4, <2>8 DEF Lapse
    <2>9. ASSUME NEW c \in Conn,
                 (\E t \in Token : Read(c, t)) \/ (\E n \in Names : Login(c, n)) \/ (\E n \in Name : CreateUser(c, n))
          PROVE  UNCHANGED sessions
        BY <2>9 DEF Read, Login, CreateUser
    <2>10. ASSUME Tick \/ Restart \/ \E u \in Present : Passwd(u)
           PROVE  UNCHANGED sessions
        BY <2>10 DEF Tick, Restart, Passwd
    <2> HIDE DEF StaysOut
    <2> QED
        BY <2>1, <2>2, <2>3, <2>5, <2>6, <2>7, <2>8, <2>9, <2>10 DEF Next
  <1> QED
      BY <1>1, Invariance, PTL DEF Spec, LoggedOutStaysOut

\* Only sliding a session lets in the request that presented it.
LEMMA OnlyEnter ==
    ASSUME IInv, Next, NEW c \in Conn, req[c].pc = "read", req'[c].pc = "in"
    PROVE  Enter(c)
  <1>1. req \in [Conn -> Request] /\ req'[c] # req[c] /\ req'[c] # Idle
      BY IdleType DEF IInv, Kinds
  <1>2. ASSUME NEW d \in Conn, NEW r, req' = [req EXCEPT ![d] = r]
        PROVE  d = c
      BY <1>1, <1>2
  <1>3. ASSUME NEW d \in Conn, End(d)
        PROVE  FALSE
      BY <1>1, <1>2, <1>3, EndTypes DEF End
  <1>4. ASSUME NEW d \in Conn,
               \/ Answer(d) \/ Store(d) \/ Logout(d) \/ SweepSessions(d) \/ RemoveFails(d)
               \/ DeleteUser(d) \/ CreateSession(d) \/ (\E n \in Name : CreateUser(d, n))
               \/ \E u \in Present : SetPassword(d, u) \/ Enable(d, u)
        PROVE  FALSE
      BY <1>3, <1>4 DEF Answer, Store, Logout, SweepSessions, RemoveFails, DeleteUser, CreateSession,
                        CreateUser, SetPassword, Enable
  <1>5. ASSUME NEW d \in Conn, Lock(d) \/ MakeShadow(d) \/ RemoveUser(d) \/ ListOthers(d)
        PROVE  FALSE
      BY <1>1, <1>5 DEF Lock, MakeShadow, RemoveUser, ListOthers
  <1>6. ASSUME NEW d \in Conn, Knock(d) \/ LookAgain(d) \/ RevokeNext(d)
        PROVE  FALSE
    <2>1. CASE Knock(d)
        BY <1>1, <2>1 DEF Knock, Found
    <2>2. CASE LookAgain(d)
        BY <1>1, <1>3, <2>2 DEF LookAgain, Found
    <2>3. CASE RevokeNext(d)
        BY <1>1, <1>3, <2>3 DEF RevokeNext
    <2> QED
        BY <1>6, <2>1, <2>2, <2>3
  <1>7. ASSUME NEW d \in Conn, NEW u \in Present, Disable(d, u) \/ DeleteChecks(d, u)
        PROVE  FALSE
      BY <1>1, <1>7 DEF Disable, DeleteChecks, Admin
  <1>8. ASSUME NEW d \in Conn, (\E t \in Token : Read(d, t)) \/ (\E n \in Names : Login(d, n))
        PROVE  FALSE
      BY <1>1, <1>8 DEF Read, Login
  <1>9. ASSUME \/ Tick \/ Restart \/ (\E u \in Present : Passwd(u)) \/ (\E t \in Token : Lapse(t))
        PROVE  FALSE
      BY <1>1, <1>9 DEF Tick, Restart, Passwd, Lapse
  <1>10. ASSUME NEW d \in Conn, Enter(d)
         PROVE  d = c
      BY <1>1, <1>3, <1>10 DEF Enter
  <1> QED
      BY <1>4, <1>5, <1>6, <1>7, <1>8, <1>9, <1>10 DEF Next

\* The throttle of the sliding never costs a user more than half a lifetime: the
\* session that let a request in lasts that long from then, at least.
THEOREM SlidingEnough == Spec => ActiveStaysIn
  <1> DEFINE Lasts == \A c \in Conn :
               req[c].pc = "read" /\ req'[c].pc = "in" /\ sessions[req[c].tok] # NoSession
                 => sessions'[req[c].tok].exp >= now + TTL - TTL \div 2
  <1>1. IInv /\ [Next]_vars => [Lasts]_vars
    <2> SUFFICES ASSUME IInv, Next, NEW c \in Conn,
                        req[c].pc = "read", req'[c].pc = "in", sessions[req[c].tok] # NoSession
                 PROVE  sessions'[req[c].tok].exp >= now + TTL - TTL \div 2
        BY DEF vars
    <2> DEFINE q == req[c]
    <2>1. /\ q.tok \in Token /\ sessions[q.tok].exp >= q.exp /\ q.exp \in Nat
          /\ sessions[q.tok] \in Session /\ now \in Nat /\ TTL \in Nat
        BY IInvTypes, AccountConstants DEF AccountConstants, IInv, Kinds, Requests, ReadWell, Request
    <2>2. Enter(c)
        BY OnlyEnter
    <2>3. sessions' = IF Due(q.exp) THEN [sessions EXCEPT ![q.tok].exp = now + TTL] ELSE sessions
        BY <2>2, EndTypes, IdleType DEF Enter
    <2>4. TTL \div 2 \in Nat
        BY <2>1
    <2>5. CASE Due(q.exp)
      <3>1. sessions'[q.tok].exp = now + TTL
          BY <2>1, <2>3, <2>5 DEF IInv, Kinds, Session
      <3> QED
          BY <2>1, <2>4, <3>1
    <2>6. CASE ~Due(q.exp)
      <3>1. now + TTL <= q.exp + TTL \div 2
          BY <2>1, <2>4, <2>6 DEF Due
      <3>2. sessions'[q.tok] = sessions[q.tok] /\ sessions[q.tok].exp \in Nat
          BY <2>1, <2>3, <2>6 DEF Session
      <3> QED
          BY <2>1, <2>4, <3>1, <3>2
    <2> QED
        BY <2>5, <2>6
  <1> QED
      BY <1>1, Invariance, PTL DEF Spec, ActiveStaysIn

-----------------------------------------------------------------------------
(* The files of accounts, where there is one administrator                   *)

\* Only the first account is an administrator's.
Sole == /\ \A u \in Present : users[u].admin => users[u].name = Root
        /\ \A c \in Conn : req[c].pc \in Known /\ req[c].user.admin => req[c].user.name = Root

\* Nobody else holds the lock of the user a mutation acts for.
Exclusive == \A c, d \in Conn :
    req[c].pc \in Holding /\ req[d].pc \in Holding /\ req[c].user.name = req[d].user.name => c = d

Acting == \A c \in Conn : req[c].pc \in {"sweep", "files", "row"} => req[c].user.admin

\* An account is gone, or has the name it was known by; ids are not given twice.
StillNamed(u, n) == u <= ids /\ (users[u] = NoUser \/ users[u].name = n)

OwnFiles ==
    /\ \A n \in Names : \A u \in home[n] : StillNamed(u, n)
    /\ \A c \in Conn : req[c].pc \in Known => StillNamed(req[c].user.uid, req[c].user.name)

\* The account whose files are being removed is still there, and disabled.
Condemned == \A c \in Conn : req[c].pc = "files" =>
    LET u == req[c].target IN
    /\ u.uid \in Present
    /\ users[u.uid].name = u.name /\ users[u.uid].disabled

Alone == Sole /\ Exclusive /\ Acting /\ OwnFiles /\ Condemned

LEMMA InitAlone == Init => Alone
  <1> SUFFICES ASSUME Init PROVE Alone
      OBVIOUS
  <1>1. users = [u \in Uid |-> IF u = 1 THEN InitAccount ELSE NoUser] /\ InitAccount.name = Root
      BY DEF Init, InitAccount
  <1>2. \A u \in Present : users[u].name = Root
      BY <1>1 DEF Present
  <1>3. \A c \in Conn : req[c].pc = "idle"
      BY IdleType DEF Init
  <1> QED
      BY <1>2, <1>3 DEF Init, Alone, Sole, Exclusive, Acting, OwnFiles, Condemned, Known, Holding

\* What a step may do to the accounts: their names stay, and none becomes an
\* administrator's.
Kept == /\ ids' >= ids /\ ids' \in Nat
        /\ \A u \in Present' : \/ /\ u \in Present
                                  /\ users'[u].name = users[u].name /\ users'[u].admin = users[u].admin
                               \/ u > ids /\ ~users'[u].admin

\* To a request: it goes on for the user it came for, or comes for an account as
\* it is, and takes a lock that is free.
Follows(c) ==
    \/ req'[c].pc \notin Known
    \/ /\ req[c].pc \in Known /\ req'[c].pc \in Known /\ req'[c].user = req[c].user
       /\ req'[c].pc \in Holding =>
            \/ req[c].pc \in Holding
            \/ \A d \in Conn \ {c} : req[d].pc \in Holding => req[d].user.name # req[c].user.name
       /\ req'[c].pc \in {"sweep", "files", "row"} => req[c].user.admin
    \/ req'[c].pc \in {"in", "session"} /\ \E u \in Present : req'[c].user = users[u]

\* To the files: a request leaves one under the name it came in with.
Adds == \A n \in Names : \A u \in home'[n] :
            \/ u \in home[n]
            \/ \E c \in Conn : req[c].pc \in Known /\ req[c].user.uid = u /\ req[c].user.name = n

LEMMA AloneKeeps ==
    ASSUME IInv, IInv', Alone, Kept, Adds, Condemned', NEW c, c \in Conn => Follows(c),
           \A d \in Conn \ {c} : req'[d] = req[d]
    PROVE  Alone'
  <1>1. /\ ids \in Nat /\ \A u \in Present : u \in Nat /\ u <= ids
        /\ \A u \in Present : users[u] \in Account
      BY IInvTypes DEF IInv, Kinds, Filed, Uid
  <1>2. Sole'
    <2>1. \A u \in Present' : users'[u].admin => users'[u].name = Root
        BY DEF Kept, Alone, Sole
    <2>2. ASSUME NEW d \in Conn, req'[d].pc \in Known, req'[d].user.admin
          PROVE  req'[d].user.name = Root
        BY <2>2 DEF Follows, Alone, Sole
    <2> QED
        BY <2>1, <2>2 DEF Sole
  <1>3. Exclusive'
    <2> SUFFICES ASSUME NEW d \in Conn, NEW e \in Conn, d # e,
                        req'[d].pc \in Holding, req'[e].pc \in Holding,
                        req'[d].user.name = req'[e].user.name
                 PROVE  FALSE
        BY DEF Exclusive
    <2>1. \A f \in Conn : req'[f].pc \in Holding => f # c \/ (req'[c].user = req[c].user)
        BY DEF Follows, Holding, Known
    <2>2. req'[d].user.name = req[d].user.name /\ req'[e].user.name = req[e].user.name
        BY <2>1
    <2>3. req[d].pc \in Holding \/ d = c
        OBVIOUS
    <2>4. req[e].pc \in Holding \/ e = c
        OBVIOUS
    <2>5. CASE d # c /\ e # c
        BY <2>2, <2>5 DEF Alone, Exclusive
    <2>6. CASE d = c
        BY <2>2, <2>6 DEF Alone, Exclusive, Follows, Holding, Known
    <2>7. CASE e = c
        BY <2>2, <2>7 DEF Alone, Exclusive, Follows, Holding, Known
    <2> QED
        BY <2>5, <2>6, <2>7
  <1>4. Acting'
    <2> SUFFICES ASSUME NEW d \in Conn, req'[d].pc \in {"sweep", "files", "row"}
                 PROVE  req'[d].user.admin
        BY DEF Acting
    <2> QED
        BY DEF Alone, Acting, Follows, Holding, Known
  <1>5. \A u \in Uid, n \in Names : StillNamed(u, n) => u <= ids' /\ (users'[u] = NoUser \/ users'[u].name = n)
    <2> SUFFICES ASSUME NEW u \in Uid, NEW n \in Names, StillNamed(u, n), users'[u] # NoUser
                 PROVE  u <= ids' /\ users'[u].name = n
        BY <1>1 DEF StillNamed, Kept, Uid
    <2>1. u \in Present' /\ u \in Nat /\ u <= ids
        BY DEF Present, StillNamed, Uid
    <2>2. ~(u > ids)
        BY <1>1, <2>1
    <2> QED
        BY <1>1, <2>1, <2>2 DEF Kept, Present, StillNamed
  <1>6. \A d \in Conn : req[d].pc \in Known => /\ req[d].user.uid \in Uid /\ req[d].user.name \in Names
                                               /\ StillNamed(req[d].user.uid, req[d].user.name)
      BY DEF IInv, Requests, Account, Alone, OwnFiles
  <1>7. \A u \in Present : /\ users[u].uid \in Uid /\ users[u].name \in Names
                           /\ StillNamed(users[u].uid, users[u].name)
      BY <1>1, IInvTypes DEF Account, StillNamed
  <1>8. OwnFiles'
    <2>1. ASSUME NEW n \in Names, NEW u \in home'[n]
          PROVE  StillNamed(u, n)'
      <3>1. u \in Uid /\ StillNamed(u, n)
          BY <1>6, <2>1 DEF Adds, IInv, Kinds, Alone, OwnFiles
      <3> QED
          BY <1>5, <3>1 DEF StillNamed
    <2>2. ASSUME NEW d \in Conn, req'[d].pc \in Known
          PROVE  StillNamed(req[d].user.uid, req[d].user.name)'
      <3>1. \/ req[d].pc \in Known /\ req'[d].user = req[d].user
            \/ \E u \in Present : req'[d].user = users[u]
          BY <2>2 DEF Follows
      <3>2. /\ req'[d].user.uid \in Uid /\ req'[d].user.name \in Names
            /\ StillNamed(req'[d].user.uid, req'[d].user.name)
          BY <1>6, <1>7, <3>1
      <3> QED
          BY <1>5, <3>2 DEF StillNamed
    <2> QED
        BY <2>1, <2>2 DEF OwnFiles
  <1> QED
      BY <1>2, <1>3, <1>4, <1>8 DEF Alone

LEMMA CondemnedKeeps ==
    ASSUME Alone,
           \A d \in Conn : req'[d].pc = "files" => req[d].pc = "files" /\ req'[d].target = req[d].target,
           \A u \in Present : users[u].disabled =>
              u \in Present' /\ users'[u].name = users[u].name /\ users'[u].disabled
    PROVE  Condemned'
  BY DEF Alone, Condemned

\* Where an administrator holds the lock, nobody else removes files.
LEMMA NobodyRemoves ==
    ASSUME Alone, NEW c \in Conn, req[c].pc \in Holding, req[c].user.admin
    PROVE  \A d \in Conn \ {c} : req[d].pc # "files"
  BY DEF Alone, Sole, Exclusive, Acting, Holding, Known

LEMMA UsersStay ==
    ASSUME IInv, UNCHANGED <<users, ids>>
    PROVE  Kept
  BY DEF IInv, Kinds, Kept, Present, Uid

LEMMA HomeStays ==
    ASSUME UNCHANGED home
    PROVE  Adds
  BY DEF Adds

\* What the steps of a request that leave the accounts as they are do to it.
LEMMA QuietFollows ==
    ASSUME IInv, Alone, NEW c \in Conn,
           \/ Enter(c) \/ Answer(c) \/ Lock(c) \/ CreateSession(c) \/ Knock(c) \/ LookAgain(c)
           \/ Store(c) \/ Logout(c) \/ ListOthers(c) \/ RevokeNext(c) \/ SweepSessions(c)
           \/ RemoveUser(c) \/ RemoveFails(c)
           \/ (\E t \in Token : Read(c, t)) \/ \E n \in Names : Login(c, n)
    PROVE  /\ Follows(c) /\ UNCHANGED <<users, ids>> /\ req'[c].pc # "files"
           /\ \A d \in Conn \ {c} : req'[d] = req[d]
  <1>1. req \in [Conn -> Request]
      BY DEF IInv, Kinds
  <1>2. ASSUME End(c)
        PROVE  Follows(c) /\ req'[c].pc # "files" /\ \A d \in Conn \ {c} : req'[d] = req[d]
      BY <1>2, EndTypes, IdleType DEF Follows
  <1>3. ASSUME NEW u \in Present, NEW pc \in {"session", "in"},
               req' = [req EXCEPT ![c] = [Idle EXCEPT !.pc = pc, !.user = users[u]]]
        PROVE  Follows(c) /\ req'[c].pc # "files" /\ \A d \in Conn \ {c} : req'[d] = req[d]
    <2>1. /\ req'[c].pc = pc /\ req'[c].user = users[u]
          /\ \A d \in Conn \ {c} : req'[d] = req[d]
        BY <1>1, <1>3, IdleType DEF Request
    <2> QED
        BY <2>1 DEF Follows, Holding, Known
  <1>4. CASE Answer(c) \/ CreateSession(c) \/ Store(c) \/ Logout(c) \/ SweepSessions(c) \/ RemoveFails(c)
      BY <1>2, <1>4 DEF Answer, CreateSession, Store, Logout, SweepSessions, RemoveFails
  <1>5. CASE Enter(c)
    <2>1. CASE End(c)
        BY <1>2, <1>5, <2>1 DEF Enter
    <2>2. CASE ~End(c)
      <3>1. /\ req' = [req EXCEPT ![c].pc = "in", ![c].exp = 0, ![c].user = users[req[c].user.uid]]
            /\ req[c].user.uid \in Present
          BY <1>5, <2>2 DEF Enter
      <3>2. /\ req'[c].pc = "in" /\ req'[c].user = users[req[c].user.uid]
            /\ \A d \in Conn \ {c} : req'[d] = req[d]
          BY <1>1, <3>1 DEF Request
      <3> QED
          BY <1>5, <3>1, <3>2 DEF Follows, Enter
    <2> QED
        BY <2>1, <2>2
  <1>6. CASE Lock(c)
    <2>1. /\ req'[c].pc = "locked" /\ req'[c].user = req[c].user /\ req[c].pc = "in"
          /\ \A d \in Conn \ {c} : req'[d] = req[d]
        BY <1>1, <1>6 DEF Lock, Request
    <2> QED
        BY <1>6, <2>1 DEF Lock, Follows, Known, Holding
  <1>7. CASE Knock(c)
    <2>1. CASE Estate = {}
      <3>1. req'[c].pc = "shadow" /\ \A d \in Conn \ {c} : req'[d] = req[d]
          BY <1>1, <1>7, <2>1 DEF Knock, Request
      <3> QED
          BY <1>7, <3>1 DEF Knock, Follows, Known, Holding
    <2>2. CASE Estate # {}
      <3>1. PICK u \in Estate : Found(c, u)
          BY <1>7, <2>2 DEF Knock
      <3> QED
          BY <1>3, <1>7, <3>1 DEF Found, Knock, Estate
    <2> QED
        BY <2>1, <2>2
  <1>8. CASE LookAgain(c)
    <2>1. CASE End(c)
        BY <1>2, <1>8, <2>1 DEF LookAgain
    <2>2. CASE \E u \in Estate : Found(c, u)
        BY <1>3, <1>8, <2>2 DEF Found, LookAgain, Estate
    <2> QED
        BY <1>8, <2>1, <2>2 DEF LookAgain
  <1>9. CASE ListOthers(c)
    <2>1. /\ req'[c].pc = "revoke" /\ req'[c].user = req[c].user /\ req[c].pc = "locked"
          /\ \A d \in Conn \ {c} : req'[d] = req[d]
        BY <1>1, <1>9 DEF ListOthers, Request
    <2> QED
        BY <1>9, <2>1 DEF ListOthers, Follows, Known, Holding
  <1>10. CASE RevokeNext(c)
    <2>1. CASE End(c)
        BY <1>2, <1>10, <2>1 DEF RevokeNext
    <2>2. CASE ~End(c)
      <3>1. PICK t : req' = [req EXCEPT ![c].left = @ \ {t}]
          BY <1>10, <2>2 DEF RevokeNext
      <3>2. /\ req'[c].pc = "revoke" /\ req'[c].user = req[c].user /\ req[c].pc = "revoke"
            /\ \A d \in Conn \ {c} : req'[d] = req[d]
          BY <1>1, <1>10, <3>1 DEF RevokeNext, Request
      <3> QED
          BY <1>10, <3>2 DEF RevokeNext, Follows, Known, Holding
    <2> QED
        BY <2>1, <2>2
  <1>12. CASE \E n \in Names : Login(c, n)
    <2>1. PICK n \in Names : Login(c, n)
        BY <1>12
    <2>2. PICK u \in Named(n) :
            req' = [req EXCEPT ![c] = [Idle EXCEPT !.pc = "session", !.user = users[u]]]
        BY <2>1 DEF Login
    <2> QED
        BY <1>3, <2>1, <2>2 DEF Login, Named
  <1>13. CASE \E t \in Token : Read(c, t)
    <2>1. req'[c].pc = "read" /\ \A d \in Conn \ {c} : req'[d] = req[d]
        BY <1>13, ReadKeeps
    <2>2. UNCHANGED <<users, ids>>
        BY <1>13 DEF Read
    <2>3. Follows(c)
        BY <2>1 DEF Follows, Known, Holding
    <2> QED
        BY <2>1, <2>2, <2>3
  <1>14. CASE RemoveUser(c)
    <2>1. /\ req'[c].pc = "row" /\ req'[c].user = req[c].user /\ req[c].pc = "files"
          /\ \A d \in Conn \ {c} : req'[d] = req[d]
        BY <1>1, <1>14 DEF RemoveUser, Request
    <2> QED
        BY <1>14, <2>1 DEF RemoveUser, Follows, Known, Holding, Alone, Acting
  <1> QED
      BY <1>4, <1>5, <1>6, <1>7, <1>8, <1>9, <1>10, <1>12, <1>13, <1>14

LEMMA QuietAlone ==
    ASSUME IInv, IInv', Alone, NEW c \in Conn,
           \/ Enter(c) \/ Answer(c) \/ Lock(c) \/ CreateSession(c) \/ Knock(c) \/ LookAgain(c)
           \/ Store(c) \/ Logout(c) \/ ListOthers(c) \/ RevokeNext(c) \/ SweepSessions(c)
           \/ RemoveUser(c) \/ RemoveFails(c)
           \/ (\E t \in Token : Read(c, t)) \/ \E n \in Names : Login(c, n)
    PROVE  Alone'
  <1>1. /\ Follows(c) /\ UNCHANGED <<users, ids>> /\ req'[c].pc # "files"
        /\ \A d \in Conn \ {c} : req'[d] = req[d]
      BY QuietFollows
  <1>2. Condemned'
      BY <1>1, CondemnedKeeps DEF Present
  <1>3. Adds
    <2>1. CASE UNCHANGED home
        BY <2>1, HomeStays
    <2>2. CASE Store(c)
        BY <2>2 DEF Adds, Store, IInv, Kinds, Known, Holding
    <2>3. CASE RemoveUser(c)
        BY <2>3 DEF Adds, RemoveUser, IInv, Kinds
    <2> QED
        BY <2>1, <2>2, <2>3 DEF Enter, Answer, Lock, CreateSession, Knock, LookAgain, Logout, ListOthers,
             RevokeNext, SweepSessions, RemoveFails, Read, Login
  <1> QED
      BY <1>1, <1>2, <1>3, UsersStay, AloneKeeps

\* An account is made by a request that keeps no lock afterwards.
LEMMA InsertAlone ==
    ASSUME IInv, IInv', Alone, Deputy = {}, NEW c \in Conn, MakeShadow(c) \/ \E n \in Name : CreateUser(c, n)
    PROVE  Alone'
  <1>1. req \in [Conn -> Request] /\ users \in [Uid -> Account \cup {NoUser}] /\ ids \in Nat
        /\ \A u \in Present : u \in Uid /\ u \in Nat /\ u <= ids
      BY DEF IInv, Kinds, Filed, Present, Uid
  <1>2. UNCHANGED home /\ req'[c].pc \notin Known /\ \A d \in Conn \ {c} : req'[d] = req[d]
    <2>1. CASE MakeShadow(c)
        BY <1>1, <2>1 DEF MakeShadow, Known, Holding, Request
    <2>2. CASE \E n \in Name : CreateUser(c, n)
        BY <2>2, EndTypes DEF CreateUser
    <2> QED
        BY <2>1, <2>2
  <1>3. \/ UNCHANGED <<users, ids>>
        \/ ids' = ids + 1 /\ \E a : ~a.admin /\ users' = [users EXCEPT ![ids + 1] = a]
    <2>1. CASE MakeShadow(c)
      <3> DEFINE a == [uid |-> ids + 1, name |-> Shadow, admin |-> FALSE,
                       disabled |-> FALSE, usable |-> FALSE, estate |-> TRUE]
      <3>1. ~a.admin
          OBVIOUS
      <3>2. \/ UNCHANGED <<users, ids>>
            \/ ids' = ids + 1 /\ users' = [users EXCEPT ![ids + 1] = a]
          BY <2>1 DEF MakeShadow
      <3> HIDE DEF a
      <3> QED
          BY <3>1, <3>2
    <2>2. CASE \E n \in Name : CreateUser(c, n)
      <3>1. PICK n \in Name : CreateUser(c, n)
          BY <2>2
      <3> DEFINE a == [uid |-> ids + 1, name |-> n, admin |-> n \in Deputy,
                       disabled |-> FALSE, usable |-> TRUE, estate |-> FALSE]
      <3>2. ~a.admin
          OBVIOUS
      <3>3. ids' = ids + 1 /\ users' = [users EXCEPT ![ids + 1] = a]
          BY <3>1 DEF CreateUser
      <3> HIDE DEF a
      <3> QED
          BY <3>2, <3>3
    <2> QED
        BY <2>1, <2>2
  <1>4. \A u \in Present : u \in Present' /\ users'[u] = users[u]
      BY <1>1, <1>3 DEF Present
  <1>5. \A u \in Present' : u \in Present \/ (u = ids + 1 /\ ~users'[u].admin)
      BY <1>1, <1>3 DEF Present
  <1>6. Kept
      BY <1>1, <1>3, <1>4, <1>5 DEF Kept
  <1>7. Condemned'
    <2>1. \A d \in Conn : req'[d].pc = "files" => req'[d] = req[d]
        BY <1>2 DEF Known, Holding
    <2> QED
        BY <1>4, <2>1, CondemnedKeeps
  <1> QED
      BY <1>2, <1>6, <1>7, HomeStays, AloneKeeps DEF Follows

\* A row changes that keeps its name, in a step of an administrator's request or
\* of none.
LEMMA EditAlone ==
    ASSUME IInv, IInv', Alone, NEW u \in Present,
           \/ Passwd(u)
           \/ \E c \in Conn : SetPassword(c, u) \/ Enable(c, u) \/ Disable(c, u) \/ DeleteChecks(c, u)
    PROVE  Alone'
  <1>1. /\ req \in [Conn -> Request] /\ users \in [Uid -> Account \cup {NoUser}]
        /\ users[u] \in Account /\ u \in Uid
        /\ users' \in [Uid -> Account \cup {NoUser}] /\ ids \in Nat
        /\ users[u].uid = u
      BY IInvTypes DEF IInv, Kinds, Uid
  <1>2. ASSUME NEW b \in BOOLEAN, NEW a,
               \/ a = [users[u] EXCEPT !.disabled = b]
               \/ a = [users[u] EXCEPT !.usable = b]
        PROVE  a \in Account /\ a # NoUser /\ a.name = users[u].name /\ a.admin = users[u].admin
               /\ (a = [users[u] EXCEPT !.usable = b] => a.disabled = users[u].disabled)
               /\ (a = [users[u] EXCEPT !.disabled = b] => a.disabled = b)
    <2>1. a \in Account
        BY <1>1, <1>2 DEF Account
    <2> QED
        BY <2>1, <1>1, <1>2, NoRow DEF Account
  <1>3. ASSUME NEW a \in Account, a # NoUser, a.name = users[u].name, a.admin = users[u].admin,
               users' = [users EXCEPT ![u] = a], ids' = ids
        PROVE  /\ Kept /\ Present' = Present /\ users'[u] = a
               /\ \A v \in Present \ {u} : users'[v] = users[v]
    <2>1. \A v \in Uid : users'[v] = IF v = u THEN a ELSE users[v]
        BY <1>1, <1>3
    <2>2. Present' = Present
        BY <1>1, <1>3, <2>1 DEF Present
    <2> QED
        BY <1>1, <1>3, <2>1, <2>2 DEF Kept, Present
  <1>4. CASE Passwd(u) \/ \E c \in Conn : SetPassword(c, u)
    <2> DEFINE a == [users[u] EXCEPT !.usable = TRUE]
    <2>1. /\ a \in Account /\ a # NoUser /\ a.name = users[u].name /\ a.admin = users[u].admin
          /\ a.disabled = users[u].disabled
        BY <1>2
    <2>2. users' = [users EXCEPT ![u] = a] /\ ids' = ids /\ UNCHANGED home
        BY <1>4 DEF Passwd, SetPassword
    <2> HIDE DEF a
    <2>3. Kept /\ \A v \in Present : v \in Present' /\ users'[v].name = users[v].name
                                     /\ users'[v].disabled = users[v].disabled
        BY <1>3, <2>1, <2>2
    <2>4. CASE Passwd(u)
      <3>1. req' = req
          BY <2>4 DEF Passwd
      <3>2. Condemned'
          BY <2>3, <3>1, CondemnedKeeps
      <3>3. 0 \in Conn => Follows(0)
          BY <3>1 DEF Follows, Known, Holding, Alone, Acting
      <3> QED
          BY <2>2, <2>3, <3>1, <3>2, <3>3, HomeStays, AloneKeeps
    <2>5. CASE \E c \in Conn : SetPassword(c, u)
      <3>1. PICK c \in Conn : SetPassword(c, u)
          BY <2>5
      <3>2. /\ Follows(c) /\ req'[c].pc # "files" /\ \A d \in Conn \ {c} : req'[d] = req[d]
          BY <3>1, EndTypes, IdleType DEF SetPassword, Follows
      <3>3. Condemned'
          BY <2>3, <3>2, CondemnedKeeps
      <3> QED
          BY <2>2, <2>3, <3>2, <3>3, HomeStays, AloneKeeps
    <2> QED
        BY <1>4, <2>4, <2>5
  <1>5. ASSUME NEW c \in Conn, Enable(c, u)
        PROVE  Alone'
    <2> DEFINE a == [users[u] EXCEPT !.disabled = FALSE]
    <2>1. a \in Account /\ a # NoUser /\ a.name = users[u].name /\ a.admin = users[u].admin
        BY <1>2
    <2>2. users' = [users EXCEPT ![u] = a] /\ ids' = ids /\ UNCHANGED home
        BY <1>5 DEF Enable
    <2> HIDE DEF a
    <2>3. Kept
        BY <1>3, <2>1, <2>2
    <2>4. /\ Follows(c) /\ req'[c].pc # "files" /\ \A d \in Conn \ {c} : req'[d] = req[d]
        BY <1>5, EndTypes, IdleType DEF Enable, Follows
    <2>5. \A d \in Conn : req'[d].pc # "files"
        BY <1>5, <2>4, NobodyRemoves DEF Enable, Admin, Holding
    <2>6. Condemned'
        BY <2>5 DEF Condemned
    <2> QED
        BY <2>2, <2>3, <2>4, <2>6, HomeStays, AloneKeeps
  <1>6. ASSUME NEW c \in Conn, Disable(c, u)
        PROVE  Alone'
    <2> DEFINE a == [users[u] EXCEPT !.disabled = TRUE]
    <2>1. /\ a \in Account /\ a # NoUser /\ a.name = users[u].name /\ a.admin = users[u].admin
          /\ a.disabled
        BY <1>2
    <2>2. users' = [users EXCEPT ![u] = a] /\ ids' = ids /\ UNCHANGED home
        BY <1>6 DEF Disable
    <2> HIDE DEF a
    <2>3. Kept /\ \A v \in Present : v \in Present' /\ users'[v].name = users[v].name
                                     /\ (users[v].disabled => users'[v].disabled)
        BY <1>3, <2>1, <2>2
    <2>4. /\ req'[c].pc = "sweep" /\ req'[c].user = req[c].user /\ req[c].pc = "locked"
          /\ \A d \in Conn \ {c} : req'[d] = req[d]
        BY <1>1, <1>6 DEF Disable, Admin, Request
    <2>5. Follows(c)
        BY <1>6, <2>4 DEF Disable, Admin, Follows, Known, Holding
    <2>6. Condemned'
        BY <2>3, <2>4, CondemnedKeeps
    <2> QED
        BY <2>2, <2>3, <2>4, <2>5, <2>6, HomeStays, AloneKeeps
  <1>7. ASSUME NEW c \in Conn, DeleteChecks(c, u)
        PROVE  Alone'
    <2>1. /\ req'[c].pc = "files" /\ req'[c].user = req[c].user /\ req[c].pc = "locked"
          /\ req'[c].target = users[u] /\ \A d \in Conn \ {c} : req'[d] = req[d]
        BY <1>1, <1>7 DEF DeleteChecks, Admin, Request
    <2>2. UNCHANGED <<users, ids, home>> /\ users[u].disabled
        BY <1>7 DEF DeleteChecks
    <2>3. Follows(c)
        BY <1>7, <2>1 DEF DeleteChecks, Admin, Follows, Known, Holding
    <2>4. Condemned'
        BY <1>1, <2>1, <2>2 DEF Alone, Condemned, Present
    <2> QED
        BY <2>1, <2>2, <2>3, <2>4, UsersStay, HomeStays, AloneKeeps
  <1> QED
      BY <1>4, <1>5, <1>6, <1>7

LEMMA DeleteAlone ==
    ASSUME IInv, IInv', Alone, NEW c \in Conn, DeleteUser(c)
    PROVE  Alone'
  <1> DEFINE t == req[c].target.uid
  <1>1. \A v \in Uid : users'[v] = IF v = t THEN NoUser ELSE users[v]
      BY DEF DeleteUser, IInv, Kinds
  <1>2. Kept
      BY <1>1 DEF DeleteUser, Kept, Present, IInv, Kinds, Uid
  <1>3. /\ Follows(c) /\ req'[c].pc # "files" /\ \A d \in Conn \ {c} : req'[d] = req[d]
      BY EndTypes, IdleType DEF DeleteUser, Follows
  <1>4. req[c].pc \in Holding /\ req[c].user.admin
      BY DEF DeleteUser, Holding, Alone, Acting
  <1>5. \A d \in Conn : req'[d].pc # "files"
      BY <1>3, <1>4, NobodyRemoves
  <1>6. Condemned' /\ UNCHANGED home
      BY <1>5 DEF Condemned, DeleteUser
  <1> QED
      BY <1>2, <1>3, <1>6, HomeStays, AloneKeeps

LEMMA StepAlone == IInv /\ IInv' /\ Alone /\ Deputy = {} /\ [Next]_vars => Alone'
  <1> SUFFICES ASSUME IInv, IInv', Alone, Deputy = {}, [Next]_vars PROVE Alone'
      OBVIOUS
  <1>1. ASSUME UNCHANGED <<users, ids, home, req>>
        PROVE  Alone'
      BY <1>1 DEF Alone, Sole, Exclusive, Acting, OwnFiles, StillNamed, Condemned, Present
  <1>2. CASE UNCHANGED vars \/ Tick \/ \E t \in Token : Lapse(t)
      BY <1>1, <1>2 DEF vars, Tick, Lapse
  <1>3. CASE Restart
    <2>1. UNCHANGED <<users, ids, home>> /\ \A c \in Conn : req'[c].pc = "idle"
        BY <1>3, IdleType DEF Restart
    <2> QED
        BY <2>1 DEF Alone, Sole, Exclusive, Acting, OwnFiles, StillNamed, Condemned, Present, Known, Holding
  <1> QED
      BY <1>2, <1>3, QuietAlone, InsertAlone, EditAlone, DeleteAlone DEF Next

\* Where there is one administrator, the files of an account that is not disabled
\* are never removed, nor those of the account that has come to its name: the
\* administrator's lock keeps the account disabled from the check to the removal.
THEOREM FilesKept == ASSUME Deputy = {} PROVE Spec => FilesStay
  <1> DEFINE Stay == \A n \in Names : \A u \in home[n] \ home'[n] :
                       users[u] = NoUser \/ users[u].disabled
  <1>1. Spec => []Alone
      BY InitAlone, StepAlone, Invariance, PTL DEF Spec
  <1>2. IInv /\ Alone /\ [Next]_vars => [Stay]_vars
    <2> SUFFICES ASSUME IInv, Alone, Next, NEW n \in Names, NEW u \in home[n] \ home'[n],
                        users[u] # NoUser
                 PROVE  users[u].disabled
        BY DEF vars
    <2>1. home \in [Names -> SUBSET Uid] /\ u \in Present /\ users[u].name = n
        BY DEF IInv, Kinds, Alone, OwnFiles, StillNamed, Present
    <2>2. PICK c \in Conn : RemoveUser(c)
      <3>1. UNCHANGED home => FALSE
          OBVIOUS
      <3>2. ASSUME NEW c \in Conn, Store(c)
            PROVE  FALSE
          BY <2>1, <3>2 DEF Store
      <3>3. ASSUME ~\E c \in Conn : RemoveUser(c)
            PROVE  UNCHANGED home \/ \E c \in Conn : Store(c)
          BY <3>3 DEF Next, Lapse, Read, Enter, Answer, Lock, CreateSession, Knock, MakeShadow, LookAgain,
                Logout, ListOthers, RevokeNext, SweepSessions, RemoveFails, DeleteUser, Login, CreateUser,
                SetPassword, Enable, Disable, DeleteChecks, Passwd, Tick, Restart
      <3> QED
          BY <3>1, <3>2, <3>3
    <2>3. n = req[c].target.name
        BY <2>1, <2>2 DEF RemoveUser
    <2>4. /\ req[c].target.uid \in Present /\ users[req[c].target.uid].name = n
          /\ users[req[c].target.uid].disabled
        BY <2>2, <2>3 DEF RemoveUser, Alone, Condemned
    <2>5. u = req[c].target.uid
        BY <2>1, <2>4 DEF IInv, Keys
    <2> QED
        BY <2>4, <2>5
  <1> QED
      BY <1>1, <1>2, Invariance, PTL DEF Spec, FilesStay

=============================================================================
