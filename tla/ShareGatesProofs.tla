---------------------------- MODULE ShareGatesProofs ----------------------------
(***************************************************************************)
(* Theorems about ShareGates, for any shares, visitors, requests, cap,     *)
(* lifetime, limit and window.                                             *)
(***************************************************************************)
EXTENDS ShareGates, FiniteSetTheorems, TLAPS

\* A request that is in flight is somebody's, for some share.
Asked == \A c \in Conn : req[c].pc # "idle" => req[c].who \in Visitor /\ req[c].share \in Share

\* The grants in the map were issued by this process, under numbers of their own,
\* and a cookie holds a number that was drawn - by an earlier process perhaps,
\* which this one does not draw again.
GrantsKnown ==
    /\ grants \subseteq issued
    /\ \A g \in issued : g.id <= drawn
    /\ \A v \in Visitor, s \in Share :
         /\ cookie[v][s] <= drawn
         /\ \A g \in issued : g.id = cookie[v][s] /\ g.share = s => g.who = v

IInv == TypeOK /\ Asked /\ GrantsKnown

-----------------------------------------------------------------------------
\* What the sweep and the cap leave was there before.
LEMMA CappedIsPart ==
    ASSUME NEW G, NEW K \in Capped(Swept(G))
    PROVE  K \subseteq G
  BY DEF Capped, Swept

LEMMA InitIInv == Init => IInv
  <1> SUFFICES ASSUME Init PROVE IInv
      OBVIOUS
  <1>1. TypeOK
      BY GateConstants DEF GateConstants, Init, TypeOK, Request, NoRequest, NoBucket
  <1>2. Asked
      BY DEF Init, Asked, NoRequest
  <1>3. GrantsKnown
      BY DEF Init, GrantsKnown
  <1> QED
      BY <1>1, <1>2, <1>3 DEF IInv

-----------------------------------------------------------------------------
(* The step that issues a grant, then the others.                            *)

LEMMA UnlockKeeps ==
    ASSUME IInv, NEW c \in Conn, Unlock(c)
    PROVE  IInv'
  <1> DEFINE q == req[c]
             g == [id |-> drawn + 1, share |-> q.share, who |-> q.who, exp |-> now + TTL]
  <1>1. q.who \in Visitor /\ q.share \in Share /\ q.pc = "verify"
      BY DEF IInv, Asked, Unlock
  <1>2. g \in Grant
      BY <1>1, GateConstants DEF GateConstants, IInv, TypeOK, Unlock, Grant
  <1>3. grants' \subseteq grants \cup {g} /\ issued' = issued \cup {g} /\ drawn' = drawn + 1
      BY CappedIsPart DEF Unlock
  <1>4. cookie' = [cookie EXCEPT ![q.who][q.share] = drawn + 1]
      BY DEF Unlock
  <1>5. drawn \in Nat /\ drawn + 1 <= MaxGrant
      BY GateConstants DEF GateConstants, IInv, TypeOK, Unlock
  <1>6. req' = [req EXCEPT ![c] = NoRequest] /\ UNCHANGED <<locked, rate, now, restarts>>
      BY DEF Unlock
  <1>7. TypeOK'
    <2>1. grants' \in SUBSET Grant /\ issued' \in SUBSET Grant /\ drawn' \in 0..MaxGrant
        BY <1>2, <1>3, <1>5, GateConstants DEF GateConstants, IInv, TypeOK
    <2>2. cookie' \in [Visitor -> [Share -> 0..MaxGrant]]
        BY <1>1, <1>4, <1>5, GateConstants DEF GateConstants, IInv, TypeOK
    <2>3. req' \in [Conn -> Request]
        BY <1>6 DEF IInv, TypeOK, Request, NoRequest
    <2> QED
        BY <2>1, <2>2, <2>3, <1>6 DEF IInv, TypeOK
  <1>8. Asked'
      BY <1>6 DEF IInv, TypeOK, Asked, NoRequest
  <1>9. GrantsKnown'
    <2>1. grants' \subseteq issued'
        BY <1>3 DEF IInv, GrantsKnown
    <2>2. \A h \in issued : h.id \in Nat /\ h.id <= drawn
        BY DEF IInv, TypeOK, GrantsKnown, Grant
    <2>3. \A h \in issued' : h.id <= drawn'
        BY <1>3, <1>5, <2>2
    <2>4. ASSUME NEW v \in Visitor, NEW s \in Share
          PROVE  /\ cookie'[v][s] <= drawn'
                 /\ \A h \in issued' : h.id = cookie'[v][s] /\ h.share = s => h.who = v
      <3>1. cookie[v][s] \in Nat /\ cookie[v][s] <= drawn
          BY GateConstants DEF GateConstants, IInv, TypeOK, GrantsKnown
      <3>2. CASE v = q.who /\ s = q.share
        <4>1. cookie'[v][s] = drawn + 1
            BY <1>1, <1>4, <3>2 DEF IInv, TypeOK
        <4> QED
            BY <4>1, <1>3, <1>5, <2>2, <3>2
      <3>3. CASE ~(v = q.who /\ s = q.share)
        <4>1. cookie'[v][s] = cookie[v][s]
            BY <1>1, <1>4, <3>3 DEF IInv, TypeOK
        <4>2. \A h \in issued : h.id = cookie[v][s] /\ h.share = s => h.who = v
            BY DEF IInv, GrantsKnown
        <4> QED
            BY <4>1, <4>2, <1>3, <1>5, <3>1
      <3> QED
          BY <3>2, <3>3
    <2> QED
        BY <2>1, <2>3, <2>4 DEF GrantsKnown
  <1> QED
      BY <1>7, <1>8, <1>9 DEF IInv

LEMMA StepKeeps == IInv /\ [Next]_vars => IInv'
  <1> SUFFICES ASSUME IInv, [Next]_vars PROVE IInv'
      OBVIOUS
  <1>1. ASSUME NEW v \in Visitor, NEW s \in Share, Open(v, s) PROVE IInv'
      BY <1>1 DEF IInv, TypeOK, Asked, GrantsKnown, Open
  <1>2. ASSUME NEW c \in Conn, NEW v \in Visitor, NEW s \in Share, Ask(c, v, s) PROVE IInv'
    <2>1. req' \in [Conn -> Request] /\ Asked'
        BY <1>2 DEF IInv, TypeOK, Asked, Ask, Request
    <2> QED
        BY <1>2, <2>1 DEF IInv, TypeOK, GrantsKnown, Ask
  <1>3. ASSUME NEW c \in Conn, LimitCheck(c) PROVE IInv'
    <2>1. req' \in [Conn -> Request] /\ Asked'
        BY <1>3 DEF IInv, TypeOK, Asked, LimitCheck, Request, NoRequest
    <2>2. req[c].who \in Visitor /\ req[c].share \in Share
        BY <1>3 DEF IInv, Asked, LimitCheck
    <2>3. rate' \in [Visitor -> [Share -> [failures : Nat, window : 0..MaxTime]]]
        BY <1>3, <2>2, GateConstants DEF GateConstants, IInv, TypeOK, LimitCheck, NoBucket
    <2> QED
        BY <1>3, <2>1, <2>3 DEF IInv, TypeOK, GrantsKnown, LimitCheck
  <1>4. ASSUME NEW c \in Conn, Unlock(c) PROVE IInv'
      BY <1>4, UnlockKeeps
  <1>5. ASSUME NEW c \in Conn, WrongPassword(c) PROVE IInv'
    <2>1. req' \in [Conn -> Request] /\ Asked'
        BY <1>5 DEF IInv, TypeOK, Asked, WrongPassword, Request
    <2> QED
        BY <1>5, <2>1 DEF IInv, TypeOK, GrantsKnown, WrongPassword
  <1>6. ASSUME NEW c \in Conn, LoginFailed(c) PROVE IInv'
    <2>1. req' \in [Conn -> Request] /\ Asked'
        BY <1>6 DEF IInv, TypeOK, Asked, LoginFailed, Request, NoRequest
    <2>2. req[c].who \in Visitor /\ req[c].share \in Share
        BY <1>6 DEF IInv, Asked, LoginFailed
    <2>3. rate' \in [Visitor -> [Share -> [failures : Nat, window : 0..MaxTime]]]
      <3> DEFINE b == rate[req[c].who][req[c].share]
                 n == IF b = NoBucket \/ Past(b) THEN [failures |-> 1, window |-> now]
                      ELSE [b EXCEPT !.failures = b.failures + 1]
      <3>1. b \in [failures : Nat, window : 0..MaxTime] /\ now \in 0..MaxTime
          BY <2>2, GateConstants DEF GateConstants, IInv, TypeOK
      <3>2. n \in [failures : Nat, window : 0..MaxTime]
          BY <3>1
      <3>3. rate' = [rate EXCEPT ![req[c].who][req[c].share] = n]
          BY <1>6 DEF LoginFailed
      <3> QED
          BY <2>2, <3>2, <3>3 DEF IInv, TypeOK
    <2>4. UNCHANGED <<locked, grants, cookie, now, restarts, drawn, issued>>
        BY <1>6 DEF LoginFailed
    <2>5. TypeOK'
        BY <2>1, <2>3, <2>4 DEF IInv, TypeOK
    <2>6. GrantsKnown'
        BY <2>4 DEF IInv, GrantsKnown
    <2> QED
        BY <2>1, <2>5, <2>6 DEF IInv
  <1>7. CASE Sweep
      BY <1>7 DEF IInv, TypeOK, Asked, GrantsKnown, Sweep, Swept
  <1>8. CASE Tick
      BY <1>8, GateConstants DEF GateConstants, IInv, TypeOK, Asked, GrantsKnown, Tick
  <1>9. CASE Restart
    <2>1. req' \in [Conn -> Request] /\ Asked'
        BY <1>9 DEF Asked, Restart, Request, NoRequest
    <2>2. rate' \in [Visitor -> [Share -> [failures : Nat, window : 0..MaxTime]]]
        BY <1>9, GateConstants DEF GateConstants, Restart, NoBucket
    <2> QED
        BY <1>9, <2>1, <2>2, GateConstants DEF GateConstants, IInv, TypeOK, GrantsKnown, Restart
  <1>10. CASE UNCHANGED vars
      BY <1>10 DEF IInv, TypeOK, Asked, GrantsKnown, vars
  <1> QED
      BY <1>1, <1>2, <1>3, <1>4, <1>5, <1>6, <1>7, <1>8, <1>9, <1>10 DEF Next

LEMMA InvariantHolds == Spec => []IInv
  BY InitIInv, StepKeeps, PTL DEF Spec

-----------------------------------------------------------------------------
\* The types of the grants, buckets and requests, at every step.
THEOREM TypeCorrect == Spec => []TypeOK
  <1>1. IInv => TypeOK
      BY DEF IInv
  <1> QED
      BY <1>1, InvariantHolds, PTL

\* A share with a password admits only who gave it, for that share, to this
\* process, and not longer than a grant lasts: no cookie kept from another share,
\* another process, an evicted or an expired grant opens it.
THEOREM OnlyHoldersAdmitted == Spec => []AdmitsHolders
  <1>1. IInv => AdmitsHolders
    <2> SUFFICES ASSUME IInv, NEW v \in Visitor, NEW s \in locked, Admits(v, s)
                 PROVE  \E g \in issued : g.who = v /\ g.share = s /\ now <= g.exp
        BY DEF AdmitsHolders
    <2>1. PICK g \in grants : g.id = cookie[v][s] /\ g.share = s /\ now <= g.exp
        BY DEF Admits, Held
    <2>2. s \in Share /\ g \in issued
        BY DEF IInv, TypeOK, GrantsKnown
    <2>3. g.who = v
        BY <2>1, <2>2 DEF IInv, GrantsKnown
    <2> QED
        BY <2>1, <2>2, <2>3
  <1> QED
      BY <1>1, InvariantHolds, PTL

-----------------------------------------------------------------------------
(* The limiter.  A request that has passed it will count its guess, if the   *)
(* guess is wrong, so the bound must hold of failures counted and to come.   *)

Guessing(v, s) ==
    {c \in Conn : req[c].pc \in {"verify", "wrong"} /\ req[c].who = v /\ req[c].share = s}

\* What may be counted against a visitor and a share before it is refused.
Bound == Limit - 1 + Cardinality(Conn)

Counted == \A v \in Visitor, s \in Share :
    rate[v][s].failures + Cardinality(Guessing(v, s)) <= Bound

LEMMA BoundType == Cardinality(Conn) \in Nat /\ Bound \in Nat
  BY FS_CardinalityType, GateConstants DEF GateConstants, Bound

LEMMA GuessingPart ==
    ASSUME NEW G \in SUBSET Conn
    PROVE  /\ IsFiniteSet(G) /\ Cardinality(G) \in Nat
           /\ Cardinality(G) <= Cardinality(Conn)
  BY FS_Subset, FS_CardinalityType, GateConstants DEF GateConstants

\* A step that leaves a bucket alone and lets nobody else past keeps the bound.
LEMMA NoNewGuess ==
    ASSUME IInv, Counted, NEW v \in Visitor, NEW s \in Share,
           rate'[v][s].failures = rate[v][s].failures, Guessing(v, s)' \subseteq Guessing(v, s)
    PROVE  rate'[v][s].failures + Cardinality(Guessing(v, s)') <= Bound
  <1>1. Guessing(v, s) \in SUBSET Conn /\ Guessing(v, s)' \in SUBSET Conn
      BY DEF Guessing
  <1>2. Cardinality(Guessing(v, s)') <= Cardinality(Guessing(v, s))
      BY <1>1, GuessingPart, FS_Subset
  <1>3. /\ Cardinality(Guessing(v, s)) \in Nat /\ Cardinality(Guessing(v, s)') \in Nat
        /\ rate[v][s].failures \in Nat
      BY <1>1, GuessingPart DEF IInv, TypeOK
  <1> QED
      BY <1>2, <1>3, BoundType DEF Counted

\* Whoever passes the limiter does so under the limit.
LEMMA CheckCounts ==
    ASSUME IInv, Counted, NEW c \in Conn, LimitCheck(c)
    PROVE  Counted'
  <1> DEFINE q == req[c]
             b == rate[q.who][q.share]
  <1>1. q.who \in Visitor /\ q.share \in Share /\ q.pc = "limit"
      BY DEF IInv, Asked, LimitCheck
  <1>2. b \in [failures : Nat, window : 0..MaxTime]
      BY <1>1 DEF IInv, TypeOK
  <1> SUFFICES ASSUME NEW v \in Visitor, NEW s \in Share
               PROVE  rate'[v][s].failures + Cardinality(Guessing(v, s)') <= Bound
      BY DEF Counted
  <1>3. CASE Allowed(b) /\ v = q.who /\ s = q.share
    <2>1. rate'[v][s] = IF Past(b) THEN NoBucket ELSE b
        BY <1>1, <1>3 DEF LimitCheck, IInv, TypeOK
    <2>2. rate'[v][s].failures \in Nat /\ rate'[v][s].failures <= Limit - 1
        BY <2>1, <1>2, <1>3, GateConstants DEF GateConstants, Allowed, NoBucket
    <2>3. Guessing(v, s)' \in SUBSET Conn
        BY DEF Guessing
    <2> QED
        BY <2>2, <2>3, GuessingPart, BoundType, GateConstants DEF Bound, GateConstants
  <1>4. CASE ~(Allowed(b) /\ v = q.who /\ s = q.share)
    <2>1. rate'[v][s] = rate[v][s]
        BY <1>1, <1>4 DEF LimitCheck, Allowed, IInv, TypeOK
    <2>2. req' = [req EXCEPT ![c] = IF Allowed(b) THEN [q EXCEPT !.pc = "verify"] ELSE NoRequest]
        BY DEF LimitCheck
    <2>3. Guessing(v, s)' \subseteq Guessing(v, s)
        BY <1>1, <1>4, <2>2 DEF Guessing, IInv, TypeOK, Request, NoRequest
    <2> QED
        BY <2>1, <2>3, NoNewGuess
  <1> QED
      BY <1>3, <1>4

\* A failure that is counted is one less to come.
LEMMA FailureCounts ==
    ASSUME IInv, Counted, NEW c \in Conn, LoginFailed(c)
    PROVE  Counted'
  <1> DEFINE q == req[c]
             b == rate[q.who][q.share]
             n == IF b = NoBucket \/ Past(b) THEN [failures |-> 1, window |-> now]
                  ELSE [b EXCEPT !.failures = b.failures + 1]
  <1>1. q.who \in Visitor /\ q.share \in Share /\ q.pc = "wrong"
      BY DEF IInv, Asked, LoginFailed
  <1>2. b \in [failures : Nat, window : 0..MaxTime]
      BY <1>1 DEF IInv, TypeOK
  <1>3. rate' = [rate EXCEPT ![q.who][q.share] = n] /\ req' = [req EXCEPT ![c] = NoRequest]
      BY DEF LoginFailed
  <1>4. \A v, s : Guessing(v, s)' = Guessing(v, s) \ {c}
      BY <1>3 DEF Guessing, IInv, TypeOK, NoRequest
  <1> SUFFICES ASSUME NEW v \in Visitor, NEW s \in Share
               PROVE  rate'[v][s].failures + Cardinality(Guessing(v, s)') <= Bound
      BY DEF Counted
  <1>5. CASE v = q.who /\ s = q.share
    <2>1. rate'[v][s] = n /\ rate[v][s] = b
        BY <1>1, <1>3, <1>5 DEF IInv, TypeOK
    <2>2. n.failures \in Nat /\ n.failures <= b.failures + 1
        BY <1>2
    <2>3. c \in Guessing(v, s) /\ Guessing(v, s) \in SUBSET Conn
        BY <1>1, <1>5 DEF Guessing
    <2>4. Cardinality(Guessing(v, s)') = Cardinality(Guessing(v, s)) - 1
        BY <1>4, <2>3, GuessingPart, FS_RemoveElement
    <2>5. b.failures + Cardinality(Guessing(v, s)) <= Bound
        BY <2>1 DEF Counted
    <2>6. b.failures \in Nat /\ Cardinality(Guessing(v, s)) \in Nat
        BY <1>2, <2>3, GuessingPart
    <2>7. n.failures + (Cardinality(Guessing(v, s)) - 1) <= Bound
      <3> HIDE DEF n, b
      <3> QED
          BY <2>2, <2>5, <2>6, BoundType
    <2> QED
        BY <2>1, <2>4, <2>7
  <1>6. CASE ~(v = q.who /\ s = q.share)
    <2>1. rate'[v][s] = rate[v][s]
        BY <1>1, <1>3, <1>6 DEF IInv, TypeOK
    <2> QED
        BY <2>1, <1>4, NoNewGuess
  <1> QED
      BY <1>5, <1>6

LEMMA CountedInvariant == IInv /\ Counted /\ [Next]_vars => Counted'
  <1> SUFFICES ASSUME IInv, Counted, [Next]_vars PROVE Counted'
      OBVIOUS
  <1>1. ASSUME NEW c \in Conn, LimitCheck(c) PROVE Counted'
      BY <1>1, CheckCounts
  <1>2. ASSUME NEW c \in Conn, LoginFailed(c) PROVE Counted'
      BY <1>2, FailureCounts
  <1>3. ASSUME rate' = rate,
               \A v \in Visitor, s \in Share : Guessing(v, s)' \subseteq Guessing(v, s)
        PROVE  Counted'
      BY <1>3, NoNewGuess DEF Counted
  <1>4. ASSUME NEW c \in Conn, NEW v \in Visitor, NEW s \in Share, Ask(c, v, s) PROVE Counted'
    <2>1. \A w \in Visitor, r \in Share : Guessing(w, r)' \subseteq Guessing(w, r)
        BY <1>4 DEF Ask, Guessing, IInv, TypeOK
    <2> QED
        BY <1>3, <1>4, <2>1 DEF Ask
  <1>5. ASSUME NEW c \in Conn, Unlock(c) PROVE Counted'
    <2>1. \A w \in Visitor, r \in Share : Guessing(w, r)' \subseteq Guessing(w, r)
        BY <1>5 DEF Unlock, Guessing, IInv, TypeOK, NoRequest
    <2> QED
        BY <1>3, <1>5, <2>1 DEF Unlock
  <1>6. ASSUME NEW c \in Conn, WrongPassword(c) PROVE Counted'
    <2>1. \A w \in Visitor, r \in Share : Guessing(w, r)' \subseteq Guessing(w, r)
        BY <1>6 DEF WrongPassword, Guessing, IInv, TypeOK, Request
    <2> QED
        BY <1>3, <1>6, <2>1 DEF WrongPassword
  <1>7. ASSUME UNCHANGED <<rate, req>> PROVE Counted'
      BY <1>3, <1>7 DEF Guessing
  <1>8. CASE Restart
    <2>1. ASSUME NEW v \in Visitor, NEW s \in Share
          PROVE  rate'[v][s].failures + Cardinality(Guessing(v, s)') <= Bound
      <3>1. rate'[v][s].failures = 0
          BY <1>8 DEF Restart, NoBucket
      <3>2. Guessing(v, s)' \in SUBSET Conn
          BY DEF Guessing
      <3> QED
          BY <3>1, <3>2, GuessingPart, BoundType, GateConstants DEF Bound, GateConstants
    <2> QED
        BY <2>1 DEF Counted
  <1>9. CASE (\E v \in Visitor, s \in Share : Open(v, s)) \/ Sweep \/ Tick \/ UNCHANGED vars
      BY <1>7, <1>9 DEF Open, Sweep, Tick, vars
  <1> QED
      BY <1>1, <1>2, <1>4, <1>5, <1>6, <1>8, <1>9 DEF Next

\* However many requests overlap between the check of the limiter and the count
\* of a failure, wrong guesses stay under the limit plus the requests in flight.
THEOREM GuessesStayBounded == Spec => []GuessesBounded
  <1>1. Init => Counted
    <2> SUFFICES ASSUME Init, NEW v \in Visitor, NEW s \in Share
                 PROVE  rate[v][s].failures + Cardinality(Guessing(v, s)) <= Bound
        BY DEF Counted
    <2>1. rate[v][s].failures = 0
        BY DEF Init, NoBucket
    <2>2. Guessing(v, s) \in SUBSET Conn
        BY DEF Guessing
    <2> QED
        BY <2>1, <2>2, GuessingPart, BoundType, GateConstants DEF Bound, GateConstants
  <1>2. IInv /\ Counted => GuessesBounded
    <2> SUFFICES ASSUME IInv, Counted, NEW v \in Visitor, NEW s \in Share
                 PROVE  rate[v][s].failures < Limit + Cardinality(Conn)
        BY DEF GuessesBounded
    <2>1. Guessing(v, s) \in SUBSET Conn /\ rate[v][s].failures \in Nat
        BY DEF Guessing, IInv, TypeOK
    <2>2. rate[v][s].failures + Cardinality(Guessing(v, s)) <= Bound
        BY DEF Counted
    <2> QED
        BY <2>1, <2>2, GuessingPart, BoundType, GateConstants DEF Bound, GateConstants
  <1> QED
      BY <1>1, <1>2, InitIInv, StepKeeps, CountedInvariant, PTL DEF Spec

-----------------------------------------------------------------------------
(* The cap and the sweep.                                                    *)

\* Only finitely many grants were issued, and they are kept as EntitledKept says.
Entitled == IsFiniteSet(issued) /\ EntitledKept

\* The other grants that last as long as g.
Rivals(I, g) == {h \in I \ {g} : h.exp >= g.exp}

\* What a capped map leaves out has Cap rivals in it.
LEMMA CapTakesTheOldest ==
    ASSUME NEW G, IsFiniteSet(G), NEW K \in Capped(G), NEW I, IsFiniteSet(I), G \subseteq I,
           \A h \in G : h.exp \in Nat, NEW g \in G \ K
    PROVE  ~(Cardinality(Rivals(I, g)) < Cap)
  <1>1. K \in SUBSET G /\ \A k \in K : g.exp <= k.exp
      BY DEF Capped
  <1>2. Cardinality(K) = IF Cardinality(G) > Cap THEN Cap ELSE Cardinality(G)
      BY DEF Capped
  <1>3. Cardinality(K) = Cap
      BY <1>1, <1>2, FS_Subset
  <1>4. K \subseteq Rivals(I, g)
      BY <1>1 DEF Rivals
  <1>5. IsFiniteSet(Rivals(I, g))
      BY FS_Subset DEF Rivals
  <1>6. Cardinality(K) <= Cardinality(Rivals(I, g)) /\ Cardinality(Rivals(I, g)) \in Nat
      BY <1>4, <1>5, FS_Subset, FS_CardinalityType
  <1> QED
      BY <1>3, <1>6, GateConstants DEF GateConstants

\* A grant more can only take one its place.
LEMMA FewerRivals ==
    ASSUME NEW I, NEW J, IsFiniteSet(J), I \subseteq J, NEW g, Cardinality(Rivals(J, g)) < Cap
    PROVE  Cardinality(Rivals(I, g)) < Cap
  <1>1. Rivals(I, g) \subseteq Rivals(J, g) /\ IsFiniteSet(Rivals(J, g))
      BY FS_Subset DEF Rivals
  <1>2. /\ Cardinality(Rivals(I, g)) <= Cardinality(Rivals(J, g))
        /\ Cardinality(Rivals(I, g)) \in Nat /\ Cardinality(Rivals(J, g)) \in Nat
      BY <1>1, FS_Subset, FS_CardinalityType
  <1> QED
      BY <1>2, GateConstants DEF GateConstants

LEMMA UnlockEntitles ==
    ASSUME IInv, Entitled, NEW c \in Conn, Unlock(c)
    PROVE  Entitled'
  <1> DEFINE q == req[c]
             new == [id |-> drawn + 1, share |-> q.share, who |-> q.who, exp |-> now + TTL]
             G == Swept(grants \cup {new})
  <1>1. grants' \in Capped(G) /\ issued' = issued \cup {new} /\ now' = now
      BY DEF Unlock
  <1>2. now \in Nat /\ new.exp = now + TTL /\ new.exp > now
      BY GateConstants DEF GateConstants, IInv, TypeOK
  <1>3. IsFiniteSet(issued')
      BY <1>1, FS_AddElement DEF Entitled
  <1>4. G \subseteq issued' /\ \A h \in G : h.exp \in Nat
      BY <1>1, <1>2, GateConstants DEF GateConstants, Swept, IInv, TypeOK, GrantsKnown, Grant
  <1>5. IsFiniteSet(G) /\ Cardinality(G) \in Nat
      BY <1>3, <1>4, FS_Subset, FS_CardinalityType
  <1> HIDE DEF new, G
  <1>6. Cardinality(grants') <= Cap
      BY <1>1, <1>5, GateConstants DEF GateConstants, Capped
  <1>7. ASSUME NEW g \in issued', now' < g.exp, Cardinality(Rivals(issued', g)) < Cap
        PROVE  g \in grants'
    <2>1. g \in G
      <3>1. CASE g = new
          BY <1>1, <1>2, <3>1 DEF G, Swept
      <3>2. CASE g \in issued
        <4>1. Cardinality(Rivals(issued, g)) < Cap
            BY <1>1, <1>3, <1>7, FewerRivals
        <4>2. g \in grants
            BY <4>1, <3>2, <1>1, <1>7 DEF Entitled, EntitledKept, Rivals
        <4> QED
            BY <4>2, <1>1, <1>7, <3>2 DEF G, Swept, IInv, TypeOK, Grant
      <3> QED
          BY <1>1, <3>1, <3>2
    <2> QED
        BY <2>1, <1>1, <1>3, <1>4, <1>5, <1>7, CapTakesTheOldest
  <1> QED
      BY <1>3, <1>6, <1>7 DEF Entitled, EntitledKept, Rivals

\* A step that issues nothing and only drops what has run out.
LEMMA OnlyOldDropped ==
    ASSUME IInv, Entitled, issued' = issued, grants' \subseteq grants, now' >= now, now' \in Nat,
           \A g \in grants \ grants' : ~(now' < g.exp)
    PROVE  Entitled'
  <1>1. IsFiniteSet(grants)
      BY FS_Subset DEF Entitled, IInv, GrantsKnown
  <1>2. /\ Cardinality(grants') <= Cardinality(grants)
        /\ Cardinality(grants') \in Nat /\ Cardinality(grants) \in Nat
      BY <1>1, FS_Subset, FS_CardinalityType
  <1>3. Cardinality(grants') <= Cap
      BY <1>2, GateConstants DEF GateConstants, Entitled, EntitledKept
  <1>4. ASSUME NEW g \in issued', now' < g.exp,
               Cardinality({h \in issued' \ {g} : h.exp >= g.exp}) < Cap
        PROVE  g \in grants'
    <2>1. g.exp \in Nat /\ now \in Nat
        BY <1>4, GateConstants DEF GateConstants, IInv, TypeOK, Grant
    <2>2. g \in grants
        BY <1>4, <2>1 DEF Entitled, EntitledKept
    <2> QED
        BY <1>4, <2>2
  <1> QED
      BY <1>3, <1>4 DEF Entitled, EntitledKept

LEMMA EntitledInvariant == IInv /\ Entitled /\ [Next]_vars => Entitled'
  <1> SUFFICES ASSUME IInv, Entitled, [Next]_vars PROVE Entitled'
      OBVIOUS
  <1> USE GateConstants DEF GateConstants
  <1>1. now \in Nat /\ \A g \in grants : g.exp \in Nat
      BY DEF IInv, TypeOK, Grant
  <1>2. ASSUME NEW v \in Visitor, NEW s \in Share, Open(v, s) PROVE Entitled'
      BY <1>1, <1>2, OnlyOldDropped DEF Open
  <1>3. ASSUME NEW c \in Conn, Unlock(c) PROVE Entitled'
      BY <1>3, UnlockEntitles
  <1>4. CASE Sweep
      BY <1>1, <1>4, OnlyOldDropped DEF Sweep, Swept
  <1>5. CASE Tick
      BY <1>1, <1>5, OnlyOldDropped DEF Tick
  <1>6. CASE Restart
    <2>1. grants' = {} /\ issued' = {}
        BY <1>6 DEF Restart
    <2> QED
        BY <2>1, FS_EmptySet DEF Entitled, EntitledKept
  <1>7. ASSUME UNCHANGED <<grants, issued, now>> PROVE Entitled'
      BY <1>1, <1>7, OnlyOldDropped
  <1>8. ASSUME NEW c \in Conn,
               (\E v \in Visitor, s \in Share : Ask(c, v, s)) \/ LimitCheck(c)
                 \/ WrongPassword(c) \/ LoginFailed(c)
        PROVE  UNCHANGED <<grants, issued, now>>
      BY <1>8 DEF Ask, LimitCheck, WrongPassword, LoginFailed
  <1> QED
      BY <1>2, <1>3, <1>4, <1>5, <1>6, <1>7, <1>8 DEF Next, vars

\* The map stays within its cap, and whatever order unlockings, sweeps and opened
\* shares come in, a visitor whose grant has not run out loses it only when Cap
\* other grants last as long: neither a janitor's sweep nor a lock on another
\* share shuts out someone who gave the password.
THEOREM GrantsNotLost == Spec => []EntitledKept
  <1>1. Init => Entitled
      BY FS_EmptySet, GateConstants DEF GateConstants, Init, Entitled, EntitledKept
  <1>2. Entitled => EntitledKept
      BY DEF Entitled
  <1> QED
      BY <1>1, <1>2, InitIInv, StepKeeps, EntitledInvariant, PTL DEF Spec
=============================================================================
