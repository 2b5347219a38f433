------------------------------ MODULE DriveTreeProofs ------------------------------
(***************************************************************************)
(* Theorems about DriveTree, for any names, any depth and any bounds.      *)
(***************************************************************************)
EXTENDS DriveTree, SequenceTheorems, WellFoundedInduction, TLAPS

-----------------------------------------------------------------------------
(* Paths                                                                     *)

LEMMA RootFacts == Root \in Seq(Name) /\ Len(Root) = 0 /\ \A p \in Seq(Name) : Len(p) = 0 <=> p = Root
  BY EmptySeq DEF Root

LEMMA LenFacts ==
    ASSUME NEW p \in Seq(Name)
    PROVE  Len(p) \in Nat /\ \A i \in 1..Len(p) : p[i] \in Name
  BY LenProperties, ElementOfSeq

\* The first n segments of a path.
LEMMA CutFacts ==
    ASSUME NEW p \in Seq(Name), NEW n \in 0..Len(p)
    PROVE  /\ SubSeq(p, 1, n) \in Seq(Name) /\ Len(SubSeq(p, 1, n)) = n
           /\ \A i \in 1..n : SubSeq(p, 1, n)[i] = p[i]
  <1>1. Len(p) \in Nat /\ \A i \in 1..n : p[i] \in Name
      BY LenFacts
  <1> QED
      BY <1>1, SubSeqProperties

LEMMA PathFacts ==
    /\ Path \subseteq Seq(Name) /\ Root \in Path
    /\ \A p \in Seq(Name) : p \in Path <=> Len(p) <= MaxDepth
  <1>1. MaxDepth \in Nat
      BY PathConstants
  <1>2. ASSUME NEW p \in Path PROVE p \in Seq(Name) /\ Len(p) <= MaxDepth
    <2>1. PICK n \in 0..MaxDepth : p \in [1..n -> Name]
        BY DEF Path
    <2> QED
        BY <1>1, <2>1
  <1>3. ASSUME NEW p \in Seq(Name), Len(p) <= MaxDepth PROVE p \in Path
    <2>1. p \in [1..Len(p) -> Name] /\ Len(p) \in 0..MaxDepth
        BY <1>1, <1>3, LenProperties
    <2> QED
        BY <2>1 DEF Path
  <1>4. Root \in Path
    <2>1. Root \in Seq(Name)
        BY RootFacts
    <2>2. Len(Root) = 0
        BY RootFacts
    <2>3. Len(Root) <= MaxDepth
        BY <1>1, <2>2
    <2> QED
        BY <1>3, <2>1, <2>3
  <1> QED
      BY <1>2, <1>3, <1>4

LEMMA PrefixMeans ==
    ASSUME NEW p \in Seq(Name), NEW q \in Seq(Name)
    PROVE  IsPrefix(p, q) <=> Len(p) <= Len(q) /\ \A i \in 1..Len(p) : p[i] = q[i]
  <1> SUFFICES ASSUME Len(p) <= Len(q)
               PROVE  SubSeq(p, 1, Len(p)) = SubSeq(q, 1, Len(p)) <=> \A i \in 1..Len(p) : p[i] = q[i]
      BY DEF IsPrefix
  <1>1. Len(p) \in Nat /\ Len(q) \in Nat /\ Len(p) \in 0..Len(q) /\ Len(p) \in 0..Len(p)
      BY LenFacts
  <1> DEFINE a == SubSeq(p, 1, Len(p))
             b == SubSeq(q, 1, Len(p))
  <1>2. /\ a \in Seq(Name) /\ Len(a) = Len(p) /\ \A i \in 1..Len(p) : a[i] = p[i]
        /\ b \in Seq(Name) /\ Len(b) = Len(p) /\ \A i \in 1..Len(p) : b[i] = q[i]
      BY <1>1, CutFacts
  <1> HIDE DEF a, b
  <1>3. (\A i \in 1..Len(p) : p[i] = q[i]) => a = b
      BY <1>2, SeqEqual
  <1>4. a = b => \A i \in 1..Len(p) : p[i] = q[i]
      BY <1>2
  <1> QED
      BY <1>3, <1>4 DEF a, b

\* Prefixes of a path: an order, linear below each path.
LEMMA PrefixOrder ==
    ASSUME NEW p \in Seq(Name), NEW q \in Seq(Name), NEW r \in Seq(Name)
    PROVE  /\ IsPrefix(p, p) /\ IsPrefix(Root, p)
           /\ IsPrefix(p, q) /\ IsPrefix(q, r) => IsPrefix(p, r)
           /\ IsPrefix(p, q) /\ IsPrefix(q, p) => p = q
           /\ IsPrefix(p, r) /\ IsPrefix(q, r) => IsPrefix(p, q) \/ IsPrefix(q, p)
           /\ IsPrefix(p, q) /\ Len(p) = Len(q) => p = q
           /\ IsPrefix(p, q) => Len(p) <= Len(q)
           /\ IsPrefix(p, r) /\ IsPrefix(q, r) /\ Len(p) = Len(q) => p = q
  <1>1. Len(p) \in Nat /\ Len(q) \in Nat /\ Len(r) \in Nat /\ Len(Root) = 0 /\ Root \in Seq(Name)
      BY LenFacts, RootFacts
  <1>2. IsPrefix(p, p) /\ IsPrefix(Root, p)
    <2>1. IsPrefix(p, p)
        BY <1>1, PrefixMeans
    <2>2. Len(Root) <= Len(p) /\ \A i \in 1..Len(Root) : Root[i] = p[i]
        BY <1>1
    <2> QED
        BY <1>1, <2>1, <2>2, PrefixMeans
  <1>3. IsPrefix(p, q) /\ IsPrefix(q, r) => IsPrefix(p, r)
      BY <1>1, PrefixMeans
  <1>4. ASSUME IsPrefix(p, q), Len(p) = Len(q) PROVE p = q
    <2>1. \A i \in 1..Len(p) : p[i] = q[i]
        BY <1>4, PrefixMeans
    <2> QED
        BY <1>4, <2>1, SeqEqual
  <1>5. IsPrefix(p, q) => Len(p) <= Len(q)
      BY PrefixMeans
  <1>6. ASSUME IsPrefix(p, q), IsPrefix(q, p) PROVE p = q
    <2>1. Len(p) = Len(q)
        BY <1>1, <1>6, PrefixMeans
    <2> QED
        BY <1>4, <1>6, <2>1
  <1>7. IsPrefix(p, r) /\ IsPrefix(q, r) => IsPrefix(p, q) \/ IsPrefix(q, p)
      BY <1>1, PrefixMeans
  <1>8. ASSUME IsPrefix(p, r), IsPrefix(q, r), Len(p) = Len(q) PROVE p = q
    <2>1. \A i \in 1..Len(p) : p[i] = r[i] /\ q[i] = r[i]
        BY <1>8, PrefixMeans
    <2> QED
        BY <1>8, <2>1, SeqEqual
  <1> QED
      BY <1>2, <1>3, <1>4, <1>5, <1>6, <1>7, <1>8

\* The path one comes to from p by r.
LEMMA BelowFacts ==
    ASSUME NEW p \in Seq(Name), NEW r \in Seq(Name)
    PROVE  /\ p \o r \in Seq(Name) /\ Len(p \o r) = Len(p) + Len(r)
           /\ IsPrefix(p, p \o r) /\ Below(p, p \o r) = r
           /\ p \o r = p <=> r = Root
  <1>1. Len(p) \in Nat /\ Len(r) \in Nat
      BY LenFacts
  <1> DEFINE q == p \o r
  <1>2. /\ q \in Seq(Name) /\ Len(q) = Len(p) + Len(r)
        /\ \A i \in 1..Len(p) + Len(r) : q[i] = IF i <= Len(p) THEN p[i] ELSE r[i - Len(p)]
      BY ConcatProperties
  <1>3. q = p <=> r = Root
      BY ConcatEqualIffEmpty DEF Root
  <1> HIDE DEF q
  <1>4. IsPrefix(p, q)
      BY <1>1, <1>2, PrefixMeans
  <1>5. Below(p, q) = r
    <2> DEFINE m == Len(p) + 1
               b == SubSeq(q, m, Len(q))
    <2>1. m \in Int /\ Len(q) \in Int /\ \A i \in m..Len(q) : q[i] \in Name
        BY <1>1, <1>2, LenFacts
    <2>2. /\ b \in Seq(Name) /\ Len(b) = IF m <= Len(q) THEN Len(q) - m + 1 ELSE 0
          /\ \A i \in 1..Len(q) - m + 1 : b[i] = q[m + i - 1]
        BY <2>1, SubSeqProperties
    <2> HIDE DEF b
    <2>3. Len(b) = Len(r)
        BY <1>1, <1>2, <2>2
    <2>4. ASSUME NEW i \in 1..Len(r) PROVE b[i] = r[i]
      <3>1. i \in 1..Len(q) - m + 1 /\ m + i - 1 = Len(p) + i
          BY <1>1, <1>2
      <3>2. b[i] = q[Len(p) + i]
          BY <2>2, <3>1
      <3>3. Len(p) + i \in 1..Len(p) + Len(r) /\ ~(Len(p) + i <= Len(p)) /\ Len(p) + i - Len(p) = i
          BY <1>1
      <3>4. q[Len(p) + i] = IF Len(p) + i <= Len(p) THEN p[Len(p) + i] ELSE r[Len(p) + i - Len(p)]
          BY <1>2, <3>3
      <3> QED
          BY <3>2, <3>3, <3>4
    <2>5. b = r
        BY <2>2, <2>3, <2>4, SeqEqual
    <2> QED
        BY <2>5 DEF b, Below
  <1> QED
      BY <1>2, <1>3, <1>4, <1>5 DEF q

LEMMA BelowBack ==
    ASSUME NEW p \in Seq(Name), NEW q \in Seq(Name), IsPrefix(p, q)
    PROVE  Below(p, q) \in Seq(Name) /\ p \o Below(p, q) = q
  <1>1. Len(p) \in Nat /\ Len(q) \in Nat /\ Len(p) <= Len(q) /\ \A i \in 1..Len(p) : p[i] = q[i]
      BY LenFacts, PrefixMeans
  <1> DEFINE m == Len(p) + 1
             b == SubSeq(q, m, Len(q))
  <1>2. m \in Int /\ Len(q) \in Int /\ \A i \in m..Len(q) : q[i] \in Name
      BY <1>1, LenFacts
  <1>3. /\ b \in Seq(Name) /\ Len(b) = IF m <= Len(q) THEN Len(q) - m + 1 ELSE 0
        /\ \A i \in 1..Len(q) - m + 1 : b[i] = q[m + i - 1]
      BY <1>2, SubSeqProperties
  <1> HIDE DEF b
  <1>4. /\ p \o b \in Seq(Name) /\ Len(p \o b) = Len(p) + Len(b)
        /\ \A i \in 1..Len(p) + Len(b) : (p \o b)[i] = IF i <= Len(p) THEN p[i] ELSE b[i - Len(p)]
      BY <1>3, ConcatProperties
  <1>5. Len(p) + Len(b) = Len(q)
      BY <1>1, <1>3
  <1>6. \A i \in 1..Len(q) : (p \o b)[i] = q[i]
      BY <1>1, <1>3, <1>4, <1>5
  <1>7. p \o b = q
      BY <1>4, <1>5, <1>6, SeqEqual
  <1> QED
      BY <1>3, <1>7 DEF b, Below

LEMMA ParentFacts ==
    ASSUME NEW p \in Seq(Name), p # Root
    PROVE  /\ Parent(p) \in Seq(Name) /\ Len(Parent(p)) = Len(p) - 1 /\ Len(p) \in Nat \ {0}
           /\ IsPrefix(Parent(p), p)
           /\ \A q \in Seq(Name) : IsPrefix(q, Parent(p)) <=> IsPrefix(q, p) /\ q # p
  <1>1. Len(p) \in Nat \ {0} /\ Len(p) - 1 \in 0..Len(p)
      BY LenFacts, RootFacts
  <1> DEFINE d == Parent(p)
  <1>2. /\ d \in Seq(Name) /\ Len(d) = Len(p) - 1
        /\ \A i \in 1..Len(p) - 1 : d[i] = p[i]
      BY <1>1, CutFacts DEF Parent
  <1> HIDE DEF d
  <1>3. IsPrefix(d, p)
      BY <1>1, <1>2, PrefixMeans
  <1>4. ASSUME NEW q \in Seq(Name), IsPrefix(q, d) PROVE IsPrefix(q, p) /\ q # p
    <2>1. IsPrefix(q, p)
        BY <1>2, <1>3, <1>4, PrefixOrder
    <2>2. Len(q) <= Len(p) - 1
        BY <1>2, <1>4, PrefixOrder
    <2> QED
        BY <1>1, <2>1, <2>2
  <1>5. ASSUME NEW q \in Seq(Name), IsPrefix(q, p), q # p PROVE IsPrefix(q, d)
    <2>1. IsPrefix(q, d) \/ IsPrefix(d, q)
        BY <1>2, <1>3, <1>5, PrefixOrder
    <2>2. Len(q) # Len(p) /\ Len(q) <= Len(p) /\ Len(q) \in Nat
        BY <1>5, PrefixOrder, LenFacts
    <2>3. Len(q) <= Len(d)
        BY <1>1, <1>2, <2>2
    <2>4. IsPrefix(d, q) => Len(d) = Len(q)
      <3>1. IsPrefix(d, q) => Len(d) <= Len(q)
          BY <1>2, PrefixOrder
      <3> QED
          BY <1>1, <1>2, <2>2, <2>3, <3>1
    <2>5. IsPrefix(d, q) => d = q
        BY <1>2, <2>4, PrefixOrder
    <2> QED
        BY <1>2, <2>1, <2>5, PrefixOrder
  <1> QED
      BY <1>1, <1>2, <1>3, <1>4, <1>5 DEF d

\* The directory of a path below p is below p.
LEMMA ParentBelow ==
    ASSUME NEW p \in Seq(Name), NEW r \in Seq(Name), r # Root
    PROVE  p \o r # Root /\ Parent(p \o r) = p \o Parent(r)
  <1> DEFINE q == p \o r
             d == p \o Parent(r)
  <1>1. /\ Len(p) \in Nat /\ Len(r) \in Nat \ {0} /\ Len(q) = Len(p) + Len(r) /\ q \in Seq(Name)
        /\ Parent(r) \in Seq(Name) /\ d \in Seq(Name) /\ Len(d) = Len(p) + Len(r) - 1
    <2>1. Len(p) \in Nat /\ Len(r) \in Nat \ {0} /\ Parent(r) \in Seq(Name) /\ Len(Parent(r)) = Len(r) - 1
        BY LenFacts, ParentFacts
    <2>2. Len(q) = Len(p) + Len(r) /\ q \in Seq(Name) /\ d \in Seq(Name) /\ Len(d) = Len(p) + Len(Parent(r))
        BY <2>1, BelowFacts
    <2> HIDE DEF d, q
    <2> QED
        BY <2>1, <2>2
  <1>2. q # Root
      BY <1>1, RootFacts
  <1>3. Parent(q) \in Seq(Name) /\ IsPrefix(Parent(q), q) /\ Len(Parent(q)) = Len(d)
    <2> HIDE DEF d, q
    <2>1. Parent(q) \in Seq(Name) /\ IsPrefix(Parent(q), q) /\ Len(Parent(q)) = Len(q) - 1
        BY <1>1, <1>2, ParentFacts
    <2> QED
        BY <1>1, <2>1
  <1>4. IsPrefix(d, q)
    <2>1. /\ \A i \in 1..Len(p) + Len(r) : q[i] = IF i <= Len(p) THEN p[i] ELSE r[i - Len(p)]
          /\ \A i \in 1..Len(p) + Len(Parent(r)) :
               d[i] = IF i <= Len(p) THEN p[i] ELSE Parent(r)[i - Len(p)]
        BY <1>1, ConcatProperties
    <2>2. Len(Parent(r)) = Len(r) - 1 /\ \A i \in 1..Len(r) - 1 : Parent(r)[i] = r[i]
        BY <1>1, ParentFacts, PrefixMeans
    <2> HIDE DEF d, q
    <2>3. \A i \in 1..Len(d) : d[i] = q[i]
      <3>1. SUFFICES ASSUME NEW i \in 1..Len(d) PROVE d[i] = q[i]
          OBVIOUS
      <3>2. Len(p) \in Nat /\ Len(r) \in Nat /\ Len(d) = Len(p) + Len(r) - 1
          BY <1>1, <2>2
      <3>3. i \in 1..Len(p) + Len(r) /\ i \in 1..Len(p) + Len(Parent(r))
          BY <2>2, <3>2
      <3>4. CASE i <= Len(p)
          BY <2>1, <3>3, <3>4
      <3>5. CASE i > Len(p)
        <4>1. i - Len(p) \in 1..Len(r) - 1
            BY <3>2, <3>5
        <4>2. ~(i <= Len(p))
            BY <3>2, <3>5
        <4> QED
            BY <2>1, <2>2, <3>3, <4>1, <4>2
      <3> QED
          BY <3>2, <3>4, <3>5
    <2>4. Len(d) <= Len(q)
        BY <1>1
    <2> QED
        BY <1>1, <2>3, <2>4, PrefixMeans
  <1> HIDE DEF d, q
  <1>5. Parent(q) = d
      BY <1>1, <1>3, <1>4, PrefixOrder
  <1> QED
      BY <1>2, <1>5 DEF d, q

LEMMA AppendFacts ==
    ASSUME NEW p \in Seq(Name), NEW n \in Name
    PROVE  /\ Append(p, n) \in Seq(Name) /\ Append(p, n) # Root
           /\ Parent(Append(p, n)) = p /\ Len(Append(p, n)) = Len(p) + 1
  <1> DEFINE q == Append(p, n)
  <1>1. /\ Len(p) \in Nat /\ q \in Seq(Name) /\ Len(q) = Len(p) + 1
        /\ \A i \in 1..Len(p) : q[i] = p[i]
      BY LenFacts
  <1> HIDE DEF q
  <1>2. q # Root /\ IsPrefix(p, q)
      BY <1>1, RootFacts, PrefixMeans
  <1>3. Parent(q) \in Seq(Name) /\ IsPrefix(Parent(q), q) /\ Len(Parent(q)) = Len(p)
      BY <1>1, <1>2, ParentFacts
  <1>4. Parent(q) = p
      BY <1>1, <1>2, <1>3, PrefixOrder
  <1> QED
      BY <1>1, <1>2, <1>4 DEF q

\* The directories on the way to a path.
LEMMA AncestorFacts ==
    ASSUME NEW p \in Seq(Name)
    PROVE  Ancestors(p) = {a \in Seq(Name) : IsPrefix(a, p) /\ a # p}
  <1>1. Len(p) \in Nat
      BY LenFacts
  <1>2. ASSUME NEW n \in 0..Len(p) - 1
        PROVE  SubSeq(p, 1, n) \in Seq(Name) /\ IsPrefix(SubSeq(p, 1, n), p) /\ SubSeq(p, 1, n) # p
    <2>1. n \in 0..Len(p) /\ n # Len(p) /\ n <= Len(p)
        BY <1>1
    <2> DEFINE a == SubSeq(p, 1, n)
    <2>2. a \in Seq(Name) /\ Len(a) = n /\ \A i \in 1..n : a[i] = p[i]
        BY <2>1, CutFacts
    <2> HIDE DEF a
    <2>3. IsPrefix(a, p) /\ a # p
        BY <2>1, <2>2, PrefixMeans
    <2> QED
        BY <2>2, <2>3 DEF a
  <1>3. ASSUME NEW a \in Seq(Name), IsPrefix(a, p), a # p
        PROVE  Len(a) \in 0..Len(p) - 1 /\ a = SubSeq(p, 1, Len(a))
    <2>1. Len(a) \in Nat /\ Len(a) <= Len(p) /\ Len(a) # Len(p)
        BY <1>3, LenFacts, PrefixOrder
    <2>2. Len(a) \in 0..Len(p) - 1 /\ Len(a) \in 0..Len(p)
        BY <1>1, <2>1
    <2> DEFINE b == SubSeq(p, 1, Len(a))
    <2>3. b \in Seq(Name) /\ Len(b) = Len(a) /\ \A i \in 1..Len(a) : b[i] = p[i]
        BY <2>2, CutFacts
    <2> HIDE DEF b
    <2>4. \A i \in 1..Len(a) : a[i] = p[i]
        BY <1>3, PrefixMeans
    <2>5. a = b
        BY <2>3, <2>4, SeqEqual
    <2> QED
        BY <2>2, <2>5 DEF b
  <1> QED
      BY <1>2, <1>3 DEF Ancestors

-----------------------------------------------------------------------------
(* Trees                                                                     *)

\* A tree as it is in the drive, in the trash, or in what a copy has found.
Grove(t) == /\ DOMAIN t \subseteq Path /\ Root \in DOMAIN t /\ IsTree(t)
            /\ \A p \in DOMAIN t : t[p] \in Leaf \cup {Dir}

LEMMA Least ==
    ASSUME NEW T \in SUBSET Nat, T # {}
    PROVE  \E m \in T : \A n \in T : m <= n
  <1>1. IsWellFoundedOn(OpToRel(<, Nat), Nat)
      BY NatLessThanWellFounded
  <1>2. PICK m \in T : \A n \in T : ~(<<n, m>> \in OpToRel(<, Nat))
      BY <1>1, WFMin
  <1>3. \A n \in T : ~(n < m)
      BY <1>2 DEF OpToRel
  <1> QED
      BY <1>3

\* Whatever exists is in directories that exist, up to the root.
LEMMA Closed ==
    ASSUME NEW t, Grove(t), NEW q \in DOMAIN t, NEW p \in Seq(Name), IsPrefix(p, q), p # q
    PROVE  IsDir(t, p)
  <1> DEFINE X == {x \in DOMAIN t : IsPrefix(p, x) /\ x # p}
             T == {Len(x) : x \in X}
  <1>1. \A x \in DOMAIN t : x \in Seq(Name) /\ Len(x) \in Nat
      BY PathFacts, LenFacts DEF Grove
  <1>2. T \in SUBSET Nat /\ T # {}
      BY <1>1
  <1>3. PICK m \in T : \A n \in T : m <= n
    <2> HIDE DEF T
    <2> QED
        BY <1>2, Least
  <1>4. PICK x \in X : \A y \in X : Len(x) <= Len(y)
      BY <1>3
  <1>5. x \in Seq(Name) /\ IsPrefix(p, x) /\ x # p /\ x # Root
    <2>1. x \in Seq(Name) /\ IsPrefix(p, x) /\ x # p
        BY <1>1
    <2>2. x = Root => IsPrefix(x, p)
        BY PrefixOrder
    <2> QED
        BY <2>1, <2>2, PrefixOrder
  <1>6. IsDir(t, Parent(x)) /\ Parent(x) \in Seq(Name) /\ IsPrefix(p, Parent(x))
        /\ Len(Parent(x)) = Len(x) - 1 /\ Len(x) \in Nat
      BY <1>5, ParentFacts DEF Grove, IsTree
  <1>7. Parent(x) \notin X
      BY <1>1, <1>4, <1>6
  <1>8. Parent(x) = p
      BY <1>6, <1>7 DEF IsDir
  <1> QED
      BY <1>6, <1>8

\* Nothing is below a path that does not exist, nor below a file.
LEMMA NothingBelow ==
    ASSUME NEW t, Grove(t), NEW p \in Seq(Name), ~IsDir(t, p), NEW q \in DOMAIN t, IsPrefix(p, q)
    PROVE  q = p
  BY Closed

\* File f is at path p of tree t.
HoldsIn(t, p, f) == p \in DOMAIN t /\ t[p] # Dir /\ t[p].file = f

LEMMA FilesHeld == \A t, f : f \in Files(t) <=> \E p : HoldsIn(t, p, f)
  BY DEF Files, HoldsIn

LEMMA LeafFacts ==
    /\ Dir \notin Leaf
    /\ \A node \in Leaf : node.file \in File /\ node.data \in 1..MaxWrites
    /\ MaxWrites \in Nat /\ MaxCopies \in Nat /\ MaxTrash \in Nat
  <1>1. MaxWrites \in Nat /\ MaxCopies \in Nat /\ MaxTrash \in Nat
      BY TreeConstants
  <1> QED
      BY <1>1 DEF Leaf, Dir

LEMMA DetachedIs ==
    ASSUME NEW t, Grove(t), NEW p \in DOMAIN t
    PROVE  LET D == Detached(t, p) IN
           /\ Grove(D) /\ Fits(p, D)
           /\ \A r : r \in DOMAIN D <=> r \in Seq(Name) /\ p \o r \in DOMAIN t
           /\ \A r \in DOMAIN D : D[r] = t[p \o r]
           /\ \A r, f : HoldsIn(D, r, f) <=> r \in Seq(Name) /\ HoldsIn(t, p \o r, f)
  <1> DEFINE D == Detached(t, p)
  <1>1. /\ \A q \in DOMAIN t : q \in Seq(Name) /\ Len(q) <= MaxDepth /\ Len(q) \in Nat
        /\ p \in Seq(Name) /\ MaxDepth \in Nat
      BY PathFacts, LenFacts, PathConstants DEF Grove
  <1>2. \A r : r \in DOMAIN D <=> r \in Seq(Name) /\ p \o r \in DOMAIN t
    <2>1. DOMAIN D = {Below(p, q) : q \in Under(t, p)}
        BY DEF Detached
    <2>2. ASSUME NEW q \in Under(t, p) PROVE Below(p, q) \in Seq(Name) /\ p \o Below(p, q) \in DOMAIN t
        BY <1>1, BelowBack DEF Under
    <2>3. ASSUME NEW r \in Seq(Name), p \o r \in DOMAIN t PROVE r \in {Below(p, q) : q \in Under(t, p)}
      <3>1. IsPrefix(p, p \o r) /\ Below(p, p \o r) = r
          BY <1>1, BelowFacts
      <3> QED
          BY <2>3, <3>1 DEF Under
    <2> QED
        BY <2>1, <2>2, <2>3
  <1>3. \A r \in DOMAIN D : D[r] = t[p \o r]
      BY DEF Detached
  <1> HIDE DEF D
  <1>4. \A r \in DOMAIN D : r \in Path /\ D[r] \in Leaf \cup {Dir}
    <2> TAKE r \in DOMAIN D
    <2>1. r \in Seq(Name) /\ p \o r \in DOMAIN t /\ D[r] = t[p \o r]
        BY <1>2, <1>3
    <2>2. Len(p \o r) = Len(p) + Len(r) /\ Len(p) \in Nat /\ Len(r) \in Nat
        BY <1>1, <2>1, BelowFacts, LenFacts
    <2>3. Len(p \o r) <= MaxDepth
        BY <1>1, <2>1
    <2>4. Len(r) <= MaxDepth
        BY <1>1, <2>2, <2>3
    <2> QED
        BY <2>1, <2>4, PathFacts DEF Grove
  <1>5. Root \in DOMAIN D
    <2>1. p \o Root = p
        BY <1>1, BelowFacts, RootFacts
    <2> QED
        BY <1>2, <2>1, RootFacts
  <1>6. IsTree(D)
    <2> SUFFICES ASSUME NEW r \in DOMAIN D, r # Root PROVE IsDir(D, Parent(r))
        BY DEF IsTree
    <2>1. r \in Seq(Name) /\ p \o r \in DOMAIN t
        BY <1>2
    <2>2. p \o r # Root /\ Parent(p \o r) = p \o Parent(r) /\ Parent(r) \in Seq(Name)
        BY <1>1, <2>1, ParentBelow, ParentFacts
    <2>3. IsDir(t, p \o Parent(r))
        BY <2>1, <2>2 DEF Grove, IsTree
    <2> QED
        BY <1>2, <1>3, <2>2, <2>3 DEF IsDir
  <1>7. Fits(p, D)
      BY <1>1, <1>2 DEF Fits
  <1>8. \A r, f : HoldsIn(D, r, f) <=> r \in Seq(Name) /\ HoldsIn(t, p \o r, f)
      BY <1>2, <1>3 DEF HoldsIn
  <1> QED
      BY <1>2, <1>3, <1>4, <1>5, <1>6, <1>7, <1>8 DEF Grove, D

LEMMA WithoutIs ==
    ASSUME NEW t, Grove(t), NEW p \in Seq(Name), p # Root
    PROVE  LET W == Without(t, p) IN
           /\ Grove(W)
           /\ \A q : q \in DOMAIN W <=> q \in DOMAIN t /\ ~IsPrefix(p, q)
           /\ \A q \in DOMAIN W : W[q] = t[q]
           /\ \A q, f : HoldsIn(W, q, f) <=> HoldsIn(t, q, f) /\ ~IsPrefix(p, q)
  <1> DEFINE W == Without(t, p)
  <1>1. /\ \A q : q \in DOMAIN W <=> q \in DOMAIN t /\ ~IsPrefix(p, q)
        /\ \A q \in DOMAIN W : W[q] = t[q]
      BY DEF Without, Restrict, Under
  <1> HIDE DEF W
  <1>2. \A q \in DOMAIN t : q \in Seq(Name)
      BY PathFacts DEF Grove
  <1>3. Root \in DOMAIN W
    <2>1. IsPrefix(p, Root) => p = Root
        BY RootFacts, PrefixOrder
    <2> QED
        BY <1>1, <2>1 DEF Grove
  <1>4. IsTree(W)
    <2> SUFFICES ASSUME NEW q \in DOMAIN W, q # Root PROVE IsDir(W, Parent(q))
        BY DEF IsTree
    <2>1. q \in Seq(Name) /\ q \in DOMAIN t /\ ~IsPrefix(p, q)
        BY <1>1, <1>2
    <2>2. IsDir(t, Parent(q)) /\ ~IsPrefix(p, Parent(q))
        BY <2>1, ParentFacts DEF Grove, IsTree
    <2> QED
        BY <1>1, <2>2 DEF IsDir
  <1>5. \A q, f : HoldsIn(W, q, f) <=> HoldsIn(t, q, f) /\ ~IsPrefix(p, q)
      BY <1>1 DEF HoldsIn
  <1> QED
      BY <1>1, <1>3, <1>4, <1>5 DEF Grove, W

LEMMA SingleIs ==
    ASSUME NEW node \in Leaf \cup {Dir}
    PROVE  /\ Grove(Single(node)) /\ DOMAIN Single(node) = {Root} /\ Single(node)[Root] = node
           /\ \A r, f : HoldsIn(Single(node), r, f) <=> r = Root /\ node # Dir /\ node.file = f
  <1>1. DOMAIN Single(node) = {Root} /\ Single(node)[Root] = node
      BY DEF Single
  <1> QED
      BY <1>1, PathFacts DEF Grove, IsTree, HoldsIn

\* Tree u is t with more directories.
Adds(t, u) ==
    /\ Grove(u) /\ DOMAIN t \subseteq DOMAIN u
    /\ \A q \in DOMAIN u : u[q] = IF q \in DOMAIN t THEN t[q] ELSE Dir
    /\ \A q, f : HoldsIn(u, q, f) <=> HoldsIn(t, q, f)

LEMMA MakeAdds ==
    ASSUME NEW t, Grove(t), NEW P \in SUBSET Path, CanMake(t, P),
           \A a \in P : a # Root => Parent(a) \in P \/ IsDir(t, Parent(a))
    PROVE  Adds(t, Make(t, P)) /\ DOMAIN Make(t, P) = DOMAIN t \cup P
  <1> DEFINE u == Make(t, P)
  <1>1. /\ DOMAIN u = DOMAIN t \cup P
        /\ \A q \in DOMAIN u : u[q] = IF q \in DOMAIN t THEN t[q] ELSE Dir
      BY DEF Make
  <1> HIDE DEF u
  <1>2. IsTree(u)
    <2> SUFFICES ASSUME NEW q \in DOMAIN u, q # Root PROVE IsDir(u, Parent(q))
        BY DEF IsTree
    <2>1. CASE q \in P /\ Parent(q) \in P
        BY <1>1, <2>1 DEF IsDir, CanMake
    <2>2. CASE IsDir(t, Parent(q))
        BY <1>1, <2>2 DEF IsDir
    <2> QED
        BY <1>1, <2>1, <2>2 DEF Grove, IsTree
  <1>3. Grove(u)
      BY <1>1, <1>2 DEF Grove
  <1>4. \A q, f : HoldsIn(u, q, f) <=> HoldsIn(t, q, f)
      BY <1>1 DEF HoldsIn
  <1> QED
      BY <1>1, <1>3, <1>4 DEF Adds, u

\* os.MkdirAll of the directories on the way to p, and of p.
LEMMA AncestorsMade ==
    ASSUME NEW t, Grove(t), NEW p \in Path
    PROVE  /\ CanMake(t, Ancestors(p)) =>
                Adds(t, Make(t, Ancestors(p))) /\ DOMAIN Make(t, Ancestors(p)) = DOMAIN t \cup Ancestors(p)
           /\ CanMake(t, Ancestors(p) \cup {p}) =>
                /\ Adds(t, Make(t, Ancestors(p) \cup {p}))
                /\ DOMAIN Make(t, Ancestors(p) \cup {p}) = DOMAIN t \cup Ancestors(p) \cup {p}
           /\ p # Root => Parent(p) \in Ancestors(p)
           /\ p \notin Ancestors(p)
  <1>1. p \in Seq(Name) /\ Ancestors(p) = {a \in Seq(Name) : IsPrefix(a, p) /\ a # p}
      BY PathFacts, AncestorFacts
  <1>2. ASSUME NEW a \in Ancestors(p) PROVE a \in Path
    <2>1. a \in Seq(Name) /\ IsPrefix(a, p)
        BY <1>1
    <2>2. Len(a) <= Len(p) /\ Len(p) <= MaxDepth /\ Len(a) \in Nat /\ Len(p) \in Nat /\ MaxDepth \in Nat
        BY <1>1, <2>1, PrefixOrder, PathFacts, LenFacts, PathConstants
    <2> QED
        BY <2>1, <2>2, PathFacts
  <1>3. ASSUME NEW a \in Ancestors(p) \cup {p}, a # Root PROVE Parent(a) \in Ancestors(p)
    <2>1. a \in Seq(Name) /\ IsPrefix(a, p)
        BY <1>1, PrefixOrder
    <2>2. Parent(a) \in Seq(Name) /\ IsPrefix(Parent(a), a) /\ Parent(a) # a
        BY <1>3, <2>1, ParentFacts, PrefixOrder
    <2>3. IsPrefix(Parent(a), p)
        BY <1>1, <2>1, <2>2, PrefixOrder
    <2>4. Parent(a) # p
        BY <1>1, <2>1, <2>2, PrefixOrder
    <2> QED
        BY <1>1, <2>2, <2>3, <2>4
  <1>4. Ancestors(p) \in SUBSET Path /\ Ancestors(p) \cup {p} \in SUBSET Path
      BY <1>2
  <1>5. \A a \in Ancestors(p) : a # Root => Parent(a) \in Ancestors(p)
      BY <1>3
  <1>6. \A a \in Ancestors(p) \cup {p} : a # Root => Parent(a) \in Ancestors(p) \cup {p}
      BY <1>3
  <1>7. p # Root => Parent(p) \in Ancestors(p)
      BY <1>3
  <1>8. CanMake(t, Ancestors(p)) =>
          Adds(t, Make(t, Ancestors(p))) /\ DOMAIN Make(t, Ancestors(p)) = DOMAIN t \cup Ancestors(p)
      BY <1>4, <1>5, MakeAdds
  <1>9. CanMake(t, Ancestors(p) \cup {p}) =>
          /\ Adds(t, Make(t, Ancestors(p) \cup {p}))
          /\ DOMAIN Make(t, Ancestors(p) \cup {p}) = DOMAIN t \cup Ancestors(p) \cup {p}
    <2> DEFINE P == Ancestors(p) \cup {p}
    <2>1. P \in SUBSET Path /\ \A a \in P : a # Root => Parent(a) \in P
        BY <1>4, <1>6
    <2> HIDE DEF P
    <2>2. CanMake(t, P) => Adds(t, Make(t, P)) /\ DOMAIN Make(t, P) = DOMAIN t \cup P
        BY <2>1, MakeAdds
    <2> QED
        BY <2>2 DEF P
  <1> QED
      BY <1>1, <1>7, <1>8, <1>9

\* Tree u is t with tree `new` at p, a free path.
Planted(t, p, new, u) ==
    /\ Grove(u) /\ \A q : q \in DOMAIN u <=> q \in DOMAIN t \/ \E r \in DOMAIN new : q = p \o r
    /\ \A q \in DOMAIN t : u[q] = t[q] /\ ~IsPrefix(p, q)
    /\ \A r \in DOMAIN new : u[p \o r] = new[r]
    /\ \A q, f : HoldsIn(u, q, f) <=> \/ HoldsIn(t, q, f)
                                      \/ \E r : q = p \o r /\ HoldsIn(new, r, f)

LEMMA WithPlants ==
    ASSUME NEW t, Grove(t), NEW new, Grove(new), NEW p \in Seq(Name), p # Root, p \notin DOMAIN t,
           IsDir(t, Parent(p)), Fits(p, new)
    PROVE  Planted(t, p, new, With(t, p, new))
  <1> DEFINE u == With(t, p, new)
  <1>1. /\ \A q \in DOMAIN t : q \in Seq(Name)
        /\ \A r \in DOMAIN new : r \in Seq(Name)
      BY PathFacts DEF Grove
  <1>2. \A q \in DOMAIN t : ~IsPrefix(p, q)
      BY NothingBelow DEF IsDir
  <1>3. \A r \in DOMAIN new : IsPrefix(p, p \o r) /\ Below(p, p \o r) = r /\ p \o r \in Path
      BY <1>1, BelowFacts, PathFacts DEF Fits
  <1>4. /\ \A q : q \in DOMAIN u <=> q \in DOMAIN t \/ \E r \in DOMAIN new : q = p \o r
        /\ \A q \in DOMAIN t : u[q] = t[q]
        /\ \A r \in DOMAIN new : u[p \o r] = new[r]
      BY <1>2, <1>3 DEF With
  <1> HIDE DEF u
  <1>5. \A q \in DOMAIN u : q \in Path /\ u[q] \in Leaf \cup {Dir}
    <2> TAKE q \in DOMAIN u
    <2>1. CASE q \in DOMAIN t
        BY <1>4, <2>1 DEF Grove
    <2>2. ASSUME NEW r \in DOMAIN new, q = p \o r PROVE q \in Path /\ u[q] \in Leaf \cup {Dir}
        BY <1>3, <1>4, <2>2 DEF Grove
    <2> QED
        BY <1>4, <2>1, <2>2
  <1>6. IsTree(u)
    <2> SUFFICES ASSUME NEW q \in DOMAIN u, q # Root PROVE IsDir(u, Parent(q))
        BY DEF IsTree
    <2>1. CASE q \in DOMAIN t
      <3>1. IsDir(t, Parent(q))
          BY <2>1 DEF Grove, IsTree
      <3> QED
          BY <1>4, <3>1 DEF IsDir
    <2>2. ASSUME NEW r \in DOMAIN new, q = p \o r PROVE IsDir(u, Parent(q))
      <3>1. CASE r = Root
        <4>1. q = p
            BY <2>2, <3>1, BelowFacts, RootFacts
        <4> QED
            BY <1>4, <4>1 DEF IsDir
      <3>2. CASE r # Root
        <4>1. Parent(q) = p \o Parent(r)
            BY <1>1, <2>2, <3>2, ParentBelow
        <4>2. IsDir(new, Parent(r))
            BY <3>2 DEF Grove, IsTree
        <4> QED
            BY <1>4, <4>1, <4>2 DEF IsDir
      <3> QED
          BY <3>1, <3>2
    <2> QED
        BY <1>4, <2>1, <2>2
  <1>7. Grove(u)
      BY <1>4, <1>5, <1>6 DEF Grove
  <1>8. ASSUME NEW q, NEW f
        PROVE  HoldsIn(u, q, f) <=> HoldsIn(t, q, f) \/ \E r : q = p \o r /\ HoldsIn(new, r, f)
    <2>1. HoldsIn(t, q, f) => HoldsIn(u, q, f)
        BY <1>4 DEF HoldsIn
    <2>2. ASSUME NEW r, q = p \o r, HoldsIn(new, r, f) PROVE HoldsIn(u, q, f)
        BY <1>4, <2>2 DEF HoldsIn
    <2>3. ASSUME HoldsIn(u, q, f), q \in DOMAIN t PROVE HoldsIn(t, q, f)
        BY <1>4, <2>3 DEF HoldsIn
    <2>4. ASSUME HoldsIn(u, q, f), NEW r \in DOMAIN new, q = p \o r PROVE HoldsIn(new, r, f)
        BY <1>4, <2>4 DEF HoldsIn
    <2>5. HoldsIn(u, q, f) => q \in DOMAIN t \/ \E r \in DOMAIN new : q = p \o r
        BY <1>4 DEF HoldsIn
    <2> QED
        BY <2>1, <2>2, <2>3, <2>4, <2>5
  <1> QED
      BY <1>2, <1>4, <1>7, <1>8 DEF Planted, u

-----------------------------------------------------------------------------
(* Types                                                                     *)

\* What a trash item tells: a tree, and where it can be put back.
Trashed(item) == /\ item.orig \in Path \ {Root} /\ item.refs \subseteq Version
                 /\ Grove(item.was) /\ Fits(item.orig, item.was)

Typed == /\ Grove(tree) /\ IsDir(tree, Root)
         /\ DOMAIN bin \subseteq 1..MaxTrash /\ \A id \in DOMAIN bin : Trashed(bin[id])
         /\ rows \subseteq Version /\ blobs \subseteq Version
         /\ job \in [src : Path, dst : Path, todo : SUBSET DOMAIN tree, was : {job.was}]
         /\ Accepting \/ (job.src # Root /\ copies # 0 /\ \A q \in job.todo : IsPrefix(job.src, q))
         /\ writes \in 0..MaxWrites /\ copies \in 0..MaxCopies

LEMMA TypedTypes == Typed => TypeOK
  <1>1. Typed => job.todo \subseteq DOMAIN tree
      BY DEF Typed
  <1> QED
      BY <1>1 DEF Typed, TypeOK, Grove, Trashed

LEMMA TypedFacts ==
    ASSUME Typed
    PROVE  /\ Grove(tree) /\ IsDir(tree, Root)
           /\ \A p \in DOMAIN tree : p \in Seq(Name) /\ p \in Path /\ tree[p] \in Leaf \cup {Dir}
           /\ \A id \in DOMAIN bin : bin[id].orig \in Seq(Name) /\ Grove(bin[id].was)
           /\ job.src \in Path /\ job.dst \in Path /\ job.todo \subseteq DOMAIN tree
           /\ Accepting => job.todo = {} /\ job.src = Root
           /\ job.todo # {} => ~Accepting
           /\ writes \in Nat /\ copies \in Nat
  BY PathFacts DEF Typed, Grove, Trashed, Accepting, NoJob

\* The step puts tree `new` at p, a free path, and makes directories at most.
Puts(p, new) ==
    /\ Grove(tree') /\ IsDir(tree', Root) /\ DOMAIN tree \subseteq DOMAIN tree'
    /\ \A q \in DOMAIN tree : tree'[q] = tree[q] /\ ~IsPrefix(p, q)
    /\ \A r \in DOMAIN new : p \o r \in DOMAIN tree' /\ tree'[p \o r] = new[r]
    /\ \A q, f : HoldsIn(tree', q, f) <=> \/ HoldsIn(tree, q, f)
                                          \/ \E r : q = p \o r /\ HoldsIn(new, r, f)

LEMMA PutsMade ==
    ASSUME Typed, NEW p \in Path \ {Root}, p \notin DOMAIN tree, CanMake(tree, Ancestors(p)),
           NEW new, Grove(new), Fits(p, new), tree' = With(Make(tree, Ancestors(p)), p, new)
    PROVE  Puts(p, new)
  <1> DEFINE m == Make(tree, Ancestors(p))
  <1>1. Adds(tree, m) /\ DOMAIN m = DOMAIN tree \cup Ancestors(p)
        /\ Parent(p) \in Ancestors(p) /\ p \notin Ancestors(p)
      BY TypedFacts, AncestorsMade
  <1> HIDE DEF m
  <1>2. p \notin DOMAIN m /\ IsDir(m, Parent(p)) /\ Grove(m) /\ p \in Seq(Name)
      BY <1>1, PathFacts DEF Adds, IsDir, CanMake
  <1>3. Planted(m, p, new, With(m, p, new))
      BY <1>2, WithPlants
  <1>4. Planted(m, p, new, tree')
      BY <1>3 DEF m
  <1> QED
      BY <1>1, <1>4, TypedFacts DEF Planted, Adds, Puts, IsDir

LEMMA PutsWith ==
    ASSUME Typed, NEW p \in Path, p \notin DOMAIN tree, IsDir(tree, Parent(p)),
           NEW new, Grove(new), Fits(p, new), tree' = With(tree, p, new)
    PROVE  Puts(p, new)
  <1>1. p # Root /\ p \in Seq(Name)
      BY TypedFacts, PathFacts DEF IsDir
  <1>2. Planted(tree, p, new, tree')
      BY <1>1, TypedFacts, WithPlants
  <1> QED
      BY <1>2, TypedFacts DEF Planted, Puts, IsDir

\* A single file fits wherever there is room for its name.
LEMMA SingleFits ==
    ASSUME NEW p \in Path, NEW node \in Leaf \cup {Dir}
    PROVE  Fits(p, Single(node))
  <1>1. p \in Seq(Name) /\ Len(p) <= MaxDepth /\ p \o Root = p
      BY PathFacts, BelowFacts, RootFacts
  <1> QED
      BY <1>1, SingleIs DEF Fits

LEMMA UploadNewDoes ==
    ASSUME Typed, NEW p \in Path, UploadNew(p)
    PROVE  LET node == [file |-> [by |-> writes + 1, at |-> Root], data |-> writes + 1] IN
           node \in Leaf /\ Puts(p, Single(node))
  <1> DEFINE node == [file |-> [by |-> writes + 1, at |-> Root], data |-> writes + 1]
  <1>1. writes + 1 \in 1..MaxWrites /\ writes + 1 \in 1..MaxWrites + MaxCopies
      BY TypedFacts, LeafFacts DEF UploadNew, Typed
  <1>2. node \in Leaf
      BY <1>1, PathFacts DEF Leaf, File
  <1>3. /\ p \in Path \ {Root} /\ p \notin DOMAIN tree /\ CanMake(tree, Ancestors(p))
        /\ tree' = With(Make(tree, Ancestors(p)), p, Single(node))
      BY DEF UploadNew
  <1> HIDE DEF node
  <1>4. Puts(p, Single(node))
      BY <1>2, <1>3, PutsMade, SingleIs, SingleFits
  <1> QED
      BY <1>2, <1>4 DEF node

\* A copy of a file, known by id.
LEMMA CopyOneDoes ==
    ASSUME Typed, NEW src \in DOMAIN tree, NEW dst, NEW id \in File, CopyOne(src, dst, id)
    PROVE  LET node == [file |-> id, data |-> tree[src].data] IN
           node \in Leaf /\ Puts(dst, Single(node)) /\ dst \in Path
  <1> DEFINE node == [file |-> id, data |-> tree[src].data]
  <1>1. tree[src] \in Leaf
      BY TypedFacts DEF CopyOne
  <1>2. node \in Leaf
      BY <1>1 DEF Leaf
  <1>3. dst \in Path /\ dst \notin DOMAIN tree /\ IsDir(tree, Parent(dst)) /\ tree' = With(tree, dst, Single(node))
      BY DEF CopyOne
  <1> HIDE DEF node
  <1>4. Puts(dst, Single(node))
      BY <1>2, <1>3, PutsWith, SingleIs, SingleFits
  <1> QED
      BY <1>2, <1>3, <1>4 DEF node

LEMMA MakesDirs ==
    ASSUME Typed, NEW src, NEW dst, CopyMake(src, dst)
    PROVE  Adds(tree, tree') /\ IsDir(tree', Root) /\ dst \in DOMAIN tree'
  <1>1. dst \in Path /\ CanMake(tree, Ancestors(dst) \cup {dst}) /\ tree' = Make(tree, Ancestors(dst) \cup {dst})
      BY DEF CopyMake
  <1>2. Adds(tree, tree') /\ dst \in DOMAIN tree'
    <2> DEFINE m == Make(tree, Ancestors(dst) \cup {dst})
    <2>1. Adds(tree, m) /\ DOMAIN m = DOMAIN tree \cup Ancestors(dst) \cup {dst}
        BY <1>1, TypedFacts, AncestorsMade
    <2>2. tree' = m
        BY <1>1
    <2> HIDE DEF m
    <2> QED
        BY <2>1, <2>2
  <1>3. IsDir(tree, Root)
      BY TypedFacts
  <1> QED
      BY <1>2, <1>3 DEF Adds, IsDir

LEMMA MkdirDoes ==
    ASSUME Typed, NEW p \in Path, Mkdir(p)
    PROVE  Adds(tree, tree') /\ IsDir(tree', Root)
  <1>1. {p} \in SUBSET Path /\ CanMake(tree, {p}) /\ \A a \in {p} : IsDir(tree, Parent(a))
        /\ tree' = Make(tree, {p})
      BY DEF Mkdir, CanMake
  <1>2. Adds(tree, tree')
    <2>1. Grove(tree)
        BY TypedFacts
    <2>2. Adds(tree, Make(tree, {p}))
        BY <1>1, <2>1, MakeAdds
    <2> QED
        BY <1>1, <2>2
  <1>3. IsDir(tree, Root)
      BY TypedFacts
  <1> QED
      BY <1>2, <1>3 DEF Adds, IsDir

LEMMA UploadOverDoes ==
    ASSUME Typed, NEW p \in Path, UploadOver(p)
    PROVE  /\ Grove(tree') /\ IsDir(tree', Root)
           /\ \A q, f : HoldsIn(tree', q, f) <=> HoldsIn(tree, q, f)
           /\ [path |-> p, file |-> tree[p].file, data |-> tree[p].data] \in Version
           /\ HoldsIn(tree, p, tree[p].file)
  <1> DEFINE node == [tree[p] EXCEPT !.data = writes + 1]
  <1>1. p \in DOMAIN tree /\ tree[p] \in Leaf /\ p \in Seq(Name) /\ tree[p] # Dir
      BY TypedFacts DEF UploadOver
  <1>2. writes + 1 \in 1..MaxWrites
      BY TypedFacts, LeafFacts DEF UploadOver, Typed
  <1>3. node \in Leaf /\ node.file = tree[p].file
      BY <1>1, <1>2 DEF Leaf
  <1>4. node # Dir
      BY <1>3, LeafFacts
  <1>5. tree' = [tree EXCEPT ![p] = node]
      BY DEF UploadOver
  <1> HIDE DEF node
  <1>6. /\ DOMAIN tree' = DOMAIN tree
        /\ \A q \in DOMAIN tree : tree'[q] = IF q = p THEN node ELSE tree[q]
      BY <1>5
  <1>7. \A q : IsDir(tree', q) <=> IsDir(tree, q)
      BY <1>1, <1>4, <1>6 DEF IsDir
  <1>8. Grove(tree') /\ IsDir(tree', Root)
      BY <1>3, <1>6, <1>7, TypedFacts DEF Grove, IsTree
  <1>9. \A q, f : HoldsIn(tree', q, f) <=> HoldsIn(tree, q, f)
      BY <1>1, <1>3, <1>4, <1>6 DEF HoldsIn
  <1>10. [path |-> p, file |-> tree[p].file, data |-> tree[p].data] \in Version
      BY <1>1, LeafFacts DEF Version
  <1> QED
      BY <1>1, <1>8, <1>9, <1>10 DEF HoldsIn

\* The step takes the tree at p away.
Takes(p) ==
    /\ Grove(tree') /\ IsDir(tree', Root)
    /\ \A q : q \in DOMAIN tree' <=> q \in DOMAIN tree /\ ~IsPrefix(p, q)
    /\ \A q \in DOMAIN tree' : tree'[q] = tree[q]
    /\ \A q, f : HoldsIn(tree', q, f) <=> HoldsIn(tree, q, f) /\ ~IsPrefix(p, q)

LEMMA DeleteDoes ==
    ASSUME Typed, NEW p \in Path, NEW id \in 1..MaxTrash, Delete(p, id)
    PROVE  /\ Takes(p) /\ p \in DOMAIN tree /\ p # Root
           /\ DOMAIN bin' = DOMAIN bin \cup {id} /\ id \notin DOMAIN bin
           /\ \A i \in DOMAIN bin : bin'[i] = bin[i]
           /\ bin'[id] = [orig |-> p, was |-> Detached(tree, p), refs |-> RowsUnder(p)]
           /\ Trashed(bin'[id])
  <1>1. p \in Seq(Name) /\ p # Root /\ p \in DOMAIN tree /\ id \notin DOMAIN bin
        /\ tree' = Without(tree, p) /\ RowsUnder(p) \subseteq Version
      BY PathFacts DEF Delete, RowsUnder, Typed
  <1>2. Takes(p)
    <2> DEFINE W == Without(tree, p)
    <2>1. /\ Grove(W)
          /\ \A q : q \in DOMAIN W <=> q \in DOMAIN tree /\ ~IsPrefix(p, q)
          /\ \A q \in DOMAIN W : W[q] = tree[q]
          /\ \A q, f : HoldsIn(W, q, f) <=> HoldsIn(tree, q, f) /\ ~IsPrefix(p, q)
        BY <1>1, TypedFacts, WithoutIs
    <2>2. tree' = W
        BY <1>1
    <2> HIDE DEF W
    <2>3. IsDir(W, Root)
        BY <2>1, TypedFacts DEF Grove, IsDir
    <2> QED
        BY <2>1, <2>2, <2>3 DEF Takes
  <1>3. bin' = [i \in DOMAIN bin \cup {id} |->
                  IF i = id THEN [orig |-> p, was |-> Detached(tree, p), refs |-> RowsUnder(p)] ELSE bin[i]]
      BY DEF Delete
  <1>4. Grove(Detached(tree, p)) /\ Fits(p, Detached(tree, p))
      BY <1>1, TypedFacts, DetachedIs
  <1>5. /\ DOMAIN bin' = DOMAIN bin \cup {id} /\ \A i \in DOMAIN bin : bin'[i] = bin[i]
        /\ bin'[id] = [orig |-> p, was |-> Detached(tree, p), refs |-> RowsUnder(p)]
      BY <1>1, <1>3
  <1>6. Trashed(bin'[id])
      BY <1>1, <1>4, <1>5 DEF Trashed
  <1> QED
      BY <1>1, <1>2, <1>5, <1>6

\* The step moves the tree at `from` to `to`.
Moves(from, to) ==
    /\ from \in DOMAIN tree /\ from # Root /\ to \in Seq(Name) /\ to # Root
    /\ Grove(tree') /\ IsDir(tree', Root)
    /\ \A q, f : HoldsIn(tree', q, f) <=>
                   \/ HoldsIn(tree, q, f) /\ ~IsPrefix(from, q)
                   \/ \E r \in Seq(Name) : q = to \o r /\ HoldsIn(tree, from \o r, f)
    /\ \A r \in Seq(Name) : ~(to \o r \in DOMAIN tree /\ ~IsPrefix(from, to \o r))
    /\ RelocateHistory(from, to)
    /\ Apart(from, Files(Detached(tree, from)))
    /\ UNCHANGED <<bin, job, counters>>

LEMMA RelocateDoes ==
    ASSUME Typed, NEW from \in Path, NEW to \in Seq(Name), Relocate(from, to), to # Root,
           Parent(to) \in Seq(Name), ~IsPrefix(from, Parent(to))
    PROVE  Moves(from, to)
  <1> DEFINE W == Without(tree, from)
             D == Detached(tree, from)
  <1>1. /\ from \in Seq(Name) /\ from # Root /\ from \in DOMAIN tree /\ to \notin DOMAIN tree
        /\ IsDir(tree, Parent(to)) /\ Fits(to, D) /\ tree' = With(W, to, D)
        /\ RelocateHistory(from, to) /\ Apart(from, Files(D)) /\ UNCHANGED <<bin, job, counters>>
      BY PathFacts DEF Relocate
  <1>2. /\ Grove(W)
        /\ \A q : q \in DOMAIN W <=> q \in DOMAIN tree /\ ~IsPrefix(from, q)
        /\ \A q \in DOMAIN W : W[q] = tree[q]
        /\ \A q, f : HoldsIn(W, q, f) <=> HoldsIn(tree, q, f) /\ ~IsPrefix(from, q)
      BY <1>1, TypedFacts, WithoutIs
  <1>3. Grove(D) /\ \A r, f : HoldsIn(D, r, f) <=> r \in Seq(Name) /\ HoldsIn(tree, from \o r, f)
      BY <1>1, TypedFacts, DetachedIs
  <1>4. Apart(from, Files(Detached(tree, from)))
      BY <1>1
  <1> HIDE DEF W, D
  <1>5. to \notin DOMAIN W /\ IsDir(W, Parent(to)) /\ IsDir(W, Root)
      BY <1>1, <1>2, TypedFacts DEF IsDir, Grove
  <1>6. Planted(W, to, D, tree')
      BY <1>1, <1>2, <1>3, <1>5, WithPlants
  <1>7. Grove(tree') /\ IsDir(tree', Root)
      BY <1>5, <1>6 DEF Planted, IsDir
  <1>8. \A q, f : HoldsIn(tree', q, f) <=>
                    \/ HoldsIn(tree, q, f) /\ ~IsPrefix(from, q)
                    \/ \E r \in Seq(Name) : q = to \o r /\ HoldsIn(tree, from \o r, f)
      BY <1>2, <1>3, <1>6 DEF Planted
  <1>9. \A r \in Seq(Name) : ~(to \o r \in DOMAIN tree /\ ~IsPrefix(from, to \o r))
      BY <1>2, <1>6, BelowFacts DEF Planted
  <1> QED
      BY <1>1, <1>4, <1>7, <1>8, <1>9 DEF Moves

LEMMA MovesDo ==
    ASSUME Typed, NEW p \in Path,
           (\E n \in Name : Rename(p, n)) \/ (\E q \in Path : Move(p, q))
    PROVE  Accepting /\ \E to \in Seq(Name) : Moves(p, to)
  <1>1. p \in Seq(Name)
      BY PathFacts
  <1>2. ASSUME NEW n \in Name, Rename(p, n) PROVE Moves(p, Append(Parent(p), n))
    <2>1. p # Root /\ Relocate(p, Append(Parent(p), n))
        BY <1>2 DEF Rename, Relocate
    <2>2. /\ Parent(p) \in Seq(Name) /\ Append(Parent(p), n) \in Seq(Name) /\ Append(Parent(p), n) # Root
          /\ Parent(Append(Parent(p), n)) = Parent(p) /\ ~IsPrefix(p, Parent(p))
        BY <1>1, <2>1, ParentFacts, AppendFacts
    <2> QED
        BY <2>1, <2>2, RelocateDoes
  <1>3. ASSUME NEW q \in Path, Move(p, q) PROVE Moves(p, Append(q, Last(p))) /\ Append(q, Last(p)) \in Seq(Name)
    <2>1. p # Root /\ Relocate(p, Append(q, Last(p))) /\ ~IsPrefix(p, q) /\ q \in Seq(Name)
        BY <1>3, PathFacts DEF Move
    <2>2. Last(p) \in Name
      <3>1. Len(p) \in 1..Len(p)
          BY <1>1, <2>1, LenFacts, RootFacts
      <3> QED
          BY <1>1, <3>1, LenFacts DEF Last
    <2>3. /\ Append(q, Last(p)) \in Seq(Name) /\ Append(q, Last(p)) # Root
          /\ Parent(Append(q, Last(p))) = q
        BY <2>1, <2>2, AppendFacts
    <2> QED
        BY <2>1, <2>3, RelocateDoes
  <1>4. \A n \in Name : Rename(p, n) => Append(Parent(p), n) \in Seq(Name)
    <2> TAKE n \in Name
    <2>1. Rename(p, n) => p # Root
        BY DEF Rename, Relocate
    <2> QED
        BY <1>1, <2>1, ParentFacts, AppendFacts
  <1> QED
      BY <1>2, <1>3, <1>4 DEF Rename, Move

LEMMA RestoreDoes ==
    ASSUME Typed, NEW id \in 1..MaxTrash, Restore(id)
    PROVE  /\ id \in DOMAIN bin /\ Recorded(bin[id]) /\ Accepting
           /\ DOMAIN bin' = DOMAIN bin \ {id} /\ \A i \in DOMAIN bin' : bin'[i] = bin[i]
           /\ \E dest \in Seq(Name) :
                /\ Puts(dest, bin[id].was)
                /\ IF dest = bin[id].orig THEN UNCHANGED history
                   ELSE MoveVersions(Owned(bin[id]), bin[id].orig, dest)
  <1> DEFINE item == bin[id]
             sibling == {Append(Parent(item.orig), n) : n \in Name}
  <1>1. PICK dest \in IF item.orig \in DOMAIN tree THEN sibling \ DOMAIN tree ELSE {item.orig} :
          /\ CanMake(tree, Ancestors(dest))
          /\ tree' = With(Make(tree, Ancestors(dest)), dest, item.was)
          /\ IF dest = item.orig THEN UNCHANGED history
             ELSE MoveVersions(Owned(item), item.orig, dest)
      BY DEF Restore
  <1>2. /\ id \in DOMAIN bin /\ Recorded(bin[id]) /\ Accepting
        /\ bin' = Restrict(bin, DOMAIN bin \ {id})
      BY DEF Restore
  <1>3. item.orig \in Path /\ item.orig # Root /\ item.orig \in Seq(Name) /\ Grove(item.was)
        /\ Fits(item.orig, item.was)
      BY <1>2, PathFacts DEF Typed, Trashed
  <1>4. dest \notin DOMAIN tree /\ dest \in Seq(Name) /\ dest # Root /\ Len(dest) = Len(item.orig)
    <2>1. CASE dest = item.orig /\ item.orig \notin DOMAIN tree
        BY <1>3, <2>1
    <2>2. CASE dest \in sibling \ DOMAIN tree
      <3>1. PICK n \in Name : dest = Append(Parent(item.orig), n)
          BY <2>2
      <3>2. /\ Parent(item.orig) \in Seq(Name) /\ Len(Parent(item.orig)) = Len(item.orig) - 1
            /\ Len(item.orig) \in Nat
          BY <1>3, ParentFacts, LenFacts
      <3>3. dest \in Seq(Name) /\ dest # Root /\ Len(dest) = Len(Parent(item.orig)) + 1
          BY <3>1, <3>2, AppendFacts
      <3> QED
          BY <2>2, <3>2, <3>3
    <2> QED
        BY <1>1, <2>1, <2>2
  <1>5. dest \in Path /\ Fits(dest, item.was)
    <2>1. Len(dest) <= MaxDepth
        BY <1>3, <1>4, PathFacts
    <2>2. ASSUME NEW r \in DOMAIN item.was PROVE Len(dest \o r) <= MaxDepth
      <3>1. r \in Seq(Name)
          BY <1>3, PathFacts DEF Grove
      <3>2. Len(dest \o r) = Len(dest) + Len(r)
          BY <1>4, <3>1, BelowFacts
      <3>3. Len(item.orig \o r) = Len(item.orig) + Len(r)
          BY <1>3, <3>1, BelowFacts
      <3>4. Len(item.orig \o r) <= MaxDepth
          BY <1>3 DEF Fits
      <3> QED
          BY <1>4, <3>2, <3>3, <3>4
    <2> QED
        BY <1>4, <2>1, <2>2, PathFacts DEF Fits
  <1>6. Puts(dest, item.was)
      BY <1>1, <1>3, <1>4, <1>5, PutsMade
  <1>7. DOMAIN bin' = DOMAIN bin \ {id} /\ \A i \in DOMAIN bin' : bin'[i] = bin[i]
      BY <1>2 DEF Restrict
  <1> QED
      BY <1>1, <1>2, <1>4, <1>6, <1>7

LEMMA BelowSeq ==
    ASSUME NEW p \in Seq(Name), NEW q \in Seq(Name)
    PROVE  Below(p, q) \in Seq(Name) /\ Len(Below(p, q)) <= Len(q)
  <1> DEFINE m == Len(p) + 1
             b == SubSeq(q, m, Len(q))
  <1>1. Len(p) \in Nat /\ Len(q) \in Nat /\ m \in Int /\ Len(q) \in Int /\ \A i \in m..Len(q) : q[i] \in Name
      BY LenFacts
  <1>2. b \in Seq(Name) /\ Len(b) = IF m <= Len(q) THEN Len(q) - m + 1 ELSE 0
      BY <1>1, SubSeqProperties
  <1> HIDE DEF b
  <1>3. Len(b) <= Len(q)
      BY <1>1, <1>2
  <1> QED
      BY <1>2, <1>3 DEF b, Below

\* What a version becomes when its path moves.
LEMMA Homes ==
    ASSUME NEW r \in Version, NEW from \in Seq(Name), NEW to \in Seq(Name)
    PROVE  /\ r.path \in Seq(Name) /\ r.file \in File /\ r.data \in 1..MaxWrites
           /\ RowHome(r, from, to) \in Version /\ BlobHome(r, from, to) \in Version
           /\ RowHome(r, from, to).file = r.file /\ RowHome(r, from, to).data = r.data
           /\ RowHome(r, from, to).path = to \o Below(from, r.path)
           /\ IsPrefix(from, r.path) => /\ BlobHome(r, from, to) = RowHome(r, from, to)
                                        /\ Below(from, r.path) \in Seq(Name)
                                        /\ r.path = from \o Below(from, r.path)
  <1>1. /\ r.path \in Seq(Name) /\ r.file \in File /\ r.data \in 1..MaxWrites
        /\ r = [path |-> r.path, file |-> r.file, data |-> r.data]
      BY DEF Version
  <1>2. Below(from, r.path) \in Seq(Name)
      BY <1>1, BelowSeq
  <1>3. to \o Below(from, r.path) \in Seq(Name) /\ to \o r.path \in Seq(Name)
      BY <1>1, <1>2, BelowFacts
  <1>4. \A p \in Seq(Name) : [r EXCEPT !.path = p] = [path |-> p, file |-> r.file, data |-> r.data]
      BY <1>1
  <1>5. RowHome(r, from, to) = [path |-> to \o Below(from, r.path), file |-> r.file, data |-> r.data]
      BY <1>3, <1>4 DEF RowHome, Rebase
  <1>6. BlobHome(r, from, to) = [path |-> IF IsPrefix(from, r.path) THEN to \o Below(from, r.path) ELSE to \o r.path,
                                 file |-> r.file, data |-> r.data]
      BY <1>3, <1>4 DEF BlobHome, Rebase
  <1>7. IsPrefix(from, r.path) => r.path = from \o Below(from, r.path)
      BY <1>1, BelowBack
  <1>8. RowHome(r, from, to) \in Version
      BY <1>1, <1>3, <1>5 DEF Version
  <1>9. BlobHome(r, from, to) \in Version
      BY <1>1, <1>3, <1>6 DEF Version
  <1>10. /\ RowHome(r, from, to).file = r.file /\ RowHome(r, from, to).data = r.data
         /\ RowHome(r, from, to).path = to \o Below(from, r.path)
      BY <1>5
  <1>11. IsPrefix(from, r.path) => BlobHome(r, from, to) = RowHome(r, from, to)
      BY <1>5, <1>6
  <1> HIDE DEF Version
  <1> QED
      BY <1>1, <1>2, <1>7, <1>8, <1>9, <1>10, <1>11

LEMMA RelocateTypes ==
    ASSUME Typed, NEW from \in Seq(Name), NEW to \in Seq(Name), RelocateHistory(from, to)
    PROVE  rows' \subseteq Version /\ blobs' \subseteq Version
  <1>1. rows \subseteq Version /\ blobs \subseteq Version /\ RowsUnder(from) \subseteq rows
      BY DEF Typed, RowsUnder
  <1>2. \A r \in Version : RowHome(r, from, to) \in Version /\ BlobHome(r, from, to) \in Version
      BY Homes
  <1> QED
      BY <1>1, <1>2 DEF RelocateHistory

LEMMA MoveTypes ==
    ASSUME Typed, NEW refs \in SUBSET Version, NEW from \in Seq(Name), NEW to \in Seq(Name),
           MoveVersions(refs, from, to)
    PROVE  rows' \subseteq Version /\ blobs' \subseteq Version
  <1>1. rows \subseteq Version /\ blobs \subseteq Version
      BY DEF Typed
  <1>2. \A r \in Version : RowHome(r, from, to) \in Version
      BY Homes
  <1> QED
      BY <1>1, <1>2 DEF MoveVersions

\* The job of the copy under way.
JobTyped ==
    /\ job \in [src : Path, dst : Path, todo : SUBSET DOMAIN tree, was : {job.was}]
    /\ Accepting \/ (job.src # Root /\ copies # 0 /\ \A q \in job.todo : IsPrefix(job.src, q))

LEMMA NoJobTyped == job = NoJob => JobTyped
  BY PathFacts DEF JobTyped, Accepting, NoJob

LEMMA InitTyped == Init => Typed
  <1> SUFFICES ASSUME Init PROVE Typed
      OBVIOUS
  <1>1. JobTyped
      BY NoJobTyped DEF Init
  <1>2. Grove(tree) /\ IsDir(tree, Root)
    <2>1. Grove(Single(Dir)) /\ DOMAIN Single(Dir) = {Root} /\ Single(Dir)[Root] = Dir
        BY SingleIs
    <2>2. tree = Single(Dir)
        BY DEF Init, Single
    <2> QED
        BY <2>1, <2>2 DEF IsDir
  <1>3. DOMAIN bin = {}
      BY DEF Init
  <1>4. 0 \in 0..MaxWrites /\ 0 \in 0..MaxCopies
      BY LeafFacts
  <1> QED
      BY <1>1, <1>2, <1>3, <1>4 DEF Init, Typed, JobTyped

\* A step that leaves the trash and the versions as they are, or types them.
LEMMA KeepsTyped ==
    ASSUME Typed, Grove(tree'), IsDir(tree', Root), JobTyped',
           DOMAIN bin' \subseteq 1..MaxTrash, \A id \in DOMAIN bin' : Trashed(bin'[id]),
           rows' \subseteq Version, blobs' \subseteq Version,
           writes' \in 0..MaxWrites, copies' \in 0..MaxCopies
    PROVE  Typed'
  BY DEF Typed, JobTyped

LEMMA IdleJob == Accepting /\ UNCHANGED job => JobTyped'
  BY PathFacts DEF JobTyped, Accepting, NoJob

LEMMA OldTypes ==
    ASSUME Typed
    PROVE  /\ DOMAIN bin \subseteq 1..MaxTrash /\ \A id \in DOMAIN bin : Trashed(bin[id])
           /\ rows \subseteq Version /\ blobs \subseteq Version
           /\ writes \in 0..MaxWrites /\ copies \in 0..MaxCopies
  BY DEF Typed

\* The entries of a directory.
LEMMA ChildFacts ==
    ASSUME NEW t, NEW p \in Seq(Name), NEW src \in Seq(Name), IsPrefix(src, p),
           \A q \in DOMAIN t : q \in Seq(Name)
    PROVE  \A q \in Children(t, p) : q \in DOMAIN t /\ IsPrefix(p, q) /\ Len(q) = Len(p) + 1 /\ IsPrefix(src, q)
  <1> SUFFICES ASSUME NEW q \in Children(t, p)
               PROVE  q \in DOMAIN t /\ IsPrefix(p, q) /\ Len(q) = Len(p) + 1 /\ IsPrefix(src, q)
      OBVIOUS
  <1>1. q \in DOMAIN t /\ IsPrefix(p, q) /\ Len(q) = Len(p) + 1 /\ q \in Seq(Name)
      BY DEF Children, Under
  <1> QED
      BY <1>1, PrefixOrder

\* Where a copy under way is at.
LEMMA CopyAt ==
    ASSUME Typed, NEW q \in job.todo
    PROVE  /\ ~Accepting /\ q \in DOMAIN tree /\ q \in Path /\ q \in Seq(Name) /\ job.src \in Seq(Name)
           /\ job.dst \in Seq(Name) /\ job.src # Root /\ IsPrefix(job.src, q)
           /\ copies \in 1..MaxCopies /\ copies # 0
           /\ Below(job.src, q) \in Path /\ q = job.src \o Below(job.src, q)
           /\ CopyTarget(q) = job.dst \o Below(job.src, q)
           /\ [by |-> MaxWrites + copies, at |-> Below(job.src, q)] \in File
  <1>1. /\ ~Accepting /\ q \in DOMAIN tree /\ q \in Path /\ q \in Seq(Name) /\ job.src \in Seq(Name)
        /\ job.dst \in Seq(Name)
      BY TypedFacts, PathFacts
  <1>2. job.src # Root /\ IsPrefix(job.src, q) /\ copies # 0 /\ copies \in 0..MaxCopies
      BY <1>1 DEF Typed
  <1>3. copies \in 1..MaxCopies /\ MaxWrites + copies \in 1..MaxWrites + MaxCopies
      BY <1>2, LeafFacts
  <1>4. Below(job.src, q) \in Path
    <2>1. Below(job.src, q) \in Seq(Name) /\ Len(Below(job.src, q)) <= Len(q) /\ Len(q) <= MaxDepth
        BY <1>1, BelowSeq, PathFacts
    <2>2. Len(Below(job.src, q)) \in Nat /\ Len(q) \in Nat /\ MaxDepth \in Nat
        BY <1>1, <2>1, LenFacts, PathConstants
    <2>3. Len(Below(job.src, q)) <= MaxDepth
        BY <2>1, <2>2
    <2> QED
        BY <2>1, <2>3, PathFacts
  <1>5. q = job.src \o Below(job.src, q)
      BY <1>1, <1>2, BelowBack
  <1>6. CopyTarget(q) = job.dst \o Below(job.src, q)
      BY DEF CopyTarget, Rebase
  <1>7. [by |-> MaxWrites + copies, at |-> Below(job.src, q)] \in File
      BY <1>3, <1>4 DEF File
  <1> QED
      BY <1>1, <1>2, <1>3, <1>4, <1>5, <1>6, <1>7

LEMMA StepTyped == Typed /\ [Next]_vars => Typed'
  <1> SUFFICES ASSUME Typed, [Next]_vars PROVE Typed'
      OBVIOUS
  <1>0. /\ DOMAIN bin \subseteq 1..MaxTrash /\ \A id \in DOMAIN bin : Trashed(bin[id])
        /\ rows \subseteq Version /\ blobs \subseteq Version
        /\ writes \in 0..MaxWrites /\ copies \in 0..MaxCopies
        /\ Grove(tree) /\ IsDir(tree, Root)
      BY OldTypes, TypedFacts
  <1>1. ASSUME NEW p \in Path, Mkdir(p) PROVE Typed'
    <2>1. Grove(tree') /\ IsDir(tree', Root)
        BY <1>1, MkdirDoes DEF Adds
    <2>2. JobTyped' /\ UNCHANGED <<bin, rows, blobs, writes, copies>>
        BY <1>1, IdleJob DEF Mkdir, history, counters
    <2> QED
        BY <1>0, <2>1, <2>2, KeepsTyped
  <1>2. ASSUME NEW p \in Path, UploadNew(p) PROVE Typed'
    <2>1. Grove(tree') /\ IsDir(tree', Root)
        BY <1>2, UploadNewDoes DEF Puts
    <2>2. JobTyped' /\ UNCHANGED <<bin, rows, blobs, copies>> /\ writes < MaxWrites /\ writes' = writes + 1
        BY <1>2, IdleJob DEF UploadNew, history
    <2>3. writes' \in 0..MaxWrites
        BY <1>0, <2>2, LeafFacts
    <2> QED
        BY <1>0, <2>1, <2>2, <2>3, KeepsTyped
  <1>3. ASSUME NEW p \in Path, UploadOver(p) PROVE Typed'
    <2> DEFINE old == [path |-> p, file |-> tree[p].file, data |-> tree[p].data]
    <2>1. Grove(tree') /\ IsDir(tree', Root) /\ old \in Version
        BY <1>3, UploadOverDoes
    <2>2. JobTyped' /\ UNCHANGED <<bin, copies>> /\ writes < MaxWrites /\ writes' = writes + 1
        BY <1>3, IdleJob DEF UploadOver
    <2>3. rows' = rows \cup {old} /\ blobs' = blobs \cup {old}
        BY <1>3 DEF UploadOver
    <2>4. writes' \in 0..MaxWrites
        BY <1>0, <2>2, LeafFacts
    <2> HIDE DEF old
    <2> QED
        BY <1>0, <2>1, <2>2, <2>3, <2>4, KeepsTyped
  <1>4. ASSUME NEW p \in Path, (\E n \in Name : Rename(p, n)) \/ (\E q \in Path : Move(p, q)) PROVE Typed'
    <2>1. PICK to \in Seq(Name) : Accepting /\ Moves(p, to)
        BY <1>4, MovesDo
    <2>2. Grove(tree') /\ IsDir(tree', Root) /\ RelocateHistory(p, to) /\ UNCHANGED <<bin, job, writes, copies>>
        BY <2>1 DEF Moves, counters
    <2>3. rows' \subseteq Version /\ blobs' \subseteq Version
        BY <2>2, PathFacts, RelocateTypes
    <2>4. JobTyped'
        BY <2>1, <2>2, IdleJob
    <2> QED
        BY <1>0, <2>2, <2>3, <2>4, KeepsTyped
  <1>5. ASSUME NEW p \in Path, NEW q \in Path, CopyFile(p, q) PROVE Typed'
    <2> DEFINE id == [by |-> MaxWrites + copies + 1, at |-> Root]
    <2>1. p \in DOMAIN tree /\ CopyOne(p, q, id) /\ copies < MaxCopies /\ copies' = copies + 1
          /\ Accepting /\ UNCHANGED <<bin, rows, blobs, job, writes>>
        BY <1>5 DEF CopyFile, Copyable, history
    <2>2. MaxWrites + copies + 1 \in 1..MaxWrites + MaxCopies /\ copies' \in 0..MaxCopies
        BY <1>0, <2>1, LeafFacts
    <2>3. id \in File
        BY <2>2, PathFacts DEF File
    <2> HIDE DEF id
    <2>4. Grove(tree') /\ IsDir(tree', Root)
        BY <2>1, <2>3, CopyOneDoes DEF Puts
    <2>5. JobTyped'
        BY <2>1, IdleJob
    <2> QED
        BY <1>0, <2>1, <2>2, <2>4, <2>5, KeepsTyped
  <1>6. ASSUME NEW p \in Path, NEW q \in Path, CopyBegin(p, q) PROVE Typed'
    <2>1. /\ CopyMake(p, q) /\ copies < MaxCopies /\ copies' = copies + 1 /\ p # Root
          /\ job' = [src |-> p, dst |-> q, todo |-> Children(tree', p), was |-> Detached(tree, p)]
          /\ UNCHANGED <<bin, rows, blobs, writes>>
        BY <1>6 DEF CopyBegin, Copyable, history
    <2>2. Grove(tree') /\ IsDir(tree', Root)
        BY <2>1, MakesDirs DEF Adds
    <2>3. copies' \in 0..MaxCopies /\ copies' # 0
        BY <1>0, <2>1, LeafFacts
    <2>4. \A x \in Children(tree', p) : x \in DOMAIN tree' /\ IsPrefix(p, x)
        BY <2>2, PathFacts, PrefixOrder, ChildFacts DEF Grove
    <2>5. JobTyped'
      <3> DEFINE todo == Children(tree', p)
                 was  == Detached(tree, p)
      <3>1. todo \in SUBSET DOMAIN tree' /\ \A x \in todo : IsPrefix(p, x)
          BY <2>4
      <3>2. job' = [src |-> p, dst |-> q, todo |-> todo, was |-> was]
          BY <2>1
      <3> HIDE DEF todo, was
      <3> QED
          BY <2>1, <2>3, <3>1, <3>2 DEF JobTyped
    <2> QED
        BY <1>0, <2>1, <2>2, <2>3, <2>5, KeepsTyped
  <1>7. ASSUME NEW q \in Path, CopyDir(q) PROVE Typed'
    <2>1. /\ q \in job.todo /\ CopyMake(q, CopyTarget(q))
          /\ job' = [job EXCEPT !.todo = (@ \ {q}) \cup Children(tree', q)]
          /\ UNCHANGED <<bin, rows, blobs, writes, copies>>
        BY <1>7 DEF CopyDir, history, counters
    <2>2. Grove(tree') /\ IsDir(tree', Root) /\ DOMAIN tree \subseteq DOMAIN tree'
        BY <2>1, MakesDirs DEF Adds
    <2>3. q \in Seq(Name) /\ job.src \in Seq(Name) /\ IsPrefix(job.src, q) /\ job.src # Root /\ copies # 0
        BY <2>1, CopyAt
    <2>4. \A x \in Children(tree', q) : x \in DOMAIN tree' /\ IsPrefix(job.src, x)
        BY <2>2, <2>3, PathFacts, ChildFacts DEF Grove
    <2>5. JobTyped'
      <3> DEFINE todo == (job.todo \ {q}) \cup Children(tree', q)
      <3>0. JobTyped
          BY DEF Typed, JobTyped
      <3>1. todo \in SUBSET DOMAIN tree' /\ \A x \in todo : IsPrefix(job.src, x)
          BY <2>1, <2>2, <2>4, <3>0 DEF JobTyped, Accepting, NoJob
      <3>2. job' = [job EXCEPT !.todo = todo]
          BY <2>1
      <3> HIDE DEF todo
      <3> QED
          BY <2>1, <2>3, <3>0, <3>1, <3>2 DEF JobTyped
    <2> QED
        BY <1>0, <2>1, <2>2, <2>5, KeepsTyped
  <1>8. ASSUME NEW q \in Path, CopyLeaf(q) PROVE Typed'
    <2> DEFINE id == [by |-> MaxWrites + copies, at |-> Below(job.src, q)]
    <2>1. /\ q \in job.todo /\ CopyOne(q, CopyTarget(q), id)
          /\ job' = [job EXCEPT !.todo = @ \ {q}]
          /\ UNCHANGED <<bin, rows, blobs, writes, copies>>
        BY <1>8 DEF CopyLeaf, history, counters
    <2>2. q \in DOMAIN tree /\ id \in File
        BY <2>1, CopyAt
    <2> HIDE DEF id
    <2>3. Grove(tree') /\ IsDir(tree', Root) /\ DOMAIN tree \subseteq DOMAIN tree'
        BY <2>1, <2>2, CopyOneDoes DEF Puts
    <2>4. JobTyped'
      <3>0. JobTyped /\ job.src # Root /\ copies # 0 /\ ~Accepting
          BY <2>1, CopyAt DEF Typed, JobTyped
      <3> QED
          BY <2>1, <2>3, <3>0 DEF JobTyped
    <2> QED
        BY <1>0, <2>1, <2>3, <2>4, KeepsTyped
  <1>9. ASSUME CopyFail \/ CopyDone PROVE Typed'
    <2>1. job' = NoJob /\ UNCHANGED <<tree, bin, rows, blobs, writes, copies>>
        BY <1>9 DEF CopyFail, CopyDone, history, counters
    <2>2. JobTyped'
        BY <2>1, PathFacts DEF JobTyped, Accepting, NoJob
    <2> QED
        BY <1>0, <2>1, <2>2, KeepsTyped
  <1>10. ASSUME NEW p \in Path, NEW id \in 1..MaxTrash, Delete(p, id) PROVE Typed'
    <2>1. /\ Grove(tree') /\ IsDir(tree', Root) /\ DOMAIN bin' = DOMAIN bin \cup {id}
          /\ \A i \in DOMAIN bin : bin'[i] = bin[i]
          /\ Trashed(bin'[id])
        BY <1>10, DeleteDoes DEF Takes
    <2>2. JobTyped' /\ UNCHANGED <<rows, blobs, writes, copies>>
        BY <1>10, IdleJob DEF Delete, history, counters
    <2>3. DOMAIN bin' \subseteq 1..MaxTrash /\ \A i \in DOMAIN bin' : Trashed(bin'[i])
        BY <1>0, <2>1
    <2> QED
        BY <1>0, <2>1, <2>2, <2>3, KeepsTyped
  <1>11. ASSUME NEW id \in 1..MaxTrash, Restore(id) PROVE Typed'
    <2>1. PICK dest \in Seq(Name) :
            /\ id \in DOMAIN bin /\ Accepting
            /\ DOMAIN bin' = DOMAIN bin \ {id} /\ \A i \in DOMAIN bin' : bin'[i] = bin[i]
            /\ Puts(dest, bin[id].was)
            /\ IF dest = bin[id].orig THEN UNCHANGED history
               ELSE MoveVersions(Owned(bin[id]), bin[id].orig, dest)
        BY <1>11, RestoreDoes
    <2>2. Owned(bin[id]) \in SUBSET Version /\ bin[id].orig \in Seq(Name)
        BY <1>0, <2>1, PathFacts DEF Owned, RowsUnder, Trashed
    <2>3. rows' \subseteq Version /\ blobs' \subseteq Version
      <3>1. CASE UNCHANGED history
          BY <1>0, <3>1 DEF history
      <3>2. CASE MoveVersions(Owned(bin[id]), bin[id].orig, dest)
          BY <2>1, <2>2, <3>2, MoveTypes
      <3> QED
          BY <2>1, <3>1, <3>2
    <2>4. JobTyped' /\ UNCHANGED <<writes, copies>>
        BY <1>11, IdleJob DEF Restore, counters
    <2>5. DOMAIN bin' \subseteq 1..MaxTrash /\ \A i \in DOMAIN bin' : Trashed(bin'[i])
        BY <1>0, <2>1
    <2>6. Grove(tree') /\ IsDir(tree', Root)
        BY <2>1 DEF Puts
    <2> QED
        BY <1>0, <2>3, <2>4, <2>5, <2>6, KeepsTyped
  <1>12. ASSUME NEW id \in 1..MaxTrash, Purge(id) PROVE Typed'
    <2>1. /\ rows' \subseteq rows /\ blobs' \subseteq blobs /\ UNCHANGED <<tree, writes, copies>>
          /\ bin' = Restrict(bin, DOMAIN bin \ {id})
        BY <1>12 DEF Purge, counters
    <2>2. JobTyped'
        BY <1>12, IdleJob DEF Purge
    <2>3. DOMAIN bin' \subseteq 1..MaxTrash /\ \A i \in DOMAIN bin' : Trashed(bin'[i])
        BY <1>0, <2>1 DEF Restrict
    <2> QED
        BY <1>0, <2>1, <2>2, <2>3, KeepsTyped
  <1>13. CASE UNCHANGED vars
      BY <1>13 DEF vars, Typed, Accepting
  <1> QED
      BY <1>1, <1>2, <1>3, <1>4, <1>5, <1>6, <1>7, <1>8, <1>9, <1>10, <1>11, <1>12, <1>13 DEF Next

\* The live paths form a tree of directories, whatever is moved, copied, cut
\* short or restored, and so does every tree in the trash, which keeps a place
\* it can be put back to: for any names and any depth.
THEOREM TypeCorrect == Spec => []TypeOK
  <1>1. Spec => []Typed
      BY InitTyped, StepTyped, PTL DEF Spec
  <1> QED
      BY <1>1, TypedTypes, PTL

-----------------------------------------------------------------------------
(* Places                                                                    *)

\* File f is at p of the tree (i = 0) or of what trash item i holds.
At(i, p, f) == \/ i = 0 /\ HoldsIn(tree, p, f)
               \/ i \in DOMAIN bin /\ HoldsIn(bin[i].was, p, f)

\* An upload or a copy has created it.
Known(f) == f.by \in 1..writes \/ f.by \in MaxWrites + 1..MaxWrites + copies

OnePlace == \A f, i, j, p, q : At(i, p, f) /\ At(j, q, f) => i = j /\ p = q
IdsKnown == \A f, i, p : At(i, p, f) => Known(f)

\* What the copy under way has created is where the copy puts it.
CopyIds == ~Accepting => \A f, i, p : At(i, p, f) /\ f.by = MaxWrites + copies
                                        => i = 0 /\ p = job.dst \o f.at

Placed == OnePlace /\ IdsKnown /\ CopyIds

LEMMA AtFacts ==
    ASSUME Typed
    PROVE  /\ \A p, f : At(0, p, f) <=> HoldsIn(tree, p, f)
           /\ \A i \in DOMAIN bin : \A p, f : At(i, p, f) <=> HoldsIn(bin[i].was, p, f)
           /\ \A i, p, f : At(i, p, f) => f \in File /\ p \in Seq(Name)
  <1>1. 0 \notin DOMAIN bin
      BY OldTypes
  <1>2. ASSUME NEW t, Grove(t), NEW p, NEW f, HoldsIn(t, p, f) PROVE f \in File /\ p \in Seq(Name)
    <2>1. p \in DOMAIN t /\ t[p] \in Leaf /\ t[p].file = f
        BY <1>2 DEF HoldsIn, Grove
    <2> QED
        BY <1>2, <2>1, LeafFacts, PathFacts DEF Grove
  <1>3. Grove(tree) /\ \A i \in DOMAIN bin : Grove(bin[i].was)
      BY TypedFacts
  <1> QED
      BY <1>1, <1>2, <1>3 DEF At

\* The same after a step, if what is in the trash after it are trees again.
LEMMA AtNext ==
    ASSUME Typed'
    PROVE  /\ \A p, f : At(0, p, f)' <=> HoldsIn(tree', p, f)
           /\ \A i \in DOMAIN bin' : \A p, f : At(i, p, f)' <=> HoldsIn(bin'[i].was, p, f)
           /\ \A i, p, f : At(i, p, f)' => i = 0 \/ i \in DOMAIN bin'
  <1>1. 0 \notin DOMAIN bin'
      BY DEF Typed
  <1> QED
      BY <1>1 DEF At

\* Counters go up.
LEMMA KnownStays ==
    ASSUME Typed, Typed', writes <= writes', copies <= copies'
    PROVE  \A f : Known(f) => Known(f)'
  <1>1. /\ writes \in Nat /\ copies \in Nat /\ MaxWrites \in Nat /\ writes' \in Nat /\ copies' \in Nat
      BY TypedFacts, LeafFacts DEF Typed
  <1> QED
      BY <1>1 DEF Known

\* Nothing comes anywhere.
LEMMA PlacesLeft ==
    ASSUME Typed, Typed', Placed, \A i, p, f : At(i, p, f)' => At(i, p, f),
           UNCHANGED copies, writes <= writes',
           Accepting' \/ (~Accepting /\ job'.dst = job.dst)
    PROVE  Placed'
  <1>1. OnePlace'
      BY DEF Placed, OnePlace
  <1>2. copies <= copies'
      BY TypedFacts
  <1>3. IdsKnown'
      BY <1>2, KnownStays DEF Placed, IdsKnown
  <1>4. CopyIds'
      BY DEF Placed, CopyIds
  <1> QED
      BY <1>1, <1>3, <1>4 DEF Placed

\* A file nobody has yet comes to a place in the tree.
LEMMA PlaceTaken ==
    ASSUME OnePlace, NEW g, NEW dst, \A i, p : ~At(i, p, g),
           \A i, p, f : At(i, p, f)' => At(i, p, f) \/ (i = 0 /\ p = dst /\ f = g)
    PROVE  OnePlace'
  BY DEF OnePlace

LEMMA PutAt ==
    ASSUME Typed, Typed', UNCHANGED bin, NEW p \in Seq(Name), NEW node \in Leaf, Puts(p, Single(node))
    PROVE  \A i, q, f : At(i, q, f)' <=> At(i, q, f) \/ (i = 0 /\ q = p /\ f = node.file)
  <1>1. \A r, f : HoldsIn(Single(node), r, f) <=> r = Root /\ node.file = f
    <2>1. node # Dir
        BY LeafFacts
    <2> QED
        BY <2>1, SingleIs
  <1>2. p \o Root = p
      BY BelowFacts, RootFacts
  <1>3. \A q, f : HoldsIn(tree', q, f) <=> HoldsIn(tree, q, f) \/ (q = p /\ f = node.file)
      BY <1>1, <1>2 DEF Puts
  <1>4. 0 \notin DOMAIN bin
      BY OldTypes
  <1> QED
      BY <1>3, <1>4 DEF At

LEMMA InitPlaced == Init => Placed
  <1> SUFFICES ASSUME Init PROVE Placed
      OBVIOUS
  <1>1. \A i, p, f : ~At(i, p, f)
      BY DEF Init, At, HoldsIn
  <1> QED
      BY <1>1 DEF Placed, OnePlace, IdsKnown, CopyIds

\* Files change places, each still at one.
LEMMA PlacesMoved ==
    ASSUME Typed, Typed', Placed, OnePlace', \A i, p, f : At(i, p, f)' => \E j, q : At(j, q, f),
           Accepting, UNCHANGED <<job, counters>>
    PROVE  Placed'
  <1>1. UNCHANGED <<writes, copies>> /\ writes <= writes' /\ copies <= copies'
      BY TypedFacts DEF counters
  <1>2. IdsKnown'
      BY <1>1, KnownStays DEF Placed, IdsKnown
  <1>3. CopyIds'
      BY DEF CopyIds, Accepting
  <1> QED
      BY <1>2, <1>3 DEF Placed

\* What was below a moved path is below its new one, the rest where it was.
LEMMA MoveAt ==
    ASSUME Typed, Typed', NEW from \in Seq(Name), NEW to \in Seq(Name), Moves(from, to)
    PROVE  /\ \A p, f : At(0, p, f)' <=> \/ At(0, p, f) /\ ~IsPrefix(from, p)
                                         \/ \E r \in Seq(Name) : p = to \o r /\ At(0, from \o r, f)
           /\ \A i, p, f : i # 0 => (At(i, p, f)' <=> At(i, p, f))
           /\ UNCHANGED <<job, counters>>
  <1>1. UNCHANGED <<bin, job, counters>>
      BY DEF Moves
  <1>2. \A p, f : HoldsIn(tree', p, f) <=>
                    \/ HoldsIn(tree, p, f) /\ ~IsPrefix(from, p)
                    \/ \E r \in Seq(Name) : p = to \o r /\ HoldsIn(tree, from \o r, f)
      BY DEF Moves
  <1>3. \A i, p, f : i # 0 => (At(i, p, f)' <=> At(i, p, f))
      BY <1>1 DEF At
  <1> QED
      BY <1>1, <1>2, <1>3, AtFacts, AtNext

LEMMA MovePlaces ==
    ASSUME Typed, Typed', Placed, Accepting, NEW from \in Seq(Name), NEW to \in Seq(Name), Moves(from, to)
    PROVE  Placed'
  <1>1. /\ \A p, f : At(0, p, f)' <=> \/ At(0, p, f) /\ ~IsPrefix(from, p)
                                      \/ \E r \in Seq(Name) : p = to \o r /\ At(0, from \o r, f)
        /\ \A i, p, f : i # 0 => (At(i, p, f)' <=> At(i, p, f))
        /\ UNCHANGED <<job, counters>>
      BY MoveAt
  <1>2. \A r \in Seq(Name) : IsPrefix(from, from \o r) /\ Below(from, from \o r) = r
      BY BelowFacts
  <1>3. OnePlace
      BY DEF Placed
  <1>4. ASSUME NEW f, NEW i, NEW j, NEW p, NEW q, At(i, p, f)', At(j, q, f)'
        PROVE  i = j /\ p = q
    <2>1. ASSUME NEW k, NEW s, At(k, s, f)'
          PROVE  \/ At(k, s, f) /\ (k = 0 => ~IsPrefix(from, s))
                 \/ k = 0 /\ \E r \in Seq(Name) : s = to \o r /\ At(0, from \o r, f)
        BY <1>1, <2>1
    <2>2. CASE At(i, p, f) /\ (i = 0 => ~IsPrefix(from, p)) /\ At(j, q, f) /\ (j = 0 => ~IsPrefix(from, q))
        BY <1>3, <2>2 DEF OnePlace
    <2>3. ASSUME NEW r \in Seq(Name), At(0, from \o r, f), NEW k, NEW s,
                 At(k, s, f), k = 0 => ~IsPrefix(from, s)
          PROVE  FALSE
      <3>1. k = 0 /\ s = from \o r
          BY <1>3, <2>3 DEF OnePlace
      <3> QED
          BY <1>2, <2>3, <3>1
    <2>4. ASSUME NEW r \in Seq(Name), p = to \o r, At(0, from \o r, f),
                 NEW s \in Seq(Name), q = to \o s, At(0, from \o s, f)
          PROVE  p = q
      <3>1. from \o r = from \o s
          BY <1>3, <2>4 DEF OnePlace
      <3>2. r = s
          BY <1>2, <3>1
      <3> QED
          BY <2>4, <3>2
    <2>5. \/ At(i, p, f) /\ (i = 0 => ~IsPrefix(from, p))
          \/ i = 0 /\ \E r \in Seq(Name) : p = to \o r /\ At(0, from \o r, f)
        BY <1>4, <2>1
    <2>6. \/ At(j, q, f) /\ (j = 0 => ~IsPrefix(from, q))
          \/ j = 0 /\ \E r \in Seq(Name) : q = to \o r /\ At(0, from \o r, f)
        BY <1>4, <2>1
    <2> QED
        BY <2>2, <2>3, <2>4, <2>5, <2>6
  <1>5. OnePlace'
      BY <1>4 DEF OnePlace
  <1>6. \A i, p, f : At(i, p, f)' => \E j, q : At(j, q, f)
      BY <1>1
  <1> QED
      BY <1>1, <1>5, <1>6, PlacesMoved

\* What an item of the trash holds was below its path.
LEMMA DeletePlaces ==
    ASSUME Typed, Typed', Placed, NEW p \in Path, NEW id \in 1..MaxTrash, Delete(p, id)
    PROVE  /\ Placed'
           /\ \A q, f : At(0, q, f)' <=> At(0, q, f) /\ ~IsPrefix(p, q)
           /\ \A r, f : At(id, r, f)' <=> r \in Seq(Name) /\ At(0, p \o r, f)
           /\ \A i \in DOMAIN bin : \A r, f : At(i, r, f)' <=> At(i, r, f)
  <1>1. /\ Takes(p) /\ p \in DOMAIN tree /\ p \in Seq(Name)
        /\ DOMAIN bin' = DOMAIN bin \cup {id} /\ id \notin DOMAIN bin
        /\ \A i \in DOMAIN bin : bin'[i] = bin[i]
        /\ bin'[id] = [orig |-> p, was |-> Detached(tree, p), refs |-> RowsUnder(p)]
        /\ Accepting /\ UNCHANGED <<job, counters>>
      BY DeleteDoes, PathFacts DEF Delete
  <1>2. \A r, f : HoldsIn(Detached(tree, p), r, f) <=> r \in Seq(Name) /\ HoldsIn(tree, p \o r, f)
      BY <1>1, TypedFacts, DetachedIs
  <1>3. id # 0 /\ 0 \notin DOMAIN bin
      BY OldTypes
  <1>4. \A q, f : At(0, q, f)' <=> At(0, q, f) /\ ~IsPrefix(p, q)
      BY <1>1, AtFacts, AtNext DEF Takes
  <1>5. \A r, f : At(id, r, f)' <=> r \in Seq(Name) /\ At(0, p \o r, f)
    <2>1. bin'[id].was = Detached(tree, p)
        BY <1>1
    <2>2. \A r, f : At(id, r, f)' <=> HoldsIn(Detached(tree, p), r, f)
        BY <1>1, <2>1, AtNext
    <2> QED
        BY <1>2, <2>2, AtFacts
  <1>6. \A i \in DOMAIN bin : \A r, f : At(i, r, f)' <=> At(i, r, f)
      BY <1>1, AtFacts, AtNext
  <1>7. \A i, r, f : At(i, r, f)' => i = 0 \/ i = id \/ i \in DOMAIN bin
      BY <1>1, AtNext
  <1>8. \A r \in Seq(Name) : IsPrefix(p, p \o r) /\ Below(p, p \o r) = r
      BY <1>1, BelowFacts
  <1>9. OnePlace
      BY DEF Placed
  <1>10. ASSUME NEW f, NEW i, NEW j, NEW q, NEW s, At(i, q, f)', At(j, s, f)'
         PROVE  i = j /\ q = s
    <2>1. ASSUME NEW k, NEW x, At(k, x, f)'
          PROVE  \/ k # id /\ At(k, x, f) /\ (k = 0 => ~IsPrefix(p, x))
                 \/ k = id /\ x \in Seq(Name) /\ At(0, p \o x, f)
        BY <1>3, <1>4, <1>5, <1>6, <1>7, <2>1, <1>1
    <2>2. \/ i # id /\ At(i, q, f) /\ (i = 0 => ~IsPrefix(p, q))
          \/ i = id /\ q \in Seq(Name) /\ At(0, p \o q, f)
        BY <1>10, <2>1
    <2>3. \/ j # id /\ At(j, s, f) /\ (j = 0 => ~IsPrefix(p, s))
          \/ j = id /\ s \in Seq(Name) /\ At(0, p \o s, f)
        BY <1>10, <2>1
    <2>4. ASSUME NEW x \in Seq(Name), At(0, p \o x, f), NEW k, NEW y, At(k, y, f), k = 0 => ~IsPrefix(p, y)
          PROVE  FALSE
      <3>1. k = 0 /\ y = p \o x
          BY <1>9, <2>4 DEF OnePlace
      <3> QED
          BY <1>8, <2>4, <3>1
    <2>5. ASSUME q \in Seq(Name), s \in Seq(Name), At(0, p \o q, f), At(0, p \o s, f)
          PROVE  q = s
      <3>1. p \o q = p \o s
          BY <1>9, <2>5 DEF OnePlace
      <3> QED
          BY <1>8, <2>5, <3>1
    <2>6. At(i, q, f) /\ At(j, s, f) => i = j /\ q = s
        BY <1>9 DEF OnePlace
    <2> QED
        BY <2>2, <2>3, <2>4, <2>5, <2>6
  <1>11. OnePlace'
      BY <1>10 DEF OnePlace
  <1>12. \A i, r, f : At(i, r, f)' => \E j, q : At(j, q, f)
      BY <1>4, <1>5, <1>6, <1>7
  <1> QED
      BY <1>1, <1>4, <1>5, <1>6, <1>11, <1>12, PlacesMoved

LEMMA RestorePlaces ==
    ASSUME Typed, Typed', Placed, NEW id \in DOMAIN bin, NEW dest \in Seq(Name), Puts(dest, bin[id].was),
           DOMAIN bin' = DOMAIN bin \ {id}, \A i \in DOMAIN bin' : bin'[i] = bin[i],
           Accepting, UNCHANGED <<job, counters>>
    PROVE  /\ Placed'
           /\ \A q, f : At(0, q, f)' <=> At(0, q, f) \/ \E r \in Seq(Name) : q = dest \o r /\ At(id, r, f)
           /\ \A i, r, f : i # 0 => (At(i, r, f)' <=> i # id /\ At(i, r, f))
  <1>1. 0 \notin DOMAIN bin
      BY OldTypes
  <1>2. \A q, f : At(0, q, f)' <=> At(0, q, f) \/ \E r \in Seq(Name) : q = dest \o r /\ At(id, r, f)
    <2>1. \A r, f : HoldsIn(bin[id].was, r, f) <=> r \in Seq(Name) /\ At(id, r, f)
        BY AtFacts
    <2> QED
        BY <2>1, AtFacts, AtNext DEF Puts
  <1>3. \A i, r, f : i # 0 => (At(i, r, f)' <=> i # id /\ At(i, r, f))
      BY DEF At
  <1>4. \A r, s \in Seq(Name) : dest \o r = dest \o s => r = s
    <2>1. \A r \in Seq(Name) : Below(dest, dest \o r) = r
        BY BelowFacts
    <2> QED
        BY <2>1
  <1>5. OnePlace
      BY DEF Placed
  <1>6. ASSUME NEW f, NEW i, NEW j, NEW q, NEW s, At(i, q, f)', At(j, s, f)'
        PROVE  i = j /\ q = s
    <2>1. ASSUME NEW k, NEW x, At(k, x, f)'
          PROVE  \/ k # id /\ At(k, x, f)
                 \/ k = 0 /\ \E r \in Seq(Name) : x = dest \o r /\ At(id, r, f)
        BY <1>1, <1>2, <1>3, <2>1
    <2>2. \/ i # id /\ At(i, q, f)
          \/ i = 0 /\ \E r \in Seq(Name) : q = dest \o r /\ At(id, r, f)
        BY <1>6, <2>1
    <2>3. \/ j # id /\ At(j, s, f)
          \/ j = 0 /\ \E r \in Seq(Name) : s = dest \o r /\ At(id, r, f)
        BY <1>6, <2>1
    <2>4. \A k, l, x, y : At(k, x, f) /\ At(l, y, f) => k = l /\ x = y
        BY <1>5 DEF OnePlace
    <2> QED
        BY <2>2, <2>3, <2>4
  <1>7. OnePlace'
      BY <1>6 DEF OnePlace
  <1>8. \A i, r, f : At(i, r, f)' => \E j, q : At(j, q, f)
      BY <1>2, <1>3
  <1> QED
      BY <1>2, <1>3, <1>7, <1>8, PlacesMoved

\* A request creates a file that nobody has.
LEMMA UploadPlaces ==
    ASSUME Typed, Typed', Placed, NEW p \in Path, UploadNew(p)
    PROVE  Placed' /\ \A i, q, f : At(i, q, f) => At(i, q, f)'
  <1> DEFINE g    == [by |-> writes + 1, at |-> Root]
             node == [file |-> g, data |-> writes + 1]
  <1>1. /\ Accepting /\ writes < MaxWrites /\ writes' = writes + 1
        /\ UNCHANGED <<bin, job, copies>> /\ p \in Seq(Name)
      BY PathFacts DEF UploadNew
  <1>2. node \in Leaf /\ node.file = g /\ g.by = writes + 1 /\ Puts(p, Single(node))
      BY UploadNewDoes
  <1> HIDE DEF g, node
  <1>3. \A i, q, f : At(i, q, f)' <=> At(i, q, f) \/ (i = 0 /\ q = p /\ f = g)
      BY <1>1, <1>2, PutAt
  <1>4. writes \in Nat /\ copies \in Nat /\ MaxWrites \in Nat
      BY TypedFacts, LeafFacts
  <1>5. \A i, q : ~At(i, q, g)
      BY <1>1, <1>2, <1>4 DEF Placed, IdsKnown, Known
  <1>6. OnePlace'
      BY <1>3, <1>5, PlaceTaken DEF Placed
  <1>7. IdsKnown'
    <2>1. \A f : f = g => Known(f)'
        BY <1>1, <1>2, <1>4 DEF Known
    <2>2. \A f : Known(f) => Known(f)'
        BY <1>1, <1>4, KnownStays
    <2> QED
        BY <1>3, <2>1, <2>2 DEF Placed, IdsKnown
  <1>8. CopyIds'
      BY <1>1 DEF CopyIds, Accepting
  <1> QED
      BY <1>3, <1>6, <1>7, <1>8 DEF Placed

LEMMA CopyFilePlaces ==
    ASSUME Typed, Typed', Placed, NEW p \in Path, NEW d \in Path, CopyFile(p, d)
    PROVE  Placed' /\ \A i, q, f : At(i, q, f) => At(i, q, f)'
  <1> DEFINE g    == [by |-> MaxWrites + copies + 1, at |-> Root]
             node == [file |-> g, data |-> tree[p].data]
  <1>1. /\ Accepting /\ copies < MaxCopies /\ copies' = copies + 1 /\ p \in DOMAIN tree
        /\ CopyOne(p, d, g) /\ UNCHANGED <<bin, job, writes>> /\ d \in Seq(Name)
      BY PathFacts DEF CopyFile, Copyable
  <1>2. writes \in 0..MaxWrites /\ copies \in Nat /\ MaxWrites \in Nat /\ MaxCopies \in Nat
      BY TypedFacts, LeafFacts, OldTypes
  <1>3. g \in File
    <2>1. MaxWrites + copies + 1 \in 1..MaxWrites + MaxCopies
        BY <1>1, <1>2
    <2> QED
        BY <2>1, PathFacts DEF File
  <1>4. node \in Leaf /\ node.file = g /\ g.by = MaxWrites + copies + 1 /\ Puts(d, Single(node))
    <2>1. g.by = MaxWrites + copies + 1 /\ node.file = g
        OBVIOUS
    <2> HIDE DEF g
    <2> QED
        BY <1>1, <1>3, <2>1, CopyOneDoes
  <1> HIDE DEF g, node
  <1>5. \A i, q, f : At(i, q, f)' <=> At(i, q, f) \/ (i = 0 /\ q = d /\ f = g)
      BY <1>1, <1>4, PutAt
  <1>6. \A i, q : ~At(i, q, g)
      BY <1>2, <1>4 DEF Placed, IdsKnown, Known
  <1>7. OnePlace'
      BY <1>5, <1>6, PlaceTaken DEF Placed
  <1>8. IdsKnown'
    <2>1. \A f : f = g => Known(f)'
        BY <1>1, <1>2, <1>4 DEF Known
    <2>2. \A f : Known(f) => Known(f)'
        BY <1>1, <1>2, KnownStays
    <2> QED
        BY <1>5, <2>1, <2>2 DEF Placed, IdsKnown
  <1>9. CopyIds'
      BY <1>1 DEF CopyIds, Accepting
  <1> QED
      BY <1>5, <1>7, <1>8, <1>9 DEF Placed

\* A copy's file is known by its place in the copy, which is free.
LEMMA CopyLeafPlaces ==
    ASSUME Typed, Typed', Placed, NEW q \in Path, CopyLeaf(q)
    PROVE  Placed' /\ \A i, p, f : At(i, p, f) => At(i, p, f)'
  <1> DEFINE g    == [by |-> MaxWrites + copies, at |-> Below(job.src, q)]
             node == [file |-> g, data |-> tree[q].data]
             d    == CopyTarget(q)
  <1>1. /\ q \in job.todo /\ CopyOne(q, d, g) /\ job' = [job EXCEPT !.todo = @ \ {q}]
        /\ UNCHANGED <<bin, writes, copies>>
      BY DEF CopyLeaf, counters
  <1>2. /\ ~Accepting /\ q \in DOMAIN tree /\ g \in File /\ copies \in 1..MaxCopies
        /\ d = job.dst \o g.at /\ g.by = MaxWrites + copies /\ node.file = g
      BY <1>1, CopyAt
  <1>3. writes \in 0..MaxWrites /\ MaxWrites \in Nat /\ MaxCopies \in Nat /\ copies \in Nat
      BY OldTypes, LeafFacts, TypedFacts
  <1>4. job'.dst = job.dst /\ job'.src = job.src
    <2>1. job \in [src : Path, dst : Path, todo : SUBSET DOMAIN tree, was : {job.was}]
        BY DEF Typed
    <2> QED
        BY <1>1, <2>1
  <1> HIDE DEF g, d
  <1>5. node \in Leaf /\ node.file = g /\ Puts(d, Single(node)) /\ d \in Path /\ d \in Seq(Name)
    <2>1. node \in Leaf /\ Puts(d, Single(node)) /\ d \in Path
        BY <1>1, <1>2, CopyOneDoes
    <2> QED
        BY <1>2, <2>1, PathFacts
  <1> HIDE DEF node
  <1>6. \A i, p, f : At(i, p, f)' <=> At(i, p, f) \/ (i = 0 /\ p = d /\ f = g)
      BY <1>1, <1>5, PutAt
  <1>7. \A i, p : ~At(i, p, g)
    <2>1. d \notin DOMAIN tree
        BY <1>1 DEF CopyOne
    <2>2. ~At(0, d, g)
        BY <2>1, AtFacts DEF HoldsIn
    <2> QED
        BY <1>2, <2>2 DEF Placed, CopyIds
  <1>8. OnePlace'
      BY <1>6, <1>7, PlaceTaken DEF Placed
  <1>9. IdsKnown'
    <2>1. \A f : f = g => Known(f)'
        BY <1>1, <1>2, <1>3 DEF Known
    <2>2. \A f : Known(f) => Known(f)'
        BY <1>1, <1>3, KnownStays
    <2> QED
        BY <1>6, <2>1, <2>2 DEF Placed, IdsKnown
  <1>10. CopyIds'
      BY <1>1, <1>2, <1>4, <1>6 DEF Placed, CopyIds
  <1> QED
      BY <1>6, <1>8, <1>9, <1>10 DEF Placed

\* Directories hold no file.
LEMMA SamePlaces ==
    ASSUME Typed, UNCHANGED bin, \A q, f : HoldsIn(tree', q, f) <=> HoldsIn(tree, q, f)
    PROVE  \A i, q, f : At(i, q, f)' <=> At(i, q, f)
  BY DEF At

LEMMA StepPlaced == Typed /\ Typed' /\ Placed /\ [Next]_vars => Placed'
  <1> SUFFICES ASSUME Typed, Typed', Placed, [Next]_vars PROVE Placed'
      OBVIOUS
  <1>0. writes \in Nat /\ copies \in Nat
      BY TypedFacts
  <1>1. ASSUME NEW p \in Path, Mkdir(p) PROVE Placed'
    <2>1. \A q, f : HoldsIn(tree', q, f) <=> HoldsIn(tree, q, f)
        BY <1>1, MkdirDoes DEF Adds
    <2>2. UNCHANGED <<bin, job, writes, copies>> /\ Accepting /\ Accepting'
        BY <1>1 DEF Mkdir, counters, Accepting
    <2> QED
        BY <1>0, <2>1, <2>2, SamePlaces, PlacesLeft
  <1>2. ASSUME NEW p \in Path, UploadOver(p) PROVE Placed'
    <2>1. \A q, f : HoldsIn(tree', q, f) <=> HoldsIn(tree, q, f)
        BY <1>2, UploadOverDoes
    <2>2. UNCHANGED <<bin, job, copies>> /\ Accepting /\ Accepting' /\ writes' = writes + 1
        BY <1>2 DEF UploadOver, Accepting
    <2>3. writes <= writes'
        BY <1>0, <2>2
    <2> QED
        BY <2>1, <2>2, <2>3, SamePlaces, PlacesLeft
  <1>3. ASSUME NEW p \in Path, (\E n \in Name : Rename(p, n)) \/ (\E q \in Path : Move(p, q)) PROVE Placed'
    <2>1. PICK to \in Seq(Name) : Accepting /\ Moves(p, to)
        BY <1>3, MovesDo
    <2> QED
        BY <2>1, PathFacts, MovePlaces
  <1>4. ASSUME NEW p \in Path, NEW q \in Path, CopyBegin(p, q) PROVE Placed'
    <2>1. /\ CopyMake(p, q) /\ copies < MaxCopies /\ copies' = copies + 1 /\ UNCHANGED <<bin, writes>>
        BY <1>4 DEF CopyBegin, Copyable
    <2>2. \A i, x, f : At(i, x, f)' <=> At(i, x, f)
        BY <2>1, MakesDirs, SamePlaces DEF Adds
    <2>3. writes \in 0..MaxWrites /\ MaxWrites \in Nat
        BY OldTypes, LeafFacts
    <2>4. OnePlace'
        BY <2>2 DEF Placed, OnePlace
    <2>5. IdsKnown'
      <3>1. \A f : Known(f) => Known(f)'
          BY <1>0, <2>1, KnownStays
      <3> QED
          BY <2>2, <3>1 DEF Placed, IdsKnown
    <2>6. \A i, x, f : At(i, x, f) => f.by # MaxWrites + copies'
        BY <1>0, <2>1, <2>3 DEF Placed, IdsKnown, Known
    <2>7. CopyIds'
        BY <2>2, <2>6 DEF CopyIds
    <2> QED
        BY <2>4, <2>5, <2>7 DEF Placed
  <1>5. ASSUME NEW q \in Path, CopyDir(q) PROVE Placed'
    <2>1. /\ q \in job.todo /\ CopyMake(q, CopyTarget(q))
          /\ job' = [job EXCEPT !.todo = (@ \ {q}) \cup Children(tree', q)]
          /\ UNCHANGED <<bin, writes, copies>>
        BY <1>5 DEF CopyDir, counters
    <2>2. \A i, x, f : At(i, x, f)' <=> At(i, x, f)
        BY <2>1, MakesDirs, SamePlaces DEF Adds
    <2>3. job'.dst = job.dst
      <3>1. job \in [src : Path, dst : Path, todo : SUBSET DOMAIN tree, was : {job.was}]
          BY DEF Typed
      <3> QED
          BY <2>1, <3>1
    <2>4. ~Accepting
        BY <2>1, CopyAt
    <2> QED
        BY <1>0, <2>1, <2>2, <2>3, <2>4, PlacesLeft
  <1>6. ASSUME CopyFail \/ CopyDone PROVE Placed'
    <2>1. job' = NoJob /\ UNCHANGED <<tree, bin, writes, copies>>
        BY <1>6 DEF CopyFail, CopyDone, counters
    <2>2. Accepting' /\ \A i, x, f : At(i, x, f)' <=> At(i, x, f)
        BY <2>1 DEF Accepting, At
    <2> QED
        BY <1>0, <2>1, <2>2, PlacesLeft
  <1>7. ASSUME NEW id \in 1..MaxTrash, Restore(id) PROVE Placed'
    <2>1. PICK dest \in Seq(Name) :
            /\ id \in DOMAIN bin /\ Accepting
            /\ DOMAIN bin' = DOMAIN bin \ {id} /\ \A i \in DOMAIN bin' : bin'[i] = bin[i]
            /\ Puts(dest, bin[id].was)
        BY <1>7, RestoreDoes
    <2>2. UNCHANGED <<job, counters>>
        BY <1>7 DEF Restore
    <2> QED
        BY <2>1, <2>2, RestorePlaces
  <1>8. ASSUME NEW id \in 1..MaxTrash, Purge(id) PROVE Placed'
    <2>1. /\ bin' = Restrict(bin, DOMAIN bin \ {id}) /\ UNCHANGED <<tree, job, writes, copies>>
          /\ Accepting /\ Accepting'
        BY <1>8 DEF Purge, counters, Accepting
    <2>2. \A i, x, f : At(i, x, f)' => At(i, x, f)
        BY <2>1 DEF At, Restrict
    <2> QED
        BY <1>0, <2>1, <2>2, PlacesLeft
  <1>9. CASE UNCHANGED vars
    <2>1. UNCHANGED <<tree, bin, job, writes, copies>>
        BY <1>9 DEF vars
    <2>2. \A i, x, f : At(i, x, f)' => At(i, x, f)
        BY <2>1 DEF At
    <2>3. Accepting' <=> Accepting
        BY <2>1 DEF Accepting
    <2>4. writes <= writes'
        BY <2>1, TypedFacts
    <2> QED
        BY <1>0, <2>1, <2>2, <2>3, <2>4, PlacesLeft
  <1> QED
      BY <1>1, <1>2, <1>3, <1>4, <1>5, <1>6, <1>7, <1>8, <1>9,
         UploadPlaces, CopyFilePlaces, CopyLeafPlaces, DeletePlaces DEF Next

\* A file of the drive, live or in the trash.
Has(f) == \E i, p : At(i, p, f)

LEMMA MoveHas ==
    ASSUME Typed, Typed', NEW from \in Seq(Name), NEW to \in Seq(Name), Moves(from, to)
    PROVE  \A f : Has(f) => Has(f)'
  <1> SUFFICES ASSUME NEW f, NEW i, NEW p, At(i, p, f) PROVE Has(f)'
      BY DEF Has
  <1>1. CASE i # 0
    <2>1. At(i, p, f)'
        BY <1>1, MoveAt
    <2> QED
        BY <2>1 DEF Has
  <1>2. CASE i = 0 /\ ~IsPrefix(from, p)
    <2>1. At(0, p, f)'
        BY <1>2, MoveAt
    <2> QED
        BY <2>1 DEF Has
  <1>3. CASE i = 0 /\ IsPrefix(from, p)
    <2>1. p \in Seq(Name)
        BY AtFacts
    <2>2. PICK r \in Seq(Name) : from \o r = p
        BY <1>3, <2>1, BelowBack
    <2>3. At(0, to \o r, f)'
        BY <1>3, <2>2, MoveAt
    <2> QED
        BY <2>3 DEF Has
  <1> QED
      BY <1>1, <1>2, <1>3

LEMMA DeleteHas ==
    ASSUME Typed, Typed', Placed, NEW p \in Path, NEW id \in 1..MaxTrash, Delete(p, id)
    PROVE  \A f : Has(f) => Has(f)'
  <1> SUFFICES ASSUME NEW f, NEW i, NEW q, At(i, q, f) PROVE Has(f)'
      BY DEF Has
  <1>1. CASE i # 0
    <2>1. i \in DOMAIN bin
        BY <1>1 DEF At
    <2>2. At(i, q, f)'
        BY <2>1, DeletePlaces
    <2> QED
        BY <2>2 DEF Has
  <1>2. CASE i = 0 /\ ~IsPrefix(p, q)
    <2>1. At(0, q, f)'
        BY <1>2, DeletePlaces
    <2> QED
        BY <2>1 DEF Has
  <1>3. CASE i = 0 /\ IsPrefix(p, q)
    <2>1. p \in Seq(Name) /\ q \in Seq(Name)
        BY AtFacts, PathFacts
    <2>2. PICK r \in Seq(Name) : p \o r = q
        BY <1>3, <2>1, BelowBack
    <2>3. At(id, r, f)'
        BY <1>3, <2>2, DeletePlaces
    <2> QED
        BY <2>3 DEF Has
  <1> QED
      BY <1>1, <1>2, <1>3

LEMMA RestoreHas ==
    ASSUME Typed, Typed', Placed, NEW id \in 1..MaxTrash, Restore(id)
    PROVE  \A f : Has(f) => Has(f)'
  <1>1. PICK dest \in Seq(Name) :
          /\ id \in DOMAIN bin /\ Accepting
          /\ DOMAIN bin' = DOMAIN bin \ {id} /\ \A i \in DOMAIN bin' : bin'[i] = bin[i]
          /\ Puts(dest, bin[id].was)
      BY RestoreDoes
  <1>2. UNCHANGED <<job, counters>>
      BY DEF Restore
  <1>3. /\ \A q, f : At(0, q, f)' <=> At(0, q, f) \/ \E r \in Seq(Name) : q = dest \o r /\ At(id, r, f)
        /\ \A i, r, f : i # 0 => (At(i, r, f)' <=> i # id /\ At(i, r, f))
      BY <1>1, <1>2, RestorePlaces
  <1> SUFFICES ASSUME NEW f, NEW i, NEW q, At(i, q, f) PROVE Has(f)'
      BY DEF Has
  <1>4. CASE i # id
    <2>1. At(i, q, f)'
        BY <1>3, <1>4
    <2> QED
        BY <2>1 DEF Has
  <1>5. CASE i = id
    <2>1. q \in Seq(Name)
        BY AtFacts
    <2>2. At(0, dest \o q, f)'
        BY <1>3, <1>5, <2>1
    <2> QED
        BY <2>2 DEF Has
  <1> QED
      BY <1>4, <1>5

LEMMA PurgeHas ==
    ASSUME Typed, NEW id \in 1..MaxTrash, Purge(id)
    PROVE  id \in DOMAIN bin /\ \A f : Has(f) => Has(f)' \/ f \in Files(bin[id].was)
  <1>1. id \in DOMAIN bin /\ bin' = Restrict(bin, DOMAIN bin \ {id}) /\ UNCHANGED tree
      BY DEF Purge
  <1>2. \A i, p, f : i # id /\ At(i, p, f) => At(i, p, f)'
      BY <1>1 DEF At, Restrict
  <1>3. \A p, f : At(id, p, f) => f \in Files(bin[id].was)
    <2>1. \A p, f : At(id, p, f) => HoldsIn(bin[id].was, p, f)
        BY <1>1, AtFacts
    <2> QED
        BY <2>1, FilesHeld
  <1> QED
      BY <1>1, <1>2, <1>3 DEF Has

\* A purge takes what its item holds; no other request takes a file.
Spared == \A f : Has(f) =>
            \/ Has(f)'
            \/ \E id \in DOMAIN bin : Purge(id) /\ f \in Files(bin[id].was)

LEMMA StepSpares == Typed /\ Typed' /\ Placed /\ [Next]_vars => Spared
  <1> SUFFICES ASSUME Typed, Typed', Placed, [Next]_vars PROVE Spared
      OBVIOUS
  <1>0. ASSUME \A i, p, f : At(i, p, f) => At(i, p, f)' PROVE Spared
      BY <1>0 DEF Spared, Has
  <1>1. ASSUME NEW p \in Path, Mkdir(p) \/ UploadOver(p) PROVE Spared
    <2>1. \A q, f : HoldsIn(tree', q, f) <=> HoldsIn(tree, q, f)
        BY <1>1, MkdirDoes, UploadOverDoes DEF Adds
    <2>2. UNCHANGED bin
        BY <1>1 DEF Mkdir, UploadOver
    <2> QED
        BY <1>0, <2>1, <2>2, SamePlaces
  <1>2. ASSUME NEW p \in Path, UploadNew(p) PROVE Spared
      BY <1>0, <1>2, UploadPlaces
  <1>3. ASSUME NEW p \in Path, (\E n \in Name : Rename(p, n)) \/ (\E q \in Path : Move(p, q)) PROVE Spared
    <2>1. PICK to \in Seq(Name) : Moves(p, to)
        BY <1>3, MovesDo
    <2> QED
        BY <2>1, PathFacts, MoveHas DEF Spared
  <1>4. ASSUME NEW p \in Path, NEW q \in Path, CopyFile(p, q) PROVE Spared
      BY <1>0, <1>4, CopyFilePlaces
  <1>5. ASSUME NEW src, NEW dst, CopyMake(src, dst), UNCHANGED bin PROVE Spared
    <2>1. \A q, f : HoldsIn(tree', q, f) <=> HoldsIn(tree, q, f)
        BY <1>5, MakesDirs DEF Adds
    <2> QED
        BY <1>0, <1>5, <2>1, SamePlaces
  <1>6. ASSUME NEW p \in Path, NEW q \in Path, CopyBegin(p, q) PROVE Spared
      BY <1>5, <1>6 DEF CopyBegin
  <1>7. ASSUME NEW q \in Path, CopyDir(q) PROVE Spared
      BY <1>5, <1>7 DEF CopyDir
  <1>8. ASSUME NEW q \in Path, CopyLeaf(q) PROVE Spared
      BY <1>0, <1>8, CopyLeafPlaces
  <1>9. ASSUME CopyFail \/ CopyDone \/ UNCHANGED vars PROVE Spared
    <2>1. UNCHANGED <<tree, bin>>
        BY <1>9 DEF CopyFail, CopyDone, vars
    <2> QED
        BY <1>0, <2>1 DEF At
  <1>10. ASSUME NEW p \in Path, NEW id \in 1..MaxTrash, Delete(p, id) PROVE Spared
      BY <1>10, DeleteHas DEF Spared
  <1>11. ASSUME NEW id \in 1..MaxTrash, Restore(id) PROVE Spared
      BY <1>11, RestoreHas DEF Spared
  <1>12. ASSUME NEW id \in 1..MaxTrash, Purge(id) PROVE Spared
      BY <1>12, PurgeHas DEF Spared
  <1> QED
      BY <1>1, <1>2, <1>3, <1>4, <1>6, <1>7, <1>8, <1>9, <1>10, <1>11, <1>12 DEF Next

LEMMA PlacesHold == Spec => [](Typed /\ Placed)
  <1>1. Typed /\ Placed /\ [Next]_vars => Typed' /\ Placed'
      BY StepTyped, StepPlaced
  <1> QED
      BY <1>1, InitTyped, InitPlaced, PTL DEF Spec

\* Each file is at one path of the tree or at one place in one item of the trash,
\* whatever is renamed, moved, copied, trashed and restored, in any tree.
THEOREM FilesInOnePlace == Spec => []OnePlace
  <1>1. Typed /\ Placed => OnePlace
      BY DEF Placed
  <1> QED
      BY <1>1, PlacesHold, PTL

\* No request takes a file off the disk but the purge of the item that holds it:
\* no rename or move of a directory above, no copy that fails half way, no delete
\* and no restore into directories that went meanwhile.
THEOREM FilesSurvive == Spec => [][Spared]_vars
  <1>1. Typed /\ Typed' /\ Placed /\ [Next]_vars => [Spared]_vars
      BY StepSpares
  <1> QED
      BY <1>1, PlacesHold, PTL DEF Spec

-----------------------------------------------------------------------------
(* The version index follows                                                 *)

\* The file of row r is at its path in what trash item id holds, and the item
\* has recorded the row.
InTrash(id, r) ==
    /\ r \in bin[id].refs /\ IsPrefix(bin[id].orig, r.path)
    /\ HoldsIn(bin[id].was, Below(bin[id].orig, r.path), r.file)

Held(r) == /\ r \in blobs
           /\ HoldsIn(tree, r.path, r.file) \/ \E id \in DOMAIN bin : InTrash(id, r)

\* An item has recorded rows of its own files only.
RefsOwn == \A id \in DOMAIN bin : \A r \in bin[id].refs : r.file \in Files(bin[id].was)

Filed == (\A r \in rows : Held(r)) /\ RefsOwn

LEMMA FiledFollows == Filed => HistoryFollows
  <1> SUFFICES ASSUME Filed, NEW r \in rows
               PROVE  /\ r \in blobs
                      /\ \/ r.path \in DOMAIN tree /\ tree[r.path].file = r.file
                         \/ \E id \in DOMAIN bin :
                              /\ r \in bin[id].refs /\ IsPrefix(bin[id].orig, r.path)
                              /\ Below(bin[id].orig, r.path) \in DOMAIN bin[id].was
                              /\ bin[id].was[Below(bin[id].orig, r.path)].file = r.file
      BY DEF HistoryFollows
  <1> QED
      BY DEF Filed, Held, InTrash, HoldsIn

\* The rows under a path, where the case of letters does not matter.
LEMMA UnderMeans ==
    ASSUME Typed, Twins = FALSE, NEW p \in Seq(Name), NEW r \in rows
    PROVE  r \in RowsUnder(p) <=> IsPrefix(p, r.path)
  <1>1. r.path \in Seq(Name)
      BY OldTypes DEF Version
  <1>2. Len(p) \in Nat /\ Len(r.path) \in Nat
      BY <1>1, LenFacts
  <1>3. IsPrefix(p, r.path) => Len(p) <= Len(r.path) /\ (Len(p) = Len(r.path) => p = r.path)
      BY <1>1, PrefixOrder
  <1>4. IsPrefix(p, p)
      BY PrefixOrder
  <1>5. r.path = p \/ (Len(r.path) > Len(p) /\ IsPrefix(p, r.path)) <=> IsPrefix(p, r.path)
      BY <1>2, <1>3, <1>4
  <1> QED
      BY <1>5 DEF RowsUnder, Matches

\* A row whose file is somewhere is at its path there.
LEMMA HeldThere ==
    ASSUME Typed, OnePlace, NEW r, Held(r), NEW i, NEW p, At(i, p, r.file)
    PROVE  /\ i = 0 => p = r.path
           /\ i # 0 => InTrash(i, r) /\ p = Below(bin[i].orig, r.path)
  <1>1. CASE HoldsIn(tree, r.path, r.file)
    <2>1. At(0, r.path, r.file)
        BY <1>1, AtFacts
    <2> QED
        BY <2>1 DEF OnePlace
  <1>2. ASSUME NEW id \in DOMAIN bin, InTrash(id, r)
        PROVE  i = id /\ p = Below(bin[i].orig, r.path) /\ InTrash(i, r) /\ id # 0
    <2>1. At(id, Below(bin[id].orig, r.path), r.file)
        BY <1>2, AtFacts DEF InTrash
    <2>2. id # 0
        BY OldTypes
    <2> QED
        BY <1>2, <2>1, <2>2 DEF OnePlace
  <1> QED
      BY <1>1, <1>2 DEF Held

\* A step that changes nothing of the trash and takes no file away.
LEMMA FiledStays ==
    ASSUME Filed, UNCHANGED <<bin, rows, blobs>>, \A q, f : HoldsIn(tree, q, f) => HoldsIn(tree', q, f)
    PROVE  Filed'
  BY DEF Filed, Held, InTrash, RefsOwn

LEMMA UploadOverFiled ==
    ASSUME Typed, Filed, NEW p \in Path, UploadOver(p)
    PROVE  Filed'
  <1> DEFINE old == [path |-> p, file |-> tree[p].file, data |-> tree[p].data]
  <1>1. \A q, f : HoldsIn(tree', q, f) <=> HoldsIn(tree, q, f)
      BY UploadOverDoes
  <1>2. HoldsIn(tree, p, tree[p].file) /\ old.path = p /\ old.file = tree[p].file
      BY UploadOverDoes
  <1>3. rows' = rows \cup {old} /\ blobs' = blobs \cup {old} /\ UNCHANGED bin
      BY DEF UploadOver
  <1> HIDE DEF old
  <1>4. ASSUME NEW r \in rows' PROVE Held(r)'
    <2>1. CASE r \in rows
        BY <1>1, <1>3, <2>1 DEF Filed, Held, InTrash
    <2>2. CASE r = old
        BY <1>1, <1>2, <1>3, <2>2 DEF Held
    <2> QED
        BY <1>3, <2>1, <2>2
  <1> QED
      BY <1>3, <1>4 DEF Filed, RefsOwn

LEMMA MoveFiled ==
    ASSUME Typed, OnePlace, Filed, Twins = FALSE,
           NEW from \in Seq(Name), NEW to \in Seq(Name), Moves(from, to)
    PROVE  /\ Filed'
           /\ \A r \in rows : \E s \in rows' : SameVersion(r, s)
  <1> DEFINE M    == RowsUnder(from)
             dirs == {b \in blobs : \E r \in M : r.path = b.path}
  <1>1. /\ rows' = (rows \ M) \cup {RowHome(r, from, to) : r \in M}
        /\ blobs' = (blobs \ dirs) \cup {BlobHome(b, from, to) : b \in dirs}
        /\ UNCHANGED bin /\ from \in DOMAIN tree
      BY DEF Moves, RelocateHistory
  <1>2. \A r \in rows : r \in M <=> IsPrefix(from, r.path)
      BY UnderMeans
  <1>3. M \subseteq rows
      BY DEF RowsUnder
  <1>4. \A b : b \in dirs <=> b \in blobs /\ \E r \in M : r.path = b.path
      OBVIOUS
  <1> HIDE DEF M, dirs
  <1>5. \A q, f : HoldsIn(tree', q, f) <=>
                    \/ HoldsIn(tree, q, f) /\ ~IsPrefix(from, q)
                    \/ \E r \in Seq(Name) : q = to \o r /\ HoldsIn(tree, from \o r, f)
      BY DEF Moves
  <1>6. ASSUME NEW r \in M PROVE Held(RowHome(r, from, to))'
    <2> DEFINE s == RowHome(r, from, to)
    <2>1. r \in rows /\ r \in Version /\ Held(r) /\ IsPrefix(from, r.path)
        BY <1>2, <1>3, OldTypes DEF Filed
    <2>2. /\ s.file = r.file /\ s.path = to \o Below(from, r.path) /\ BlobHome(r, from, to) = s
          /\ Below(from, r.path) \in Seq(Name) /\ r.path = from \o Below(from, r.path)
        BY <2>1, Homes
    <2> HIDE DEF s
    <2>3. HoldsIn(tree, r.path, r.file)
      <3>1. r.file \in Files(Detached(tree, from))
          BY <2>1 DEF Moves, Apart
      <3>2. PICK x : HoldsIn(Detached(tree, from), x, r.file)
          BY <3>1, FilesHeld
      <3>3. HoldsIn(tree, from \o x, r.file)
          BY <1>1, <3>2, TypedFacts, DetachedIs
      <3>4. At(0, from \o x, r.file)
          BY <3>3, AtFacts
      <3>5. from \o x = r.path
          BY <2>1, <3>4, HeldThere
      <3> QED
          BY <3>3, <3>5
    <2>4. HoldsIn(tree', s.path, s.file)
      <3>1. HoldsIn(tree, from \o Below(from, r.path), s.file)
          BY <2>2, <2>3
      <3>2. HoldsIn(tree', to \o Below(from, r.path), s.file)
          BY <1>5, <2>2, <3>1
      <3> QED
          BY <2>2, <3>2
    <2>5. s \in blobs'
      <3>1. r \in dirs
          BY <1>4, <2>1 DEF Held
      <3> QED
          BY <1>1, <2>2, <3>1
    <2>6. Held(s)'
      <3>1. \A v : v \in blobs' /\ HoldsIn(tree', v.path, v.file) => Held(v)'
          BY DEF Held
      <3> QED
          BY <2>4, <2>5, <3>1 DEF s
    <2> QED
        BY <2>6 DEF s
  <1>7. ASSUME NEW r \in rows, r \notin M PROVE Held(r)'
    <2>1. ~IsPrefix(from, r.path) /\ Held(r)
        BY <1>2, <1>7 DEF Filed
    <2>2. r \in blobs'
      <3>1. r \notin dirs
          BY <1>2, <1>3, <1>4, <2>1
      <3> QED
          BY <1>1, <2>1, <3>1 DEF Held
    <2> QED
        BY <1>1, <1>5, <2>1, <2>2 DEF Held, InTrash
  <1>8. \A r \in rows' : Held(r)'
    <2> TAKE s \in rows'
    <2>1. CASE s \in rows \ M
        BY <1>7, <2>1
    <2>2. ASSUME NEW r \in M, s = RowHome(r, from, to) PROVE Held(s)'
      <3>1. \A v : v = RowHome(r, from, to) => Held(v)'
          BY <1>6
      <3> QED
          BY <2>2, <3>1
    <2> QED
        BY <1>1, <2>1, <2>2
  <1>9. ASSUME NEW r \in rows PROVE \E s \in rows' : SameVersion(r, s)
    <2>1. CASE r \in M
      <3>1. SameVersion(r, RowHome(r, from, to))
          BY OldTypes, Homes DEF SameVersion
      <3> QED
          BY <1>1, <2>1, <3>1
    <2>2. CASE r \notin M
      <3>1. r \in rows' /\ SameVersion(r, r)
          BY <1>1, <2>2 DEF SameVersion
      <3> QED
          BY <3>1
    <2> QED
        BY <2>1, <2>2
  <1> QED
      BY <1>1, <1>8, <1>9 DEF Filed, RefsOwn

LEMMA DeleteFiled ==
    ASSUME Typed, Typed', Placed, Filed, Twins = FALSE, NEW p \in Path, NEW id \in 1..MaxTrash, Delete(p, id)
    PROVE  Filed'
  <1>1. /\ p \in DOMAIN tree /\ p \in Seq(Name)
        /\ DOMAIN bin' = DOMAIN bin \cup {id} /\ id \notin DOMAIN bin
        /\ \A i \in DOMAIN bin : bin'[i] = bin[i]
        /\ bin'[id].orig = p /\ bin'[id].was = Detached(tree, p) /\ bin'[id].refs = RowsUnder(p)
        /\ UNCHANGED <<rows, blobs>> /\ Apart(p, Files(Detached(tree, p)))
      BY DeleteDoes, PathFacts DEF Delete, history
  <1>2. \A q, f : HoldsIn(tree', q, f) <=> HoldsIn(tree, q, f) /\ ~IsPrefix(p, q)
      BY DeleteDoes DEF Takes
  <1>3. \A r, f : HoldsIn(Detached(tree, p), r, f) <=> r \in Seq(Name) /\ HoldsIn(tree, p \o r, f)
      BY <1>1, TypedFacts, DetachedIs
  <1>4. \A r \in rows : r \in RowsUnder(p) <=> IsPrefix(p, r.path)
      BY <1>1, UnderMeans
  <1>5. ASSUME NEW r \in rows, IsPrefix(p, r.path) PROVE Held(r)'
    <2>1. Held(r) /\ r.path \in Seq(Name) /\ Below(p, r.path) \in Seq(Name) /\ r.path = p \o Below(p, r.path)
        BY <1>1, <1>5, OldTypes, BelowBack DEF Filed, Version
    <2>2. HoldsIn(tree, r.path, r.file)
      <3>1. r.file \in Files(Detached(tree, p))
          BY <1>1, <1>5 DEF Apart
      <3>2. PICK x : HoldsIn(Detached(tree, p), x, r.file)
          BY <3>1, FilesHeld
      <3>3. At(0, p \o x, r.file) /\ HoldsIn(tree, p \o x, r.file)
          BY <1>3, <3>2, AtFacts
      <3>4. p \o x = r.path
          BY <2>1, <3>3, HeldThere DEF Placed
      <3> QED
          BY <3>3, <3>4
    <2>3. HoldsIn(tree, p \o Below(p, r.path), r.file)
        BY <2>1, <2>2
    <2>4. HoldsIn(Detached(tree, p), Below(p, r.path), r.file)
        BY <1>3, <2>1, <2>3
    <2>5. InTrash(id, r)'
        BY <1>1, <1>4, <1>5, <2>4 DEF InTrash
    <2> QED
        BY <1>1, <2>1, <2>5 DEF Held
  <1>6. ASSUME NEW r \in rows, ~IsPrefix(p, r.path) PROVE Held(r)'
    <2>1. Held(r) /\ r \in blobs'
        BY <1>1 DEF Filed, Held
    <2>2. CASE HoldsIn(tree, r.path, r.file)
        BY <1>2, <1>6, <2>1, <2>2 DEF Held
    <2>3. ASSUME NEW i \in DOMAIN bin, InTrash(i, r) PROVE Held(r)'
      <3>1. InTrash(i, r)' /\ i \in DOMAIN bin'
          BY <1>1, <2>3 DEF InTrash
      <3> QED
          BY <2>1, <3>1 DEF Held
    <2> QED
        BY <2>1, <2>2, <2>3 DEF Held
  <1>7. ASSUME NEW i \in DOMAIN bin', NEW r \in bin'[i].refs PROVE r.file \in Files(bin'[i].was)
    <2>1. CASE i \in DOMAIN bin
        BY <1>1, <1>7, <2>1 DEF Filed, RefsOwn
    <2>2. CASE i = id
      <3>1. r \in rows /\ IsPrefix(p, r.path)
          BY <1>1, <1>4, <1>7, <2>2 DEF RowsUnder
      <3>2. r.file \in Files(Detached(tree, p))
          BY <1>1, <3>1 DEF Apart
      <3> QED
          BY <1>1, <2>2, <3>2
    <2> QED
        BY <1>1, <2>1, <2>2
  <1> QED
      BY <1>1, <1>5, <1>6, <1>7 DEF Filed, RefsOwn

\* The rows that a restore or a purge takes for the item's own, as they are.
LEMMA OwnedMeans ==
    ASSUME Typed, Filed, Twins = FALSE, NEW id \in DOMAIN bin, Recorded(bin[id]),
           NEW r \in rows, r \in Owned(bin[id]), IsPrefix(bin[id].orig, r.path)
    PROVE  r.file \in Files(bin[id].was)
  BY DEF Filed, RefsOwn, Owned, Recorded, Apart

LEMMA RestoreFiled ==
    ASSUME Typed, Typed', Placed, Filed, Twins = FALSE, NEW id \in 1..MaxTrash, Restore(id)
    PROVE  /\ Filed'
           /\ \A r \in rows : \E s \in rows' : SameVersion(r, s)
  <1> DEFINE orig == bin[id].orig
             was  == bin[id].was
             refs == bin[id].refs
             mine == Owned(bin[id])
  <1>1. PICK dest \in Seq(Name) :
          /\ id \in DOMAIN bin /\ Recorded(bin[id])
          /\ DOMAIN bin' = DOMAIN bin \ {id} /\ \A i \in DOMAIN bin' : bin'[i] = bin[i]
          /\ Puts(dest, was)
          /\ IF dest = orig THEN UNCHANGED history ELSE MoveVersions(mine, orig, dest)
      BY RestoreDoes
  <1>2. orig \in Seq(Name) /\ Grove(was) /\ id # 0
      BY <1>1, TypedFacts, OldTypes
  <1>3. \A q, f : HoldsIn(tree', q, f) <=> HoldsIn(tree, q, f) \/ \E r : q = dest \o r /\ HoldsIn(was, r, f)
      BY <1>1 DEF Puts
  <1>4. \A r : InTrash(id, r) => /\ r \in refs /\ IsPrefix(orig, r.path)
                                 /\ HoldsIn(was, Below(orig, r.path), r.file)
      BY DEF InTrash
  <1>5. \A r : r \in refs => r \in mine
      BY DEF Owned
  <1>6. \A r \in rows : r \in Version /\ r.path \in Seq(Name) /\ Held(r)
      BY OldTypes, Homes DEF Filed, Version
  <1>7. ASSUME NEW r \in rows, IsPrefix(orig, r.path), r \in mine
        PROVE  HoldsIn(was, Below(orig, r.path), r.file)
    <2>1. r.file \in Files(was)
        BY <1>1, <1>7, OwnedMeans
    <2>2. PICK x : HoldsIn(was, x, r.file)
        BY <2>1, FilesHeld
    <2>3. At(id, x, r.file)
        BY <1>1, <2>2, AtFacts
    <2>4. x = Below(orig, r.path)
        BY <1>2, <1>6, <2>3, HeldThere DEF Placed
    <2> QED
        BY <2>2, <2>4
  <1>8. RefsOwn'
      BY <1>1 DEF Filed, RefsOwn
  <1>9. ASSUME NEW r \in rows, r \in blobs', ~InTrash(id, r) PROVE Held(r)'
    <2>1. CASE HoldsIn(tree, r.path, r.file)
        BY <1>3, <1>9, <2>1 DEF Held
    <2>2. ASSUME NEW i \in DOMAIN bin, InTrash(i, r) PROVE Held(r)'
      <3>1. i \in DOMAIN bin' /\ bin'[i] = bin[i]
          BY <1>1, <1>9, <2>2
      <3>2. InTrash(i, r)'
          BY <2>2, <3>1 DEF InTrash
      <3> QED
          BY <1>9, <3>1, <3>2 DEF Held
    <2> QED
        BY <1>6, <2>1, <2>2 DEF Held
  <1> HIDE DEF orig, was, refs, mine
  <1>10. CASE dest = orig
    <2>1. rows' = rows /\ blobs' = blobs
        BY <1>1, <1>10 DEF history
    <2>2. ASSUME NEW r \in rows, InTrash(id, r) PROVE Held(r)'
      <3>1. r.path = orig \o Below(orig, r.path) /\ HoldsIn(was, Below(orig, r.path), r.file)
          BY <1>2, <1>4, <1>6, <2>2, BelowBack
      <3>2. HoldsIn(tree', dest \o Below(orig, r.path), r.file)
          BY <1>3, <3>1
      <3>3. HoldsIn(tree', r.path, r.file)
          BY <1>10, <3>1, <3>2
      <3> QED
          BY <1>6, <2>1, <3>3 DEF Held
    <2>3. \A r \in rows' : Held(r)'
      <3> TAKE r \in rows'
      <3>1. r \in rows /\ r \in blobs'
          BY <1>6, <2>1 DEF Held
      <3> QED
          BY <1>9, <2>2, <3>1
    <2>4. \A r \in rows : r \in rows' /\ SameVersion(r, r)
        BY <2>1 DEF SameVersion
    <2> QED
        BY <1>8, <2>3, <2>4 DEF Filed
  <1>11. CASE dest # orig
    <2> DEFINE claimed == {r \in mine : IsPrefix(orig, r.path)}
    <2>1. /\ rows' = (rows \ claimed) \cup {RowHome(r, orig, dest) : r \in rows \cap claimed}
          /\ blobs' = (blobs \ claimed) \cup {RowHome(r, orig, dest) : r \in blobs \cap claimed}
        BY <1>1, <1>11 DEF MoveVersions
    <2>2. \A r : r \in claimed <=> r \in mine /\ IsPrefix(orig, r.path)
        OBVIOUS
    <2> HIDE DEF claimed
    <2>3. ASSUME NEW r \in rows, r \notin claimed PROVE Held(r)'
      <3>1. r \in blobs'
          BY <1>6, <2>1, <2>3 DEF Held
      <3>2. ~InTrash(id, r)
          BY <1>4, <1>5, <2>2, <2>3
      <3> QED
          BY <1>9, <3>1, <3>2
    <2>4. ASSUME NEW r \in rows, r \in claimed, NEW s, s = RowHome(r, orig, dest) PROVE Held(s)'
      <3>1. s.file = r.file /\ s.path = dest \o Below(orig, r.path)
          BY <1>2, <1>6, <2>4, Homes
      <3>2. HoldsIn(was, Below(orig, r.path), s.file)
          BY <1>7, <2>2, <2>4, <3>1
      <3>3. HoldsIn(tree', s.path, s.file)
          BY <1>3, <3>1, <3>2
      <3>4. s \in blobs'
          BY <1>6, <2>1, <2>4 DEF Held
      <3> QED
          BY <3>3, <3>4 DEF Held
    <2>5. \A s \in rows' : Held(s)'
        BY <2>1, <2>3, <2>4
    <2>6. ASSUME NEW r \in rows PROVE \E s \in rows' : SameVersion(r, s)
      <3>1. CASE r \in claimed
        <4>1. SameVersion(r, RowHome(r, orig, dest))
            BY <1>2, <1>6, Homes DEF SameVersion
        <4>2. RowHome(r, orig, dest) \in rows'
            BY <2>1, <3>1
        <4> QED
            BY <4>1, <4>2
      <3>2. CASE r \notin claimed
        <4>1. r \in rows' /\ SameVersion(r, r)
            BY <2>1, <3>2 DEF SameVersion
        <4> QED
            BY <4>1
      <3> QED
          BY <3>1, <3>2
    <2> QED
        BY <1>8, <2>5, <2>6 DEF Filed
  <1> QED
      BY <1>10, <1>11

LEMMA PurgeFiled ==
    ASSUME Typed, Placed, Filed, Twins = FALSE, NEW id \in 1..MaxTrash, Purge(id)
    PROVE  /\ Filed'
           /\ \A r \in rows : r \in rows' \/ r.file \in Files(bin[id].was)
           /\ id \in DOMAIN bin \ DOMAIN bin' /\ tree' = tree
  <1> DEFINE mine == Owned(bin[id])
             gone == PurgedRows(bin[id])
             lost == {r.path : r \in gone}
  <1>1. /\ id \in DOMAIN bin /\ Recorded(bin[id]) /\ UNCHANGED tree
        /\ rows' = rows \ gone
        /\ blobs' = IF bin[id].refs # {} THEN blobs \ {r \in mine : r.path \in lost}
                    ELSE {b \in blobs : b.path \notin lost}
        /\ bin' = Restrict(bin, DOMAIN bin \ {id})
      BY DEF Purge
  <1>2. DOMAIN bin' = DOMAIN bin \ {id} /\ \A i \in DOMAIN bin' : bin'[i] = bin[i]
      BY <1>1 DEF Restrict
  <1>3. \A r : r \in gone <=> r \in mine /\ r \in rows
      BY DEF PurgedRows
  <1>4. \A r : r \in bin[id].refs => r \in mine
      BY DEF Owned
  <1>5. \A p : p \in lost <=> \E r \in gone : p = r.path
      OBVIOUS
  <1>6. bin[id].orig \in Seq(Name)
      BY <1>1, TypedFacts
  <1>7. bin[id].refs = {} => mine = RowsUnder(bin[id].orig)
      BY DEF Owned
  <1> HIDE DEF mine, gone, lost
  <1>8. ASSUME NEW r \in rows' PROVE Held(r)'
    <2>1. r \in rows /\ r \notin mine /\ Held(r)
        BY <1>1, <1>3, <1>8 DEF Filed
    <2>2. r \in blobs'
      <3>1. CASE bin[id].refs # {}
          BY <1>1, <2>1, <3>1 DEF Held
      <3>2. CASE bin[id].refs = {}
        <4>1. r.path \notin lost
          <5>1. \A x \in rows : x \in mine <=> IsPrefix(bin[id].orig, x.path)
              BY <1>6, <1>7, <3>2, UnderMeans
          <5> QED
              BY <1>3, <1>5, <2>1, <5>1
        <4> QED
            BY <1>1, <2>1, <3>2, <4>1 DEF Held
      <3> QED
          BY <3>1, <3>2
    <2>3. CASE HoldsIn(tree, r.path, r.file)
        BY <1>1, <2>2, <2>3 DEF Held
    <2>4. ASSUME NEW i \in DOMAIN bin, InTrash(i, r) PROVE Held(r)'
      <3>1. i # id
          BY <1>4, <2>1, <2>4 DEF InTrash
      <3>2. i \in DOMAIN bin' /\ bin'[i] = bin[i]
          BY <1>2, <3>1
      <3>3. InTrash(i, r)'
          BY <2>4, <3>2 DEF InTrash
      <3> QED
          BY <2>2, <3>2, <3>3 DEF Held
    <2> QED
        BY <2>1, <2>3, <2>4 DEF Held
  <1>9. RefsOwn'
      BY <1>2 DEF Filed, RefsOwn
  <1>10. ASSUME NEW r \in rows, r \notin rows' PROVE r.file \in Files(bin[id].was)
    <2>1. r \in mine
        BY <1>1, <1>3, <1>10
    <2>2. CASE bin[id].refs # {}
        BY <1>1, <2>1, <2>2 DEF Filed, RefsOwn, mine, Owned
    <2>3. CASE bin[id].refs = {}
      <3>1. IsPrefix(bin[id].orig, r.path)
          BY <1>6, <1>7, <2>1, <2>3, UnderMeans
      <3> QED
          BY <1>1, <2>3, <3>1 DEF Recorded, Apart
    <2> QED
        BY <2>2, <2>3
  <1> QED
      BY <1>1, <1>2, <1>8, <1>9, <1>10 DEF Filed

LEMMA StepFiled ==
    ASSUME Twins = FALSE, Typed, Typed', Placed, Filed, [Next]_vars
    PROVE  /\ Filed'
           /\ \A r \in rows :
                \/ \E s \in rows' : SameVersion(r, s)
                \/ \E id \in DOMAIN bin \ DOMAIN bin' : r.file \in Files(bin[id].was) /\ tree' = tree
  <1> DEFINE Kept == \A r \in rows :
                       \/ \E s \in rows' : SameVersion(r, s)
                       \/ \E id \in DOMAIN bin \ DOMAIN bin' : r.file \in Files(bin[id].was) /\ tree' = tree
  <1>0. rows \subseteq rows' => Kept
      BY DEF SameVersion
  <1>1. ASSUME NEW p \in Path, Mkdir(p) PROVE Filed' /\ Kept
    <2>1. \A q, f : HoldsIn(tree, q, f) => HoldsIn(tree', q, f)
        BY <1>1, MkdirDoes DEF Adds
    <2>2. UNCHANGED <<bin, rows, blobs>>
        BY <1>1 DEF Mkdir, history
    <2> QED
        BY <1>0, <2>1, <2>2, FiledStays
  <1>2. ASSUME NEW p \in Path, UploadNew(p) PROVE Filed' /\ Kept
    <2>1. \A q, f : HoldsIn(tree, q, f) => HoldsIn(tree', q, f)
        BY <1>2, UploadNewDoes DEF Puts
    <2>2. UNCHANGED <<bin, rows, blobs>>
        BY <1>2 DEF UploadNew, history
    <2> QED
        BY <1>0, <2>1, <2>2, FiledStays
  <1>3. ASSUME NEW p \in Path, UploadOver(p) PROVE Filed' /\ Kept
    <2>1. rows \subseteq rows'
        BY <1>3 DEF UploadOver
    <2> QED
        BY <1>0, <1>3, <2>1, UploadOverFiled
  <1>4. ASSUME NEW p \in Path, (\E n \in Name : Rename(p, n)) \/ (\E q \in Path : Move(p, q)) PROVE Filed' /\ Kept
    <2>1. PICK to \in Seq(Name) : Moves(p, to)
        BY <1>4, MovesDo
    <2> QED
        BY <2>1, PathFacts, MoveFiled DEF Placed
  <1>5. ASSUME NEW p \in Path, NEW q \in Path, CopyFile(p, q) PROVE Filed' /\ Kept
    <2>1. UNCHANGED <<bin, rows, blobs>>
        BY <1>5 DEF CopyFile, history
    <2>2. \A i, x, f : At(i, x, f) => At(i, x, f)'
        BY <1>5, CopyFilePlaces
    <2>3. \A x, f : HoldsIn(tree, x, f) => HoldsIn(tree', x, f)
        BY <2>2, AtFacts, AtNext
    <2> QED
        BY <1>0, <2>1, <2>3, FiledStays
  <1>6. ASSUME NEW p \in Path, NEW q \in Path, CopyBegin(p, q) PROVE Filed' /\ Kept
    <2>1. CopyMake(p, q) /\ UNCHANGED <<bin, rows, blobs>>
        BY <1>6 DEF CopyBegin, history
    <2>2. \A x, f : HoldsIn(tree, x, f) => HoldsIn(tree', x, f)
        BY <2>1, MakesDirs DEF Adds
    <2> QED
        BY <1>0, <2>1, <2>2, FiledStays
  <1>7. ASSUME NEW q \in Path, CopyDir(q) PROVE Filed' /\ Kept
    <2>1. CopyMake(q, CopyTarget(q)) /\ UNCHANGED <<bin, rows, blobs>>
        BY <1>7 DEF CopyDir, history
    <2>2. \A x, f : HoldsIn(tree, x, f) => HoldsIn(tree', x, f)
        BY <2>1, MakesDirs DEF Adds
    <2> QED
        BY <1>0, <2>1, <2>2, FiledStays
  <1>8. ASSUME NEW q \in Path, CopyLeaf(q) PROVE Filed' /\ Kept
    <2>1. UNCHANGED <<bin, rows, blobs>>
        BY <1>8 DEF CopyLeaf, history
    <2>2. \A i, x, f : At(i, x, f) => At(i, x, f)'
        BY <1>8, CopyLeafPlaces
    <2>3. \A x, f : HoldsIn(tree, x, f) => HoldsIn(tree', x, f)
        BY <2>2, AtFacts, AtNext
    <2> QED
        BY <1>0, <2>1, <2>3, FiledStays
  <1>9. ASSUME CopyFail \/ CopyDone \/ UNCHANGED vars PROVE Filed' /\ Kept
    <2>1. UNCHANGED <<tree, bin, rows, blobs>>
        BY <1>9 DEF CopyFail, CopyDone, history, vars
    <2> QED
        BY <1>0, <2>1, FiledStays
  <1>10. ASSUME NEW p \in Path, NEW id \in 1..MaxTrash, Delete(p, id) PROVE Filed' /\ Kept
    <2>1. rows' = rows
        BY <1>10 DEF Delete, history
    <2> QED
        BY <1>0, <1>10, <2>1, DeleteFiled
  <1>11. ASSUME NEW id \in 1..MaxTrash, Restore(id) PROVE Filed' /\ Kept
      BY <1>11, RestoreFiled
  <1>12. ASSUME NEW id \in 1..MaxTrash, Purge(id) PROVE Filed' /\ Kept
    <2>1. /\ Filed' /\ \A r \in rows : r \in rows' \/ r.file \in Files(bin[id].was)
          /\ id \in DOMAIN bin \ DOMAIN bin' /\ tree' = tree
        BY <1>12, PurgeFiled
    <2> QED
        BY <2>1 DEF SameVersion
  <1> QED
      BY <1>1, <1>2, <1>3, <1>4, <1>5, <1>6, <1>7, <1>8, <1>9, <1>10, <1>11, <1>12 DEF Next

LEMMA TreeInvariant ==
    ASSUME Twins = FALSE
    PROVE  Spec => [](Typed /\ Placed /\ Filed)
  <1>1. Init => Filed
      BY DEF Init, Filed, RefsOwn
  <1>2. Typed /\ Placed /\ Filed /\ [Next]_vars => Typed' /\ Placed' /\ Filed'
      BY StepTyped, StepPlaced, StepFiled
  <1> QED
      BY <1>1, <1>2, InitTyped, InitPlaced, PTL DEF Spec

\* Every row of the index names a version of the file that is at its path or
\* was when it was trashed, and its blob is there: through renames and moves of
\* any directory above, however deep, deletes, restores under another name and
\* purges, when names differ by more than the case of letters.
THEOREM VersionsFollow ==
    ASSUME Twins = FALSE
    PROVE  Spec => []HistoryFollows
  <1>1. Filed => HistoryFollows
      BY FiledFollows
  <1> QED
      BY <1>1, TreeInvariant, PTL

\* No step drops a version but the purge of the trash item that holds its file.
THEOREM VersionsKept ==
    ASSUME Twins = FALSE
    PROVE  Spec => HistoryKept
  <1>1. Typed /\ Typed' /\ Placed /\ Filed /\ [Next]_vars
        => [\A r \in rows :
              \/ \E s \in rows' : SameVersion(r, s)
              \/ \E id \in DOMAIN bin \ DOMAIN bin' :
                   r.file \in Files(bin[id].was) /\ tree' = tree]_vars
      BY StepFiled
  <1> QED
      BY <1>1, TreeInvariant, PTL DEF Spec, HistoryKept

-----------------------------------------------------------------------------
(* Copies                                                                    *)

LEMMA PrefixBelow ==
    ASSUME NEW p \in Seq(Name), NEW a \in Seq(Name), NEW x \in Seq(Name)
    PROVE  IsPrefix(p \o a, p \o x) <=> IsPrefix(a, x)
  <1> DEFINE d == p \o a
  <1>1. d \in Seq(Name) /\ p \o x \in Seq(Name) /\ Below(p, p \o x) = x
      BY BelowFacts
  <1>2. \A b \in Seq(Name) : d \o b = p \o (a \o b)
      BY ConcatAssociative
  <1> HIDE DEF d
  <1>3. ASSUME IsPrefix(a, x) PROVE IsPrefix(d, p \o x)
    <2>1. PICK b \in Seq(Name) : a \o b = x
        BY <1>3, BelowBack
    <2>2. IsPrefix(d, d \o b)
        BY <1>1, BelowFacts
    <2> QED
        BY <1>2, <2>1, <2>2
  <1>4. ASSUME IsPrefix(d, p \o x) PROVE IsPrefix(a, x)
    <2>1. PICK b \in Seq(Name) : d \o b = p \o x
        BY <1>1, <1>4, BelowBack
    <2>2. IsPrefix(a, a \o b) /\ a \o b \in Seq(Name)
        BY BelowFacts
    <2>3. Below(p, p \o (a \o b)) = a \o b
        BY <2>2, BelowFacts
    <2>4. a \o b = x
        BY <1>1, <1>2, <2>1, <2>3
    <2> QED
        BY <2>2, <2>4
  <1> QED
      BY <1>3, <1>4 DEF d

\* The next directory on the way from p to q.
LEMMA OneFurther ==
    ASSUME NEW p \in Seq(Name), NEW q \in Seq(Name), IsPrefix(p, q), p # q
    PROVE  \E c \in Seq(Name) : /\ c # Root /\ Parent(c) = p /\ Len(c) = Len(p) + 1
                                /\ IsPrefix(p, c) /\ IsPrefix(c, q)
  <1>1. /\ Len(p) \in Nat /\ Len(q) \in Nat /\ Len(p) <= Len(q) /\ Len(p) # Len(q)
        /\ \A i \in 1..Len(p) : p[i] = q[i]
      BY LenFacts, PrefixMeans, PrefixOrder
  <1> DEFINE c == SubSeq(q, 1, Len(p) + 1)
  <1>2. Len(p) + 1 \in 0..Len(q)
      BY <1>1
  <1>3. c \in Seq(Name) /\ Len(c) = Len(p) + 1 /\ \A i \in 1..Len(p) + 1 : c[i] = q[i]
      BY <1>2, CutFacts
  <1> HIDE DEF c
  <1>4. IsPrefix(p, c) /\ IsPrefix(c, q) /\ c # Root
      BY <1>1, <1>3, PrefixMeans, RootFacts
  <1>5. /\ Parent(c) \in Seq(Name) /\ IsPrefix(Parent(c), c) /\ Len(Parent(c)) = Len(p)
    <2>1. Parent(c) \in Seq(Name) /\ IsPrefix(Parent(c), c) /\ Len(Parent(c)) = Len(c) - 1
        BY <1>3, <1>4, ParentFacts
    <2> QED
        BY <1>1, <1>3, <2>1
  <1>6. Parent(c) = p
      BY <1>3, <1>4, <1>5, PrefixOrder
  <1> QED
      BY <1>3, <1>4, <1>6

LEMMA DetachedSame ==
    ASSUME NEW t, NEW u, NEW p \in Seq(Name), \A q \in DOMAIN t : q \in Seq(Name),
           DOMAIN t \subseteq DOMAIN u, \A q \in DOMAIN t : u[q] = t[q],
           \A q \in DOMAIN u : IsPrefix(p, q) => q \in DOMAIN t
    PROVE  Detached(u, p) = Detached(t, p)
  <1>1. Under(u, p) = Under(t, p)
      BY DEF Under
  <1>2. \A q \in Under(t, p) : p \o Below(p, q) = q /\ q \in DOMAIN t
      BY BelowBack DEF Under
  <1>3. \A r \in {Below(p, q) : q \in Under(t, p)} : u[p \o r] = t[p \o r]
      BY <1>2
  <1> QED
      BY <1>1, <1>3 DEF Detached

LEMMA MakesWhere ==
    ASSUME Typed, NEW src, NEW dst, CopyMake(src, dst)
    PROVE  /\ dst \in Path /\ dst \in Seq(Name) /\ IsDir(tree', dst) /\ tree[src] = Dir
           /\ Grove(tree') /\ DOMAIN tree \subseteq DOMAIN tree'
           /\ \A q \in DOMAIN tree : tree'[q] = tree[q]
           /\ \A q \in DOMAIN tree' : q \in DOMAIN tree \/ IsPrefix(q, dst)
  <1>1. /\ dst \in Path /\ CanMake(tree, Ancestors(dst) \cup {dst}) /\ tree[src] = Dir
        /\ tree' = Make(tree, Ancestors(dst) \cup {dst}) /\ dst \in Seq(Name)
      BY PathFacts DEF CopyMake
  <1>2. Adds(tree, tree') /\ dst \in DOMAIN tree'
      BY MakesDirs
  <1>3. IsDir(tree', dst)
      BY <1>1, <1>2 DEF Adds, IsDir, CanMake
  <1>4. \A q \in DOMAIN tree' : q \in DOMAIN tree \/ q \in Ancestors(dst) \/ q = dst
      BY <1>1 DEF Make
  <1>5. \A q \in Ancestors(dst) \cup {dst} : IsPrefix(q, dst)
      BY <1>1, AncestorFacts, PrefixOrder
  <1> QED
      BY <1>1, <1>2, <1>3, <1>4, <1>5 DEF Adds

LEMMA CopiesWhere ==
    ASSUME Typed, NEW src \in DOMAIN tree, NEW dst, NEW id \in File, CopyOne(src, dst, id)
    PROVE  /\ tree[src] # Dir /\ dst \in Path /\ dst \in Seq(Name) /\ dst \in DOMAIN tree'
           /\ tree'[dst].data = tree[src].data
           /\ Grove(tree') /\ DOMAIN tree \subseteq DOMAIN tree'
           /\ \A q \in DOMAIN tree : tree'[q] = tree[q]
           /\ \A q \in DOMAIN tree' : q \in DOMAIN tree \/ q = dst
  <1> DEFINE node == [file |-> id, data |-> tree[src].data]
  <1>1. node \in Leaf /\ Puts(dst, Single(node)) /\ dst \in Path /\ dst \in Seq(Name)
      BY CopyOneDoes, PathFacts
  <1>2. tree' = With(tree, dst, Single(node)) /\ tree[src] # Dir
      BY DEF CopyOne
  <1>3. node.data = tree[src].data
      OBVIOUS
  <1> HIDE DEF node
  <1>4. DOMAIN Single(node) = {Root} /\ Single(node)[Root] = node /\ dst \o Root = dst
      BY <1>1, SingleIs, BelowFacts, RootFacts
  <1>5. dst \in DOMAIN tree' /\ tree'[dst] = node
    <2>1. dst \o Root \in DOMAIN tree' /\ tree'[dst \o Root] = node
        BY <1>1, <1>4 DEF Puts
    <2> QED
        BY <1>4, <2>1
  <1>6. \A q \in DOMAIN tree' : q \in DOMAIN tree \/ q = dst
    <2>1. DOMAIN tree' = DOMAIN tree \cup {dst \o r : r \in DOMAIN Single(node)}
        BY <1>2 DEF With
    <2> QED
        BY <1>4, <2>1
  <1> QED
      BY <1>1, <1>2, <1>3, <1>5, <1>6 DEF Puts

\* What the copy has found at r is in the target, or will be: it or a directory
\* above it has yet to be visited.
Copied(r)  == job.dst \o r \in DOMAIN tree /\ tree[job.dst \o r].data = job.was[r].data
Pending(r) == \E a \in Seq(Name) : IsPrefix(a, r) /\ job.src \o a \in job.todo

\* A copy to a place outside the source.
Faithful ==
    /\ job.src \in DOMAIN tree /\ IsDir(tree, job.dst)
    /\ ~IsPrefix(job.src, job.dst) /\ ~IsPrefix(job.dst, job.src)
    /\ Detached(tree, job.src) = job.was
    /\ \A q \in DOMAIN tree : IsPrefix(job.dst, q) => Below(job.dst, q) \in DOMAIN job.was
    /\ \A r \in DOMAIN job.was : Copied(r) \/ Pending(r)

\* A copy of a directory into itself: on the way to where the last directory was
\* made there is always one more to visit, so it never succeeds.
Endless ==
    /\ job.src # job.dst /\ IsPrefix(job.src, job.dst)
    /\ \E x \in Seq(Name) \ {Root} :
         /\ job.src \o x \in job.todo /\ IsDir(tree, job.src \o x)
         /\ IsPrefix(job.src \o x, job.dst \o Parent(x))

CopySound == Accepting \/ Faithful \/ Endless

LEMMA FaithfulEnds ==
    ASSUME Typed, Faithful, job.todo = {}
    PROVE  SameContent(Detached(tree, job.dst), job.was) /\ Detached(tree, job.src) = job.was
  <1>1. job.dst \in DOMAIN tree /\ job.dst \in Seq(Name) /\ job.src \in DOMAIN tree
      BY TypedFacts, PathFacts DEF Faithful, IsDir
  <1> DEFINE D == Detached(tree, job.dst)
  <1>2. /\ \A r : r \in DOMAIN D <=> r \in Seq(Name) /\ job.dst \o r \in DOMAIN tree
        /\ \A r \in DOMAIN D : D[r] = tree[job.dst \o r]
      BY <1>1, TypedFacts, DetachedIs
  <1> HIDE DEF D
  <1>3. \A r \in DOMAIN job.was : r \in Seq(Name)
      BY <1>1, TypedFacts, DetachedIs DEF Faithful
  <1>4. \A r \in DOMAIN job.was : Copied(r)
      BY DEF Faithful, Pending
  <1>5. ASSUME NEW r \in DOMAIN D PROVE r \in DOMAIN job.was
    <2>1. r \in Seq(Name) /\ job.dst \o r \in DOMAIN tree
        BY <1>2
    <2>2. IsPrefix(job.dst, job.dst \o r) /\ Below(job.dst, job.dst \o r) = r
        BY <1>1, <2>1, BelowFacts
    <2>3. Below(job.dst, job.dst \o r) \in DOMAIN job.was
        BY <2>1, <2>2 DEF Faithful
    <2> QED
        BY <2>2, <2>3
  <1>6. ASSUME NEW r \in DOMAIN job.was PROVE r \in DOMAIN D /\ D[r].data = job.was[r].data
      BY <1>2, <1>3, <1>4 DEF Copied
  <1>7. DOMAIN D = DOMAIN job.was
      BY <1>5, <1>6
  <1>8. SameContent(D, job.was)
      BY <1>6, <1>7 DEF SameContent
  <1> QED
      BY <1>8 DEF D, Faithful

\* A step of the copy visits job.src \o x: it comes to the target, with the
\* directories on the way there, and what is below it is to be visited.
Visits(x) ==
    /\ job'.src = job.src /\ job'.dst = job.dst /\ job'.was = job.was
    /\ job.src \o x \in job.todo /\ \A q \in job.todo : q # job.src \o x => q \in job'.todo
    /\ Grove(tree') /\ DOMAIN tree \subseteq DOMAIN tree' /\ \A q \in DOMAIN tree : tree'[q] = tree[q]
    /\ \A q \in DOMAIN tree' : q \in DOMAIN tree \/ IsPrefix(q, job.dst \o x)
    /\ job.dst \o x \in DOMAIN tree' /\ tree'[job.dst \o x].data = tree[job.src \o x].data
    /\ IF IsDir(tree, job.src \o x)
       THEN /\ IsDir(tree', job.dst \o x)
            /\ \A q \in DOMAIN tree' : /\ q \in Seq(Name) /\ IsPrefix(job.src \o x, q)
                                       /\ Len(q) = Len(job.src \o x) + 1
                                       => q \in job'.todo
       ELSE tree[job.src \o x] # Dir

LEMMA JobKeeps ==
    ASSUME Typed, NEW T, job' = [job EXCEPT !.todo = T]
    PROVE  job'.src = job.src /\ job'.dst = job.dst /\ job'.was = job.was /\ job'.todo = T
  <1>1. job \in [src : Path, dst : Path, todo : SUBSET DOMAIN tree, was : {job.was}]
      BY DEF Typed
  <1> QED
      BY <1>1

LEMMA DirVisits ==
    ASSUME Typed, NEW q \in Path, CopyDir(q)
    PROVE  \E x \in Seq(Name) : Visits(x)
  <1> DEFINE x == Below(job.src, q)
             T == (job.todo \ {q}) \cup Children(tree', q)
  <1>1. q \in job.todo /\ CopyMake(q, CopyTarget(q)) /\ job' = [job EXCEPT !.todo = T]
      BY DEF CopyDir
  <1>2. /\ q = job.src \o x /\ CopyTarget(q) = job.dst \o x /\ x \in Seq(Name) /\ q \in DOMAIN tree
        /\ q \in Seq(Name)
      BY <1>1, CopyAt, PathFacts
  <1>3. job'.src = job.src /\ job'.dst = job.dst /\ job'.was = job.was /\ job'.todo = T
      BY <1>1, JobKeeps
  <1> HIDE DEF x
  <1>4. /\ IsDir(tree', job.dst \o x) /\ tree[q] = Dir
        /\ Grove(tree') /\ DOMAIN tree \subseteq DOMAIN tree'
        /\ \A p \in DOMAIN tree : tree'[p] = tree[p]
        /\ \A p \in DOMAIN tree' : p \in DOMAIN tree \/ IsPrefix(p, job.dst \o x)
      BY <1>1, <1>2, MakesWhere
  <1>5. \A p \in DOMAIN tree' : IsPrefix(q, p) /\ Len(p) = Len(q) + 1 => p \in T
      BY DEF Children, Under
  <1>6. Visits(x)
      BY <1>1, <1>2, <1>3, <1>4, <1>5 DEF Visits, IsDir
  <1> QED
      BY <1>2, <1>6

LEMMA LeafVisits ==
    ASSUME Typed, NEW q \in Path, CopyLeaf(q)
    PROVE  \E x \in Seq(Name) : Visits(x)
  <1> DEFINE x == Below(job.src, q)
             id == [by |-> MaxWrites + copies, at |-> Below(job.src, q)]
             T == job.todo \ {q}
  <1>1. q \in job.todo /\ CopyOne(q, CopyTarget(q), id) /\ job' = [job EXCEPT !.todo = T]
      BY DEF CopyLeaf
  <1>2. /\ q = job.src \o x /\ CopyTarget(q) = job.dst \o x /\ x \in Seq(Name) /\ q \in DOMAIN tree /\ id \in File
        /\ q \in Seq(Name)
      BY <1>1, CopyAt, PathFacts
  <1>3. job'.src = job.src /\ job'.dst = job.dst /\ job'.was = job.was /\ job'.todo = T
      BY <1>1, JobKeeps
  <1> HIDE DEF x, id
  <1>4. /\ tree[q] # Dir /\ job.dst \o x \in Seq(Name) /\ job.dst \o x \in DOMAIN tree'
        /\ tree'[job.dst \o x].data = tree[q].data
        /\ Grove(tree') /\ DOMAIN tree \subseteq DOMAIN tree'
        /\ \A p \in DOMAIN tree : tree'[p] = tree[p]
        /\ \A p \in DOMAIN tree' : p \in DOMAIN tree \/ p = job.dst \o x
    <2> DEFINE d == job.dst \o x
    <2>1. CopyOne(q, d, id)
        BY <1>1, <1>2
    <2> HIDE DEF d
    <2> QED
        BY <1>2, <2>1, CopiesWhere DEF d
  <1>5. IsPrefix(job.dst \o x, job.dst \o x)
      BY <1>4, PrefixOrder
  <1>6. Visits(x)
      BY <1>1, <1>2, <1>3, <1>4, <1>5 DEF Visits, IsDir
  <1> QED
      BY <1>2, <1>6

LEMMA VisitsFaithful ==
    ASSUME Typed, Faithful, NEW x \in Seq(Name), Visits(x)
    PROVE  Faithful'
  <1> DEFINE src == job.src
             dst == job.dst
             was == job.was
  <1>1. /\ job'.src = src /\ job'.dst = dst /\ job'.was = was
        /\ src \in DOMAIN tree /\ dst \in DOMAIN tree /\ src \in Seq(Name) /\ dst \in Seq(Name)
        /\ src \o x \in DOMAIN tree
      BY TypedFacts, PathFacts DEF Faithful, IsDir, Visits
  <1>2. /\ Grove(tree') /\ DOMAIN tree \subseteq DOMAIN tree' /\ \A q \in DOMAIN tree : tree'[q] = tree[q]
        /\ \A q \in DOMAIN tree' : q \in DOMAIN tree \/ IsPrefix(q, dst \o x)
        /\ \A q \in DOMAIN tree' : q \in Seq(Name)
      BY PathFacts DEF Visits, Grove
  <1>3. /\ ~IsPrefix(src, dst) /\ ~IsPrefix(dst, src) /\ IsDir(tree, dst) /\ Detached(tree, src) = was
        /\ \A q \in DOMAIN tree : IsPrefix(dst, q) => Below(dst, q) \in DOMAIN was
        /\ \A r \in DOMAIN was : Copied(r) \/ Pending(r)
      BY DEF Faithful
  <1>4. /\ Grove(was) /\ \A r : r \in DOMAIN was <=> r \in Seq(Name) /\ src \o r \in DOMAIN tree
        /\ \A r \in DOMAIN was : was[r] = tree[src \o r]
      BY <1>1, <1>3, TypedFacts, DetachedIs
  <1>5. \A r \in Seq(Name) : /\ dst \o r \in Seq(Name) /\ IsPrefix(dst, dst \o r) /\ Below(dst, dst \o r) = r
                             /\ src \o r \in Seq(Name) /\ IsPrefix(src, src \o r) /\ Below(src, src \o r) = r
      BY <1>1, BelowFacts
  <1> HIDE DEF src, dst, was
  <1>6. ASSUME NEW q \in DOMAIN tree', q \notin DOMAIN tree
        PROVE  IsPrefix(dst, q) /\ Below(dst, q) \in Seq(Name) /\ q = dst \o Below(dst, q) /\ IsPrefix(Below(dst, q), x)
    <2>1. q \in Seq(Name) /\ IsPrefix(q, dst \o x) /\ dst \o x \in Seq(Name) /\ IsPrefix(dst, dst \o x)
        BY <1>2, <1>5, <1>6
    <2>2. IsPrefix(q, dst) \/ IsPrefix(dst, q)
        BY <1>1, <2>1, PrefixOrder
    <2>3. ~IsPrefix(q, dst)
        BY <1>1, <1>6, <2>1, TypedFacts, Closed DEF IsDir
    <2>4. Below(dst, q) \in Seq(Name) /\ dst \o Below(dst, q) = q
        BY <1>1, <2>1, <2>2, <2>3, BelowBack
    <2>5. IsPrefix(dst \o Below(dst, q), dst \o x)
        BY <2>1, <2>4
    <2>6. IsPrefix(Below(dst, q), x)
        BY <1>1, <2>4, <2>5, PrefixBelow
    <2> QED
        BY <2>2, <2>3, <2>4, <2>6
  <1>7. \A q \in DOMAIN tree' : IsPrefix(src, q) => q \in DOMAIN tree
      BY <1>1, <1>2, <1>3, <1>6, PrefixOrder
  <1>8. Detached(tree', src) = was
    <2>1. \A q \in DOMAIN tree : q \in Seq(Name)
        BY TypedFacts
    <2> QED
        BY <1>1, <1>2, <1>3, <1>7, <2>1, DetachedSame
  <1>9. x \in DOMAIN was
      BY <1>1, <1>4
  <1>10. ASSUME NEW q \in DOMAIN tree', IsPrefix(dst, q) PROVE Below(dst, q) \in DOMAIN was
    <2>1. CASE q \in DOMAIN tree
        BY <1>3, <1>10, <2>1
    <2>2. CASE q \notin DOMAIN tree
      <3>1. Below(dst, q) \in Seq(Name) /\ IsPrefix(Below(dst, q), x)
          BY <1>6, <2>2
      <3>2. Below(dst, q) # x => IsDir(was, Below(dst, q))
          BY <1>4, <1>9, <3>1, Closed
      <3> QED
          BY <1>9, <3>2 DEF IsDir
    <2> QED
        BY <2>1, <2>2
  <1>11. ASSUME NEW r \in DOMAIN was PROVE Copied(r)' \/ Pending(r)'
    <2>1. CASE Copied(r)
      <3>1. dst \o r \in DOMAIN tree /\ tree[dst \o r].data = was[r].data
          BY <2>1 DEF Copied, dst, was
      <3>2. dst \o r \in DOMAIN tree' /\ tree'[dst \o r].data = was[r].data
          BY <1>2, <3>1
      <3> QED
          BY <1>1, <3>2 DEF Copied
    <2>2. ASSUME NEW a \in Seq(Name), IsPrefix(a, r), src \o a \in job.todo, a # x PROVE Pending(r)'
      <3>1. src \o a # src \o x
          BY <1>5, <2>2
      <3>2. src \o a \in job'.todo
          BY <2>2, <3>1 DEF Visits, src
      <3> QED
          BY <1>1, <2>2, <3>2 DEF Pending
    <2>3. CASE r = x
      <3>1. dst \o x \in DOMAIN tree' /\ tree'[dst \o x].data = tree[src \o x].data
          BY DEF Visits, src, dst
      <3>2. was[x] = tree[src \o x]
          BY <1>4, <1>9
      <3> QED
          BY <1>1, <2>3, <3>1, <3>2 DEF Copied
    <2>4. CASE r # x /\ IsPrefix(x, r)
      <3>1. r \in Seq(Name) /\ IsDir(was, x)
          BY <1>4, <2>4, Closed
      <3>2. IsDir(tree, src \o x)
          BY <1>1, <1>4, <3>1 DEF IsDir
      <3>3. PICK c \in Seq(Name) : Len(c) = Len(x) + 1 /\ IsPrefix(x, c) /\ IsPrefix(c, r)
          BY <2>4, <3>1, OneFurther
      <3>4. c \in DOMAIN was
          BY <1>4, <3>1, <3>3, Closed DEF IsDir
      <3>5. src \o c \in DOMAIN tree' /\ src \o c \in Seq(Name)
          BY <1>2, <1>4, <1>5, <3>4
      <3>6. IsPrefix(src \o x, src \o c)
          BY <1>1, <3>3, PrefixBelow
      <3>7. Len(src \o c) = Len(src \o x) + 1
        <4>1. Len(src \o c) = Len(src) + Len(c) /\ Len(src \o x) = Len(src) + Len(x)
            BY <1>1, BelowFacts
        <4>2. Len(src) \in Nat /\ Len(x) \in Nat
            BY <1>1, LenFacts
        <4> QED
            BY <3>3, <4>1, <4>2
      <3>8. src \o c \in job'.todo
          BY <3>2, <3>5, <3>6, <3>7 DEF Visits, src
      <3> QED
          BY <1>1, <3>3, <3>8 DEF Pending
    <2>5. Copied(r) \/ \E a \in Seq(Name) : IsPrefix(a, r) /\ src \o a \in job.todo
        BY <1>3 DEF Pending, src
    <2> QED
        BY <2>1, <2>2, <2>3, <2>4, <2>5
  <1>12. src \in DOMAIN tree' /\ IsDir(tree', dst)
      BY <1>1, <1>2, <1>3 DEF IsDir
  <1> QED
      BY <1>1, <1>3, <1>8, <1>10, <1>11, <1>12 DEF Faithful

\* What is to be visited next on the way to a directory that the copy has made.
LEMMA VisitsEndless ==
    ASSUME Typed, Endless, ~Accepting, NEW x \in Seq(Name), Visits(x)
    PROVE  Endless'
  <1> DEFINE src == job.src
             dst == job.dst
  <1>1. /\ job'.src = src /\ job'.dst = dst /\ src # dst /\ IsPrefix(src, dst)
        /\ src \in Seq(Name) /\ dst \in Seq(Name)
      BY TypedFacts, PathFacts DEF Endless, Visits
  <1>2. PICK y \in Seq(Name) \ {Root} : /\ src \o y \in job.todo /\ IsDir(tree, src \o y)
                                        /\ IsPrefix(src \o y, dst \o Parent(y))
      BY DEF Endless
  <1>3. /\ Grove(tree') /\ DOMAIN tree \subseteq DOMAIN tree' /\ \A q \in DOMAIN tree : tree'[q] = tree[q]
        /\ \A q \in DOMAIN tree' : q \in Seq(Name)
      BY PathFacts DEF Visits, Grove
  <1>4. /\ src \o y \in Seq(Name) /\ Len(src \o y) = Len(src) + Len(y) /\ Len(src) \in Nat /\ Len(y) \in Nat
        /\ dst \o y \in Seq(Name) /\ Len(dst \o y) = Len(dst) + Len(y) /\ Len(dst) \in Nat
        /\ Parent(y) \in Seq(Name) /\ IsPrefix(Parent(y), y) /\ dst \o Parent(y) \in Seq(Name)
      BY <1>1, BelowFacts, LenFacts, ParentFacts
  <1> HIDE DEF src, dst
  <1>5. CASE x # y
    <2>1. src \o x # src \o y
      <3>1. Below(src, src \o x) = x /\ Below(src, src \o y) = y
          BY <1>1, BelowFacts
      <3> QED
          BY <1>5, <3>1
    <2>2. src \o y \in job'.todo
        BY <1>2, <2>1 DEF Visits, src
    <2>3. IsDir(tree', src \o y)
        BY <1>2, <1>3 DEF IsDir
    <2> QED
        BY <1>1, <1>2, <2>2, <2>3 DEF Endless
  <1>6. CASE x = y
    <2>1. IsPrefix(dst \o Parent(y), dst \o y)
        BY <1>1, <1>4, PrefixBelow
    <2>2. IsPrefix(src \o y, dst \o y)
      <3> DEFINE a == src \o y
                 b == dst \o Parent(y)
                 c == dst \o y
      <3>1. a \in Seq(Name) /\ b \in Seq(Name) /\ c \in Seq(Name) /\ IsPrefix(a, b) /\ IsPrefix(b, c)
          BY <1>2, <1>4, <2>1
      <3> HIDE DEF a, b, c
      <3>2. IsPrefix(a, c)
          BY <3>1, PrefixOrder
      <3> QED
          BY <3>2 DEF a, c
    <2>3. src \o y # dst \o y
      <3>1. Len(src) # Len(dst)
          BY <1>1, PrefixOrder
      <3> QED
          BY <1>4, <3>1
    <2>4. PICK c \in Seq(Name) : /\ c # Root /\ Parent(c) = src \o y /\ Len(c) = Len(src \o y) + 1
                                 /\ IsPrefix(src \o y, c) /\ IsPrefix(c, dst \o y)
        BY <1>4, <2>2, <2>3, OneFurther
    <2>5. IsDir(tree', dst \o y)
        BY <1>2, <1>6 DEF Visits, src, dst
    <2>6. IsDir(tree', c)
        BY <1>3, <1>4, <2>4, <2>5, Closed DEF IsDir
    <2>7. c \in job'.todo
        BY <1>2, <1>6, <2>4, <2>6 DEF Visits, IsDir, src
    <2>8. IsPrefix(src, c)
      <3> DEFINE a == src \o y
      <3>1. src \in Seq(Name) /\ a \in Seq(Name) /\ IsPrefix(src, a) /\ IsPrefix(a, c)
          BY <1>1, <2>4, BelowFacts
      <3> HIDE DEF a
      <3> QED
          BY <3>1, PrefixOrder
    <2>9. PICK z \in Seq(Name) : src \o z = c
      <3>1. src \in Seq(Name)
          BY <1>1
      <3> QED
          BY <2>8, <3>1, BelowBack
    <2>10. z # Root
      <3>1. z = Root => c = src
          BY <1>1, <2>9, BelowFacts
      <3>2. Len(c) # Len(src)
          BY <1>4, <2>4
      <3> QED
          BY <3>1, <3>2
    <2>11. Parent(z) = y
      <3>1. Parent(c) = src \o Parent(z) /\ Parent(z) \in Seq(Name)
          BY <1>1, <2>9, <2>10, ParentBelow, ParentFacts
      <3>2. Below(src, src \o Parent(z)) = Parent(z) /\ Below(src, src \o y) = y
          BY <1>1, <3>1, BelowFacts
      <3> QED
          BY <2>4, <3>1, <3>2
    <2>12. /\ z \in Seq(Name) \ {Root} /\ src \o z \in job'.todo /\ IsDir(tree', src \o z)
           /\ IsPrefix(src \o z, dst \o Parent(z))
        BY <2>4, <2>6, <2>7, <2>9, <2>10, <2>11
    <2> QED
        BY <1>1, <2>12 DEF Endless
  <1> QED
      BY <1>5, <1>6

LEMMA BeginSound ==
    ASSUME Typed, NEW src \in Path, NEW dst \in Path, CopyBegin(src, dst)
    PROVE  CopySound'
  <1>1. /\ CopyMake(src, dst) /\ src # Root /\ src \in DOMAIN tree /\ dst \notin DOMAIN tree
        /\ job' = [src |-> src, dst |-> dst, todo |-> Children(tree', src), was |-> Detached(tree, src)]
        /\ src \in Seq(Name) /\ dst \in Seq(Name) /\ src # dst
      BY PathFacts DEF CopyBegin, Copyable
  <1>2. job'.src = src /\ job'.dst = dst /\ job'.todo = Children(tree', src) /\ job'.was = Detached(tree, src)
      BY <1>1
  <1>3. /\ IsDir(tree', dst) /\ tree[src] = Dir
        /\ Grove(tree') /\ DOMAIN tree \subseteq DOMAIN tree' /\ \A q \in DOMAIN tree : tree'[q] = tree[q]
        /\ \A q \in DOMAIN tree' : q \in DOMAIN tree \/ IsPrefix(q, dst)
        /\ \A q \in DOMAIN tree' : q \in Seq(Name)
      BY <1>1, MakesWhere, PathFacts DEF Grove
  <1>4. Grove(tree) /\ \A q \in DOMAIN tree : q \in Seq(Name)
      BY TypedFacts
  <1>5. \A c : c \in Children(tree', src) <=> c \in DOMAIN tree' /\ IsPrefix(src, c) /\ Len(c) = Len(src) + 1
      BY DEF Children, Under
  <1>6. CASE IsPrefix(src, dst)
    <2>1. PICK c \in Seq(Name) : /\ c # Root /\ Parent(c) = src /\ Len(c) = Len(src) + 1
                                 /\ IsPrefix(src, c) /\ IsPrefix(c, dst)
        BY <1>1, <1>6, OneFurther
    <2>2. IsDir(tree', c)
        BY <1>1, <1>3, <2>1, Closed DEF IsDir
    <2>3. c \in Children(tree', src)
        BY <1>5, <2>1, <2>2 DEF IsDir
    <2>4. PICK x \in Seq(Name) : src \o x = c
        BY <1>1, <2>1, BelowBack
    <2>5. x # Root
      <3>1. x = Root => c = src
          BY <1>1, <2>4, BelowFacts
      <3>2. Len(src) \in Nat
          BY <1>1, LenFacts
      <3> QED
          BY <2>1, <3>1, <3>2
    <2>6. Parent(x) = Root
      <3>1. src = src \o Parent(x) /\ Parent(x) \in Seq(Name)
          BY <1>1, <2>1, <2>4, <2>5, ParentBelow, ParentFacts
      <3> QED
          BY <1>1, <3>1, BelowFacts
    <2>7. dst \o Parent(x) = dst
        BY <1>1, <2>6, BelowFacts, RootFacts
    <2>8. /\ x \in Seq(Name) \ {Root} /\ src \o x \in job'.todo /\ IsDir(tree', src \o x)
          /\ IsPrefix(src \o x, dst \o Parent(x))
        BY <1>2, <2>1, <2>2, <2>3, <2>4, <2>5, <2>7
    <2>9. Endless'
        BY <1>1, <1>2, <1>6, <2>8 DEF Endless
    <2> QED
        BY <2>9 DEF CopySound
  <1>7. CASE ~IsPrefix(src, dst)
    <2> DEFINE was == Detached(tree, src)
    <2>1. /\ Grove(was) /\ \A r : r \in DOMAIN was <=> r \in Seq(Name) /\ src \o r \in DOMAIN tree
          /\ \A r \in DOMAIN was : was[r] = tree[src \o r]
        BY <1>1, <1>4, DetachedIs
    <2>2. ~IsPrefix(dst, src)
        BY <1>1, <1>4, Closed DEF IsDir
    <2>3. \A q \in DOMAIN tree' : IsPrefix(src, q) => q \in DOMAIN tree
        BY <1>1, <1>3, <1>7, PrefixOrder
    <2>4. Detached(tree', src) = was
        BY <1>1, <1>3, <1>4, <2>3, DetachedSame
    <2> HIDE DEF was
    <2>5. Root \in DOMAIN was /\ was[Root] = Dir
      <3>1. src \o Root = src /\ Root \in DOMAIN was
          BY <1>1, <2>1, BelowFacts, RootFacts DEF Grove
      <3> QED
          BY <1>3, <2>1, <3>1
    <2>6. ASSUME NEW q \in DOMAIN tree', IsPrefix(dst, q) PROVE Below(dst, q) \in DOMAIN was
      <3>1. q = dst
        <4>1. q \in DOMAIN tree => q = dst
            BY <1>1, <1>4, <2>6, Closed DEF IsDir
        <4> QED
            BY <1>1, <1>3, <2>6, <4>1, PrefixOrder
      <3>2. Below(dst, dst) = Root
        <4>1. dst \o Root = dst /\ Below(dst, dst \o Root) = Root
            BY <1>1, BelowFacts, RootFacts
        <4> QED
            BY <4>1
      <3> QED
          BY <2>5, <3>1, <3>2
    <2>7. ASSUME NEW r \in DOMAIN was PROVE Copied(r)' \/ Pending(r)'
      <3>1. CASE r = Root
        <4>1. dst \o Root = dst
            BY <1>1, BelowFacts, RootFacts
        <4>2. dst \o r \in DOMAIN tree' /\ tree'[dst \o r].data = was[r].data
            BY <1>3, <2>5, <3>1, <4>1 DEF IsDir
        <4> QED
            BY <1>2, <4>2 DEF Copied, was
      <3>2. CASE r # Root
        <4>1. r \in Seq(Name) /\ IsPrefix(Root, r)
            BY <2>1, PrefixOrder
        <4>2. PICK c \in Seq(Name) : Len(c) = Len(Root) + 1 /\ IsPrefix(c, r)
            BY <3>2, <4>1, OneFurther, RootFacts
        <4>3. c \in DOMAIN was
            BY <2>1, <4>1, <4>2, Closed DEF IsDir
        <4>4. src \o c \in DOMAIN tree' /\ IsPrefix(src, src \o c) /\ Len(src \o c) = Len(src) + 1
          <5>1. IsPrefix(src, src \o c) /\ Len(src \o c) = Len(src) + Len(c)
              BY <1>1, BelowFacts
          <5>2. Len(c) = 1
              BY <4>2, RootFacts
          <5> QED
              BY <1>3, <2>1, <4>3, <5>1, <5>2
        <4>5. src \o c \in job'.todo
            BY <1>2, <1>5, <4>4
        <4> QED
            BY <1>2, <4>2, <4>5 DEF Pending
      <3> QED
          BY <3>1, <3>2
    <2>8. Faithful'
        BY <1>1, <1>2, <1>3, <1>7, <2>2, <2>4, <2>6, <2>7 DEF Faithful, was
    <2> QED
        BY <2>8 DEF CopySound
  <1> QED
      BY <1>6, <1>7

LEMMA StepCopySound == Typed /\ CopySound /\ [Next]_vars => CopySound'
  <1> SUFFICES ASSUME Typed, CopySound, [Next]_vars PROVE CopySound'
      OBVIOUS
  <1>1. Accepting /\ UNCHANGED job => CopySound'
      BY DEF Accepting, CopySound
  <1>2. ASSUME NEW q \in Path, CopyDir(q) \/ CopyLeaf(q) PROVE CopySound'
    <2>1. ~Accepting
        BY <1>2, CopyAt DEF CopyDir, CopyLeaf
    <2>2. PICK x \in Seq(Name) : Visits(x)
        BY <1>2, DirVisits, LeafVisits
    <2> QED
        BY <2>1, <2>2, VisitsFaithful, VisitsEndless DEF CopySound
  <1>3. ASSUME CopyFail \/ CopyDone PROVE CopySound'
      BY <1>3 DEF CopyFail, CopyDone, CopySound, Accepting
  <1>4. ASSUME NEW p \in Path, NEW q \in Path, CopyBegin(p, q) PROVE CopySound'
      BY <1>4, BeginSound
  <1>5. ASSUME NEW p \in Path,
               \/ Mkdir(p) \/ UploadNew(p) \/ UploadOver(p)
               \/ \E q \in Path : CopyFile(p, q)
               \/ \E id \in 1..MaxTrash : Delete(p, id)
        PROVE  Accepting /\ UNCHANGED job
      BY <1>5 DEF Mkdir, UploadNew, UploadOver, CopyFile, Copyable, Delete
  <1>6. ASSUME NEW p \in Path, (\E n \in Name : Rename(p, n)) \/ (\E q \in Path : Move(p, q))
        PROVE  Accepting /\ UNCHANGED job
      BY <1>6, MovesDo DEF Moves
  <1>7. ASSUME NEW id \in 1..MaxTrash, Restore(id) \/ Purge(id) PROVE Accepting /\ UNCHANGED job
      BY <1>7 DEF Restore, Purge
  <1>8. CASE UNCHANGED vars
      BY <1>8 DEF vars, CopySound, Accepting, Faithful, Endless, Copied, Pending
  <1> QED
      BY <1>1, <1>2, <1>3, <1>4, <1>5, <1>6, <1>7, <1>8 DEF Next

\* A copy that reports success has copied what it found, of any size and in any
\* order, and the source is as it was; a copy of a directory into itself walks
\* what it makes and so never reports success.
THEOREM CopiesFaithful == Spec => CopyFaithful
  <1>1. Init => CopySound
      BY DEF Init, CopySound, Accepting
  <1>2. Typed /\ CopySound /\ [Next]_vars
        => [CopyDone => /\ SameContent(Detached(tree, job.dst), job.was)
                        /\ Detached(tree, job.src) = job.was]_vars
    <2>1. ASSUME Typed, CopySound, CopyDone
          PROVE  SameContent(Detached(tree, job.dst), job.was) /\ Detached(tree, job.src) = job.was
      <3>1. ~Accepting /\ job.todo = {}
          BY <2>1 DEF CopyDone
      <3>2. Faithful
          BY <2>1, <3>1 DEF CopySound, Endless
      <3> QED
          BY <2>1, <3>1, <3>2, FaithfulEnds
    <2> QED
        BY <2>1
  <1> QED
      BY <1>1, <1>2, InitTyped, StepTyped, StepCopySound, PTL DEF Spec, CopyFaithful
-----------------------------------------------------------------------------
(* What Clean computes.  The community modules' fold is a function over sets *)
(* of positions that is defined by its own values; that there is one is      *)
(* shown for the first n positions by the least n for which there is not.    *)

CleanStep(p, seg) == CASE seg = Dot -> p
                       [] seg = Up  -> IF p = Root THEN p ELSE Parent(p)
                       [] OTHER     -> Append(p, seg)

\* g folds CleanStep over sets of the first n positions of raw.
Folding(g, raw, n) == g = [s \in SUBSET (1..n) |->
                           IF s = {} THEN Root
                           ELSE LET x == Max(s) IN CleanStep(g[s \ {x}], raw[x])]

LEMMA MaxFacts ==
    ASSUME NEW n \in Nat, NEW s \in SUBSET (1..n), s # {}
    PROVE  Max(s) \in s /\ \A y \in s : y <= Max(s)
  <1> DEFINE T == {k \in Nat : \A y \in s : y <= k}
  <1>1. T \in SUBSET Nat /\ n \in T
      OBVIOUS
  <1>2. PICK m \in T : \A k \in T : m <= k
      BY <1>1, Least
  <1>3. m \in Nat /\ \A y \in s : y <= m /\ y \in Nat /\ 1 <= y
      OBVIOUS
  <1>4. m \in s
    <2> SUFFICES ASSUME m \notin s PROVE FALSE
        OBVIOUS
    <2>1. m - 1 \in Nat /\ \A y \in s : y <= m - 1
      <3> HIDE DEF T
      <3>1. PICK z \in s : 1 <= z /\ z <= m
          BY <1>3
      <3>2. \A y \in s : y # m
          OBVIOUS
      <3> QED
          BY <1>3, <3>1, <3>2
    <2>2. m - 1 \in T
        BY <2>1
    <2> HIDE DEF T
    <2> QED
        BY <1>2, <1>3, <2>2
  <1>5. \E x \in s : \A y \in s : x >= y
      BY <1>3, <1>4
  <1>6. Max(s) \in s /\ \A y \in s : Max(s) >= y
      BY <1>5 DEF Max
  <1> QED
      BY <1>3, <1>6

LEMMA OneMore ==
    ASSUME NEW raw, NEW n \in Nat, NEW g, Folding(g, raw, n)
    PROVE  \E h : Folding(h, raw, n + 1)
  <1> DEFINE h == [s \in SUBSET (1..n + 1) |->
                     IF n + 1 \in s THEN CleanStep(g[s \ {n + 1}], raw[n + 1]) ELSE g[s]]
  <1>1. ASSUME NEW s \in SUBSET (1..n + 1)
        PROVE  h[s] = IF s = {} THEN Root
                      ELSE LET x == Max(s) IN CleanStep(h[s \ {x}], raw[x])
    <2>1. CASE s = {}
      <3>1. {} \in SUBSET (1..n) /\ n + 1 \notin {}
          OBVIOUS
      <3> QED
          BY <2>1, <3>1 DEF Folding
    <2>2. CASE n + 1 \in s
      <3>1. Max(s) = n + 1
        <4>1. Max(s) \in s /\ n + 1 <= Max(s)
            BY <2>2, MaxFacts
        <4>2. Max(s) \in 1..n + 1
            BY <4>1
        <4> HIDE DEF h
        <4> QED
            BY <4>1, <4>2
      <3>2. /\ s \ {n + 1} \in SUBSET (1..n + 1) /\ n + 1 \notin s \ {n + 1}
          OBVIOUS
      <3>3. h[s] = CleanStep(g[s \ {n + 1}], raw[n + 1]) /\ h[s \ {n + 1}] = g[s \ {n + 1}]
          BY <2>2, <3>2
      <3> HIDE DEF h
      <3> QED
          BY <2>2, <3>1, <3>3
    <2>3. CASE s # {} /\ n + 1 \notin s
      <3>1. s \in SUBSET (1..n)
          BY <2>3
      <3>2. Max(s) \in s
          BY <2>3, <3>1, MaxFacts
      <3>3. s \ {Max(s)} \in SUBSET (1..n) /\ s \ {Max(s)} \in SUBSET (1..n + 1)
            /\ n + 1 \notin s \ {Max(s)}
          BY <2>3, <3>1
      <3>4. h[s] = g[s] /\ h[s \ {Max(s)}] = g[s \ {Max(s)}]
          BY <2>3, <3>3
      <3>5. g[s] = CleanStep(g[s \ {Max(s)}], raw[Max(s)])
          BY <2>3, <3>1 DEF Folding
      <3> HIDE DEF h
      <3> QED
          BY <2>3, <3>4, <3>5
    <2> QED
        BY <2>1, <2>2, <2>3
  <1>2. Folding(h, raw, n + 1)
    <2>1. h = [s \in SUBSET (1..n + 1) |-> h[s]]
        OBVIOUS
    <2> HIDE DEF h
    <2> QED
        BY <1>1, <2>1 DEF Folding
  <1> QED
      BY <1>2

LEMMA Foldable ==
    ASSUME NEW raw, NEW n \in Nat
    PROVE  \E g : Folding(g, raw, n)
  <1> DEFINE T == {k \in Nat : ~\E g : Folding(g, raw, k)}
  <1> SUFFICES ASSUME T # {} PROVE FALSE
      OBVIOUS
  <1>1. PICK m \in T : \A k \in T : m <= k
      BY Least
  <1>2. m # 0
    <2> DEFINE g == [s \in SUBSET (1..0) |-> Root]
    <2>1. \A s \in SUBSET (1..0) : s = {}
        OBVIOUS
    <2>2. Folding(g, raw, 0)
        BY <2>1 DEF Folding
    <2> QED
        BY <2>2
  <1>3. m - 1 \in Nat /\ m - 1 \notin T /\ (m - 1) + 1 = m
      BY <1>1, <1>2
  <1>4. PICK g : Folding(g, raw, m - 1)
      BY <1>3
  <1>5. \E h : Folding(h, raw, m)
      BY <1>3, <1>4, OneMore
  <1> QED
      BY <1>5

\* Clean takes the segments one by one, from the root: c[n] is where the first
\* n of them lead.
Leads(c, raw) == /\ c[0] = Root
                 /\ \A n \in 1..Len(raw) : c[n] = CleanStep(c[n - 1], raw[n])
                 /\ Clean(raw) = c[Len(raw)]

LEMMA CleanLeads ==
    ASSUME NEW raw \in Raw
    PROVE  \E c : Leads(c, raw)
  <1>1. Len(raw) \in Nat /\ DOMAIN raw = 1..Len(raw)
      BY LenProperties DEF Raw
  <1> DEFINE g == CHOOSE h : Folding(h, raw, Len(raw))
             c == [n \in 0..Len(raw) |-> g[1..n]]
  <1>2. Clean(raw) = g[1..Len(raw)]
    <2>1. Clean(raw) = (CHOOSE h : h = [s \in SUBSET DOMAIN raw |->
                           IF s = {} THEN Root
                           ELSE LET x == Max(s) IN CleanStep(h[s \ {x}], raw[x])])[DOMAIN raw]
        BY DEF Clean, FoldLeft, MapThenFoldSet, CleanStep
    <2> QED
        BY <1>1, <2>1 DEF Folding
  <1>3. Folding(g, raw, Len(raw))
      BY <1>1, Foldable
  <1> HIDE DEF g
  <1>4. c[0] = Root
    <2>1. 1..0 = {} /\ {} \in SUBSET (1..Len(raw))
        OBVIOUS
    <2>2. g[{}] = Root
        BY <1>3, <2>1 DEF Folding
    <2> QED
        BY <1>1, <2>1, <2>2
  <1>5. ASSUME NEW n \in 1..Len(raw) PROVE c[n] = CleanStep(c[n - 1], raw[n])
    <2>1. /\ n \in Nat /\ n \in 0..Len(raw) /\ n - 1 \in 0..Len(raw)
          /\ n \in 1..n /\ 1..n \in SUBSET (1..Len(raw))
      <3> HIDE DEF c
      <3> QED
          BY <1>1
    <2>2. Max(1..n) = n
      <3>1. 1..n \in SUBSET (1..n) /\ 1..n # {}
          BY <2>1
      <3>2. Max(1..n) \in 1..n /\ n <= Max(1..n)
          BY <2>1, <3>1, MaxFacts
      <3> QED
          BY <2>1, <3>2
    <2>3. (1..n) \ {n} = 1..n - 1
        BY <2>1
    <2>4. g[1..n] = CleanStep(g[(1..n) \ {Max(1..n)}], raw[Max(1..n)])
        BY <1>3, <2>1 DEF Folding
    <2>5. c[n] = g[1..n] /\ c[n - 1] = g[1..n - 1]
        BY <2>1
    <2> HIDE DEF c
    <2> QED
        BY <2>2, <2>3, <2>4, <2>5
  <1> HIDE DEF c
  <1>6. Clean(raw) = c[Len(raw)]
      BY <1>1, <1>2 DEF c
  <1> QED
      BY <1>4, <1>5, <1>6 DEF Leads

LEMMA RawFacts ==
    /\ Seq(Name) \subseteq Raw
    /\ \A raw \in Seq(Name) : Valid(raw) /\ Up \notin Range(raw)
    /\ \A raw \in Raw : /\ Len(raw) \in Nat
                        /\ Valid(raw) => \A n \in 1..Len(raw) : raw[n] \in Name \cup {Up, Dot}
  <1>1. Seq(Name) \subseteq Raw
      BY SeqMonotonic DEF Raw
  <1>2. ASSUME NEW raw \in Seq(Name) PROVE Valid(raw) /\ Up \notin Range(raw)
    <2>1. DOMAIN raw = 1..Len(raw) /\ \A n \in 1..Len(raw) : raw[n] \in Name
        BY LenProperties, ElementOfSeq
    <2> QED
        BY <2>1, PathConstants DEF PathConstants, Valid, Range
  <1>3. ASSUME NEW raw \in Raw, Valid(raw), NEW n \in 1..Len(raw) PROVE raw[n] \in Name \cup {Up, Dot}
    <2>1. DOMAIN raw = 1..Len(raw) /\ raw[n] \in Name \cup {Up, Dot, Foul}
        BY LenProperties, ElementOfSeq DEF Raw
    <2>2. raw[n] # Foul
        BY <1>3, <2>1 DEF Valid, Range
    <2> QED
        BY <2>1, <2>2
  <1>4. \A raw \in Raw : Len(raw) \in Nat
      BY LenProperties DEF Raw
  <1> QED
      BY <1>1, <1>2, <1>3, <1>4

\* A segment that is not foul takes a path to a path, at most one longer.
LEMMA CleanStepFacts ==
    ASSUME NEW p \in Seq(Name), NEW seg \in Name \cup {Up, Dot}
    PROVE  /\ CleanStep(p, seg) \in Seq(Name) /\ Len(CleanStep(p, seg)) <= Len(p) + 1
           /\ seg \in Name => CleanStep(p, seg) = Append(p, seg)
  <1>1. Len(p) \in Nat
      BY LenFacts
  <1>2. CASE seg \in Name
    <2>1. seg # Up /\ seg # Dot
        BY <1>2, PathConstants DEF PathConstants
    <2>2. CleanStep(p, seg) = Append(p, seg)
        BY <2>1 DEF CleanStep
    <2>3. Append(p, seg) \in Seq(Name) /\ Len(Append(p, seg)) = Len(p) + 1
        BY <1>2, AppendFacts
    <2> QED
        BY <1>1, <2>2, <2>3
  <1>3. CASE seg \notin Name
    <2>1. CleanStep(p, seg) = p \/ (p # Root /\ CleanStep(p, seg) = Parent(p))
      <3>1. CASE seg = Dot /\ seg = Up
          BY <3>1 DEF CleanStep
      <3>2. CASE seg = Dot /\ seg # Up
          BY <3>2 DEF CleanStep
      <3>3. CASE seg # Dot
          BY <1>3, <3>3 DEF CleanStep
      <3> QED
          BY <3>1, <3>2, <3>3
    <2>2. p # Root => Parent(p) \in Seq(Name) /\ Len(Parent(p)) = Len(p) - 1
        BY ParentFacts
    <2> QED
        BY <1>1, <1>3, <2>1, <2>2
  <1> QED
      BY <1>2, <1>3

LEMMA CleanIsPath ==
    ASSUME NEW raw \in Raw, Valid(raw)
    PROVE  Clean(raw) \in Seq(Name) /\ Len(Clean(raw)) <= Len(raw)
  <1>1. Len(raw) \in Nat /\ \A n \in 1..Len(raw) : raw[n] \in Name \cup {Up, Dot}
      BY RawFacts
  <1>2. PICK c : Leads(c, raw)
      BY CleanLeads
  <1> DEFINE T == {n \in 0..Len(raw) : ~(c[n] \in Seq(Name) /\ Len(c[n]) <= n)}
  <1>3. T = {}
    <2> SUFFICES ASSUME T # {} PROVE FALSE
        OBVIOUS
    <2>1. T \in SUBSET Nat
        BY <1>1
    <2>2. PICK m \in T : \A k \in T : m <= k
        BY <2>1, Least
    <2>3. m # 0
      <3>1. c[0] \in Seq(Name) /\ Len(c[0]) <= 0
        <4>1. c[0] = Root
            BY <1>2 DEF Leads
        <4>2. Root \in Seq(Name) /\ Len(Root) = 0
            BY RootFacts
        <4> QED
            BY <4>1, <4>2
      <3>2. 0 \notin T
          BY <3>1
      <3> QED
          BY <3>2
    <2>4. m \in 1..Len(raw) /\ m - 1 \in 0..Len(raw) /\ m - 1 \notin T
      <3>1. m \in 0..Len(raw)
          OBVIOUS
      <3> HIDE DEF T
      <3> QED
          BY <1>1, <2>2, <2>3, <3>1
    <2>5. c[m - 1] \in Seq(Name) /\ Len(c[m - 1]) <= m - 1
        BY <2>4
    <2>6. c[m] = CleanStep(c[m - 1], raw[m]) /\ raw[m] \in Name \cup {Up, Dot}
        BY <1>1, <1>2, <2>4 DEF Leads
    <2>7. c[m] \in Seq(Name) /\ Len(c[m]) <= Len(c[m - 1]) + 1
        BY <2>5, <2>6, CleanStepFacts
    <2>8. Len(c[m]) <= m
      <3>1. Len(c[m - 1]) \in Nat /\ Len(c[m]) \in Nat /\ m \in Nat
          BY <2>1, <2>5, <2>7, LenFacts
      <3> QED
          BY <2>5, <2>7, <3>1
    <2> QED
        BY <2>7, <2>8
  <1>4. Len(raw) \in 0..Len(raw) /\ Len(raw) \notin T
      BY <1>1, <1>3
  <1>5. c[Len(raw)] \in Seq(Name) /\ Len(c[Len(raw)]) <= Len(raw)
      BY <1>4
  <1> QED
      BY <1>2, <1>5 DEF Leads

LEMMA CleanIsItself ==
    ASSUME NEW p \in Seq(Name)
    PROVE  Clean(p) = p
  <1>1. Len(p) \in Nat /\ p \in Raw /\ \A n \in 1..Len(p) : p[n] \in Name
      BY LenFacts, RawFacts
  <1>2. PICK c : Leads(c, p)
      BY <1>1, CleanLeads
  <1> DEFINE T == {n \in 0..Len(p) : c[n] # SubSeq(p, 1, n)}
  <1>3. T = {}
    <2> SUFFICES ASSUME T # {} PROVE FALSE
        OBVIOUS
    <2>1. T \in SUBSET Nat
        BY <1>1
    <2>2. PICK m \in T : \A k \in T : m <= k
        BY <2>1, Least
    <2>3. m # 0
      <3>1. SubSeq(p, 1, 0) = Root
          BY SubSeqEmpty DEF Root
      <3> QED
          BY <1>2, <3>1 DEF Leads
    <2>4. m \in 1..Len(p) /\ m - 1 \in 0..Len(p) /\ m \in 0..Len(p) /\ m - 1 \notin T /\ m \in Nat
      <3>1. m \in 0..Len(p)
          OBVIOUS
      <3> HIDE DEF T
      <3> QED
          BY <1>1, <2>2, <2>3, <3>1
    <2> DEFINE a == SubSeq(p, 1, m - 1)
               b == SubSeq(p, 1, m)
    <2>5. /\ a \in Seq(Name) /\ Len(a) = m - 1 /\ \A i \in 1..m - 1 : a[i] = p[i]
          /\ b \in Seq(Name) /\ Len(b) = m /\ \A i \in 1..m : b[i] = p[i]
      <3>1. a \in Seq(Name) /\ Len(a) = m - 1 /\ \A i \in 1..m - 1 : a[i] = p[i]
          BY <2>4, CutFacts
      <3>2. b \in Seq(Name) /\ Len(b) = m /\ \A i \in 1..m : b[i] = p[i]
          BY <2>4, CutFacts
      <3> QED
          BY <3>1, <3>2
    <2>6. c[m] = CleanStep(c[m - 1], p[m]) /\ p[m] \in Name /\ c[m - 1] = a
        BY <1>1, <1>2, <2>4 DEF Leads
    <2> HIDE DEF a, b
    <2>7. c[m] = Append(a, p[m])
        BY <2>5, <2>6, CleanStepFacts
    <2>8. Append(a, p[m]) = b
      <3> DEFINE d == Append(a, p[m])
      <3>1. /\ d \in Seq(Name) /\ Len(d) = m /\ d[m] = p[m]
            /\ \A i \in 1..m - 1 : d[i] = a[i]
          BY <2>4, <2>5, <2>6
      <3> HIDE DEF d
      <3>2. \A i \in 1..m : d[i] = b[i]
        <4>1. \A i \in 1..m : i = m \/ i \in 1..m - 1
            BY <2>4
        <4> QED
            BY <2>4, <2>5, <3>1, <4>1
      <3>3. d = b
          BY <2>5, <3>1, <3>2, SeqEqual
      <3> QED
          BY <3>3 DEF d
    <2>9. c[m] = SubSeq(p, 1, m)
        BY <2>7, <2>8 DEF b
    <2> QED
        BY <2>9
  <1>4. Len(p) \in 0..Len(p) /\ Len(p) \notin T
      BY <1>1, <1>3
  <1>5. c[Len(p)] = SubSeq(p, 1, Len(p))
      BY <1>4
  <1> QED
      BY <1>2, <1>5, SubSeqFull DEF Leads

\* What ValidateRel makes of any raw path, however many ".." it has and wherever:
\* a path of names below the root, which cleaning again does not change.
THEOREM CleanPaths ==
    \A raw \in Raw : Valid(raw) =>
      /\ Clean(raw) \in Seq(Name) /\ Len(Clean(raw)) <= Len(raw)
      /\ Clean(Clean(raw)) = Clean(raw)
  BY CleanIsPath, CleanIsItself

\* No query leads out of a share (shareTarget), by `path` or by `sub`, whatever
\* its segments and however long it and the share's own path are.
THEOREM VisitsStayInside ==
    \A share \in Seq(Name), raw \in Raw :
      \A target \in {TargetOfPath(share, raw), TargetOfSub(share, raw)} :
        target = Nowhere \/ (target \in Seq(Name) /\ IsPrefix(share, target))
  <1> SUFFICES ASSUME NEW share \in Seq(Name), NEW raw \in Raw
               PROVE  \A target \in {TargetOfPath(share, raw), TargetOfSub(share, raw)} :
                        target = Nowhere \/ (target \in Seq(Name) /\ IsPrefix(share, target))
      OBVIOUS
  <1>1. CASE ~Valid(raw) \/ Up \in Range(raw)
      BY <1>1 DEF TargetOfPath, TargetOfSub
  <1>2. CASE Valid(raw) /\ Up \notin Range(raw)
    <2> DEFINE p == Clean(raw)
    <2>1. p \in Seq(Name)
        BY <1>2, CleanIsPath
    <2>2. TargetOfPath(share, raw) = IF IsPrefix(share, p) THEN p ELSE Nowhere
        BY <1>2 DEF TargetOfPath
    <2>3. TargetOfSub(share, raw) = IF IsPrefix(share, p) THEN p ELSE share \o p
        BY <1>2 DEF TargetOfSub
    <2> HIDE DEF p
    <2>4. share \o p \in Seq(Name) /\ IsPrefix(share, share \o p)
        BY <2>1, BelowFacts
    <2> QED
        BY <2>1, <2>2, <2>3, <2>4
  <1> QED
      BY <1>1, <1>2

\* The page of a shared directory links by the path under the share to what it
\* lists, except where that path begins with the share's own, which shareTarget
\* takes for a full path; a full path given as `path` always leads there.
THEOREM LinksReach ==
    \A share, rel \in Seq(Name) \ {Root} :
      /\ TargetOfSub(share, Link(share, share \o rel)) = share \o rel <=> ~IsPrefix(share, rel)
      /\ TargetOfPath(share, share \o rel) = share \o rel
  <1> SUFFICES ASSUME NEW share \in Seq(Name) \ {Root}, NEW rel \in Seq(Name) \ {Root}
               PROVE  /\ TargetOfSub(share, Link(share, share \o rel)) = share \o rel
                           <=> ~IsPrefix(share, rel)
                      /\ TargetOfPath(share, share \o rel) = share \o rel
      OBVIOUS
  <1> DEFINE q == share \o rel
  <1>1. /\ q \in Seq(Name) /\ Len(q) = Len(share) + Len(rel) /\ IsPrefix(share, q)
        /\ Below(share, q) = rel
      BY BelowFacts
  <1>2. Clean(rel) = rel /\ Valid(rel) /\ Up \notin Range(rel)
      BY CleanIsItself, RawFacts
  <1>3. Clean(q) = q /\ Valid(q) /\ Up \notin Range(q)
      BY <1>1, CleanIsItself, RawFacts
  <1>4. rel # q
    <2>1. Len(share) \in Nat /\ Len(rel) \in Nat /\ Len(share) # 0
        BY LenFacts, RootFacts
    <2> QED
        BY <1>1, <2>1
  <1>5. TargetOfSub(share, Link(share, q)) = IF IsPrefix(share, rel) THEN rel ELSE q
      BY <1>1, <1>2 DEF TargetOfSub, Link
  <1>6. TargetOfPath(share, q) = q
      BY <1>1, <1>3 DEF TargetOfPath
  <1> QED
      BY <1>4, <1>5, <1>6
=============================================================================
