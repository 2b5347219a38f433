------------------------------- MODULE MCDriveTree -------------------------------
(* TLC instance of DriveTree, and checks of TreePaths over all short paths.  *)
EXTENDS DriveTree, TLC

\* Names are interchangeable.
NameSymmetry == Permutations(Name)

Query == UNION {[1..n -> Name \cup {Up, Dot, Foul}] : n \in 0..3}
Entry == UNION {[1..n -> Name] : n \in 1..3}

\* No query leads out of a share, by `path` or by `sub`, with ".." or without.
ASSUME SharesContain ==
    \A share \in Path, raw \in Query :
      \A target \in {TargetOfPath(share, raw), TargetOfSub(share, raw)} :
        target = Nowhere \/ IsPrefix(share, target)

\* The page of a shared directory links to what it lists - except below a
\* directory whose path under the share repeats the share's own, which
\* shareTarget takes for a full path.
ASSUME LinksLead ==
    \A share \in Path \ {Root}, rel \in Entry :
      (TargetOfSub(share, Link(share, share \o rel)) = share \o rel) = ~IsPrefix(share, rel)
=============================================================================
