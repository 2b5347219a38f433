-------------------------------- MODULE TreePaths --------------------------------
(***************************************************************************)
(* Logical paths and what the code computes from them: the cleaning of a   *)
(* raw path (fsdrv.go:ValidateRel), the reach of a LIKE pattern over the   *)
(* version index (store.go), and what a visitor of a share asked for       *)
(* (shares.go:shareTarget).  A path is the sequence of its segments; the   *)
(* root is the empty one.                                                  *)
(***************************************************************************)
EXTENDS Naturals, Sequences, SequencesExt

CONSTANTS
    Name,           \* file and directory names
    Up, Dot, Foul,  \* "..", "." or an empty segment, one with a NUL or a backslash
    MaxDepth        \* bound on the length of a path, the file system's own limit

ASSUME PathConstants ==
    /\ MaxDepth \in Nat
    /\ Name \cap {Up, Dot, Foul} = {}

Root == <<>>
Path == UNION {[1..n -> Name] : n \in 0..MaxDepth}
Raw  == Seq(Name \cup {Up, Dot, Foul})

Parent(p)       == SubSeq(p, 1, Len(p) - 1)
Below(p, q)     == SubSeq(q, Len(p) + 1, Len(q))    \* q from p on
Rebase(q, p, r) == r \o Below(p, q)
Ancestors(p)    == {SubSeq(p, 1, n) : n \in 0..Len(p) - 1}

\* path = p OR path LIKE 'p/%': LIKE takes names that differ only by case for
\* equal, and `=` does not.
Matches(twins, p, q) == q = p \/ (Len(q) > Len(p) /\ (twins \/ IsPrefix(p, q)))

-----------------------------------------------------------------------------
Valid(raw) == Foul \notin Range(raw)

\* filepath.Clean("/" + rel): ".." above the root stays at the root.
Clean(raw) ==
    LET step(p, seg) == CASE seg = Dot -> p
                          [] seg = Up  -> IF p = Root THEN p ELSE Parent(p)
                          [] OTHER     -> Append(p, seg)
    IN FoldLeft(step, Root, raw)

Nowhere == <<Up>>    \* "not part of this share"

\* A visitor names a full path or one relative to the share; `sub` may also
\* be a full path, as older clients send it.
TargetOfPath(share, raw) ==
    IF Up \notin Range(raw) /\ Valid(raw) /\ IsPrefix(share, Clean(raw))
    THEN Clean(raw) ELSE Nowhere

TargetOfSub(share, raw) ==
    IF Up \in Range(raw) \/ ~Valid(raw) THEN Nowhere
    ELSE IF IsPrefix(share, Clean(raw)) THEN Clean(raw) ELSE share \o Clean(raw)

\* The link a share's page shows for the entry q.
Link(share, q) == Below(share, q)
=============================================================================
