--------------------------------- MODULE Vault ---------------------------------
(***************************************************************************)
(* What a drive promises its user, without versions, locks, sidecars, the  *)
(* janitor or crashes: files at paths and files in a bin, changed one      *)
(* whole operation at a time.  VersionedDrive implements it.               *)
(***************************************************************************)
EXTENDS Naturals

CONSTANTS
    Path,      \* where a file may be
    TrashId,   \* the slots of the bin
    File,      \* the files: records with an item (who it is) and data
    Absent     \* no file; not a member of File

VARIABLES live, bin

Held == {live[p] : p \in Path} \cup {bin[t] : t \in TrashId}

Init ==
    /\ live = [p \in Path |-> Absent]
    /\ bin = [t \in TrashId |-> Absent]

\* A file nobody has seen appears where there was none.
Create(p, f) ==
    /\ live[p] = Absent
    /\ \A g \in Held : g.item # f.item
    /\ live' = [live EXCEPT ![p] = f]
    /\ UNCHANGED bin

\* New content, the same file.
Overwrite(p, f) ==
    /\ live[p] # Absent /\ live[p].item = f.item
    /\ live' = [live EXCEPT ![p] = f]
    /\ UNCHANGED bin

Rename(p, q) ==
    /\ live[p] # Absent /\ live[q] = Absent
    /\ live' = [live EXCEPT ![q] = live[p], ![p] = Absent]
    /\ UNCHANGED bin

Discard(p, t) ==
    /\ live[p] # Absent /\ bin[t] = Absent
    /\ live' = [live EXCEPT ![p] = Absent]
    /\ bin' = [bin EXCEPT ![t] = live[p]]

PutBack(t, p) ==
    /\ bin[t] # Absent /\ live[p] = Absent
    /\ live' = [live EXCEPT ![p] = bin[t]]
    /\ bin' = [bin EXCEPT ![t] = Absent]

\* The only step that destroys anything.
Destroy(t) ==
    /\ bin[t] # Absent
    /\ bin' = [bin EXCEPT ![t] = Absent]
    /\ UNCHANGED live

Next ==
    \/ \E p \in Path, f \in File : Create(p, f) \/ Overwrite(p, f)
    \/ \E p, q \in Path : Rename(p, q)
    \/ \E p \in Path, t \in TrashId : Discard(p, t) \/ PutBack(t, p)
    \/ \E t \in TrashId : Destroy(t)

Spec == Init /\ [][Next]_<<live, bin>>
=============================================================================
