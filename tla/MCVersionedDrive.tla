--------------------------- MODULE MCVersionedDrive ---------------------------
(* TLC instances of VersionedDrive.                                          *)
EXTENDS VersionedDrive, TLC

\* Paths are interchangeable: no definition tells one from another.
PathSymmetry == Permutations(Path)

=============================================================================
