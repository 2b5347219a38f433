----------------------------- MODULE MCSyncEngine -----------------------------
(* TLC instances of SyncEngine.                                              *)
EXTENDS SyncEngine, TLC

\* Clients are interchangeable.
ClientSymmetry == Permutations(Client)

=============================================================================
