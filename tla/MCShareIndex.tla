------------------------------ MODULE MCShareIndex ------------------------------
(* The TLC instance of ShareIndex.                                           *)
EXTENDS ShareIndex
=============================================================================
