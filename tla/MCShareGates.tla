------------------------------ MODULE MCShareGates ------------------------------
(* The TLC instance of ShareGates.                                           *)
EXTENDS ShareGates, TLC

\* Shares, visitors and requests are interchangeable.
GateSymmetry == Permutations(Share) \cup Permutations(Visitor) \cup Permutations(Conn)
=============================================================================
