-------------------------------- MODULE MCAccounts --------------------------------
(* The TLC instance of Accounts.                                             *)
EXTENDS Accounts, TLC

\* Requests are interchangeable.
ConnSymmetry == Permutations(Conn)
=============================================================================
