------------------------------- MODULE MCAccounts -------------------------------
(***************************************************************************)
(* A small instance of Accounts for TLC.                                   *)
(***************************************************************************)
EXTENDS Accounts, TLC

\* Requests differ by nothing but their name.
CallSymmetry == Permutations(Calls)
=============================================================================
