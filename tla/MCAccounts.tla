----------------------------- MODULE MCAccounts -----------------------------
(***************************************************************************)
(* Accounts for TLC.  Sign-ins are interchangeable.                        *)
(***************************************************************************)
EXTENDS Accounts, TLC

Symmetry == Permutations(Procs)
=============================================================================
