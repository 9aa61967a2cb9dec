----------------------------- MODULE MCTokenTx -----------------------------
(***************************************************************************)
(* TokenTx for TLC.  Connections and device sessions are interchangeable;  *)
(* the run that checks liveness does not use the symmetry.                 *)
(***************************************************************************)
EXTENDS TokenTx, TLC

Symmetry == Permutations(Procs) \cup Permutations(Devices)
=============================================================================
