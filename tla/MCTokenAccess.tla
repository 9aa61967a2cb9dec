--------------------------- MODULE MCTokenAccess ---------------------------
(***************************************************************************)
(* TokenAccess for TLC.  Processes, relying parties and keys are           *)
(* interchangeable.                                                        *)
(***************************************************************************)
EXTENDS TokenAccess, TLC

Symmetry == Permutations(Servers) \cup Permutations(Keys)
=============================================================================
