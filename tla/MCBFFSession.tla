---------------------------- MODULE MCBFFSession ----------------------------
(***************************************************************************)
(* BFFSession for TLC.  Requests and states are interchangeable, and no    *)
(* property is a liveness property.                                        *)
(***************************************************************************)
EXTENDS BFFSession, TLC

Symmetry == Permutations(Procs) \cup Permutations(States)
=============================================================================
