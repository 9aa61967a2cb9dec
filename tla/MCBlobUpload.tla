---------------------------- MODULE MCBlobUpload ----------------------------
(***************************************************************************)
(* BlobUpload for TLC.  Calls and blobs are interchangeable, and no        *)
(* property is a liveness property.                                        *)
(***************************************************************************)
EXTENDS BlobUpload, TLC

Symmetry == Permutations(Procs) \cup Permutations(Blobs)
=============================================================================
