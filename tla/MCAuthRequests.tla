--------------------------- MODULE MCAuthRequests ---------------------------
(***************************************************************************)
(* AuthRequests for TLC.  No symmetry is used: one property is a liveness  *)
(* property.                                                               *)
(***************************************************************************)
EXTENDS AuthRequests
=============================================================================
