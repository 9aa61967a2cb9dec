---------------------------- MODULE MCLifecycle ----------------------------
(***************************************************************************)
(* Lifecycle for TLC.  identity-service has one connection, or falls back  *)
(* to its default, or does not load; blob-service has no limit, or one.    *)
(***************************************************************************)
EXTENDS Lifecycle

Setting(idps, conns) == [complete |-> TRUE, idps |-> idps, conns |-> conns]

MCEnvironments ==
    { [identity |-> Setting({"google"}, 1), bff |-> Setting({}, Unset), blob |-> Setting({}, 0)],
      [identity |-> Setting({"github"}, 0), bff |-> Setting({}, Unset), blob |-> Setting({}, 1)],
      [identity |-> Setting({"github"}, 501), bff |-> Setting({}, Unset), blob |-> Setting({}, Junk)] }
=============================================================================
