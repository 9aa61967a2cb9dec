---------------------------- MODULE MCTokenStore ----------------------------
(***************************************************************************)
(* TokenStore for TLC.  Users and request slots are interchangeable; no    *)
(* property of the symmetric runs is a liveness property.                  *)
(***************************************************************************)
EXTENDS TokenStore, TLC

Symmetry == Permutations(Users) \cup Permutations(Procs)

(***************************************************************************)
(* Run tokens follows two scenarios to their end.  They are told apart by  *)
(* counters that only grow, and a state outside both is checked too.       *)
(***************************************************************************)

\* One login of one user, refreshed twice, around the expiry of its tokens; time
\* goes on to their removal after one refresh.
OneLogin ==
    /\ nextDevice <= 2 /\ nextLogin <= 2
    /\ nextLogin = 2 => \A p \in Procs : call[p].at \notin LoginSteps
    /\ now < 2 \/ nextGrant <= 3

\* Logins of two users in one browser, on two device sessions.
TwoLogins == now = 0 /\ nextGrant <= 2

Scenario == OneLogin \/ TwoLogins
=============================================================================
