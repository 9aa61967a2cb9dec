------------------------------- MODULE Logins -------------------------------
(***************************************************************************)
(* What identity-service promises a client about its logins, whatever its  *)
(* tables and transactions are: a login has a refresh token that is        *)
(* accepted, or none; each refresh takes the accepted one and gives one    *)
(* that was never issued before; a login that has ended stays ended.       *)
(*                                                                         *)
(* TokenStore implements it (its grants), and TokenAccess's access tokens  *)
(* follow it.  The identity-service that BFFSession refreshes at has these *)
(* steps.                                                                  *)
(***************************************************************************)
CONSTANTS
    Ids,      \* logins
    Tokens    \* the refresh tokens of a login

VARIABLES
    issued,   \* <<l, t>>: token t was issued for login l
    accepted  \* ... and a refresh with it will be accepted

vars == <<issued, accepted>>

Init ==
    /\ issued = {}
    /\ accepted = {}

\* A code is exchanged.
Begin(l, t) ==
    /\ \A x \in issued : x[1] # l
    /\ issued' = issued \cup {<<l, t>>}
    /\ accepted' = accepted \cup {<<l, t>>}

\* The token of x is replaced by t.
Refresh(x, t) ==
    /\ x \in accepted
    /\ <<x[1], t>> \notin issued
    /\ issued' = issued \cup {<<x[1], t>>}
    /\ accepted' = (accepted \ {x}) \cup {<<x[1], t>>}

\* Logins are revoked, logged out or expire.
End ==
    /\ accepted' \subseteq accepted
    /\ UNCHANGED issued

Next ==
    \/ \E l \in Ids, t \in Tokens : Begin(l, t)
    \/ \E x \in accepted, t \in Tokens : Refresh(x, t)
    \/ End

Spec == Init /\ [][Next]_vars

-----------------------------------------------------------------------------
(***************************************************************************)
(* What a client may rely on, whoever implements it.                       *)
(***************************************************************************)

\* A login has at most one token that is accepted, and it was issued for it.
OneToken ==
    /\ accepted \subseteq issued
    /\ \A x, y \in accepted : x[1] = y[1] => x = y

\* A login without a token that is accepted has ended, and gets none again.
EndedForEver ==
    [][\A x \in issued :
          (\A y \in accepted : y[1] # x[1]) => (\A y \in accepted' : y[1] # x[1])]_vars

\* A token that has stopped being accepted is never accepted again.
SpentForEver == [][\A x \in issued \ accepted : x \notin accepted']_vars
=============================================================================
