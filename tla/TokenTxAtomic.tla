---------------------------- MODULE TokenTxAtomic ----------------------------
(***************************************************************************)
(* What the transactions of identity-service promise: each one takes       *)
(* effect at one instant.  Only a logout (end_session) promises less: it   *)
(* removes every grant issued before it began; one that is issued while it *)
(* runs may escape it.                                                     *)
(***************************************************************************)
CONSTANTS
    Devices,  \* device sessions of the user
    Procs,    \* who logs out
    Ids       \* ids of grants

VARIABLES
    refresh,  \* the refresh tokens: [id, ds, family]; an access token has its id
    access,   \* the ids of the access tokens
    revoked,  \* the device sessions that are revoked
    issued,   \* the ids ever issued
    since     \* since[p]: the ids issued since p's logout began, if one runs

vars == <<refresh, access, revoked, issued, since>>

Init ==
    /\ refresh = {}
    /\ access = {}
    /\ revoked = {}
    /\ issued = {}
    /\ since = [p \in Procs |-> {}]

Issue(id) ==
    /\ id \notin issued
    /\ issued' = issued \cup {id}
    /\ \E running \in SUBSET Procs :
          since' = [p \in Procs |-> IF p \in running THEN since[p] \cup {id}
                                                   ELSE since[p]]

\* A code exchange: a new family, on any device session.
Grant(new) ==
    /\ Issue(new.id)
    /\ new.family = new.id
    /\ refresh' = refresh \cup {new}
    /\ access' = access \cup {new.id}
    /\ UNCHANGED revoked

\* A refresh: the old pair is gone, the new one keeps session and family.
Rotate(old, new) ==
    /\ Issue(new.id)
    /\ new.ds = old.ds
    /\ new.family = old.family
    /\ refresh' = (refresh \ {old}) \cup {new}
    /\ access' = (access \ {old.id}) \cup {new.id}
    /\ UNCHANGED revoked

\* A revocation leaves no refresh token on the session.
Revoke(d) ==
    /\ d \notin revoked
    /\ revoked' = revoked \cup {d}
    /\ refresh' = {r \in refresh : r.ds # d}
    /\ UNCHANGED <<access, issued, since>>

\* A logout that begins or is given up.
ResetLogout(p) ==
    /\ since' = [since EXCEPT ![p] = {}]
    /\ UNCHANGED <<refresh, access, revoked, issued>>

Logout(p) ==
    /\ refresh' \subseteq {r \in refresh : r.id \in since[p]}
    /\ access' \subseteq access \cap since[p]
    /\ since' = [since EXCEPT ![p] = {}]
    /\ UNCHANGED <<revoked, issued>>

Next ==
    \/ \E id \in Ids, d \in Devices : Grant([id |-> id, ds |-> d, family |-> id])
    \/ \E old \in refresh, id \in Ids :
          Rotate(old, [id |-> id, ds |-> old.ds, family |-> old.family])
    \/ \E d \in Devices : Revoke(d)
    \/ \E p \in Procs : ResetLogout(p) \/ Logout(p)

Spec == Init /\ [][Next]_vars
=============================================================================
