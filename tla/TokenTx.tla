------------------------------ MODULE TokenTx ------------------------------
(***************************************************************************)
(* The transactions of identity-service on one user's and one client's     *)
(* grants, statement by statement, as PostgreSQL runs them at READ         *)
(* COMMITTED: a statement sees the rows committed when it starts, a write  *)
(* locks its row until the transaction ends, and one that has waited for a *)
(* row goes on with the row's newest version, or skips it if it is gone.   *)
(*                                                                         *)
(* refresh, access and revoked hold committed rows; what a transaction has *)
(* written so far is in tx[p] and takes effect at its commit.              *)
(***************************************************************************)
EXTENDS Naturals, FiniteSets

CONSTANTS
    Devices,    \* device sessions of the user
    Procs,      \* database connections
    MaxGrants,  \* bound: grants issued
    Kinds       \* the transactions that run

ASSUME TokenTxAssumption ==
    /\ MaxGrants \in Nat
    /\ IsFiniteSet(Procs)
    /\ Kinds \subseteq {"exchange", "rotate", "revoke", "logout"}

VARIABLES
    refresh,  \* table refresh_tokens, committed rows
    access,   \* table tokens, committed ids
    revoked,  \* table device_sessions: revoked_at IS NOT NULL, committed
    locks,    \* row locks held
    tx,       \* tx[p]: the transaction on connection p, at its next statement
    next,     \* the next ULID
    issued,   \* history: the ids ever committed
    since     \* history: since[p] ids committed since the logout on p began

tables  == <<refresh, access, revoked>>
history == <<issued, since>>
vars    == <<tables, locks, tx, next, history>>

Idle == [at |-> "idle"]

Row == [id : Nat, ds : Devices, family : Nat]

\* CreateAccessAndRefresh: the id it issues, the id it replaces (0 for a code
\* exchange), the row it has read (seen, {} if none) and the row it inserts.
GrantTx  == [at : {"select", "deleteAccess", "deleteRefresh", "insert"},
             id : Nat, token : Nat, seen : SUBSET Row]
InsertTx == [at : {"touch", "commitGrant"}, token : Nat, new : Row]
Refresh(id) == <<"refresh", id>>
Access(id)  == <<"access", id>>
Device(d)   == <<"device", d>>
RowKey      == ({"refresh", "access"} \X Nat) \cup ({"device"} \X Devices)
Lock        == [row : RowKey, by : Procs]

\* RevokeByID and DeleteByUserAndClient: the rows the running DELETE has still
\* to visit, and the ones deleted so far.
RevokeTx == [at : {"mark", "scan", "deleteRows"}, ds : Devices, todo : SUBSET Nat,
             gone : SUBSET RowKey]
LogoutTx == [at : {"scanRefresh", "deleteRefreshRows", "deleteAccessRows"},
             todo : SUBSET Nat, gone : SUBSET RowKey]

TypeOK ==
    /\ refresh \subseteq Row
    /\ access \subseteq Nat
    /\ revoked \subseteq Devices
    /\ locks \subseteq Lock
    /\ tx \in [Procs -> {Idle} \cup GrantTx \cup InsertTx \cup RevokeTx \cup LogoutTx]
    /\ next \in Nat \ {0}
    /\ issued \subseteq Nat
    /\ since \in [Procs -> SUBSET Nat]

Init ==
    /\ refresh = {}
    /\ access = {}
    /\ revoked = {}
    /\ locks = {}
    /\ tx = [p \in Procs |-> Idle]
    /\ next = 1
    /\ issued = {}
    /\ since = [p \in Procs |-> {}]

RefreshIds == {r.id : r \in refresh}

\* Row locks: taken by a write, kept to the end of the transaction.
Available(p, row) == \A l \in locks : l.row = row => l.by = p
Take(p, row) == Available(p, row) /\ locks' = locks \cup {[row |-> row, by |-> p]}
Release(p) == locks' = {l \in locks : l.by # p}
Finish(p) == Release(p) /\ tx' = [tx EXCEPT ![p] = Idle]

LoggingOut(p) == tx[p].at \in {"scanRefresh", "deleteRefreshRows", "deleteAccessRows"}

Goto(p, s) == tx' = [tx EXCEPT ![p].at = s]

-----------------------------------------------------------------------------
(***************************************************************************)
(* CreateAccessAndRefresh.                                                 *)
(***************************************************************************)
BeginExchange(p) ==
    /\ "exchange" \in Kinds
    /\ tx[p] = Idle
    /\ next <= MaxGrants
    /\ next' = next + 1
    /\ tx' = [tx EXCEPT ![p] = [at |-> "insert", id |-> next, token |-> 0, seen |-> {}]]
    /\ UNCHANGED <<tables, locks, history>>

\* The handler has read the refresh token and minted the id of the new one;
\* its transaction comes later.
BeginRotate(p) ==
    /\ "rotate" \in Kinds
    /\ tx[p] = Idle
    /\ next <= MaxGrants
    /\ next' = next + 1
    /\ \E r \in refresh :
          tx' = [tx EXCEPT ![p] = [at |-> "select", id |-> next, token |-> r.id, seen |-> {}]]
    /\ UNCHANGED <<tables, locks, history>>

\* SELECT access_token_id, device_session_id: no lock, no row is no error.
SelectOld(p) ==
    /\ tx[p].at = "select"
    /\ tx' = [tx EXCEPT ![p] = [@ EXCEPT !.at = "deleteAccess",
                                !.seen = {r \in refresh : r.id = tx[p].token}]]
    /\ UNCHANGED <<tables, locks, next, history>>

\* DELETE FROM tokens: only if a row was read and its access token exists.
DeleteAccess(p) ==
    /\ tx[p].at = "deleteAccess"
    /\ IF tx[p].seen # {} /\ tx[p].token \in access
       THEN Take(p, Access(tx[p].token))
       ELSE UNCHANGED locks
    /\ Goto(p, "deleteRefresh")
    /\ UNCHANGED <<tables, next, history>>

\* A return on "no row affected" without the Rollback.
DeleteRefreshAndLeak(p) ==
    /\ tx[p].at = "deleteRefresh"
    /\ IF tx[p].token \in RefreshIds
       THEN Take(p, Refresh(tx[p].token)) /\ Goto(p, "insert")
       ELSE tx' = [tx EXCEPT ![p] = Idle] /\ UNCHANGED locks
    /\ UNCHANGED <<tables, next, history>>

\* DELETE FROM refresh_tokens: no row affected ends the transaction.
DeleteRefresh(p) ==
    /\ tx[p].at = "deleteRefresh"
    /\ IF tx[p].token \in RefreshIds
       THEN Take(p, Refresh(tx[p].token)) /\ Goto(p, "insert")
       ELSE Finish(p)
    /\ UNCHANGED <<tables, next, history>>

\* The two INSERTs.  Their foreign keys take a KEY SHARE lock on the device
\* session, which no UPDATE of it conflicts with.
Insert(p) ==
    LET q == tx[p]
        new(ds, family) == [id |-> q.id, ds |-> ds, family |-> family]
        rows == IF q.token = 0 THEN {new(d, q.id) : d \in Devices}
                ELSE {new(r.ds, r.family) : r \in q.seen}
    IN /\ q.at = "insert"
       /\ \E row \in rows :
             tx' = [tx EXCEPT ![p] = [at |-> "touch", token |-> q.token, new |-> row]]
       /\ UNCHANGED <<tables, locks, next, history>>

\* A transaction that does not touch the device session it issues for.
TouchNothing(p) ==
    /\ tx[p].at = "touch"
    /\ Goto(p, "commitGrant")
    /\ UNCHANGED <<tables, locks, next, history>>

\* UPDATE device_sessions SET last_used_at: waits for a revocation of the
\* session that has not committed yet.
Touch(p) ==
    /\ tx[p].at = "touch"
    /\ Take(p, Device(tx[p].new.ds))
    /\ Goto(p, "commitGrant")
    /\ UNCHANGED <<tables, next, history>>

CommitGrant(p) ==
    LET new == tx[p].new IN
    /\ tx[p].at = "commitGrant"
    /\ refresh' = {r \in refresh : r.id # tx[p].token} \cup {new}
    /\ access' = (access \ {tx[p].token}) \cup {new.id}
    /\ issued' = issued \cup {new.id}
    /\ since' = [q \in Procs |-> IF LoggingOut(q) THEN since[q] \cup {new.id} ELSE {}]
    /\ Finish(p)
    /\ UNCHANGED <<revoked, next>>

-----------------------------------------------------------------------------
(***************************************************************************)
(* RevokeByID.                                                             *)
(***************************************************************************)
BeginRevoke(p) ==
    /\ "revoke" \in Kinds
    /\ tx[p] = Idle
    /\ \E d \in Devices :
          tx' = [tx EXCEPT ![p] = [at |-> "mark", ds |-> d, todo |-> {}, gone |-> {}]]
    /\ UNCHANGED <<tables, locks, next, history>>

\* UPDATE ... WHERE revoked_at IS NULL: no row affected ends the transaction.
Mark(p) ==
    /\ tx[p].at = "mark"
    /\ Available(p, Device(tx[p].ds))
    /\ IF tx[p].ds \in revoked THEN Finish(p)
       ELSE Take(p, Device(tx[p].ds)) /\ Goto(p, "scan")
    /\ UNCHANGED <<tables, next, history>>

\* The DELETE starts: the rows of the session that are committed now.
Scan(p) ==
    /\ tx[p].at = "scan"
    /\ tx' = [tx EXCEPT ![p] = [@ EXCEPT !.at = "deleteRows",
                 !.todo = {r.id : r \in {x \in refresh : x.ds = tx[p].ds}}]]
    /\ UNCHANGED <<tables, locks, next, history>>

\* One row: wait for its lock, then delete it, or skip it if it is gone.
DeleteRow(p, rows, kind) ==
    \E id \in tx[p].todo :
        /\ tx' = [tx EXCEPT ![p] = [tx[p] EXCEPT !.todo = @ \ {id},
                       !.gone = IF id \in rows THEN @ \cup {<<kind, id>>} ELSE @]]
        /\ IF id \in rows THEN Take(p, <<kind, id>>) ELSE UNCHANGED locks
        /\ UNCHANGED <<tables, next, history>>

DeleteSessionRow(p) == tx[p].at = "deleteRows" /\ DeleteRow(p, RefreshIds, "refresh")

CommitRevoke(p) ==
    /\ tx[p].at = "deleteRows"
    /\ tx[p].todo = {}
    /\ revoked' = revoked \cup {tx[p].ds}
    /\ refresh' = {r \in refresh : Refresh(r.id) \notin tx[p].gone}
    /\ Finish(p)
    /\ UNCHANGED <<access, next, history>>

-----------------------------------------------------------------------------
(***************************************************************************)
(* DeleteByUserAndClient (logout): no lock on a device session.            *)
(***************************************************************************)
BeginLogout(p) ==
    /\ "logout" \in Kinds
    /\ tx[p] = Idle
    /\ tx' = [tx EXCEPT ![p] = [at |-> "scanRefresh", todo |-> {}, gone |-> {}]]
    /\ UNCHANGED <<tables, locks, next, history>>

ScanRefresh(p) ==
    /\ tx[p].at = "scanRefresh"
    /\ tx' = [tx EXCEPT ![p] = [@ EXCEPT !.at = "deleteRefreshRows", !.todo = RefreshIds]]
    /\ UNCHANGED <<tables, locks, next, history>>

DeleteRefreshRow(p) == tx[p].at = "deleteRefreshRows" /\ DeleteRow(p, RefreshIds, "refresh")

ScanAccess(p) ==
    /\ tx[p].at = "deleteRefreshRows"
    /\ tx[p].todo = {}
    /\ tx' = [tx EXCEPT ![p] = [@ EXCEPT !.at = "deleteAccessRows", !.todo = access]]
    /\ UNCHANGED <<tables, locks, next, history>>

DeleteAccessRow(p) == tx[p].at = "deleteAccessRows" /\ DeleteRow(p, access, "access")

CommitLogout(p) ==
    /\ tx[p].at = "deleteAccessRows"
    /\ tx[p].todo = {}
    /\ refresh' = {r \in refresh : Refresh(r.id) \notin tx[p].gone}
    /\ access' = {id \in access : Access(id) \notin tx[p].gone}
    /\ since' = [since EXCEPT ![p] = {}]
    /\ Finish(p)
    /\ UNCHANGED <<revoked, next, issued>>

-----------------------------------------------------------------------------
\* An error, a cancelled request, a lost connection or a deadlock ends a
\* transaction with nothing done.
Rollback(p) ==
    /\ tx[p] # Idle
    /\ since' = [since EXCEPT ![p] = {}]
    /\ Finish(p)
    /\ UNCHANGED <<tables, next, issued>>

\* The rows the next statement of p has to lock, and whether it waits.
Wanted(p) ==
    LET q == tx[p] IN
    CASE q.at = "deleteAccess"  -> {Access(q.token)}
      [] q.at = "deleteRefresh" -> {Refresh(q.token)}
      [] q.at = "touch"         -> {Device(q.new.ds)}
      [] q.at = "mark"          -> {Device(q.ds)}
      [] q.at \in {"deleteRows", "deleteRefreshRows"} -> {Refresh(id) : id \in q.todo}
      [] q.at = "deleteAccessRows" -> {Access(id) : id \in q.todo}
      [] OTHER -> {}

WaitsFor(p, q) ==
    /\ Wanted(p) # {}
    /\ \A row \in Wanted(p) : ~Available(p, row)
    /\ \E l \in locks : l.row \in Wanted(p) /\ l.by = q /\ q # p

\* Each of them waits for another one and is waited for: PostgreSQL ends one.
Deadlock(S) ==
    \A p \in S : (\E q \in S : WaitsFor(p, q)) /\ (\E q \in S : WaitsFor(q, p))

Begin(p) ==
    BeginExchange(p) \/ BeginRotate(p) \/ BeginRevoke(p) \/ BeginLogout(p)

Statement(p) ==
    \/ SelectOld(p) \/ DeleteAccess(p) \/ DeleteRefresh(p) \/ Insert(p)
    \/ Touch(p) \/ CommitGrant(p)
    \/ Mark(p) \/ Scan(p) \/ DeleteSessionRow(p) \/ CommitRevoke(p)
    \/ ScanRefresh(p) \/ DeleteRefreshRow(p)
    \/ ScanAccess(p) \/ DeleteAccessRow(p) \/ CommitLogout(p)

Next == \E p \in Procs : Begin(p) \/ Statement(p) \/ Rollback(p)

Spec == Init /\ [][Next]_vars

-----------------------------------------------------------------------------
(***************************************************************************)
(* Properties.                                                             *)
(***************************************************************************)

\* The transactions are as good as atomic: a rotation, an exchange and a
\* revocation take effect at their commit, and a logout removes all that was
\* issued before it began (TokenTxAtomic).  In particular a rotation that runs
\* while its device session is revoked never leaves a refresh token behind:
\* the UPDATE of last_used_at makes it wait for the revocation.
Atomic == INSTANCE TokenTxAtomic WITH Ids <- 1..MaxGrants
ImplementsAtomic == Atomic!Spec

\* Nobody waits for ever, though rotation and revocation lock the same rows in
\* opposite orders, and so do rotation and logout: whoever waits for a row waits,
\* in the end, for a transaction that can go on or that is part of a deadlock.
\* (A lock outlives no early return: the deferred Rollback.)
NobodyWaitsForEver ==
    LET waits     == {e \in Procs \X Procs : WaitsFor(e[1], e[2])}
        goesOn(p) == tx[p] # Idle /\ \A e \in waits : e[1] # p
    IN \/ waits = {}
       \/ \A S \in SUBSET Procs :
             /\ \E e \in waits : e[1] \in S
             /\ \A e \in waits : e[1] \in S => e[2] \in S
             => \/ \E p \in S : goesOn(p)
                \/ \E D \in SUBSET S : D # {} /\ Deadlock(D)

\* What the proofs add.  Ids are minted once and issued once; a row has one lock,
\* whose holder runs.
Granting(p)  == tx[p].at \in {"select", "deleteAccess", "deleteRefresh", "insert"}
Inserting(p) == tx[p].at \in {"touch", "commitGrant"}
Deleting(p)  == tx[p].at \in {"mark", "scan", "deleteRows"} \/ LoggingOut(p)

\* The id p will issue, if it runs a grant.
Minted(p) == IF Granting(p) THEN {tx[p].id} ELSE IF Inserting(p) THEN {tx[p].new.id} ELSE {}

Locked(p, row) == [row |-> row, by |-> p] \in locks

IdsAreFresh ==
    /\ \A id \in issued : id \in 1..(next - 1)
    /\ \A p \in Procs : \A id \in Minted(p) :
          /\ id \in 1..MaxGrants /\ id < next /\ id \notin issued
          /\ \A q \in Procs \ {p} : id \notin Minted(q)

RowsAreIssued ==
    /\ \A r, s \in refresh : r.id = s.id => r = s
    /\ RefreshIds \subseteq issued
    /\ access \subseteq issued

LocksAreExclusive ==
    /\ \A l, m \in locks : l.row = m.row => l.by = m.by
    /\ \A l \in locks : tx[l.by] # Idle

\* A rotation that has deleted the row it read still finds it committed at its
\* commit, and a grant that is about to commit keeps revocations of its session out.
GrantConsistent(p) ==
    /\ Granting(p) =>
          IF tx[p].token = 0 THEN tx[p].at = "insert" ELSE tx[p].token \in issued
    /\ (Granting(p) /\ tx[p].at # "select") =>
          /\ \A r \in tx[p].seen : r.id = tx[p].token
          /\ \A r, s \in tx[p].seen : r = s
          /\ \A r \in refresh : r.id = tx[p].token => r \in tx[p].seen
    /\ (tx[p].at = "insert" /\ tx[p].token # 0) =>
          Locked(p, Refresh(tx[p].token)) /\ tx[p].token \in RefreshIds
    /\ Inserting(p) =>
          IF tx[p].token = 0 THEN tx[p].new.family = tx[p].new.id
          ELSE /\ Locked(p, Refresh(tx[p].token))
               /\ \E r \in refresh : /\ r.id = tx[p].token
                                     /\ r.ds = tx[p].new.ds /\ r.family = tx[p].new.family
    /\ tx[p].at = "commitGrant" => Locked(p, Device(tx[p].new.ds))

\* What is deleted is locked, and was committed.
DeleteConsistent(p) ==
    Deleting(p) =>
        /\ \A row \in tx[p].gone : Locked(p, row)
        /\ tx[p].todo \subseteq issued
        /\ tx[p].gone \subseteq {Refresh(id) : id \in issued} \cup {Access(id) : id \in issued}

\* A revocation has found the rows of its session, all of them and no others.
RevokeConsistent(p) ==
    /\ (tx[p].at \in {"mark", "scan"} => tx[p].gone = {})
    /\ tx[p].at \in {"scan", "deleteRows"} =>
          Locked(p, Device(tx[p].ds)) /\ tx[p].ds \notin revoked
    /\ tx[p].at = "deleteRows" =>
          \A r \in refresh :
              (r.ds = tx[p].ds) <=> (r.id \in tx[p].todo \/ Refresh(r.id) \in tx[p].gone)

\* What a logout has not found was issued after it began.
LogoutConsistent(p) ==
    /\ (~LoggingOut(p) => since[p] = {})
    /\ tx[p].at = "deleteRefreshRows" =>
          \A r \in refresh : \/ r.id \in tx[p].todo \cup since[p]
                             \/ Refresh(r.id) \in tx[p].gone
    /\ tx[p].at = "deleteAccessRows" =>
          /\ \A r \in refresh : (r.id \in since[p] \/ Refresh(r.id) \in tx[p].gone)
          /\ \A id \in access : \/ id \in tx[p].todo \cup since[p]
                                \/ Access(id) \in tx[p].gone

Consistent(p) ==
    GrantConsistent(p) /\ DeleteConsistent(p) /\ RevokeConsistent(p) /\ LogoutConsistent(p)

IInv ==
    /\ TypeOK
    /\ IdsAreFresh
    /\ RowsAreIssued
    /\ LocksAreExclusive
    /\ \A p \in Procs : Consistent(p)

(***************************************************************************)
(* Stated by the design notes, refuted by the code.                        *)
(***************************************************************************)

\* "Atomically deletes all tokens for a user-client pair"
\* (.llm/archive/008_OIDC_EVALUATION.md:243): the commit of a logout leaves no
\* refresh token of a login that had begun before it.
LogoutRemovesAllLogins ==
    [][\A p \in Procs :
          CommitLogout(p) => \A r \in refresh' : r.family \in since[p]]_vars
=============================================================================
