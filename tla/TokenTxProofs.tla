--------------------------- MODULE TokenTxProofs ---------------------------
(***************************************************************************)
(* Proofs about TokenTx: at READ COMMITTED, with row locks alone, exchange,*)
(* rotation and revocation are atomic and a logout misses nothing that was *)
(* there when it began (TokenTxAtomic), and nobody waits for ever; for any *)
(* number of connections, device sessions and grants.                      *)
(***************************************************************************)
EXTENDS TokenTx, FiniteSetTheorems, TLAPS

LEMMA Constants == MaxGrants \in Nat /\ IsFiniteSet(Procs)
BY TokenTxAssumption

\* Row keys name one row each.
LEMMA RowKeys ==
    /\ \A i, j : Refresh(i) = Refresh(j) => i = j
    /\ \A i, j : Access(i) = Access(j) => i = j
    /\ \A d, e : Device(d) = Device(e) => d = e
    /\ \A i, j : Refresh(i) # Access(j) /\ Refresh(i) # Device(j) /\ Access(i) # Device(j)
    /\ \A i \in Nat : Refresh(i) \in RowKey /\ Access(i) \in RowKey
    /\ \A d \in Devices : Device(d) \in RowKey
BY DEF Refresh, Access, Device, RowKey

-----------------------------------------------------------------------------
(***************************************************************************)
(* The records of transactions.                                            *)
(***************************************************************************)

Tx == {Idle} \cup GrantTx \cup InsertTx \cup RevokeTx \cup LogoutTx

LEMMA IdleTx ==
    Idle.at = "idle" /\ Idle.at \notin {"select", "deleteAccess", "deleteRefresh", "insert",
        "touch", "commitGrant", "mark", "scan", "deleteRows",
        "scanRefresh", "deleteRefreshRows", "deleteAccessRows"}
BY DEF Idle

\* What a transaction record holds, by the statement it is at.
LEMMA TxFields ==
    ASSUME NEW c \in Tx
    PROVE  /\ (c.at \in {"select", "deleteAccess", "deleteRefresh", "insert"} =>
                  c \in GrantTx /\ c.id \in Nat /\ c.token \in Nat /\ c.seen \subseteq Row)
           /\ (c.at \in {"touch", "commitGrant"} =>
                  c \in InsertTx /\ c.token \in Nat /\ c.new \in Row)
           /\ (c.at \in {"mark", "scan", "deleteRows"} =>
                  c \in RevokeTx /\ c.ds \in Devices /\ c.todo \subseteq Nat /\ c.gone \subseteq RowKey)
           /\ (c.at \in {"scanRefresh", "deleteRefreshRows", "deleteAccessRows"} =>
                  c \in LogoutTx /\ c.todo \subseteq Nat /\ c.gone \subseteq RowKey)
           /\ (c.at = "idle" => c = Idle)
<1>1. CASE c = Idle
    BY <1>1, IdleTx
<1>2. CASE c \in GrantTx
    BY <1>2 DEF GrantTx
<1>3. CASE c \in InsertTx
    BY <1>3 DEF InsertTx
<1>4. CASE c \in RevokeTx
    BY <1>4 DEF RevokeTx
<1>5. CASE c \in LogoutTx
    BY <1>5 DEF LogoutTx
<1> QED
    BY <1>1, <1>2, <1>3, <1>4, <1>5 DEF Tx

LEMMA InitIInv == Init => IInv
<1> SUFFICES ASSUME Init PROVE IInv
    OBVIOUS
<1>1. \A p \in Procs : tx[p].at = "idle" /\ since[p] = {}
    BY IdleTx DEF Init
<1>2. TypeOK
    BY DEF Init, TypeOK
<1>3. IdsAreFresh
    BY <1>1 DEF Init, IdsAreFresh, Minted, Granting, Inserting
<1>4. RowsAreIssued /\ LocksAreExclusive
    BY DEF Init, RowsAreIssued, RefreshIds, LocksAreExclusive
<1>5. ASSUME NEW p \in Procs PROVE Consistent(p)
    BY <1>1
       DEF Consistent, GrantConsistent, DeleteConsistent, RevokeConsistent, LogoutConsistent,
           Granting, Inserting, Deleting, LoggingOut
<1> QED
    BY <1>2, <1>3, <1>4, <1>5 DEF IInv

-----------------------------------------------------------------------------
(***************************************************************************)
(* Statements: a transaction goes on, with a lock or without, and writes   *)
(* nothing that others see.                                                *)
(***************************************************************************)

\* Another transaction knows what it knew.
LEMMA OthersStay ==
    ASSUME NEW q \in Procs, Consistent(q), tx'[q] = tx[q], since'[q] = since[q],
           \A row : Locked(q, row) => Locked(q, row)',
           UNCHANGED <<refresh, access, revoked, issued>>
    PROVE  Consistent(q)'
<1>1. GrantConsistent(q)'
    BY DEF Consistent, GrantConsistent, Granting, Inserting, RefreshIds
<1>2. DeleteConsistent(q)'
    BY DEF Consistent, DeleteConsistent, Deleting, LoggingOut
<1>3. RevokeConsistent(q)'
    BY DEF Consistent, RevokeConsistent
<1>4. LogoutConsistent(q)'
    BY DEF Consistent, LogoutConsistent, LoggingOut
<1> QED
    BY <1>1, <1>2, <1>3, <1>4 DEF Consistent

\* A lock that is taken is nobody else's.
LEMMA TakeLock ==
    ASSUME IInv, NEW p \in Procs, NEW row \in RowKey, Take(p, row)
    PROVE  /\ locks' \subseteq Lock
           /\ locks \subseteq locks'
           /\ Locked(p, row)'
           /\ \A l \in locks' : l \in locks \/ l.by = p
           /\ \A l, m \in locks' : l.row = m.row => l.by = m.by
<1> DEFINE new == [row |-> row, by |-> p]
<1>1. locks' = locks \cup {new} /\ \A l \in locks : l.row = row => l.by = p
    BY DEF Take, Available
<1>2. new \in Lock /\ new.row = row /\ new.by = p
    BY DEF Lock
<1> HIDE DEF new
<1>3. locks' \subseteq Lock
    BY <1>1, <1>2 DEF IInv, TypeOK
<1>4. Locked(p, row)'
    BY <1>1 DEF Locked, new
<1> QED
    BY <1>1, <1>2, <1>3, <1>4 DEF IInv, LocksAreExclusive

LEMMA StatementStep ==
    ASSUME IInv, NEW p \in Procs, NEW d \in Tx, d # Idle, tx' = [tx EXCEPT ![p] = d],
           locks' = locks \/ \E row \in RowKey : Take(p, row),
           UNCHANGED <<refresh, access, revoked, issued, since>>,
           \/ Minted(p)' \subseteq Minted(p) /\ next' = next
           \/ Minted(p)' \subseteq {next} /\ next <= MaxGrants /\ next' = next + 1,
           Consistent(p)'
    PROVE  IInv'
<1>1. /\ tx'[p] = d
      /\ \A q \in Procs \ {p} : tx'[q] = tx[q]
      /\ tx' \in [Procs -> Tx]
    BY DEF IInv, TypeOK, Tx
<1>2. /\ locks' \subseteq Lock
      /\ locks \subseteq locks'
      /\ \A l \in locks' : l \in locks \/ l.by = p
      /\ \A l, m \in locks' : l.row = m.row => l.by = m.by
    <2>1. CASE locks' = locks
        BY <2>1 DEF IInv, TypeOK, LocksAreExclusive
    <2> QED
        BY <2>1, TakeLock
<1>3. next \in Nat \ {0} /\ next' \in Nat \ {0} /\ next <= next'
    BY DEF IInv, TypeOK
<1>4. TypeOK'
    BY <1>1, <1>2, <1>3 DEF IInv, TypeOK, Tx
<1>5. IdsAreFresh'
    <2>1. ASSUME NEW q \in Procs \ {p}
          PROVE  Minted(q)' = Minted(q)
        BY <1>1 DEF Minted, Granting, Inserting
    <2>2. \A id \in issued : id \in 1..(next - 1) /\ id \in 1..(next' - 1)
        <3>1. next \in Nat \ {0} /\ \A id \in issued : id \in 1..(next - 1)
            BY <1>3 DEF IInv, IdsAreFresh
        <3>2. \A m, n \in Nat : m <= n => \A id \in 1..(m - 1) : id \in 1..(n - 1)
            OBVIOUS
        <3> QED
            BY <1>3, <3>1, <3>2
    <2>3. ASSUME NEW id \in Minted(p)'
          PROVE  /\ id \in 1..MaxGrants /\ id < next' /\ id \notin issued
                 /\ \A q \in Procs \ {p} : id \notin Minted(q)
        <3>1. CASE id \in Minted(p)
            BY <1>3, <3>1 DEF IInv, IdsAreFresh
        <3>2. CASE id = next /\ next <= MaxGrants /\ next' = next + 1
            BY <1>3, <2>2, <3>2, Constants DEF IInv, IdsAreFresh
        <3> QED
            BY <2>3, <3>1, <3>2
    <2>4. ASSUME NEW q \in Procs \ {p}, NEW id \in Minted(q)
          PROVE  /\ id \in 1..MaxGrants /\ id < next' /\ id \notin issued
                 /\ \A r \in Procs \ {q} : id \notin Minted(r)'
        <3>1. id \in 1..MaxGrants /\ id < next /\ id \notin issued
            BY DEF IInv, IdsAreFresh
        <3>2. \A r \in Procs \ {q} : id \notin Minted(r)
            BY DEF IInv, IdsAreFresh
        <3>3. id \notin Minted(p)'
            BY <2>3
        <3> QED
            BY <1>3, <2>1, <3>1, <3>2, <3>3
    <2> QED
        BY <2>1, <2>2, <2>3, <2>4 DEF IdsAreFresh
<1>6. RowsAreIssued'
    BY DEF IInv, RowsAreIssued, RefreshIds
<1>7. LocksAreExclusive'
    <2>1. ASSUME NEW l \in locks'
          PROVE  tx'[l.by] # Idle
        <3>1. CASE l.by = p
            BY <1>1, <3>1
        <3>2. CASE l.by # p
            BY <1>1, <1>2, <3>2 DEF IInv, TypeOK, Lock, LocksAreExclusive
        <3> QED
            BY <3>1, <3>2
    <2> QED
        BY <1>2, <2>1 DEF LocksAreExclusive
<1>8. ASSUME NEW q \in Procs PROVE Consistent(q)'
    <2>1. CASE q # p
        <3>1. \A row : Locked(q, row) => Locked(q, row)'
            BY <1>2 DEF Locked
        <3> QED
            BY <1>1, <2>1, <3>1, OthersStay DEF IInv
    <2> QED
        BY <2>1
<1> QED
    BY <1>4, <1>5, <1>6, <1>7, <1>8 DEF IInv

\* A transaction ends with nothing done.
LEMMA FinishStep ==
    ASSUME IInv, NEW p \in Procs, Finish(p),
           UNCHANGED <<refresh, access, revoked, issued, next>>,
           since' = [since EXCEPT ![p] = {}]
    PROVE  IInv'
<1>1. /\ tx'[p] = Idle /\ tx'[p].at = "idle"
      /\ \A q \in Procs \ {p} : tx'[q] = tx[q]
      /\ tx' \in [Procs -> Tx]
    BY IdleTx DEF Finish, IInv, TypeOK, Tx
<1>2. locks' = {l \in locks : l.by # p}
    BY DEF Finish, Release
<1>3. /\ since'[p] = {} /\ since' \in [Procs -> SUBSET Nat]
      /\ \A q \in Procs \ {p} : since'[q] = since[q]
    BY DEF IInv, TypeOK
<1>4. TypeOK'
    BY <1>1, <1>2, <1>3 DEF IInv, TypeOK, Tx
<1>5. IdsAreFresh'
    <2>1. Minted(p)' = {} /\ \A q \in Procs \ {p} : Minted(q)' = Minted(q)
        BY <1>1 DEF Minted, Granting, Inserting
    <2> QED
        BY <2>1 DEF IInv, IdsAreFresh
<1>6. RowsAreIssued'
    BY DEF IInv, RowsAreIssued, RefreshIds
<1>7. LocksAreExclusive'
    BY <1>1, <1>2 DEF IInv, TypeOK, Lock, LocksAreExclusive
<1>8. ASSUME NEW q \in Procs PROVE Consistent(q)'
    <2>1. CASE q # p
        <3>1. \A row : Locked(q, row) => Locked(q, row)'
            BY <1>2, <2>1 DEF Locked
        <3> QED
            BY <1>1, <1>3, <2>1, <3>1, OthersStay DEF IInv
    <2>2. CASE q = p
        BY <1>1, <1>3, <2>2
           DEF Consistent, GrantConsistent, DeleteConsistent, RevokeConsistent,
               LogoutConsistent, Granting, Inserting, Deleting, LoggingOut
    <2> QED
        BY <2>1, <2>2
<1> QED
    BY <1>4, <1>5, <1>6, <1>7, <1>8 DEF IInv

\* ... one that is no logout had nothing to forget.
LEMMA NoLogout ==
    ASSUME IInv, NEW p \in Procs, ~LoggingOut(p), since' = since
    PROVE  since' = [since EXCEPT ![p] = {}]
<1>1. since[p] = {} /\ since \in [Procs -> SUBSET Nat]
    BY DEF IInv, TypeOK, Consistent, LogoutConsistent
<1> QED
    BY <1>1

\* What has to be shown of a transaction, by its kind.
LEMMA OnlyGrant ==
    ASSUME NEW p \in Procs, GrantConsistent(p)', since'[p] = {},
           tx'[p].at \in {"select", "deleteAccess", "deleteRefresh", "insert",
                          "touch", "commitGrant"}
    PROVE  Consistent(p)'
BY DEF Consistent, DeleteConsistent, RevokeConsistent, LogoutConsistent, Deleting, LoggingOut

LEMMA OnlyRevoke ==
    ASSUME NEW p \in Procs, DeleteConsistent(p)', RevokeConsistent(p)', since'[p] = {},
           tx'[p].at \in {"mark", "scan", "deleteRows"}
    PROVE  Consistent(p)'
BY DEF Consistent, GrantConsistent, LogoutConsistent, Granting, Inserting, LoggingOut

LEMMA OnlyLogout ==
    ASSUME NEW p \in Procs, DeleteConsistent(p)', LogoutConsistent(p)',
           tx'[p].at \in {"scanRefresh", "deleteRefreshRows", "deleteAccessRows"}
    PROVE  Consistent(p)'
BY DEF Consistent, GrantConsistent, RevokeConsistent, Granting, Inserting

\* What is known of a transaction.
LEMMA InTx ==
    ASSUME IInv, NEW p \in Procs
    PROVE  /\ tx[p] \in Tx /\ GrantConsistent(p) /\ DeleteConsistent(p)
           /\ RevokeConsistent(p) /\ LogoutConsistent(p)
           /\ (~LoggingOut(p) => since[p] = {})
BY DEF IInv, TypeOK, Tx, Consistent, LogoutConsistent

\* The ids of committed rows are not 0.
LEMMA IssuedIds ==
    ASSUME IInv
    PROVE  /\ \A id \in issued : id \in Nat /\ id # 0
           /\ \A r \in refresh : r \in Row /\ r.id \in issued
           /\ \A id \in access : id \in issued
<1>1. next \in Nat /\ \A id \in issued : id \in 1..(next - 1)
    BY DEF IInv, TypeOK, IdsAreFresh
<1>2. \A id \in issued : id \in Nat /\ id # 0
    BY <1>1
<1> QED
    BY <1>2 DEF IInv, TypeOK, RowsAreIssued, RefreshIds

-----------------------------------------------------------------------------
(***************************************************************************)
(* Exchange and rotation.                                                  *)
(***************************************************************************)

LEMMA BeginGrantStep ==
    ASSUME IInv, NEW p \in Procs, BeginExchange(p) \/ BeginRotate(p)
    PROVE  IInv'
<1>1. /\ tx[p] = Idle /\ next <= MaxGrants /\ next' = next + 1
      /\ UNCHANGED <<refresh, access, revoked, locks, issued, since>>
    BY DEF BeginExchange, BeginRotate, tables, history
<1>2. PICK step \in {"select", "insert"}, token \in Nat :
          /\ tx' = [tx EXCEPT ![p] = [at |-> step, id |-> next, token |-> token, seen |-> {}]]
          /\ (IF token = 0 THEN step = "insert" ELSE token \in issued)
          /\ (step = "insert" => token = 0)
    <2>1. CASE BeginExchange(p)
        BY <2>1 DEF BeginExchange
    <2>2. CASE BeginRotate(p)
        BY <2>2, IssuedIds DEF BeginRotate, Row
    <2> QED
        BY <2>1, <2>2
<1> DEFINE d == [at |-> step, id |-> next, token |-> token, seen |-> {}]
<1>3. /\ d \in Tx /\ d # Idle /\ d.at = step /\ d.id = next /\ d.token = token /\ d.seen = {}
      /\ tx' = [tx EXCEPT ![p] = d]
    <2>1. next \in Nat
        BY DEF IInv, TypeOK
    <2>2. d \in GrantTx
        BY <2>1 DEF GrantTx
    <2>3. d.at # "idle"
        OBVIOUS
    <2> QED
        BY <1>2, <2>2, <2>3, IdleTx DEF Tx
<1> HIDE DEF d
<1>4. tx'[p] = d
    BY <1>3 DEF IInv, TypeOK
<1>5. Minted(p)' \subseteq {next}
    BY <1>2, <1>3, <1>4 DEF Minted, Granting
<1>6. GrantConsistent(p)'
    <2>1. \A r \in refresh : r.id # 0
        BY IssuedIds
    <2> QED
        BY <1>1, <1>2, <1>3, <1>4, <2>1 DEF GrantConsistent, Granting, Inserting
<1>7. since'[p] = {}
    BY <1>1, InTx, IdleTx DEF LoggingOut
<1>8. Consistent(p)'
    BY <1>3, <1>4, <1>6, <1>7, OnlyGrant
<1> QED
    BY <1>1, <1>3, <1>5, <1>8, StatementStep

LEMMA SelectStep ==
    ASSUME IInv, NEW p \in Procs, SelectOld(p)
    PROVE  IInv'
<1> DEFINE rows == {r \in refresh : r.id = tx[p].token}
           d == [tx[p] EXCEPT !.at = "deleteAccess", !.seen = rows]
<1>1. /\ tx[p].at = "select" /\ tx' = [tx EXCEPT ![p] = d]
      /\ UNCHANGED <<refresh, access, revoked, locks, issued, since, next>>
    BY DEF SelectOld, tables, history
<1>2. tx[p] \in GrantTx /\ rows \subseteq Row
    BY <1>1, InTx, TxFields DEF IInv, TypeOK
<1>3. /\ d \in Tx /\ d # Idle /\ d.at = "deleteAccess" /\ d.seen = rows
      /\ d.id = tx[p].id /\ d.token = tx[p].token
    <2>1. d \in GrantTx /\ d.at = "deleteAccess" /\ d.seen = rows
          /\ d.id = tx[p].id /\ d.token = tx[p].token
        <3> HIDE DEF rows
        <3> QED
            BY <1>2 DEF GrantTx
    <2> QED
        BY <2>1, IdleTx DEF Tx
<1> HIDE DEF d
<1>4. tx'[p] = d
    BY <1>1, <1>3 DEF IInv, TypeOK
<1>5. Minted(p)' \subseteq Minted(p)
    BY <1>1, <1>3, <1>4 DEF Minted, Granting
<1>6. GrantConsistent(p)'
    BY <1>1, <1>3, <1>4, InTx
       DEF GrantConsistent, Granting, Inserting, IInv, RowsAreIssued
<1>7. since'[p] = {}
    BY <1>1, InTx DEF LoggingOut
<1>8. Consistent(p)'
    BY <1>3, <1>4, <1>6, <1>7, OnlyGrant
<1> QED
    BY <1>1, <1>3, <1>5, <1>8, StatementStep

LEMMA DeleteAccessStep ==
    ASSUME IInv, NEW p \in Procs, DeleteAccess(p)
    PROVE  IInv'
<1> DEFINE d == [tx[p] EXCEPT !.at = "deleteRefresh"]
<1>1. /\ tx[p].at = "deleteAccess" /\ tx' = [tx EXCEPT ![p] = d]
      /\ UNCHANGED <<refresh, access, revoked, issued, since, next>>
      /\ (locks' = locks \/ Take(p, Access(tx[p].token)))
    BY DEF DeleteAccess, Goto, tables, history
<1>2. tx[p] \in GrantTx /\ Access(tx[p].token) \in RowKey
    BY <1>1, InTx, TxFields, RowKeys
<1>3. /\ d \in Tx /\ d # Idle /\ d.at = "deleteRefresh" /\ d.seen = tx[p].seen
      /\ d.id = tx[p].id /\ d.token = tx[p].token
    <2>1. d \in GrantTx /\ d.at = "deleteRefresh" /\ d.seen = tx[p].seen
          /\ d.id = tx[p].id /\ d.token = tx[p].token
        BY <1>2 DEF GrantTx
    <2> QED
        BY <2>1, IdleTx DEF Tx
<1> HIDE DEF d
<1>4. tx'[p] = d
    BY <1>1, <1>3 DEF IInv, TypeOK
<1>5. Minted(p)' \subseteq Minted(p)
    BY <1>1, <1>3, <1>4 DEF Minted, Granting
<1>6. GrantConsistent(p)'
    BY <1>1, <1>3, <1>4, InTx DEF GrantConsistent, Granting, Inserting
<1>7. since'[p] = {}
    BY <1>1, InTx DEF LoggingOut
<1>8. Consistent(p)'
    BY <1>3, <1>4, <1>6, <1>7, OnlyGrant
<1> QED
    BY <1>1, <1>2, <1>3, <1>5, <1>8, StatementStep

LEMMA DeleteRefreshStep ==
    ASSUME IInv, NEW p \in Procs, DeleteRefresh(p)
    PROVE  IInv'
<1> DEFINE d == [tx[p] EXCEPT !.at = "insert"]
<1>1. /\ tx[p].at = "deleteRefresh"
      /\ UNCHANGED <<refresh, access, revoked, issued, since, next>>
    BY DEF DeleteRefresh, tables, history
<1>2. tx[p] \in GrantTx /\ Refresh(tx[p].token) \in RowKey
    BY <1>1, InTx, TxFields, RowKeys
<1>3. CASE tx[p].token \in RefreshIds
    <2>1. tx' = [tx EXCEPT ![p] = d] /\ Take(p, Refresh(tx[p].token))
        BY <1>3 DEF DeleteRefresh, Goto
    <2>2. /\ d \in Tx /\ d # Idle /\ d.at = "insert" /\ d.seen = tx[p].seen
          /\ d.id = tx[p].id /\ d.token = tx[p].token
        <3>1. d \in GrantTx /\ d.at = "insert" /\ d.seen = tx[p].seen
              /\ d.id = tx[p].id /\ d.token = tx[p].token
            BY <1>2 DEF GrantTx
        <3> QED
            BY <3>1, IdleTx DEF Tx
    <2> HIDE DEF d
    <2>3. tx'[p] = d
        BY <2>1, <2>2 DEF IInv, TypeOK
    <2>4. Minted(p)' \subseteq Minted(p)
        BY <1>1, <2>2, <2>3 DEF Minted, Granting
    <2>5. Locked(p, Refresh(tx[p].token))'
        <3>1. [row |-> Refresh(tx[p].token), by |-> p] \in locks'
            BY <1>2, <2>1 DEF Take
        <3> QED
            BY <2>2, <2>3, <3>1 DEF Locked, Refresh
    <2>6. GrantConsistent(p)'
        <3>1. tx'[p].token \in RefreshIds'
            BY <1>1, <1>3, <2>2, <2>3 DEF RefreshIds
        <3> QED
            BY <1>1, <2>2, <2>3, <2>5, <3>1, InTx DEF GrantConsistent, Granting, Inserting
    <2>7. since'[p] = {}
        BY <1>1, InTx DEF LoggingOut
    <2>8. Consistent(p)'
        BY <2>2, <2>3, <2>6, <2>7, OnlyGrant
    <2> QED
        BY <1>1, <1>2, <2>1, <2>2, <2>4, <2>8, StatementStep
<1>4. CASE tx[p].token \notin RefreshIds
    BY <1>1, <1>4, FinishStep, NoLogout DEF DeleteRefresh, LoggingOut
<1> QED
    BY <1>3, <1>4

\* The row the rotation has read is the one it has locked.
LEMMA InsertStep ==
    ASSUME IInv, NEW p \in Procs, Insert(p)
    PROVE  IInv'
<1> DEFINE token == tx[p].token
<1>1. /\ tx[p].at = "insert"
      /\ UNCHANGED <<refresh, access, revoked, locks, issued, since, next>>
    BY DEF Insert, tables, history
<1>2. /\ tx[p] \in GrantTx /\ tx[p].id \in Nat /\ token \in Nat /\ tx[p].seen \subseteq Row
    BY <1>1, InTx, TxFields
<1>3. PICK row \in Row :
          /\ tx' = [tx EXCEPT ![p] = [at |-> "touch", token |-> token, new |-> row]]
          /\ row.id = tx[p].id
          /\ (token = 0 => row.family = row.id)
          /\ (token # 0 => \E r \in tx[p].seen : r.ds = row.ds /\ r.family = row.family)
    <2>1. CASE token = 0
        <3>1. PICK e \in Devices :
                  tx' = [tx EXCEPT ![p] = [at |-> "touch", token |-> token,
                            new |-> [id |-> tx[p].id, ds |-> e, family |-> tx[p].id]]]
            BY <2>1 DEF Insert
        <3> DEFINE row == [id |-> tx[p].id, ds |-> e, family |-> tx[p].id]
        <3>2. row \in Row /\ row.id = tx[p].id /\ row.family = row.id
            BY <1>2 DEF Row
        <3>3. tx' = [tx EXCEPT ![p] = [at |-> "touch", token |-> token, new |-> row]]
            BY <3>1
        <3> HIDE DEF row
        <3> QED
            BY <2>1, <3>2, <3>3
    <2>2. CASE token # 0
        <3>1. PICK row \in {[id |-> tx[p].id, ds |-> r.ds, family |-> r.family] : r \in tx[p].seen} :
                  tx' = [tx EXCEPT ![p] = [at |-> "touch", token |-> token, new |-> row]]
            BY <2>2 DEF Insert
        <3>2. PICK r \in tx[p].seen :
                  row = [id |-> tx[p].id, ds |-> r.ds, family |-> r.family]
            BY <3>1
        <3>3. row \in Row /\ row.id = tx[p].id /\ r.ds = row.ds /\ r.family = row.family
            BY <1>2, <3>2 DEF Row
        <3> QED
            BY <2>2, <3>1, <3>3
    <2> QED
        BY <2>1, <2>2
<1> DEFINE d == [at |-> "touch", token |-> token, new |-> row]
<1>4. /\ d \in Tx /\ d # Idle /\ d.at = "touch" /\ d.token = token /\ d.new = row
      /\ tx' = [tx EXCEPT ![p] = d]
    <2>1. d \in InsertTx /\ d.at = "touch" /\ d.token = token /\ d.new = row
        BY <1>2 DEF InsertTx
    <2> QED
        BY <1>3, <2>1, IdleTx DEF Tx
<1> HIDE DEF d
<1>5. tx'[p] = d
    BY <1>4 DEF IInv, TypeOK
<1>6. Minted(p)' \subseteq Minted(p)
    BY <1>1, <1>3, <1>4, <1>5 DEF Minted, Granting, Inserting
<1>7. GrantConsistent(p)'
    <2>1. ASSUME token # 0
          PROVE  /\ Locked(p, Refresh(token))
                 /\ \E r \in refresh : r.id = token /\ r.ds = row.ds /\ r.family = row.family
        <3>1. /\ Locked(p, Refresh(token)) /\ token \in RefreshIds
              /\ \A r, s \in tx[p].seen : r = s
              /\ \A r \in refresh : r.id = token => r \in tx[p].seen
            BY <1>1, <2>1, InTx DEF GrantConsistent, Granting
        <3>2. PICK old \in refresh : old.id = token
            BY <3>1 DEF RefreshIds
        <3> QED
            BY <1>3, <2>1, <3>1, <3>2
    <2>2. token # 0 => Locked(p, Refresh(tx[p].token))'
        BY <1>1, <1>4, <1>5, <2>1 DEF Locked
    <2> QED
        BY <1>1, <1>3, <1>4, <1>5, <2>1, <2>2 DEF GrantConsistent, Granting, Inserting
<1>8. since'[p] = {}
    BY <1>1, InTx DEF LoggingOut
<1>9. Consistent(p)'
    BY <1>4, <1>5, <1>7, <1>8, OnlyGrant
<1> QED
    BY <1>1, <1>4, <1>6, <1>9, StatementStep

LEMMA TouchStep ==
    ASSUME IInv, NEW p \in Procs, Touch(p)
    PROVE  IInv'
<1> DEFINE d == [tx[p] EXCEPT !.at = "commitGrant"]
<1>1. /\ tx[p].at = "touch" /\ tx' = [tx EXCEPT ![p] = d]
      /\ Take(p, Device(tx[p].new.ds))
      /\ UNCHANGED <<refresh, access, revoked, issued, since, next>>
    BY DEF Touch, Goto, tables, history
<1>2. tx[p] \in InsertTx /\ Device(tx[p].new.ds) \in RowKey
    BY <1>1, InTx, TxFields, RowKeys DEF Row
<1>3. /\ d \in Tx /\ d # Idle /\ d.at = "commitGrant"
      /\ d.token = tx[p].token /\ d.new = tx[p].new
    <2>1. d \in InsertTx /\ d.at = "commitGrant" /\ d.token = tx[p].token /\ d.new = tx[p].new
        BY <1>2 DEF InsertTx
    <2> QED
        BY <2>1, IdleTx DEF Tx
<1> HIDE DEF d
<1>4. tx'[p] = d
    BY <1>1, <1>3 DEF IInv, TypeOK
<1>5. Minted(p)' \subseteq Minted(p)
    BY <1>1, <1>3, <1>4 DEF Minted, Granting, Inserting
<1>6. GrantConsistent(p)'
    <2>1. [row |-> Device(tx[p].new.ds), by |-> p] \in locks' /\ locks \subseteq locks'
        BY <1>1 DEF Take
    <2> QED
        BY <1>1, <1>3, <1>4, <2>1, InTx
           DEF GrantConsistent, Granting, Inserting, Locked, Device, Refresh
<1>7. since'[p] = {}
    BY <1>1, InTx DEF LoggingOut
<1>8. Consistent(p)'
    BY <1>3, <1>4, <1>6, <1>7, OnlyGrant
<1> QED
    BY <1>1, <1>2, <1>3, <1>5, <1>8, StatementStep

-----------------------------------------------------------------------------
(***************************************************************************)
(* Revocation and logout.                                                  *)
(***************************************************************************)

LEMMA BeginRevokeStep ==
    ASSUME IInv, NEW p \in Procs, BeginRevoke(p)
    PROVE  IInv'
<1>1. /\ tx[p] = Idle
      /\ UNCHANGED <<refresh, access, revoked, locks, issued, since, next>>
    BY DEF BeginRevoke, tables, history
<1>2. PICK ds \in Devices :
          tx' = [tx EXCEPT ![p] = [at |-> "mark", ds |-> ds, todo |-> {}, gone |-> {}]]
    BY DEF BeginRevoke
<1> DEFINE d == [at |-> "mark", ds |-> ds, todo |-> {}, gone |-> {}]
<1>3. /\ d \in Tx /\ d # Idle /\ d.at = "mark" /\ d.todo = {} /\ d.gone = {}
      /\ tx' = [tx EXCEPT ![p] = d]
    <2>1. d \in RevokeTx /\ d.at = "mark" /\ d.todo = {} /\ d.gone = {}
        BY DEF RevokeTx
    <2> QED
        BY <1>2, <2>1, IdleTx DEF Tx
<1> HIDE DEF d
<1>4. tx'[p] = d
    BY <1>3 DEF IInv, TypeOK
<1>5. Minted(p)' \subseteq Minted(p)
    BY <1>3, <1>4 DEF Minted, Granting, Inserting
<1>6. since'[p] = {}
    BY <1>1, InTx, IdleTx DEF LoggingOut
<1>7. Consistent(p)'
    BY <1>3, <1>4, <1>6, OnlyRevoke DEF DeleteConsistent, RevokeConsistent
<1> QED
    BY <1>1, <1>3, <1>5, <1>7, StatementStep

LEMMA MarkStep ==
    ASSUME IInv, NEW p \in Procs, Mark(p)
    PROVE  IInv'
<1> DEFINE d == [tx[p] EXCEPT !.at = "scan"]
<1>1. /\ tx[p].at = "mark"
      /\ UNCHANGED <<refresh, access, revoked, issued, since, next>>
    BY DEF Mark, tables, history
<1>2. tx[p] \in RevokeTx /\ tx[p].ds \in Devices /\ Device(tx[p].ds) \in RowKey
    BY <1>1, InTx, TxFields, RowKeys
<1>3. CASE tx[p].ds \notin revoked
    <2>1. tx' = [tx EXCEPT ![p] = d] /\ Take(p, Device(tx[p].ds))
        BY <1>3 DEF Mark, Goto
    <2>2. /\ d \in Tx /\ d # Idle /\ d.at = "scan" /\ d.ds = tx[p].ds
          /\ d.todo = tx[p].todo /\ d.gone = tx[p].gone
        <3>1. d \in RevokeTx /\ d.at = "scan" /\ d.ds = tx[p].ds
              /\ d.todo = tx[p].todo /\ d.gone = tx[p].gone
            BY <1>2 DEF RevokeTx
        <3> QED
            BY <3>1, IdleTx DEF Tx
    <2> HIDE DEF d
    <2>3. tx'[p] = d
        BY <2>1, <2>2 DEF IInv, TypeOK
    <2>4. Minted(p)' \subseteq Minted(p)
        BY <2>2, <2>3 DEF Minted, Granting, Inserting
    <2>5. [row |-> Device(tx[p].ds), by |-> p] \in locks' /\ locks \subseteq locks'
        BY <2>1 DEF Take
    <2>6. tx[p].gone = {} /\ tx[p].todo \subseteq issued
        BY <1>1, InTx DEF RevokeConsistent, DeleteConsistent, Deleting
    <2>7. RevokeConsistent(p)' /\ DeleteConsistent(p)'
        BY <1>1, <1>3, <2>2, <2>3, <2>5, <2>6
           DEF RevokeConsistent, DeleteConsistent, Locked, Device
    <2>8. since'[p] = {}
        BY <1>1, InTx DEF LoggingOut
    <2>9. Consistent(p)'
        BY <2>2, <2>3, <2>7, <2>8, OnlyRevoke
    <2> QED
        BY <1>1, <1>2, <2>1, <2>2, <2>4, <2>9, StatementStep
<1>4. CASE tx[p].ds \in revoked
    BY <1>1, <1>4, FinishStep, NoLogout DEF Mark, LoggingOut
<1> QED
    BY <1>3, <1>4

\* The DELETE of a revocation starts, with all rows of the session still to visit.
LEMMA ScanStep ==
    ASSUME IInv, NEW p \in Procs, Scan(p)
    PROVE  IInv'
<1> DEFINE ids == {r.id : r \in {x \in refresh : x.ds = tx[p].ds}}
           d   == [tx[p] EXCEPT !.at = "deleteRows", !.todo = ids]
<1>1. /\ tx[p].at = "scan" /\ tx' = [tx EXCEPT ![p] = d]
      /\ UNCHANGED <<refresh, access, revoked, locks, issued, since, next>>
    BY DEF Scan, tables, history
<1>2. tx[p] \in RevokeTx
    BY <1>1, InTx, TxFields
<1>3. ids \subseteq issued /\ ids \in SUBSET Nat
    BY IssuedIds
<1>4. \A r \in refresh : r.ds = tx[p].ds <=> r.id \in ids
    BY DEF IInv, RowsAreIssued
<1> HIDE DEF ids
<1>5. /\ d \in Tx /\ d # Idle /\ d.at = "deleteRows" /\ d.todo = ids
      /\ d.gone = tx[p].gone /\ d.ds = tx[p].ds
    <2>1. d \in RevokeTx /\ d.at = "deleteRows" /\ d.todo = ids /\ d.gone = tx[p].gone
          /\ d.ds = tx[p].ds
        BY <1>2, <1>3 DEF RevokeTx
    <2> QED
        BY <2>1, IdleTx DEF Tx
<1> HIDE DEF d
<1>6. tx'[p] = d
    BY <1>1, <1>5 DEF IInv, TypeOK
<1>7. Minted(p)' \subseteq Minted(p)
    BY <1>5, <1>6 DEF Minted, Granting, Inserting
<1>8. RevokeConsistent(p)' /\ DeleteConsistent(p)'
    <2>1. tx[p].gone = {} /\ Locked(p, Device(tx[p].ds)) /\ tx[p].ds \notin revoked
        BY <1>1, InTx DEF RevokeConsistent
    <2>2. Locked(p, Device(tx[p].ds))'
        BY <1>1, <1>5, <1>6, <2>1 DEF Locked
    <2>3. tx'[p].at = "deleteRows" /\ tx'[p].todo = ids /\ tx'[p].gone = {}
          /\ tx'[p].ds = tx[p].ds
        BY <1>5, <1>6, <2>1
    <2>4. RevokeConsistent(p)'
        BY <1>1, <1>4, <2>1, <2>2, <2>3 DEF RevokeConsistent
    <2>5. DeleteConsistent(p)'
        BY <1>1, <1>3, <2>3 DEF DeleteConsistent
    <2> QED
        BY <2>4, <2>5
<1>9. since'[p] = {}
    BY <1>1, InTx DEF LoggingOut
<1>10. Consistent(p)'
    BY <1>5, <1>6, <1>8, <1>9, OnlyRevoke
<1> QED
    BY <1>1, <1>5, <1>7, <1>10, StatementStep

\* One row of a DELETE, visited: d is what p goes on with.
Visits(p, rows, kind, id, d) ==
    /\ tx' = [tx EXCEPT ![p] = d] /\ tx'[p] = d /\ d # Idle /\ d.at = tx[p].at
    /\ (d.at = "deleteRows" => d.ds = tx[p].ds)
    /\ d.todo = tx[p].todo \ {id}
    /\ d.gone = IF id \in rows THEN tx[p].gone \cup {<<kind, id>>} ELSE tx[p].gone
    /\ <<kind, id>> \in RowKey
    /\ (IF id \in rows THEN Take(p, <<kind, id>>) ELSE locks' = locks)
    /\ Minted(p)' \subseteq Minted(p)
    /\ UNCHANGED <<refresh, access, revoked, issued, since, next>>

LEMMA DeleteRowFields ==
    ASSUME IInv, NEW p \in Procs, NEW rows, NEW kind, kind \in {"refresh", "access"},
           tx[p].at \in {"deleteRows", "deleteRefreshRows", "deleteAccessRows"},
           DeleteRow(p, rows, kind)
    PROVE  \E id \in tx[p].todo, d \in Tx : Visits(p, rows, kind, id, d)
<1> DEFINE D(id) == [tx[p] EXCEPT !.todo = @ \ {id},
                       !.gone = IF id \in rows THEN @ \cup {<<kind, id>>} ELSE @]
<1>1. PICK id \in tx[p].todo :
          /\ tx' = [tx EXCEPT ![p] = D(id)]
          /\ (IF id \in rows THEN Take(p, <<kind, id>>) ELSE locks' = locks)
          /\ UNCHANGED <<refresh, access, revoked, issued, since, next>>
    BY Zenon DEF DeleteRow, tables, history
<1> DEFINE todo == tx[p].todo \ {id}
           gone == IF id \in rows THEN tx[p].gone \cup {<<kind, id>>} ELSE tx[p].gone
           d == D(id)
<1>2. /\ tx[p].todo \subseteq Nat /\ tx[p].gone \subseteq RowKey
      /\ (tx[p].at = "deleteRows" => tx[p] \in RevokeTx)
      /\ (tx[p].at # "deleteRows" => tx[p] \in LogoutTx)
    BY InTx, TxFields
<1>3. <<kind, id>> \in RowKey
    BY <1>2 DEF RowKey
<1>4. todo \subseteq Nat /\ gone \subseteq RowKey
    BY <1>2, <1>3
<1>5. tx' = [tx EXCEPT ![p] = d]
    BY <1>1
<1>6. /\ d \in Tx /\ d.at = tx[p].at /\ d.todo = todo /\ d.gone = gone
      /\ (d.at = "deleteRows" => d.ds = tx[p].ds)
    <2>1. CASE tx[p].at = "deleteRows"
        <3>1. /\ d \in RevokeTx /\ d.at = tx[p].at /\ d.todo = todo /\ d.gone = gone
              /\ d.ds = tx[p].ds
            BY <1>2, <1>4, <2>1 DEF RevokeTx
        <3> QED
            BY <3>1 DEF Tx
    <2>2. CASE tx[p].at # "deleteRows"
        <3>1. d \in LogoutTx /\ d.at = tx[p].at /\ d.todo = todo /\ d.gone = gone
            BY <1>2, <1>4, <2>2 DEF LogoutTx
        <3> QED
            BY <2>2, <3>1 DEF Tx
    <2> QED
        BY <2>1, <2>2
<1> HIDE DEF d
<1>7. tx'[p] = d
    BY <1>5 DEF IInv, TypeOK
<1>8. d # Idle
    BY <1>6, IdleTx
<1>9. Minted(p)' \subseteq Minted(p)
    BY <1>6, <1>7 DEF Minted, Granting, Inserting
<1> QED
    BY <1>1, <1>3, <1>5, <1>6, <1>7, <1>8, <1>9 DEF Visits

\* What is deleted was committed, and stays locked.
LEMMA DeletedIsLocked ==
    ASSUME IInv, NEW p \in Procs, Deleting(p), NEW id \in tx[p].todo, NEW rows,
           NEW kind \in {"refresh", "access"},
           tx'[p].todo = tx[p].todo \ {id},
           tx'[p].gone = IF id \in rows THEN tx[p].gone \cup {<<kind, id>>} ELSE tx[p].gone,
           IF id \in rows THEN Take(p, <<kind, id>>) ELSE locks' = locks,
           issued' = issued
    PROVE  DeleteConsistent(p)'
<1>1. /\ \A row \in tx[p].gone : Locked(p, row)
      /\ tx[p].todo \subseteq issued
      /\ tx[p].gone \subseteq {Refresh(i) : i \in issued} \cup {Access(i) : i \in issued}
    BY InTx DEF DeleteConsistent
<1>2. <<kind, id>> \in {Refresh(i) : i \in issued} \cup {Access(i) : i \in issued}
    BY <1>1 DEF Refresh, Access
<1>3. ASSUME NEW row \in tx'[p].gone
      PROVE  [row |-> row, by |-> p] \in locks'
    <2>1. CASE id \in rows
        <3>1. /\ locks' = locks \cup {[row |-> <<kind, id>>, by |-> p]}
              /\ row \in tx[p].gone \/ row = <<kind, id>>
            BY <1>3, <2>1 DEF Take
        <3> QED
            BY <1>1, <3>1 DEF Locked
    <2>2. CASE id \notin rows
        BY <1>1, <1>3, <2>2 DEF Locked
    <2> QED
        BY <2>1, <2>2
<1> QED
    BY <1>1, <1>2, <1>3 DEF DeleteConsistent, Locked

LEMMA DeleteSessionRowStep ==
    ASSUME IInv, NEW p \in Procs, DeleteSessionRow(p)
    PROVE  IInv'
<1>1. tx[p].at = "deleteRows" /\ DeleteRow(p, RefreshIds, "refresh")
    BY DEF DeleteSessionRow
<1>2. PICK id \in tx[p].todo, d \in Tx : Visits(p, RefreshIds, "refresh", id, d)
    <2>1. "refresh" \in {"refresh", "access"}
        OBVIOUS
    <2>2. tx[p].at \in {"deleteRows", "deleteRefreshRows", "deleteAccessRows"}
        BY <1>1
    <2> QED
        BY <1>1, <2>1, <2>2, DeleteRowFields
<1>3. /\ tx' = [tx EXCEPT ![p] = d] /\ tx'[p] = d /\ d # Idle /\ d.at = "deleteRows"
      /\ d.ds = tx[p].ds /\ d.todo = tx[p].todo \ {id}
      /\ d.gone = IF id \in RefreshIds THEN tx[p].gone \cup {<<"refresh", id>>} ELSE tx[p].gone
      /\ <<"refresh", id>> \in RowKey
      /\ (IF id \in RefreshIds THEN Take(p, <<"refresh", id>>) ELSE locks' = locks)
      /\ Minted(p)' \subseteq Minted(p)
      /\ UNCHANGED <<refresh, access, revoked, issued, since, next>>
    BY <1>1, <1>2 DEF Visits
<1>4. Deleting(p)
    BY <1>1 DEF Deleting
<1>5. DeleteConsistent(p)'
    BY <1>3, <1>4, DeletedIsLocked
<1>6. RevokeConsistent(p)'
    <2>1. /\ Locked(p, Device(tx[p].ds)) /\ tx[p].ds \notin revoked
          /\ \A r \in refresh :
                (r.ds = tx[p].ds) <=> (r.id \in tx[p].todo \/ Refresh(r.id) \in tx[p].gone)
        BY <1>1, InTx DEF RevokeConsistent
    <2>2. Locked(p, Device(tx[p].ds))'
        BY <1>3, <2>1 DEF Locked, Take
    <2>3. ASSUME NEW r \in refresh
          PROVE  (r.id \in d.todo \/ Refresh(r.id) \in d.gone)
                     <=> (r.id \in tx[p].todo \/ Refresh(r.id) \in tx[p].gone)
        <3>1. r.id \in RefreshIds
            BY DEF RefreshIds
        <3>2. <<"refresh", id>> = Refresh(id)
            BY DEF Refresh
        <3>3. Refresh(r.id) = Refresh(id) <=> r.id = id
            BY RowKeys
        <3> QED
            BY <1>3, <3>1, <3>2, <3>3
    <2> QED
        BY <1>3, <2>1, <2>2, <2>3 DEF RevokeConsistent
<1>7. since'[p] = {}
    BY <1>1, <1>3, InTx DEF LoggingOut
<1>8. Consistent(p)'
    BY <1>3, <1>5, <1>6, <1>7, OnlyRevoke
<1>9. locks' = locks \/ \E row \in RowKey : Take(p, row)
    BY <1>3
<1> QED
    BY <1>3, <1>8, <1>9, StatementStep

LEMMA BeginLogoutStep ==
    ASSUME IInv, NEW p \in Procs, BeginLogout(p)
    PROVE  IInv'
<1> DEFINE d == [at |-> "scanRefresh", todo |-> {}, gone |-> {}]
<1>1. /\ tx[p] = Idle /\ tx' = [tx EXCEPT ![p] = d]
      /\ UNCHANGED <<refresh, access, revoked, locks, issued, since, next>>
    BY DEF BeginLogout, tables, history
<1>2. d \in Tx /\ d # Idle /\ d.at = "scanRefresh" /\ d.todo = {} /\ d.gone = {}
    <2>1. d \in LogoutTx /\ d.at = "scanRefresh" /\ d.todo = {} /\ d.gone = {}
        BY DEF LogoutTx
    <2> QED
        BY <2>1, IdleTx DEF Tx
<1> HIDE DEF d
<1>3. tx'[p] = d
    BY <1>1, <1>2 DEF IInv, TypeOK
<1>4. Minted(p)' \subseteq Minted(p)
    BY <1>2, <1>3 DEF Minted, Granting, Inserting
<1>5. Consistent(p)'
    BY <1>2, <1>3, OnlyLogout DEF DeleteConsistent, LogoutConsistent, LoggingOut
<1> QED
    BY <1>1, <1>2, <1>4, <1>5, StatementStep

LEMMA ScanRefreshStep ==
    ASSUME IInv, NEW p \in Procs, ScanRefresh(p)
    PROVE  IInv'
<1> DEFINE d == [tx[p] EXCEPT !.at = "deleteRefreshRows", !.todo = RefreshIds]
<1>1. /\ tx[p].at = "scanRefresh" /\ tx' = [tx EXCEPT ![p] = d]
      /\ UNCHANGED <<refresh, access, revoked, locks, issued, since, next>>
    BY DEF ScanRefresh, tables, history
<1>2. tx[p] \in LogoutTx /\ RefreshIds \in SUBSET Nat /\ RefreshIds \subseteq issued
    BY <1>1, InTx, TxFields, IssuedIds DEF RefreshIds
<1>3. /\ d \in Tx /\ d # Idle /\ d.at = "deleteRefreshRows"
      /\ d.todo = RefreshIds /\ d.gone = tx[p].gone
    <2>1. d \in LogoutTx /\ d.at = "deleteRefreshRows" /\ d.todo = RefreshIds
          /\ d.gone = tx[p].gone
        BY <1>2 DEF LogoutTx
    <2> QED
        BY <2>1, IdleTx DEF Tx
<1> HIDE DEF d
<1>4. tx'[p] = d
    BY <1>1, <1>3 DEF IInv, TypeOK
<1>5. Minted(p)' \subseteq Minted(p)
    BY <1>3, <1>4 DEF Minted, Granting, Inserting
<1>6. DeleteConsistent(p)'
    <2>1. /\ \A row \in tx[p].gone : Locked(p, row)
          /\ tx[p].gone \subseteq {Refresh(i) : i \in issued} \cup {Access(i) : i \in issued}
        BY <1>1, InTx DEF DeleteConsistent, Deleting, LoggingOut
    <2> QED
        BY <1>1, <1>2, <1>3, <1>4, <2>1 DEF DeleteConsistent, Locked
<1>7. LogoutConsistent(p)'
    BY <1>1, <1>3, <1>4 DEF LogoutConsistent, LoggingOut, RefreshIds
<1>8. Consistent(p)'
    BY <1>3, <1>4, <1>6, <1>7, OnlyLogout
<1> QED
    BY <1>1, <1>3, <1>5, <1>8, StatementStep

LEMMA ScanAccessStep ==
    ASSUME IInv, NEW p \in Procs, ScanAccess(p)
    PROVE  IInv'
<1> DEFINE d == [tx[p] EXCEPT !.at = "deleteAccessRows", !.todo = access]
<1>1. /\ tx[p].at = "deleteRefreshRows" /\ tx[p].todo = {} /\ tx' = [tx EXCEPT ![p] = d]
      /\ UNCHANGED <<refresh, access, revoked, locks, issued, since, next>>
    BY DEF ScanAccess, tables, history
<1>2. tx[p] \in LogoutTx /\ access \in SUBSET Nat /\ access \subseteq issued
    BY <1>1, InTx, TxFields, IssuedIds
<1>3. /\ d \in Tx /\ d # Idle /\ d.at = "deleteAccessRows"
      /\ d.todo = access /\ d.gone = tx[p].gone
    <2>1. d \in LogoutTx /\ d.at = "deleteAccessRows" /\ d.todo = access
          /\ d.gone = tx[p].gone
        BY <1>2 DEF LogoutTx
    <2> QED
        BY <2>1, IdleTx DEF Tx
<1> HIDE DEF d
<1>4. tx'[p] = d
    BY <1>1, <1>3 DEF IInv, TypeOK
<1>5. Minted(p)' \subseteq Minted(p)
    BY <1>3, <1>4 DEF Minted, Granting, Inserting
<1>6. DeleteConsistent(p)'
    <2>1. /\ \A row \in tx[p].gone : Locked(p, row)
          /\ tx[p].gone \subseteq {Refresh(i) : i \in issued} \cup {Access(i) : i \in issued}
        BY <1>1, InTx DEF DeleteConsistent, Deleting, LoggingOut
    <2> QED
        BY <1>1, <1>2, <1>3, <1>4, <2>1 DEF DeleteConsistent, Locked
<1>7. LogoutConsistent(p)'
    <2>1. \A r \in refresh : r.id \in since[p] \/ Refresh(r.id) \in tx[p].gone
        BY <1>1, InTx DEF LogoutConsistent
    <2> QED
        BY <1>1, <1>3, <1>4, <2>1 DEF LogoutConsistent, LoggingOut
<1>8. Consistent(p)'
    BY <1>3, <1>4, <1>6, <1>7, OnlyLogout
<1> QED
    BY <1>1, <1>3, <1>5, <1>8, StatementStep

LEMMA DeleteRefreshRowStep ==
    ASSUME IInv, NEW p \in Procs, DeleteRefreshRow(p)
    PROVE  IInv'
<1>1. tx[p].at = "deleteRefreshRows" /\ DeleteRow(p, RefreshIds, "refresh")
    BY DEF DeleteRefreshRow
<1>2. PICK id \in tx[p].todo, d \in Tx : Visits(p, RefreshIds, "refresh", id, d)
    <2>1. "refresh" \in {"refresh", "access"}
        OBVIOUS
    <2>2. tx[p].at \in {"deleteRows", "deleteRefreshRows", "deleteAccessRows"}
        BY <1>1
    <2> QED
        BY <1>1, <2>1, <2>2, DeleteRowFields
<1>3. /\ tx' = [tx EXCEPT ![p] = d] /\ tx'[p] = d /\ d # Idle
      /\ d.at = "deleteRefreshRows" /\ d.todo = tx[p].todo \ {id}
      /\ d.gone = IF id \in RefreshIds THEN tx[p].gone \cup {<<"refresh", id>>} ELSE tx[p].gone
      /\ <<"refresh", id>> \in RowKey
      /\ (IF id \in RefreshIds THEN Take(p, <<"refresh", id>>) ELSE locks' = locks)
      /\ Minted(p)' \subseteq Minted(p)
      /\ UNCHANGED <<refresh, access, revoked, issued, since, next>>
    BY <1>1, <1>2 DEF Visits
<1>4. Deleting(p)
    BY <1>1 DEF Deleting, LoggingOut
<1>5. DeleteConsistent(p)'
    BY <1>3, <1>4, DeletedIsLocked
<1>6. LogoutConsistent(p)'
    <2>1. \A r \in refresh : r.id \in tx[p].todo \cup since[p] \/ Refresh(r.id) \in tx[p].gone
        BY <1>1, InTx DEF LogoutConsistent
    <2>2. ASSUME NEW r \in refresh
          PROVE  r.id \in d.todo \cup since[p] \/ Refresh(r.id) \in d.gone
        <3>1. r.id \in RefreshIds
            BY DEF RefreshIds
        <3>2. <<"refresh", id>> = Refresh(id)
            BY DEF Refresh
        <3> QED
            BY <1>3, <2>1, <3>1, <3>2
    <2> QED
        BY <1>3, <2>2 DEF LogoutConsistent, LoggingOut
<1>7. Consistent(p)'
    BY <1>3, <1>5, <1>6, OnlyLogout
<1>8. locks' = locks \/ \E row \in RowKey : Take(p, row)
    BY <1>3
<1> QED
    BY <1>3, <1>7, <1>8, StatementStep

LEMMA DeleteAccessRowStep ==
    ASSUME IInv, NEW p \in Procs, DeleteAccessRow(p)
    PROVE  IInv'
<1>1. tx[p].at = "deleteAccessRows" /\ DeleteRow(p, access, "access")
    BY DEF DeleteAccessRow
<1>2. PICK id \in tx[p].todo, d \in Tx : Visits(p, access, "access", id, d)
    <2>1. "access" \in {"refresh", "access"}
        OBVIOUS
    <2>2. tx[p].at \in {"deleteRows", "deleteRefreshRows", "deleteAccessRows"}
        BY <1>1
    <2> QED
        BY <1>1, <2>1, <2>2, DeleteRowFields
<1>3. /\ tx' = [tx EXCEPT ![p] = d] /\ tx'[p] = d /\ d # Idle
      /\ d.at = "deleteAccessRows" /\ d.todo = tx[p].todo \ {id}
      /\ d.gone = IF id \in access THEN tx[p].gone \cup {<<"access", id>>} ELSE tx[p].gone
      /\ <<"access", id>> \in RowKey
      /\ (IF id \in access THEN Take(p, <<"access", id>>) ELSE locks' = locks)
      /\ Minted(p)' \subseteq Minted(p)
      /\ UNCHANGED <<refresh, access, revoked, issued, since, next>>
    BY <1>1, <1>2 DEF Visits
<1>4. Deleting(p)
    BY <1>1 DEF Deleting, LoggingOut
<1>5. DeleteConsistent(p)'
    BY <1>3, <1>4, DeletedIsLocked
<1>6. LogoutConsistent(p)'
    <2>1. /\ \A r \in refresh : r.id \in since[p] \/ Refresh(r.id) \in tx[p].gone
          /\ \A i \in access : i \in tx[p].todo \cup since[p] \/ Access(i) \in tx[p].gone
        BY <1>1, InTx DEF LogoutConsistent
    <2>2. <<"access", id>> = Access(id)
        BY DEF Access
    <2>3. \A i \in access : i \in d.todo \cup since[p] \/ Access(i) \in d.gone
        BY <1>3, <2>1, <2>2
    <2>4. \A r \in refresh : r.id \in since[p] \/ Refresh(r.id) \in d.gone
        BY <1>3, <2>1
    <2> QED
        BY <1>3, <2>3, <2>4 DEF LogoutConsistent, LoggingOut
<1>7. Consistent(p)'
    BY <1>3, <1>5, <1>6, OnlyLogout
<1>8. locks' = locks \/ \E row \in RowKey : Take(p, row)
    BY <1>3
<1> QED
    BY <1>3, <1>7, <1>8, StatementStep

-----------------------------------------------------------------------------
(***************************************************************************)
(* Commits.                                                                *)
(***************************************************************************)

\* A commit of p, as another transaction q sees it: the rows q has locked are
\* there, a new row is one of a device session p has locked, and q has not met it.
SeesCommit(p, q) ==
    /\ \A r \in refresh : Locked(q, Refresh(r.id)) => r \in refresh'
    /\ \A r \in refresh' :
          \/ r \in refresh
          \/ /\ r.id \notin issued /\ r.id # 0
             /\ Locked(p, Device(r.ds))
             /\ (LoggingOut(q) => r.id \in since'[q])
    /\ \A id \in access' : id \in access \/ (LoggingOut(q) => id \in since'[q])
    /\ \A d \in revoked' : d \in revoked \/ Locked(p, Device(d))
    /\ since[q] \subseteq since'[q]
    /\ (~LoggingOut(q) => since'[q] = {})

LEMMA CommitKeeps ==
    ASSUME IInv, NEW p \in Procs, NEW q \in Procs, p # q, tx'[q] = tx[q],
           locks' = {l \in locks : l.by # p}, issued \subseteq issued', SeesCommit(p, q)
    PROVE  Consistent(q)'
<1>1. /\ \A row : Locked(q, row) => Locked(q, row)'
      /\ \A row : ~(Locked(p, row) /\ Locked(q, row))
    <2>1. \A row : [row |-> row, by |-> p].row = row /\ [row |-> row, by |-> p].by = p
                   /\ [row |-> row, by |-> q].row = row /\ [row |-> row, by |-> q].by = q
        OBVIOUS
    <2>2. \A row : Locked(q, row) => Locked(q, row)'
        BY <2>1 DEF Locked
    <2>3. \A row : ~(Locked(p, row) /\ Locked(q, row))
        BY <2>1 DEF Locked, IInv, LocksAreExclusive
    <2> QED
        BY <2>2, <2>3
<1>2. \A r \in refresh' : r \in refresh \/ (r.id \notin issued /\ r.id # 0)
    BY DEF SeesCommit
<1>3. GrantConsistent(q)'
    <2>1. GrantConsistent(q)
        BY InTx
    <2>2. Granting(q) => IF tx[q].token = 0 THEN tx[q].at = "insert" ELSE tx[q].token \in issued'
        BY <2>1 DEF GrantConsistent
    <2>3. (Granting(q) /\ tx[q].at # "select") =>
              /\ \A r \in tx[q].seen : r.id = tx[q].token
              /\ \A r, s \in tx[q].seen : r = s
              /\ \A r \in refresh' : r.id = tx[q].token => r \in tx[q].seen
        BY <1>2, <2>1 DEF GrantConsistent
    <2>4. (tx[q].at = "insert" /\ tx[q].token # 0) =>
              /\ Locked(q, Refresh(tx[q].token))
              /\ \E r \in refresh' : r.id = tx[q].token
        BY <2>1 DEF GrantConsistent, SeesCommit, RefreshIds
    <2>5. Inserting(q) =>
              IF tx[q].token = 0 THEN tx[q].new.family = tx[q].new.id
              ELSE /\ Locked(q, Refresh(tx[q].token))
                   /\ \E r \in refresh' : /\ r.id = tx[q].token
                                          /\ r.ds = tx[q].new.ds /\ r.family = tx[q].new.family
        BY <2>1 DEF GrantConsistent, SeesCommit
    <2>6. tx[q].at = "commitGrant" => Locked(q, Device(tx[q].new.ds))
        BY <2>1 DEF GrantConsistent
    <2>7. /\ Locked(q, Refresh(tx[q].token)) => Locked(q, Refresh(tx[q].token))'
          /\ Locked(q, Device(tx[q].new.ds)) => Locked(q, Device(tx[q].new.ds))'
        BY <1>1 DEF Locked, Refresh, Device
    <2> QED
        BY <2>2, <2>3, <2>4, <2>5, <2>6, <2>7
           DEF GrantConsistent, Granting, Inserting, RefreshIds
<1>4. DeleteConsistent(q)'
    <2>1. Deleting(q) =>
              /\ \A row \in tx[q].gone : Locked(q, row)
              /\ tx[q].todo \subseteq issued
              /\ tx[q].gone \subseteq {Refresh(i) : i \in issued} \cup {Access(i) : i \in issued}
        BY InTx DEF DeleteConsistent
    <2>2. \A row : [row |-> row, by |-> q] \in locks => [row |-> row, by |-> q] \in locks'
        BY <1>1 DEF Locked
    <2> QED
        BY <2>1, <2>2 DEF DeleteConsistent, Deleting, LoggingOut, Locked
<1>5. RevokeConsistent(q)'
    <2>1. RevokeConsistent(q) /\ DeleteConsistent(q)
        BY InTx
    <2>2. Locked(q, Device(tx[q].ds)) => Locked(q, Device(tx[q].ds))'
        BY <1>1 DEF Locked, Device
    <2>3. Locked(q, Device(tx[q].ds)) /\ tx[q].ds \notin revoked => tx[q].ds \notin revoked'
        BY <1>1 DEF SeesCommit
    <2>4. ASSUME tx[q].at = "deleteRows", NEW r \in refresh'
          PROVE  (r.ds = tx[q].ds) <=> (r.id \in tx[q].todo \/ Refresh(r.id) \in tx[q].gone)
        <3>1. CASE r \in refresh
            BY <2>1, <2>4, <3>1 DEF RevokeConsistent
        <3>2. CASE r \notin refresh
            <4>1. Locked(p, Device(r.ds)) /\ r.id \notin issued
                BY <3>2 DEF SeesCommit
            <4>2. Locked(q, Device(tx[q].ds))
                BY <2>1, <2>4 DEF RevokeConsistent
            <4>3. r.id \notin tx[q].todo /\ Refresh(r.id) \notin tx[q].gone
                BY <2>1, <2>4, <4>1, RowKeys DEF DeleteConsistent, Deleting
            <4> QED
                BY <1>1, <4>1, <4>2, <4>3
        <3> QED
            BY <3>1, <3>2
    <2> QED
        BY <2>1, <2>2, <2>3, <2>4 DEF RevokeConsistent
<1>6. LogoutConsistent(q)'
    <2>1. LogoutConsistent(q)
        BY InTx
    <2>2. ASSUME tx[q].at = "deleteRefreshRows", NEW r \in refresh'
          PROVE  r.id \in tx[q].todo \cup since'[q] \/ Refresh(r.id) \in tx[q].gone
        BY <2>1, <2>2 DEF LogoutConsistent, SeesCommit, LoggingOut
    <2>3. ASSUME tx[q].at = "deleteAccessRows", NEW r \in refresh'
          PROVE  r.id \in since'[q] \/ Refresh(r.id) \in tx[q].gone
        BY <2>1, <2>3 DEF LogoutConsistent, SeesCommit, LoggingOut
    <2>4. ASSUME tx[q].at = "deleteAccessRows", NEW id \in access'
          PROVE  id \in tx[q].todo \cup since'[q] \/ Access(id) \in tx[q].gone
        BY <2>1, <2>4 DEF LogoutConsistent, SeesCommit, LoggingOut
    <2>5. ~LoggingOut(q) => since'[q] = {}
        BY DEF SeesCommit
    <2> QED
        BY <2>2, <2>3, <2>4, <2>5 DEF LogoutConsistent, LoggingOut
<1> QED
    BY <1>3, <1>4, <1>5, <1>6 DEF Consistent

LEMMA CommitStep ==
    ASSUME IInv, NEW p \in Procs, Finish(p), next' = next,
           refresh' \subseteq Row, access' \subseteq Nat, revoked' \subseteq Devices,
           since' \in [Procs -> SUBSET Nat], since'[p] = {},
           issued \subseteq issued', issued' \subseteq issued \cup Minted(p),
           RowsAreIssued', \A q \in Procs \ {p} : SeesCommit(p, q)
    PROVE  IInv'
<1>1. /\ tx'[p] = Idle /\ tx'[p].at = "idle"
      /\ \A q \in Procs \ {p} : tx'[q] = tx[q]
      /\ tx' \in [Procs -> Tx]
    BY IdleTx DEF Finish, IInv, TypeOK, Tx
<1>2. locks' = {l \in locks : l.by # p}
    BY DEF Finish, Release
<1>3. next \in Nat \ {0} /\ \A id \in Minted(p) : id \in 1..(next - 1)
    <2>1. next \in Nat \ {0}
        BY DEF IInv, TypeOK
    <2>2. \A id \in Minted(p) : id \in 1..MaxGrants /\ id < next
        BY DEF IInv, IdsAreFresh
    <2>3. \A n \in Nat \ {0} : \A id \in 1..MaxGrants : id < n => id \in 1..(n - 1)
        BY Constants
    <2> QED
        BY <2>1, <2>2, <2>3
<1>4. TypeOK'
    <2>1. \A n \in Nat : \A id \in 1..(n - 1) : id \in Nat
        OBVIOUS
    <2>2. issued' \subseteq Nat
        BY <1>3, <2>1 DEF IInv, TypeOK
    <2> QED
        BY <1>1, <1>2, <2>2 DEF IInv, TypeOK, Tx
<1>5. IdsAreFresh'
    <2>1. Minted(p)' = {} /\ \A q \in Procs \ {p} : Minted(q)' = Minted(q)
        BY <1>1 DEF Minted, Granting, Inserting
    <2>2. \A id \in issued' : id \in 1..(next - 1)
        BY <1>3 DEF IInv, IdsAreFresh
    <2>3. ASSUME NEW q \in Procs \ {p}, NEW id \in Minted(q)
          PROVE  id \in 1..MaxGrants /\ id < next /\ id \notin issued'
                 /\ \A r \in Procs \ {q} : id \notin Minted(r)
        BY DEF IInv, IdsAreFresh
    <2> QED
        BY <2>1, <2>2, <2>3 DEF IdsAreFresh
<1>6. LocksAreExclusive'
    BY <1>1, <1>2 DEF IInv, TypeOK, Lock, LocksAreExclusive
<1>7. ASSUME NEW q \in Procs PROVE Consistent(q)'
    <2>1. CASE q # p
        BY <1>1, <1>2, <2>1, CommitKeeps
    <2>2. CASE q = p
        BY <1>1, <2>2
           DEF Consistent, GrantConsistent, DeleteConsistent, RevokeConsistent,
               LogoutConsistent, Granting, Inserting, Deleting, LoggingOut
    <2> QED
        BY <2>1, <2>2
<1> QED
    BY <1>4, <1>5, <1>6, <1>7 DEF IInv

LEMMA CommitGrantStep ==
    ASSUME IInv, NEW p \in Procs, CommitGrant(p)
    PROVE  IInv'
<1> DEFINE new   == tx[p].new
           token == tx[p].token
<1>1. /\ tx[p].at = "commitGrant" /\ Finish(p)
      /\ refresh' = {r \in refresh : r.id # token} \cup {new}
      /\ access' = (access \ {token}) \cup {new.id}
      /\ issued' = issued \cup {new.id}
      /\ since' = [q \in Procs |-> IF LoggingOut(q) THEN since[q] \cup {new.id} ELSE {}]
      /\ revoked' = revoked /\ next' = next
    BY DEF CommitGrant
<1>2. new \in Row /\ token \in Nat /\ new.id \in Nat
    BY <1>1, InTx, TxFields DEF Row
<1>3. Minted(p) = {new.id} /\ new.id \notin issued /\ new.id # 0
    <2>1. Minted(p) = {new.id}
        BY <1>1 DEF Minted, Granting, Inserting
    <2>2. \A id \in 1..MaxGrants : id # 0
        BY Constants
    <2> QED
        BY <2>1, <2>2 DEF IInv, IdsAreFresh
<1>4. ~LoggingOut(p)
    BY <1>1 DEF LoggingOut
<1>5. /\ Locked(p, Device(new.ds))
      /\ (token # 0 => Locked(p, Refresh(token)))
    BY <1>1, InTx DEF GrantConsistent, Inserting
<1>6. /\ refresh' \subseteq Row /\ access' \subseteq Nat /\ revoked' \subseteq Devices
      /\ since' \in [Procs -> SUBSET Nat]
    BY <1>1, <1>2 DEF IInv, TypeOK
<1>7. since'[p] = {}
    BY <1>1, <1>4
<1>8. RowsAreIssued'
    <2>1. \A r \in refresh : r.id \in issued
        BY IssuedIds
    <2> QED
        BY <1>1, <1>3, <2>1 DEF IInv, RowsAreIssued, RefreshIds
<1>9. ASSUME NEW q \in Procs \ {p}
      PROVE  SeesCommit(p, q)
    <2>1. ASSUME NEW r \in refresh, Locked(q, Refresh(r.id))
          PROVE  r.id # token
        <3>1. r.id # 0
            BY IssuedIds
        <3>2. ~(Locked(p, Refresh(r.id)) /\ Locked(q, Refresh(r.id)))
            <4>1. \A row : [row |-> row, by |-> p].row = row /\ [row |-> row, by |-> p].by = p
                           /\ [row |-> row, by |-> q].row = row /\ [row |-> row, by |-> q].by = q
                OBVIOUS
            <4> QED
                BY <4>1 DEF Locked, IInv, LocksAreExclusive
        <3> QED
            BY <1>5, <2>1, <3>1, <3>2
    <2>2. since'[q] = IF LoggingOut(q) THEN since[q] \cup {new.id} ELSE {}
        BY <1>1
    <2>3. ~LoggingOut(q) => since[q] = {}
        BY InTx
    <2> QED
        BY <1>1, <1>3, <1>5, <2>1, <2>2, <2>3 DEF SeesCommit
<1> QED
    BY <1>1, <1>3, <1>6, <1>7, <1>8, <1>9, CommitStep

\* Whoever commits a deletion removes rows that are locked.
LEMMA DeletedIsNotWanted ==
    ASSUME IInv, NEW p \in Procs, Deleting(p), NEW q \in Procs, q # p,
           NEW r \in refresh, Locked(q, Refresh(r.id))
    PROVE  Refresh(r.id) \notin tx[p].gone
<1>1. Refresh(r.id) \in tx[p].gone => Locked(p, Refresh(r.id))
    BY InTx DEF DeleteConsistent
<1>2. \A row : [row |-> row, by |-> p].row = row /\ [row |-> row, by |-> p].by = p
               /\ [row |-> row, by |-> q].row = row /\ [row |-> row, by |-> q].by = q
    OBVIOUS
<1> QED
    BY <1>1, <1>2 DEF Locked, IInv, LocksAreExclusive

LEMMA CommitRevokeStep ==
    ASSUME IInv, NEW p \in Procs, CommitRevoke(p)
    PROVE  IInv'
<1>1. /\ tx[p].at = "deleteRows" /\ Finish(p)
      /\ revoked' = revoked \cup {tx[p].ds}
      /\ refresh' = {r \in refresh : Refresh(r.id) \notin tx[p].gone}
      /\ UNCHANGED <<access, next, issued, since>>
    BY DEF CommitRevoke, history
<1>2. tx[p].ds \in Devices /\ Locked(p, Device(tx[p].ds))
    BY <1>1, InTx, TxFields DEF RevokeConsistent
<1>3. Deleting(p) /\ ~LoggingOut(p)
    BY <1>1 DEF Deleting, LoggingOut
<1>4. /\ refresh' \subseteq Row /\ access' \subseteq Nat /\ revoked' \subseteq Devices
      /\ since' \in [Procs -> SUBSET Nat]
    BY <1>1, <1>2 DEF IInv, TypeOK
<1>5. since'[p] = {}
    BY <1>1, <1>3, InTx
<1>6. RowsAreIssued'
    BY <1>1 DEF IInv, RowsAreIssued, RefreshIds
<1>7. ASSUME NEW q \in Procs \ {p}
      PROVE  SeesCommit(p, q)
    <2>1. \A r \in refresh : Locked(q, Refresh(r.id)) => r \in refresh'
        BY <1>1, <1>3, DeletedIsNotWanted
    <2>2. ~LoggingOut(q) => since[q] = {}
        BY InTx
    <2> QED
        BY <1>1, <1>2, <2>1, <2>2 DEF SeesCommit
<1> QED
    BY <1>1, <1>4, <1>5, <1>6, <1>7, CommitStep

LEMMA CommitLogoutStep ==
    ASSUME IInv, NEW p \in Procs, CommitLogout(p)
    PROVE  IInv'
<1>1. /\ tx[p].at = "deleteAccessRows" /\ Finish(p)
      /\ refresh' = {r \in refresh : Refresh(r.id) \notin tx[p].gone}
      /\ access' \subseteq access
      /\ since' = [since EXCEPT ![p] = {}]
      /\ UNCHANGED <<revoked, next, issued>>
    BY DEF CommitLogout
<1>2. Deleting(p)
    BY <1>1 DEF Deleting, LoggingOut
<1>3. /\ refresh' \subseteq Row /\ access' \subseteq Nat /\ revoked' \subseteq Devices
      /\ since' \in [Procs -> SUBSET Nat] /\ since'[p] = {}
      /\ \A q \in Procs \ {p} : since'[q] = since[q]
    BY <1>1 DEF IInv, TypeOK
<1>4. RowsAreIssued'
    BY <1>1 DEF IInv, RowsAreIssued, RefreshIds
<1>5. ASSUME NEW q \in Procs \ {p}
      PROVE  SeesCommit(p, q)
    <2>1. \A r \in refresh : Locked(q, Refresh(r.id)) => r \in refresh'
        BY <1>1, <1>2, DeletedIsNotWanted
    <2>2. ~LoggingOut(q) => since[q] = {}
        BY InTx
    <2> QED
        BY <1>1, <1>3, <2>1, <2>2 DEF SeesCommit
<1> QED
    BY <1>1, <1>3, <1>4, <1>5, CommitStep

LEMMA RollbackStep ==
    ASSUME IInv, NEW p \in Procs, Rollback(p)
    PROVE  IInv'
BY FinishStep DEF Rollback, tables

LEMMA NextIInv == IInv /\ [Next]_vars => IInv'
<1> SUFFICES ASSUME IInv, [Next]_vars PROVE IInv'
    OBVIOUS
<1>1. ASSUME NEW p \in Procs, Begin(p) PROVE IInv'
    BY <1>1, BeginGrantStep, BeginRevokeStep, BeginLogoutStep DEF Begin
<1>2. ASSUME NEW p \in Procs, Statement(p) PROVE IInv'
    BY <1>2, SelectStep, DeleteAccessStep, DeleteRefreshStep, InsertStep, TouchStep,
       CommitGrantStep, MarkStep, ScanStep, DeleteSessionRowStep, CommitRevokeStep,
       ScanRefreshStep, DeleteRefreshRowStep, ScanAccessStep, DeleteAccessRowStep,
       CommitLogoutStep
       DEF Statement
<1>3. ASSUME NEW p \in Procs, Rollback(p) PROVE IInv'
    BY <1>3, RollbackStep
<1>4. CASE UNCHANGED vars
    <2>1. \A p \in Procs : Minted(p)' = Minted(p)
        BY <1>4 DEF vars, tables, history, Minted, Granting, Inserting
    <2>2. TypeOK' /\ IdsAreFresh' /\ RowsAreIssued' /\ LocksAreExclusive'
        BY <1>4, <2>1
           DEF vars, tables, history, IInv, TypeOK, IdsAreFresh, RowsAreIssued, RefreshIds,
               LocksAreExclusive
    <2>3. ASSUME NEW p \in Procs PROVE Consistent(p)'
        <3>1. \A row : Locked(p, row) => Locked(p, row)'
            BY <1>4 DEF vars, Locked
        <3> QED
            BY <1>4, <3>1, OthersStay DEF IInv, vars, tables, history
    <2> QED
        BY <2>2, <2>3 DEF IInv
<1> QED
    BY <1>1, <1>2, <1>3, <1>4 DEF Next

-----------------------------------------------------------------------------
(***************************************************************************)
(* The theorems.                                                           *)
(***************************************************************************)

\* The inductive invariant: the rows have their types, an id is issued once, a
\* row has one lock and its holder runs, and what each transaction has read or
\* locked agrees with the committed tables.
THEOREM Invariance == Spec => []IInv
<1>1. Init => IInv
    BY InitIInv
<1>2. IInv /\ [Next]_vars => IInv'
    BY NextIInv
<1> QED
    BY <1>1, <1>2, PTL DEF Spec

-----------------------------------------------------------------------------
(***************************************************************************)
(* Atomicity: a commit is the step of the abstract specification, and all  *)
(* that comes before it is invisible.                                      *)
(***************************************************************************)

LEMMA CommitGrantIssues ==
    ASSUME IInv, NEW p \in Procs, CommitGrant(p)
    PROVE  /\ tx[p].new.id \in 1..MaxGrants
           /\ Atomic!Issue(tx[p].new.id)
<1> DEFINE id == tx[p].new.id
           running == {q \in Procs : LoggingOut(q)}
<1>1. /\ tx[p].at = "commitGrant" /\ issued' = issued \cup {id}
      /\ since' = [q \in Procs |-> IF LoggingOut(q) THEN since[q] \cup {id} ELSE {}]
    BY DEF CommitGrant
<1>2. id \in 1..MaxGrants /\ id \notin issued
    <2>1. id \in Minted(p)
        BY <1>1 DEF Minted, Granting, Inserting
    <2> QED
        BY <2>1 DEF IInv, IdsAreFresh
<1>3. \A q \in Procs : ~LoggingOut(q) => since[q] = {}
    BY InTx
<1>4. since' = [q \in Procs |-> IF q \in running THEN since[q] \cup {id} ELSE since[q]]
    BY <1>1, <1>3
<1>5. running \in SUBSET Procs
    OBVIOUS
<1> HIDE DEF running, id
<1>6. Atomic!Issue(id)
    BY <1>1, <1>2, <1>4, <1>5 DEF Atomic!Issue
<1> QED
    BY <1>2, <1>6 DEF id

LEMMA CommitGrantIsAtomic ==
    ASSUME IInv, NEW p \in Procs, CommitGrant(p)
    PROVE  Atomic!Next
<1> DEFINE new   == tx[p].new
           token == tx[p].token
<1>1. /\ tx[p].at = "commitGrant"
      /\ refresh' = {r \in refresh : r.id # token} \cup {new}
      /\ access' = (access \ {token}) \cup {new.id}
      /\ revoked' = revoked
    BY DEF CommitGrant
<1>2. new \in Row
    BY <1>1, InTx, TxFields
<1>3. new = [id |-> new.id, ds |-> new.ds, family |-> new.family] /\ new.ds \in Devices
    BY <1>2 DEF Row
<1>4. new.id \in 1..MaxGrants /\ Atomic!Issue(new.id)
    BY CommitGrantIssues
<1>5. IF token = 0 THEN new.family = new.id
      ELSE \E r \in refresh : r.id = token /\ r.ds = new.ds /\ r.family = new.family
    BY <1>1, InTx DEF GrantConsistent, Inserting
<1>6. /\ \A r \in refresh : r.id # 0
      /\ \A id \in access : id # 0
      /\ \A r, s \in refresh : r.id = s.id => r = s
    BY IssuedIds DEF IInv, RowsAreIssued
<1> HIDE DEF new, token
<1>7. CASE token = 0
    <2>1. refresh' = refresh \cup {new} /\ access' = access \cup {new.id}
        BY <1>1, <1>6, <1>7
    <2>2. new = [id |-> new.id, ds |-> new.ds, family |-> new.id]
        BY <1>3, <1>5, <1>7
    <2>3. Atomic!Grant(new)
        BY <1>1, <1>4, <1>5, <1>7, <2>1 DEF Atomic!Grant
    <2>4. Atomic!Grant([id |-> new.id, ds |-> new.ds, family |-> new.id])
        BY <2>2, <2>3
    <2> QED
        BY <1>3, <1>4, <2>4 DEF Atomic!Next
<1>8. CASE token # 0
    <2>1. PICK old \in refresh : old.id = token /\ old.ds = new.ds /\ old.family = new.family
        BY <1>5, <1>8
    <2>2. {r \in refresh : r.id # token} = refresh \ {old}
        BY <1>6, <2>1
    <2>3. refresh' = (refresh \ {old}) \cup {new} /\ access' = (access \ {old.id}) \cup {new.id}
        BY <1>1, <2>1, <2>2
    <2>4. Atomic!Rotate(old, new)
        BY <1>1, <1>4, <2>1, <2>3 DEF Atomic!Rotate
    <2>5. Atomic!Rotate(old, [id |-> new.id, ds |-> old.ds, family |-> old.family])
        BY <1>3, <2>1, <2>4
    <2> QED
        BY <1>4, <2>5 DEF Atomic!Next
<1> QED
    BY <1>7, <1>8

LEMMA CommitRevokeIsAtomic ==
    ASSUME IInv, NEW p \in Procs, CommitRevoke(p)
    PROVE  Atomic!Next
<1>1. /\ tx[p].at = "deleteRows" /\ tx[p].todo = {}
      /\ revoked' = revoked \cup {tx[p].ds}
      /\ refresh' = {r \in refresh : Refresh(r.id) \notin tx[p].gone}
      /\ UNCHANGED <<access, issued, since>>
    BY DEF CommitRevoke, history
<1>2. /\ tx[p].ds \in Devices /\ tx[p].ds \notin revoked
      /\ \A r \in refresh : r.ds = tx[p].ds <=> Refresh(r.id) \in tx[p].gone
    BY <1>1, InTx, TxFields DEF RevokeConsistent
<1>3. refresh' = {r \in refresh : r.ds # tx[p].ds}
    BY <1>1, <1>2
<1>4. Atomic!Revoke(tx[p].ds)
    BY <1>1, <1>2, <1>3 DEF Atomic!Revoke
<1> QED
    BY <1>2, <1>4 DEF Atomic!Next

LEMMA CommitLogoutIsAtomic ==
    ASSUME IInv, NEW p \in Procs, CommitLogout(p)
    PROVE  Atomic!Next
<1>1. /\ tx[p].at = "deleteAccessRows" /\ tx[p].todo = {}
      /\ refresh' = {r \in refresh : Refresh(r.id) \notin tx[p].gone}
      /\ access' = {id \in access : Access(id) \notin tx[p].gone}
      /\ since' = [since EXCEPT ![p] = {}]
      /\ UNCHANGED <<revoked, issued>>
    BY DEF CommitLogout
<1>2. /\ \A r \in refresh : (r.id \in since[p] \/ Refresh(r.id) \in tx[p].gone)
      /\ \A id \in access : (id \in since[p] \/ Access(id) \in tx[p].gone)
    BY <1>1, InTx DEF LogoutConsistent
<1>3. Atomic!Logout(p)
    BY <1>1, <1>2 DEF Atomic!Logout
<1> QED
    BY <1>3 DEF Atomic!Next

LEMMA StepIsAtomic == IInv /\ [Next]_vars => [Atomic!Next]_(Atomic!vars)
<1> SUFFICES ASSUME IInv, [Next]_vars PROVE [Atomic!Next]_(Atomic!vars)
    OBVIOUS
<1>1. ASSUME NEW p \in Procs, Begin(p) PROVE UNCHANGED Atomic!vars
    BY <1>1
       DEF Begin, BeginExchange, BeginRotate, BeginRevoke, BeginLogout, tables, history,
           Atomic!vars
<1>2. ASSUME NEW p \in Procs, Statement(p)
      PROVE  Atomic!Next \/ UNCHANGED Atomic!vars
    <2>1. CASE CommitGrant(p) \/ CommitRevoke(p) \/ CommitLogout(p)
        BY <2>1, CommitGrantIsAtomic, CommitRevokeIsAtomic, CommitLogoutIsAtomic
    <2>2. CASE \/ SelectOld(p) \/ DeleteAccess(p) \/ DeleteRefresh(p) \/ Insert(p)
               \/ Touch(p) \/ Mark(p) \/ Scan(p) \/ ScanRefresh(p) \/ ScanAccess(p)
        BY <2>2
           DEF SelectOld, DeleteAccess, DeleteRefresh, Insert, Touch, Mark, Scan, ScanRefresh,
               ScanAccess, tables, history, Atomic!vars
    <2>3. CASE DeleteSessionRow(p) \/ DeleteRefreshRow(p) \/ DeleteAccessRow(p)
        <3>1. \A rows, kind : DeleteRow(p, rows, kind) => UNCHANGED Atomic!vars
            BY DEF DeleteRow, tables, history, Atomic!vars
        <3> QED
            BY <2>3, <3>1 DEF DeleteSessionRow, DeleteRefreshRow, DeleteAccessRow
    <2> QED
        BY <1>2, <2>1, <2>2, <2>3 DEF Statement
<1>3. ASSUME NEW p \in Procs, Rollback(p) PROVE Atomic!Next
    <2>1. Atomic!ResetLogout(p)
        BY <1>3 DEF Rollback, tables, Atomic!ResetLogout
    <2> QED
        BY <2>1 DEF Atomic!Next
<1>4. CASE UNCHANGED vars
    BY <1>4 DEF vars, tables, history, Atomic!vars
<1> QED
    BY <1>1, <1>2, <1>3, <1>4 DEF Next

\* Exchange, rotation and revocation take effect at their commit, and a logout
\* removes all that was issued before it began: whatever the statements of other
\* transactions between theirs, no refresh token is left on a revoked session.
THEOREM TransactionsAreAtomic == Spec => ImplementsAtomic
<1>1. Init => Atomic!Init
    BY DEF Init, Atomic!Init
<1>2. IInv /\ [Next]_vars => [Atomic!Next]_(Atomic!vars)
    BY StepIsAtomic
<1> QED
    BY <1>1, <1>2, Invariance, PTL DEF Spec, ImplementsAtomic, Atomic!Spec

-----------------------------------------------------------------------------
(***************************************************************************)
(* Waiting.                                                                *)
(***************************************************************************)

\* In a finite set where everybody waits for somebody, some wait for each other.
LEMMA WaitingInCircles ==
    ASSUME NEW W, IsFiniteSet(W), W # {}, NEW waits,
           \A p \in W : \E q \in W : <<p, q>> \in waits
    PROVE  \E D \in SUBSET W :
              /\ D # {}
              /\ \A p \in D : (\E q \in D : <<p, q>> \in waits) /\ (\E q \in D : <<q, p>> \in waits)
<1> DEFINE closed == {D \in SUBSET W : D # {} /\ \A p \in D : \E q \in D : <<p, q>> \in waits}
<1>1. IsWellFoundedOn(StrictSubsetOrdering(W), SUBSET W)
    BY FS_StrictSubsetOrderingWellFounded, FS_FiniteSubsetsOfFinite
<1>2. W \in closed /\ closed \subseteq SUBSET W
    OBVIOUS
<1>3. PICK D \in closed : \A C \in closed : <<C, D>> \notin StrictSubsetOrdering(W)
    <2> HIDE DEF closed
    <2> QED
        BY <1>1, <1>2, WFMin
<1>4. ASSUME NEW p \in D PROVE \E q \in D : <<q, p>> \in waits
    <2> SUFFICES ASSUME \A q \in D : <<q, p>> \notin waits PROVE FALSE
        OBVIOUS
    <2> DEFINE C == D \ {p}
    <2>1. C \in closed
        <3>1. D \subseteq W /\ \A r \in D : \E q \in D : <<r, q>> \in waits
            BY <1>2
        <3>2. PICK q \in D : <<p, q>> \in waits
            BY <3>1
        <3>3. q \in C
            BY <3>2
        <3>4. \A r \in C : \E t \in C : <<r, t>> \in waits
            BY <3>1
        <3> QED
            BY <3>1, <3>3, <3>4
    <2>2. <<C, D>> \in StrictSubsetOrdering(W)
        BY <1>2 DEF StrictSubsetOrdering
    <2> QED
        BY <1>3, <2>1, <2>2
<1> QED
    BY <1>3, <1>4

\* Whoever waits for a row waits for a transaction that runs.
LEMMA HoldersRun ==
    ASSUME IInv, NEW p, NEW q, WaitsFor(p, q)
    PROVE  q \in Procs /\ tx[q] # Idle
<1>1. PICK l \in locks : l.by = q
    BY DEF WaitsFor
<1> QED
    BY <1>1 DEF IInv, TypeOK, LocksAreExclusive, Lock

LEMMA IInvImpliesNobodyWaits == IInv => NobodyWaitsForEver
<1> DEFINE waits     == {e \in Procs \X Procs : WaitsFor(e[1], e[2])}
           goesOn(p) == tx[p] # Idle /\ \A e \in waits : e[1] # p
<1> SUFFICES ASSUME IInv, NEW S \in SUBSET Procs,
                    \E e \in waits : e[1] \in S,
                    \A e \in waits : e[1] \in S => e[2] \in S,
                    \A p \in S : ~goesOn(p)
             PROVE  \E D \in SUBSET S : D # {} /\ Deadlock(D)
    BY DEF NobodyWaitsForEver
<1>1. \A p, q \in Procs : <<p, q>> \in waits <=> WaitsFor(p, q)
    OBVIOUS
<1>2. \A e \in waits : e = <<e[1], e[2]>> /\ e[1] \in Procs /\ e[2] \in Procs
    OBVIOUS
<1> DEFINE W == {p \in S : \E q \in Procs : <<p, q>> \in waits}
<1>3. W # {}
    BY <1>2
<1>4. ASSUME NEW p \in W PROVE \E q \in W : <<p, q>> \in waits
    <2>1. PICK q \in Procs : <<p, q>> \in waits
        OBVIOUS
    <2>2. q \in S /\ tx[q] # Idle
        BY <1>1, <2>1, HoldersRun
    <2>3. PICK e \in waits : e[1] = q
        BY <2>2
    <2> QED
        BY <1>2, <2>1, <2>2, <2>3
<1>5. IsFiniteSet(W)
    BY Constants, FS_Subset
<1> HIDE DEF W, waits
<1>6. PICK D \in SUBSET W :
          /\ D # {}
          /\ \A p \in D : (\E q \in D : <<p, q>> \in waits) /\ (\E q \in D : <<q, p>> \in waits)
    BY <1>3, <1>4, <1>5, WaitingInCircles
<1>7. D \in SUBSET S
    BY DEF W
<1>8. Deadlock(D)
    BY <1>1, <1>6, <1>7 DEF Deadlock
<1> QED
    BY <1>6, <1>7, <1>8

\* No transaction waits for ever: among any transactions that wait for nobody
\* else, one can go on or some are a deadlock, which PostgreSQL ends.  A lock never
\* outlives its transaction, whichever way that one ends.
THEOREM WaitsEnd == Spec => []NobodyWaitsForEver
BY Invariance, IInvImpliesNobodyWaits, PTL

=============================================================================
