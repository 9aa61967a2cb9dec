--------------------------- MODULE AccountsProofs ---------------------------
(***************************************************************************)
(* Proofs about Accounts: one account per provider account, users who can  *)
(* always sign in, overrides and verified addresses that are what they     *)
(* seem, for any number of users, provider accounts and sign-ins at a time.*)
(***************************************************************************)
EXTENDS Accounts, FiniteSetTheorems, TLAPS

-----------------------------------------------------------------------------
(***************************************************************************)
(* The records of claims, calls and rows.                                  *)
(***************************************************************************)

\* What a call record holds, by the step it is at.
LEMMA CallFields ==
    ASSUME NEW c \in {Idle} \cup SignIn
    PROVE  /\ c.at \in {"idle", "create", "updateUser", "updateIdentity"}
           /\ (c.at = "idle" <=> c = Idle)
           /\ (c.at # "idle" => /\ c.subject \in Subjects
                                /\ c.claims \in FederatedClaims
                                /\ c.alone \in BOOLEAN)
           /\ (c.at \in {"updateUser", "updateIdentity"} => c.user \in Ids)
BY DEF SignIn, Idle

\* A sign-in goes on to the second UPDATE and keeps what it has found.
LEMMA NextCall ==
    ASSUME NEW c \in {Idle} \cup SignIn, c.at = "updateUser"
    PROVE  LET d == [c EXCEPT !.at = "updateIdentity"]
           IN  /\ d \in SignIn
               /\ d.at = "updateIdentity" /\ d.subject = c.subject /\ d.claims = c.claims
               /\ d.user = c.user /\ d.alone = c.alone
<1>1. c \in [at : {"updateUser", "updateIdentity"}, subject : Subjects,
             claims : FederatedClaims, alone : BOOLEAN, user : Ids]
    BY DEF SignIn, Idle
<1> QED
    BY <1>1 DEF SignIn

LEMMA IdleCall == Idle.at = "idle"
BY DEF Idle

\* The call records that a sign-in begins with.
LEMMA NewCalls ==
    ASSUME NEW s \in Subjects, NEW c \in FederatedClaims, NEW a \in BOOLEAN
    PROVE  /\ [at |-> "create", subject |-> s, claims |-> c, alone |-> a] \in SignIn
           /\ \A u \in Ids : [at |-> "updateUser", subject |-> s, claims |-> c,
                              alone |-> a, user |-> u] \in SignIn
BY DEF SignIn

\* A provider calls an address verified only if it has verified it: Google in its
\* id_token, GitHub by the list of addresses (fetchPrimaryEmail).
LEMMA FetchedClaims ==
    ASSUME NEW s, NEW c \in FetchClaims(s)
    PROVE  /\ c \in FederatedClaims
           /\ c.verified => c.email \in VerifiedEmails
<1>1. PICK t \in Claims : c \in GoogleClaims(t) \/ c \in GitHubClaims(t)
    BY DEF FetchClaims
<1>2. CASE c \in GoogleClaims(t)
    <2>1. CASE \E e \in VerifiedEmails : c = [text |-> t, email |-> e, verified |-> TRUE]
        <3>1. PICK e \in VerifiedEmails : c = [text |-> t, email |-> e, verified |-> TRUE]
            BY <2>1
        <3>2. e \in Emails
            BY AccountsAssumption
        <3> QED
            BY <3>1, <3>2 DEF FederatedClaims
    <2>2. CASE \E e \in Emails : c = [text |-> t, email |-> e, verified |-> FALSE]
        BY <2>2 DEF FederatedClaims
    <2> QED
        BY <1>2, <2>1, <2>2 DEF GoogleClaims
<1>3. CASE c \in GitHubClaims(t)
    <2>1. ASSUME NEW list \in GitHubEmails, NEW e \in PrimaryEmail(list)
          PROVE  e \in VerifiedEmails \cup {NoEmail}
        BY DEF GitHubEmails, PrimaryEmail, AddressIn
    <2>2. CASE \E e \in Emails \cup {NoEmail} : c = [text |-> t, email |-> e, verified |-> FALSE]
        BY <2>2 DEF FederatedClaims
    <2>3. CASE \E e \in UNION {PrimaryEmail(list) : list \in GitHubEmails} :
                  c = [text |-> t, email |-> e, verified |-> e # NoEmail]
        <3>1. PICK e \in UNION {PrimaryEmail(list) : list \in GitHubEmails} :
                  c = [text |-> t, email |-> e, verified |-> e # NoEmail]
            BY <2>3
        <3>2. e \in VerifiedEmails \cup {NoEmail} /\ (e # NoEmail) \in BOOLEAN
            BY <2>1, <3>1
        <3>3. c.email = e /\ c.verified = (e # NoEmail)
            BY <3>1
        <3>4. c \in FederatedClaims
            BY <3>1, <3>2, AccountsAssumption DEF FederatedClaims
        <3> QED
            BY <3>2, <3>3, <3>4
    <2> QED
        BY <1>3, <2>2, <2>3 DEF GitHubClaims
<1> QED
    BY <1>1, <1>2, <1>3

\* The UPDATEs keep the ids of a row, and what they do not write.
LEMMA WithClaimsFields ==
    ASSUME NEW u \in User, NEW c \in FederatedClaims
    PROVE  LET w == WithClaims(u, c)
           IN  /\ w \in User
               /\ w.id = u.id /\ w.local = u.local
               /\ w.email = c.email /\ w.verified = c.verified
<1>1. [f \in Fields |-> IF u.local[f] = NotSet THEN c.text ELSE u.shown[f]] \in [Fields -> Claims]
    BY DEF User, FederatedClaims
<1> QED
    BY <1>1 DEF WithClaims, User, FederatedClaims

LEMMA LocalFields ==
    ASSUME NEW u \in User, NEW l \in [Fields -> Names \cup {NotSet}]
    PROVE  LET w == [u EXCEPT !.local = l]
           IN  /\ w \in User
               /\ w.id = u.id /\ w.email = u.email /\ w.verified = u.verified /\ w.local = l
BY DEF User

LEMMA EditedFields ==
    ASSUME NEW old \in [Fields -> Names \cup {NotSet}], NEW edit \in Edits
    PROVE  Edited(old, edit) \in [Fields -> Names \cup {NotSet}]
BY DEF Edited, Edits

LEMMA IdentityFields ==
    ASSUME NEW fi \in Identity, NEW c \in FederatedClaims
    PROVE  LET w == [fi EXCEPT !.claims = c]
           IN  w \in Identity /\ w.user = fi.user /\ w.subject = fi.subject /\ w.claims = c
BY DEF Identity

-----------------------------------------------------------------------------
LEMMA InitIInv == Init => IInv
<1> SUFFICES ASSUME Init PROVE IInv
    OBVIOUS
<1>1. \A p \in Procs : call[p] = Idle /\ call[p].at = "idle"
    BY IdleCall DEF Init
<1>2. TypeOK
    <2>1. chosen \in [1..MaxUsers -> [Fields -> Names \cup {NotSet}]]
        BY DEF Init
    <2>2. call \in [Procs -> {Idle} \cup SignIn]
        BY DEF Init
    <2> QED
        BY <2>1, <2>2 DEF Init, TypeOK, Ids
<1>3. AccountKeys /\ LocalIsChosen /\ VerifiedMeansVerified
    <2>1. AccountKeys
        <3>1. nextUser <= MaxUsers + 1
            <4>1. MaxUsers \in Nat /\ nextUser = 1
                BY AccountsAssumption DEF Init
            <4> QED
                BY <4>1
        <3>2. users = {} /\ identities = {}
            BY DEF Init
        <3> QED
            BY <3>1, <3>2 DEF AccountKeys
    <2>2. LocalIsChosen
        BY DEF Init, LocalIsChosen
    <2> QED
        BY <2>1, <2>2 DEF Init, VerifiedMeansVerified
<1>4. SignInsAreLinked /\ AloneIsAlone /\ WrittenStands /\ ClaimsAreTrue
    BY <1>1 DEF Init, SignInsAreLinked, AloneIsAlone, WrittenStands, ClaimsAreTrue
<1> QED
    BY <1>2, <1>3, <1>4 DEF IInv

-----------------------------------------------------------------------------
(***************************************************************************)
(* Calls: the beginning and the end of a sign-in.                          *)
(***************************************************************************)

\* A sign-in that is alone stays so while others go on or end.
LEMMA AloneStays ==
    ASSUME AloneIsAlone,
           \A q \in Procs : \/ call'[q] = Idle
                            \/ /\ call[q] # Idle
                               /\ call'[q].subject = call[q].subject
                               /\ call'[q].alone = call[q].alone
    PROVE  AloneIsAlone'
BY DEF AloneIsAlone, Others

\* A sign-in ends without a trace: Fail, and the first sign-in that comes second.
LEMMA EndStep ==
    ASSUME IInv, NEW p \in Procs, Done(p),
           UNCHANGED <<users, identities, nextUser, signedIn, chosen>>
    PROVE  IInv'
<1>1. /\ \A q \in Procs : call'[q] = call[q] \/ (call'[q] = Idle /\ call'[q].at = "idle")
      /\ call' \in [Procs -> {Idle} \cup SignIn]
    BY IdleCall DEF Done, IInv, TypeOK
<1>2. AloneIsAlone'
    BY <1>1, AloneStays DEF IInv
<1> QED
    BY <1>1, <1>2
       DEF IInv, TypeOK, AccountKeys, SignInsAreLinked, Linked, WrittenStands, ClaimsAreTrue,
           LocalIsChosen, VerifiedMeansVerified, Profile

\* A sign-in begins: who was alone with its subject is so no longer.
LEMMA BeginStep ==
    ASSUME IInv, NEW p \in Procs, call[p] = Idle, NEW rec \in SignIn,
           rec.at \in {"create", "updateUser"},
           rec.claims.verified => rec.claims.email \in VerifiedEmails,
           rec.at = "updateUser" => Linked(rec.subject, rec.user),
           rec.alone = (Others(p, rec.subject) = {}),
           BeginSignIn(p, rec),
           UNCHANGED <<users, identities, nextUser, signedIn, chosen>>
    PROVE  IInv'
<1> DEFINE s == rec.subject
<1>1. call'[p] = rec
    BY DEF BeginSignIn
<1>2. ASSUME NEW q \in Procs, q # p
      PROVE  call'[q] = IF call[q] # Idle /\ call[q].subject = s
                        THEN [call[q] EXCEPT !.alone = FALSE] ELSE call[q]
    BY <1>2 DEF BeginSignIn, Others
<1>3. ASSUME NEW q \in Procs, q # p
      PROVE  /\ call'[q] \in {Idle} \cup SignIn
             /\ (call'[q] = Idle <=> call[q] = Idle)
             /\ call[q] # Idle => /\ call'[q].at = call[q].at
                                  /\ call'[q].subject = call[q].subject
                                  /\ call'[q].claims = call[q].claims
                                  /\ call[q].at # "create" => call'[q].user = call[q].user
                                  /\ call'[q].alone = (call[q].alone /\ call[q].subject # s)
    <2>1. call[q] \in {Idle} \cup SignIn
        BY DEF IInv, TypeOK
    <2>2. CASE call[q] # Idle /\ call[q].subject = s
        <3>1. call[q] \in SignIn /\ call'[q] = [call[q] EXCEPT !.alone = FALSE]
            BY <1>2, <1>3, <2>1, <2>2
        <3>2. CASE call[q] \in [at : {"create"}, subject : Subjects, claims : FederatedClaims,
                                alone : BOOLEAN]
            BY <2>2, <3>1, <3>2 DEF SignIn, Idle
        <3>3. CASE call[q] \in [at : {"updateUser", "updateIdentity"}, subject : Subjects,
                                claims : FederatedClaims, alone : BOOLEAN, user : Ids]
            BY <2>2, <3>1, <3>3 DEF SignIn, Idle
        <3> QED
            BY <3>1, <3>2, <3>3 DEF SignIn
    <2>3. CASE ~(call[q] # Idle /\ call[q].subject = s)
        <3>1. call'[q] = call[q]
            BY <1>2, <1>3, <2>3
        <3>2. call[q] # Idle => call[q].alone \in BOOLEAN
            BY <2>1, CallFields
        <3> QED
            BY <2>1, <2>3, <3>1, <3>2
    <2> QED
        BY <2>2, <2>3
<1>4. rec # Idle /\ rec.alone \in BOOLEAN
    BY IdleCall, CallFields
<1>5. TypeOK'
    <2>1. call' \in [Procs -> {Idle} \cup SignIn]
        BY <1>1, <1>3 DEF BeginSignIn
    <2> QED
        BY <2>1 DEF IInv, TypeOK
<1>6. AccountKeys' /\ LocalIsChosen' /\ VerifiedMeansVerified'
    BY DEF IInv, AccountKeys, LocalIsChosen, VerifiedMeansVerified, Profile
<1>7. SignInsAreLinked'
    <2>1. ASSUME NEW q \in Procs, call'[q].at \in {"updateUser", "updateIdentity"}
          PROVE  Linked(call'[q].subject, call'[q].user)
        <3>1. CASE q = p
            BY <1>1, <2>1, <3>1
        <3>2. CASE q # p
            BY <1>3, <2>1, <3>2, IdleCall DEF IInv, SignInsAreLinked
        <3> QED
            BY <3>1, <3>2
    <2> QED
        BY <2>1 DEF IInv, SignInsAreLinked, Linked
<1>8. AloneIsAlone'
    <2> SUFFICES ASSUME NEW q \in Procs, call'[q] # Idle, call'[q].alone,
                        NEW r \in Procs \ {q}, call'[r] # Idle,
                        call'[r].subject = call'[q].subject
                 PROVE  FALSE
        BY DEF AloneIsAlone, Others
    <2>1. CASE q = p
        <3>1. Others(p, s) = {}
            BY <1>1, <1>4, <2>1
        <3>2. call[r] # Idle /\ call[r].subject = s
            BY <1>1, <1>3, <2>1
        <3> QED
            BY <2>1, <3>1, <3>2 DEF Others
    <2>2. CASE r = p
        <3>1. q # p /\ call[q] # Idle /\ call[q].subject = s
            BY <1>1, <1>3, <2>2
        <3>2. ~call'[q].alone
            BY <1>3, <3>1
        <3> QED
            BY <3>2
    <2>3. CASE q # p /\ r # p
        <3>1. call[q] # Idle /\ call[q].alone /\ call'[q].subject = call[q].subject
            BY <1>3, <2>3
        <3>2. call[r] # Idle /\ call[r].subject = call[q].subject
            BY <1>3, <2>3, <3>1
        <3> QED
            BY <3>1, <3>2 DEF IInv, AloneIsAlone, Others
    <2> QED
        BY <2>1, <2>2, <2>3
<1>9. WrittenStands'
    <2> SUFFICES ASSUME NEW q \in Procs, call'[q].at = "updateIdentity", call'[q].alone
                 PROVE  \A u \in users : u.id = call'[q].user =>
                            /\ u.email = call'[q].claims.email
                            /\ u.verified = call'[q].claims.verified
        BY DEF WrittenStands
    <2>1. q # p
        BY <1>1
    <2>2. call[q] # Idle
        BY <1>3, <2>1, IdleCall
    <2>3. /\ call[q].at = "updateIdentity" /\ call[q].alone
          /\ call'[q].user = call[q].user /\ call'[q].claims = call[q].claims
        BY <1>3, <2>1, <2>2
    <2> QED
        BY <2>3 DEF IInv, WrittenStands
<1>10. ClaimsAreTrue'
    BY <1>1, <1>3 DEF IInv, ClaimsAreTrue
<1> QED
    BY <1>5, <1>6, <1>7, <1>8, <1>9, <1>10 DEF IInv

\* FindByFederatedIdentity: the account that is found is the subject's.
LEMMA FindStep ==
    ASSUME IInv, NEW p \in Procs, NEW s \in Subjects, NEW c \in FetchClaims(s),
           FindByFederatedIdentity(p, s, c)
    PROVE  IInv'
<1> DEFINE alone == Others(p, s) = {}
<1>1. c \in FederatedClaims /\ (c.verified => c.email \in VerifiedEmails)
    BY FetchedClaims
<1>2. call[p] = Idle /\ UNCHANGED <<users, identities, nextUser, signedIn, chosen>>
    BY DEF FindByFederatedIdentity, tables, history
<1>3. CASE BeginSignIn(p, [at |-> "create", subject |-> s, claims |-> c, alone |-> alone])
    <2> DEFINE rec == [at |-> "create", subject |-> s, claims |-> c, alone |-> alone]
    <2>1. rec \in SignIn
        BY <1>1, NewCalls
    <2> QED
        BY <1>1, <1>2, <1>3, <2>1, BeginStep
<1>4. ASSUME NEW u \in AccountOf(s, c),
             BeginSignIn(p, [at |-> "updateUser", subject |-> s, claims |-> c,
                             alone |-> alone, user |-> u.id])
      PROVE  IInv'
    <2> DEFINE rec == [at |-> "updateUser", subject |-> s, claims |-> c,
                       alone |-> alone, user |-> u.id]
    <2>1. u.id \in Ids /\ Linked(s, u.id)
        BY DEF AccountOf, Linked, IInv, TypeOK, User
    <2>2. rec \in SignIn
        BY <1>1, <2>1, NewCalls
    <2> QED
        BY <1>1, <1>2, <1>4, <2>1, <2>2, BeginStep
<1> QED
    BY <1>3, <1>4 DEF FindByFederatedIdentity

-----------------------------------------------------------------------------
(***************************************************************************)
(* The statements that write the tables.                                   *)
(***************************************************************************)

\* Who signs in has an id that was given out.
LEMMA LinkedIds ==
    ASSUME IInv, NEW s, NEW id, Linked(s, id)
    PROVE  id < nextUser
BY DEF IInv, AccountKeys, Linked

\* CreateWithFederatedIdentity, by either end of its one transaction.
LEMMA CreateStep ==
    ASSUME IInv, NEW p \in Procs, CreateWithFederatedIdentity(p)
    PROVE  IInv'
<1> DEFINE s   == call[p].subject
           c   == call[p].claims
           new == NewUser(c)
           fn  == [user |-> nextUser, subject |-> s, claims |-> c]
           taken == \E fi \in identities : fi.subject = s
<1>1. call[p].at = "create" /\ nextUser <= MaxUsers /\ Done(p) /\ chosen' = chosen
    BY DEF CreateWithFederatedIdentity
<1>2. s \in Subjects /\ c \in FederatedClaims /\ (c.verified => c.email \in VerifiedEmails)
    <2>1. call[p] \in {Idle} \cup SignIn
        BY DEF IInv, TypeOK
    <2>2. call[p] # Idle
        BY <1>1, IdleCall
    <2> QED
        BY <1>1, <2>1, <2>2, CallFields DEF IInv, ClaimsAreTrue
<1>3. CASE taken
    BY <1>1, <1>3, EndStep DEF CreateWithFederatedIdentity, tables
<1>4. CASE ~taken
    <2>1. /\ users' = users \cup {new} /\ identities' = identities \cup {fn}
          /\ signedIn' = signedIn \cup {<<s, nextUser>>} /\ nextUser' = nextUser + 1
        BY <1>4 DEF CreateWithFederatedIdentity
    <2>2. /\ \A q \in Procs : call'[q] = call[q] \/ (call'[q] = Idle /\ call'[q].at = "idle")
          /\ call' \in [Procs -> {Idle} \cup SignIn]
        BY <1>1, IdleCall DEF Done, IInv, TypeOK
    <2>3. /\ new \in User /\ new.id = nextUser /\ new.local = [f \in Fields |-> NotSet]
          /\ new.verified = c.verified /\ new.email = c.email
          /\ fn \in Identity
        <3>1. nextUser \in Ids
            BY DEF IInv, TypeOK
        <3> QED
            BY <1>2, <3>1 DEF NewUser, User, Identity, Texts, FederatedClaims
    <2>4. TypeOK'
        <3>1. nextUser + 1 \in Ids
            BY DEF IInv, TypeOK, Ids
        <3>2. <<s, nextUser>> \in Subjects \X Ids
            BY <1>2 DEF IInv, TypeOK
        <3> QED
            BY <1>1, <2>1, <2>2, <2>3, <3>1, <3>2 DEF IInv, TypeOK
    <2>5. AccountKeys'
        <3>1. nextUser \in Nat /\ MaxUsers \in Nat
            BY AccountsAssumption DEF IInv, TypeOK, Ids
        <3>2. \A u \in users : u.id \in Nat /\ u.id < nextUser
            BY DEF IInv, TypeOK, AccountKeys, User, Ids
        <3>3. \A fi \in identities : fi.user # nextUser /\ fi.subject # s
            BY <1>4, <3>1, <3>2 DEF IInv, AccountKeys
        <3>4. fn.user = nextUser /\ fn.subject = s
            OBVIOUS
        <3>5. nextUser' <= MaxUsers + 1 /\ \A u \in users' : u.id < nextUser'
            BY <1>1, <2>1, <2>3, <3>1, <3>2
        <3>6. \A u, v \in users' : u.id = v.id => u = v
            BY <2>1, <2>3, <3>1, <3>2 DEF IInv, AccountKeys
        <3>7. \A fi, fj \in identities' :
                  (fi.subject = fj.subject \/ fi.user = fj.user) => fi = fj
            BY <2>1, <3>3, <3>4 DEF IInv, AccountKeys
        <3>8. /\ \A u \in users' : \E fi \in identities' : fi.user = u.id
              /\ \A fi \in identities' : \E u \in users' : u.id = fi.user
            BY <2>1, <2>3, <3>4 DEF IInv, AccountKeys
        <3> QED
            BY <3>5, <3>6, <3>7, <3>8 DEF AccountKeys
    <2>6. SignInsAreLinked'
        <3>1. \A t, id : Linked(t, id) => Linked(t, id)'
            BY <2>1 DEF Linked
        <3>2. \E fi \in identities' : fi.subject = s /\ fi.user = nextUser
            <4>1. fn \in identities' /\ fn.subject = s /\ fn.user = nextUser
                BY <2>1
            <4> HIDE DEF fn
            <4> QED
                BY <4>1
        <3>3. ASSUME NEW a \in signedIn'
              PROVE  Linked(a[1], a[2])'
            <4>1. CASE a \in signedIn
                BY <3>1, <4>1 DEF IInv, SignInsAreLinked
            <4>2. CASE a = <<s, nextUser>>
                BY <3>2, <4>2 DEF Linked
            <4> QED
                BY <2>1, <4>1, <4>2
        <3>4. \A q \in Procs : call'[q].at \in {"updateUser", "updateIdentity"} =>
                                   Linked(call[q].subject, call[q].user)'
            BY <2>2, <3>1 DEF IInv, SignInsAreLinked
        <3> QED
            BY <3>3, <3>4 DEF SignInsAreLinked
    <2>7. AloneIsAlone'
        BY <2>2, AloneStays DEF IInv
    <2>8. WrittenStands'
        <3> SUFFICES ASSUME NEW q \in Procs, call'[q].at = "updateIdentity", call'[q].alone,
                            NEW u \in users', u.id = call'[q].user
                     PROVE  u.email = call'[q].claims.email /\ u.verified = call'[q].claims.verified
            BY DEF WrittenStands
        <3>1. call'[q] = call[q]
            BY <2>2
        <3>2. call[q].user < nextUser
            BY <3>1, LinkedIds DEF IInv, SignInsAreLinked
        <3>3. nextUser \in Nat
            BY DEF IInv, TypeOK, Ids
        <3>4. u \in users
            BY <2>1, <2>3, <3>1, <3>2, <3>3
        <3> QED
            BY <3>1, <3>4 DEF IInv, WrittenStands
    <2>9. ClaimsAreTrue'
        BY <2>2 DEF IInv, ClaimsAreTrue
    <2>10. LocalIsChosen'
        <3>0. nextUser \in Nat \ {0} /\ MaxUsers \in Nat
            BY AccountsAssumption DEF IInv, TypeOK, Ids
        <3>1. nextUser \in 1..MaxUsers
            BY <1>1, <3>0
        <3>2. new.local = chosen[new.id]
            BY <2>3, <3>1 DEF IInv, LocalIsChosen
        <3>3. \A u \in users' : u.local = chosen[u.id]
            BY <2>1, <3>2 DEF IInv, LocalIsChosen
        <3>4. \A n \in 1..MaxUsers : nextUser' <= n => chosen[n] = [f \in Fields |-> NotSet]
            <4>1. \A n \in 1..MaxUsers : nextUser + 1 <= n => nextUser <= n
                BY <3>0
            <4> QED
                BY <2>1, <4>1 DEF IInv, LocalIsChosen
        <3> QED
            BY <1>1, <3>3, <3>4 DEF LocalIsChosen
    <2>11. VerifiedMeansVerified'
        BY <1>2, <2>1, <2>3 DEF IInv, VerifiedMeansVerified, Profile
    <2> QED
        BY <2>4, <2>5, <2>6, <2>7, <2>8, <2>9, <2>10, <2>11 DEF IInv
<1> QED
    BY <1>3, <1>4

\* UpdateUserFromClaims: address and flag are written together.  Another sign-in of
\* the user is one of the same subject, and neither is alone.
LEMMA UpdateUserStep ==
    ASSUME IInv, NEW p \in Procs, UpdateUserFromClaims(p)
    PROVE  IInv'
<1> DEFINE c == call[p].claims
           New(u) == IF u.id # call[p].user THEN u ELSE WithClaims(u, c)
<1>1. /\ call[p].at = "updateUser"
      /\ users' = {New(u) : u \in users}
      /\ call' = [call EXCEPT ![p] = [call[p] EXCEPT !.at = "updateIdentity"]]
      /\ UNCHANGED <<identities, nextUser, signedIn, chosen>>
    BY DEF UpdateUserFromClaims, UpdateUser, history
<1>2. /\ call \in [Procs -> {Idle} \cup SignIn]
      /\ call[p] # Idle /\ c \in FederatedClaims /\ (c.verified => c.email \in VerifiedEmails)
      /\ Linked(call[p].subject, call[p].user)
    BY <1>1, CallFields, IdleCall DEF IInv, TypeOK, ClaimsAreTrue, SignInsAreLinked
<1>3. /\ call'[p] \in SignIn /\ call'[p] # Idle
      /\ call'[p].at = "updateIdentity" /\ call'[p].subject = call[p].subject
      /\ call'[p].claims = c /\ call'[p].user = call[p].user /\ call'[p].alone = call[p].alone
      /\ \A q \in Procs \ {p} : call'[q] = call[q]
      /\ call' \in [Procs -> {Idle} \cup SignIn]
    BY <1>1, <1>2, NextCall, IdleCall
<1>4. ASSUME NEW u \in users
      PROVE  /\ New(u) \in User /\ New(u).id = u.id /\ New(u).local = u.local
             /\ (u.id = call[p].user => New(u).email = c.email /\ New(u).verified = c.verified)
             /\ (u.id # call[p].user => New(u) = u)
    <2>1. u \in User
        BY DEF IInv, TypeOK
    <2> QED
        BY <1>2, <2>1, WithClaimsFields
<1> HIDE DEF New
<1>5. TypeOK'
    BY <1>1, <1>3, <1>4 DEF IInv, TypeOK
<1>6. AccountKeys'
    BY <1>1, <1>4 DEF IInv, AccountKeys
<1>7. SignInsAreLinked'
    BY <1>1, <1>3, <1>2 DEF IInv, SignInsAreLinked, Linked
<1>8. AloneIsAlone'
    BY <1>2, <1>3, AloneStays DEF IInv
<1>9. WrittenStands'
    <2> SUFFICES ASSUME NEW q \in Procs, call'[q].at = "updateIdentity", call'[q].alone,
                        NEW u \in users, New(u).id = call'[q].user
                 PROVE  /\ New(u).email = call'[q].claims.email
                        /\ New(u).verified = call'[q].claims.verified
        BY <1>1 DEF WrittenStands
    <2>1. CASE q = p
        BY <1>3, <1>4, <2>1
    <2>2. CASE q # p
        <3>1. call'[q] = call[q]
            BY <1>3, <2>2
        <3>2. call[q].user # call[p].user
            <4> SUFFICES ASSUME call[q].user = call[p].user
                         PROVE  FALSE
                OBVIOUS
            <4>1. call[q] # Idle /\ Linked(call[q].subject, call[q].user)
                BY <3>1, IdleCall DEF IInv, SignInsAreLinked
            <4>2. call[q].subject = call[p].subject
                BY <1>2, <4>1 DEF Linked, IInv, AccountKeys
            <4>3. p \in Others(q, call[q].subject)
                BY <1>2, <2>2, <4>2 DEF Others
            <4> QED
                BY <3>1, <4>1, <4>3 DEF IInv, AloneIsAlone
        <3>3. New(u) = u
            BY <1>4, <3>1, <3>2
        <3> QED
            BY <3>1, <3>3 DEF IInv, WrittenStands
    <2> QED
        BY <2>1, <2>2
<1>10. ClaimsAreTrue'
    BY <1>2, <1>3 DEF IInv, ClaimsAreTrue
<1>11. LocalIsChosen'
    BY <1>1, <1>4 DEF IInv, LocalIsChosen
<1>12. VerifiedMeansVerified'
    BY <1>1, <1>2, <1>4 DEF IInv, VerifiedMeansVerified, Profile
<1> QED
    BY <1>5, <1>6, <1>7, <1>8, <1>9, <1>10, <1>11, <1>12 DEF IInv

\* UpdateFederatedIdentityClaims, the end of a sign-in.
LEMMA UpdateIdentityStep ==
    ASSUME IInv, NEW p \in Procs, UpdateFederatedIdentityClaims(p)
    PROVE  IInv'
<1> DEFINE s == call[p].subject
           c == call[p].claims
           New(fi) == IF fi.subject # s THEN fi ELSE [fi EXCEPT !.claims = c]
<1>1. /\ call[p].at = "updateIdentity" /\ Done(p)
      /\ identities' = {New(fi) : fi \in identities}
      /\ signedIn' = signedIn \cup {<<s, call[p].user>>}
      /\ UNCHANGED <<users, nextUser, chosen>>
    BY DEF UpdateFederatedIdentityClaims
<1>2. /\ call \in [Procs -> {Idle} \cup SignIn]
      /\ call[p] # Idle /\ s \in Subjects /\ call[p].user \in Ids
      /\ c \in FederatedClaims /\ (c.verified => c.email \in VerifiedEmails)
      /\ Linked(s, call[p].user)
    BY <1>1, CallFields, IdleCall DEF IInv, TypeOK, ClaimsAreTrue, SignInsAreLinked
<1>3. /\ \A q \in Procs : call'[q] = call[q] \/ (call'[q] = Idle /\ call'[q].at = "idle")
      /\ call' \in [Procs -> {Idle} \cup SignIn]
    BY <1>1, <1>2, IdleCall DEF Done
<1>4. ASSUME NEW fi \in identities
      PROVE  /\ New(fi) \in Identity /\ New(fi).user = fi.user /\ New(fi).subject = fi.subject
             /\ (New(fi).claims = c \/ New(fi) = fi)
    BY <1>2, IdentityFields DEF IInv, TypeOK
<1> HIDE DEF New
<1>5. TypeOK'
    <2>1. <<s, call[p].user>> \in Subjects \X Ids
        BY <1>2
    <2> QED
        BY <1>1, <1>3, <1>4, <2>1 DEF IInv, TypeOK
<1>6. AccountKeys'
    BY <1>1, <1>4 DEF IInv, AccountKeys
<1>7. SignInsAreLinked'
    <2>1. \A t, id : Linked(t, id) => Linked(t, id)'
        BY <1>1, <1>4 DEF Linked
    <2>2. ASSUME NEW a \in signedIn'
          PROVE  Linked(a[1], a[2])'
        <3>1. CASE a \in signedIn
            BY <2>1, <3>1 DEF IInv, SignInsAreLinked
        <3>2. CASE a = <<s, call[p].user>>
            BY <1>2, <2>1, <3>2
        <3> QED
            BY <1>1, <3>1, <3>2
    <2>3. \A q \in Procs : call'[q].at \in {"updateUser", "updateIdentity"} =>
                               Linked(call[q].subject, call[q].user)'
        BY <1>3, <2>1 DEF IInv, SignInsAreLinked
    <2> QED
        BY <2>2, <2>3 DEF SignInsAreLinked
<1>8. AloneIsAlone'
    BY <1>3, AloneStays DEF IInv
<1>9. WrittenStands' /\ ClaimsAreTrue' /\ LocalIsChosen'
    BY <1>1, <1>3 DEF IInv, WrittenStands, ClaimsAreTrue, LocalIsChosen
<1>10. VerifiedMeansVerified'
    BY <1>1, <1>2, <1>4 DEF IInv, VerifiedMeansVerified, Profile
<1> QED
    BY <1>5, <1>6, <1>7, <1>8, <1>9, <1>10 DEF IInv

\* UpdateProfile: the override that is written is the one last asked for.
LEMMA UpdateProfileStep ==
    ASSUME IInv, NEW v \in users, NEW edit \in Edits, UpdateProfile(v, edit)
    PROVE  IInv'
<1> DEFINE New(u) == IF u.id # v.id THEN u ELSE [u EXCEPT !.local = Edited(u.local, edit)]
<1>1. /\ users' = {New(u) : u \in users}
      /\ chosen' = [chosen EXCEPT ![v.id] = Edited(chosen[v.id], edit)]
      /\ UNCHANGED <<identities, call, nextUser, signedIn>>
    BY DEF UpdateProfile
<1>2. ASSUME NEW u \in users
      PROVE  /\ New(u) \in User /\ New(u).id = u.id
             /\ New(u).email = u.email /\ New(u).verified = u.verified
             /\ New(u).local = IF u.id # v.id THEN u.local ELSE Edited(u.local, edit)
    <2>1. u \in User /\ u.local \in [Fields -> Names \cup {NotSet}]
        BY DEF IInv, TypeOK, User
    <2>2. Edited(u.local, edit) \in [Fields -> Names \cup {NotSet}]
        BY <2>1, EditedFields
    <2> QED
        BY <2>1, <2>2, LocalFields
<1> HIDE DEF New
<1>3. v.id \in 1..MaxUsers /\ v.id < nextUser
    <2>1. v.id \in Nat \ {0} /\ nextUser \in Nat /\ v.id < nextUser /\ nextUser <= MaxUsers + 1
        BY DEF IInv, TypeOK, User, Ids, AccountKeys
    <2>2. MaxUsers \in Nat
        BY AccountsAssumption
    <2> QED
        BY <2>1, <2>2
<1>4. /\ chosen' \in [1..MaxUsers -> [Fields -> Names \cup {NotSet}]]
      /\ chosen'[v.id] = Edited(chosen[v.id], edit)
      /\ \A n \in 1..MaxUsers : n # v.id => chosen'[n] = chosen[n]
    <2>1. Edited(chosen[v.id], edit) \in [Fields -> Names \cup {NotSet}]
        BY <1>3, EditedFields DEF IInv, TypeOK
    <2> QED
        BY <1>1, <1>3, <2>1 DEF IInv, TypeOK
<1>5. TypeOK'
    BY <1>1, <1>2, <1>4 DEF IInv, TypeOK
<1>6. AccountKeys'
    BY <1>1, <1>2 DEF IInv, AccountKeys
<1>7. SignInsAreLinked' /\ AloneIsAlone' /\ ClaimsAreTrue'
    BY <1>1 DEF IInv, SignInsAreLinked, Linked, AloneIsAlone, Others, ClaimsAreTrue
<1>8. WrittenStands'
    BY <1>1, <1>2 DEF IInv, WrittenStands
<1>9. LocalIsChosen'
    <2>1. ASSUME NEW u \in users
          PROVE  New(u).local = chosen'[New(u).id]
        <3>1. u.id \in 1..MaxUsers
            <4>1. u.id \in Nat \ {0} /\ nextUser \in Nat /\ u.id < nextUser /\ nextUser <= MaxUsers + 1
                BY DEF IInv, TypeOK, User, Ids, AccountKeys
            <4>2. MaxUsers \in Nat
                BY AccountsAssumption
            <4> QED
                BY <4>1, <4>2
        <3>2. u.local = chosen[u.id]
            BY DEF IInv, LocalIsChosen
        <3> QED
            BY <1>2, <1>4, <3>1, <3>2
    <2>2. ASSUME NEW n \in 1..MaxUsers, nextUser <= n
          PROVE  chosen'[n] = [f \in Fields |-> NotSet]
        <3>1. n # v.id
            <4>1. nextUser \in Nat
                BY DEF IInv, TypeOK, Ids
            <4> QED
                BY <1>3, <2>2, <4>1
        <3> QED
            BY <1>4, <2>2, <3>1 DEF IInv, LocalIsChosen
    <2> QED
        BY <1>1, <2>1, <2>2 DEF LocalIsChosen
<1>10. VerifiedMeansVerified'
    BY <1>1, <1>2 DEF IInv, VerifiedMeansVerified, Profile
<1> QED
    BY <1>5, <1>6, <1>7, <1>8, <1>9, <1>10 DEF IInv

LEMMA NextIInv == IInv /\ [Next]_vars => IInv'
<1> SUFFICES ASSUME IInv, [Next]_vars PROVE IInv'
    OBVIOUS
<1>1. ASSUME NEW p \in Procs, NEW s \in Subjects, NEW c \in FetchClaims(s),
             FindByFederatedIdentity(p, s, c)
      PROVE  IInv'
    BY <1>1, FindStep
<1>2. ASSUME NEW p \in Procs, CreateWithFederatedIdentity(p) PROVE IInv'
    BY <1>2, CreateStep
<1>3. ASSUME NEW p \in Procs, UpdateUserFromClaims(p) PROVE IInv'
    BY <1>3, UpdateUserStep
<1>4. ASSUME NEW p \in Procs, UpdateFederatedIdentityClaims(p) PROVE IInv'
    BY <1>4, UpdateIdentityStep
<1>5. ASSUME NEW p \in Procs, Fail(p) PROVE IInv'
    BY <1>5, EndStep DEF Fail, tables, history
<1>6. ASSUME NEW u \in users, NEW edit \in Edits, UpdateProfile(u, edit) PROVE IInv'
    BY <1>6, UpdateProfileStep
<1>7. CASE UNCHANGED vars
    BY <1>7
       DEF vars, tables, history, IInv, TypeOK, AccountKeys, SignInsAreLinked, Linked,
           AloneIsAlone, Others, WrittenStands, ClaimsAreTrue, LocalIsChosen,
           VerifiedMeansVerified, Profile
<1> QED
    BY <1>1, <1>2, <1>3, <1>4, <1>5, <1>6, <1>7 DEF Next

-----------------------------------------------------------------------------
(***************************************************************************)
(* The theorems.                                                           *)
(***************************************************************************)

\* Tables and sign-ins stay consistent, whatever sign-ins race or fail.
THEOREM Invariance == Spec => []IInv
<1> QED
    BY InitIInv, NextIInv, PTL DEF Spec

\* A provider account signs in to one user for ever, no two to the same one.
THEOREM AccountsAreSeparate == Spec => []OneAccountPerSubject
<1>1. IInv => OneAccountPerSubject
    <2> SUFFICES ASSUME IInv, NEW a \in signedIn, NEW b \in signedIn
                 PROVE  a[1] = b[1] <=> a[2] = b[2]
        BY DEF OneAccountPerSubject
    <2>1. Linked(a[1], a[2]) /\ Linked(b[1], b[2])
        BY DEF IInv, SignInsAreLinked
    <2> QED
        BY <2>1 DEF Linked, IInv, AccountKeys
<1> QED
    BY <1>1, Invariance, PTL

\* No user is left without its one way to sign in, and who has signed in finds it.
THEOREM AccountsAreReachable == Spec => []EveryUserCanSignIn
<1>1. IInv => EveryUserCanSignIn
    <2> SUFFICES ASSUME IInv PROVE EveryUserCanSignIn
        OBVIOUS
    <2>1. ASSUME NEW u \in users
          PROVE  Cardinality(ListLinkedProviders(u.id)) = 1
        <3>1. PICK fi \in identities : fi.user = u.id
            BY DEF IInv, AccountKeys
        <3>2. ListFederatedIdentities(u.id) = {fi}
            BY <3>1 DEF ListFederatedIdentities, IInv, AccountKeys
        <3>3. ListLinkedProviders(u.id) = {[subject |-> fi.subject, email |-> fi.claims.email]}
            BY <3>2 DEF ListLinkedProviders
        <3> QED
            BY <3>3, FS_Singleton
    <2>2. ASSUME NEW a \in signedIn
          PROVE  /\ GetMyProfile(a[2]).status = 200
                 /\ \E x \in ListLinkedProviders(a[2]) : x.subject = a[1]
        <3>1. PICK fi \in identities : fi.subject = a[1] /\ fi.user = a[2]
            BY DEF IInv, SignInsAreLinked, Linked
        <3>2. GetByID(a[2]) # {}
            BY <3>1 DEF GetByID, IInv, AccountKeys
        <3>3. fi \in ListFederatedIdentities(a[2])
            BY <3>1 DEF ListFederatedIdentities
        <3>4. [subject |-> fi.subject, email |-> fi.claims.email] \in ListLinkedProviders(a[2])
            BY <3>3 DEF ListLinkedProviders
        <3>5. GetMyProfile(a[2]).status = 200
            BY <3>2 DEF GetMyProfile
        <3> QED
            BY <3>1, <3>4, <3>5
    <2> QED
        BY <2>1, <2>2 DEF EveryUserCanSignIn
<1> QED
    BY <1>1, Invariance, PTL

\* What a user has chosen survives edits and sign-ins, and is what the profile shows.
THEOREM ChoicesLast == Spec => []LocalEditsWin
<1>1. IInv => LocalEditsWin
    <2> SUFFICES ASSUME IInv, NEW u \in users, NEW f \in Fields
                 PROVE  /\ u.local[f] = chosen[u.id][f]
                        /\ \A x \in GetMyProfile(u.id).profile :
                              /\ x.isLocal[f] = (chosen[u.id][f] # NotSet)
                              /\ x.isLocal[f] => x.fields[f] = chosen[u.id][f]
        BY DEF LocalEditsWin
    <2>1. u.local = chosen[u.id]
        BY DEF IInv, LocalIsChosen
    <2>2. GetByID(u.id) = {u}
        BY DEF GetByID, IInv, AccountKeys
    <2>3. GetMyProfile(u.id).profile = {Profile(u)}
        BY <2>2 DEF GetMyProfile
    <2>4. /\ Profile(u).isLocal[f] = (chosen[u.id][f] # NotSet)
          /\ (chosen[u.id][f] # NotSet => Profile(u).fields[f] = chosen[u.id][f])
        BY <2>1 DEF Profile, applyLocalOverrides
    <2> QED
        BY <2>1, <2>3, <2>4
<1> QED
    BY <1>1, Invariance, PTL

\* An address is shown as verified only if the provider has verified it.
THEOREM VerifiedIsTrue == Spec => []VerifiedMeansVerified
<1>1. IInv => VerifiedMeansVerified
    BY DEF IInv
<1> QED
    BY <1>1, Invariance, PTL

\* A sign-in that runs alone and succeeds leaves profile and linked provider agreeing.
THEOREM RepairsBySignIn == Spec => SignInRepairs
<1> DEFINE Repairs ==
        \A p \in Procs :
            UpdateFederatedIdentityClaims(p) /\ call[p].alone =>
                \A u \in users', fi \in identities' :
                    fi.user = u.id /\ fi.subject = call[p].subject
                        => u.email = fi.claims.email /\ u.verified = fi.claims.verified
<1>1. IInv /\ [Next]_vars => [Repairs]_vars
    <2> SUFFICES ASSUME IInv, NEW p \in Procs, UpdateFederatedIdentityClaims(p), call[p].alone,
                        NEW u \in users', NEW fi \in identities',
                        fi.user = u.id, fi.subject = call[p].subject
                 PROVE  u.email = fi.claims.email /\ u.verified = fi.claims.verified
        OBVIOUS
    <2> DEFINE c == call[p].claims
    <2>1. /\ call[p].at = "updateIdentity" /\ users' = users
          /\ identities' = {IF fj.subject # call[p].subject THEN fj
                            ELSE [fj EXCEPT !.claims = c] : fj \in identities}
        BY DEF UpdateFederatedIdentityClaims
    <2>2. c \in FederatedClaims
        BY <2>1, CallFields DEF IInv, TypeOK
    <2>3. PICK fj \in identities : fi = IF fj.subject # call[p].subject THEN fj
                                        ELSE [fj EXCEPT !.claims = c]
        BY <2>1
    <2>4. fj.subject = call[p].subject /\ fi.claims = c /\ fj.user = fi.user
        BY <2>2, <2>3, IdentityFields DEF IInv, TypeOK
    <2>5. fj.user = call[p].user
        BY <2>1, <2>4 DEF IInv, SignInsAreLinked, Linked, AccountKeys
    <2> QED
        BY <2>1, <2>4, <2>5 DEF IInv, WrittenStands
<1>2. SignInRepairs <=> [][Repairs]_vars
    BY DEF SignInRepairs
<1> HIDE DEF Repairs
<1> QED
    BY <1>1, <1>2, Invariance, PTL DEF Spec
=============================================================================
