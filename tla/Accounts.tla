------------------------------ MODULE Accounts ------------------------------
(***************************************************************************)
(* Users and federated identities of identity-service: what Google and     *)
(* GitHub tell of a provider account, sign-in with it                      *)
(* (FindOrCreateByFederatedLogin), the profile and its local overrides,    *)
(* unlinking, and the answers the account API and the BFF make of errors.  *)
(*                                                                         *)
(* A step is one SQL statement, or the one transaction of a first sign-in; *)
(* a sign-in is in flight in call[p] between two of them.  Fields are the  *)
(* two a user may override; given and family name go the way of the text,  *)
(* without the override.                                                   *)
(***************************************************************************)
EXTENDS Naturals, FiniteSets

CONSTANTS
    GoogleSubjects,  \* accounts at Google,
    GitHubSubjects,  \* ... and at GitHub
    Claims,          \* what a provider gives as name and picture, at one sign-in
    Emails,          \* e-mail addresses
    VerifiedEmails,  \* ... those the providers have verified
    Names,           \* names and pictures a user chooses
    Procs,           \* sign-ins handled concurrently
    MaxUsers         \* bound: users created

ASSUME AccountsAssumption ==
    /\ MaxUsers \in Nat
    /\ VerifiedEmails \subseteq Emails
    /\ "" \notin Emails

VARIABLES
    users,       \* table users
    identities,  \* table federated_identities
    call,        \* call[p]: the sign-in p handles, at its next statement
    nextUser,    \* the next ULID
    signedIn,    \* history: the sign-ins that succeeded, as <<subject, user>>
    chosen       \* history: chosen[u] is what u has asked for last

tables  == <<users, identities>>
history == <<signedIn, chosen>>
vars    == <<tables, call, nextUser, history>>

Idle     == [at |-> "idle"]
NotSet   == "NULL"
NoEmail  == ""
Ids      == Nat \ {0}
Fields   == {"name", "picture"}
Subjects == GoogleSubjects \cup GitHubSubjects

FederatedClaims == [text : Claims, email : Emails \cup {NoEmail}, verified : BOOLEAN]

User     == [id : Ids, email : Emails \cup {NoEmail}, verified : BOOLEAN,
             shown : [Fields -> Claims], local : [Fields -> Names \cup {NotSet}]]
Identity == [user : Ids, subject : Subjects, claims : FederatedClaims]
\* (alone, history: no other sign-in of the subject has been under way meanwhile.)
SignIn   == [at : {"create"}, subject : Subjects, claims : FederatedClaims, alone : BOOLEAN]
            \cup [at : {"updateUser", "updateIdentity"}, subject : Subjects,
                  claims : FederatedClaims, alone : BOOLEAN, user : Ids]

TypeOK ==
    /\ users \subseteq User
    /\ identities \subseteq Identity
    /\ call \in [Procs -> {Idle} \cup SignIn]
    /\ nextUser \in Ids
    /\ signedIn \subseteq Subjects \X Ids
    /\ chosen \in [1..MaxUsers -> [Fields -> Names \cup {NotSet}]]

Init ==
    /\ users = {}
    /\ identities = {}
    /\ call = [p \in Procs |-> Idle]
    /\ nextUser = 1
    /\ signedIn = {}
    /\ chosen = [u \in 1..MaxUsers |-> [f \in Fields |-> NotSet]]

Done(p) == call' = [call EXCEPT ![p] = Idle]

-----------------------------------------------------------------------------
(***************************************************************************)
(* FetchClaims.  The provider account may change between two sign-ins, or  *)
(* two calls of one.                                                       *)
(***************************************************************************)

\* Google: one signed id_token, with its word on the address.
GoogleClaims(c) ==
    {[text |-> c, email |-> e, verified |-> TRUE] : e \in VerifiedEmails} \cup
    {[text |-> c, email |-> e, verified |-> FALSE] : e \in Emails}

\* What GitHub's list of a user's addresses may say of them: any may be the primary
\* one, and those it calls verified it has verified.
GitHubEmails ==
    SUBSET {x \in [email : Emails, primary : BOOLEAN, verified : BOOLEAN] :
               x.verified => x.email \in VerifiedEmails}

AddressIn(chosenOnes) ==
    IF chosenOnes = {} THEN {NoEmail} ELSE {x.email : x \in chosenOnes}

\* fetchPrimaryEmail without the test of Verified.
PrimaryUnchecked(list) == AddressIn({x \in list : x.primary})

\* fetchPrimaryEmail: of the list, the primary address if it is verified.
PrimaryEmail(list) == AddressIn({x \in list : x.primary /\ x.verified})

\* GitHub: a public address is not known to be verified.  Without one a second
\* call is made, whose failure is ignored, and what it finds counts as verified.
GitHubClaims(c) ==
    {[text |-> c, email |-> e, verified |-> FALSE] : e \in Emails \cup {NoEmail}} \cup
    {[text |-> c, email |-> e, verified |-> e # NoEmail] :
        e \in UNION {PrimaryEmail(list) : list \in GitHubEmails}}

FetchClaims(s) ==
    UNION {IF s \in GoogleSubjects THEN GoogleClaims(t) ELSE GitHubClaims(t) : t \in Claims}

-----------------------------------------------------------------------------
(***************************************************************************)
(* FindOrCreateByFederatedLogin.                                           *)
(***************************************************************************)

\* The account with the e-mail address the provider sends.
AccountByEmail(s, c) == {u \in users : u.email = c.email}

\* users JOIN federated_identities.
AccountOf(s, c) ==
    {u \in users : \E fi \in identities : fi.user = u.id /\ fi.subject = s}

Texts(c) == [f \in Fields |-> c.text]
NewUser(c) == [id |-> nextUser, email |-> c.email, verified |-> c.verified,
               shown |-> Texts(c), local |-> [f \in Fields |-> NotSet]]

\* The other sign-ins of subject s that are under way.
Others(p, s) == {q \in Procs \ {p} : call[q] # Idle /\ call[q].subject = s}

\* The sign-in rec begins in p.
BeginSignIn(p, rec) ==
    call' = [q \in Procs |-> IF q = p THEN rec
                             ELSE IF q \in Others(p, rec.subject)
                                  THEN [call[q] EXCEPT !.alone = FALSE]
                             ELSE call[q]]

\* (Of the user that is found only the id is used.)
FindByFederatedIdentity(p, s, c) ==
    LET alone == Others(p, s) = {} IN
    /\ call[p] = Idle
    /\ \/ /\ AccountOf(s, c) = {}
          /\ BeginSignIn(p, [at |-> "create", subject |-> s, claims |-> c, alone |-> alone])
       \/ \E u \in AccountOf(s, c) :
             BeginSignIn(p, [at |-> "updateUser", subject |-> s, claims |-> c,
                             alone |-> alone, user |-> u.id])
    /\ UNCHANGED <<tables, nextUser, history>>

\* The two INSERTs without a transaction around them.
CreateInTwoSteps(p) ==
    LET q == call[p]
        taken == \E fi \in identities : fi.subject = q.subject
    IN /\ q.at = "create"
       /\ nextUser <= MaxUsers
       /\ users' = users \cup {NewUser(q.claims)}
       /\ IF taken THEN UNCHANGED <<identities, signedIn>>
          ELSE /\ identities' = identities \cup
                    {[user |-> nextUser, subject |-> q.subject, claims |-> q.claims]}
               /\ signedIn' = signedIn \cup {<<q.subject, nextUser>>}
       /\ nextUser' = nextUser + 1
       /\ Done(p)
       /\ UNCHANGED chosen

\* CreateWithFederatedIdentity, one transaction: a subject that another sign-in
\* has registered first violates UNIQUE(provider, provider_subject) and rolls
\* both INSERTs back; the sign-in fails.
CreateWithFederatedIdentity(p) ==
    LET q == call[p]
        taken == \E fi \in identities : fi.subject = q.subject
    IN /\ q.at = "create"
       /\ nextUser <= MaxUsers
       /\ IF taken THEN UNCHANGED <<tables, nextUser, signedIn>>
          ELSE /\ users' = users \cup {NewUser(q.claims)}
               /\ identities' = identities \cup
                    {[user |-> nextUser, subject |-> q.subject, claims |-> q.claims]}
               /\ signedIn' = signedIn \cup {<<q.subject, nextUser>>}
               /\ nextUser' = nextUser + 1
       /\ Done(p)
       /\ UNCHANGED chosen

\* The row u with the claims c: what is overridden is left as it is.
WithClaims(u, c) ==
    [u EXCEPT !.email = c.email, !.verified = c.verified,
              !.shown = [f \in Fields |-> IF u.local[f] = NotSet THEN c.text ELSE @[f]]]

\* An UPDATE of users with what a sign-in has fetched.
UpdateUser(p, new(_)) ==
    /\ call[p].at = "updateUser"
    /\ users' = {IF u.id # call[p].user THEN u ELSE new(u) : u \in users}
    /\ call' = [call EXCEPT ![p].at = "updateIdentity"]
    /\ UNCHANGED <<identities, nextUser, history>>

\* The UPDATE of users that ignores a missing e-mail address.
UpdateKeepingEmail(p) ==
    UpdateUser(p, LAMBDA u : IF call[p].claims.email # NoEmail
                             THEN WithClaims(u, call[p].claims) ELSE u)

UpdateUserFromClaims(p) == UpdateUser(p, LAMBDA u : WithClaims(u, call[p].claims))

UpdateFederatedIdentityClaims(p) ==
    LET q == call[p] IN
    /\ q.at = "updateIdentity"
    /\ identities' = {IF fi.subject # q.subject THEN fi
                      ELSE [fi EXCEPT !.claims = q.claims] : fi \in identities}
    /\ signedIn' = signedIn \cup {<<q.subject, q.user>>}
    /\ Done(p)
    /\ UNCHANGED <<users, nextUser, chosen>>

\* An error, a cancelled request or a crash ends a sign-in between statements.
Fail(p) ==
    /\ call[p] # Idle
    /\ Done(p)
    /\ UNCHANGED <<tables, nextUser, history>>

-----------------------------------------------------------------------------
(***************************************************************************)
(* The account API.                                                        *)
(***************************************************************************)

\* What a PATCH asks of each field; a field it leaves out is kept.
Keep  == "nil"
Edits == [Fields -> Names \cup {NotSet, Keep}]
Edited(old, edit) == [f \in Fields |-> IF edit[f] = Keep THEN old[f] ELSE edit[f]]

\* A PUT: what the request leaves out is cleared.
ReplaceProfile(u, edit) ==
    LET all == [f \in Fields |-> IF edit[f] = Keep THEN NotSet ELSE edit[f]] IN
    /\ users' = {IF v.id # u.id THEN v ELSE [v EXCEPT !.local = all] : v \in users}
    /\ chosen' = [chosen EXCEPT ![u.id] = Edited(@, edit)]
    /\ UNCHANGED <<identities, call, nextUser, signedIn>>

\* UpdateLocalProfile, one UPDATE; "" clears an override.
UpdateProfile(u, edit) ==
    /\ users' = {IF v.id # u.id THEN v
                 ELSE [v EXCEPT !.local = Edited(@, edit)] : v \in users}
    /\ chosen' = [chosen EXCEPT ![u.id] = Edited(@, edit)]
    /\ UNCHANGED <<identities, call, nextUser, signedIn>>

\* The account API's status of an error, and the BFF's of that.
domainStatus(err) ==
    CASE err = "ErrNotFound"           -> "NotFound"
      [] err = "ErrUnauthorized"       -> "PermissionDenied"
      [] err = "ErrFailedPrecondition" -> "FailedPrecondition"
      [] OTHER                         -> "Internal"
grpcToHTTP(code) ==
    CASE code = "NotFound"           -> 404
      [] code = "InvalidArgument"    -> 400
      [] code = "PermissionDenied"   -> 403
      [] code = "Unauthenticated"    -> 401
      [] code = "FailedPrecondition" -> 409
      [] OTHER                       -> 500

\* DeleteFederatedIdentity: PostgreSQL refuses SELECT COUNT(*) ... FOR UPDATE,
\* whatever the rows, so the transaction ends with an unclassified error and
\* changes nothing.
DeleteFederatedIdentity(u) == "SQL"

\* DELETE /providers/{identityID}: the answer.
UnlinkProvider(u) == grpcToHTTP(domainStatus(DeleteFederatedIdentity(u)))

GetByID(id) == {u \in users : u.id = id}

applyLocalOverrides(u) ==
    [f \in Fields |-> IF u.local[f] # NotSet THEN u.local[f] ELSE u.shown[f]]

Profile(u) ==
    [email |-> u.email, verified |-> u.verified, fields |-> applyLocalOverrides(u),
     isLocal |-> [f \in Fields |-> u.local[f] # NotSet]]

\* GET /profile for the user id of the session's token.
GetMyProfile(id) ==
    IF GetByID(id) # {}
    THEN [status |-> 200, profile |-> {Profile(u) : u \in GetByID(id)}]
    ELSE [status |-> grpcToHTTP(domainStatus("ErrNotFound")), profile |-> {}]

\* GET /providers.
ListFederatedIdentities(id) == {fi \in identities : fi.user = id}

ListLinkedProviders(id) ==
    {[subject |-> fi.subject, email |-> fi.claims.email] : fi \in ListFederatedIdentities(id)}

Next ==
    \/ \E p \in Procs :
          \/ \E s \in Subjects : \E c \in FetchClaims(s) : FindByFederatedIdentity(p, s, c)
          \/ CreateWithFederatedIdentity(p) \/ UpdateUserFromClaims(p)
          \/ UpdateFederatedIdentityClaims(p) \/ Fail(p)
    \/ \E u \in users, edit \in Edits : UpdateProfile(u, edit)

Spec == Init /\ [][Next]_vars

-----------------------------------------------------------------------------
(***************************************************************************)
(* Properties.                                                             *)
(***************************************************************************)

\* A provider account signs in to one user for ever, and no two provider
\* accounts to the same one, though first sign-ins race and providers send the
\* same e-mail address (lookup by provider and subject, UNIQUE constraint).
OneAccountPerSubject ==
    \A a, b \in signedIn : a[1] = b[1] <=> a[2] = b[2]

\* A first sign-in that fails leaves no user without a way to sign in, each user
\* has the one provider account it was created with (one transaction), and whoever
\* has signed in finds his profile and that account.
EveryUserCanSignIn ==
    /\ \A u \in users : Cardinality(ListLinkedProviders(u.id)) = 1
    /\ \A a \in signedIn :
          /\ GetMyProfile(a[2]).status = 200
          /\ \E x \in ListLinkedProviders(a[2]) : x.subject = a[1]

\* Each name or picture a user has chosen, or its removal, survives edits of the
\* other field and every sign-in that is under way (neither UPDATE writes what it
\* was not asked to), and is what the profile shows and marks (applyLocalOverrides).
LocalEditsWin ==
    \A u \in users, f \in Fields :
        /\ u.local[f] = chosen[u.id][f]
        /\ \A x \in GetMyProfile(u.id).profile :
              /\ x.isLocal[f] = (chosen[u.id][f] # NotSet)
              /\ x.isLocal[f] => x.fields[f] = chosen[u.id][f]

\* An address is shown as verified only if the provider has verified that very
\* address, though it comes and goes, public or not, primary or not, from one sign-in
\* to the next: the adapter takes only a verified one as such (fetchPrimaryEmail), and
\* address and flag are written together, in users and in federated_identities.
VerifiedMeansVerified ==
    /\ \A u \in users : Profile(u).verified => u.email \in VerifiedEmails
    /\ \A fi \in identities : fi.claims.verified => fi.claims.email \in VerifiedEmails

\* Failed or concurrent sign-ins may leave the address of the profile and of the
\* linked provider different (two statements, no transaction); the next sign-in
\* that runs alone and succeeds makes them agree.
SignInRepairs ==
    [][\A p \in Procs :
          UpdateFederatedIdentityClaims(p) /\ call[p].alone =>
              \A u \in users', fi \in identities' :
                  fi.user = u.id /\ fi.subject = call[p].subject
                      => u.email = fi.claims.email /\ u.verified = fi.claims.verified]_vars

\* What the proofs add: ids and subjects are keys; each user has one identity and
\* each identity its user; a sign-in under way belongs to an account that is there;
\* while it is alone, what it has written stands; and users yet to be created
\* have chosen nothing.
AccountKeys ==
    /\ nextUser <= MaxUsers + 1
    /\ \A u \in users : u.id < nextUser
    /\ \A u, v \in users : u.id = v.id => u = v
    /\ \A fi, fj \in identities : (fi.subject = fj.subject \/ fi.user = fj.user) => fi = fj
    /\ \A u \in users : \E fi \in identities : fi.user = u.id
    /\ \A fi \in identities : \E u \in users : u.id = fi.user

Linked(s, id) == \E fi \in identities : fi.subject = s /\ fi.user = id

SignInsAreLinked ==
    /\ \A a \in signedIn : Linked(a[1], a[2])
    /\ \A p \in Procs : call[p].at \in {"updateUser", "updateIdentity"} =>
                            Linked(call[p].subject, call[p].user)

AloneIsAlone ==
    \A p \in Procs : call[p] # Idle /\ call[p].alone => Others(p, call[p].subject) = {}

WrittenStands ==
    \A p \in Procs : call[p].at = "updateIdentity" /\ call[p].alone =>
        \A u \in users : u.id = call[p].user =>
            u.email = call[p].claims.email /\ u.verified = call[p].claims.verified

ClaimsAreTrue ==
    \A p \in Procs : call[p] # Idle /\ call[p].claims.verified =>
                        call[p].claims.email \in VerifiedEmails

LocalIsChosen ==
    /\ \A u \in users : u.local = chosen[u.id]
    /\ \A n \in 1..MaxUsers : nextUser <= n => chosen[n] = [f \in Fields |-> NotSet]

IInv ==
    /\ TypeOK
    /\ AccountKeys
    /\ SignInsAreLinked
    /\ AloneIsAlone
    /\ WrittenStands
    /\ ClaimsAreTrue
    /\ LocalIsChosen
    /\ VerifiedMeansVerified

(***************************************************************************)
(* Stated by the design notes, refuted by the code.                        *)
(***************************************************************************)

\* users.name continues to "hold the upstream-provided values, refreshed on every
\* login" (.llm/archive/014_plan.md:203-204): after a sign-in with new claims, the
\* name is the provider's.
NameFollowsProvider ==
    [][\A p \in Procs :
          UpdateUserFromClaims(p) =>
              \A u \in users' : u.id = call[p].user =>
                  u.shown["name"] = call[p].claims.text]_vars

\* Removing the last identity is answered FailedPrecondition, 409 at the BFF
\* (.llm/archive/014_plan.md:227-228).
LastProviderIsRefused == \A u \in users : UnlinkProvider(u) = 409
=============================================================================
