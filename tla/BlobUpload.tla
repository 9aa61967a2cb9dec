----------------------------- MODULE BlobUpload -----------------------------
(***************************************************************************)
(* blob-service: the upload protocol between its callers, the blobs table  *)
(* in PostgreSQL and the objects in R2.                                    *)
(*                                                                         *)
(* A step is one SQL statement or one R2 request; a call that makes        *)
(* several is in flight in call[p] between them.  Clients write to R2      *)
(* directly through the presigned URLs, at any time and as often as the    *)
(* URLs are valid.  GetBlobInfo only reads a row.                 *)
(***************************************************************************)
EXTENDS Naturals, FiniteSets

CONSTANTS
    Blobs,      \* blob ids (SHA-256 of the content; also the R2 key)
    Procs,      \* RPCs handled concurrently
    PartCount,  \* parts of a multipart upload
    MaxUploads  \* bound: multipart uploads created

ASSUME BlobUploadAssumption ==
    /\ PartCount \in Nat \ {0}
    /\ MaxUploads \in Nat

VARIABLES
    state,     \* state[b]: the row of b in table blobs, or "none"
    objects,   \* R2: the keys that hold an object
    uploads,   \* R2: multipart uploads [id, blob, urls, parts, open]
    putURLs,   \* presigned PUT URLs that are still valid, by key
    getURLs,   \* presigned GET URLs that are still valid, by key
    call,      \* call[p]: the RPC p handles, at its next step
    commits,   \* history: commits[b] counts the RPCs whose UPDATE committed b
    assembled  \* history: blobs committed by CompleteMultipartUpload

rpc  == <<call, commits, assembled>>
r2   == <<objects, uploads>>
urls == <<putURLs, getURLs>>
vars == <<state, r2, urls, rpc>>

Idle == [at |-> "idle"]

\* The parts a URL is presigned for: S3 numbers them from 1.
Parts == 1..PartCount

Upload == [id : 1..MaxUploads, blob : Blobs, urls : SUBSET (1..PartCount),
           parts : SUBSET (1..PartCount), open : BOOLEAN]
Call   == {Idle}
          \cup [at : {"create", "presign"}, blob : Blobs, multipart : BOOLEAN]
          \cup [at : {"assemble"}, blob : Blobs, upload : 1..MaxUploads,
                parts : SUBSET (1..PartCount)]
          \cup [at : {"mark"}, blob : Blobs, multipart : BOOLEAN]
          \cup [at : {"presignGet"}, blob : Blobs]

TypeOK ==
    /\ state \in [Blobs -> {"none", "PENDING", "COMMITTED"}]
    /\ objects \subseteq Blobs
    /\ uploads \subseteq Upload
    /\ putURLs \subseteq Blobs
    /\ getURLs \subseteq Blobs
    /\ call \in [Procs -> Call]
    /\ commits \in [Blobs -> Nat]
    /\ assembled \subseteq Blobs

Init ==
    /\ state = [b \in Blobs |-> "none"]
    /\ objects = {}
    /\ uploads = {}
    /\ putURLs = {}
    /\ getURLs = {}
    /\ call = [p \in Procs |-> Idle]
    /\ commits = [b \in Blobs |-> 0]
    /\ assembled = {}

Answer(p)  == call' = [call EXCEPT ![p] = Idle]
Go(p, rec) == call' = [call EXCEPT ![p] = rec]

-----------------------------------------------------------------------------
(***************************************************************************)
(* InitiateUpload, InitiateMultipartUpload.                                *)
(***************************************************************************)

\* FindByID: a committed blob is answered already_exists, nothing else to do.
Initiate(p, b, multipart) ==
    /\ call[p] = Idle
    /\ state[b] # "COMMITTED"
    /\ Go(p, [at |-> IF state[b] = "none" THEN "create" ELSE "presign",
              blob |-> b, multipart |-> multipart])
    /\ UNCHANGED <<state, r2, urls, commits, assembled>>

\* INSERT that replaces a row that is there.
Upsert(p) ==
    LET b == call[p].blob IN
    /\ call[p].at = "create"
    /\ state' = [state EXCEPT ![b] = "PENDING"]
    /\ Go(p, [call[p] EXCEPT !.at = "presign"])
    /\ UNCHANGED <<r2, urls, commits, assembled>>

\* Create: a row that another call inserted first is a unique violation, which
\* is answered ErrAlreadyCommitted.
Create(p) ==
    LET b == call[p].blob IN
    /\ call[p].at = "create"
    /\ IF state[b] = "none"
       THEN /\ state' = [state EXCEPT ![b] = "PENDING"]
            /\ Go(p, [call[p] EXCEPT !.at = "presign"])
       ELSE Answer(p) /\ UNCHANGED state
    /\ UNCHANGED <<r2, urls, commits, assembled>>

PresignPut(p) ==
    /\ call[p].at = "presign"
    /\ ~call[p].multipart
    /\ putURLs' = putURLs \cup {call[p].blob}
    /\ Answer(p)
    /\ UNCHANGED <<state, r2, getURLs, commits, assembled>>

\* CreateMultipartUpload: a fresh upload id, and URLs for its parts.  When
\* presigning fails after R2 has created the upload, the caller learns of
\* neither, and the upload stays open without URLs.
CreateMultipart(p) ==
    /\ call[p].at = "presign"
    /\ call[p].multipart
    /\ Cardinality(uploads) < MaxUploads
    /\ \E signed \in {Parts, {}} :
          uploads' = uploads \cup
            {[id |-> Cardinality(uploads) + 1, blob |-> call[p].blob, urls |-> signed,
              parts |-> {}, open |-> TRUE]}
    /\ Answer(p)
    /\ UNCHANGED <<state, objects, urls, commits, assembled>>

-----------------------------------------------------------------------------
(***************************************************************************)
(* CompleteUpload, CompleteMultipartUpload, AbortMultipartUpload.          *)
(***************************************************************************)

\* FindByID: a missing or committed blob is an error.  R2 is not asked whether
\* the object exists.
CompleteUpload(p, b) ==
    /\ call[p] = Idle
    /\ state[b] = "PENDING"
    /\ Go(p, [at |-> "mark", blob |-> b, multipart |-> FALSE])
    /\ UNCHANGED <<state, r2, urls, commits, assembled>>

CompleteMultipart(p, b, id, parts) ==
    /\ call[p] = Idle
    /\ state[b] = "PENDING"
    /\ Go(p, [at |-> "assemble", blob |-> b, upload |-> id, parts |-> parts])
    /\ UNCHANGED <<state, r2, urls, commits, assembled>>

\* R2 assembles the listed parts if the upload of this key is open and has them.
Assembles(q, u) ==
    u.id = q.upload /\ u.blob = q.blob /\ u.open /\ q.parts \subseteq u.parts

\* The row is committed although R2 has refused to assemble the object.
AssembleUnchecked(p) ==
    LET q == call[p] IN
    /\ q.at = "assemble"
    /\ Go(p, [at |-> "mark", blob |-> q.blob, multipart |-> TRUE])
    /\ \E u \in uploads :
          /\ u.id = q.upload
          /\ uploads' = (uploads \ {u}) \cup {[u EXCEPT !.open = FALSE]}
          /\ objects' = IF Assembles(q, u) THEN objects \cup {q.blob} ELSE objects
    /\ UNCHANGED <<state, urls, commits, assembled>>

\* CompleteMultipartUpload in R2; an error of it is the answer of the RPC.
Assemble(p) ==
    LET q == call[p] IN
    /\ q.at = "assemble"
    /\ \/ \E u \in uploads :
             /\ Assembles(q, u)
             /\ uploads' = (uploads \ {u}) \cup {[u EXCEPT !.open = FALSE]}
             /\ objects' = objects \cup {q.blob}
             /\ Go(p, [at |-> "mark", blob |-> q.blob, multipart |-> TRUE])
       \/ /\ \A u \in uploads : ~Assembles(q, u)
          /\ Answer(p)
          /\ UNCHANGED r2
    /\ UNCHANGED <<state, urls, commits, assembled>>

\* UPDATE without "AND state = 'PENDING'".
MarkAlways(p) ==
    LET b == call[p].blob IN
    /\ call[p].at = "mark"
    /\ state' = [state EXCEPT ![b] = "COMMITTED"]
    /\ commits' = [commits EXCEPT ![b] = @ + 1]
    /\ assembled' = IF call[p].multipart THEN assembled \cup {b} ELSE assembled
    /\ Answer(p)
    /\ UNCHANGED <<r2, urls>>

\* MarkCommitted: UPDATE ... WHERE state = 'PENDING'; no row affected is an
\* error, so only the call that changed the row reports success.
MarkCommitted(p) ==
    LET b == call[p].blob IN
    /\ call[p].at = "mark"
    /\ IF state[b] = "PENDING"
       THEN /\ state' = [state EXCEPT ![b] = "COMMITTED"]
            /\ commits' = [commits EXCEPT ![b] = @ + 1]
            /\ assembled' = IF call[p].multipart THEN assembled \cup {b} ELSE assembled
       ELSE UNCHANGED <<state, commits, assembled>>
    /\ Answer(p)
    /\ UNCHANGED <<r2, urls>>

\* AbortMultipartUpload does not look at the row; R2 drops the parts.
Abort(u) ==
    /\ u.open
    /\ uploads' = (uploads \ {u}) \cup {[u EXCEPT !.open = FALSE, !.parts = {}]}
    /\ UNCHANGED <<state, objects, urls, rpc>>

-----------------------------------------------------------------------------
(***************************************************************************)
(* GetDownloadURL.                                                         *)
(***************************************************************************)

\* The read does not compare the state with PENDING.
FindAny(p, b) ==
    /\ call[p] = Idle
    /\ state[b] # "none"
    /\ Go(p, [at |-> "presignGet", blob |-> b])
    /\ UNCHANGED <<state, r2, urls, commits, assembled>>

\* FindByID: a blob that is missing or PENDING is an error.
GetDownloadURL(p, b) ==
    /\ call[p] = Idle
    /\ state[b] \notin {"none", "PENDING"}
    /\ Go(p, [at |-> "presignGet", blob |-> b])
    /\ UNCHANGED <<state, r2, urls, commits, assembled>>

\* R2 is not asked whether the object exists.
PresignGet(p) ==
    /\ call[p].at = "presignGet"
    /\ getURLs' = getURLs \cup {call[p].blob}
    /\ Answer(p)
    /\ UNCHANGED <<state, r2, putURLs, commits, assembled>>

-----------------------------------------------------------------------------
(***************************************************************************)
(* Clients, failures, time.                                                *)
(***************************************************************************)
Put(b) ==
    /\ b \in putURLs
    /\ objects' = objects \cup {b}
    /\ UNCHANGED <<state, uploads, urls, rpc>>

PutPart(u, n) ==
    /\ u.open
    /\ uploads' = (uploads \ {u}) \cup {[u EXCEPT !.parts = @ \cup {n}]}
    /\ UNCHANGED <<state, objects, urls, rpc>>

URLExpires(b) ==
    /\ \/ putURLs' = putURLs \ {b} /\ UNCHANGED getURLs
       \/ getURLs' = getURLs \ {b} /\ UNCHANGED putURLs
    /\ UNCHANGED <<state, r2, rpc>>

\* An error of PostgreSQL or R2, or a crash, ends an RPC between two steps.
Fail(p) ==
    /\ call[p] # Idle
    /\ Answer(p)
    /\ UNCHANGED <<state, r2, urls, commits, assembled>>

RPC(p) ==
    \/ \E b \in Blobs, multipart \in BOOLEAN : Initiate(p, b, multipart)
    \/ Create(p) \/ PresignPut(p) \/ CreateMultipart(p)
    \/ \E b \in Blobs : CompleteUpload(p, b) \/ GetDownloadURL(p, b)
    \/ \E b \in Blobs, u \in uploads, parts \in SUBSET Parts \ {{}} :
          CompleteMultipart(p, b, u.id, parts)
    \/ Assemble(p) \/ MarkCommitted(p) \/ PresignGet(p) \/ Fail(p)

Next ==
    \/ \E p \in Procs : RPC(p)
    \/ \E u \in uploads : Abort(u) \/ \E n \in u.urls : PutPart(u, n)
    \/ \E b \in Blobs : Put(b) \/ URLExpires(b)

Spec == Init /\ [][Next]_vars

-----------------------------------------------------------------------------
(***************************************************************************)
(* Properties.                                                             *)
(***************************************************************************)

\* However many clients complete an upload at once, in one part or several, the
\* UPDATE of one of them commits the blob, and the others are told so.
CommittedOnce ==
    \A b \in Blobs : commits[b] = IF state[b] = "COMMITTED" THEN 1 ELSE 0

\* A row goes from none to PENDING to COMMITTED, never back: not by an upload
\* that is initiated while another one is being completed.
StateOnlyAdvances ==
    [][\A b \in Blobs :
          /\ state[b] = "COMMITTED" => state'[b] = "COMMITTED"
          /\ state[b] = "PENDING" => state'[b] # "none"]_vars

\* A blob that CompleteMultipartUpload has committed has its object: R2
\* assembles it before the row is changed, and an abort that races comes too
\* early or too late.
AssembledHasObject == assembled \subseteq objects

\* A download URL is only ever valid for a committed blob, and when the blob was
\* uploaded in parts its holder finds the object: the row read before the URL
\* is signed is not locked, and nothing may take the commit or the object back.
DownloadsAreCommitted ==
    \A b \in getURLs :
        state[b] = "COMMITTED" /\ (b \notin assembled \/ b \in objects)

-----------------------------------------------------------------------------
(***************************************************************************)
(* The invariant the proofs use (ServiceProofs).                           *)
(***************************************************************************)

\* A call that is about to commit a multipart upload has had R2 assemble the
\* object; one that is about to sign a download URL has read a committed row.
CallInv ==
    \A p \in Procs :
        /\ call[p].at = "mark" /\ call[p].multipart => call[p].blob \in objects
        /\ call[p].at = "presignGet" => state[call[p].blob] = "COMMITTED"

\* The inductive invariant: what each call knows, beside what the properties
\* say of the rows, the objects and the URLs.
IInv ==
    /\ TypeOK
    /\ IsFiniteSet(uploads)
    /\ CallInv
    /\ CommittedOnce
    /\ AssembledHasObject
    /\ DownloadsAreCommitted

(***************************************************************************)
(* Stated by the design notes, refuted by the code.                        *)
(***************************************************************************)

\* The state transition prevents "phantom references"
\* (server/.llm/context/architecture.md:438): a committed blob has its object.
NoPhantoms == \A b \in Blobs : state[b] = "COMMITTED" => b \in objects

\* "A COMMITTED blob is never re-uploaded"
\* (server/.llm/context/architecture.md:274).
NeverReuploaded == [][\A b \in Blobs : Put(b) => state[b] # "COMMITTED"]_vars

\* ErrAlreadyCommitted means "blob already committed" (domain/errors.go:7).
RefusedBecauseCommitted ==
    [][\A p \in Procs :
          Create(p) /\ call'[p] = Idle => state[call[p].blob] = "COMMITTED"]_vars
=============================================================================
