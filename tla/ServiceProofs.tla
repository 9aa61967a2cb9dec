--------------------------- MODULE ServiceProofs ---------------------------
(***************************************************************************)
(* Proofs about the services as processes and about the one that stores    *)
(* blobs.                                                                  *)
(*                                                                         *)
(* BlobUpload: the types, one commit per blob, rows that only advance, and *)
(* what a download URL promises, for any number of blobs, concurrent RPCs, *)
(* parts and uploads.                                                      *)
(*                                                                         *)
(* Lifecycle: the accounts of the connection pools, what a shutdown loses, *)
(* for any number of clients, any work and any environment.                *)
(***************************************************************************)
EXTENDS BlobUpload, Lifecycle, FiniteSetTheorems, SequenceTheorems, TLAPS

-----------------------------------------------------------------------------
(***************************************************************************)
(* The records of calls and uploads.                                       *)
(***************************************************************************)

\* What a call record holds, by the step it is at.
LEMMA CallFields ==
    ASSUME NEW c \in Call
    PROVE  /\ c.at \in {"idle", "create", "presign", "assemble", "mark", "presignGet"}
           /\ c.at # "idle" => c.blob \in Blobs
           /\ c.at \in {"create", "presign", "mark"} => c.multipart \in BOOLEAN
           /\ c.at = "assemble" => c.upload \in 1..MaxUploads /\ c.parts \subseteq 1..PartCount
           /\ c.at = "idle" => c = Idle
           /\ c.at = "create" => [c EXCEPT !.at = "presign"] \in Call
           /\ c.at = "create" => /\ [c EXCEPT !.at = "presign"].at = "presign"
                                 /\ [c EXCEPT !.at = "presign"].blob = c.blob
BY DEF Call, Idle

\* The fields of the call records that the handlers build.
LEMMA NewCalls ==
    ASSUME NEW b \in Blobs, NEW m \in BOOLEAN
    PROVE  /\ \A a \in {"create", "presign"} : [at |-> a, blob |-> b, multipart |-> m] \in Call
           /\ [at |-> "mark", blob |-> b, multipart |-> m] \in Call
           /\ [at |-> "presignGet", blob |-> b] \in Call
           /\ \A u \in 1..MaxUploads, q \in SUBSET (1..PartCount) :
                 [at |-> "assemble", blob |-> b, upload |-> u, parts |-> q] \in Call
BY DEF Call, Idle

LEMMA IdleCall == Idle \in Call /\ Idle.at = "idle"
BY DEF Call, Idle

\* An upload that is closed, emptied or given a part is still an upload.
LEMMA UploadSteps ==
    ASSUME NEW u \in Upload
    PROVE  /\ [u EXCEPT !.open = FALSE] \in Upload
           /\ [u EXCEPT !.open = FALSE, !.parts = {}] \in Upload
           /\ \A n \in u.urls : [u EXCEPT !.parts = @ \cup {n}] \in Upload
BY DEF Upload

-----------------------------------------------------------------------------
LEMMA InitIInv == Init => IInv
BY FS_EmptySet, IdleCall
   DEF Init, IInv, TypeOK, CallInv, CommittedOnce, AssembledHasObject,
       DownloadsAreCommitted

-----------------------------------------------------------------------------
(***************************************************************************)
(* Steps that leave the rows alone.                                        *)
(***************************************************************************)

\* A call that ends, or goes to a step for which it knows enough, keeps the
\* invariant when rows, objects, uploads and URLs are left alone.
LEMMA CallStep ==
    ASSUME IInv, NEW p \in Procs, NEW c \in Call,
           call' = [call EXCEPT ![p] = c],
           UNCHANGED <<state, r2, urls, commits, assembled>>,
           c.at = "mark" => c.multipart = FALSE,
           c.at = "presignGet" => state[c.blob] = "COMMITTED"
    PROVE  IInv'
BY DEF IInv, TypeOK, CallInv, CommittedOnce, AssembledHasObject,
       DownloadsAreCommitted, r2, urls

\* InitiateUpload, InitiateMultipartUpload.
LEMMA InitiateStep ==
    ASSUME IInv, NEW p \in Procs, NEW b \in Blobs, NEW m \in BOOLEAN, Initiate(p, b, m)
    PROVE  IInv'
<1> DEFINE c == [at |-> IF state[b] = "none" THEN "create" ELSE "presign",
                 blob |-> b, multipart |-> m]
<1>1. c \in Call /\ c.at \in {"create", "presign"}
    BY NewCalls
<1>2. call' = [call EXCEPT ![p] = c]
    BY DEF Initiate, Go
<1> QED
    BY <1>1, <1>2, CallStep DEF Initiate

\* CompleteUpload, CompleteMultipartUpload, GetDownloadURL up to their reads.
LEMMA ReadStep ==
    ASSUME IInv, NEW p \in Procs, NEW b \in Blobs,
           \/ CompleteUpload(p, b)
           \/ \E u \in uploads, parts \in SUBSET Parts \ {{}} :
                 CompleteMultipart(p, b, u.id, parts)
           \/ GetDownloadURL(p, b)
    PROVE  IInv'
<1>1. CASE CompleteUpload(p, b)
    <2> DEFINE c == [at |-> "mark", blob |-> b, multipart |-> FALSE]
    <2>1. c \in Call
        BY NewCalls
    <2> QED
        BY <1>1, <2>1, CallStep DEF CompleteUpload, Go
<1>2. ASSUME NEW u \in uploads, NEW parts \in SUBSET Parts \ {{}},
             CompleteMultipart(p, b, u.id, parts)
      PROVE  IInv'
    <2> DEFINE c == [at |-> "assemble", blob |-> b, upload |-> u.id, parts |-> parts]
    <2>1. u.id \in 1..MaxUploads /\ parts \in SUBSET (1..PartCount)
        BY DEF IInv, TypeOK, Upload, Parts
    <2>2. c \in Call
        BY <2>1, NewCalls
    <2> QED
        BY <1>2, <2>2, CallStep DEF CompleteMultipart, Go
<1>3. CASE GetDownloadURL(p, b)
    <2> DEFINE c == [at |-> "presignGet", blob |-> b]
    <2>1. c \in Call
        BY NewCalls
    <2>2. state[b] = "COMMITTED"
        BY <1>3 DEF GetDownloadURL, IInv, TypeOK
    <2> QED
        BY <1>3, <2>1, <2>2, CallStep DEF GetDownloadURL, Go
<1> QED
    BY <1>1, <1>2, <1>3

\* A call that fails leaves what it has done so far.
LEMMA FailStep ==
    ASSUME IInv, NEW p \in Procs, Fail(p)
    PROVE  IInv'
BY CallStep, IdleCall DEF Fail, Answer

-----------------------------------------------------------------------------
(***************************************************************************)
(* Steps that change the rows.                                             *)
(***************************************************************************)

\* Create: the row is there or becomes PENDING; no committed row is touched.
LEMMA CreateStep ==
    ASSUME IInv, NEW p \in Procs, Create(p)
    PROVE  IInv'
<1> DEFINE b == call[p].blob
<1>1. call[p] \in Call /\ b \in Blobs
    BY CallFields DEF IInv, TypeOK, Create
<1>2. CASE state[b] = "none"
    <2> DEFINE c == [call[p] EXCEPT !.at = "presign"]
    <2>1. c \in Call /\ c.at = "presign"
        BY <1>1, CallFields DEF Create
    <2>2. state' = [state EXCEPT ![b] = "PENDING"] /\ call' = [call EXCEPT ![p] = c]
        BY <1>2 DEF Create, Go
    <2>3. UNCHANGED <<objects, uploads, putURLs, getURLs, commits, assembled>>
        BY DEF Create, r2, urls
    <2>4. TypeOK' /\ IsFiniteSet(uploads)'
        BY <1>1, <2>1, <2>2, <2>3 DEF IInv, TypeOK
    <2>5. CallInv'
        BY <1>1, <1>2, <2>1, <2>2, <2>3 DEF IInv, TypeOK, CallInv
    <2>6. CommittedOnce' /\ AssembledHasObject' /\ DownloadsAreCommitted'
        BY <1>1, <1>2, <2>2, <2>3
           DEF IInv, TypeOK, CommittedOnce, AssembledHasObject, DownloadsAreCommitted
    <2> QED
        BY <2>4, <2>5, <2>6 DEF IInv
<1>3. CASE state[b] # "none"
    BY <1>3, CallStep, IdleCall DEF Create, Answer
<1> QED
    BY <1>2, <1>3

\* MarkCommitted: the call whose UPDATE finds the row PENDING commits it, and a
\* call that has assembled the object says so.
LEMMA MarkStep ==
    ASSUME IInv, NEW p \in Procs, MarkCommitted(p)
    PROVE  IInv'
<1> DEFINE b == call[p].blob
<1>1. call[p] \in Call /\ b \in Blobs /\ call[p].multipart \in BOOLEAN
    BY CallFields DEF IInv, TypeOK, MarkCommitted
<1>2. CASE state[b] = "PENDING"
    <2>1. /\ state' = [state EXCEPT ![b] = "COMMITTED"]
          /\ commits' = [commits EXCEPT ![b] = @ + 1]
          /\ assembled' = IF call[p].multipart THEN assembled \cup {b} ELSE assembled
          /\ call' = [call EXCEPT ![p] = Idle]
          /\ UNCHANGED <<objects, uploads, putURLs, getURLs>>
        BY <1>2 DEF MarkCommitted, Answer, r2, urls
    <2>2. TypeOK' /\ IsFiniteSet(uploads)'
        BY <1>1, <2>1, IdleCall DEF IInv, TypeOK
    <2>3. CallInv'
      <3> SUFFICES ASSUME NEW q \in Procs
                   PROVE  CallInv!(q)'
        BY DEF CallInv
      <3>1. call[q] \in Call
        BY DEF IInv, TypeOK
      <3> QED
        BY <1>1, <2>1, <3>1, CallFields, IdleCall DEF IInv, TypeOK, CallInv
    <2>4. CommittedOnce'
        BY <1>1, <1>2, <2>1 DEF IInv, TypeOK, CommittedOnce
    <2>5. AssembledHasObject'
        BY <1>1, <2>1 DEF IInv, CallInv, AssembledHasObject, MarkCommitted
    <2>6. DownloadsAreCommitted'
        BY <1>1, <2>1, <2>5
           DEF IInv, TypeOK, DownloadsAreCommitted, AssembledHasObject
    <2> QED
        BY <2>2, <2>3, <2>4, <2>5, <2>6 DEF IInv
<1>3. CASE state[b] # "PENDING"
    <2>1. /\ call' = [call EXCEPT ![p] = Idle]
          /\ UNCHANGED <<state, r2, urls, commits, assembled>>
        BY <1>3 DEF MarkCommitted, Answer
    <2> QED
        BY <2>1, CallStep, IdleCall
<1> QED
    BY <1>2, <1>3

-----------------------------------------------------------------------------
(***************************************************************************)
(* Steps that change objects, uploads and URLs.                            *)
(***************************************************************************)

\* PresignPut, PresignGet: a download URL is signed for a row that was read
\* committed and still is.
LEMMA PresignStep ==
    ASSUME IInv, NEW p \in Procs, PresignPut(p) \/ PresignGet(p)
    PROVE  IInv'
<1> DEFINE b == call[p].blob
<1>1. b \in Blobs
    BY CallFields DEF IInv, TypeOK, PresignPut, PresignGet
<1>2. /\ call' = [call EXCEPT ![p] = Idle]
      /\ UNCHANGED <<state, objects, uploads, commits, assembled>>
    BY DEF PresignPut, PresignGet, Answer, r2
<1>3. /\ putURLs' \subseteq putURLs \cup {b}
      /\ \A x \in getURLs' : x \in getURLs \/ (x = b /\ state[b] = "COMMITTED")
    <2>1. CASE PresignPut(p)
        BY <2>1 DEF PresignPut
    <2>2. CASE PresignGet(p)
        BY <2>2 DEF PresignGet, IInv, CallInv
    <2> QED
        BY <2>1, <2>2
<1>4. TypeOK' /\ IsFiniteSet(uploads)'
    BY <1>1, <1>2, <1>3, IdleCall DEF IInv, TypeOK
<1>5. CallInv'
    BY <1>2, IdleCall DEF IInv, TypeOK, CallInv
<1>6. CommittedOnce' /\ AssembledHasObject'
    BY <1>2 DEF IInv, CommittedOnce, AssembledHasObject
<1>7. DownloadsAreCommitted'
    BY <1>2, <1>3 DEF IInv, DownloadsAreCommitted, AssembledHasObject
<1> QED
    BY <1>4, <1>5, <1>6, <1>7 DEF IInv

\* Objects only ever appear: a step that changes nothing but R2 and lets a call
\* end, or go on to commit the blob whose object it has assembled, keeps the
\* invariant.
LEMMA StorageStep ==
    ASSUME IInv,
           \/ call' = call
           \/ \E p \in Procs : call' = [call EXCEPT ![p] = Idle]
           \/ \E p \in Procs, b \in Blobs :
                 /\ call' = [call EXCEPT ![p] = [at |-> "mark", blob |-> b, multipart |-> TRUE]]
                 /\ b \in objects',
           uploads' \subseteq Upload, IsFiniteSet(uploads'),
           objects \subseteq objects', objects' \subseteq Blobs,
           putURLs' \subseteq putURLs, getURLs' \subseteq getURLs,
           UNCHANGED <<state, commits, assembled>>
    PROVE  IInv'
<1>1. TypeOK'
    BY NewCalls, IdleCall DEF IInv, TypeOK
<1>2. CallInv'
    BY IdleCall DEF IInv, TypeOK, CallInv
<1>3. CommittedOnce' /\ AssembledHasObject' /\ DownloadsAreCommitted'
    BY DEF IInv, CommittedOnce, AssembledHasObject, DownloadsAreCommitted
<1> QED
    BY <1>1, <1>2, <1>3 DEF IInv

\* CreateMultipartUpload: the new id is one more than there are uploads.
LEMMA CreateMultipartStep ==
    ASSUME IInv, NEW p \in Procs, CreateMultipart(p)
    PROVE  IInv'
<1>1. call[p].blob \in Blobs
    BY CallFields DEF IInv, TypeOK, CreateMultipart
<1>2. PICK signed \in {Parts, {}} :
        uploads' = uploads \cup
          {[id |-> Cardinality(uploads) + 1, blob |-> call[p].blob, urls |-> signed,
            parts |-> {}, open |-> TRUE]}
    BY DEF CreateMultipart
<1>3. Cardinality(uploads) \in Nat /\ Cardinality(uploads) + 1 \in 1..MaxUploads
    BY BlobUploadAssumption, FS_CardinalityType DEF IInv, CreateMultipart
<1>4. uploads' \subseteq Upload
    <2>1. signed \in SUBSET (1..PartCount)
        BY DEF Parts
    <2>2. [id |-> Cardinality(uploads) + 1, blob |-> call[p].blob, urls |-> signed,
           parts |-> {}, open |-> TRUE] \in Upload
        BY <1>1, <1>3, <2>1 DEF Upload
    <2> QED
        BY <1>2, <2>2 DEF IInv, TypeOK
<1>5. IsFiniteSet(uploads')
    BY <1>2, FS_AddElement DEF IInv
<1> QED
    BY <1>4, <1>5, StorageStep DEF CreateMultipart, Answer, urls, IInv, TypeOK

\* Assemble: only a call for which R2 has assembled the object goes on to commit.
LEMMA AssembleStep ==
    ASSUME IInv, NEW p \in Procs, Assemble(p)
    PROVE  IInv'
<1> DEFINE b == call[p].blob
<1>1. b \in Blobs
    BY CallFields DEF IInv, TypeOK, Assemble
<1>2. ASSUME NEW u \in uploads,
             uploads' = (uploads \ {u}) \cup {[u EXCEPT !.open = FALSE]},
             objects' = objects \cup {b},
             Go(p, [at |-> "mark", blob |-> b, multipart |-> TRUE])
      PROVE  IInv'
    <2>1. uploads' \subseteq Upload
        BY <1>2, UploadSteps DEF IInv, TypeOK
    <2>2. IsFiniteSet(uploads')
        BY <1>2, FS_AddElement, FS_RemoveElement DEF IInv
    <2>3. call' = [call EXCEPT ![p] = [at |-> "mark", blob |-> b, multipart |-> TRUE]]
        BY <1>2 DEF Go
    <2> QED
        BY <1>1, <1>2, <2>1, <2>2, <2>3, StorageStep DEF Assemble, urls, IInv, TypeOK
<1>3. ASSUME Answer(p), UNCHANGED r2
      PROVE  IInv'
    BY <1>3, StorageStep DEF Assemble, Answer, r2, urls, IInv, TypeOK
<1> QED
    BY <1>2, <1>3 DEF Assemble

\* Abort, PutPart, Put, URLExpires: what clients do to R2, and time.
LEMMA ClientStep ==
    ASSUME IInv,
           \/ \E u \in uploads : Abort(u) \/ \E n \in u.urls : PutPart(u, n)
           \/ \E b \in Blobs : Put(b) \/ URLExpires(b)
    PROVE  IInv'
<1>1. ASSUME NEW u \in uploads, Abort(u) \/ \E n \in u.urls : PutPart(u, n)
      PROVE  IInv'
    <2>1. PICK w \in Upload : uploads' = (uploads \ {u}) \cup {w}
        BY <1>1, UploadSteps DEF Abort, PutPart, IInv, TypeOK
    <2>2. uploads' \subseteq Upload /\ IsFiniteSet(uploads')
        BY <2>1, FS_AddElement, FS_RemoveElement DEF IInv, TypeOK
    <2> QED
        BY <1>1, <2>2, StorageStep DEF Abort, PutPart, rpc, urls, IInv, TypeOK
<1>2. ASSUME NEW b \in Blobs, Put(b) \/ URLExpires(b)
      PROVE  IInv'
    BY <1>2, StorageStep DEF Put, URLExpires, rpc, r2, urls, IInv, TypeOK
<1> QED
    BY <1>1, <1>2

-----------------------------------------------------------------------------
(***************************************************************************)
(* The theorems.                                                           *)
(***************************************************************************)

\* Every step of every RPC, every client and every expiry keeps the invariant.
LEMMA NextIInv == IInv /\ [Next]_vars => IInv'
<1> SUFFICES ASSUME IInv, [Next]_vars PROVE IInv'
    OBVIOUS
<1>1. ASSUME NEW p \in Procs, RPC(p) PROVE IInv'
    <2>1. CASE \E b \in Blobs, multipart \in BOOLEAN : Initiate(p, b, multipart)
        BY <2>1, InitiateStep
    <2>2. CASE \E b \in Blobs : CompleteUpload(p, b) \/ GetDownloadURL(p, b)
        BY <2>2, ReadStep
    <2>3. CASE \E b \in Blobs, u \in uploads, parts \in SUBSET Parts \ {{}} :
                  CompleteMultipart(p, b, u.id, parts)
        BY <2>3, ReadStep
    <2>4. CASE Create(p)
        BY <2>4, CreateStep
    <2>5. CASE PresignPut(p) \/ PresignGet(p)
        BY <2>5, PresignStep
    <2>6. CASE CreateMultipart(p)
        BY <2>6, CreateMultipartStep
    <2>7. CASE Assemble(p)
        BY <2>7, AssembleStep
    <2>8. CASE MarkCommitted(p)
        BY <2>8, MarkStep
    <2>9. CASE Fail(p)
        BY <2>9, FailStep
    <2> QED
        BY <1>1, <2>1, <2>2, <2>3, <2>4, <2>5, <2>6, <2>7, <2>8, <2>9 DEF RPC
<1>2. CASE UNCHANGED vars
    BY <1>2, StorageStep DEF vars, rpc, r2, urls, IInv, TypeOK
<1> QED
    BY <1>1, <1>2, ClientStep DEF Next

\* Every reachable state satisfies the inductive invariant.
THEOREM Invariant == Spec => []IInv
BY InitIInv, NextIInv, PTL DEF Spec

\* However many calls complete a blob at once, one UPDATE commits it
\* (MarkCommitted), for any number of blobs, calls and uploads.
THEOREM OneCommit == Spec => []CommittedOnce
<1>1. IInv => CommittedOnce
    BY DEF IInv
<1> QED
    BY <1>1, Invariant, PTL

\* What CompleteMultipartUpload has committed is in R2, whatever abort races with
\* it or fails after Assemble.
THEOREM AssembledBlobsAreThere == Spec => []AssembledHasObject
<1>1. IInv => AssembledHasObject
    BY DEF IInv
<1> QED
    BY <1>1, Invariant, PTL

\* A download URL that GetDownloadURL has signed is for a committed blob, and finds
\* the object when it was uploaded in parts.
THEOREM DownloadsFindCommits == Spec => []DownloadsAreCommitted
<1>1. IInv => DownloadsAreCommitted
    BY DEF IInv
<1> QED
    BY <1>1, Invariant, PTL

\* No row goes back: Create inserts, MarkCommitted updates PENDING rows, and no
\* other step writes the table.
LEMMA NextAdvances ==
    ASSUME TypeOK, [Next]_vars
    PROVE  \A b \in Blobs : /\ state[b] = "COMMITTED" => state'[b] = "COMMITTED"
                            /\ state[b] = "PENDING" => state'[b] # "none"
<1>1. CASE \E p \in Procs : Create(p) \/ MarkCommitted(p)
    BY <1>1 DEF Create, MarkCommitted, TypeOK
<1>2. CASE state' = state
    BY <1>2
<1> QED
    BY <1>1, <1>2
       DEF Next, RPC, Initiate, PresignPut, CreateMultipart, CompleteUpload, CompleteMultipart,
           Assemble, Abort, GetDownloadURL, PresignGet, Put, PutPart, URLExpires, Fail, vars

THEOREM RowsOnlyAdvance == Spec => StateOnlyAdvances
<1>1. TypeOK /\ [Next]_vars =>
        [\A b \in Blobs : /\ state[b] = "COMMITTED" => state'[b] = "COMMITTED"
                          /\ state[b] = "PENDING" => state'[b] # "none"]_vars
    BY NextAdvances
<1>2. IInv => TypeOK
    BY DEF IInv
<1> QED
    BY <1>1, <1>2, Invariant, PTL DEF Spec, StateOnlyAdvances
-----------------------------------------------------------------------------
(***************************************************************************)
(* Lifecycle.  Configuration, start-up, and the stacks of requests.        *)
(***************************************************************************)

\* A start-up has at most four steps, and opens servers of its own process.
LEMMA Startups ==
    ASSUME NEW s \in Processes
    PROVE  /\ Len(Startup(s)) \in 1..4
           /\ \A i \in 1..Len(Startup(s)) :
                 Startup(s)[i][1] = "open" => <<s, Startup(s)[i][2]>> \in Servers
<1>1. CASE s = "bff"
    BY <1>1 DEF Startup, BFFStartup, Need, Open, Servers
<1>2. CASE s = "blob"
    BY <1>2 DEF Startup, BlobStartup, Need, Open, Servers
<1>3. CASE s = "identity" /\ "google" \in env["identity"].idps
    BY <1>3 DEF Startup, IdentityStartup, Need, Open, Servers
<1>4. CASE s = "identity" /\ "google" \notin env["identity"].idps
    BY <1>4 DEF Startup, IdentityStartup, Need, Open, Servers
<1> QED
    BY <1>1, <1>2, <1>3, <1>4 DEF Processes

LEMMA Shutdowns ==
    ASSUME NEW s \in Processes
    PROVE  /\ Len(Shutdown[s]) \in 1..2
           /\ 1 \in 1..Len(Shutdown[s]) /\ 1..Len(Shutdown[s]) \subseteq 1..2
           /\ \A j \in 1..Len(Shutdown[s]) : <<s, Shutdown[s][j]>> \in Servers
           /\ \A l \in Servers : l[1] = s =>
                 \E j \in 1..Len(Shutdown[s]) : l = <<s, Shutdown[s][j]>>
<1>1. CASE s = "identity"
    BY <1>1 DEF Shutdown, Servers
<1>2. CASE s = "bff"
    BY <1>2 DEF Shutdown, Servers
<1>3. CASE s = "blob"
    BY <1>3 DEF Shutdown, Servers
<1> QED
    BY <1>1, <1>2, <1>3 DEF Processes

LEMMA InHolders ==
    ASSUME NEW s, NEW x
    PROVE  x \in Holders(s) <=>
               \E c \in Clients : \E i \in DOMAIN calls[c] :
                   x = <<c, i>> /\ Process(calls[c][i]) = s /\ calls[c][i].conns > 0
BY DEF Holders, Frames

LEMMA InServers ==
    ASSUME NEW l
    PROVE  InServer(l) = {} <=> Vacant(l)
<1>1. ASSUME NEW c \in Clients, NEW i \in DOMAIN calls[c], calls[c][i].server = l
      PROVE  InServer(l) # {}
    <2>1. <<c, i>> \in Frames
        BY DEF Frames
    <2> QED
        BY <1>1, <2>1 DEF InServer
<1>2. ASSUME Vacant(l) PROVE InServer(l) = {}
    BY <1>2 DEF InServer, Frames, Vacant
<1> QED
    BY <1>1, <1>2 DEF Vacant

\* What is known of the request of a client.
LEMMA InStack ==
    ASSUME LifecycleTypeOK, NEW c \in Clients
    PROVE  /\ calls[c] \in Seq(Frame) /\ Len(calls[c]) \in Nat
           /\ DOMAIN calls[c] = 1..Len(calls[c])
           /\ \A i \in DOMAIN calls[c] : calls[c][i] \in Frame
BY LenProperties, ElementOfSeq DEF LifecycleTypeOK

LEMMA InFrame ==
    ASSUME NEW f \in Frame
    PROVE  /\ f.server \in Servers /\ f.work \in 0..MaxWork /\ f.conns \in 0..1
           /\ Process(f) = f.server[1] /\ Process(f) \in Processes
BY DEF Frame, Process, Servers, Processes

\* new follows old: each of its frames was there, with no connection more than it
\* had, or is new in a server that is open.
Proceeds(old, new) ==
    \A i \in DOMAIN new :
        \/ /\ i \in DOMAIN old /\ new[i].server = old[i].server
           /\ new[i].conns <= old[i].conns
        \/ new[i].server \in open /\ new[i].conns = 0

StacksProceed ==
    /\ calls' \in [Clients -> Seq(Frame)]
    /\ \A c \in Clients : StackOK(calls'[c]) /\ Proceeds(calls[c], calls'[c])

LEMMA VacantStays ==
    ASSUME StacksProceed, NEW l, l \notin open, Vacant(l)
    PROVE  Vacant(l)'
BY DEF StacksProceed, Proceeds, Vacant

\* When no frame gains a connection, those that hold one are those that held one but
\* for the frames gone.
LEMMA HoldersExcept ==
    ASSUME LifecycleTypeOK, StacksProceed, NEW s, NEW gone \in SUBSET Holders(s),
           \A c \in Clients : \A i \in DOMAIN calls[c] :
               <<c, i>> \in Holders(s) =>
                   (<<c, i>> \in gone <=> ~(i \in DOMAIN calls'[c] /\ calls'[c][i].conns > 0))
    PROVE  Holders(s)' = Holders(s) \ gone
<1>1. ASSUME NEW c \in Clients, NEW i \in DOMAIN calls'[c],
             calls'[c][i].conns > 0
      PROVE  /\ i \in DOMAIN calls[c] /\ calls[c][i].conns > 0
             /\ Process(calls[c][i]) = Process(calls'[c][i])
    <2>1. /\ calls'[c] \in Seq(Frame) /\ calls'[c][i] \in Frame
        BY LenProperties, ElementOfSeq DEF StacksProceed
    <2>2. /\ i \in DOMAIN calls[c] /\ calls'[c][i].server = calls[c][i].server
          /\ calls'[c][i].conns <= calls[c][i].conns
        BY <1>1, <2>1, InFrame DEF StacksProceed, Proceeds
    <2>3. calls[c][i] \in Frame
        BY <2>2, InStack
    <2> QED
        BY <1>1, <2>1, <2>2, <2>3, InFrame DEF Process
<1>2. Holders(s)' \subseteq Holders(s) \ gone
    <2> SUFFICES ASSUME NEW c \in Clients, NEW i \in DOMAIN calls'[c],
                        Process(calls'[c][i]) = s, calls'[c][i].conns > 0
                 PROVE  <<c, i>> \in Holders(s) \ gone
        BY DEF Holders, Frames
    <2> QED
        BY <1>1, InHolders
<1>3. ASSUME NEW c \in Clients, NEW i \in DOMAIN calls[c], <<c, i>> \in Holders(s) \ gone
      PROVE  <<c, i>> \in Holders(s)'
    <2>1. i \in DOMAIN calls'[c] /\ calls'[c][i].conns > 0
        BY <1>3
    <2>2. Process(calls[c][i]) = s
        BY <1>3, InHolders
    <2> QED
        BY <1>1, <2>1, <2>2 DEF Holders, Frames
<1>4. Holders(s) \ gone \subseteq Holders(s)'
    BY <1>3 DEF Holders, Frames
<1> QED
    BY <1>2, <1>4

\* The accounts of the pools are right when what they have back is what was lost.
LEMMA AccountsKept ==
    ASSUME LifecycleInv,
           \A s \in Pools : \E gone \in SUBSET Holders(s) :
               /\ Holders(s)' = Holders(s) \ gone
               /\ lent'[s] = lent[s] - Cardinality(gone)
    PROVE  (\A s \in Pools : IsFiniteSet(Holders(s)))' /\ PoolsGetBackWhatTheyLend'
<1> SUFFICES ASSUME NEW s \in Pools
             PROVE  IsFiniteSet(Holders(s)') /\ lent'[s] = Cardinality(Holders(s)')
    BY DEF PoolsGetBackWhatTheyLend
<1>1. PICK gone \in SUBSET Holders(s) : /\ Holders(s)' = Holders(s) \ gone
                                        /\ lent'[s] = lent[s] - Cardinality(gone)
    OBVIOUS
<1>2. PICK held : held = Holders(s)
    OBVIOUS
<1>3. IsFiniteSet(held) /\ lent[s] = Cardinality(held)
    BY <1>2 DEF LifecycleInv, PoolsGetBackWhatTheyLend
<1>4. /\ IsFiniteSet(held \ gone)
      /\ Cardinality(held \ gone) = Cardinality(held) - Cardinality(held \cap gone)
    BY <1>3, FS_Difference
<1>5. held \cap gone = gone
    BY <1>2
<1> QED
    BY <1>1, <1>2, <1>3, <1>4, <1>5

\* A step of a request keeps everything but the accounts of the pools when no frame
\* appears in a server that is not open.
LEMMA ShapeKept ==
    ASSUME LifecycleInv, UNCHANGED <<env, at, open, up, faults>>,
           calls' \in [Clients -> Seq(Frame)], \A c \in Clients : StackOK(calls'[c]),
           lent' \in [Pools -> Int],
           \A l \in Servers \ open : Vacant(l) => Vacant(l)'
    PROVE  LifecycleTypeOK' /\ Stages' /\ OffIsSilent' /\ ClosedInOrder'
<1>1. LifecycleTypeOK'
    BY DEF LifecycleInv, LifecycleTypeOK
<1>2. Stages'
    BY DEF LifecycleInv, Stages, Loads, IdentityLoads, BFFLoads, BlobLoads, Startup,
           IdentityStartup, BFFStartup, BlobStartup
<1>3. OffIsSilent'
    BY DEF LifecycleInv, OffIsSilent
<1>4. ClosedInOrder'
    <2> SUFFICES ASSUME NEW s \in Processes, at[s].phase = "stop", NEW j \in 1..at[s].step
                 PROVE  /\ <<s, Shutdown[s][j]>> \notin open
                        /\ (j < at[s].step => Vacant(<<s, Shutdown[s][j]>>)')
        BY DEF ClosedInOrder
    <2>1. at[s].step \in 1..Len(Shutdown[s])
        BY DEF LifecycleInv, Stages
    <2>2. j \in 1..Len(Shutdown[s])
        BY <2>1, Shutdowns
    <2>3. <<s, Shutdown[s][j]>> \in Servers
        BY <2>2, Shutdowns
    <2> QED
        BY <2>3 DEF LifecycleInv, ClosedInOrder
<1> QED
    BY <1>1, <1>2, <1>3, <1>4

\* A step of a request keeps the invariant when its stack proceeds and the pools
\* have back what it gives up.
LEMMA RequestStep ==
    ASSUME LifecycleInv, StacksProceed, UNCHANGED <<env, at, open, up, faults>>,
           lent' \in [Pools -> Int],
           \A s \in Pools : \E gone \in SUBSET Holders(s) :
               /\ Holders(s)' = Holders(s) \ gone
               /\ lent'[s] = lent[s] - Cardinality(gone)
    PROVE  LifecycleInv'
<1>1. LifecycleTypeOK' /\ Stages' /\ OffIsSilent' /\ ClosedInOrder'
    BY ShapeKept, VacantStays DEF StacksProceed
<1> QED
    BY <1>1, AccountsKept DEF LifecycleInv, StacksProceed

\* ... or keeps its connections.
LEMMA QuietRequestStep ==
    ASSUME LifecycleInv, StacksProceed, UNCHANGED <<env, at, open, up, lent, faults>>,
           \A c \in Clients : \A i \in DOMAIN calls[c] :
               calls[c][i].conns > 0 => i \in DOMAIN calls'[c] /\ calls'[c][i].conns > 0
    PROVE  LifecycleInv'
<1>1. ASSUME NEW s \in Pools
      PROVE  \E gone \in SUBSET Holders(s) : /\ Holders(s)' = Holders(s) \ gone
                                             /\ lent'[s] = lent[s] - Cardinality(gone)
    <2>1. \A c \in Clients : \A i \in DOMAIN calls[c] :
              <<c, i>> \in Holders(s) => i \in DOMAIN calls'[c] /\ calls'[c][i].conns > 0
        BY InHolders
    <2>2. {} \in SUBSET Holders(s) /\ Holders(s)' = Holders(s) \ {}
        BY <2>1, HoldersExcept DEF LifecycleInv
    <2>3. lent'[s] = lent[s] - Cardinality({})
        BY FS_EmptySet DEF LifecycleInv, LifecycleTypeOK
    <2> QED
        BY <2>2, <2>3
<1>2. lent' \in [Pools -> Int]
    BY DEF LifecycleInv, LifecycleTypeOK
<1> QED
    BY <1>1, <1>2, RequestStep

\* ... which is so when one stack does and the others are left alone.
LEMMA OneProceeds ==
    ASSUME LifecycleInv, NEW c \in Clients, NEW stack \in Seq(Frame),
           StackOK(stack), Proceeds(calls[c], stack), calls' = [calls EXCEPT ![c] = stack]
    PROVE  StacksProceed
<1>1. calls'[c] = stack /\ \A d \in Clients \ {c} : calls'[d] = calls[d]
    BY DEF LifecycleInv, LifecycleTypeOK
<1>2. calls' \in [Clients -> Seq(Frame)]
    BY DEF LifecycleInv, LifecycleTypeOK
<1>3. ASSUME NEW d \in Clients \ {c} PROVE Proceeds(calls[d], calls[d])
    BY InStack, InFrame DEF Proceeds, LifecycleInv
<1> QED
    BY <1>1, <1>2, <1>3 DEF StacksProceed, LifecycleInv

\* The frames below the top of a stack, and another frame on top of them.
LEMMA TopOfStack ==
    ASSUME NEW c \in Clients, LifecycleTypeOK, calls[c] # << >>
    PROVE  LET n == Len(calls[c]) IN
           /\ n \in Nat \ {0} /\ n \in DOMAIN calls[c] /\ Top(c) = calls[c][n] /\ Top(c) \in Frame
           /\ Below(c) \in Seq(Frame) /\ Len(Below(c)) = n - 1
           /\ DOMAIN Below(c) = 1..(n - 1)
           /\ \A i \in 1..(n - 1) : Below(c)[i] = calls[c][i]
<1> DEFINE n == Len(calls[c])
<1>1. n \in Nat \ {0} /\ calls[c] \in Seq(Frame) /\ DOMAIN calls[c] = 1..n
    BY InStack, EmptySeq
<1>2. Top(c) = calls[c][n] /\ Top(c) \in Frame
    BY <1>1, InStack DEF Top
<1>3. /\ Below(c) \in Seq(Frame) /\ Len(Below(c)) = n - 1
      /\ \A i \in 1..(n - 1) : Below(c)[i] = calls[c][i]
    <2>1. \A i \in 1..(n - 1) : calls[c][i] \in Frame
        BY <1>1, InStack
    <2> QED
        BY <1>1, <2>1, SubSeqProperties DEF Below
<1> QED
    BY <1>1, <1>2, <1>3, LenProperties

LEMMA Pushed ==
    ASSUME NEW stack \in Seq(Frame), NEW f \in Frame
    PROVE  LET new == Append(stack, f) IN
           /\ new \in Seq(Frame) /\ Len(new) = Len(stack) + 1 /\ Len(stack) \in Nat
           /\ DOMAIN new = 1..(Len(stack) + 1)
           /\ new[Len(stack) + 1] = f
           /\ \A i \in 1..Len(stack) : new[i] = stack[i]
BY AppendProperties, LenProperties

\* The handler on top goes on.
LEMMA TopChanges ==
    ASSUME LifecycleInv, NEW c \in Clients, calls[c] # << >>, NEW f \in Frame,
           f.server = Top(c).server, f.conns > 0 => f.work > 0,
           Process(f) = "bff" => f.conns = 0
    PROVE  LET stack == Append(Below(c), f) IN
           /\ stack \in Seq(Frame) /\ StackOK(stack)
           /\ Len(stack) = Len(calls[c]) /\ DOMAIN stack = DOMAIN calls[c]
           /\ stack[Len(calls[c])] = f
           /\ \A i \in 1..(Len(calls[c]) - 1) : stack[i] = calls[c][i]
           /\ f.conns <= Top(c).conns => Proceeds(calls[c], stack)
<1> DEFINE n == Len(calls[c])
           stack == Append(Below(c), f)
<1>1. /\ n \in Nat \ {0} /\ Top(c) = calls[c][n] /\ DOMAIN calls[c] = 1..n
      /\ Below(c) \in Seq(Frame) /\ Len(Below(c)) = n - 1
      /\ \A i \in 1..(n - 1) : Below(c)[i] = calls[c][i]
      /\ \A i \in 1..n : calls[c][i] \in Frame
    BY TopOfStack, InStack DEF LifecycleInv
<1>2. /\ stack \in Seq(Frame) /\ Len(stack) = n /\ DOMAIN stack = 1..n
      /\ stack[n] = f /\ \A i \in 1..(n - 1) : stack[i] = calls[c][i]
    BY <1>1, Pushed
<1> HIDE DEF n, stack
<1>3. StackOK(calls[c]) /\ Len(calls[c]) = n
    BY DEF LifecycleInv, n
<1>4. StackOK(stack)
    BY <1>1, <1>2, <1>3 DEF StackOK, Process
<1>5. ASSUME f.conns <= Top(c).conns PROVE Proceeds(calls[c], stack)
    BY <1>1, <1>2, <1>5, InFrame DEF Proceeds
<1> QED
    BY <1>1, <1>2, <1>4, <1>5 DEF n, stack

LEMMA Released ==
    ASSUME NEW g \in Frame, NEW w \in 0..MaxWork
    PROVE  LET f == [g EXCEPT !.conns = 0, !.work = w] IN
           f \in Frame /\ f.server = g.server /\ f.conns = 0
<1>1. 0 \in 0..1
    OBVIOUS
<1> QED
    BY <1>1 DEF Frame

\* A transaction commits or is rolled back: its connection goes back, once.
LEMMA TransactionEnds ==
    ASSUME LifecycleInv, NEW c \in Clients, End(c) \/ Rollback(c)
    PROVE  LifecycleInv'
<1>0. PICK s, n : s = Process(Top(c)) /\ n = Len(calls[c])
    OBVIOUS
<1>1. /\ calls[c] # << >> /\ UNCHANGED <<env, at, open, up, faults>>
      /\ Top(c).conns = 1 /\ lent' = [lent EXCEPT ![s] = lent[s] - 1]
    BY <1>0 DEF End, Rollback, TakeBack
<1>2. /\ Top(c) \in Frame /\ n \in DOMAIN calls[c] /\ Top(c) = calls[c][n]
      /\ DOMAIN calls[c] = 1..n /\ n \in Nat \ {0}
    BY <1>0, <1>1, TopOfStack, InStack DEF LifecycleInv
<1>3. Top(c).work > 0 /\ s \in Pools
    BY <1>0, <1>1, <1>2, InFrame DEF LifecycleInv, StackOK, Processes, Pools
<1>4. PICK w \in {0, Top(c).work - 1} :
          calls' = [calls EXCEPT ![c] = Append(Below(c), [Top(c) EXCEPT !.conns = 0, !.work = w])]
    BY DEF End, Rollback, SetTop
<1> DEFINE f == [Top(c) EXCEPT !.conns = 0, !.work = w]
<1>5. /\ f \in Frame /\ f.server = Top(c).server /\ f.conns = 0 /\ f.conns <= Top(c).conns
    <2>1. w \in 0..MaxWork /\ 0 <= Top(c).conns
        BY <1>1, <1>2, <1>3, InFrame, LifecycleAssumption
    <2> QED
        BY <1>2, <2>1, Released
<1> HIDE DEF f
<1> DEFINE stack == Append(Below(c), f)
<1>6. /\ stack \in Seq(Frame) /\ StackOK(stack) /\ Proceeds(calls[c], stack)
      /\ DOMAIN stack = DOMAIN calls[c] /\ stack[n] = f
      /\ \A i \in 1..(n - 1) : stack[i] = calls[c][i]
    BY <1>0, <1>1, <1>5, TopChanges
<1> HIDE DEF stack
<1>7. calls' = [calls EXCEPT ![c] = stack]
    BY <1>4 DEF f, stack
<1>8. StacksProceed
    BY <1>6, <1>7, OneProceeds
<1>9. calls'[c] = stack /\ \A d \in Clients \ {c} : calls'[d] = calls[d]
    BY <1>7 DEF LifecycleInv, LifecycleTypeOK
<1>10. \A d \in Clients : \A i \in DOMAIN calls[d] :
           calls[d][i].conns > 0 =>
               (<<d, i>> = <<c, n>> <=> ~(i \in DOMAIN calls'[d] /\ calls'[d][i].conns > 0))
    BY <1>2, <1>5, <1>6, <1>9
<1>11. <<c, n>> \in Holders(s)
    BY <1>0, <1>1, <1>2, InHolders
<1>12. lent' \in [Pools -> Int] /\ lent'[s] = lent[s] - 1
       /\ \A t \in Pools \ {s} : lent'[t] = lent[t] - 0
    BY <1>1, <1>3 DEF LifecycleInv, LifecycleTypeOK
<1>13. ASSUME NEW t \in Pools
       PROVE  \E gone \in SUBSET Holders(t) : /\ Holders(t)' = Holders(t) \ gone
                                              /\ lent'[t] = lent[t] - Cardinality(gone)
    <2>1. \A d \in Clients : \A i \in DOMAIN calls[d] :
              <<d, i>> \in Holders(t) => calls[d][i].conns > 0 /\ Process(calls[d][i]) = t
        BY InHolders
    <2>2. CASE t = s
        <3>1. Holders(s)' = Holders(s) \ {<<c, n>>}
            BY <1>8, <1>10, <1>11, <2>1, <2>2, HoldersExcept DEF LifecycleInv
        <3>2. Cardinality({<<c, n>>}) = 1
            BY FS_Singleton
        <3> QED
            BY <1>11, <1>12, <2>2, <3>1, <3>2
    <2>3. CASE t # s
        <3>1. <<c, n>> \notin Holders(t)
            BY <1>0, <1>2, <2>1, <2>3
        <3>2. Holders(t)' = Holders(t) \ {}
            BY <1>8, <1>10, <2>1, <3>1, HoldersExcept DEF LifecycleInv
        <3>3. Cardinality({}) = 0
            BY FS_EmptySet
        <3> QED
            BY <1>12, <2>3, <3>2, <3>3
    <2> QED
        BY <2>2, <2>3
<1> QED
    BY <1>1, <1>8, <1>12, <1>13, RequestStep

\* A handler whose store cannot be reached gives up its work.
LEMMA StoreFailsStep ==
    ASSUME LifecycleInv, NEW c \in Clients, StoreFails(c)
    PROVE  LifecycleInv'
<1> DEFINE f == [Top(c) EXCEPT !.work = 0]
           stack == Append(Below(c), f)
           n == Len(calls[c])
<1>1. /\ calls[c] # << >> /\ UNCHANGED <<env, at, open, up, lent, faults>>
      /\ Top(c).conns = 0 /\ calls' = [calls EXCEPT ![c] = stack]
    BY DEF StoreFails, SetTop
<1>2. Top(c) \in Frame /\ Top(c) = calls[c][n] /\ DOMAIN calls[c] = 1..n /\ n \in Nat \ {0}
    BY <1>1, TopOfStack, InStack DEF LifecycleInv
<1>3. f \in Frame /\ f.server = Top(c).server /\ f.conns = 0 /\ f.conns <= Top(c).conns
    BY <1>1, <1>2, LifecycleAssumption DEF Frame
<1> HIDE DEF f
<1>4. /\ stack \in Seq(Frame) /\ StackOK(stack) /\ Proceeds(calls[c], stack)
      /\ DOMAIN stack = DOMAIN calls[c] /\ \A i \in 1..(n - 1) : stack[i] = calls[c][i]
    BY <1>1, <1>3, TopChanges
<1> HIDE DEF stack
<1>5. StacksProceed
    BY <1>1, <1>4, OneProceeds
<1>6. calls'[c] = stack /\ \A d \in Clients \ {c} : calls'[d] = calls[d]
    BY <1>1 DEF LifecycleInv, LifecycleTypeOK
<1> HIDE DEF n
<1>7. \A d \in Clients : \A i \in DOMAIN calls[d] :
          calls[d][i].conns > 0 => i \in DOMAIN calls'[d] /\ calls'[d][i].conns > 0
    BY <1>1, <1>2, <1>4, <1>6
<1> QED
    BY <1>1, <1>5, <1>7, QuietRequestStep

\* An answer, or the end of the whole request.
LEMMA StackShrinks ==
    ASSUME LifecycleInv, NEW c \in Clients, calls[c] # << >>, NEW stack \in {Below(c), << >>}
    PROVE  stack \in Seq(Frame) /\ StackOK(stack) /\ Proceeds(calls[c], stack)
<1>1. StackOK(calls[c])
    BY DEF LifecycleInv
<1>2. CASE stack = << >>
    BY <1>2, EmptySeq DEF StackOK, Proceeds
<1>3. CASE stack = Below(c)
    <2> DEFINE n == Len(calls[c])
    <2>1. /\ stack \in Seq(Frame) /\ Len(stack) = n - 1
          /\ DOMAIN stack = 1..(n - 1) /\ DOMAIN calls[c] = 1..n
          /\ \A i \in 1..(n - 1) : stack[i] = calls[c][i]
          /\ n \in Nat \ {0}
        BY <1>3, TopOfStack, InStack DEF LifecycleInv
    <2>2. n <= 2
        BY <1>1 DEF StackOK
    <2>3. \A i \in 1..n : calls[c][i].conns \in Int
        BY <2>1, InStack, InFrame DEF LifecycleInv
    <2> HIDE DEF n
    <2>4. Proceeds(calls[c], stack)
        BY <2>1, <2>3 DEF Proceeds
    <2>5. StackOK(stack)
        BY <1>1, <2>1, <2>2 DEF StackOK
    <2> QED
        BY <2>1, <2>4, <2>5
<1> QED
    BY <1>2, <1>3

LEMMA ReplyStep ==
    ASSUME LifecycleInv, NEW c \in Clients, Reply(c)
    PROVE  LifecycleInv'
<1> DEFINE n == Len(calls[c])
<1>1. /\ calls[c] # << >> /\ UNCHANGED <<env, at, open, up, lent, faults>>
      /\ Top(c).conns = 0 /\ calls' = [calls EXCEPT ![c] = Below(c)]
    BY DEF Reply
<1>2. /\ n \in Nat \ {0} /\ Top(c) = calls[c][n] /\ DOMAIN calls[c] = 1..n
      /\ DOMAIN Below(c) = 1..(n - 1) /\ \A i \in 1..(n - 1) : Below(c)[i] = calls[c][i]
    BY <1>1, TopOfStack, InStack DEF LifecycleInv
<1>3. Below(c) \in Seq(Frame) /\ StackOK(Below(c)) /\ Proceeds(calls[c], Below(c))
    BY <1>1, StackShrinks
<1>4. StacksProceed
    BY <1>1, <1>3, OneProceeds
<1>5. calls'[c] = Below(c) /\ \A d \in Clients \ {c} : calls'[d] = calls[d]
    BY <1>1 DEF LifecycleInv, LifecycleTypeOK
<1> HIDE DEF n
<1>6. \A d \in Clients : \A i \in DOMAIN calls[d] :
          calls[d][i].conns > 0 => i \in DOMAIN calls'[d] /\ calls'[d][i].conns > 0
    BY <1>1, <1>2, <1>5
<1> QED
    BY <1>1, <1>4, <1>6, QuietRequestStep

LEMMA AbandonStep ==
    ASSUME LifecycleInv, NEW c \in Clients, Abandon(c)
    PROVE  LifecycleInv'
<1>1. /\ calls[c] # << >> /\ UNCHANGED <<env, at, open, up, faults>>
      /\ calls' = [calls EXCEPT ![c] = << >>]
      /\ lent' = [s \in Pools |-> lent[s] - Cardinality({x \in Holders(s) : x[1] = c})]
    BY DEF Abandon
<1>2. << >> \in Seq(Frame) /\ StackOK(<< >>) /\ Proceeds(calls[c], << >>)
    BY <1>1, StackShrinks
<1>3. StacksProceed
    BY <1>1, <1>2, OneProceeds
<1>4. calls'[c] = << >> /\ DOMAIN calls'[c] = {} /\ \A d \in Clients \ {c} : calls'[d] = calls[d]
    BY <1>1, EmptySeq DEF LifecycleInv, LifecycleTypeOK
<1>5. ASSUME NEW s \in Pools
      PROVE  LET gone == {x \in Holders(s) : x[1] = c} IN
             /\ Holders(s)' = Holders(s) \ gone
             /\ lent'[s] = lent[s] - Cardinality(gone) /\ lent'[s] \in Int
    <2> DEFINE gone == {x \in Holders(s) : x[1] = c}
    <2>1. \A d \in Clients : \A i \in DOMAIN calls[d] :
              <<d, i>> \in Holders(s) =>
                  (<<d, i>> \in gone <=> ~(i \in DOMAIN calls'[d] /\ calls'[d][i].conns > 0))
        BY <1>4, InHolders
    <2>2. Holders(s)' = Holders(s) \ gone
        BY <1>3, <2>1, HoldersExcept DEF LifecycleInv
    <2>3. Cardinality(gone) \in Nat
        BY FS_Subset, FS_CardinalityType DEF LifecycleInv
    <2>4. lent'[s] = lent[s] - Cardinality(gone) /\ lent[s] \in Int
        BY <1>1 DEF LifecycleInv, LifecycleTypeOK
    <2> HIDE DEF gone
    <2>5. lent'[s] \in Int
        BY <2>3, <2>4
    <2> QED
        BY <2>2, <2>4, <2>5 DEF gone
<1>6. lent' \in [Pools -> Int]
    BY <1>1, <1>5
<1>7. \A s \in Pools : \E gone \in SUBSET Holders(s) :
          /\ Holders(s)' = Holders(s) \ gone
          /\ lent'[s] = lent[s] - Cardinality(gone)
    BY <1>5
<1> QED
    BY <1>1, <1>3, <1>6, <1>7, RequestStep

\* A request arrives, or calls identity-service.
LEMMA ArriveStep ==
    ASSUME LifecycleInv, NEW c \in Clients, NEW l \in Servers, Arrive(c, l)
    PROVE  LifecycleInv'
<1>1. PICK w \in 0..MaxWork :
          calls' = [calls EXCEPT ![c] = Append(<< >>, [server |-> l, work |-> w, conns |-> 0])]
    BY DEF Arrive, Push
<1>2. l \in open /\ calls[c] = << >> /\ UNCHANGED <<env, at, open, up, lent, faults>>
    BY DEF Arrive, Push
<1> DEFINE f == [server |-> l, work |-> w, conns |-> 0]
           stack == Append(<< >>, f)
<1>3. f \in Frame /\ f.server = l /\ f.conns = 0
    BY DEF Frame
<1> HIDE DEF f
<1>4. stack \in Seq(Frame) /\ Len(stack) = 1 /\ DOMAIN stack = 1..1 /\ stack[1] = f
    BY <1>3, Pushed, EmptySeq
<1>5. StackOK(stack) /\ Proceeds(calls[c], stack)
    BY <1>2, <1>3, <1>4 DEF StackOK, Proceeds
<1>6. StacksProceed
    BY <1>1, <1>4, <1>5, OneProceeds DEF f
<1>7. DOMAIN calls[c] = {} /\ \A d \in Clients \ {c} : calls'[d] = calls[d]
    BY <1>1, <1>2, EmptySeq DEF LifecycleInv, LifecycleTypeOK
<1> QED
    BY <1>2, <1>6, <1>7, QuietRequestStep

LEMMA CallIdentityStep ==
    ASSUME LifecycleInv, NEW c \in Clients, NEW l \in {"http", "grpc"}, CallIdentity(c, l)
    PROVE  LifecycleInv'
<1>1. /\ calls[c] # << >> /\ Process(Top(c)) = "bff" /\ Top(c).work > 0
      /\ UNCHANGED <<env, at, open, up, lent, faults>>
    BY DEF CallIdentity
<1>2. Top(c) \in Frame /\ Top(c).conns = 0 /\ StackOK(calls[c])
    BY <1>1, TopOfStack DEF LifecycleInv, StackOK
<1>3. ASSUME NEW v \in 0..MaxWork
      PROVE  LET g == [Top(c) EXCEPT !.work = v] IN
             g \in Frame /\ g.server = Top(c).server /\ g.conns = 0 /\ Process(g) = "bff"
    BY <1>1, <1>2 DEF Frame, Process
<1>6. \A i \in DOMAIN calls[c] : calls[c][i].conns = 0
    <2> DEFINE n == Len(calls[c])
    <2>1. n \in Nat \ {0} /\ Top(c) = calls[c][n] /\ DOMAIN calls[c] = 1..n
        BY <1>1, TopOfStack, InStack DEF LifecycleInv
    <2>2. n <= 2 /\ n # 2
        BY <1>1, <1>2, <2>1 DEF StackOK
    <2> HIDE DEF n
    <2> QED
        BY <1>2, <2>1, <2>2
<1>7. ASSUME StacksProceed, NEW stack, calls' = [calls EXCEPT ![c] = stack]
      PROVE  LifecycleInv'
    <2>1. \A d \in Clients \ {c} : calls'[d] = calls[d]
        BY <1>7 DEF LifecycleInv, LifecycleTypeOK
    <2> QED
        BY <1>1, <1>6, <1>7, <2>1, QuietRequestStep
<1>4. CASE <<"identity", l>> \notin open
    <2> DEFINE g == [Top(c) EXCEPT !.work = 0]
    <2>1. calls' = [calls EXCEPT ![c] = Append(Below(c), g)]
        BY <1>4 DEF CallIdentity, SetTop
    <2>2. g \in Frame /\ g.server = Top(c).server /\ g.conns = 0
        BY <1>3, LifecycleAssumption
    <2> HIDE DEF g
    <2>3. LET stack == Append(Below(c), g) IN
          stack \in Seq(Frame) /\ StackOK(stack) /\ Proceeds(calls[c], stack)
        BY <1>1, <1>2, <2>2, TopChanges
    <2>4. StacksProceed
        BY <2>1, <2>3, OneProceeds
    <2> QED
        BY <1>7, <2>1, <2>4
<1>5. CASE <<"identity", l>> \in open
    <2> DEFINE v == Top(c).work - 1
               g == [Top(c) EXCEPT !.work = v]
               below == Append(Below(c), g)
    <2>1. PICK w \in 0..MaxWork :
              calls' = [calls EXCEPT ![c] =
                  Append(below, [server |-> <<"identity", l>>, work |-> w, conns |-> 0])]
        BY <1>5 DEF CallIdentity, Push
    <2> DEFINE f == [server |-> <<"identity", l>>, work |-> w, conns |-> 0]
               stack == Append(below, f)
    <2>2. v \in 0..MaxWork
        BY <1>1, <1>2, InFrame, LifecycleAssumption
    <2>3. g \in Frame /\ g.server = Top(c).server /\ g.conns = 0 /\ Process(g) = "bff"
        BY <1>3, <2>2
    <2>4. f \in Frame /\ f.conns = 0 /\ f.server \in open /\ Process(f) = "identity"
        BY <1>5 DEF Frame, Servers, Process
    <2> HIDE DEF v, g, f
    <2>5. Len(calls[c]) = 1 /\ DOMAIN calls[c] = 1..1 /\ Top(c) = calls[c][1]
        <3> DEFINE n == Len(calls[c])
        <3>1. n \in Nat \ {0} /\ Top(c) = calls[c][n] /\ DOMAIN calls[c] = 1..n
            BY <1>1, TopOfStack, InStack DEF LifecycleInv
        <3>2. n <= 2
            BY <1>2 DEF StackOK
        <3>3. n # 2
            BY <1>1, <1>2, <3>1 DEF StackOK
        <3>4. n = 1 => DOMAIN calls[c] = 1..1 /\ Top(c) = calls[c][1]
            BY <3>1
        <3>5. n = Len(calls[c])
            OBVIOUS
        <3> HIDE DEF n
        <3>6. n = 1
            BY <3>1, <3>2, <3>3
        <3> QED
            BY <3>4, <3>5, <3>6
    <2>6. below \in Seq(Frame) /\ Len(below) = 1 /\ below[1] = g
        <3>1. /\ below \in Seq(Frame) /\ Len(below) = Len(calls[c])
              /\ below[Len(calls[c])] = g
            BY <1>1, <2>3, TopChanges
        <3> QED
            BY <2>5, <3>1
    <2> HIDE DEF below
    <2>7. stack \in Seq(Frame) /\ Len(stack) = 2 /\ DOMAIN stack = 1..2 /\ stack[1] = g /\ stack[2] = f
        <3>1. /\ stack \in Seq(Frame) /\ Len(stack) = Len(below) + 1
              /\ DOMAIN stack = 1..(Len(below) + 1) /\ stack[Len(below) + 1] = f
              /\ \A i \in 1..Len(below) : stack[i] = below[i]
            BY <2>4, <2>6, Pushed
        <3>2. Len(below) + 1 = 2 /\ 1 \in 1..Len(below)
            BY <2>6
        <3> QED
            BY <2>6, <3>1, <3>2
    <2> HIDE DEF stack
    <2>8. StackOK(stack) /\ Proceeds(calls[c], stack)
        BY <1>2, <2>3, <2>4, <2>5, <2>7 DEF StackOK, Proceeds
    <2> QED
        BY <1>7, <2>1, <2>7, <2>8, OneProceeds DEF stack, f
<1> QED
    BY <1>4, <1>5

\* A statement takes a connection when the pool has one left.
LEMMA BeginStep ==
    ASSUME LifecycleInv, NEW c \in Clients, Begin(c)
    PROVE  LifecycleInv'
<1>0. PICK s : s = Process(Top(c))
    OBVIOUS
<1> DEFINE n == Len(calls[c])
           f == [Top(c) EXCEPT !.conns = 1]
           stack == Append(Below(c), f)
<1>1. /\ calls[c] # << >> /\ UNCHANGED <<env, at, open, up, faults>>
      /\ s \in Pools /\ Top(c).work > 0 /\ Top(c).conns = 0
      /\ lent' = [lent EXCEPT ![s] = lent[s] + 1]
      /\ calls' = [calls EXCEPT ![c] = stack]
    BY <1>0 DEF Begin, SetTop, Lend
<1>2. /\ Top(c) \in Frame /\ Top(c) = calls[c][n] /\ n \in DOMAIN calls[c]
      /\ DOMAIN calls[c] = 1..n /\ n \in Nat
    BY <1>1, TopOfStack, InStack DEF LifecycleInv
<1>3. /\ f \in Frame /\ f.server = Top(c).server /\ f.work = Top(c).work /\ f.conns = 1
      /\ Process(f) = s /\ s # "bff"
    BY <1>0, <1>1, <1>2 DEF Frame, Process, Pools
<1> HIDE DEF f
<1>4. /\ stack \in Seq(Frame) /\ StackOK(stack) /\ DOMAIN stack = DOMAIN calls[c]
      /\ stack[n] = f /\ \A i \in 1..(n - 1) : stack[i] = calls[c][i]
    BY <1>1, <1>3, TopChanges
<1> HIDE DEF stack
<1>5. /\ calls'[c] = stack /\ \A d \in Clients \ {c} : calls'[d] = calls[d]
      /\ calls' \in [Clients -> Seq(Frame)] /\ \A d \in Clients : StackOK(calls'[d])
    BY <1>1, <1>4 DEF LifecycleInv, LifecycleTypeOK
<1> HIDE DEF n
<1>6. \A d \in Clients : /\ DOMAIN calls'[d] = DOMAIN calls[d]
                         /\ \A i \in DOMAIN calls[d] :
                               /\ calls'[d][i].server = calls[d][i].server
                               /\ <<d, i>> # <<c, n>> => calls'[d][i] = calls[d][i]
    BY <1>2, <1>3, <1>4, <1>5
<1>7. \A l : Vacant(l) => Vacant(l)'
    BY <1>6 DEF Vacant
<1>8. /\ lent' \in [Pools -> Int] /\ lent'[s] = lent[s] + 1 /\ lent[s] \in Int
      /\ \A t \in Pools \ {s} : lent'[t] = lent[t]
    BY <1>1 DEF LifecycleInv, LifecycleTypeOK
<1>9. LifecycleTypeOK' /\ Stages' /\ OffIsSilent' /\ ClosedInOrder'
    BY <1>1, <1>5, <1>7, <1>8, ShapeKept
<1>10. ASSUME NEW t \in Pools \ {s} PROVE Holders(t)' = Holders(t)
    <2>1. ASSUME NEW d \in Clients, NEW i \in DOMAIN calls'[d],
                 Process(calls'[d][i]) = t, calls'[d][i].conns > 0
          PROVE  <<d, i>> \in Holders(t)
        <3>1. <<d, i>> # <<c, n>>
            BY <1>3, <1>4, <1>5, <2>1
        <3> QED
            BY <1>6, <2>1, <3>1, InHolders
    <2>2. ASSUME NEW d \in Clients, NEW i \in DOMAIN calls[d],
                 Process(calls[d][i]) = t, calls[d][i].conns > 0
          PROVE  <<d, i>> \in Holders(t)'
        <3>1. <<d, i>> # <<c, n>>
            BY <1>0, <1>2, <2>2
        <3> QED
            BY <1>6, <2>2, <3>1 DEF Holders, Frames
    <2> QED
        BY <2>1, <2>2 DEF Holders, Frames
<1>11. Holders(s)' = Holders(s) \cup {<<c, n>>} /\ <<c, n>> \notin Holders(s)
    <2>1. ASSUME NEW d \in Clients, NEW i \in DOMAIN calls'[d],
                 Process(calls'[d][i]) = s, calls'[d][i].conns > 0, <<d, i>> # <<c, n>>
          PROVE  <<d, i>> \in Holders(s)
        BY <1>6, <2>1, InHolders
    <2>2. <<c, n>> \notin Holders(s)
        BY <1>1, <1>2, InHolders
    <2>3. ASSUME NEW d \in Clients, NEW i \in DOMAIN calls[d],
                 Process(calls[d][i]) = s, calls[d][i].conns > 0
          PROVE  <<d, i>> \in Holders(s)'
        <3>1. <<d, i>> # <<c, n>>
            BY <1>1, <1>2, <2>3
        <3> QED
            BY <1>6, <2>3, <3>1 DEF Holders, Frames
    <2>4. <<c, n>> \in Holders(s)'
        <3>1. n \in DOMAIN calls'[c] /\ calls'[c][n] = f
            BY <1>2, <1>4, <1>5
        <3> QED
            BY <1>3, <3>1 DEF Holders, Frames
    <2>5. Holders(s)' \subseteq Holders(s) \cup {<<c, n>>}
        BY <2>1 DEF Holders, Frames
    <2>6. Holders(s) \subseteq Holders(s)'
        BY <2>3 DEF Holders, Frames
    <2> QED
        BY <2>2, <2>4, <2>5, <2>6
<1>12. ASSUME NEW t \in Pools
       PROVE  IsFiniteSet(Holders(t)') /\ lent'[t] = Cardinality(Holders(t)')
    <2>1. PICK held : held = Holders(t)
        OBVIOUS
    <2>2. IsFiniteSet(held) /\ lent[t] = Cardinality(held)
        BY <2>1 DEF LifecycleInv, PoolsGetBackWhatTheyLend
    <2>3. CASE t = s
        <3>1. IsFiniteSet(held \cup {<<c, n>>}) /\ Cardinality(held \cup {<<c, n>>}) = Cardinality(held) + 1
            BY <1>11, <2>1, <2>2, <2>3, FS_AddElement
        <3> QED
            BY <1>8, <1>11, <2>1, <2>2, <2>3, <3>1
    <2>4. CASE t # s
        BY <1>8, <1>10, <2>1, <2>2, <2>4
    <2> QED
        BY <2>3, <2>4
<1>13. (\A t \in Pools : IsFiniteSet(Holders(t)))' /\ PoolsGetBackWhatTheyLend'
    BY <1>12 DEF PoolsGetBackWhatTheyLend
<1> QED
    BY <1>5, <1>9, <1>13 DEF LifecycleInv

-----------------------------------------------------------------------------
(***************************************************************************)
(* Lifecycle.  The end of a process.                                       *)
(***************************************************************************)

\* What the end of a process leaves of a request is a request without a handler
\* of that process.
LEMMA WhatRemains ==
    ASSUME LifecycleInv, NEW c \in Clients, NEW s \in Processes
    PROVE  LET new == Remains(c, s) IN
           /\ new \in Seq(Frame) /\ StackOK(new) /\ Proceeds(calls[c], new)
           /\ \A i \in DOMAIN new : Process(new[i]) # s
           /\ (\A i \in DOMAIN calls[c] : Process(calls[c][i]) # s) => new = calls[c]
           /\ Len(new) \in Nat /\ DOMAIN new = 1..Len(new)
           /\ \A i \in DOMAIN calls[c] :
                 calls[c][i].conns > 0 /\ i \in DOMAIN new => new[i].conns > 0
<1> DEFINE own == {i \in DOMAIN calls[c] : Process(calls[c][i]) = s}
           m == CHOOSE i \in own : \A j \in own : i <= j
           new == Remains(c, s)
           n == Len(calls[c])
<1>1. new = IF own = {} THEN calls[c]
            ELSE IF m - 1 = 0 THEN << >>
            ELSE [SubSeq(calls[c], 1, m - 1) EXCEPT ![m - 1].work = 0]
    BY DEF Remains
<1>2. /\ calls[c] \in Seq(Frame) /\ DOMAIN calls[c] = 1..n /\ n \in Nat
      /\ \A i \in 1..n : calls[c][i] \in Frame
      /\ StackOK(calls[c])
    BY InStack DEF LifecycleInv
<1>3. n <= 2
    BY <1>2 DEF StackOK
<1>4. (\A i \in DOMAIN calls[c] : Process(calls[c][i]) # s) <=> own = {}
    OBVIOUS
<1>5. own \subseteq 1..n
    BY <1>2
<1>6. ASSUME own # {} PROVE m \in own /\ \A j \in own : m <= j
    <2> DEFINE P(i) == i \in own /\ \A j \in own : i <= j
    <2>1. \E i : P(i)
        <3> HIDE DEF own, n
        <3>1. own \subseteq 1..2
            BY <1>2, <1>3, <1>5
        <3>2. CASE 1 \in own
            BY <3>1, <3>2
        <3>3. CASE 1 \notin own
            BY <1>6, <3>1, <3>3
        <3> QED
            BY <3>2, <3>3
    <2>2. m = CHOOSE i \in own : \A j \in own : i <= j
        OBVIOUS
    <2> HIDE DEF own, m
    <2> QED
        BY <2>1, <2>2
<1> HIDE DEF new, m
<1>7. CASE own = {}
    <2>1. new = calls[c]
        BY <1>1, <1>7
    <2>2. Proceeds(calls[c], calls[c])
        BY <1>2, InFrame DEF Proceeds
    <2> QED
        BY <1>2, <1>4, <1>7, <2>1, <2>2 DEF new, n
<1>8. CASE own # {} /\ m = 1
    <2>1. new = << >>
        BY <1>1, <1>8
    <2>2. /\ new \in Seq(Frame) /\ DOMAIN new = {} /\ StackOK(new) /\ Proceeds(calls[c], new)
          /\ Len(new) \in Nat /\ DOMAIN new = 1..Len(new)
        BY <2>1, EmptySeq, LenProperties DEF StackOK, Proceeds
    <2> QED
        BY <1>4, <1>8, <2>2 DEF new
<1>9. CASE own # {} /\ m # 1
    <2>1. m = 2 /\ n = 2 /\ 2 \in own /\ 1 \notin own
        <3>1. m \in own /\ \A j \in own : m <= j
            BY <1>6, <1>9
        <3>2. n \in Nat
            BY <1>2
        <3> HIDE DEF own, n
        <3>3. m \in 1..n /\ m = 2
            BY <1>3, <1>5, <1>9, <3>1, <3>2
        <3>4. ~(m <= 1)
            BY <3>3
        <3> QED
            BY <1>3, <3>1, <3>2, <3>3, <3>4
    <2> DEFINE r == SubSeq(calls[c], 1, 1)
               g == [calls[c][1] EXCEPT !.work = 0]
    <2>2. 1 \in DOMAIN calls[c] /\ calls[c][1] \in Frame /\ Process(calls[c][1]) # s
        BY <1>2, <2>1
    <2>3. Process(calls[c][1]) = "bff" /\ calls[c][1].conns = 0
        BY <1>2, <2>1, <2>2 DEF StackOK
    <2>4. /\ g \in Frame /\ g.server = calls[c][1].server /\ g.conns = 0
          /\ Process(g) = Process(calls[c][1])
        BY <2>2, <2>3, LifecycleAssumption DEF Frame, Process
    <2>5. r \in Seq(Frame) /\ Len(r) = 1 /\ r[1] = calls[c][1]
        <3>1. \A i \in 1..1 : calls[c][i] \in Frame
            BY <2>2
        <3> QED
            BY <1>2, <2>2, <3>1, SubSeqProperties
    <2>6. new = [r EXCEPT ![1] = g]
        BY <1>1, <1>9, <2>1, <2>5
    <2> HIDE DEF r, g
    <2>7. new \in Seq(Frame) /\ Len(new) = 1 /\ new[1] = g
        <3>1. 1 \in 1..Len(r)
            BY <2>5
        <3>2. [r EXCEPT ![1] = g] \in Seq(Frame) /\ Len([r EXCEPT ![1] = g]) = Len(r)
          <4>1. r \in Seq(Frame) /\ g \in Frame
              BY <2>4, <2>5
          <4> QED
              BY ONLY <4>1, <3>1, ExceptSeq
        <3>3. [r EXCEPT ![1] = g][1] = g
            BY <2>4, <2>5, <3>1, ExceptSeq
        <3> QED
            BY <2>5, <2>6, <3>2, <3>3
    <2>8. DOMAIN new = 1..1 /\ DOMAIN new = 1..Len(new) /\ Len(new) \in Nat
        BY <2>7, LenProperties
    <2>11. \A i \in DOMAIN new : ~(calls[c][i].conns > 0)
        BY <2>3, <2>8
    <2>9. StackOK(new)
        BY <2>3, <2>4, <2>7, <2>8 DEF StackOK
    <2>10. Proceeds(calls[c], new)
        BY <2>2, <2>3, <2>4, <2>7, <2>8 DEF Proceeds
    <2> QED
        BY <1>4, <1>9, <2>2, <2>4, <2>7, <2>8, <2>9, <2>10, <2>11 DEF new
<1> QED
    BY <1>7, <1>8, <1>9

\* The end of a process, whatever ends it.
LEMMA ExitStep ==
    ASSUME LifecycleInv, NEW s \in Processes, Exit(s), faults' \in 0..MaxFaults
    PROVE  LifecycleInv'
<1>1. /\ at' = [at EXCEPT ![s] = Phased("off", 0)]
      /\ open' = {l \in open : l[1] # s}
      /\ calls' = [c \in Clients |-> Remains(c, s)]
      /\ lent' = [t \in Pools |->
                     IF t = s THEN 0
                     ELSE lent[t] - Cardinality({x \in Holders(t) : x[2] > Len(Remains(x[1], s))})]
      /\ UNCHANGED <<env, up>>
    BY DEF Exit
<1>2. StacksProceed
    BY <1>1, WhatRemains DEF StacksProceed
<1>3. /\ at'[s].phase = "off" /\ \A t \in Processes \ {s} : at'[t] = at[t]
      /\ at' \in [Processes -> [phase : Phase, step : 0..5]]
    BY <1>1 DEF LifecycleInv, LifecycleTypeOK, Phased, Phase
<1>10. ASSUME NEW t \in Pools
       PROVE  \E gone \in SUBSET Holders(t) :
                 /\ Holders(t)' = Holders(t) \ gone
                 /\ lent'[t] = lent[t] - Cardinality(gone) /\ lent'[t] \in Int
    <2>1. ASSUME NEW c \in Clients, NEW i \in DOMAIN calls[c], <<c, i>> \in Holders(t)
          PROVE  /\ calls[c][i].conns > 0 /\ Process(calls[c][i]) = t
                 /\ i \in DOMAIN calls'[c] => calls'[c][i].conns > 0
                 /\ i \in DOMAIN calls'[c] <=> ~(i > Len(Remains(c, s)))
                 /\ Proceeds(calls[c], calls'[c])
                 /\ i \in DOMAIN calls'[c] => Process(calls'[c][i]) # s
        <3>1. calls[c][i].conns > 0 /\ Process(calls[c][i]) = t /\ i \in Nat \ {0}
            BY <2>1, InHolders, InStack DEF LifecycleInv
        <3> QED
            BY <1>1, <3>1, WhatRemains
    <2>2. IsFiniteSet(Holders(t)) /\ lent[t] = Cardinality(Holders(t)) /\ lent[t] \in Int
        BY DEF LifecycleInv, LifecycleTypeOK, PoolsGetBackWhatTheyLend
    <2>3. CASE t = s
        <3>1. \A c \in Clients : \A i \in DOMAIN calls[c] :
                  <<c, i>> \in Holders(t) => ~(i \in DOMAIN calls'[c] /\ calls'[c][i].conns > 0)
            <4> SUFFICES ASSUME NEW c \in Clients, NEW i \in DOMAIN calls[c],
                                <<c, i>> \in Holders(t), i \in DOMAIN calls'[c],
                                calls'[c][i].conns > 0
                         PROVE  FALSE
                OBVIOUS
            <4>1. calls[c][i].server = calls'[c][i].server \/ calls'[c][i].conns = 0
                BY <2>1 DEF Proceeds
            <4> QED
                BY <2>1, <2>3, <4>1 DEF Process
        <3>2. Holders(t)' = Holders(t) \ Holders(t)
            BY <1>2, <3>1, HoldersExcept DEF LifecycleInv
        <3>3. lent'[t] = 0
            BY <1>1, <2>3
        <3> QED
            BY <2>2, <3>2, <3>3
    <2>4. CASE t # s
        <3> DEFINE gone == {x \in Holders(t) : x[2] > Len(Remains(x[1], s))}
        <3>1. Holders(t)' = Holders(t) \ gone
            BY <1>2, <2>1, HoldersExcept DEF LifecycleInv
        <3>2. Cardinality(gone) \in Nat
            BY <2>2, FS_Subset, FS_CardinalityType
        <3>3. lent'[t] = lent[t] - Cardinality(gone)
            BY <1>1, <2>4
        <3> HIDE DEF gone
        <3>4. lent'[t] \in Int
            BY <2>2, <3>2, <3>3
        <3>5. gone \in SUBSET Holders(t)
            BY DEF gone
        <3> QED
            BY <3>1, <3>3, <3>4, <3>5
    <2> QED
        BY <2>3, <2>4
<1>11. lent' \in [Pools -> Int]
    <2>1. \A t \in Pools : lent'[t] \in Int
        BY <1>10
    <2> QED
        BY <1>1, <2>1
<1>4. LifecycleTypeOK'
    BY <1>1, <1>2, <1>3, <1>11 DEF LifecycleInv, LifecycleTypeOK, StacksProceed
<1>5. Stages'
    BY <1>1, <1>3 DEF LifecycleInv, Stages, Loads, IdentityLoads, BFFLoads, BlobLoads, Startup,
           IdentityStartup, BFFStartup, BlobStartup
<1>6. \A l : l \notin open /\ Vacant(l) => l \notin open' /\ Vacant(l)'
    BY <1>1, <1>2, VacantStays
<1>7. \A l \in Servers : l[1] = s => l \notin open' /\ Vacant(l)'
    BY <1>1, WhatRemains DEF Vacant, Process
<1>8. OffIsSilent'
    BY <1>3, <1>6, <1>7 DEF LifecycleInv, OffIsSilent
<1>9. ClosedInOrder'
    <2> SUFFICES ASSUME NEW t \in Processes, at'[t].phase = "stop", NEW j \in 1..at'[t].step
                 PROVE  /\ <<t, Shutdown[t][j]>> \notin open'
                        /\ (j < at'[t].step => Vacant(<<t, Shutdown[t][j]>>)')
        BY DEF ClosedInOrder
    <2>1. at'[t] = at[t]
        BY <1>3
    <2> QED
        BY <1>1, <1>6, <2>1 DEF LifecycleInv, ClosedInOrder
<1>12. (\A t \in Pools : IsFiniteSet(Holders(t)))' /\ PoolsGetBackWhatTheyLend'
    BY <1>10, AccountsKept
<1> QED
    BY <1>1, <1>2, <1>4, <1>5, <1>8, <1>9, <1>12 DEF LifecycleInv, StacksProceed

\* A step that leaves the requests alone: what it must keep.
LEMMA ProcessStep ==
    ASSUME LifecycleInv, NEW s \in Processes, NEW stage \in [phase : Phase, step : 0..5],
           at' = [at EXCEPT ![s] = stage], UNCHANGED <<env, up, calls, lent>>,
           open' \subseteq Servers, faults' \in 0..MaxFaults,
           stage.phase # "off", Loads(s),
           stage.phase = "start" => stage.step < Len(Startup(s)),
           stage.phase = "stop" =>
               /\ stage.step \in 1..Len(Shutdown[s])
               /\ \A j \in 1..stage.step :
                     /\ <<s, Shutdown[s][j]>> \notin open'
                     /\ j < stage.step => Vacant(<<s, Shutdown[s][j]>>),
           \A l \in open' : l \in open \/ l[1] = s
    PROVE  LifecycleInv'
<1>1. /\ at'[s] = stage /\ \A t \in Processes \ {s} : at'[t] = at[t]
      /\ at' \in [Processes -> [phase : Phase, step : 0..5]]
    BY DEF LifecycleInv, LifecycleTypeOK
<1>2. LifecycleTypeOK' /\ \A c \in Clients : StackOK(calls'[c])
    BY <1>1 DEF LifecycleInv, LifecycleTypeOK
<1>3. \A t \in Processes : (Loads(t) <=> Loads(t)') /\ Startup(t)' = Startup(t)
    BY DEF Loads, IdentityLoads, BFFLoads, BlobLoads, Startup,
           IdentityStartup, BFFStartup, BlobStartup
<1>4. Stages'
    BY <1>1, <1>3 DEF LifecycleInv, Stages
<1>5. OffIsSilent'
    BY <1>1 DEF LifecycleInv, OffIsSilent, Vacant
<1>6. ClosedInOrder'
    <2> SUFFICES ASSUME NEW t \in Processes, at'[t].phase = "stop", NEW j \in 1..at'[t].step
                 PROVE  /\ <<t, Shutdown[t][j]>> \notin open'
                        /\ (j < at'[t].step => Vacant(<<t, Shutdown[t][j]>>)')
        BY DEF ClosedInOrder
    <2>1. \A l : Vacant(l)' <=> Vacant(l)
        BY DEF Vacant
    <2>2. CASE t = s
        BY <1>1, <2>1, <2>2
    <2>3. CASE t # s
        BY <1>1, <2>1, <2>3 DEF LifecycleInv, ClosedInOrder
    <2> QED
        BY <2>2, <2>3
<1>7. (\A t \in Pools : IsFiniteSet(Holders(t)))' /\ PoolsGetBackWhatTheyLend'
    BY DEF LifecycleInv, PoolsGetBackWhatTheyLend, Holders, Frames
<1> QED
    BY <1>2, <1>4, <1>5, <1>6, <1>7 DEF LifecycleInv

\* What is known of a process that runs.
LEMMA Running ==
    ASSUME LifecycleInv, NEW s \in Processes, at[s].phase # "off"
    PROVE  /\ Loads(s) /\ at[s].step \in 0..5 /\ open \subseteq Servers
           /\ Len(Startup(s)) \in 1..4 /\ Len(Shutdown[s]) \in 1..2
           /\ faults \in 0..MaxFaults /\ MaxFaults \in Nat
BY Startups, Shutdowns, LifecycleAssumption DEF LifecycleInv, LifecycleTypeOK, Stages

\* A process is launched, and goes through its start-up.
LEMMA StartSteps ==
    ASSUME LifecycleInv, NEW s \in Processes, Launch(s) \/ StartStep(s)
    PROVE  LifecycleInv'
<1>1. CASE Launch(s)
    <2> DEFINE stage == Phased("start", 0)
    <2>1. stage \in [phase : Phase, step : 0..5] /\ stage.phase = "start" /\ stage.step = 0
        BY DEF Phased, Phase
    <2>2. /\ at' = [at EXCEPT ![s] = stage] /\ Loads(s)
          /\ UNCHANGED <<env, open, up, calls, lent, faults>>
        BY <1>1 DEF Launch
    <2>3. open \subseteq Servers /\ faults \in 0..MaxFaults
        BY DEF LifecycleInv, LifecycleTypeOK
    <2>4. 0 < Len(Startup(s))
        <3> DEFINE n == Len(Startup(s))
        <3>1. n \in 1..4
            BY Startups
        <3> HIDE DEF n
        <3>2. 0 < n
            BY <3>1
        <3> QED
            BY <3>2 DEF n
    <2> HIDE DEF stage
    <2> QED
        BY <2>1, <2>2, <2>3, <2>4, ProcessStep
<1>2. CASE StartStep(s)
    <2> DEFINE next == at[s].step + 1
               step == Startup(s)[next]
               stage == IF next = Len(Startup(s)) THEN Phased("serve", 0) ELSE Phased("start", next)
    <2>1. /\ at[s].phase = "start"
          /\ at' = [at EXCEPT ![s] = stage]
          /\ open' = open \cup (IF step[1] = "open" THEN {<<s, step[2]>>} ELSE {})
          /\ UNCHANGED <<env, up, calls, lent, faults>>
        BY <1>2 DEF StartStep
    <2>2. /\ Loads(s) /\ at[s].step \in 0..5 /\ open \subseteq Servers
          /\ Len(Startup(s)) \in 1..4 /\ faults \in 0..MaxFaults
        BY <2>1, Running
    <2>3. at[s].step < Len(Startup(s))
        BY <2>1 DEF LifecycleInv, Stages
    <2>4. next \in 1..Len(Startup(s)) /\ next \in 0..5
        <3> DEFINE n == Len(Startup(s))
        <3>1. n \in 1..4 /\ at[s].step < n
            BY <2>2, <2>3
        <3> HIDE DEF n
        <3>2. next \in 1..n /\ next \in 0..5
            BY <2>2, <3>1
        <3> QED
            BY <3>2 DEF n
    <2>5. /\ stage \in [phase : Phase, step : 0..5] /\ stage.phase \in {"start", "serve"}
          /\ stage.phase = "start" => stage.step < Len(Startup(s))
        BY <2>2, <2>4 DEF Phased, Phase
    <2>6. step[1] = "open" => <<s, step[2]>> \in Servers
        BY <2>4, Startups
    <2> HIDE DEF step, stage
    <2>7. open' \subseteq Servers /\ \A l \in open' : l \in open \/ l[1] = s
        BY <2>1, <2>2, <2>6
    <2> QED
        BY <2>1, <2>2, <2>5, <2>7, ProcessStep
<1> QED
    BY <1>1, <1>2

\* A process that is told to end closes its servers, each when the one before it
\* has answered its last request.
LEMMA StopSteps ==
    ASSUME LifecycleInv, NEW s \in Processes, Signal(s) \/ Drained(s)
    PROVE  LifecycleInv'
<1>1. at[s].phase \in {"serve", "stop"}
    BY DEF Signal, Drained
<1>2. /\ Loads(s) /\ at[s].step \in 0..5 /\ open \subseteq Servers
      /\ Len(Shutdown[s]) \in 1..2 /\ faults \in 0..MaxFaults /\ MaxFaults \in Nat
    BY <1>1, Running
<1>3. ASSUME NEW k \in 1..Len(Shutdown[s]), StopServer(s, k), UNCHANGED <<env, up, calls, lent>>,
             faults' \in 0..MaxFaults,
             \A j \in 1..(k - 1) : /\ <<s, Shutdown[s][j]>> \notin open
                                   /\ Vacant(<<s, Shutdown[s][j]>>)
      PROVE  LifecycleInv'
    <2> DEFINE stage == Phased("stop", k)
    <2>1. /\ stage \in [phase : Phase, step : 0..5]
          /\ stage.phase = "stop" /\ stage.step = k
        <3>1. k \in 1..2
            BY <1>3, Shutdowns
        <3>2. k \in 0..5
            BY <3>1
        <3> QED
            BY <3>2 DEF Phased, Phase
    <2>2. at' = [at EXCEPT ![s] = stage] /\ open' = open \ {<<s, Shutdown[s][k]>>}
        BY <1>3 DEF StopServer
    <2>3. \A j \in 1..k : /\ <<s, Shutdown[s][j]>> \notin open'
                          /\ j < k => Vacant(<<s, Shutdown[s][j]>>)
        <3> SUFFICES ASSUME NEW j \in 1..k, j # k
                     PROVE  j \in 1..(k - 1)
            BY <1>3, <2>2
        <3> QED
            BY <1>2
    <2> HIDE DEF stage
    <2> QED
        BY <1>2, <1>3, <2>1, <2>2, <2>3, ProcessStep
<1>4. CASE Signal(s)
    <2>1. 1 \in 1..Len(Shutdown[s]) /\ 1..(1 - 1) = {}
        BY Shutdowns
    <2>2. StopServer(s, 1) /\ UNCHANGED <<env, up, calls, lent>> /\ faults' \in 0..MaxFaults
        BY <1>2, <1>4 DEF Signal
    <2> QED
        BY <1>3, <2>1, <2>2
<1>5. CASE Drained(s)
    <2> DEFINE k == at[s].step
    <2>1. at[s].phase = "stop" /\ k \in 1..Len(Shutdown[s])
        BY <1>5 DEF Drained, LifecycleInv, Stages
    <2>2. Vacant(<<s, Shutdown[s][k]>>)
        BY <1>5, InServers DEF Drained
    <2>3. \A j \in 1..k : <<s, Shutdown[s][j]>> \notin open /\ Vacant(<<s, Shutdown[s][j]>>)
        <3> SUFFICES ASSUME NEW j \in 1..k, j # k PROVE j < k
            BY <2>1, <2>2 DEF LifecycleInv, ClosedInOrder
        <3> QED
            BY <2>1, <1>2
    <2>4. CASE k < Len(Shutdown[s])
        <3>1. k + 1 \in 1..Len(Shutdown[s]) /\ (k + 1) - 1 = k
            BY <1>2, <2>1, <2>4
        <3>2. StopServer(s, k + 1) /\ UNCHANGED <<env, up, calls, lent, faults>>
            BY <1>5, <2>4 DEF Drained
        <3> HIDE DEF k
        <3> QED
            BY <1>2, <1>3, <2>3, <3>1, <3>2
    <2>5. CASE ~(k < Len(Shutdown[s]))
        <3>1. Exit(s) /\ faults' = faults
            BY <1>5, <2>5 DEF Drained
        <3> QED
            BY <1>2, <3>1, ExitStep
    <2> QED
        BY <2>4, <2>5
<1> QED
    BY <1>4, <1>5

\* StartFails, ForcedExit, Crash: the ends of a process that nothing waits for.
LEMMA ExitSteps ==
    ASSUME LifecycleInv, NEW s \in Processes, StartFails(s) \/ ForcedExit(s) \/ Crash(s)
    PROVE  LifecycleInv'
<1>1. faults \in 0..MaxFaults /\ MaxFaults \in Nat
    BY LifecycleAssumption DEF LifecycleInv, LifecycleTypeOK
<1>2. Exit(s) /\ faults' \in 0..MaxFaults
    BY <1>1 DEF StartFails, ForcedExit, Crash
<1> QED
    BY <1>2, ExitStep

\* Outage, Recover, and a step of something else.
LEMMA OtherSteps ==
    ASSUME LifecycleInv,
           UNCHANGED lifecycle \/ \E d \in Dependencies : Outage(d) \/ Recover(d)
    PROVE  LifecycleInv'
<1>1. /\ UNCHANGED <<env, at, open, calls, lent>> /\ up' \subseteq Dependencies
      /\ faults' \in 0..MaxFaults
    <2>1. up \subseteq Dependencies /\ faults \in 0..MaxFaults /\ MaxFaults \in Nat
        BY LifecycleAssumption DEF LifecycleInv, LifecycleTypeOK
    <2> QED
        BY <2>1 DEF Outage, Recover, lifecycle
<1>2. LifecycleTypeOK'
    BY <1>1 DEF LifecycleInv, LifecycleTypeOK
<1>3. Stages'
    BY <1>1 DEF LifecycleInv, Stages, Loads, IdentityLoads, BFFLoads, BlobLoads, Startup,
           IdentityStartup, BFFStartup, BlobStartup
<1>4. OffIsSilent' /\ ClosedInOrder'
    BY <1>1 DEF LifecycleInv, OffIsSilent, ClosedInOrder, Vacant
<1>5. (\A s \in Pools : IsFiniteSet(Holders(s)))' /\ PoolsGetBackWhatTheyLend'
    BY <1>1 DEF LifecycleInv, PoolsGetBackWhatTheyLend, Holders, Frames
<1>6. (\A c \in Clients : StackOK(calls[c]))'
    BY <1>1 DEF LifecycleInv
<1> QED
    BY <1>2, <1>3, <1>4, <1>5, <1>6 DEF LifecycleInv

LEMMA InitLifecycleInv == LifecycleInit => LifecycleInv
<1> SUFFICES ASSUME LifecycleInit PROVE LifecycleInv
    OBVIOUS
<1>1. \A c \in Clients : calls[c] = << >> /\ DOMAIN calls[c] = {}
    BY EmptySeq DEF LifecycleInit
<1>2. \A s \in Processes : at[s].phase = "off" /\ at[s].step = 0
    BY DEF LifecycleInit, Phased
<1>3. LifecycleTypeOK
    BY LifecycleAssumption, EmptySeq DEF LifecycleInit, LifecycleTypeOK, Phased, Phase
<1>4. \A c \in Clients : StackOK(calls[c])
    BY <1>1, EmptySeq DEF StackOK
<1>5. Stages /\ OffIsSilent /\ ClosedInOrder
    BY <1>1, <1>2 DEF LifecycleInit, Stages, OffIsSilent, Vacant, ClosedInOrder
<1>6. \A s : Holders(s) = {}
    BY <1>1, InHolders
<1>7. \A s \in Pools : lent[s] = 0
    BY DEF LifecycleInit
<1> QED
    BY <1>3, <1>4, <1>5, <1>6, <1>7, FS_EmptySet DEF LifecycleInv, PoolsGetBackWhatTheyLend

\* Every step of every process, request and dependency keeps the invariant.
LEMMA NextLifecycleInv == LifecycleInv /\ [LifecycleNext]_lifecycle => LifecycleInv'
<1> SUFFICES ASSUME LifecycleInv, [LifecycleNext]_lifecycle PROVE LifecycleInv'
    OBVIOUS
<1>1. ASSUME NEW s \in Processes,
             Launch(s) \/ StartStep(s) \/ StartFails(s) \/ Signal(s) \/ Drained(s)
               \/ ForcedExit(s) \/ Crash(s)
      PROVE  LifecycleInv'
    BY <1>1, StartSteps, StopSteps, ExitSteps
<1>2. ASSUME NEW c \in Clients,
             \/ \E l \in Servers : Arrive(c, l)
             \/ \E l \in {"http", "grpc"} : CallIdentity(c, l)
             \/ Begin(c) \/ End(c) \/ Rollback(c) \/ StoreFails(c) \/ Reply(c) \/ Abandon(c)
      PROVE  LifecycleInv'
    BY <1>2, ArriveStep, CallIdentityStep, BeginStep, TransactionEnds, StoreFailsStep,
       ReplyStep, AbandonStep
<1> QED
    BY <1>1, <1>2, OtherSteps DEF LifecycleNext

\* Every reachable state of the processes satisfies the inductive invariant.
THEOREM ProcessInvariance == LifecycleSpec => []LifecycleInv
BY InitLifecycleInv, NextLifecycleInv, PTL DEF LifecycleSpec

\* For any environment, any number of clients and any work, what the pools of
\* identity-service and of blob-service count as in use is what running handlers hold:
\* a connection goes back once, whether its transaction commits, fails or is cancelled,
\* or a process ends.
THEOREM PoolsAreExact == LifecycleSpec => []PoolsGetBackWhatTheyLend
<1>1. LifecycleInv => PoolsGetBackWhatTheyLend
    BY DEF LifecycleInv
<1> QED
    BY <1>1, ProcessInvariance, PTL

\* When the last server of a process has drained, no server of it has a request:
\* those drained before have accepted none since (main: GracefulStop, then Shutdown).
LEMMA LastDrained ==
    ASSUME LifecycleInv, NEW s \in Processes, Drained(s)
    PROVE  calls' = calls
<1> DEFINE k == at[s].step
<1>1. CASE k < Len(Shutdown[s])
    BY <1>1 DEF Drained
<1>2. CASE ~(k < Len(Shutdown[s]))
    <2>1. at[s].phase = "stop" /\ k \in 1..Len(Shutdown[s]) /\ Len(Shutdown[s]) \in 1..2
        BY Shutdowns DEF Drained, LifecycleInv, Stages
    <2>2. k = Len(Shutdown[s])
        BY <1>2, <2>1
    <2>3. Vacant(<<s, Shutdown[s][k]>>)
        BY InServers DEF Drained
    <2>4. \A j \in 1..Len(Shutdown[s]) : Vacant(<<s, Shutdown[s][j]>>)
        <3> SUFFICES ASSUME NEW j \in 1..k, j # k PROVE j < k
            BY <2>1, <2>2, <2>3 DEF LifecycleInv, ClosedInOrder
        <3> QED
            BY <2>1
    <2>5. \A l \in Servers : l[1] = s => Vacant(l)
        BY <2>4, Shutdowns
    <2>6. \A c \in Clients : \A i \in DOMAIN calls[c] : Process(calls[c][i]) # s
        BY <2>5, InStack, InFrame DEF Vacant, LifecycleInv
    <2>7. \A c \in Clients : Remains(c, s) = calls[c]
        BY <2>6, WhatRemains
    <2>8. calls' = [c \in Clients |-> Remains(c, s)]
        BY <1>2 DEF Drained, Exit
    <2> QED
        BY <2>7, <2>8 DEF LifecycleInv, LifecycleTypeOK
<1> QED
    BY <1>1, <1>2

\* A shutdown that is not forced loses no request, however many clients there are
\* and in whatever order they call.
THEOREM DrainsLoseNothing == LifecycleSpec => DrainLosesNothing
<1>1. LifecycleInv /\ [LifecycleNext]_lifecycle =>
        [\A s \in Processes : Drained(s) => calls' = calls]_lifecycle
    BY LastDrained
<1> QED
    BY <1>1, ProcessInvariance, PTL DEF LifecycleSpec, DrainLosesNothing
=============================================================================
