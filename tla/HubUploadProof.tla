--------------------------- MODULE HubUploadProof ---------------------------
(***************************************************************************)
(* Proofs about HubUpload: whatever is retried, lost, rewritten or killed, *)
(* a call is done only with files the Hub holds, and says Ok only of what  *)
(* the Hub holds, for any number of files, versions and retries, and what  *)
(* the upload script and late requests may undo is what they had in hand   *)
(* when the call listed its files.                                         *)
(***************************************************************************)
EXTENDS HubUpload, TLAPS

-----------------------------------------------------------------------------
(* The inductive invariant. *)

\* Each request belongs to one call, and an upload works on a file still to do.
CallOfPc ==
  /\ pc = "create" => call = "ensure"
  /\ pc = "delete" => call = "delete"
  /\ pc \in {"file", "metadata", "preupload", "read", "commit"} => call = "upload"
  /\ pc \in {"metadata", "preupload", "read", "commit"} => file \in todo

\* A file on disk only moves on, and what is hashed or read is no older than
\* what the call listed.
NoneOlderThanListed ==
  /\ \A f \in Files : local[f] >= listed[f]
  /\ pc = "metadata" => hash >= listed[file]
  /\ pc = "commit" => body >= listed[file]

\* What the script and the late requests hold is no older either, but for what
\* they held when the call listed its files.
Outdone(f) == f \in doomed \union behind
NoneBehindTheCall ==
  /\ \A f \in Files : taken[f] # Absent => Outdone(f) \/ taken[f] >= listed[f]
  /\ call = "upload" =>
       \A r \in late : listed[r.file] # Absent =>
         /\ r.version = Absent => r.file \in doomed
         /\ r.version # Absent => Outdone(r.file) \/ r.version >= listed[r.file]

IInv == TypeOK /\ CallOfPc /\ NoneOlderThanListed /\ NoneBehindTheCall /\ PassedIsPublished

\* What is published of a file that was listed.
Published(f, version) ==
  listed[f] # Absent =>
    /\ f \notin doomed => version # Absent
    /\ f \notin doomed \union behind => version >= listed[f]

\* What a step may do to the Hub under a call, and to what is still under way.
HubStays ==
  /\ repo' \in BOOLEAN
  /\ remote' \in [Files -> 0..MaxVersion]
  /\ call = "upload" => \A f \in Files \ todo : Published(f, remote'[f])
  /\ taken' = taken /\ late' \subseteq [file : Files, version : 0..MaxVersion]
  /\ call = "upload" =>
       \A r \in late' : listed[r.file] # Absent =>
         /\ r.version = Absent => r.file \in doomed
         /\ r.version # Absent => Outdone(r.file) \/ r.version >= listed[r.file]

-----------------------------------------------------------------------------

LEMMA Numbers ==
  /\ Count \in Nat /\ Count >= 1 /\ 1 \in Files /\ Files \subseteq Nat
  /\ MaxVersion \in Nat /\ MaxVersion >= 1
  /\ MaxHttp \in Nat /\ MaxNetwork \in Nat /\ MaxChanges \in Nat
  /\ Gone = MaxVersion + 1 /\ Absent = 0 /\ Versions = 1..MaxVersion
BY HubAssumption DEF Files, Gone, Absent, Versions

LEMMA InitIInv == Init => IInv
<1> SUFFICES ASSUME Init PROVE IInv
  OBVIOUS
<1>1. TypeOK
  <2>1. local \in [Files -> 0..Gone] /\ changes \in 0..MaxChanges
    BY Numbers DEF Init
  <2>2. /\ remote \in [Files -> 0..MaxVersion] /\ listed \in [Files -> 0..MaxVersion]
        /\ taken \in [Files -> 0..MaxVersion]
    BY Numbers DEF Init, Nothing
  <2>3. hash \in 0..MaxVersion /\ body \in 0..MaxVersion /\ http \in 0..MaxHttp
        /\ network \in 0..MaxNetwork
    BY Numbers DEF Init
  <2>4. /\ pc = "idle" /\ call = "none" /\ outcome = "none" /\ todo \subseteq Files
        /\ file \in Files /\ repo \in BOOLEAN /\ late = {} /\ behind = {} /\ doomed = {}
    BY Numbers DEF Init
  <2> QED BY <2>1, <2>2, <2>3, <2>4 DEF TypeOK
<1>2. CallOfPc /\ PassedIsPublished
  BY DEF Init, CallOfPc, PassedIsPublished
<1>3. NoneOlderThanListed
  <2>1. \A f \in Files : local[f] \in {0, 1} /\ listed[f] = 0
    BY Numbers DEF Init, Nothing
  <2> QED BY <2>1 DEF Init, NoneOlderThanListed
<1>4. NoneBehindTheCall
  BY Numbers DEF Init, Nothing, NoneBehindTheCall
<1> QED BY <1>1, <1>2, <1>3, <1>4 DEF IInv

\* What the Hub does with a request, and doing nothing, keep the files the call
\* is done with.
LEMMA ActStays == ASSUME IInv, Act \/ UNCHANGED hub, UNCHANGED underway PROVE HubStays
<1>0. TypeOK /\ CallOfPc /\ NoneOlderThanListed /\ NoneBehindTheCall /\ PassedIsPublished
  BY DEF IInv
<1>a. /\ taken' = taken /\ late' \subseteq [file : Files, version : 0..MaxVersion]
      /\ call = "upload" =>
           \A r \in late' : listed[r.file] # Absent =>
             /\ r.version = Absent => r.file \in doomed
             /\ r.version # Absent => Outdone(r.file) \/ r.version >= listed[r.file]
  BY <1>0 DEF underway, TypeOK, NoneBehindTheCall
<1>b. call = "upload" => \A f \in Files \ todo : Published(f, remote[f])
  BY <1>0 DEF PassedIsPublished, Published
<1>1. CASE UNCHANGED remote /\ repo' \in BOOLEAN
  BY <1>0, <1>1, <1>a, <1>b DEF HubStays, TypeOK
<1>2. CASE pc = "commit" /\ remote' = [remote EXCEPT ![file] = body] /\ UNCHANGED repo
  <2>1. file \in todo /\ file \in Files /\ body \in 0..MaxVersion
    BY <1>0, <1>2 DEF CallOfPc, TypeOK
  <2>2. remote' \in [Files -> 0..MaxVersion]
    BY <1>0, <1>2, <2>1 DEF TypeOK
  <2>3. \A f \in Files \ todo : remote'[f] = remote[f]
    BY <1>0, <1>2, <2>1 DEF TypeOK
  <2>4. repo' \in BOOLEAN
    BY <1>0, <1>2 DEF TypeOK
  <2> QED BY <1>a, <1>b, <2>2, <2>3, <2>4 DEF HubStays
<1>3. CASE pc = "delete" /\ remote' = [remote EXCEPT ![file] = Absent] /\ UNCHANGED repo
  <2>1. remote' \in [Files -> 0..MaxVersion] /\ repo' \in BOOLEAN /\ call = "delete"
    BY <1>0, <1>3, Numbers DEF TypeOK, CallOfPc
  <2> QED BY <1>a, <2>1 DEF HubStays
<1>4. UNCHANGED hub => UNCHANGED remote /\ repo' \in BOOLEAN
  BY <1>0 DEF hub, TypeOK
<1> QED BY <1>1, <1>2, <1>3, <1>4, <1>0 DEF Act, TypeOK, hub

\* A request that is given up may be acted on later: a commit carries what the call
\* read, and a deletion belongs to no upload.
LEMMA UnansweredStays == ASSUME IInv, Unanswered PROVE HubStays
<1>0. TypeOK /\ CallOfPc /\ NoneOlderThanListed /\ NoneBehindTheCall /\ PassedIsPublished
  BY DEF IInv
<1>1. CASE (Act \/ UNCHANGED hub) /\ UNCHANGED underway
  BY <1>1, ActStays
<1>2. CASE /\ pc \in {"commit", "delete"}
           /\ late' = late \union {[file |-> file, version |-> IF pc = "commit" THEN body ELSE Absent]}
           /\ UNCHANGED <<hub, taken>>
  <2> DEFINE new == [file |-> file, version |-> IF pc = "commit" THEN body ELSE Absent]
  <2>1. new \in [file : Files, version : 0..MaxVersion]
    BY <1>0, Numbers DEF TypeOK
  <2>2. late' \subseteq [file : Files, version : 0..MaxVersion]
    <3> HIDE DEF new
    <3>1. late' = late \union {new}
      BY <1>2 DEF new
    <3> QED BY <1>0, <2>1, <3>1 DEF TypeOK
  <2>3. ASSUME call = "upload" PROVE pc = "commit" /\ new.file = file /\ new.version = body /\ body >= listed[file]
    BY <1>0, <1>2, <2>3 DEF CallOfPc, NoneOlderThanListed
  <2>4. listed[file] \in Nat /\ body \in Nat
    BY <1>0, Numbers DEF TypeOK
  <2>5. ASSUME call = "upload", NEW r \in late', listed[r.file] # Absent
        PROVE  /\ r.version = Absent => r.file \in doomed
               /\ r.version # Absent => Outdone(r.file) \/ r.version >= listed[r.file]
    <3>1. CASE r \in late
      BY <1>0, <2>5, <3>1 DEF NoneBehindTheCall
    <3>2. CASE r = new
      <4>1. r.file = file /\ r.version = body /\ body >= listed[file]
        BY <2>3, <2>5, <3>2
      <4>2. body # Absent
        BY <2>4, <2>5, <4>1, Numbers
      <4> QED BY <4>1, <4>2
    <3> QED BY <1>2, <2>5, <3>1, <3>2
  <2>6. repo' \in BOOLEAN /\ remote' = remote /\ taken' = taken
    BY <1>0, <1>2 DEF hub, TypeOK
  <2>7. call = "upload" => \A f \in Files \ todo : Published(f, remote[f])
    BY <1>0 DEF PassedIsPublished, Published
  <2>8. remote \in [Files -> 0..MaxVersion]
    BY <1>0 DEF TypeOK
  <2> QED BY <2>2, <2>5, <2>6, <2>7, <2>8 DEF HubStays
<1> QED BY <1>1, <1>2 DEF Unanswered

\* The disk and what the call has listed stay, and so does what is said of them.
LEMMA BehindStays ==
  ASSUME IInv, HubStays, UNCHANGED <<call, listed, behind, doomed>>
  PROVE  NoneBehindTheCall'
BY DEF IInv, HubStays, NoneBehindTheCall, Outdone

LEMMA HubTypes ==
  ASSUME IInv, HubStays, UNCHANGED disk
  PROVE  /\ local' \in [Files -> 0..Gone] /\ changes' \in 0..MaxChanges
         /\ repo' \in BOOLEAN /\ remote' \in [Files -> 0..MaxVersion]
         /\ taken' \in [Files -> 0..MaxVersion]
         /\ late' \subseteq [file : Files, version : 0..MaxVersion]
BY DEF disk, IInv, TypeOK, HubStays

\* The part of TypeOK that is the client's.
ClientTypes ==
  /\ pc \in {"idle", "file", "read"} \union Requests
  /\ call \in {"none", "ensure", "upload", "delete"}
  /\ listed \in [Files -> 0..MaxVersion]
  /\ todo \subseteq Files /\ file \in Files
  /\ hash \in 0..MaxVersion /\ body \in 0..MaxVersion
  /\ http \in 0..MaxHttp /\ network \in 0..MaxNetwork
  /\ outcome \in {"none", "ok", "error"}
  /\ behind \subseteq Files /\ doomed \subseteq Files

LEMMA TypesInTwo ==
  ASSUME IInv, HubStays, UNCHANGED disk
  PROVE  ClientTypes /\ (ClientTypes' => TypeOK')
<1>1. ClientTypes
  BY DEF IInv, TypeOK, ClientTypes
<1>2. ClientTypes' => TypeOK'
  BY HubTypes DEF TypeOK, ClientTypes
<1> QED BY <1>1, <1>2

\* However a call ends, what it is done with stays published.
LEMMA ReturnKeeps ==
  ASSUME IInv, HubStays, UNCHANGED disk,
         NEW result \in {"ok", "error"}, Return(result)
  PROVE  IInv'
<1>0. UNCHANGED local /\ UNCHANGED changes
  BY DEF disk
<1>1. TypeOK'
  <2>1. ClientTypes /\ (ClientTypes' => TypeOK')
    BY TypesInTwo
  <2>2. ClientTypes'
    BY <2>1, Numbers DEF ClientTypes, Return, Forget
  <2> QED BY <2>1, <2>2
<1>2. CallOfPc' /\ NoneOlderThanListed' /\ PassedIsPublished'
  BY <1>0 DEF IInv, HubStays, Published, Return, CallOfPc, NoneOlderThanListed, PassedIsPublished
<1>3. NoneBehindTheCall'
  BY BehindStays DEF Return
<1> QED BY <1>1, <1>2, <1>3 DEF IInv

\* An attempt that is repeated starts its closure again.
LEMMA RetryKeeps ==
  ASSUME IInv, HubStays, UNCHANGED disk, pc \in Requests, Again,
         http' \in 0..MaxHttp, network' \in 0..MaxNetwork
  PROVE  IInv'
<1>0. UNCHANGED local /\ UNCHANGED changes
  BY DEF disk
<1>1. /\ pc \in {"preupload", "commit"} => pc' \in {"read", "preupload"}
      /\ pc \notin {"preupload", "commit"} => pc' = pc
  BY DEF Again, Closure, UploadStart
<1>2. TypeOK'
  <2>1. ClientTypes /\ (ClientTypes' => TypeOK')
    BY TypesInTwo
  <2>2. pc' \in {"idle", "file", "read"} \union Requests
    BY <1>1 DEF Requests
  <2>3. ClientTypes'
    BY <2>1, <2>2, Numbers DEF ClientTypes, Again
  <2> QED BY <2>1, <2>3
<1>3. CallOfPc' /\ NoneOlderThanListed' /\ PassedIsPublished'
  BY <1>0, <1>1 DEF IInv, HubStays, Published, Again, CallOfPc, NoneOlderThanListed, PassedIsPublished
<1>4. NoneBehindTheCall'
  BY BehindStays DEF Again
<1> QED BY <1>2, <1>3, <1>4 DEF IInv

\* A new call has listed the files as they are.
LEMMA CallKeeps ==
  ASSUME IInv, NEW name, NEW files \in SUBSET Files, NEW first, Call(name, files, first),
         file' \in Files,
         <<name, first>> \in {<<"ensure", "create">>, <<"upload", "file">>, <<"delete", "delete">>}
  PROVE  IInv'
<1>1. \A f \in Files : /\ listed'[f] = IF f \in files /\ Present(f) THEN local[f] ELSE 0
                       /\ local[f] \in 0..Gone /\ remote[f] \in 0..MaxVersion
  BY Numbers DEF Call, IInv, TypeOK
<1>2. listed' \in [Files -> 0..MaxVersion]
  <2>1. \A f \in Files : Present(f) => local[f] \in 0..MaxVersion
    BY Numbers DEF Present
  <2> QED BY <2>1, Numbers DEF Call
<1>3. /\ name \in {"ensure", "upload", "delete"} /\ first \in {"create", "file", "delete"}
      /\ first = "create" => name = "ensure"
      /\ first = "file" => name = "upload"
      /\ first = "delete" => name = "delete"
  OBVIOUS
<1>8. behind' \subseteq Files /\ doomed' \subseteq Files
  BY DEF Call
<1>4. TypeOK'
  BY <1>2, <1>3, <1>8 DEF Call, IInv, TypeOK, disk, hub, underway, Requests
<1>5. CallOfPc'
  BY <1>3 DEF Call, CallOfPc
<1>6. NoneOlderThanListed'
  BY <1>1, <1>3, Numbers DEF Call, NoneOlderThanListed, disk
<1>7. PassedIsPublished'
  BY <1>1, Numbers DEF Call, PassedIsPublished, hub
<1>9. NoneBehindTheCall'
  <2>1. taken' = taken /\ late' = late
    BY DEF Call, underway
  <2>2. \A f \in Files : listed'[f] # Absent => f \in files
    BY <1>1, Numbers
  <2>3. \A f \in Files : taken[f] \in Nat /\ listed'[f] \in Nat
    BY <1>2, Numbers DEF IInv, TypeOK
  <2>4. ASSUME NEW f \in Files, taken[f] # Absent PROVE Outdone(f)' \/ taken[f] >= listed'[f]
    <3>1. CASE f \in files
      BY <2>4, <3>1 DEF Call, Outdone
    <3>2. CASE f \notin files
      BY <2>2, <2>3, <3>2, Numbers
    <3> QED BY <3>1, <3>2
  <2>5. ASSUME NEW r \in late, listed'[r.file] # Absent
        PROVE  /\ r.version = Absent => r.file \in doomed'
               /\ r.version # Absent => Outdone(r.file)'
    <3>1. r.file \in Files
      BY DEF IInv, TypeOK
    <3>2. r.file \in files
      BY <2>2, <2>5, <3>1
    <3>3. r.version = Absent => r.file \in doomed'
      BY <3>2 DEF Call
    <3>4. r.version # Absent => r.file \in behind'
      BY <3>2 DEF Call
    <3> QED BY <3>3, <3>4 DEF Outdone
  <2> QED BY <2>1, <2>4, <2>5 DEF NoneBehindTheCall
<1> QED BY <1>4, <1>5, <1>6, <1>7, <1>9 DEF IInv

\* The file done with is published, so it may leave the files still to do.
LEMMA PassedKeeps ==
  ASSUME IInv, HubStays, UNCHANGED disk, Passed,
         call = "upload", remote'[file] >= listed[file]
  PROVE  IInv'
<1>0. UNCHANGED local /\ UNCHANGED changes
  BY DEF disk
<1>1. TypeOK'
  <2>1. ClientTypes /\ (ClientTypes' => TypeOK')
    BY TypesInTwo
  <2>2. ClientTypes'
    BY <2>1, Numbers DEF ClientTypes, Passed, Forget
  <2> QED BY <2>1, <2>2
<1>2. CallOfPc' /\ NoneOlderThanListed'
  BY <1>0 DEF IInv, CallOfPc, NoneOlderThanListed, Passed
<1>3. PassedIsPublished'
  <2>1. file \in Files /\ listed[file] \in Nat /\ remote'[file] \in Nat
    BY Numbers DEF IInv, TypeOK, HubStays
  <2>2. Published(file, remote'[file])
    BY <2>1, Numbers DEF Published
  <2>3. \A f \in Files \ todo' : Published(f, remote'[f])
    BY <2>2 DEF HubStays, Passed
  <2> QED BY <2>3 DEF PassedIsPublished, Published, Passed
<1>4. NoneBehindTheCall'
  BY BehindStays DEF Passed
<1> QED BY <1>1, <1>2, <1>3, <1>4 DEF IInv

-----------------------------------------------------------------------------
(* One lemma per kind of step. *)

LEMMA NewCallKeeps ==
  ASSUME IInv, EnsureRepo \/ UploadFolder \/ \E f \in Files : UploadFile(f) \/ DeleteFile(f)
  PROVE  IInv'
<1>0. file \in Files
  BY DEF IInv, TypeOK
<1>1. CASE EnsureRepo
  BY <1>0, <1>1, CallKeeps DEF EnsureRepo
<1>2. CASE UploadFolder
  BY <1>0, <1>2, CallKeeps DEF UploadFolder
<1>3. ASSUME NEW f \in Files, UploadFile(f) PROVE IInv'
  BY <1>0, <1>3, CallKeeps DEF UploadFile
<1>4. ASSUME NEW f \in Files, DeleteFile(f) PROVE IInv'
  BY <1>4, CallKeeps DEF DeleteFile
<1> QED BY <1>1, <1>2, <1>3, <1>4

LEMMA LocalStepKeeps ==
  ASSUME IInv, FolderDone \/ HashFile \/ SampleFails \/ ReadFile
  PROVE  IInv'
<1>0. UNCHANGED <<disk, hub, underway>> /\ HubStays
  BY ActStays DEF FolderDone, HashFile, SampleFails, ReadFile
<1>a. UNCHANGED <<local, changes, repo, remote, taken, late>>
  BY <1>0 DEF disk, hub, underway
<1>1. CASE FolderDone
  BY <1>0, <1>1, ReturnKeeps DEF FolderDone
<1>2. CASE HashFile
  <2>1. CASE Return("error")
    BY <1>0, <2>1, ReturnKeeps
  <2>2. ASSUME NEW f \in todo, Present(f), file' = f, hash' = local[f], Start("metadata"),
               UNCHANGED <<call, listed, todo, body, outcome, behind, doomed>>
        PROVE  IInv'
    <3>1. f \in Files /\ local[f] \in 0..MaxVersion
      BY <2>2, Numbers DEF Present, IInv, TypeOK
    <3>a. ClientTypes /\ (ClientTypes' => TypeOK')
      BY <1>0, TypesInTwo
    <3>b. ClientTypes'
      BY <2>2, <3>1, <3>a, Numbers DEF ClientTypes, Start, Requests
    <3>2. TypeOK'
      BY <3>a, <3>b
    <3>3. CallOfPc'
      BY <1>2, <2>2 DEF HashFile, Start, IInv, CallOfPc
    <3>4. NoneOlderThanListed'
      BY <1>a, <2>2, <3>1 DEF IInv, NoneOlderThanListed, Start
    <3>5. PassedIsPublished'
      BY <1>a, <2>2 DEF IInv, PassedIsPublished
    <3>6. NoneBehindTheCall'
      BY <1>0, <2>2, BehindStays
    <3> QED BY <3>2, <3>3, <3>4, <3>5, <3>6 DEF IInv
  <2> QED BY <1>2, <2>1, <2>2 DEF HashFile
<1>3. CASE SampleFails
  BY <1>0, <1>3, ReturnKeeps DEF SampleFails
<1>4. CASE ReadFile
  <2>1. CASE Return("error")
    BY <1>0, <2>1, ReturnKeeps
  <2>2. CASE /\ Present(file) /\ body' = local[file] /\ pc' = "commit"
             /\ UNCHANGED <<call, listed, todo, file, hash, http, network, outcome, behind, doomed>>
    <3>1. local[file] \in 0..MaxVersion /\ file \in Files
      BY <2>2, Numbers DEF Present, IInv, TypeOK
    <3>a. ClientTypes /\ (ClientTypes' => TypeOK')
      BY <1>0, TypesInTwo
    <3>b. ClientTypes'
      BY <2>2, <3>1, <3>a DEF ClientTypes, Requests
    <3>2. TypeOK'
      BY <3>a, <3>b
    <3>3. CallOfPc' /\ NoneOlderThanListed' /\ PassedIsPublished'
      BY <1>a, <1>4, <2>2, <3>1
         DEF ReadFile, IInv, CallOfPc, NoneOlderThanListed, PassedIsPublished
    <3>4. NoneBehindTheCall'
      BY <1>0, <2>2, BehindStays
    <3> QED BY <3>2, <3>3, <3>4 DEF IInv
  <2> QED BY <1>4, <2>1, <2>2 DEF ReadFile
<1> QED BY <1>1, <1>2, <1>3, <1>4

LEMMA SuccessKeeps ==
  ASSUME IInv, Created \/ Metadata \/ UploadMode \/ Committed \/ Deleted
  PROVE  IInv'
<1>0. HubStays /\ UNCHANGED disk /\ Act
  BY ActStays DEF Created, Metadata, UploadMode, Committed, Deleted
<1>a. UNCHANGED <<local, changes>>
  BY <1>0 DEF disk
<1>1. CASE Created
  BY <1>0, <1>1, ReturnKeeps DEF Created
<1>2. CASE Metadata
  <2>0. file \in todo /\ file \in Files /\ call = "upload" /\ remote' = remote
    BY <1>2 DEF Metadata, Act, hub, IInv, CallOfPc, TypeOK
  <2>1. CASE Current /\ Passed
    <3>1. remote'[file] >= listed[file]
      BY <1>2, <2>0, <2>1 DEF Metadata, Current, IInv, NoneOlderThanListed
    <3> QED BY <1>0, <2>0, <2>1, <3>1, PassedKeeps
  <2>2. CASE /\ Start(UploadStart) /\ hash' = Absent
             /\ UNCHANGED <<call, listed, todo, file, body, outcome, behind, doomed>>
    <3>1. pc' \in {"read", "preupload"}
      BY <2>2 DEF Start, UploadStart
    <3>a. ClientTypes /\ (ClientTypes' => TypeOK')
      BY <1>0, TypesInTwo
    <3>b. ClientTypes'
      BY <2>2, <3>1, <3>a, Numbers DEF ClientTypes, Start, Requests
    <3>2. TypeOK'
      BY <3>a, <3>b
    <3>3. CallOfPc' /\ NoneOlderThanListed' /\ PassedIsPublished'
      BY <1>0, <1>a, <2>0, <2>2, <3>1
         DEF IInv, HubStays, Published, CallOfPc, NoneOlderThanListed, PassedIsPublished
    <3>4. NoneBehindTheCall'
      BY <1>0, <2>2, BehindStays
    <3> QED BY <3>2, <3>3, <3>4 DEF IInv
  <2>3. CASE Return("error")
    BY <1>0, <2>3, ReturnKeeps
  <2> QED BY <1>2, <2>1, <2>2, <2>3 DEF Metadata
<1>3. CASE UploadMode
  <2>1. CASE Return("error")
    BY <1>0, <2>1, ReturnKeeps
  <2>2. CASE /\ pc' = "read"
             /\ UNCHANGED <<call, listed, todo, file, hash, body, http, network, outcome, behind, doomed>>
    <3>a. ClientTypes /\ (ClientTypes' => TypeOK')
      BY <1>0, TypesInTwo
    <3>b. ClientTypes'
      BY <2>2, <3>a DEF ClientTypes
    <3>1. TypeOK'
      BY <3>a, <3>b
    <3>2. CallOfPc' /\ NoneOlderThanListed' /\ PassedIsPublished'
      BY <1>0, <1>a, <1>3, <2>2
         DEF UploadMode, IInv, HubStays, Published, CallOfPc, NoneOlderThanListed, PassedIsPublished
    <3>3. NoneBehindTheCall'
      BY <1>0, <2>2, BehindStays
    <3> QED BY <3>1, <3>2, <3>3 DEF IInv
  <2> QED BY <1>3, <2>1, <2>2 DEF UploadMode
<1>4. CASE Committed
  <2>1. /\ file \in Files /\ call = "upload" /\ body >= listed[file]
        /\ remote' = [remote EXCEPT ![file] = body]
    BY <1>4 DEF Committed, Act, IInv, TypeOK, CallOfPc, NoneOlderThanListed
  <2>2. remote'[file] >= listed[file]
    BY <2>1 DEF IInv, TypeOK
  <2> QED BY <1>0, <1>4, <2>1, <2>2, PassedKeeps DEF Committed
<1>5. CASE Deleted
  BY <1>0, <1>5, ReturnKeeps DEF Deleted
<1> QED BY <1>1, <1>2, <1>3, <1>4, <1>5

LEMMA FailureKeeps ==
  ASSUME IInv, HttpError \/ NetworkError \/ Refused \/ Killed
  PROVE  IInv'
<1>0. HubStays
  <2>1. CASE HttpError \/ NetworkError
    BY <2>1, UnansweredStays DEF HttpError, NetworkError
  <2>2. CASE Refused
    BY <2>2, ActStays DEF Refused
  <2>3. CASE Killed
    <3>1. CASE UNCHANGED <<hub, underway>>
      BY <3>1, ActStays
    <3>2. CASE Unanswered
      BY <3>2, UnansweredStays
    <3> QED BY <2>3, <3>1, <3>2 DEF Killed
  <2> QED BY <2>1, <2>2, <2>3
<1>a. UNCHANGED disk
  BY DEF HttpError, NetworkError, Refused, Killed
<1>1. CASE Return("error")
  BY <1>0, <1>a, <1>1, ReturnKeeps
<1>2. CASE HttpError /\ http < MaxHttp /\ http' = http + 1 /\ Again /\ UNCHANGED network
  <2>1. http' \in 0..MaxHttp /\ network' \in 0..MaxNetwork
    BY <1>2, Numbers DEF IInv, TypeOK
  <2> QED BY <1>0, <1>a, <1>2, <2>1, RetryKeeps DEF HttpError, Sent
<1>3. CASE NetworkError /\ network < MaxNetwork /\ network' = network + 1 /\ Again /\ UNCHANGED http
  <2>1. http' \in 0..MaxHttp /\ network' \in 0..MaxNetwork
    BY <1>3, Numbers DEF IInv, TypeOK
  <2> QED BY <1>0, <1>a, <1>3, <2>1, RetryKeeps DEF NetworkError, Sent
<1> QED BY <1>1, <1>2, <1>3 DEF HttpError, NetworkError, RetryNetwork, Refused, Killed

\* A request acted on late does what it would have done in time, and was no older
\* than the listing unless it was under way before.
LEMMA LateActKeeps == ASSUME IInv, LateAct PROVE IInv'
<1>0. TypeOK /\ CallOfPc /\ NoneOlderThanListed /\ NoneBehindTheCall /\ PassedIsPublished
  BY DEF IInv
<1>1. PICK r \in late : remote' = [remote EXCEPT ![r.file] = r.version] /\ late' = late \ {r}
  BY DEF LateAct
<1>2. UNCHANGED <<disk, repo, taken, client>>
  BY DEF LateAct
<1>3. UNCHANGED <<local, changes>>
  BY <1>2 DEF disk
<1>4. r.file \in Files /\ r.version \in 0..MaxVersion
  BY <1>0 DEF TypeOK
<1>5. remote' \in [Files -> 0..MaxVersion] /\ late' \subseteq late
  BY <1>0, <1>1, <1>4 DEF TypeOK
<1>6. TypeOK'
  BY <1>0, <1>2, <1>3, <1>5 DEF TypeOK, client, Requests
<1>7. CallOfPc' /\ NoneOlderThanListed'
  BY <1>0, <1>2, <1>3 DEF CallOfPc, NoneOlderThanListed, client
<1>8. NoneBehindTheCall'
  BY <1>0, <1>2, <1>5 DEF NoneBehindTheCall, Outdone, client
<1>9. PassedIsPublished'
  <2>1. SUFFICES ASSUME call = "upload", NEW f \in Files \ todo, listed[f] # Absent
                 PROVE  /\ f \notin doomed => remote'[f] # Absent
                        /\ f \notin doomed \union behind => remote'[f] >= listed[f]
    BY <1>2 DEF PassedIsPublished, client
  <2>2. CASE f # r.file
    <3>1. remote'[f] = remote[f]
      BY <1>0, <1>1, <2>2 DEF TypeOK
    <3> QED BY <1>0, <2>1, <3>1 DEF PassedIsPublished
  <2>3. CASE f = r.file
    <3>1. remote'[f] = r.version
      BY <1>0, <1>1, <2>3 DEF TypeOK
    <3>2. /\ r.version = Absent => f \in doomed
          /\ r.version # Absent => Outdone(f) \/ r.version >= listed[f]
      BY <1>0, <2>1, <2>3 DEF NoneBehindTheCall
    <3> QED BY <3>1, <3>2 DEF Outdone
  <2> QED BY <2>2, <2>3
<1> QED BY <1>6, <1>7, <1>8, <1>9 DEF IInv

\* The script reads what is on disk, and commits what it has read.
LEMMA SidecarKeeps == ASSUME IInv, SidecarUpload PROVE IInv'
<1>0. TypeOK /\ CallOfPc /\ NoneOlderThanListed /\ NoneBehindTheCall /\ PassedIsPublished
  BY DEF IInv
<1>1. UNCHANGED <<disk, late, client>>
  BY DEF SidecarUpload, SidecarStart, SidecarRead, SidecarCommit, SidecarFails
<1>2. UNCHANGED <<local, changes>>
  BY <1>1 DEF disk
<1>3. \A f \in Files : /\ Present(f) => local[f] \in 0..MaxVersion /\ local[f] >= listed[f]
                       /\ taken[f] \in 0..MaxVersion /\ listed[f] \in 0..MaxVersion
  BY <1>0, Numbers DEF Present, TypeOK, NoneOlderThanListed
<1>4. CASE (SidecarStart \/ \E f \in Files : SidecarRead(f)) /\ remote' = remote
  <2>1. /\ taken' \in [Files -> 0..MaxVersion]
        /\ \A f \in Files : taken'[f] # Absent => taken'[f] = taken[f] \/ taken'[f] >= listed[f]
    <3>1. CASE SidecarStart
      <4>1. taken' = [f \in Files |-> IF Present(f) THEN local[f] ELSE Absent]
        BY <3>1 DEF SidecarStart
      <4> QED BY <1>3, <4>1, Numbers
    <3>2. ASSUME NEW f \in Files, SidecarRead(f)
          PROVE  /\ taken' \in [Files -> 0..MaxVersion]
                 /\ \A g \in Files : taken'[g] # Absent => taken'[g] = taken[g] \/ taken'[g] >= listed[g]
      <4>1. taken' = [taken EXCEPT ![f] = local[f]] /\ Present(f)
        BY <3>2 DEF SidecarRead
      <4> QED BY <1>0, <1>3, <4>1 DEF TypeOK
    <3> QED BY <1>4, <3>1, <3>2
  <2>2. NoneBehindTheCall'
    BY <1>0, <1>1, <2>1 DEF NoneBehindTheCall, Outdone, client
  <2>3. repo' \in BOOLEAN
    BY <1>0, <1>4 DEF SidecarStart, SidecarRead, hub, TypeOK
  <2>4. TypeOK'
    BY <1>0, <1>1, <1>2, <1>4, <2>1, <2>3 DEF TypeOK, client, Requests
  <2>5. CallOfPc' /\ NoneOlderThanListed' /\ PassedIsPublished'
    BY <1>0, <1>1, <1>2, <1>4 DEF CallOfPc, NoneOlderThanListed, PassedIsPublished, client
  <2> QED BY <2>2, <2>4, <2>5 DEF IInv
<1>5. CASE SidecarCommit \/ SidecarFails
  <2>1. taken' = Nothing /\ repo' = repo
    BY <1>5 DEF SidecarCommit, SidecarFails, hub
  <2>2. taken' \in [Files -> 0..MaxVersion] /\ \A f \in Files : taken'[f] = Absent
    BY <2>1, Numbers DEF Nothing
  <2>3. \A f \in Files : \/ remote'[f] = remote[f]
                         \/ remote'[f] = taken[f] /\ taken[f] # Absent
    BY <1>5 DEF SidecarCommit, SidecarFails, hub
  <2>4. remote' \in [Files -> 0..MaxVersion]
    <3>1. CASE SidecarFails
      BY <1>0, <3>1 DEF SidecarFails, hub, TypeOK
    <3>2. CASE SidecarCommit
      <4>1. remote' = [f \in Files |-> IF taken[f] # Absent THEN taken[f] ELSE remote[f]]
        BY <3>2 DEF SidecarCommit
      <4>2. \A f \in Files : taken[f] \in 0..MaxVersion /\ remote[f] \in 0..MaxVersion
        BY <1>0 DEF TypeOK
      <4> QED BY <4>1, <4>2
    <3> QED BY <1>5, <3>1, <3>2
  <2>5. TypeOK'
    BY <1>0, <1>1, <1>2, <2>1, <2>2, <2>4 DEF TypeOK, client, Requests
  <2>6. CallOfPc' /\ NoneOlderThanListed'
    BY <1>0, <1>1, <1>2 DEF CallOfPc, NoneOlderThanListed, client
  <2>7. NoneBehindTheCall'
    BY <1>0, <1>1, <2>2 DEF NoneBehindTheCall, Outdone, client
  <2>8. PassedIsPublished'
    <3>1. \A f \in Files : taken[f] # Absent => Outdone(f) \/ taken[f] >= listed[f]
      BY <1>0 DEF NoneBehindTheCall
    <3> QED BY <1>0, <1>1, <2>3, <3>1 DEF PassedIsPublished, Outdone, client
  <2> QED BY <2>5, <2>6, <2>7, <2>8 DEF IInv
<1>6. SidecarStart \/ (\E f \in Files : SidecarRead(f)) => remote' = remote
  BY DEF SidecarStart, SidecarRead, hub
<1> QED BY <1>4, <1>5, <1>6 DEF SidecarUpload

LEMMA DiskKeeps == ASSUME IInv, NEW f \in Files, Rewrite(f) \/ Remove(f) PROVE IInv'
<1>0. TypeOK /\ CallOfPc /\ NoneOlderThanListed /\ NoneBehindTheCall /\ PassedIsPublished
  BY DEF IInv
<1>1. UNCHANGED <<hub, underway, client>>
  BY DEF Rewrite, Remove
<1>2. \A g \in Files : local[g] \in 0..Gone /\ listed[g] \in 0..MaxVersion /\ local[g] >= listed[g]
  BY <1>0 DEF TypeOK, NoneOlderThanListed
<1>3. local' \in [Files -> 0..Gone] /\ \A g \in Files : local'[g] >= listed[g]
  <2>1. PICK version \in 0..Gone : local' = [local EXCEPT ![f] = version] /\ version >= local[f]
    <3>1. CASE Rewrite(f)
      <4>1. local[f] \in Nat /\ local[f] < MaxVersion /\ local' = [local EXCEPT ![f] = local[f] + 1]
        BY <1>2, <3>1, Numbers DEF Rewrite
      <4>2. local[f] + 1 \in 0..Gone /\ local[f] + 1 >= local[f]
        BY <4>1, Numbers
      <4> QED BY <4>1, <4>2
    <3>2. CASE Remove(f)
      <4>1. local' = [local EXCEPT ![f] = Gone]
        BY <3>2 DEF Remove
      <4>2. Gone \in 0..Gone /\ Gone >= local[f]
        BY <1>2, Numbers
      <4> QED BY <4>1, <4>2
    <3> QED BY <3>1, <3>2
  <2>2. local \in [Files -> 0..Gone] /\ Gone \in Nat
    BY <1>0, Numbers DEF TypeOK
  <2>3. local' \in [Files -> 0..Gone]
    BY <2>1, <2>2
  <2>4. \A g \in Files : local'[g] = IF g = f THEN version ELSE local[g]
    BY <2>1, <2>2
  <2>5. \A g \in Files : local'[g] >= listed[g]
    <3> TAKE g \in Files
    <3>1. local[g] >= listed[g] /\ local[g] \in Nat /\ listed[g] \in Nat
      BY <1>2, <2>2, Numbers
    <3>2. local[g] >= listed[g] => version >= listed[g] \/ g # f
      BY <2>1, <3>1, <2>2
    <3> QED BY <2>4, <3>1, <3>2
  <2> QED BY <2>3, <2>5
<1>4. changes' \in 0..MaxChanges
  BY <1>0, Numbers DEF Rewrite, Remove, TypeOK
<1>5. TypeOK'
  BY <1>0, <1>1, <1>3, <1>4 DEF TypeOK, hub, underway, client, Requests
<1>6. CallOfPc' /\ NoneOlderThanListed' /\ PassedIsPublished'
  BY <1>0, <1>1, <1>3 DEF CallOfPc, NoneOlderThanListed, PassedIsPublished, hub, client
<1>7. NoneBehindTheCall'
  BY <1>0, <1>1 DEF NoneBehindTheCall, Outdone, underway, client
<1> QED BY <1>5, <1>6, <1>7 DEF IInv

LEMMA NextIInv == IInv /\ [Next]_vars => IInv'
<1> SUFFICES ASSUME IInv, [Next]_vars PROVE IInv'
  OBVIOUS
<1>1. CASE UNCHANGED vars
  BY <1>1 DEF vars, disk, hub, underway, client, IInv, TypeOK, CallOfPc, NoneOlderThanListed,
     NoneBehindTheCall, Outdone, PassedIsPublished, Requests
<1>2. CASE Next
  BY <1>2, NewCallKeeps, LocalStepKeeps, SuccessKeeps, FailureKeeps, LateActKeeps,
     SidecarKeeps, DiskKeeps
     DEF Next, Client, Answer
<1> QED BY <1>1, <1>2

-----------------------------------------------------------------------------

\* The inductive invariant holds in every run of the client, whatever the Hub, the
\* jobs and the upload script do: what the script and the requests given up still
\* hold is no older than what the call listed, but for what they held by then.
THEOREM InductiveInvariant == Spec => []IInv
  BY InitIInv, NextIInv, PTL DEF Spec

\* Type correctness; the retry counters keep to the bounds of RetryPolicy.
THEOREM TypeCorrect == Spec => []TypeOK
  BY InductiveInvariant, PTL DEF IInv

\* with_backoff and upload_folder never leave a file behind unpublished, for any
\* folder, any retry policy and any number of changes and late requests.  A script
\* that commits what it read earlier, and a late request, put back a version older
\* than the call listed only if they held it when the call listed the file.
THEOREM NothingLeftBehind == Spec => []PassedIsPublished
  BY InductiveInvariant, PTL DEF IInv

\* An Ok is true when it is given, for every call of HubClient.
THEOREM OkIsNeverALie == Spec => OkIsTrue
<1>1. IInv /\ [Next]_vars =>
        (outcome' = "ok" /\ outcome # "ok" =>
           /\ call = "ensure" => repo'
           /\ call = "upload" => \A f \in Files \ doomed : listed[f] # Absent => remote'[f] # Absent
           /\ call = "delete" => remote'[file] = Absent)
  <2> SUFFICES ASSUME IInv, [Next]_vars, outcome' = "ok", outcome # "ok"
               PROVE  /\ call = "ensure" => repo'
                      /\ call = "upload" =>
                           \A f \in Files \ doomed : listed[f] # Absent => remote'[f] # Absent
                      /\ call = "delete" => remote'[file] = Absent
    OBVIOUS
  <2>1. FolderDone \/ Created \/ Deleted
    <3>1. ~(EnsureRepo \/ UploadFolder \/ \E f \in Files : UploadFile(f) \/ DeleteFile(f))
      BY DEF EnsureRepo, UploadFolder, UploadFile, DeleteFile, Call
    <3>2. ~(LateAct \/ SidecarUpload \/ \E f \in Files : Rewrite(f) \/ Remove(f))
      BY DEF LateAct, SidecarUpload, SidecarStart, SidecarRead, SidecarCommit, SidecarFails,
         Rewrite, Remove, client
    <3>3. ~(HashFile \/ SampleFails \/ ReadFile \/ Metadata \/ UploadMode \/ Committed)
      BY DEF HashFile, SampleFails, ReadFile, Metadata, UploadMode, Committed, Return, Passed
    <3>4. ~(HttpError \/ NetworkError \/ Refused \/ Killed)
      BY DEF HttpError, NetworkError, RetryNetwork, Refused, Killed, Return, Again
    <3>5. ~UNCHANGED vars
      BY DEF vars, client
    <3> QED BY <3>1, <3>2, <3>3, <3>4, <3>5 DEF Next, Client, Answer
  <2>2. CASE FolderDone
    <3>1. call = "upload" /\ todo = {} /\ remote' = remote
      BY <2>2 DEF FolderDone, IInv, CallOfPc, hub
    <3> QED BY <3>1 DEF IInv, PassedIsPublished
  <2>3. CASE Created
    BY <2>3 DEF Created, Act, IInv, CallOfPc
  <2>4. CASE Deleted
    <3>1. file \in Files /\ remote' = [remote EXCEPT ![file] = Absent] /\ call = "delete"
      BY <2>4 DEF Deleted, Act, IInv, CallOfPc, TypeOK
    <3> QED BY <3>1 DEF IInv, TypeOK
  <2> QED BY <2>1, <2>2, <2>3, <2>4
<1> QED BY <1>1, InductiveInvariant, PTL DEF Spec, OkIsTrue
=============================================================================
