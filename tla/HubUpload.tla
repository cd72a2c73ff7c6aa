----------------------------- MODULE HubUpload -----------------------------
(***************************************************************************)
(* The Hub client of lewm-hub (client.rs, upload.rs, errors.rs): one       *)
(* process calls ensure_repo, upload_file, upload_folder and delete_file   *)
(* of HubClient over EnvironmentHubTransport, each request retried by      *)
(* with_backoff.                                                           *)
(*                                                                         *)
(* The Hub may answer, refuse, answer 429 or 5xx, or lose its answer, and  *)
(* in the last two cases it has acted, never does, or does so later.       *)
(* Meanwhile the local files are rewritten and removed, and the Python     *)
(* upload script reads the folder and publishes what it read.  The         *)
(* contents of a file are its version; a version stands for its SHA-256    *)
(* digest.                                                                 *)
(***************************************************************************)
EXTENDS Integers, FiniteSets

CONSTANTS
  Count,       \* files of the folder, numbered in the order folder_files sorts
  Lfs,         \* those the Hub wants as LFS objects
  Empty,       \* those of zero bytes, which are regular without asking
  MaxVersion,  \* bound on the versions of a local file
  MaxHttp,     \* RetryPolicy::max_http_retries
  MaxNetwork,  \* RetryPolicy::max_network_retries
  MaxLate,     \* bound on the requests given up that the Hub has yet to act on
  MaxChanges   \* bound on the changes of the local files

Files == 1..Count

ASSUME HubAssumption ==
  /\ Count \in Nat \ {0} /\ MaxVersion \in Nat \ {0}
  /\ MaxHttp \in Nat /\ MaxNetwork \in Nat /\ MaxLate \in Nat /\ MaxChanges \in Nat
  /\ Lfs \subseteq Files /\ Empty \subseteq Files \ Lfs

Versions == 1..MaxVersion
Absent == 0                \* not there yet, or not on the Hub
Gone == MaxVersion + 1     \* removed

VARIABLES
  local,      \* local[f]: version on disk
  changes,    \* how often a local file was rewritten or removed
  repo,       \* TRUE once the repository exists
  remote,     \* remote[f]: version on the Hub
  pc,         \* the request sent next, "idle" between calls
  call,       \* the client's last call
  listed,     \* listed[f]: version of f when the call listed it, Absent if it did not
  todo,       \* files of the call still to do, the one being done included
  file,       \* the file being done
  hash,       \* version sha256_file hashed
  body,       \* version read for the commit being sent
  http, network,  \* retries of the current with_backoff
  outcome,    \* how the last call ended
  taken,      \* taken[f]: version the upload script holds of f, Absent if none
  late,       \* requests of the client that it gave up and the Hub will act on
  behind,     \* history: files of which, when the call listed them, the script or
              \* a late request held a version
  doomed      \* history: those a late request was to delete

disk == <<local, changes>>
hub == <<repo, remote>>
underway == <<taken, late>>
client == <<pc, call, listed, todo, file, hash, body, http, network, outcome, behind, doomed>>
vars == <<disk, hub, underway, client>>

Requests == {"create", "metadata", "preupload", "commit", "delete"}

TypeOK ==
  /\ local \in [Files -> 0..Gone] /\ changes \in 0..MaxChanges
  /\ repo \in BOOLEAN
  /\ remote \in [Files -> 0..MaxVersion]
  /\ pc \in {"idle", "file", "read"} \union Requests
  /\ call \in {"none", "ensure", "upload", "delete"}
  /\ listed \in [Files -> 0..MaxVersion]
  /\ todo \subseteq Files /\ file \in Files
  /\ hash \in 0..MaxVersion
  /\ body \in 0..MaxVersion
  /\ http \in 0..MaxHttp
  /\ network \in 0..MaxNetwork
  /\ outcome \in {"none", "ok", "error"}
  /\ taken \in [Files -> 0..MaxVersion]
  /\ late \subseteq [file : Files, version : 0..MaxVersion]
  /\ behind \subseteq Files /\ doomed \subseteq Files

Nothing == [f \in Files |-> Absent]

Init ==
  /\ local \in [Files -> {Absent, 1}] /\ changes = 0
  /\ repo = FALSE
  /\ remote = Nothing
  /\ pc = "idle" /\ call = "none" /\ outcome = "none"
  /\ listed = Nothing /\ todo = {} /\ file = 1
  /\ hash = Absent /\ body = Absent
  /\ http = 0 /\ network = 0
  /\ taken = Nothing /\ late = {} /\ behind = {} /\ doomed = {}

Present(f) == local[f] \in Versions

-----------------------------------------------------------------------------
(* The calls. *)

Call(name, files, first) ==
  /\ pc = "idle"
  /\ call' = name
  /\ listed' = [f \in Files |-> IF f \in files /\ Present(f) THEN local[f] ELSE Absent]
  /\ todo' = files
  /\ pc' = first
  /\ outcome' = "none"
  /\ behind' = {f \in files : taken[f] # Absent \/ \E r \in late : r.file = f /\ r.version # Absent}
  /\ doomed' = {f \in files : \E r \in late : r.file = f /\ r.version = Absent}
  /\ UNCHANGED <<disk, hub, underway, hash, body, http, network>>

EnsureRepo == Call("ensure", {}, "create") /\ UNCHANGED file

UploadFolder == Call("upload", {f \in Files : Present(f)}, "file") /\ UNCHANGED file

UploadFile(f) == Call("upload", {f}, "file") /\ UNCHANGED file

DeleteFile(f) == Call("delete", {}, "delete") /\ file' = f

\* The call returns; what it hashed, read and counted goes with it.
Forget == hash' = Absent /\ body' = Absent /\ http' = 0 /\ network' = 0

Return(result) ==
  /\ pc' = "idle"
  /\ outcome' = result
  /\ Forget
  /\ UNCHANGED <<call, listed, todo, file, behind, doomed>>

\* A new with_backoff starts with request r.
Start(r) ==
  /\ pc' = r
  /\ http' = 0 /\ network' = 0

\* The call goes on with the next file.
Passed ==
  /\ todo' = todo \ {file}
  /\ pc' = "file"
  /\ Forget
  /\ UNCHANGED <<call, listed, file, outcome, behind, doomed>>

\* What the closure of the current with_backoff does first.  The upload of a
\* non-empty file asks for the upload mode again on every attempt.
UploadStart == IF file \in Empty THEN "read" ELSE "preupload"
Closure == IF pc \in {"preupload", "commit"} THEN UploadStart ELSE pc

\* The closure runs again; a commit will carry what is read then.
Again == pc' = Closure /\ body' = Absent /\ UNCHANGED <<call, listed, todo, file, hash, outcome, behind, doomed>>

-----------------------------------------------------------------------------
(* What the Hub does with a request. *)

Act ==
  \/ pc = "create" /\ repo' = TRUE /\ UNCHANGED remote
  \/ pc \in {"metadata", "preupload"} /\ UNCHANGED hub
  \/ pc = "commit" /\ repo /\ remote' = [remote EXCEPT ![file] = body] /\ UNCHANGED repo
  \/ pc = "delete" /\ repo /\ remote' = [remote EXCEPT ![file] = Absent] /\ UNCHANGED repo

\* A request that the client gives up: the Hub has acted on it, never will, or
\* does so later, when the client may have gone on.
Unanswered ==
  \/ (Act \/ UNCHANGED hub) /\ UNCHANGED underway
  \/ /\ pc \in {"commit", "delete"} /\ repo /\ Cardinality(late) < MaxLate
     /\ late' = late \union {[file |-> file, version |-> IF pc = "commit" THEN body ELSE Absent]}
     /\ UNCHANGED <<hub, taken>>

\* The request goes out: what fetch_upload_mode sends needs the file.
Sent == pc \in Requests /\ (pc = "preupload" => Present(file))

-----------------------------------------------------------------------------
(* Deviations the properties must catch; no specification uses them.       *)

\* Network retries are not counted.
RetryNetworkUncounted == Again /\ UNCHANGED <<http, network>>

\* Any digest the Hub exposes is taken for the local one.
CurrentIfExposed == file \in Lfs /\ remote[file] # Absent

\* A refused delete counts as done: the file must have been deleted before.
RefusedDeleteIsDone ==
  /\ Sent
  /\ (pc = "create" /\ Act) \/ UNCHANGED hub
  /\ Return(IF pc = "delete" THEN "ok" ELSE "error")
  /\ UNCHANGED <<disk, underway>>

-----------------------------------------------------------------------------
(* upload_file, up to its first request. *)

\* All files are done.
FolderDone ==
  /\ pc = "file" /\ todo = {}
  /\ Return("ok")
  /\ UNCHANGED <<disk, hub, underway>>

\* The next file, in the order of folder_files.
HashFile ==
  /\ pc = "file"
  /\ \E f \in todo :
       /\ \A g \in todo : f <= g
       /\ IF Present(f)
          THEN /\ file' = f
               /\ hash' = local[f]
               /\ Start("metadata")
               /\ UNCHANGED <<call, listed, todo, body, outcome, behind, doomed>>
          ELSE Return("error")
  /\ UNCHANGED <<disk, hub, underway>>

\* The file vanished: sample_file fails before a request is sent.
SampleFails ==
  /\ pc = "preupload" /\ ~Present(file)
  /\ Return("error")
  /\ UNCHANGED <<disk, hub, underway>>

\* base64_file reads what the commit will carry, once per attempt.
ReadFile ==
  /\ pc = "read"
  /\ IF Present(file)
     THEN /\ body' = local[file]
          /\ pc' = "commit"
          /\ UNCHANGED <<call, listed, todo, file, hash, http, network, outcome, behind, doomed>>
     ELSE Return("error")
  /\ UNCHANGED <<disk, hub, underway>>

-----------------------------------------------------------------------------
(* Its answer arrives. *)

\* Created, or 409: the repository was there, perhaps because an earlier
\* attempt created it.
Created ==
  /\ pc = "create" /\ Act
  /\ Return("ok")
  /\ UNCHANGED <<disk, underway>>

\* The Hub exposes digests of LFS files only: a regular file is never current.
Current == file \in Lfs /\ remote[file] = hash

\* The file is skipped, or its upload starts, which has no use for the digest; 404
\* counts as not there.
Metadata ==
  /\ pc = "metadata" /\ Act
  /\ IF Current THEN Passed
     ELSE IF Present(file)
          THEN /\ Start(UploadStart) /\ hash' = Absent
               /\ UNCHANGED <<call, listed, todo, file, body, outcome, behind, doomed>>
          ELSE Return("error")
  /\ UNCHANGED <<disk, underway>>

\* The live transport does not upload LFS files.
UploadMode ==
  /\ pc = "preupload" /\ Sent /\ repo /\ Act
  /\ IF file \in Lfs
     THEN Return("error")
     ELSE pc' = "read" /\ UNCHANGED <<call, listed, todo, file, hash, body, http, network, outcome, behind, doomed>>
  /\ UNCHANGED <<disk, underway>>

Committed ==
  /\ pc = "commit" /\ Act
  /\ Passed
  /\ UNCHANGED <<disk, underway>>

Deleted ==
  /\ pc = "delete" /\ Act
  /\ Return("ok")
  /\ UNCHANGED <<disk, underway>>

\* 429 or 5xx, which may come before or after the Hub has acted.
HttpError ==
  /\ Sent /\ Unanswered
  /\ \/ /\ http < MaxHttp
        /\ http' = http + 1
        /\ Again /\ UNCHANGED network
     \/ http = MaxHttp /\ Return("error")
  /\ UNCHANGED disk

RetryNetwork ==
  \/ /\ network < MaxNetwork
     /\ network' = network + 1
     /\ Again /\ UNCHANGED http
  \/ network = MaxNetwork /\ Return("error")

\* The connection breaks before or after the Hub has acted.
NetworkError ==
  /\ Sent /\ Unanswered
  /\ RetryNetwork
  /\ UNCHANGED disk

\* Any other status, or an answer that is not the JSON expected.
Refused ==
  /\ Sent
  /\ (pc = "create" /\ Act) \/ UNCHANGED hub
  /\ Return("error")
  /\ UNCHANGED <<disk, underway>>

\* The process is killed between two steps, or while a request is out.
Killed ==
  /\ pc # "idle"
  /\ UNCHANGED <<hub, underway>> \/ (Sent /\ Unanswered)
  /\ Return("error")
  /\ UNCHANGED disk

-----------------------------------------------------------------------------
(* Everybody else. *)

\* A job writes the next version of a file, or retention removes it.
Rewrite(f) ==
  /\ local[f] < MaxVersion /\ changes < MaxChanges
  /\ local' = [local EXCEPT ![f] = @ + 1] /\ changes' = changes + 1
  /\ UNCHANGED <<hub, underway, client>>

Remove(f) ==
  /\ Present(f) /\ changes < MaxChanges
  /\ local' = [local EXCEPT ![f] = Gone] /\ changes' = changes + 1
  /\ UNCHANGED <<hub, underway, client>>

\* The Hub acts on a request that the client has given up.
LateAct ==
  /\ \E r \in late :
       /\ remote' = [remote EXCEPT ![r.file] = r.version]
       /\ late' = late \ {r}
  /\ UNCHANGED <<disk, repo, taken, client>>

\* python/upload_checkpoints.py runs hf upload, which creates the repository,
\* reads and hashes the files it finds, LFS ones included, one after the other,
\* and then publishes what it has read in one commit.  One script runs at a time.
Uploading == taken # Nothing

SidecarStart ==
  /\ ~Uploading /\ \E f \in Files : Present(f)
  /\ repo' = TRUE
  /\ taken' = [f \in Files |-> IF Present(f) THEN local[f] ELSE Absent]
  /\ UNCHANGED <<disk, remote, late, client>>

\* It comes to a file after others have been read, and takes what is there then.
SidecarRead(f) ==
  /\ taken[f] # Absent /\ Present(f)
  /\ taken' = [taken EXCEPT ![f] = local[f]]
  /\ UNCHANGED <<disk, hub, late, client>>

SidecarCommit ==
  /\ Uploading
  /\ remote' = [f \in Files |-> IF taken[f] # Absent THEN taken[f] ELSE remote[f]]
  /\ taken' = Nothing
  /\ UNCHANGED <<disk, repo, late, client>>

\* A file is gone when it is read, or the Hub refuses, or the script is killed.
SidecarFails ==
  /\ Uploading /\ taken' = Nothing
  /\ UNCHANGED <<disk, hub, late, client>>

SidecarUpload == SidecarStart \/ (\E f \in Files : SidecarRead(f)) \/ SidecarCommit \/ SidecarFails

Answer ==
  \/ Created \/ Metadata \/ UploadMode \/ Committed \/ Deleted
  \/ HttpError \/ NetworkError \/ Refused

Client == FolderDone \/ HashFile \/ SampleFails \/ ReadFile \/ Answer

Next ==
  \/ EnsureRepo \/ UploadFolder \/ \E f \in Files : UploadFile(f) \/ DeleteFile(f)
  \/ Client \/ Killed
  \/ LateAct \/ SidecarUpload \/ \E f \in Files : Rewrite(f) \/ Remove(f)

Spec == Init /\ [][Next]_vars

\* The client's thread runs, and every request it sends is answered or breaks.
LiveSpec == Spec /\ WF_vars(Client)

-----------------------------------------------------------------------------
(* Properties. *)

\* Whatever is retried, lost, acted on late, rewritten, removed or uploaded
\* meanwhile, each file the call is done with is on the Hub, no older than when the
\* call listed it: all of them when upload_folder returns Ok, those before the
\* failing one when it returns an error or the process is killed.  Only what was
\* under way when the call listed the files can undo it: the upload script may put
\* back the version it had read, and a late request its own, or its deletion.
PassedIsPublished ==
  call = "upload" =>
    \A f \in Files \ todo :
      listed[f] # Absent =>
        /\ f \notin doomed => remote[f] # Absent
        /\ f \notin doomed \union behind => remote[f] >= listed[f]

\* The client says Ok only of what the Hub then holds: the repository of
\* ensure_repo, every file of upload_folder (but for a deletion that was under way
\* before the call), the absence of delete_file's.
OkIsTrue ==
  [][outcome' = "ok" /\ outcome # "ok" =>
       /\ call = "ensure" => repo'
       /\ call = "upload" => \A f \in Files \ doomed : listed[f] # Absent => remote'[f] # Absent
       /\ call = "delete" => remote'[file] = Absent]_vars

\* Retries end: every call returns.
CallsReturn == (pc # "idle") ~> (pc = "idle")
=============================================================================
