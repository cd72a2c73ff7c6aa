------------------------------ MODULE TrainRun ------------------------------
(***************************************************************************)
(* A run directory of lewm-train over its whole life: jobs that start,     *)
(* train, save a checkpoint, prune, write train_losses.jsonl and           *)
(* train_report.json, are killed or fail anywhere, and are started again   *)
(* with --resume-if-present (lewm-train/src/{trainer,resume,checkpoint}.rs).*)
(*                                                                         *)
(* One job runs at a time and each step below is one file-system effect of *)
(* its sequential code, so a crash falls between any two of them.  A       *)
(* checkpoint file changes in one step: AtomicFile shows that of           *)
(* write_atomic_bytes.  run_id.txt, train_losses.jsonl and                 *)
(* train_report.json are written with fs::write and may be torn.           *)
(*                                                                         *)
(* The bytes of a checkpoint file are the model they describe: the run     *)
(* that trained it, its step, and the schedule totals (--max-steps) it was *)
(* trained under.  Training is deterministic in these, the configuration   *)
(* and the seed, and a job with another configuration or seed is rejected  *)
(* on resume, so all jobs here share one configuration and one seed.       *)
(***************************************************************************)
EXTENDS Integers, FiniteSets, Sequences

CONSTANTS
  MaxStep,      \* bound on --max-steps
  Keep,         \* DEFAULT_RETAINED_CHECKPOINTS
  Kinds,        \* run ids of the training modes
  Resumable,    \* the modes whose resume is implemented
  Legacy,       \* run ids of builds from before the modes were labelled
  Accepting,    \* the modes that resume a Legacy run
  Smoke,        \* run id of the smoke command
  SmokeSteps,   \* --smoke-steps values used in this directory ({}: no smoke job)
  None,         \* no run id, no file
  TornId        \* run_id.txt cut short by a crash

ASSUME MaxStepAssumption == MaxStep \in Nat \ {0}
ASSUME KeepAssumption == Keep \in Nat \ {0}
ASSUME KindsAssumption ==
  /\ Resumable \subseteq Kinds /\ Accepting \subseteq Resumable
  /\ Legacy \intersect Kinds = {}
  /\ {Smoke, None, TornId} \intersect (Kinds \union Legacy) = {}
  /\ Smoke # None /\ Smoke # TornId /\ None # TornId

Steps == 1..MaxStep
ASSUME SmokeStepsAssumption == SmokeSteps \subseteq Steps

\* The four files of CheckpointPaths.
Exts == {"model_burn", "model_safetensors", "parity", "sidecar"}

\* The order save_checkpoint writes and prune_checkpoints removes them in;
\* SidecarFirst is a deviation the properties must catch.
SidecarFirst == <<"sidecar", "model_burn", "model_safetensors", "parity">>
FileOrder == <<"model_burn", "model_safetensors", "parity", "sidecar">>

\* Labels a training checkpoint may carry, and those a job of kind k resumes:
\* is_supported_pusht_bounded_run_id and ..._record_kind.
Runs == Kinds \union Legacy
Labels(k) == {k} \union (IF k \in Accepting THEN Legacy ELSE {})

Models == [run : Runs \union {Smoke, None}, step : 0..MaxStep, totals : SUBSET Steps]
NoModel == [run |-> None, step |-> 0, totals |-> {}]
Initialised(k) == [run |-> k, step |-> 0, totals |-> {}]

NoReport == [step |-> 0, complete |-> FALSE]

VARIABLES
  \* the run directory
  runId,        \* run_id.txt
  files,        \* files[e][n]: file of extension e for step n, NoModel if absent
  losses,       \* the steps listed in train_losses.jsonl
  lossesTorn,   \* TRUE when its last line is cut short
  report,       \* train_report.json
  \* the job
  pc,           \* the effect it performs next, "idle" when no job runs
  job,          \* run id, --max-steps and the step it started from
  model,        \* the model in memory
  prior,        \* previous_losses, read from train_losses.jsonl on resume
  at,           \* position in FileOrder while saving or pruning
  victims,      \* checkpoints prune_checkpoints still has to remove
  exit          \* how the last job ended

directory == <<runId, files, losses, lossesTorn, report>>
process == <<job, model, prior, at, victims>>
vars == <<directory, pc, process, exit>>

TypeOK ==
  /\ runId \in Runs \union {None, TornId}
  /\ files \in [Exts -> [Steps -> Models]]
  /\ losses \subseteq Steps
  /\ lossesTorn \in BOOLEAN
  /\ report \in [step : 0..MaxStep, complete : BOOLEAN]
  /\ pc \in {"idle", "run_id", "train", "save", "prune", "truncate", "losses", "report"}
  /\ job \in [run : Kinds \union {Smoke}, target : Steps, start : 0..MaxStep]
  /\ model \in Models
  /\ prior \subseteq Steps
  /\ at \in 1..4
  /\ victims \subseteq Steps
  /\ exit \in {"none", "ok", "error", "killed"}

\* The directory is empty, or holds one finished run of an older build.
EmptyDirectory ==
  /\ runId = None
  /\ files = [e \in Exts |-> [n \in Steps |-> NoModel]]
  /\ losses = {}
  /\ report = NoReport

LegacyDirectory ==
  \E k \in Legacy, t \in Steps :
    /\ runId = k
    /\ files = [e \in Exts |-> [n \in Steps |->
                 IF n = t THEN [run |-> k, step |-> t, totals |-> {t}] ELSE NoModel]]
    /\ losses = {n \in Steps : n <= t}
    /\ report = [step |-> t, complete |-> TRUE]

Init ==
  /\ EmptyDirectory \/ LegacyDirectory
  /\ lossesTorn = FALSE
  /\ pc = "idle"
  /\ job = [run |-> Smoke, target |-> 1, start |-> 0]
  /\ model = NoModel
  /\ prior = {}
  /\ at = 1
  /\ victims = {}
  /\ exit = "none"

-----------------------------------------------------------------------------
(* What the code asks of the directory. *)

Exists(e, n) == files[e][n] # NoModel

SidecarSteps == {n \in Steps : Exists("sidecar", n)}

\* CheckpointPaths::is_complete
Complete(n) == \A e \in Exts : Exists(e, n)

\* list_complete_checkpoints
CompleteSteps == {n \in Steps : Complete(n)}

(* Deviations the properties must catch; no specification uses them.       *)
\* The oldest sidecar is picked.
OldestSidecar(n) == n \in SidecarSteps /\ \A m \in SidecarSteps : n <= m
\* Retention keeps one checkpoint too many, or the wrong end.
BeyondByOne(complete) == {n \in complete : Cardinality({m \in complete : m > n}) > Keep}
BeyondOldest(complete) == {n \in complete : Cardinality({m \in complete : m < n}) >= Keep}
\* The kind of the record is not looked at.
RecordStepAgrees(k, n) == files["model_burn"][n].step = n

\* latest_sidecar: by step in the name, whether or not the rest is there
NewestSidecar(n) == n \in SidecarSteps /\ \A m \in SidecarSteps : m <= n

\* All complete checkpoints but the newest Keep.
Beyond(complete) ==
  {n \in complete : Cardinality({m \in complete : m > n}) >= Keep}

\* detect_resume: run_id.txt and the newest sidecar agree and its record exists.
Detects(n) ==
  /\ NewestSidecar(n)
  /\ files["sidecar"][n].run = runId
  /\ Exists("model_burn", n)

\* train_losses.jsonl parses and, if it has a last line, that is the
\* checkpoint's step.
LossesAgree(n) ==
  /\ ~lossesTorn
  /\ losses = {} \/ (n \in losses /\ \A m \in losses : m <= n)

\* validate_pusht_full_lewm_record, validate_so100_full_lewm_record
RecordAgrees(k, n) ==
  /\ files["model_burn"][n].run \in Labels(k)
  /\ files["model_burn"][n].step = n

\* validate_full_lewm_safetensors: the mirror holds the record's parameters
MirrorAgrees(n) == files["model_safetensors"][n] = files["model_burn"][n]

\* A job of kind k with --max-steps t resumes from checkpoint n:
\* detect_resume, read_train_losses and restore_*_full_lewm_start all pass.
Accepts(k, t, n) ==
  /\ Detects(n)
  /\ k \in Resumable /\ runId \in Labels(k)
  /\ n <= t
  /\ Complete(n)
  /\ LossesAgree(n)
  /\ RecordAgrees(k, n)
  /\ MirrorAgrees(n)

-----------------------------------------------------------------------------
(* A job starts.  main parses the command line; train opens its data first  *)
(* and then calls detect_resume.                                           *)

Run(k, t, n, m) ==
  /\ job' = [run |-> k, target |-> t, start |-> n]
  /\ model' = m
  /\ at' = 1
  /\ victims' = {}
  /\ exit' = "none"

\* No run_id.txt: StartupMode::Fresh, with or without the resume flag, and
\* whatever else the directory holds.
StartFresh(k, t) ==
  /\ pc = "idle" /\ runId = None
  /\ Run(k, t, 0, Initialised(k))
  /\ prior' = {}
  /\ pc' = "run_id"
  /\ UNCHANGED directory

WriteRunId ==
  /\ pc = "run_id"
  /\ runId' = job.run
  /\ pc' = "train"
  /\ UNCHANGED <<files, losses, lossesTorn, report, process, exit>>

\* The newest checkpoint is loaded, and what is saved from it gets the label of
\* this build; run_id.txt is not written again.  A job whose target is already
\* reached only writes its report again.
StartResume(k, t, n) ==
  /\ pc = "idle" /\ Accepts(k, t, n)
  /\ Run(k, t, n, [files["model_burn"][n] EXCEPT !.run = k])
  /\ prior' = losses
  /\ pc' = IF n = t THEN "truncate" ELSE "train"
  /\ UNCHANGED directory

\* A run_id.txt without --resume-if-present, or any resume check that fails.
StartRejected ==
  /\ pc = "idle" /\ runId # None
  /\ exit' = "error"
  /\ UNCHANGED <<directory, pc, process>>

\* The smoke command trains a scalar in memory and saves it as a checkpoint of
\* the same directory; it reads nothing there and writes no run_id.txt.
StartSmoke(n) ==
  /\ pc = "idle"
  /\ Run(Smoke, n, 0, [run |-> Smoke, step |-> n, totals |-> {n}])
  /\ prior' = {}
  /\ pc' = "save"
  /\ UNCHANGED directory

-----------------------------------------------------------------------------
(* Deviations the properties must catch; no specification uses them.       *)

\* A sidecar already there is removed before the new record is written.
SidecarInvalidatedFirst ==
  /\ pc = "save" /\ at < 4
  /\ files' = [files EXCEPT ![FileOrder[at]][model.step] = model,
                            !["sidecar"][model.step] = NoModel]
  /\ at' = at + 1
  /\ UNCHANGED <<runId, losses, lossesTorn, report, pc, job, model, prior, victims, exit>>

\* The points of this job are not added to previous_losses.
PriorLossesOnly ==
  /\ pc = "losses"
  /\ losses' = prior
  /\ pc' = "report"
  /\ UNCHANGED <<runId, files, lossesTorn, report, process, exit>>

-----------------------------------------------------------------------------
(* Training: the loop of run_full_lewm_training, all in memory. *)

TrainStep ==
  /\ pc = "train"
  /\ model' = [model EXCEPT !.step = @ + 1, !.totals = @ \union {job.target}]
  /\ pc' = IF model.step + 1 = job.target THEN "save" ELSE "train"
  /\ UNCHANGED <<directory, job, prior, at, victims, exit>>

\* The first non-finite loss or gradient ends the job (Skip and Abort alike).
GuardRejects ==
  /\ pc = "train"
  /\ pc' = "idle"
  /\ exit' = "error"
  /\ UNCHANGED <<directory, process>>

-----------------------------------------------------------------------------
(* save_checkpoint and prune_checkpoints. *)

SaveFile ==
  /\ pc = "save" /\ at < 4
  /\ files' = [files EXCEPT ![FileOrder[at]][model.step] = model]
  /\ at' = at + 1
  /\ UNCHANGED <<runId, losses, lossesTorn, report, pc, job, model, prior, victims, exit>>

\* The sidecar is written last; then prune_checkpoints lists the directory.
SaveSidecar ==
  /\ pc = "save" /\ at = 4
  /\ files' = [files EXCEPT ![FileOrder[at]][model.step] = model]
  /\ at' = 1
  /\ victims' = Beyond(CompleteSteps')
  /\ pc' = "prune"
  /\ UNCHANGED <<runId, losses, lossesTorn, report, job, model, prior, exit>>

\* One file of the oldest victim; remove_if_exists ignores a missing one.
PruneFile ==
  /\ pc = "prune"
  /\ \E n \in victims :
       /\ \A m \in victims : n <= m
       /\ files' = [files EXCEPT ![FileOrder[at]][n] = NoModel]
       /\ at' = IF at = 4 THEN 1 ELSE at + 1
       /\ victims' = IF at = 4 THEN victims \ {n} ELSE victims
  /\ UNCHANGED <<runId, losses, lossesTorn, report, pc, job, model, prior, exit>>

\* save_checkpoint returns; the smoke command only writes its own two report
\* files after it, which nothing reads back.
FinishSave ==
  /\ pc = "prune" /\ victims = {}
  /\ IF job.run = Smoke
     THEN pc' = "idle" /\ exit' = "ok"
     ELSE pc' = "truncate" /\ exit' = exit
  /\ UNCHANGED <<directory, process>>

-----------------------------------------------------------------------------
(* write_train_report. *)

\* fs::write truncates train_losses.jsonl ...
TruncateLosses ==
  /\ pc = "truncate"
  /\ losses' = {} /\ lossesTorn' = FALSE
  /\ pc' = "losses"
  /\ UNCHANGED <<runId, files, report, process, exit>>

\* previous_losses followed by the points of this job's own steps.
AllLosses == prior \union {n \in Steps : job.start < n /\ n <= job.target}

\* ... and fills it.
WriteLosses ==
  /\ pc = "losses"
  /\ losses' = AllLosses
  /\ pc' = "report"
  /\ UNCHANGED <<runId, files, lossesTorn, report, process, exit>>

\* The report repeats what is_complete found at the target step; the job is
\* done.
WriteReport ==
  /\ pc = "report"
  /\ report' = [step |-> job.target, complete |-> Complete(job.target)]
  /\ pc' = "idle"
  /\ exit' = "ok"
  /\ UNCHANGED <<runId, files, losses, lossesTorn, process>>

-----------------------------------------------------------------------------
(* The job is killed, gets SIGTERM or SIGINT, or one of its calls fails.   *)
(* None of the three is handled: the directory stays as the last effect    *)
(* left it, except that an fs::write in progress may have been cut short.  *)

Prefix(part, whole) == part \subseteq whole /\ \A m \in part, n \in whole \ part : m < n

Interrupt ==
  /\ pc # "idle"
  /\ runId' \in IF pc = "run_id" THEN {None, TornId, job.run} ELSE {runId}
  /\ IF pc = "losses"
     THEN /\ losses' \in SUBSET AllLosses /\ Prefix(losses', AllLosses)
          /\ lossesTorn' \in {FALSE, losses' # AllLosses}
     ELSE UNCHANGED <<losses, lossesTorn>>
  /\ report' \in IF pc = "report" THEN {report, NoReport} ELSE {report}
  /\ pc' = "idle"
  /\ exit' = "killed"
  /\ UNCHANGED <<files, process>>

-----------------------------------------------------------------------------
Next ==
  \/ \E k \in Kinds, t \in Steps : StartFresh(k, t)
  \/ \E k \in Kinds, t \in Steps, n \in Steps : StartResume(k, t, n)
  \/ \E n \in SmokeSteps : StartSmoke(n)
  \/ StartRejected
  \/ WriteRunId \/ TrainStep \/ GuardRejects
  \/ SaveFile \/ SaveSidecar \/ PruneFile \/ FinishSave
  \/ TruncateLosses \/ WriteLosses \/ WriteReport
  \/ Interrupt

Spec == Init /\ [][Next]_vars

-----------------------------------------------------------------------------
(* Properties. *)

\* restore_*_full_lewm_start never puts together files of two different
\* saves: whatever crashes, smoke jobs and overwritten steps left behind, the
\* record, its mirror, the parity probe and the sidecar of an accepted
\* checkpoint describe one and the same model.
ResumeLoadsOneGeneration ==
  pc = "idle" =>
    \A k \in Kinds, t, n \in Steps :
      Accepts(k, t, n) => \A e \in Exts : files[e][n] = files["sidecar"][n]

\* Between jobs the newest sidecar, the one detect_resume picks by its name
\* alone, always belongs to a complete checkpoint: neither a crash while saving
\* nor one while pruning leaves an orphan sidecar on top.
NewestSidecarComplete ==
  \A n \in Steps : NewestSidecar(n) => Complete(n)

\* No step of any job, a prune or a crash among them, takes the directory back
\* to an older newest complete checkpoint.
NewestNeverRegresses ==
  [][\A n \in CompleteSteps : \E m \in CompleteSteps' : n <= m]_vars

\* When save_checkpoint returns, at most Keep checkpoints are complete, also
\* after crashes left more of them behind.
RetentionRestored ==
  (pc = "prune" /\ victims = {}) => Cardinality(CompleteSteps) <= Keep

\* A train job that ended with success, of a mode that can resume, leaves a
\* directory that resumes at its target: run_id.txt, the newest sidecar, the
\* four files and the end of train_losses.jsonl agree.
SuccessIsResumable ==
  (pc = "idle" /\ exit = "ok" /\ job.run \in Resumable) =>
    Accepts(job.run, job.target, job.target)

\* A report that says its checkpoint is complete stays true: later jobs may
\* replace that checkpoint, but only by a newer complete one.
ReportIsBacked ==
  report.complete => \E n \in CompleteSteps : report.step <= n

-----------------------------------------------------------------------------
(* The inductive invariant behind the first three and ReportIsBacked. *)

\* What the job in memory is about to save.
ModelOfJob ==
  /\ pc \in {"run_id", "train", "save"} => model.run = job.run
  /\ pc = "train" => model.step < job.target
  /\ pc = "run_id" => model.step = 0 /\ job.run \in Kinds
  /\ pc = "save" => model.step = job.target
  /\ pc = "train" => job.run \in Kinds
  /\ pc \in {"run_id", "train"} => at = 1

\* The files already saved hold that model; of the checkpoint being pruned,
\* the record goes first.
SavedSoFar ==
  /\ pc = "save" => \A i \in 1..4 : i < at => files[FileOrder[i]][model.step] = model
  /\ (pc = "prune" /\ at > 1) =>
       \A n \in victims : (\A m \in victims : n <= m) => ~Exists("model_burn", n)

\* Some complete checkpoint is on top of all sidecars, and no victim of the
\* prune in progress.
TopIsComplete ==
  SidecarSteps # {} =>
    \E c \in Steps : /\ NewestSidecar(c) /\ Complete(c)
                     /\ pc = "prune" => c \notin victims

\* A sidecar of a training run exists only after run_id.txt does, and the
\* step a training job will save at carries none.
RunIdFirst ==
  /\ (runId = None \/ pc = "run_id") => \A n \in Steps : files["sidecar"][n].run \notin Runs
  /\ (pc \in {"train", "save"} /\ job.run \in Kinds) => runId \in Labels(job.run)
  /\ (pc \in {"run_id", "train", "save"} /\ job.run \in Kinds) =>
       files["sidecar"][job.target].run \notin Runs

\* A record and a sidecar that both belong to training belong to one save.
OneGeneration ==
  \A n \in Steps :
    (files["sidecar"][n].run \in Runs /\ files["model_burn"][n].run \in Runs) =>
      \A e \in Exts : files[e][n] = files["sidecar"][n]

IInv ==
  /\ TypeOK /\ ModelOfJob /\ SavedSoFar /\ TopIsComplete /\ RunIdFirst
  /\ OneGeneration /\ ReportIsBacked

-----------------------------------------------------------------------------
(* What the documents say and the code does not do; TLC refutes it.        *)

\* RFC0005-021 and docs/src/training/checkpoints.md: a started run can always
\* be started again with --resume-if-present and some --max-steps.
RunDirResumable ==
  (pc = "idle" /\ runId \in Resumable) =>
    \E t, n \in Steps : Accepts(runId, t, n)

-----------------------------------------------------------------------------
(* Refinement. *)

\* Without smoke jobs, the complete checkpoints of the directory are the
\* retained end of one growing line of training.
History == INSTANCE CheckpointHistory WITH
  lineage <- UNION {files["sidecar"][n].totals : n \in CompleteSteps},
  retained <- CompleteSteps
ImplementsHistory == History!Spec
=============================================================================
