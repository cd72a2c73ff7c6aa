# lewm-rs in TLA+

Specifications, model-checking configurations and machine-checked proofs for
lewm-rs: how a job comes by its configuration and its data, what its loops and
its hand-written gradient compute, what survives on disk when it is killed and
resumed, what an answer of the model depends on, whether a converted or exported
model is the same model, what a plan or an evaluation report says about what was
simulated, and what is on the Hub and in the ledger afterwards. Paths below are
relative to `src/crates/` unless they start with `src/`.

## Reading order

| Module | What it is | Code |
|---|---|---|
| `DurableRegister` | abstract: a register whose acknowledged value survives crashes | promise of `write_atomic_bytes` |
| `AtomicFile` | the statements of one atomic file write | `lewm-train/src/checkpoint.rs:612-647` |
| `CheckpointHistory` | abstract: one growing line of checkpoints, pruned at its old end | promise of `save_checkpoint` and resume |
| `TrainRun` | a run directory over many jobs | `lewm-train/src/{trainer,resume,checkpoint,pusht_full}.rs`, `bin/lewm-train.rs` |
| `TrainingConfig` | defaults, file, environment and options become a configuration | `lewm-train/src/config.rs`, `lewm-core/src/config.rs` |
| `Training` | the training loops and what one job hands to the next | `lewm-train/src/{trainer,step,schedule,warmstart,optim}.rs` |
| `SavedState` | what the bytes of a checkpoint and of a warm-start source mean | `lewm-train/src/{trainer,resume,checkpoint,warmstart}.rs`, `lewm-core/src/rng.rs` |
| `BoundedCore` | the model of the bounded modes, its loss and its backward pass | `lewm-train/src/pusht_full.rs`, `trainer.rs`, `optim.rs` |
| `Forward` | the network of lewm-core, over abstract tensor operations | `lewm-core/src/{jepa,vit,predictor,embedder,mlp,ada_ln}.rs` |
| `ModelFlow` | `Forward`, read by what a value depends on | `trainer.rs`, `lewm-core`, `lewm-infer/src/runner`, `lewm-plan/src/cem.rs` |
| `TensorOps` | position embeddings resampled to another grid, the causal mask and its cache | `lewm-core/src/tensor_ops.rs` |
| `ParameterMap` | names, layouts and transforms between PyTorch and lewm-core, with `Forward` read as terms | `src/python/{param_name_map,export_onnx}.py`, `lewm-core/src/{import,export}.rs` |
| `Conversion` | conversion of the reference, its verification, load and export | `src/python/{convert_reference,verify_conversion}.py`, `lewm-train/src/bin/lewm-reference-record.rs` |
| `ConvertedModel` | the tensors behind the files of `Conversion`, and the networks they make | `lewm-core/src/{import,export}.rs`, `src/python/{param_name_map,export_onnx}.py` |
| `Dataset` | shards, episodes, windows, batches, statistics | `lewm-data/src/{pusht,so100,batch,stats}.rs`, `transform/*`, `bin/compute_stats.rs` |
| `Prefetcher` | one epoch of the worker pool | `lewm-data/src/prefetch.rs` |
| `Sorting` | the order by value and index that three components sort by | `cem.rs:465`, `so100_eval.rs:484`, `bin/lewm-infer.rs:422` |
| `Planning` | the two CEM planners and the SO-100 evaluation | `lewm-plan/src/{cem,so100_eval,reports}.rs`, `lewm-infer/src/plan.rs`, `bin/lewm-eval.rs` |
| `PushtEval` | evaluator, JSON-line client, pipes and simulator process | `lewm-plan/src/pusht_eval.rs`, `src/python/pusht_runner.py` |
| `Inference` | export, loader, comparisons, benchmark, server | `lewm-infer/src/{runner/*,eval}.rs`, `export/*`, `bin/lewm-infer.rs`, `src/python/export_onnx.py` |
| `HubUpload` | the Hub client, its retries, the Hub and other writers | `lewm-hub/src/{client,upload,errors}.rs`, `src/python/upload_checkpoints.py` |
| `Telemetry` | metric fan-out, buffered writers, emission deadlines | `lewm-telemetry/src/{facade,tracker,tensorboard,system}.rs` |
| `CollapseDetector` | the collapse probe and its alarm | `lewm-telemetry/src/collapse.rs`, `lewm-core/src/losses/collapse.rs` |
| `CostLedger` | the shared cost table | `lewm-hub/src/cost_ledger.rs`, `src/python/cost_ledger.py` |

`<M>MC` are the modules TLC runs, with `<M>*.cfg`. `<M>Proof` extends the modules
it is about and holds their theorems: `PrefetcherProof`, `HubUploadProof` and
`PushtEvalProof` are about one module each; `TrainRunProof` is about `TrainRun`
(with the refinement of `CheckpointHistory`) and `SavedState`; `TrainingProof` about
`Training`, `Dataset`, `TrainingConfig` and `TensorOps`; `EvaluationProof` about
`Inference`, `Planning`, `Conversion` and `AtomicFile`; `OperationsProof` about
`Telemetry`, `CollapseDetector` and `CostLedger`. `DataLemmas` has what the proofs about data
share: induction over numbers, recursive functions and folds step by step,
lists of lists. Three of the MC modules put components side by side that
share no state: `TrainingMC`, `EvaluationMC` and `OperationsMC`. In them a
constant variable (`part`, `subject`) says which component a behaviour is of,
and the others rest in their initial states, so that the states of the parts add
up instead of multiplying. Modules that do interact are composed for good:
`Forward` in `ModelFlow` and in `ParameterMap`, the latter in `ConvertedModel`,
which completes `Conversion`.

`TrainRun` changes a checkpoint file in one step; that is the property
`AtomicFile` establishes, so the two are read together. `Training` takes the
run directory to be one checkpoint; `TrainRun` has the files. Definitions next
to the one they deviate from (`Fanout` and `FanoutRegardless`) are plausible
bugs: no specification uses them, and each is substituted for the definition it
deviates from to confirm that a property notices.

## Inventory

**Training run directory** (`lewm-train`: `trainer.rs`, `resume.rs`,
`checkpoint.rs`, `pusht_full.rs`, `bin/lewm-train.rs`).
State: `run_id.txt`; per saved step a Burn record, its safetensors mirror, a
parity probe and a JSON sidecar; `train_losses.jsonl`; `train_report.json`; in
the process, the model, the previous losses and the list of checkpoints to
prune. Operations: `detect_resume`, fresh and resumed start, the training loop,
`save_checkpoint`, `prune_checkpoints`, `write_train_report`; the smoke command
saves into the same directory. Hard: no signal handler is installed, so a job
ends anywhere; three of the files are written in place; run ids of older builds
are accepted. Correct when: a resume never mixes two saves, the newest
checkpoint never moves back, a success can be resumed, a report is true.

**Atomic file write** (`checkpoint.rs`). State: temporary file, file, directory
entry, each in the page cache and on the device. Hard: kill and power failure
between statements. Correct when: no reader sees a torn file and an acknowledged
version survives.

**Training configuration** (`config.rs` of `lewm-train` and `lewm-core`).
State: a TOML value that four layers are merged into. Hard: tables whose `kind`
changes are replaced, others merged; options that cross a leaf; checks between
fields in four places, the last in the trainers. Correct when: the last layer
that names a field wins, what is printed loads to the same configuration (the
resume check compares its hash), and an accepted configuration trains.

**Training loops, warm start** (`trainer.rs`, `step.rs`, `schedule.rs`,
`optim.rs`, `warmstart.rs`). State: model, Adam moments, random streams, three
counters; across jobs, the checkpoint and the source of the weights. Operations:
fresh, warm and resumed start, one step with its guard, clipping and rate, save.
Hard: a target that is no longer than the warm-up, norms that overflow, a source
that is replaced while it is read, jobs with different targets. Correct when:
the jobs of a directory add up to one run.

**Model of the bounded modes** (`pusht_full.rs`, `optim.rs`): one flat vector of
parameters, a forward pass, a backward pass written by hand, a decay mask.
Correct when: the gradient is the derivative of the loss and decay hits what the
optimizer's partition by name says.

**Prefetcher** (`lewm-data/src/prefetch.rs`). State: shared cursor, stop flag,
bounded channel, per-worker chunk and error count, done messages. Operations:
claim, read, collate, send, fatal; `try_next`; drop. Hard: interleaving of
workers, back-pressure, failures next to an early end, drop with blocked
workers. Correct when: each sample is delivered at most once, an epoch that ends
without an error is complete up to isolated read failures, it ends, and drop
ends the workers.

**Dataset loaders and episode index** (`pusht.rs`, `so100.rs`): open HDF5
shards, check their schema, cut rows into episodes and episodes into windows,
split by id. Hard: an id per row or per episode, one id recorded twice in a row,
episodes that do not start at timestep zero, data replaced under the path.
Correct when: no window crosses an episode and every window of the split is read.

**Collation, transforms, statistics** (`batch.rs`, `transform/*`, `stats.rs`,
`bin/compute_stats.rs`). State: the batch's buffers; the statistics file with a
hash of the data. Correct when: every value is at the position its index says,
rounding to bf16 is to nearest-even, statistics are of the training split alone
and a file that loads is whole.

**Hub client** (`lewm-hub`). State: none across calls but the Hub's own; within
a call, the file being done, its digest, two retry counters. Operations:
`ensure_repo`, `upload_file`, `upload_folder`, `delete_file`. Hard: lost
answers, retries of what was already done, files rewritten or pruned meanwhile,
the Python script that reads the same folder and commits what it read later, and
requests the client has given up that the Hub acts on afterwards. Correct when: an
`Ok` is true of the Hub, a failed call leaves the files it finished published, and
calls return.

**Cost ledger** (`cost_ledger.rs`, `src/python/cost_ledger.py`): one markdown
table, read, extended and rewritten in place by two programs; hard cap. Hard:
lost updates, a write that ends inside the longer one of another process, a writer
that dies in its rewrite, backfill racing a job's own row. Correct when: the rows
add up wherever the lines of two writes do not stand in one file, are lost only
when writers collide, and every job that has ended is billed in the end.

**PushT evaluation** (`pusht_eval.rs`, `pusht_runner.py`, `bin/lewm-eval.rs`).
State: episode and step, collected rows and outcomes, request ids, two pipes,
the simulator's episode and step. Hard: foreign output on the pipe, answers left
over by a failed run, a simulator that dies or hangs, all limits at once.
Correct when: each row is what the simulator did for that step, a report holds
each episode once and each step once, and the run returns.

**SO-100 evaluation and reports** (`so100_eval.rs`, `reports.rs`). State: a
cursor into recorded predictions, the latent history, the rollouts; three output
files written in place. Hard: a cursor left from the episode before, ties in the
ranks, a directory with files of an earlier run. Correct when: an episode is
scored by its own predictions, ranks are averages, and traces never lie beside
older results.

**CEM planners** (`lewm-plan/src/cem.rs`, `lewm-infer/src/plan.rs`). State: the
proposal and the candidates of an iteration. Hard: chunks that do not divide the
candidates, ties, infinite costs, elites that are all alike. Correct when: a cost
is that of its candidate and the plan is the cheapest.

**Telemetry** (`facade.rs`, `tracker.rs`, `tensorboard.rs`, `system.rs`,
`collapse.rs`): a fan-out over two buffered writers, two emission deadlines, a
detector of consecutive trips. Hard: one sink failing, a crash with a full
buffer, a restart in the same second, an artifact that cannot be written.

**Inference** (`lewm-infer`). State: the graphs and sidecars in a directory, a
loaded runner, a server with its backlog. Hard: an export that stops halfway
over an older one, NaN in a comparison, clients that send half a request or
nothing, or close before they are answered. Correct when: a sidecar vouches for its graphs, the newest checkpoint
is loaded, a verdict says what the compared values do, and clients are answered
unless one of them closes or resets before its answer is complete.

**Model** (`lewm-core`): encoder, embedder, predictor, projections, loss, and
their running statistics. Correct when: predictions are causal, an answer
depends on its own inputs only, training sees no target.

**Reference conversion** (`src/python`, `lewm-core/src/{import,export}.rs`,
`lewm-reference-record`). State: the weights, their mirror, the Burn record and
the metadata. Hard: names and layouts mapped by rules, commands that die between
files, weights replaced between hash and load. Correct when: verified files are
of one conversion and the model computes what the reference does.

Not modelled: the outer trainer state machine (`trainer.rs:424-545`; a fixed
chain of nine states only its tests drive), model cards (rendering), logs, spans
and OTLP (set-up of third-party exporters), job scripts (sequential glue whose
effects, restarts and uploads, are in `TrainRun` and `HubUpload`).

How they interact: `lewm-train train` is one process that loads a configuration,
opens a dataset, writes the run directory and exits; a job scheduler restarts it
with `--resume-if-present` on the same directory, and the job script then
publishes the directory with the Python script and appends to the ledger. The
Hub client, the prefetcher and the telemetry are libraries with no caller in the
training binary of this build. `lewm-eval` owns one evaluator, which owns one
simulator process. An exported directory is read by `lewm-infer`, which shares
only files with the exporter.

## State and actions, module by module

**AtomicFile.** `tmp` and `path` are what a reader finds, `disk` what the device
holds, `tmpSynced`/`pathSynced` whether the bytes of each reached it; versions
are numbered in the order the calls start and `Torn` is below all of them. One
action per statement of `write_atomic_bytes`; `Interrupt` is a kill or an error
at any of them, `PowerFailure` takes the directory entry the device has, or the
last rename if it got there, with torn bytes unless they were synced. The file
system under it is an external definition: POSIX rename is atomic, `fsync` of
file and directory are durable.

**TrainRun.** `files[e][n]` is the file of extension `e` for step `n`. Its bytes
are abstracted to the model they describe: run id, step and the set of
`--max-steps` it was trained under, which determine it because configuration and
seed are checked on resume. `pc` is the next file-system effect of the job, so
`Interrupt` falls between any two of them; the three `fs::write` files may be
cut short. `Accepts` is the whole chain `detect_resume`, `read_train_losses`,
`restore_*_full_lewm_start`. `StartSmoke` is the smoke command in the same
directory. `GuardRejects` is the abort on the first non-finite step.

**TrainingConfig.** A TOML value is a function from the paths of its leaves to
their values, so that a table is the set of leaves under it. `MergeValues`
replaces a table whose `kind` changes; `Layered` applies the environment and
then the options; `Decodes`, `RangesOk`, `ShapeOk` and `CrossFieldsOk` are the
strict decoding and the validation in their order. `Load`, `Train` (the
trainer's own checks, then the first sample) and `LoadPrinted` (the printed
configuration given to the next job) are the steps of a job. Of each section the
fields are kept that a check between fields or a trainer reads, and one or two
more.

**Training.** A model is the history that determines it: where its weights came
from and the updates since. `run` is the job's model and state, `saved` the
newest checkpoint, `source` the version of the warm-start file. `ApplyStep`
takes one step of a loop with its batch, rate, clipping and counters;
`RejectStep` is the guard, which ends every loop at once; `Resume` takes what
`restore_*_full_lewm_start` takes. A warm start reads the source twice, once for
the weights and once for the digest, and `ReplaceSource` may fall in between. A
cosine is represented by its progress, a norm that overflows by `Overflow`.

**BoundedCore.** Parameters and features are integers; the two scales of the code
are kept as exact factors. `TrainOnSample` computes loss and gradients of one
sample as the code does, term by term, and `GradientIsTheDerivative` compares
each component with a difference quotient that is exact for polynomials of
degree four.

**SavedState.** What `TrainRun` and `Training` hand over as a whole, byte by byte.
The random streams travel as base64 texts in the sidecar, the parameters as
numbers of the JSON record and as bytes of the mirror, the counters as metrics
that a `u32` limits, and a warm start moves parameters by name between two
layouts. `EncodeRng`, `SerializeParameters` and `CheckpointMetrics` are the
conversions as the code does them; `EditText`, `EditMirror` and `EditMetric`
change a saved file, and `ResumeJob` takes all of it or refuses. A parameter
counts units of `f64` precision, and an `f32` holds the multiples of `Ulps` of
them; the JSON reader is external and gives the nearest `f64` or a neighbour of
it (`serde_json` without `float_roundtrip` promises no more). A generator
repeats itself after `WordPeriod` words, and `set_word_pos` takes a position round
that period: a file may name one state by several positions, of which `Canonical`
has one.

**TensorOps.** Positions and weights of the bicubic interpolation are fractions
with a common denominator, so that every sum is exact: `ResampleLine` is the sum
along one direction, `InterpolatePatch` that of the lines. `Interpolate` and
`BuildCausalMask` are the two calls, the second with its cache by length and
device.

**Forward, ModelFlow, ParameterMap.** `Forward` is the network, parameterised by
what a tensor operation yields (`Apply`) and what a parameter is (`Parameter`).
`ModelFlow` instantiates it with sets: a value is what it was computed of, for
the initial weights and for weights that took a step, with batch statistics kept
apart; its actions are the training steps, the save, the load and the calls
`encode`, `predict`, `rollout` and `cost`. `ParameterMap` instantiates it with
terms down to the single weight, and has beside it the PyTorch network of the
Python tools, the rules between the two name spaces and their inverse.

**Conversion.** A file is known by whose tensors it holds. One action per step of
`convert_reference.py` that reads or writes a file, with `Die` between any two
and `ReplaceReference` at any time; `VerifyConversion`, `LoadJepa` and
`ExportGraphs` read what is there. What they decide by looking into the tensors
is a constant predicate of `Conversion`, which `ConvertedModel` defines from
`ParameterMap`.

**Dataset.** A shard is what its HDF5 file says: lengths and types of the columns,
episode ids, timesteps, one action per row. `Open` validates and indexes;
`NextBatch` collates any two windows, where the value at a position of a buffer
is the place it came from; `HashData` to `SaveStats` are `compute_stats`, with
`Replace` and `StatsCrash` between any two of its steps. `RoundToBf16` works on
bit patterns in their width.

**Prefetcher.** A sample is its position in the shuffled list. `pc[w]` follows
`run_worker`: check, claim, index, get, collate, send, fatal, exit. The channel
is a sequence of batches, `Fatal` the empty one. The owner's drop is four steps
in field order: receiver, flag, joins, timeout. `failed`, `delivered` and
`fatalSeen` are history the properties speak about.

**Planning.** Latents and actions are integers; a prediction that is not one
stands for a NaN or an infinity, which the rollout refuses. `Sorting` defines the
sorted order by what is before each element, as `total_cmp` and the index say.
`CemIterate` and `CpuIterate` are one iteration of the two planners, which differ
in what they refuse, in chunking and in infinite costs; a Gaussian sample may be any action. A square root is
avoided by keeping variances as fractions. The evaluation is one action per
episode begin, step, episode end and file write; each file is emptied and then
filled, and `DieEvaluating` and `RenderReport` may fall anywhere.

**PushtEval.** `stdin` and `stdout` are the pipes. An answer carries the request
id and an observation, which is abstracted to the episode and step the simulator
is at and its two flags. `Chatter` prints lines that are not JSON or are JSON
without an id; `Die` may leave half a line; `Serve` may refuse a request before
or after its effect. `run` may be called again after an error without draining
anything.

**Inference.** A file is the export it is of and the weights it holds; each is
opened, which empties it, and then filled. `LoadGraphs` and `LoadPredictor` read
the two graphs one after the other while exports may go on. Compared values are
small integers, NaN and infinity, with the comparisons of floating point. The
server accepts, reads once, answers and closes, each in a step of its own; a client
may be silent, send half a request, close its sending side, close its socket
(`HangUp`) or reset, at any time until it is answered. `WriteResponse` stands for
the several sends of an answer: to a client that has closed they all go out, or the
first draws a reset and a later one fails, which `EndServer` (the `?` in
`run_serve`) turns into the end of the server.

**HubUpload.** A file's contents are its version, which also stands for its
digest. `pc` is the next request or file read of the call; `Act` is what the Hub
does with the request, and each of the failure actions happens before or after
it, or leaves the request in `late`, to be acted on at any later time (`LateAct`).
`listed` remembers which version of each file the call saw first. `Rewrite` and
`Remove` are the training job and retention. The script runs `hf upload`, which
reads the files one by one (`SidecarStart`, `SidecarRead`), holds what it read in
`taken` and publishes it in one commit later (`SidecarCommit`), or fails. The
histories `behind` and `doomed` are the files of which, when the call listed them,
the script or a late request already held a version, or a late request a deletion:
what those put on the Hub afterwards may be older than the listing, and the
properties except exactly that.

**Telemetry, CollapseDetector, CostLedger.** A metric record is its number; a
token in a buffer or file is whole or half, and half a line at the end of a file
spoils the line after it. `Fanout` stops at the first sink that fails. The
detector computes its three measures exactly on small integer embeddings, whose
norm is the sum of absolute values. A ledger writer reads, empties and rewrites
the file in three steps, with others and its own death in between; amounts are
cents, rendered and parsed as text. The write begins at the start of the file and
leaves what another writer has put behind its own last byte (`LeftOver`): whole
rows after some line, and before them perhaps the end of one, which the readers
skip or refuse. `Splices` are the lines a broken write makes with the line it
breaks off in. `mixed` says that lines of two writes are in the file. A backfill
takes the records of any set of jobs (`Records`) and fails as a whole on one that
the service has no end for (`RecordEnd`).

## Runs

A passing run checks few properties, each a conjunction of parts that have names
and comments of their own in the modules.

| Run | Instance | States | Shows |
|---|---|---|---|
| `train_run` | steps 1..4, keep 2, a resumable and a non-resumable mode | 81,751 | `RetentionRestored`, `SuccessIsResumable`, `NewestNeverRegresses`; the directory implements `CheckpointHistory` |
| `train_run_smoke` | steps 1..3, keep 1, one mode, a legacy run, smoke jobs at steps 1 and 3 | 808,606 | the newest sidecar is complete; an accepted checkpoint is of one save; a report stays backed |
| `prefetcher` | 2 workers, 5 samples, batches of 2, capacity 1, error limit 2 | 257,351 | no sample twice, epoch accounted for, silent loss isolated; `NobodyWaitsForever`: the epoch ends, and a drop ends the workers |
| `hub_upload` | 3 files (regular, LFS, empty), 2 versions, 1 retry of each kind, 1 late request, 1 change of a file | 1,005,391 | files done with are published; `Ok` is true; calls return |
| `pusht_eval` | 2 episodes, 3 steps, 2 runs, 2 foreign lines | 232,805 | rows are the simulator's; a report is whole; a run returns |
| `training` | `TrainingMC`: 16 files × 4 environments × 12 option lists; 15 disks; samples and fills of a 2-dimensional model; a network with batch 2; 4 embeddings × 6 grids; a checkpoint of 5 parameters, 2 jobs, 1 edit; 3 targets, 2 seeds, 1 kill | 411,885 | see below |
| `evaluation` | `EvaluationMC`: 4 planner configurations × 4 requests; 11 inputs; 2 exports; 3 clients; 3 conversions; 5 atomic writes | 441,890 | see below |
| `operations` | `OperationsMC`: 5 records, 1 crash, 1 fault; 5 batches; 2 jobs, 1 death | 818,762 | see below |
| `train_run_wedged`, `burn_nonfinite`, `parity_eval_nan`, `converted_gelu` | | | four counterexamples, see Findings |

`training` checks `ConfigIsHonoured` (last layer wins, printed configuration is
the same, accepted configuration trains), `SamplesReachTheBatch` (windows stay in
episodes, every window is read, values keep their places, rounding is nearest),
`StatsAreOfTheTrainingSplit` (evaluation episodes never leak, loaded files are
whole), `BackwardPassIsExact` (gradient is the derivative, every parameter has
its slice and its decay), `JobsMakeOneRun` (replay is exact, counters add up,
the rate rises then falls, only finite and clipped updates), `FlowIsCausal`
(embeddings, predictions, rollouts and candidate costs depend on their own
inputs; targets are unseen and evaluation leaves no trace in the running
statistics), `TensorsAreExact` (interpolation treats the grid alike from all
sides and reaches two patches; a mask hides the later positions, cached or not),
`StateComesBack` (streams, parameters and counters arrive as they were saved or
are refused, parameters move by name) and the action property
`WarmStartHappensOnce`.

`evaluation` checks `PlansAreSound`, `RolloutsAreJudged`, `ExportsAreTold`
(sidecars come last, a mixed pair means an export under way, the newest step is
loaded), `VerdictsAreSound` (evaluation, choice of a strategy, benchmark),
`VerifiedIsOneConversion`, `ConversionKeepsTheModel` (nothing of an
initialisation is left, the converted and the exported model compute what the
reference does), the liveness `ClientsAreAnswered`, and that `AtomicFile`
implements `DurableRegister`.

`operations` checks `RecordsAreKept` (bounded loss, prefix mirroring, shutdown
keeps), `FlushedStays`, `SamplesAreSpaced`, `CollapseIsReported` (one alarm per
collapse, a constant encoder is caught), `LedgerIsConsistent` (adds up unless lines
of two writes are in the file, stays when undisturbed, billed once per writer) and
the liveness `EventuallyBilled`.

Type correctness is proved for the five modules that had a run of their own with
type invariants (`AtomicFile`, `TrainRun`, `Prefetcher`, `HubUpload`,
`PushtEval`) and is not repeated in their runs.

**Why the bounds are enough.** *Run directory:* three steps already give a save
below, at and above an existing one; with keep 2 of four steps a crash between
deletions can leave one and two checkpoints too many; a deeper line repeats
these. `DEFAULT_RETAINED_CHECKPOINTS` is 16 in the code; the proofs hold for any
`Keep`. *Prefetcher:* five samples in batches of two end in a short batch;
capacity 1 makes every send block at some point; two workers is the smallest
race, and the claims are proved for any number. *Hub:* the three files are the
three ways the transport treats a file, one retry tells "at the limit" from
"below it"; one change of one file separates what was listed, hashed, read by the
call and read by the script, and one late request is the one a call leaves to the
next; the proofs hold for any number of either. *PushT:* two episodes and two runs let an answer of one run be read
in the next; three steps separate the first, a middle and the last one.
*Loops:* warm-up 2 with targets 2, 3 and 5 has a target no longer than the
warm-up, just after it, and one resumed from the others; norms are below and
above the clip norm, above the explosion threshold and overflowing. *Data:* the
disks are one for every way a shard is cut or refused; two windows are enough
for two shapes in a batch. *Model:* batch 2 and three positions tell an own
value from another row's, an earlier and a later one; the depth of the predictor
is two because one block with closed gates hides a missing mask. *Planning:*
three candidates in chunks of two end in a short chunk; two elites of three.
*Export:* two exports are the smallest overlap. *Server:* three clients are one that
is served, one that waits behind it and one that comes later. *Writers:* two jobs and
the operator are all three kinds of overlap; a cap of 30 cents admits both rows (9 and
17) and refuses a third beside them, so that a doubled row meets it. Constants beginning with `Max` bound
counters the code leaves unbounded.

Deadlock is checked in every run whose components go on for ever or say with
`Finished` when they are over. It is not in the three composed runs: most of
their parts are processes that end.

**Fairness.** `Prefetcher`: each worker (the blocking pool gives each a thread),
`try_next` (the training loop keeps asking) and the steps of drop once begun are
weakly fair; nothing obliges the owner to drop. `HubUpload`: the client's steps,
answers included, are weakly fair: a request ends, by an answer or a broken
connection. The code sets no timeout, so a server that keeps a connection open
in silence is outside `CallsReturn`. `PushtEval`: `RunReturns` assumes the
evaluator runs and the simulator serves what it read. `Inference`: the server's
steps are weakly fair because it is one loop; that every client sends or closes
in the end (`WF(Send)`) is an assumption about clients, without which one silent
connection blocks the server, whose read has no timeout; nothing is assumed of
closing and resetting. `CostLedger`: the operator imports the record of every job
again and again (`backfill --from`, strongly fair, because an append of another
writer may be in its way for a while) and an import that was begun is finished
(weakly fair). Nothing is assumed of the jobs. One import per job is what the
property needs: a backfill that lists several is refused while one of them runs.

## Proofs

All theorems hold for every value of the constants under the named assumptions
of their modules (`MaxWritesAssumption`, `MaxStepAssumption`, `KeepAssumption`, `KindsAssumption`,
`SmokeStepsAssumption`, `PrefetchAssumption`, `HubAssumption`, `EvalAssumption`,
`TrainingAssumption`, `DataAssumption`, `ConfigAssumption`, `TensorAssumption`,
`SavedStateAssumption`, `TelemetryAssumption`, `DetectorAssumption`, `LedgerAssumption`,
`InferenceAssumption`, `PlanningAssumption`, `ConversionAssumption`): counts are
positive, names distinct, shards have the columns their type says, files and
options of a configuration name fields by paths. `SavedStateAssumption` says in
addition that a seed and a position fill whole groups of three bytes (48 in the
code), that the bytes of a position can count a period, that the source of a warm
start has the parameters to be taken, and that parameters are finite as `f32`,
also after one reading per job: a resume refuses parameters that are not finite
(`trainer.rs:2218`, `trainer.rs:2301`), and an `f64` beyond the range of `f32` is
not modelled.
Each proof has the same shape: an inductive invariant, one lemma per
action or conjunct, and temporal theorems that only combine them.

- `EvaluationProof`, last part, about `AtomicFile`. `IInv` adds `Staged`: at each statement, which version the
  temporary file, the path and the device hold; without it a rename could
  install bytes of an earlier call. From it: `ReadersNeverSeeTornFile`,
  `AcknowledgedBytesSurvive`, and the refinement `FileImplementsRegister`.
- `TrainRunProof`. `IInv` adds what the job in memory will save
  (`ModelOfJob`), which files already hold it (`SavedSoFar`), that a complete
  checkpoint is on top of all sidecars and no victim of a prune
  (`TopIsComplete`), that no training sidecar exists before `run_id.txt`
  (`RunIdFirst`) and that a training record and sidecar of one step come from one
  save (`OneGeneration`). The last needs `RunIdFirst`: a fresh job never saves
  over a training sidecar. From it: `NewestIsComplete`, `ResumeIsOfOneSave`,
  `ProgressIsKept`, `ReportsStayTrue`, `TypeCorrect`.
- `PrefetcherProof`. `IInv` says a worker reads its chunk left to right behind
  the cursor (`ChunksInOrder`), that what workers hold, what is queued and what
  was delivered are disjoint (`Disjoint`), and that until an error or the drop
  every position behind the cursor is somewhere (`AllAccounted`). From it:
  `EachSampleOnce`, `EpochIsComplete`, `TypeCorrect`.
- `HubUploadProof`. `IInv` says which call each request belongs to, that what
  is hashed or read is no older than what was listed (`NoneOlderThanListed`), and
  that what the script holds and what is acted on late is no older either, but for
  what they held when the call listed its files (`NoneBehindTheCall`). Without the
  last part a commit of the script would not be known to keep a file published. From it:
  `NothingLeftBehind`, the action property `OkIsNeverALie`, `TypeCorrect`.
- `PushtEvalProof`. `IInv` says ids are used up in order, and that the request
  waited for is either last in the pipe with no answer yet (a step alone in it)
  or served, in which case an answer with its id shows the simulator where the
  run is. From it: `RowsAreReal`, `TypeCorrect`.
- `TrainRunProof`, second part. `RetentionIsRestored` needs only `RetentionInv`:
  while a prune is under way, the complete checkpoints it has not marked are at
  most `Keep`, and nothing else can make one complete meanwhile.
  `SuccessesResume` rests on `ResumeInv`, which says that in a directory of one
  build without smoke jobs (`OneBuild`) all files are of training runs
  (`FilesOfTraining`), a job only ever saves above what is there (`JobGoesOn`) and
  what it has saved so far is what it would load (`JobSaved`). Without `OneBuild`
  it is false: see the disagreements on legacy runs below.
- `PrefetcherProof`, second part. `LossIsIsolated` rests on `LossInv`: a worker has
  its chunk to itself, and its error count is at least the number of failures
  directly behind where it reads (`ChunkReader`), which needs that chunks begin
  at multiples of the batch size.
- `PushtEvalProof`, second part. `ReportsAreWhole` rests on `Progress`: at each
  control point the outcomes are of the episodes before the current one and the
  rows of an earlier episode are whole (`EpisodeWhole`).
- `TrainRunProof`, third part. `DirectoryImplementsHistory`, again for `OneBuild`: the
  directory refines `CheckpointHistory`. `HistoryInv` adds that the totals of a
  checkpoint end at its step and contain those of every older one (`OneLine`),
  that the job in memory continues the newest one (`JobContinues`), and that a
  prune takes the old end with `Keep` checkpoints above each victim
  (`OldEndGoes`). The step that writes a sidecar is `Save`, the first file a prune
  removes of a complete checkpoint is `Discard`, every other step is a stutter.
- `TrainingProof`. `Sound(c)` says a run `c` is the one an uninterrupted job
  would have made: its n-th update has the n-th batch of its seed's stream, the
  n-th optimizer step and the rate of its own target at n, and its counters are
  sums over its updates. `IInv` is that the run in memory and the one on disk are
  sound, that the job's streams are the run's (`JobOfRun`), and that they have one origin
  (`OneOrigin`). From it `JobsAddUp` and the action property `WarmStartIsFinal`.
- `TrainingProof`, second part: `StatsStayOfTheTrainingSplit`, about `Dataset`. The
  state invariant (`StatsInv`) is short: between the phases of `compute_stats` the
  measured sums are those of the data it read, and what it hashed is what it read
  unless the data was replaced. The argument is in the data: every rank has its
  start (`RanksHaveStarts`, an injection of a finite set into as many ranks),
  episodes are disjoint (`EpisodesAreDisjoint`), so a row of a training window
  lies in no evaluation episode (`TrainingRows`) and masking those changes no
  action that is read (`ActionsOfData`); and the sum of squares times the count
  is at least the square of the sum (`SumOfSquares`), so that no deviation is
  below or equal to zero.
- `OperationsProof`, first part, about `Telemetry`. `MetricInv` pays for every
  loss: the records a reader misses, the half line at the end of the file and
  the flushes that are overdue are at most `FlushRecords` for each crash and one
  for each fault of the device; a sink that is behind is behind by a suffix; what
  a life of the process emitted is in the file or in the buffer it holds. From it
  `RecordsAreNeverLostUnpaid`, `FlushedRecordsStay` and, from the relation between the
  deadlines and what was emitted, `FastMetricsAreSpaced`.
- Second part, about `CollapseDetector`. `trips` is the cardinality of `Streak`,
  the run of collapsed batches the history ends in, errors left out. From it
  `OneAlarmPerCollapse`. `CollapsesAreReported` adds that a constant batch trips,
  for a variance floor above zero: the default is 0.05, and
  `validate_thresholds` admits 0, which only a caller of `with_thresholds` can set.
- Third part, about `CostLedger`. `LedgerInv`: a writer past its truncation that
  nobody wrote past finds the file empty (`FreshFileIsEmpty`), so that lines of two
  writes meet only where one is stale; where they do not, the file has at most one
  broken line, its last (`WholeButTheLast`), and its rows add up to the cent and stay
  under the cap (`LedgerAddsUp`), as those of every draft do (`DraftsAddUp`); the jobs
  that are owed a row have it in the file or in the draft that is replacing it, or
  writers have collided or are about to (`RowsAreHeld`); and until lines of two
  writes have met a job has one row, or two if a backfill added one before its own
  (`Bills`). From it `LedgerStaysConsistent`.
- `EvaluationProof`. `ExportsStayTold` rests on `ExportInv`: the files before the
  one an export is writing are its own and no others are (`Progress`); an encoder
  of an export that ended has a predictor that is no older (`EndedInPairs`); and a
  loader that has read an encoder finds either a predictor as new, or a newer one
  of an export that had not ended (`HalfLoaded`).
- `EvaluationProof`, second part. The operators of `Inference` and `Planning` are
  folds, recursive functions and sorting permutations. Their steps are proved as
  lemmas first: a recursive function on 1..n exists and satisfies its equation, a
  fold is the running value of its step, every index has its place in
  `SortedIndexes` and every place its index (`Sorted`), the pieces of a flattened
  sequence lie one after the other (`FlattenJoins`), a sum lies between as often
  its least and its greatest term.
- Third part, about verdicts. A comparison is made in one step, so `VerdictsStaySound`
  needs no strengthening: the argument is what the maximum that `compare_stage`
  keeps says of the values it went over, what the order of strategies says of the
  one that is left, and where the places of a percentile are.
- Fourth part, about rollouts. `EvalInv` makes what is kept a function of the input:
  the k-th rollout is `RolledOut(input, size, k)` (`RolloutsSoFar`), the one under way
  has as many predictions as the cursor has passed (`RollingOut`), the outcome is
  that of the mean of all (`Decided`). Files are of no run later than the current
  one, and while the second or third is written those before are of it
  (`FilesSoFar`). From it, for any episodes, history size and floor,
  `RolloutsStayJudged`: a rank is an average (`RanksAre`, counting the places of a run
  of equal values), and a sequence is correlated with itself by 100 %
  (`WithItself`), for which its variance must be above zero, as the code checks.
- Fifth part, about the planners. `PlanInv` says what a request that was not refused
  fixes (`Accepted`) and that costs, elites, proposal and plan of an iteration are
  those of its candidates (`Refitted`). Candidates are costed alike in chunks and at
  once (`ChunksCostTheSame`, for every chunk size); the windows of a rollout are
  the places of one sequence of latents (`WindowsOfLatents`), so that the rollout
  ends in the latent of the recurrence (`CostIsOfTheLatent`); and the spread of
  integers is no less than zero (`NoNegativeVariance`). From it `PlansStaySound`,
  for any predictor: nothing is assumed of `NextLatent`.

- `EvaluationProof`, sixth part, about `Conversion`. `ConversionInv` says, for each
  step of the converter and for the metadata it leaves, that weights whose hash was
  not skipped and that nobody replaced meanwhile are the locked ones, and that the
  record is of the mirror (`ConverterHolds`, `MetaHolds`). From it `VerifiedStaysOneConversion`,
  whatever the names, dtypes and shapes in a checkpoint are: what the commands
  find in the tensors is an arbitrary predicate there.
- `TrainingProof`, third part: `SamplesAlwaysReachTheBatch`, about `Dataset`.
  `SamplesInv` keeps what is opened a function of the shards and the batch one of two
  of its windows. The argument is that a window lies between the start of its
  episode and the next (`WindowsStayInEpisodes`), that where the timesteps count up
  a start is where the id changes or the timestep is zero (`CountsUp`), that
  windows of equal shape fill the batch row by row (`BatchKeepsPlaces`), and that
  adding half of the last kept bit and truncating is rounding to nearest-even.
- Fourth part: `ConfigStaysHonoured`, about `TrainingConfig`. `ConfigInv` says that a
  loaded configuration is `LoadRoot` of its request. Then, layer by layer, a merge
  keeps what the upper layer does not name and a table whose kind changes is
  replaced (`LastLayerWins`); what `CanonicalToml` prints is a file whose every
  field is named, so that no layer below shows through (`PrintedConfigIsTheSame`).
- Fifth part: `TensorsStayExact`, about `TensorOps`. `TensorInv` says that the cache
  holds what was built for its key. The weights of the four taps sum to the
  denominator, and are those of the mirrored position in reverse; so sums over a
  line turn with the grid, rise by what is added to every value, and two patches
  away nothing is read (`StaysLocal`); on the same grid the taps are one whole and
  three zeros (`ShortCutIsExact`).
- `TrainRunProof`, last part: `StateAlwaysComesBack`, about `SavedState`. `SavedInv`
  says what the files hold of the job that wrote them (`KeptTexts`, `KeptMetrics`, `KeptMirror`), each
  as long as nobody edited it. The conversions are shown to be each other's
  inverse: characters and bytes by their sextets, chunk by chunk and then for
  whole texts, in both directions, so that a text without padding is the text of
  what it decodes to (`CanonicalIsWritten`); little-endian words by their
  quotients; a parameter by the offset its name has in the layout (`PlacesCover`).
  Two mirrors are alike exactly when the parameters round to the same `f32`, one
  by one (`AlikeByParameter`), which is all the resume compares.

Only model-checked:

- All liveness (`NobodyWaitsForever`, `CallsReturn`, `RunReturns`,
  `ClientsAreAnswered`, `EventuallyBilled`), which depends on fairness and
  `ENABLED` and is outside the prover.
- `FlowIsCausal` and `ConversionKeepsTheModel` are about `Forward`, which `ModelFlow`
  and `ParameterMap` instantiate with operators for its constants; this version of
  the prover does not read a module that is parameterised so.
- `BackwardPassIsExact` compares polynomials of degree four in the parameters, the
  features and the step of the difference quotient, summed over a network:
  non-linear arithmetic that neither prover decides.

## Findings

Each is a run that TLC refutes, and quotes what it contradicts.

1. `train_run_wedged`: `run_id.txt` is written at the start, the first
   checkpoint at `--max-steps`. A job killed in between leaves a directory that
   every `--resume-if-present` job refuses with `MissingCheckpoint`
   (`trainer.rs:1310`; RFC 0005 line 421, `checkpoints.md:84`).
2. `burn_nonfinite`: the Burn loop tests the loss only; a gradient that
   overflows under a finite loss is applied, and the model it leaves is saved
   (`trainer.rs:2618`; RFC 0005 line 200).
3. `parity_eval_nan`: `if diff > linf` is false for a NaN, so a stage whose
   output is NaN everywhere passes with difference 0 (`eval.rs:266`; the comments
   at `eval.rs:49` and `eval.rs:63`).
4. `converted_gelu`: a converted checkpoint is loaded with the default
   configuration, whose GELU is the tanh approximation, while the reference has
   the exact one: same weights, another function (`lewm-core/src/config.rs:111`,
   `import.rs:239`; `src/docs/src/parity/gotchas.md:50` and
   `src/docs/src/architecture/encoder.md:28`).

Disagreements met while modelling that have no run of their own.

*Checkpoints and resume.* A job killed after its checkpoint is complete but
before `train_losses.jsonl` is rewritten leaves a complete checkpoint that no job
resumes (`trainer.rs:1529`; `state-machine.md:64`). A legacy run resumed and
saved once is refused by the next resume, because the save carries the new run id
and `run_id.txt` the old one (`trainer.rs:3456`; `pusht_full.rs:21`).
`checkpoints.md:77` says resume picks the highest *consistent* step; the code
picks the highest sidecar and fails if the rest disagrees (`resume.rs:430`;
`NewestSidecarComplete` says it is at least a complete checkpoint). After a crash
inside a prune a sidecar may exist without its record (`checkpoint.rs:557`; RFC
0005 line 363). A save of a step below the retained ones prunes its own output
(`checkpoint.rs:426`). A resumed run rebuilds its schedule for its own target
(`trainer.rs:2431`; RFC 0005 line 263). The SIGTERM checkpoint of RFC 0005 lines
423-428 is a function nothing installs (`resume.rs:408`). 16 checkpoints are
retained where RFC 0005 line 365 says three.

*Loops.* The three strikes of RFC0005-006 do not occur: every loop aborts at the
guard's first skip (`trainer.rs:2478`; RFC 0005 line 200). A run whose gradient
norm overflowed ends successfully, and its checkpoint is then refused by resume.
The Burn loop clips nothing and records gradient norms of zero. `--seed` (RFC
0005 line 103): the preamble prints 0 when it is absent, whatever the
configuration says; the Burn loop draws from the configuration's seed and records
the request's. The SO-100 run writes `run_id.txt` before it reads its warm-start
source, so that a refused source also wedges the directory. The configuration
accepts a `raw_action_dim` other than 2, which fails at the first PushT sample.
The bounded loop takes the last action from an index clamped to the last frame.
`lewm-train parity`, `eval` and `convert` return success having done nothing.

*Data.* `Iterator::next` of the prefetcher turns a fatal error into `None` and
may return batches afterwards (`prefetch.rs:249`; RFC 0004 line 514). With two or
more workers batches arrive out of the shuffle's order (`prefetch.rs:329`;
`data.md:163-165`). Consecutive read errors are counted per worker, not per shard
(RFC 0004 line 559).

*Model and conversion.* `gotchas.md:25-33` gives LayerNorm's epsilon as 1e-12
everywhere; the code has 1e-6 without and 1e-5 with affine parameters.
`num_batches_tracked` is never incremented, and the running variance is updated
with the biased batch variance. The SIGReg dump uses all frames, the criterion
the targets only. The parameter rules hard-code twelve and six layers. The
verification's comparison ignores differences that are NaN. The Burn runner
encodes 3x224x224 images only, whatever the model's size.

*Inference and evaluation.* A request to the simulator has no timeout
(`pusht_eval.rs:762`; RFC 0006 line 466 says 30 s). The order of preference in
the comment at `runner/loader.rs:26-31` is not the code's; `--backend tract-nnef`
loads ONNX when both are present. `percentile` says nearest rank and takes
`floor((n-1)p/100)`. The ONNX contract checks names, not shapes, and is for
opset 18 where the Python export for tract is opset 17.

*Hub and telemetry.* Digests are read from LFS records only, which the live
transport never uploads, so every upload commits every file again
(`client.rs:466`, `client.rs:640`). One LFS file in a folder makes every
`upload_folder` of it fail there. A call that returned `Ok` may be undone by a
script that had read the files before (`upload_checkpoints.py:103`; `behind` in
`PassedIsPublished`). `MetricFanout` stops at the first sink that
fails although it "mirrors every record" (`facade.rs:171`).

*Ledger.* Two writers that have both emptied the file may leave rows of both: with
drafts `[b]` and `[a, b]` the shorter, written last, leaves `b, b`, whose second
cumulative is that of `a + b`. Every later append and backfill refuses the file with
`CumulativeMismatch` (`cost_ledger.rs:315`, `src/python/cost_ledger.py:97`), no tool repairs it,
and with costs that happen to fit the doubled row is even accepted; `mixed` in
`LedgerAddsUp`, `overlaid` in `BilledOncePerWriter` and the exemptions of
`EventuallyBilled` are these files. RFC 0010 has the ledger updated "at every job
termination" (`src/specs/rfcs/0010-huggingface-hub-integration.md:195`). One listed
job that still runs makes a whole `backfill --since` fail
(`src/python/cost_ledger.py:183`).

*Server.* A client that closes its socket before its answer is complete can end the
server for everybody (`lewm-infer.rs:452`, `lewm-infer.rs:566`).

## Not modelled

- *Outer state machine, model cards, logs, spans, OTLP, job scripts*: see the end
  of the inventory.
- *Numbers.* Floating point is kept where a property is about it (rounding to
  bf16, NaN and infinity in comparisons and norms, the exactness of a gradient)
  and is an exact or a symbolic value elsewhere. The gradients of the Burn modes
  come from a third-party autodiff and are external.
- *Variants of the network*: the LayerNorm and the absent norm of `NormVariant`,
  dropout, and epsilons in the terms of `ParameterMap`.
- *Training*: the audit and the contract-smoke modes, accumulation over
  microbatches, the mixed-precision table, records that nothing reads back.
- *Data*: HDF5 and its chunk cache, decoding and resampling of images.
- *Conversion*: commands run one at a time. *Export*: one exporter at a time.
- *Digests next to loads*: the digest of a warm-start source and the hash of a data
  set come from another pass over the files than the load. The models have both
  passes, but no property is about the digest when the file was replaced between
  them, for nothing in the code compares it with what was loaded. *A NaN in a batch of pixels* is left out of the
  rounding to bf16.
- *Repetitions the code admits*: fast metrics that are emitted again after a disk
  sample failed, and a collapse whose artifact cannot be written and is not reported
  again, are in the models and excepted in `SamplesAreSpaced` and `CollapseIsReported`.
- *A panic in a data loader* (`prefetch.rs:184`): loaders return their errors.
- *A Hub server that never answers* (`client.rs:184`): see Fairness.
- *The planner inside `PushtEval`* is a step that yields an action or an error;
  `Planning` has the planners.

## Plan

Done, in this order: the run directory with the atomic write under it, the
prefetcher, the Hub client and the PushT evaluation, each with its proofs; then
telemetry, ledger, data, planning, inference, the training loops with their
configuration and backward pass, the model and its conversion; what the bytes of
a checkpoint mean and the tensor operations; and the proofs about telemetry,
collapse alarms, ledger, statistics, export, verdicts, rollouts, planners,
conversion, samples, configuration and tensor operations.

Left:

1. `BoundedCore`: the gradient by the chain rule, one layer at a time, instead of
   by the difference quotient of the whole.
2. `TrainRun` with `HubUpload`: the job script publishing a directory while
   retention prunes it, with the files of `TrainRun` in place of abstract ones.
