------------------------------ MODULE Training ------------------------------
(***************************************************************************)
(* The training loops of lewm-train and what a job hands to the next one   *)
(* (trainer.rs, step.rs, schedule.rs, warmstart.rs, optim.rs): the order   *)
(* of the data, the step guard, clipping, the learning rate, the counters, *)
(* the warm start of an SO-100 run and the resume of a saved one.          *)
(*                                                                         *)
(* A model is the history that determines it: where its weights came from  *)
(* and the updates applied since.  A directory serves one mode and holds   *)
(* at most its newest checkpoint; TrainRun has the files themselves.       *)
(***************************************************************************)
EXTENDS Integers, Sequences, FiniteSets, FiniteSetsExt

CONSTANTS
  Targets,        \* --max-steps
  WarmupSteps,    \* training.warmup_steps
  BatchSize,      \* training.batch_size
  DatasetLen,     \* windows of the data set
  WordBits,       \* width of usize
  Word,           \* Word[seed][k]: the k-th word of the data_shuffle stream
  ConfigSeed,     \* training.seed
  CliSeeds,       \* --seed, where given
  Norms,          \* gradient norms before clipping, Overflow among them
  Overflow,       \* a norm whose squares overflow: the gradients are finite
  ClipNorm,       \* training.grad_clip_norm
  ExplosionNorm,  \* GRAD_EXPLOSION_THRESHOLD
  MaxSources,     \* bound on the replacements of the warm-start source
  MaxKills        \* bound on the jobs killed

ASSUME TrainingAssumption ==
  /\ Targets \subseteq Nat \ {0} /\ {WarmupSteps, MaxSources, MaxKills} \subseteq Nat
  /\ {BatchSize, DatasetLen, WordBits} \subseteq Nat \ {0}
  /\ ConfigSeed \in DOMAIN Word /\ CliSeeds \subseteq DOMAIN Word
  /\ Norms \subseteq Nat /\ ClipNorm \in Nat

Seeds == {ConfigSeed} \union CliSeeds
Modes == {"bounded", "so100", "burn", "smoke"}

VARIABLES
  mode,      \* the training mode of this directory
  pc,        \* "idle", "warmstart" (the source is read and not yet hashed), "train"
  job,       \* target, seed as recorded, streams' seed
  run,       \* the job's model and state
  saved,     \* the newest checkpoint, NoRun when there is none
  source,    \* version of the warm-start source file
  exit, kills
trainingVars == <<mode, pc, job, run, saved, source, exit, kills>>

-----------------------------------------------------------------------------
(* The schedule.  A rate is a fraction of the warm-up, the peak, a point of  *)
(* the cosine (which falls as its progress rises) or the minimum.            *)

Rate(phase, num, den) == [phase |-> phase, num |-> num, den |-> den]
MinRate == Rate("min", 0, 1)
PeakRate == Rate("peak", 1, 1)

LearningRate(warmup, total, step) ==
  IF total = 0 \/ step >= total THEN MinRate
  ELSE IF step = warmup THEN PeakRate
  ELSE IF warmup > 0 /\ step < warmup THEN Rate("warmup", step, warmup)
  ELSE Rate("cosine", step - warmup, Max({total - warmup, 1}))

\* A run no longer than its warm-up does not fall to the minimum at its last step.
TotalSteps(target) == Max({target, WarmupSteps + 1})

ScheduledRate(target, step) ==
  IF mode = "smoke" THEN LearningRate(0, target, step)
  ELSE LearningRate(WarmupSteps, TotalSteps(target), step)

\* a is no higher than b; asked of two steps on one side of the peak.
NoHigher(a, b) ==
  \/ a.phase = "min" \/ b.phase = "peak"
  \/ a.phase = "warmup" /\ b.phase = "warmup" /\ a.num * b.den <= b.num * a.den
  \/ a.phase = "cosine" /\ b.phase = "cosine" /\ a.num * b.den >= b.num * a.den

-----------------------------------------------------------------------------
(* One step. *)

\* training_sample_index of the k-th sample of a step; `used` words of the
\* stream were drawn before.
SampleIndex(seed, used, step, k) ==
  LET sequential == (step - 1) * BatchSize + k
      sum == sequential + Word[seed][used + k + 1]
  IN  (sum % (2 ^ WordBits)) % DatasetLen

BatchOf(seed, used, step) ==
  [k \in 1..BatchSize |-> SampleIndex(seed, used, step, k - 1)]

\* clip_global_norm leaves a norm that is not finite as it is.
Clipped(norm) == IF norm # Overflow /\ norm > ClipNorm THEN ClipNorm ELSE norm

Explodes(norm) == norm = Overflow \/ norm > ExplosionNorm

\* NanGuard::observe: a loss or a gradient that is not finite.  The loops end
\* at the first; its count of three is reached by no program.
GuardApplies(lossFinite, gradsFinite) == lossFinite /\ gradsFinite

Guarded == mode # "burn"

-----------------------------------------------------------------------------
(* Where the weights come from. *)

TransferModules == {"encoder", "predictor", "projector", "pred_proj"}
AllModules == TransferModules \union {"action_encoder"}
FreshWeights(seed) == [m \in AllModules |-> [from |-> "init", at |-> seed]]

\* load_warmstart: the four modules of the source, the action encoder as initialised
Transferred(seed, version) ==
  [m \in AllModules |->
     IF m \in TransferModules THEN [from |-> "source", at |-> version]
     ELSE FreshWeights(seed)[m]]

NoRun == [step |-> 0, seed |-> 0, weights |-> << >>, updates |-> << >>, adam |-> 0,
          words |-> 0, samples |-> 0, explosions |-> 0, finite |-> TRUE]

FreshRun(seed, streams) ==
  [NoRun EXCEPT !.seed = seed, !.weights = FreshWeights(streams)]

\* What restore_*_full_lewm_start takes from the record, the sidecar and its
\* random streams.  Streams begun anew are a deviation.
RestoredStreamsFresh(c) == [c EXCEPT !.words = 0]
Restored(c) == c

\* The record carries the warm start of the first job; a resumed one reads no source.
ResumedWeightsReread(c) == Transferred(c.seed, source)
ResumedWeights(c) == c.weights

-----------------------------------------------------------------------------
TrainingInit ==
  /\ mode \in Modes
  /\ pc = "idle"
  /\ job = [target |-> 0, streams |-> ConfigSeed, failed |-> FALSE]
  /\ run = NoRun /\ saved = NoRun
  /\ source = 0
  /\ exit = "none" /\ kills = 0

\* main: --seed, or the configured seed; the smoke command's default is 0 and
\* it draws no random number.  The full-model mode initialises and draws from
\* the configured seed whatever --seed says.
StreamsSeed(seed) == IF mode = "burn" THEN ConfigSeed ELSE seed

\* An empty directory.
StartFresh(target, seed) ==
  /\ pc = "idle" /\ saved = NoRun
  /\ job' = [target |-> target, streams |-> StreamsSeed(seed), failed |-> FALSE]
  /\ run' = FreshRun(seed, StreamsSeed(seed))
  /\ pc' = "train"
  /\ exit' = "none"
  /\ UNCHANGED <<mode, saved, source, kills>>

\* An SO-100 job with training.warmstart_from reads the source and checks it ...
StartWarm(target, seed) ==
  /\ mode = "so100" /\ pc = "idle" /\ saved = NoRun
  /\ job' = [target |-> target, streams |-> seed, failed |-> FALSE]
  /\ run' = [FreshRun(seed, seed) EXCEPT !.weights = Transferred(seed, source)]
  /\ pc' = "warmstart"
  /\ exit' = "none"
  /\ UNCHANGED <<mode, saved, source, kills>>

\* ... or refuses its record: kind, schema, parameter count, not finite.
RefuseSource ==
  /\ pc = "warmstart"
  /\ pc' = "idle" /\ exit' = "error"
  /\ run' = NoRun
  /\ UNCHANGED <<mode, job, saved, source, kills>>

\* load_warmstart opens the file once more for its digest.
HashSource ==
  /\ pc = "warmstart"
  /\ pc' = "train"
  /\ UNCHANGED <<mode, job, run, saved, source, exit, kills>>

ReplaceSource ==
  /\ mode = "so100" /\ source < MaxSources
  /\ source' = source + 1
  /\ UNCHANGED <<mode, pc, job, run, saved, exit, kills>>

\* validate_*_full_lewm_record refuses moments that are not finite: the square
\* of an overflowing gradient stays in the second one.
MomentsFinite(c) == \A n \in DOMAIN c.updates : c.updates[n].pre # Overflow

\* --resume-if-present.  A target already reached writes its report and ends.
Resume(target, seed) ==
  /\ mode \in {"bounded", "so100"} /\ pc = "idle"
  /\ saved # NoRun /\ saved.seed = seed /\ saved.step <= target /\ MomentsFinite(saved)
  /\ run' = [Restored(saved) EXCEPT !.weights = ResumedWeights(saved)]
  /\ job' = [target |-> target, streams |-> seed, failed |-> FALSE]
  /\ pc' = IF saved.step = target THEN "idle" ELSE "train"
  /\ exit' = IF saved.step = target THEN "ok" ELSE "none"
  /\ UNCHANGED <<mode, saved, source, kills>>

\* Another seed, a target below the checkpoint, a record that is not finite, or
\* the full-model mode.
RefuseResume(target, seed) ==
  /\ mode # "smoke" /\ pc = "idle" /\ saved # NoRun
  /\ mode = "burn" \/ saved.seed # seed \/ saved.step > target \/ ~MomentsFinite(saved)
  /\ exit # "error" /\ exit' = "error"
  /\ UNCHANGED <<mode, pc, job, run, saved, source, kills>>

Update(lossFinite, gradsFinite, norm) ==
  [batch |-> IF mode = "smoke" THEN << >> ELSE BatchOf(job.streams, run.words, run.step + 1),
   rate |-> ScheduledRate(job.target, run.step + 1),
   target |-> job.target,
   adam |-> run.adam + 1,
   finite |-> lossFinite /\ gradsFinite,
   pre |-> IF Guarded THEN norm ELSE 0,
   post |-> IF Guarded THEN Clipped(norm) ELSE 0]

\* The full-model loop looks at the loss alone, and neither clips nor counts.
Applies(lossFinite, gradsFinite) ==
  IF Guarded THEN GuardApplies(lossFinite, gradsFinite) ELSE lossFinite

ApplyStep(lossFinite, gradsFinite, norm) ==
  /\ pc = "train" /\ run.step < job.target
  /\ lossFinite => run.finite
  /\ Applies(lossFinite, gradsFinite)
  /\ run' = [run EXCEPT
       !.step = @ + 1,
       !.updates = Append(@, Update(lossFinite, gradsFinite, norm)),
       !.adam = @ + 1,
       !.finite = gradsFinite,
       !.words = @ + (IF mode = "smoke" THEN 0 ELSE BatchSize),
       !.samples = @ + (IF mode = "smoke" THEN 0 ELSE BatchSize),
       !.explosions = @ + (IF Guarded /\ Explodes(norm) THEN 1 ELSE 0)]
  /\ UNCHANGED <<mode, pc, job, saved, source, exit, kills>>

RejectStep(lossFinite, gradsFinite) ==
  /\ pc = "train" /\ run.step < job.target
  /\ ~Applies(lossFinite, gradsFinite)
  /\ pc' = "idle" /\ exit' = "error"
  /\ run' = NoRun
  /\ UNCHANGED <<mode, job, saved, source, kills>>

\* write_full_lewm_checkpoint, write_pusht_burn_jepa_checkpoint: at the target only
SaveRun ==
  /\ pc = "train" /\ run.step = job.target
  /\ saved' = run
  /\ pc' = "idle" /\ exit' = "ok"
  /\ run' = NoRun
  /\ UNCHANGED <<mode, job, source, kills>>

KillJob ==
  /\ pc # "idle" /\ kills < MaxKills
  /\ kills' = kills + 1
  /\ pc' = "idle" /\ exit' = "killed"
  /\ run' = NoRun
  /\ UNCHANGED <<mode, job, saved, source>>

TrainingNext ==
  \/ \E t \in Targets, s \in Seeds :
       StartFresh(t, s) \/ StartWarm(t, s) \/ Resume(t, s) \/ RefuseResume(t, s)
  \/ RefuseSource \/ HashSource \/ ReplaceSource
  \/ \E l, g \in BOOLEAN : RejectStep(l, g) \/ (\E n \in Norms : ApplyStep(l, g, n))
  \/ SaveRun \/ KillJob

TrainingSpec == TrainingInit /\ [][TrainingNext]_trainingVars

-----------------------------------------------------------------------------
(* Properties.  CountersAddUp also fixes the shape of a checkpoint.          *)

Kept == {c \in {run, saved} : c # NoRun}
Streams(c) == StreamsSeed(c.seed)

\* However a run was cut into jobs and whatever their targets were, its n-th
\* update used the samples, the optimizer step and (while it warms up) the rate
\* of an uninterrupted one: the streams, the optimizer and the counter of steps
\* come back together.  Past the warm-up the rate follows the job's target.
ReplayIsExact ==
  mode # "smoke" =>
    \A c \in Kept : \A n \in DOMAIN c.updates :
      LET u == c.updates[n]
      IN  /\ u.batch = BatchOf(Streams(c), (n - 1) * BatchSize, n)
          /\ u.adam = n
          /\ n < WarmupSteps => u.rate = Rate("warmup", n, WarmupSteps)
          /\ n = WarmupSteps => u.rate = PeakRate

\* Under one target the rate rises to the peak and then falls, also when the
\* target is no longer than the warm-up.
RateRisesThenFalls ==
  \A c \in Kept : \A m, n \in DOMAIN c.updates :
    LET u == c.updates[m] v == c.updates[n] warmup == IF mode = "smoke" THEN 0 ELSE WarmupSteps
    IN  m < n /\ u.target = v.target =>
          /\ n <= warmup => NoHigher(u.rate, v.rate)
          /\ m >= warmup => NoHigher(v.rate, u.rate)

\* A guarded loop applies finite gradients only, and none above the clip norm
\* but those whose norm cannot be computed.
OnlyFiniteUpdates ==
  Guarded => \A c \in Kept : \A n \in DOMAIN c.updates :
    LET u == c.updates[n]
    IN  u.finite /\ (u.post <= ClipNorm \/ u.pre = Overflow)

\* The totals a report prints agree with the updates of all the jobs.
CountersAddUp ==
  \A c \in Kept :
    LET done == Len(c.updates)
        exploded == {n \in 1..done : Guarded /\ Explodes(c.updates[n].pre)}
    IN  /\ c.step = done /\ c.adam = done
        /\ c.samples = (IF mode = "smoke" THEN 0 ELSE BatchSize * done)
        /\ c.explosions = Cardinality(exploded)

\* A warm start takes the four modules from one version of the source, leaves the
\* action encoder as initialised, and happens once: whatever the source becomes,
\* the weights a directory began from do not change.
WarmStartHappensOnce ==
  [][ \A c \in {run', saved'} \ {NoRun} :
        /\ saved # NoRun => c.weights = saved.weights
        /\ Cardinality({c.weights[m] : m \in TransferModules}) = 1
        /\ c.weights["action_encoder"] = FreshWeights(Streams(c))["action_encoder"] ]_trainingVars

\* "If the loss is NaN or Inf, or any gradient leaf contains a NaN/Inf, the step
\* is skipped" (RFC0005-006).  The full-model loop looks at the loss alone.
NonFiniteNeverSaved ==
  \A n \in DOMAIN saved.updates : saved.updates[n].finite

\* The jobs of a directory add up to one run of finite, clipped updates under one
\* schedule, whatever their targets and wherever they were killed.
JobsMakeOneRun == ReplayIsExact /\ CountersAddUp /\ RateRisesThenFalls /\ OnlyFiniteUpdates
=============================================================================
