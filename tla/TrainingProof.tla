---------------------------- MODULE TrainingProof ----------------------------
(***************************************************************************)
(* Proofs about Training, Dataset, TrainingConfig and TensorOps.  Whatever *)
(* their targets and wherever they are killed, the jobs of a directory add *)
(* up to one run, for every batch size, warm-up, data set, set of targets, *)
(* seeds and norms.  Whatever the shards, the statistics are those of the  *)
(* training split, and every row of a window reaches its place in a batch. *)
(* Whatever the layers of a configuration, it is that of the last layer to *)
(* name each field, it prints as itself, and accepted it trains.  Whatever *)
(* the grids, a position embedding is resampled alike in both directions.  *)
(***************************************************************************)
EXTENDS Training, Dataset, TrainingConfig, TensorOps, DataLemmas

Elements(q) == {q[n] : n \in DOMAIN q}

\* Words drawn, and samples used, by n updates.
Drawn(n) == IF mode = "smoke" THEN 0 ELSE BatchSize * n

ExplodedIn(q) == {n \in 1..Len(q) : Guarded /\ Explodes(q[n].pre)}

\* The n-th update of a run of this seed.
SoundUpdate(u, n, seed) ==
  /\ u.target \in Targets /\ u.adam = n
  /\ u.batch = IF mode = "smoke" THEN << >> ELSE BatchOf(StreamsSeed(seed), (n - 1) * BatchSize, n)
  /\ u.rate = ScheduledRate(u.target, n)
  /\ Guarded => u.finite /\ (u.post <= ClipNorm \/ u.pre = Overflow)

WellBegun(weights, seed) ==
  \/ weights = FreshWeights(StreamsSeed(seed))
  \/ \E v \in Nat : weights = Transferred(StreamsSeed(seed), v)

\* A run, in memory or saved, is the sound updates it counts.
Sound(c) ==
  /\ c = [f \in DOMAIN NoRun |-> c[f]]
  /\ c.updates \in Seq(Elements(c.updates)) /\ c.step = Len(c.updates)
  /\ \A n \in 1..c.step : SoundUpdate(c.updates[n], n, c.seed)
  /\ c.adam = c.step /\ c.words = Drawn(c.step) /\ c.samples = Drawn(c.step)
  /\ c.explosions = Cardinality(ExplodedIn(c.updates))
  /\ WellBegun(c.weights, c.seed)

JobOfRun ==
  pc # "idle" => /\ Sound(run)
                 /\ job.target \in Targets
                 /\ job.streams = StreamsSeed(run.seed)

OneOrigin == (saved # NoRun /\ (pc # "idle" \/ run # NoRun)) => run.weights = saved.weights

IInv ==
  /\ source \in Nat
  /\ JobOfRun /\ OneOrigin
  /\ run = NoRun \/ Sound(run)
  /\ saved = NoRun \/ Sound(saved)

-----------------------------------------------------------------------------
(* Sequences and the schedule. *)

LEMMA AppendOne ==
  ASSUME NEW q, NEW u, q \in Seq(Elements(q))
  PROVE  /\ Append(q, u) \in Seq(Elements(Append(q, u)))
         /\ Len(q) \in Nat /\ Len(Append(q, u)) = Len(q) + 1
         /\ Append(q, u)[Len(q) + 1] = u
         /\ \A n \in 1..Len(q) : Append(q, u)[n] = q[n]
<1> DEFINE S == Elements(q) \union {u}
           r == Append(q, u)
<1>1. q \in Seq(S)
  BY DEF Elements
<1>2. /\ r \in Seq(S) /\ Len(q) \in Nat /\ Len(r) = Len(q) + 1
      /\ r[Len(q) + 1] = u /\ \A n \in 1..Len(q) : r[n] = q[n]
  BY <1>1
<1>3. \A n \in 1..Len(r) : r[n] \in Elements(r)
  BY <1>2 DEF Elements
<1>4. r \in Seq(Elements(r))
  BY <1>2, <1>3
<1> QED BY <1>2, <1>4

LEMMA EmptySequence ==
  << >> \in Seq(Elements(<< >>)) /\ Len(<< >>) = 0
OBVIOUS

LEMMA MaxOfTwo ==
  ASSUME NEW a \in Int, NEW b \in Int
  PROVE  Max({a, b}) \in {a, b} /\ Max({a, b}) >= a /\ Max({a, b}) >= b
<1>1. \E x \in {a, b} : \A y \in {a, b} : x >= y
  <2>1. CASE a >= b
    BY <2>1
  <2>2. CASE b >= a
    BY <2>2
  <2> QED BY <2>1, <2>2
<1> QED BY <1>1 DEF Max

LEMMA Totals ==
  ASSUME NEW t \in Targets
  PROVE  /\ t \in Nat \ {0} /\ TotalSteps(t) \in Nat \ {0}
         /\ WarmupSteps < TotalSteps(t) /\ WarmupSteps \in Nat
         /\ \A x \in Int : Max({x, 1}) \in Nat \ {0}
<1>1. t \in Nat \ {0} /\ WarmupSteps \in Nat
  BY TrainingAssumption
<1>2. TotalSteps(t) \in {t, WarmupSteps + 1} /\ TotalSteps(t) >= WarmupSteps + 1
  BY <1>1, MaxOfTwo DEF TotalSteps
<1>3. ASSUME NEW x \in Int PROVE Max({x, 1}) \in Nat \ {0}
  BY MaxOfTwo
<1> QED BY <1>1, <1>2, <1>3

LEMMA Product ==
  ASSUME NEW a \in Int, NEW b \in Int, NEW d \in Nat, a <= b
  PROVE  a * d <= b * d /\ b * d >= a * d
OBVIOUS

\* A rate below the peak rises with the step, one above it falls.
LEMMA RateShape ==
  ASSUME NEW warmup \in Nat, NEW total \in Nat \ {0}, NEW m \in Nat \ {0}, NEW n \in Nat \ {0}, m < n
  PROVE  /\ n <= warmup /\ warmup < total =>
              NoHigher(LearningRate(warmup, total, m), LearningRate(warmup, total, n))
         /\ m >= warmup => NoHigher(LearningRate(warmup, total, n), LearningRate(warmup, total, m))
<1> DEFINE den == Max({total - warmup, 1})
<1>0. den \in Nat
  <2>1. total - warmup \in Int /\ 1 \in Int
    OBVIOUS
  <2>2. den \in {total - warmup, 1} /\ den >= 1
    BY <2>1, MaxOfTwo
  <2> QED BY <2>1, <2>2
<1>1. ASSUME n <= warmup, warmup < total
      PROVE  NoHigher(LearningRate(warmup, total, m), LearningRate(warmup, total, n))
  <2>1. LearningRate(warmup, total, m) = Rate("warmup", m, warmup)
    BY <1>1 DEF LearningRate
  <2>2. CASE n = warmup
    BY <1>1, <2>2 DEF LearningRate, NoHigher, PeakRate, Rate
  <2>3. CASE n < warmup
    <3>1. LearningRate(warmup, total, n) = Rate("warmup", n, warmup)
      BY <1>1, <2>3 DEF LearningRate
    <3>2. m * warmup <= n * warmup
      BY Product
    <3> QED BY <2>1, <3>1, <3>2 DEF NoHigher, Rate
  <2> QED BY <1>1, <2>2, <2>3
<1>2. ASSUME m >= warmup
      PROVE  NoHigher(LearningRate(warmup, total, n), LearningRate(warmup, total, m))
  <2>1. CASE n >= total
    BY <2>1 DEF LearningRate, NoHigher, MinRate, Rate
  <2>2. CASE n < total /\ m = warmup
    BY <2>2 DEF LearningRate, NoHigher, PeakRate, Rate
  <2>3. CASE n < total /\ m > warmup
    <3>1. /\ LearningRate(warmup, total, n) = Rate("cosine", n - warmup, den)
          /\ LearningRate(warmup, total, m) = Rate("cosine", m - warmup, den)
      BY <2>3 DEF LearningRate
    <3>2. (n - warmup) * den >= (m - warmup) * den
      BY <1>0, Product
    <3> QED BY <3>1, <3>2 DEF NoHigher, Rate
  <2> QED BY <1>2, <2>1, <2>2, <2>3
<1> QED BY <1>1, <1>2

LEMMA ScheduleShape ==
  ASSUME NEW t \in Targets, NEW m \in Nat \ {0}, NEW n \in Nat \ {0}, m < n
  PROVE  LET warmup == IF mode = "smoke" THEN 0 ELSE WarmupSteps
         IN  /\ n <= warmup => NoHigher(ScheduledRate(t, m), ScheduledRate(t, n))
             /\ m >= warmup => NoHigher(ScheduledRate(t, n), ScheduledRate(t, m))
<1>1. CASE mode = "smoke"
  BY <1>1, Totals, RateShape DEF ScheduledRate
<1>2. CASE mode # "smoke"
  BY <1>2, Totals, RateShape DEF ScheduledRate
<1> QED BY <1>1, <1>2

LEMMA WarmingRate ==
  ASSUME NEW t \in Targets, NEW n \in Nat \ {0}, mode # "smoke"
  PROVE  /\ n < WarmupSteps => ScheduledRate(t, n) = Rate("warmup", n, WarmupSteps)
         /\ n = WarmupSteps => ScheduledRate(t, n) = PeakRate
BY Totals DEF ScheduledRate, LearningRate

LEMMA ClippingBounds ==
  ASSUME NEW norm \in Norms
  PROVE  Clipped(norm) <= ClipNorm \/ norm = Overflow
BY TrainingAssumption DEF Clipped

-----------------------------------------------------------------------------
(* The invariant. *)

LEMMA DrawnByOne ==
  ASSUME NEW k \in Nat
  PROVE  Drawn(k) + (IF mode = "smoke" THEN 0 ELSE BatchSize) = Drawn(k + 1)
<1>1. BatchSize \in Int /\ BatchSize * k + BatchSize = BatchSize * (k + 1)
  BY TrainingAssumption
<1> QED BY <1>1 DEF Drawn

LEMMA FreshIsSound ==
  ASSUME NEW seed, NEW weights, WellBegun(weights, seed),
         NEW c, c = [NoRun EXCEPT !.seed = seed, !.weights = weights]
  PROVE  Sound(c) /\ c.seed = seed
<1>1. /\ c.step = 0 /\ c.updates = << >> /\ c.adam = 0 /\ c.words = 0 /\ c.samples = 0
      /\ c.explosions = 0 /\ c.seed = seed /\ c.weights = weights
  BY DEF NoRun
<1>2. ExplodedIn(<< >>) = {} /\ Cardinality({}) = 0
  BY FS_EmptySet DEF ExplodedIn
<1>3. Drawn(0) = 0
  BY TrainingAssumption DEF Drawn
<1>7. c = [f \in DOMAIN NoRun |-> c[f]]
  OBVIOUS
<1>4. c.updates \in Seq(Elements(c.updates)) /\ c.step = Len(c.updates)
  BY <1>1, EmptySequence
<1>5. \A n \in 1..c.step : SoundUpdate(c.updates[n], n, c.seed)
  BY <1>1
<1>6. c.explosions = Cardinality(ExplodedIn(c.updates))
  BY <1>1, <1>2
<1> QED BY <1>1, <1>3, <1>4, <1>5, <1>6, <1>7 DEF Sound

LEMMA InitIInv == TrainingInit => IInv
BY DEF TrainingInit, IInv, JobOfRun, OneOrigin

\* One more update keeps a run sound.
LEMMA ApplyIsSound ==
  ASSUME IInv, NEW l \in BOOLEAN, NEW g \in BOOLEAN, NEW norm \in Norms, ApplyStep(l, g, norm)
  PROVE  Sound(run)' /\ run'.seed = run.seed /\ run'.weights = run.weights
<1> DEFINE u == Update(l, g, norm)
           n == run.step + 1
<1>0. /\ pc = "train" /\ mode' = mode /\ Applies(l, g)
      /\ Sound(run) /\ job.target \in Targets /\ job.streams = StreamsSeed(run.seed)
  BY DEF ApplyStep, IInv, JobOfRun
<1>1. /\ run'.step = run.step + 1 /\ run'.updates = Append(run.updates, u)
      /\ run'.adam = run.adam + 1 /\ run'.seed = run.seed /\ run'.weights = run.weights
      /\ run'.words = run.words + (IF mode = "smoke" THEN 0 ELSE BatchSize)
      /\ run'.samples = run.samples + (IF mode = "smoke" THEN 0 ELSE BatchSize)
      /\ run'.explosions = run.explosions + (IF Guarded /\ Explodes(norm) THEN 1 ELSE 0)
  <2>1. DOMAIN run = {"step", "seed", "weights", "updates", "adam", "words", "samples", "explosions", "finite"}
    BY <1>0 DEF Sound, NoRun
  <2> QED BY <1>0, <2>1 DEF ApplyStep, Sound
<1>2. /\ run'.updates \in Seq(Elements(run'.updates)) /\ Len(run'.updates) = n
      /\ run.step \in Nat /\ run.step = Len(run.updates)
      /\ run'.updates[n] = u /\ \A m \in 1..run.step : run'.updates[m] = run.updates[m]
  BY <1>0, <1>1, AppendOne DEF Sound
<1>3. SoundUpdate(u, n, run.seed)
  <2>1. run.adam = run.step /\ run.words = Drawn(run.step) /\ n - 1 = run.step
    BY <1>0, <1>2 DEF Sound
  <2>2. u.target = job.target /\ u.adam = run.adam + 1 /\ u.rate = ScheduledRate(job.target, n)
    BY DEF Update
  <2>3. u.batch = IF mode = "smoke" THEN << >> ELSE BatchOf(job.streams, run.words, n)
    BY DEF Update
  <2>4. mode # "smoke" => run.words = (n - 1) * BatchSize
    BY <1>2, <2>1, TrainingAssumption DEF Drawn
  <2>5. u.batch = IF mode = "smoke" THEN << >> ELSE BatchOf(StreamsSeed(run.seed), (n - 1) * BatchSize, n)
    BY <1>0, <2>3, <2>4
  <2>6. Guarded => u.finite /\ (u.post <= ClipNorm \/ u.pre = Overflow)
    BY <1>0, ClippingBounds DEF Update, Applies, GuardApplies
  <2> QED BY <1>0, <2>1, <2>2, <2>5, <2>6 DEF SoundUpdate
<1>4. \A m \in 1..n : SoundUpdate(run'.updates[m], m, run.seed)
  <2>1. \A m \in 1..run.step : SoundUpdate(run'.updates[m], m, run.seed)
    BY <1>0, <1>2 DEF Sound
  <2>2. \A m \in 1..n : m \in 1..run.step \/ m = n
    BY <1>2
  <2> HIDE DEF n, u
  <2> QED BY <1>2, <1>3, <2>1, <2>2
<1> DEFINE before == ExplodedIn(run.updates)
           after == {m \in 1..n : Guarded /\ Explodes(run'.updates[m].pre)}
<1>5. run'.explosions = Cardinality(after)
  <2>1. IsFiniteSet(before) /\ Cardinality(before) = run.explosions /\ n \notin before
        /\ Cardinality(before) \in Nat
    <3>1. before \in SUBSET (1..run.step)
      BY <1>2 DEF ExplodedIn
    <3>2. IsFiniteSet(before)
      <4>1. run.step \in Int
        BY <1>2
      <4>2. IsFiniteSet(1..run.step)
        BY <4>1, FS_Interval
      <4> QED BY <3>1, <4>2, FS_Subset
    <3>3. n \notin before
      BY <1>2, <3>1
    <3> QED BY <1>0, <3>2, <3>3, FS_CardinalityType DEF Sound
  <2>2. after = IF Guarded /\ Explodes(u.pre) THEN before \union {n} ELSE before
    BY <1>2 DEF ExplodedIn
  <2>3. Guarded => u.pre = norm
    BY DEF Update
  <2>4. IsFiniteSet(before \union {n}) /\ Cardinality(before \union {n}) = Cardinality(before) + 1
    BY <2>1, FS_AddElement
  <2>5. CASE Guarded /\ Explodes(norm)
    <3>1. after = before \union {n} /\ run'.explosions = run.explosions + 1
      BY <1>1, <2>2, <2>3, <2>5
    <3> HIDE DEF before, after, n
    <3> QED BY <2>1, <2>4, <3>1
  <2>6. CASE ~(Guarded /\ Explodes(norm))
    <3>1. after = before /\ run'.explosions = run.explosions + 0
      BY <1>1, <2>2, <2>3, <2>6
    <3> HIDE DEF before, after, n
    <3> QED BY <2>1, <3>1
  <2> QED BY <2>5, <2>6
<1>6. run'.words = Drawn(n) /\ run'.samples = Drawn(n) /\ run'.adam = n
  BY <1>0, <1>1, <1>2, DrawnByOne DEF Sound
<1>7. WellBegun(run'.weights, run.seed)
  BY <1>0, <1>1 DEF Sound
<1> HIDE DEF u, n, before
<1>8. run'.step = n
  BY <1>1 DEF n
<1>9. \A m \in 1..n : SoundUpdate(run.updates[m], m, run.seed)'
  BY <1>0, <1>1, <1>4 DEF SoundUpdate, ScheduledRate, StreamsSeed, Guarded
<1>10. (run.explosions = Cardinality(ExplodedIn(run.updates)))'
  BY <1>0, <1>2, <1>5 DEF ExplodedIn, Guarded, n
<1>11. /\ (run.words = Drawn(run.step))' /\ (run.samples = Drawn(run.step))'
       /\ WellBegun(run.weights, run.seed)'
  BY <1>0, <1>1, <1>6, <1>7, <1>8 DEF Drawn, WellBegun, StreamsSeed
<1>12. run' = [f \in DOMAIN NoRun |-> run'[f]]
  <2>1. DOMAIN run = DOMAIN NoRun
    BY <1>0 DEF Sound
  <2> QED BY <2>1 DEF ApplyStep
<1> QED BY <1>1, <1>2, <1>6, <1>8, <1>9, <1>10, <1>11, <1>12 DEF Sound, Elements

\* What a run is depends on the mode, which no step changes: a run stays sound
\* under whichever name it is kept.
LEMMA SoundUpdateStays ==
  ASSUME mode' = mode, NEW u, NEW n, NEW seed
  PROVE  SoundUpdate(u, n, seed) <=> SoundUpdate(u, n, seed)'
BY DEF SoundUpdate, ScheduledRate, StreamsSeed, Guarded

LEMMA RunStaysSound ==
  ASSUME mode' = mode, NEW c, Sound(c), run' = c
  PROVE  Sound(run)'
<1>1. \A n \in 1..c.step : SoundUpdate(c.updates[n], n, c.seed)'
  BY SoundUpdateStays DEF Sound
<1>2. (\A n \in 1..run.step : SoundUpdate(run.updates[n], n, run.seed))'
  BY <1>1 DEF SoundUpdate, ScheduledRate, StreamsSeed, Guarded
<1>3. (run.explosions = Cardinality(ExplodedIn(run.updates)))'
  BY DEF Sound, ExplodedIn, Guarded
<1>4. (run.words = Drawn(run.step) /\ run.samples = Drawn(run.step))'
  BY DEF Sound, Drawn
<1>5. WellBegun(run.weights, run.seed)'
  BY DEF Sound, WellBegun, StreamsSeed
<1>6. (run.updates \in Seq(Elements(run.updates)))'
  BY DEF Sound, Elements
<1> QED BY <1>2, <1>3, <1>4, <1>5, <1>6 DEF Sound

LEMMA SavedStaysSound ==
  ASSUME mode' = mode, NEW c, Sound(c), saved' = c
  PROVE  Sound(saved)'
<1>1. \A n \in 1..c.step : SoundUpdate(c.updates[n], n, c.seed)'
  BY SoundUpdateStays DEF Sound
<1>2. (\A n \in 1..saved.step : SoundUpdate(saved.updates[n], n, saved.seed))'
  BY <1>1 DEF SoundUpdate, ScheduledRate, StreamsSeed, Guarded
<1>3. (saved.explosions = Cardinality(ExplodedIn(saved.updates)))'
  BY DEF Sound, ExplodedIn, Guarded
<1>4. (saved.words = Drawn(saved.step) /\ saved.samples = Drawn(saved.step))'
  BY DEF Sound, Drawn
<1>5. WellBegun(saved.weights, saved.seed)'
  BY DEF Sound, WellBegun, StreamsSeed
<1>6. (saved.updates \in Seq(Elements(saved.updates)))'
  BY DEF Sound, Elements
<1> QED BY <1>2, <1>3, <1>4, <1>5, <1>6 DEF Sound

LEMMA StaysSound ==
  ASSUME mode' = mode
  PROVE  /\ (run' = run /\ Sound(run)) => Sound(run)'
         /\ (run' = saved /\ Sound(saved)) => Sound(run)'
         /\ (saved' = saved /\ Sound(saved)) => Sound(saved)'
         /\ (saved' = run /\ Sound(run)) => Sound(saved)'
BY RunStaysSound, SavedStaysSound

LEMMA BegunIsSound ==
  ASSUME mode' = mode, NEW seed, NEW weights, WellBegun(weights, seed),
         run' = [NoRun EXCEPT !.seed = seed, !.weights = weights]
  PROVE  Sound(run)' /\ run'.seed = seed
<1>1. PICK c : c = [NoRun EXCEPT !.seed = seed, !.weights = weights]
  OBVIOUS
<1>2. Sound(c) /\ c.seed = seed
  BY <1>1, FreshIsSound
<1> QED BY <1>1, <1>2, RunStaysSound

LEMMA NextIInv == ASSUME IInv, [TrainingNext]_trainingVars PROVE IInv'
<1>1. ASSUME NEW t \in Targets, NEW seed \in Seeds, StartFresh(t, seed) PROVE IInv'
  <2>1. /\ mode' = mode /\ saved' = saved /\ saved = NoRun /\ source' = source
        /\ run' = [NoRun EXCEPT !.seed = seed, !.weights = FreshWeights(StreamsSeed(seed))]
        /\ job'.target = t /\ job'.streams = StreamsSeed(seed)
    BY <1>1 DEF StartFresh, FreshRun
  <2>2. Sound(run)' /\ run'.seed = seed
    BY <2>1, BegunIsSound DEF WellBegun
  <2> QED BY <2>1, <2>2 DEF IInv, JobOfRun, OneOrigin, StreamsSeed
<1>2. ASSUME NEW t \in Targets, NEW seed \in Seeds, StartWarm(t, seed) PROVE IInv'
  <2>1. /\ mode' = mode /\ mode = "so100" /\ saved' = saved /\ saved = NoRun /\ source' = source
        /\ run' = [NoRun EXCEPT !.seed = seed, !.weights = Transferred(seed, source)]
        /\ job'.target = t /\ job'.streams = seed
    BY <1>2 DEF StartWarm, FreshRun, NoRun
  <2>2. StreamsSeed(seed) = seed /\ source \in Nat
    BY <2>1 DEF StreamsSeed, IInv
  <2>3. Sound(run)' /\ run'.seed = seed
    BY <2>1, <2>2, BegunIsSound DEF WellBegun
  <2> QED BY <2>1, <2>2, <2>3 DEF IInv, JobOfRun, OneOrigin, StreamsSeed
<1>3. CASE RefuseSource \/ KillJob \/ \E l, g \in BOOLEAN : RejectStep(l, g)
  <2>1. mode' = mode /\ saved' = saved /\ source' = source /\ pc' = "idle" /\ run' = NoRun
    BY <1>3 DEF RefuseSource, KillJob, RejectStep
  <2> QED BY <2>1, StaysSound DEF IInv, JobOfRun, OneOrigin
<1>4. CASE HashSource
  <2>1. pc # "idle" /\ UNCHANGED <<mode, job, run, saved, source>>
    BY <1>4 DEF HashSource
  <2> QED BY <2>1, StaysSound DEF IInv, JobOfRun, OneOrigin, StreamsSeed
<1>5. CASE ReplaceSource \/ (\E t \in Targets, seed \in Seeds : RefuseResume(t, seed)) \/ UNCHANGED trainingVars
  <2>1. UNCHANGED <<mode, pc, job, run, saved>> /\ source' \in Nat
    BY <1>5 DEF ReplaceSource, RefuseResume, trainingVars, IInv
  <2> QED BY <2>1, StaysSound DEF IInv, JobOfRun, OneOrigin, StreamsSeed
<1>6. ASSUME NEW t \in Targets, NEW seed \in Seeds, Resume(t, seed) PROVE IInv'
  <2>1. /\ mode' = mode /\ mode # "burn" /\ saved # NoRun /\ Sound(saved) /\ UNCHANGED <<saved, source>>
        /\ saved.seed = seed /\ job'.target = t /\ job'.streams = seed
    BY <1>6 DEF Resume, IInv
  <2>2. run' = saved
    <3>1. run' = [saved EXCEPT !.weights = saved.weights]
      BY <1>6 DEF Resume, Restored, ResumedWeights
    <3>2. saved = [f \in DOMAIN saved |-> saved[f]]
      BY <2>1 DEF Sound
    <3> QED BY <3>1, <3>2
  <2> QED BY <2>1, <2>2, StaysSound DEF IInv, JobOfRun, OneOrigin, StreamsSeed
<1>7. ASSUME NEW l \in BOOLEAN, NEW g \in BOOLEAN, NEW n \in Norms, ApplyStep(l, g, n) PROVE IInv'
  <2>1. UNCHANGED <<mode, pc, job, saved, source>> /\ pc = "train"
    BY <1>7 DEF ApplyStep
  <2>2. Sound(run)' /\ run'.seed = run.seed /\ run'.weights = run.weights
    BY <1>7, ApplyIsSound
  <2> QED BY <2>1, <2>2, StaysSound DEF IInv, JobOfRun, OneOrigin, StreamsSeed
<1>8. CASE SaveRun
  <2>1. pc = "train" /\ pc' = "idle" /\ mode' = mode /\ source' = source /\ saved' = run /\ run' = NoRun
    BY <1>8 DEF SaveRun
  <2> QED BY <2>1, StaysSound DEF IInv, JobOfRun, OneOrigin
<1> QED BY <1>1, <1>2, <1>3, <1>4, <1>5, <1>6, <1>7, <1>8 DEF TrainingNext

-----------------------------------------------------------------------------
(* What the invariant says of a run. *)

LEMMA SoundReplays ==
  ASSUME NEW c, Sound(c), mode # "smoke", NEW n \in DOMAIN c.updates
  PROVE  /\ c.updates[n].batch = BatchOf(Streams(c), (n - 1) * BatchSize, n)
         /\ c.updates[n].adam = n
         /\ n < WarmupSteps => c.updates[n].rate = Rate("warmup", n, WarmupSteps)
         /\ n = WarmupSteps => c.updates[n].rate = PeakRate
<1>1. n \in 1..c.step /\ n \in Nat \ {0}
  BY DEF Sound
<1>2. SoundUpdate(c.updates[n], n, c.seed)
  BY <1>1 DEF Sound
<1> QED BY <1>1, <1>2, WarmingRate DEF SoundUpdate, Streams

LEMMA SoundRates ==
  ASSUME NEW c, Sound(c), NEW m \in DOMAIN c.updates, NEW n \in DOMAIN c.updates,
         m < n, c.updates[m].target = c.updates[n].target
  PROVE  LET warmup == IF mode = "smoke" THEN 0 ELSE WarmupSteps
         IN  /\ n <= warmup => NoHigher(c.updates[m].rate, c.updates[n].rate)
             /\ m >= warmup => NoHigher(c.updates[n].rate, c.updates[m].rate)
<1>1. m \in 1..c.step /\ n \in 1..c.step /\ m \in Nat \ {0} /\ n \in Nat \ {0}
  BY DEF Sound
<1>2. SoundUpdate(c.updates[m], m, c.seed) /\ SoundUpdate(c.updates[n], n, c.seed)
  BY <1>1 DEF Sound
<1> QED BY <1>1, <1>2, ScheduleShape DEF SoundUpdate

LEMMA SoundAddsUp ==
  ASSUME NEW c, Sound(c)
  PROVE  /\ c.step = Len(c.updates) /\ c.adam = Len(c.updates)
         /\ c.samples = (IF mode = "smoke" THEN 0 ELSE BatchSize * Len(c.updates))
         /\ c.explosions =
              Cardinality({n \in 1..Len(c.updates) : Guarded /\ Explodes(c.updates[n].pre)})
BY DEF Sound, Drawn, ExplodedIn

LEMMA SoundIsFinite ==
  ASSUME NEW c, Sound(c), Guarded, NEW n \in DOMAIN c.updates
  PROVE  c.updates[n].finite /\ (c.updates[n].post <= ClipNorm \/ c.updates[n].pre = Overflow)
<1>1. n \in 1..c.step
  BY DEF Sound
<1>2. SoundUpdate(c.updates[n], n, c.seed)
  BY <1>1 DEF Sound
<1> QED BY <1>2 DEF SoundUpdate

LEMMA SoundOrigin ==
  ASSUME NEW c, WellBegun(c.weights, c.seed)
  PROVE  /\ Cardinality({c.weights[m] : m \in TransferModules}) = 1
         /\ c.weights["action_encoder"] = FreshWeights(Streams(c))["action_encoder"]
<1>1. \E w : (\A m \in TransferModules : c.weights[m] = w)
             /\ c.weights["action_encoder"] = FreshWeights(Streams(c))["action_encoder"]
  BY DEF WellBegun, Streams, FreshWeights, Transferred, AllModules, TransferModules
<1>2. PICK w : (\A m \in TransferModules : c.weights[m] = w)
  BY <1>1
<1>3. {c.weights[m] : m \in TransferModules} = {w}
  BY <1>2 DEF TransferModules
<1> QED BY <1>1, <1>3, FS_Singleton

LEMMA SavesReplaceAll ==
  ASSUME [TrainingNext]_trainingVars
  PROVE  /\ mode' = mode
         /\ saved' = saved \/ (saved' = run /\ pc = "train" /\ run' = NoRun)
BY DEF TrainingNext, trainingVars, StartFresh, StartWarm, RefuseSource, HashSource, ReplaceSource,
   Resume, RefuseResume, ApplyStep, RejectStep, SaveRun, KillJob

LEMMA KeptIsSound == ASSUME IInv, NEW c \in Kept PROVE Sound(c)
BY DEF IInv, Kept

-----------------------------------------------------------------------------
(* The theorems. *)

\* The invariant holds through every start, resume, kill and replaced source.
THEOREM InductiveInvariant == TrainingSpec => []IInv
<1>1. IInv /\ [TrainingNext]_trainingVars => IInv'
  BY NextIInv
<1> QED BY InitIInv, <1>1, PTL DEF TrainingSpec

\* However a run is cut into jobs, what the directory keeps is one run: its n-th
\* update has the samples, the optimizer step, the warm-up rate and the bounds of
\* an uninterrupted one, and the counters of the report add up.
THEOREM JobsAddUp == TrainingSpec => []JobsMakeOneRun
<1>1. IInv => JobsMakeOneRun
  <2> SUFFICES ASSUME IInv PROVE JobsMakeOneRun
    OBVIOUS
  <2>1. ReplayIsExact
    BY KeptIsSound, SoundReplays DEF ReplayIsExact
  <2>2. CountersAddUp
    BY KeptIsSound, SoundAddsUp DEF CountersAddUp
  <2>3. RateRisesThenFalls
    BY KeptIsSound, SoundRates DEF RateRisesThenFalls
  <2>4. OnlyFiniteUpdates
    BY KeptIsSound, SoundIsFinite DEF OnlyFiniteUpdates
  <2> QED BY <2>1, <2>2, <2>3, <2>4 DEF JobsMakeOneRun
<1> QED BY InductiveInvariant, <1>1, PTL

\* A directory is warm-started once, from one version of the source, and no
\* resume or later replacement of the source changes what it began from.
THEOREM WarmStartIsFinal == TrainingSpec => WarmStartHappensOnce
<1> DEFINE Once(c) ==
      /\ saved # NoRun => c.weights = saved.weights
      /\ Cardinality({c.weights[m] : m \in TransferModules}) = 1
      /\ c.weights["action_encoder"] = FreshWeights(Streams(c))["action_encoder"]
<1>1. IInv /\ IInv' /\ [TrainingNext]_trainingVars =>
        [\A c \in {run', saved'} \ {NoRun} : Once(c)]_trainingVars
  <2> SUFFICES ASSUME IInv, IInv', TrainingNext, NEW c \in {run', saved'}, c # NoRun
               PROVE  Once(c)
    OBVIOUS
  <2>1. /\ mode' = mode
        /\ saved' = saved \/ (saved' = run /\ pc = "train" /\ run' = NoRun)
    BY SavesReplaceAll
  <2>2. WellBegun(c.weights, c.seed)
    <3>1. c = run' => WellBegun(run.weights, run.seed)'
      BY DEF IInv, Sound
    <3>2. c = saved' => WellBegun(saved.weights, saved.seed)'
      BY DEF IInv, Sound
    <3> QED BY <2>1, <3>1, <3>2 DEF WellBegun, StreamsSeed
  <2>3. saved # NoRun => c.weights = saved.weights
    BY <2>1 DEF IInv, OneOrigin
  <2> QED BY <2>2, <2>3, SoundOrigin
<1> QED BY InductiveInvariant, <1>1, PTL DEF TrainingSpec, WarmStartHappensOnce

-----------------------------------------------------------------------------
(* One shard: its starts and their ranks. *)

LEMMA MinOfNaturals ==
  ASSUME NEW T \in SUBSET Nat, T # {}
  PROVE  Min(T) \in T /\ \A m \in T : Min(T) <= m
BY LeastNumber DEF Min

\* The first row is a start, and the starts are rows.
LEMMA StartsAreRows ==
  ASSUME NEW s \in Shards, s.timestep # << >>
  PROVE  /\ EpisodeStarts(s) \subseteq 1..Len(s.timestep) /\ 1 \in EpisodeStarts(s)
         /\ Len(s.timestep) \in Nat \ {0} /\ IsFiniteSet(EpisodeStarts(s))
<1>1. s.timestep \in Seq(Int)
  BY DEF Shards
<1>2. Len(s.timestep) \in Nat \ {0}
  BY <1>1
<1>3. EpisodeStarts(s) \subseteq 1..Len(s.timestep) /\ 1 \in EpisodeStarts(s)
  BY <1>2 DEF EpisodeStarts
<1>4. IsFiniteSet(1..Len(s.timestep))
  BY <1>2, FS_Interval
<1> QED BY <1>2, <1>3, <1>4, FS_Subset

\* Of a finite set of numbers, those up to one of them grow with it.
LEMMA UptoGrows ==
  ASSUME NEW E, E \subseteq Nat, IsFiniteSet(E), NEW q \in E, NEW r \in E
  PROVE  /\ Cardinality({x \in E : x <= r}) \in 1..Cardinality(E)
         /\ q < r => Cardinality({x \in E : x <= q}) # Cardinality({x \in E : x <= r})
<1> DEFINE below == {x \in E : x <= q}
           upto == {x \in E : x <= r}
<1>1. q \in Nat /\ r \in Nat
  OBVIOUS
<1>2. upto \in SUBSET E /\ r \in upto
  BY <1>1
<1>3. q < r => below \in SUBSET upto /\ r \notin below
  <2> SUFFICES ASSUME q < r PROVE below \in SUBSET upto /\ r \notin below
    OBVIOUS
  <2>1. ASSUME NEW x \in below PROVE x \in upto
    <3>1. x \in E /\ x <= q
      BY <2>1
    <3>2. x \in Nat
      BY <3>1
    <3>3. x <= r
      BY <1>1, <3>1, <3>2
    <3> QED BY <3>1, <3>3
  <2>2. r \notin below
    <3>1. ~(r <= q)
      BY <1>1
    <3> QED BY <3>1
  <2> QED BY <2>1, <2>2
<1> HIDE DEF below, upto
<1>4. IsFiniteSet(upto) /\ Cardinality(upto) <= Cardinality(E)
  BY <1>2, FS_Subset
<1>5. Cardinality(upto) \in Nat /\ Cardinality(E) \in Nat
  BY <1>4, FS_CardinalityType
<1>6. Cardinality(upto) # 0
  BY <1>2, <1>4, FS_EmptySet
<1>7. Cardinality(upto) \in 1..Cardinality(E)
  BY <1>4, <1>5, <1>6
<1>8. q < r => Cardinality(below) # Cardinality(upto)
  BY <1>2, <1>3, <1>4, FS_Subset
<1> QED BY <1>7, <1>8 DEF below, upto

\* Every rank has its start: ranks are counted without a gap.
LEMMA RanksHaveStarts ==
  ASSUME NEW s \in Shards, s.timestep # << >>, NEW i \in 1..Cardinality(EpisodeStarts(s))
  PROVE  StartOfEpisode(s, i) \in EpisodeStarts(s) /\ Ordinal(s, StartOfEpisode(s, i)) = i
<1> DEFINE E == EpisodeStarts(s)
           Upto(r) == {x \in E : x <= r}
           n == Cardinality(E)
           f == [r \in E |-> Ordinal(s, r)]
<1>1. /\ E \subseteq Nat /\ IsFiniteSet(E) /\ n \in Nat
  <2>1. E \subseteq 1..Len(s.timestep) /\ Len(s.timestep) \in Nat /\ IsFiniteSet(E)
    BY StartsAreRows
  <2>2. E \subseteq Nat
    BY <2>1
  <2> QED BY <2>1, <2>2, FS_CardinalityType
<1>2. \A r \in E : Ordinal(s, r) = Cardinality(Upto(r))
  BY DEF Ordinal
<1> HIDE DEF E
<1>3. ASSUME NEW r \in E PROVE Ordinal(s, r) \in 1..n
  BY <1>1, <1>2, UptoGrows
<1>4. ASSUME NEW q \in E, NEW r \in E, q < r PROVE Ordinal(s, q) # Ordinal(s, r)
  BY <1>1, <1>2, <1>4, UptoGrows
<1>5. f \in Injection(E, 1..n)
  <2>1. f \in [E -> 1..n]
    BY <1>3
  <2>2. ASSUME NEW q \in E, NEW r \in E, f[q] = f[r] PROVE q = r
    <3>1. q < r \/ r < q \/ q = r
      BY <1>1
    <3>2. f[q] = Ordinal(s, q) /\ f[r] = Ordinal(s, r)
      OBVIOUS
    <3> QED BY <1>4, <2>2, <3>1, <3>2
  <2> HIDE DEF f
  <2> QED BY <2>1, <2>2 DEF Injection, IsInjective
<1>6. IsFiniteSet(1..n) /\ Cardinality(1..n) = n
  <2> HIDE DEF n, f
  <2> QED BY <1>1, OneToN
<1>7. f \in Surjection(E, 1..n)
  <2> HIDE DEF f, n
  <2> QED BY <1>5, <1>6, FS_Injection DEF n
<1>8. PICK start \in E : f[start] = i
  <2>1. i \in 1..n
    BY DEF E
  <2> HIDE DEF f
  <2> QED BY <1>7, <2>1 DEF Surjection
<1>9. Ordinal(s, start) = i
  BY <1>8
<1> QED BY <1>8, <1>9 DEF StartOfEpisode, E

\* An episode reaches from its start to the next one, or to the last row.
LEMMA EpisodeShape ==
  ASSUME NEW s \in Shards, EpisodesOk(s), NEW start \in EpisodeStarts(s)
  PROVE  LET e == EpisodeAt(s, start)
         IN  /\ e.row_start = start /\ e.len \in Nat /\ start + e.len <= Len(s.timestep) + 1
             /\ start \in 1..Len(s.timestep) /\ e.id \in Nat /\ e.first_timestep \in Int
             /\ \A q \in EpisodeStarts(s) : q > start => start + e.len <= q
<1> DEFINE E == EpisodeStarts(s)
           later == {r \in E : r > start}
           e == EpisodeAt(s, start)
           n == Len(s.timestep)
<1>1. s.timestep # << >> /\ e.id >= 0
  BY DEF EpisodesOk
<1>2. E \subseteq 1..n /\ n \in Nat \ {0}
  BY <1>1, StartsAreRows
<1>3. s.timestep \in Seq(Int) /\ s.episode_index \in Seq(Int)
  BY DEF Shards
<1>4. e.row_start = start /\ e.first_timestep = s.timestep[start]
      /\ e.len = (IF later = {} THEN n + 1 ELSE Min(later)) - start
  BY DEF EpisodeAt
<1>5. e.id \in Int
  <2>1. -1 \in Int /\ \A k \in DOMAIN s.episode_index : s.episode_index[k] \in Int
    BY <1>3
  <2> QED BY <2>1 DEF EpisodeAt
<1>6. e.id \in Nat
  BY <1>1, <1>5
<1>7. start \in 1..n /\ s.timestep[start] \in Int
  BY <1>2, <1>3
<1> HIDE DEF e
<1>8. CASE later = {}
  BY <1>2, <1>4, <1>6, <1>7, <1>8 DEF e
<1>9. CASE later # {}
  <2>1. later \in SUBSET Nat
    BY <1>2
  <2>2. Min(later) \in later /\ \A q \in later : Min(later) <= q
    <3> HIDE DEF later
    <3> QED BY <1>9, <2>1, MinOfNaturals
  <2>3. Min(later) \in 1..n /\ Min(later) > start
    BY <1>2, <2>2
  <2>4. e.len = Min(later) - start
    BY <1>4, <1>9
  <2> DEFINE m == Min(later)
  <2>5. m \in Int /\ m <= n /\ m > start /\ e.len = m - start /\ \A q \in later : m <= q
    BY <1>2, <2>2, <2>3, <2>4
  <2> HIDE DEF m
  <2>6. e.len \in Nat /\ start + e.len = m
    <3>1. e.len = m - start /\ m > start /\ m \in Int
      BY <2>5
    <3>2. start \in Nat
      BY <1>7
    <3> HIDE DEF later, E, n
    <3> QED BY ONLY <3>1, <3>2
  <2>7. \A q \in E : q > start => start + e.len <= q
    BY <2>5, <2>6
  <2>8. start + e.len <= n + 1
    BY <1>2, <2>5, <2>6
  <2> QED BY <1>4, <1>6, <1>7, <2>6, <2>7, <2>8 DEF e
<1> QED BY <1>8, <1>9

\* No row lies in two episodes.
LEMMA EpisodesAreDisjoint ==
  ASSUME NEW s \in Shards, EpisodesOk(s), NEW q \in EpisodeStarts(s), NEW r \in EpisodeStarts(s),
         NEW row \in Int, row \in q..(q + EpisodeAt(s, q).len - 1), row \in r..(r + EpisodeAt(s, r).len - 1)
  PROVE  q = r
<1>1. /\ q \in Int /\ EpisodeAt(s, q).len \in Nat /\ (r > q => q + EpisodeAt(s, q).len <= r)
      /\ r \in Int /\ EpisodeAt(s, r).len \in Nat /\ (q > r => r + EpisodeAt(s, r).len <= q)
  BY EpisodeShape
<1> QED BY <1>1

-----------------------------------------------------------------------------
(* The windows of a data set. *)

\* Sequences of one set, one after the other, are a sequence of that set.
LEMMA FlattenedIsSequence ==
  ASSUME NEW S, NEW seqs \in Seq(Seq(S))
  PROVE  FlattenSeq(seqs) \in Seq(S)
<1>1. Len(seqs) \in Nat /\ seqs \in [1..Len(seqs) -> Seq(S)]
  OBVIOUS
<1> QED BY <1>1, FlattenType

\* The windows whose rows all lie in one episode of the training split.
TrainingWindows(shards, horizon) ==
  {w \in [shard : DOMAIN shards, row_start : Nat, episode_id : Nat, start_frame : Int] :
     \E start \in EpisodeStarts(shards[w.shard]) :
       LET e == EpisodeAt(shards[w.shard], start)
       IN  /\ e.id \notin EvalEpisodes[family]
           /\ w.row_start >= start /\ w.row_start + horizon <= start + e.len}

\* The shards of a data set that opens.
ShardsOpen(shards, horizon) ==
  /\ shards \in Seq(Shards) /\ horizon \in Nat \ {0}
  /\ \A i \in DOMAIN shards : SchemaOk(shards[i], TRUE) /\ EpisodesOk(shards[i])

LEMMA ReadableShards ==
  ASSUME NEW shards, NEW horizon, ShardsOpen(shards, horizon), NEW i \in DOMAIN shards
  PROVE  /\ shards[i] \in Shards /\ SchemaOk(shards[i], TRUE) /\ EpisodesOk(shards[i])
         /\ horizon \in Nat \ {0} /\ shards[i].timestep # << >>
<1>1. shards \in Seq(Shards) /\ horizon \in Nat \ {0} /\ SchemaOk(shards[i], TRUE) /\ EpisodesOk(shards[i])
  BY DEF ShardsOpen
<1>2. shards[i] \in Shards
  BY <1>1
<1>3. shards[i].timestep # << >>
  BY <1>1 DEF EpisodesOk
<1> QED BY <1>1, <1>2, <1>3

LEMMA WindowsOfOneEpisode ==
  ASSUME NEW shards, NEW horizon, ShardsOpen(shards, horizon), NEW i \in DOMAIN shards,
         NEW start \in EpisodeStarts(shards[i]), SplitContains("train", EpisodeAt(shards[i], start).id)
  PROVE  WindowsOf(EpisodeAt(shards[i], start), i, horizon) \in Seq(TrainingWindows(shards, horizon))
<1> DEFINE e == EpisodeAt(shards[i], start)
           n == e.len - horizon + 1
           W == TrainingWindows(shards, horizon)
           seq == WindowsOf(e, i, horizon)
<1>1. shards[i] \in Shards /\ EpisodesOk(shards[i]) /\ horizon \in Nat \ {0}
  BY ReadableShards
<1>2. /\ e.row_start = start /\ e.len \in Nat /\ start \in Nat \ {0} /\ e.id \in Nat /\ e.first_timestep \in Int
  <2>1. Len(shards[i].timestep) \in Nat
    BY <1>1 DEF Shards
  <2> QED BY <1>1, <2>1, EpisodeShape
<1>3. e.id \notin EvalEpisodes[family]
  BY DEF SplitContains
<1> HIDE DEF e
<1>4. seq = [offset \in 1..n |-> [shard |-> i, row_start |-> e.row_start + offset - 1,
                                  episode_id |-> e.id, start_frame |-> e.first_timestep + offset - 1]]
  BY DEF WindowsOf
<1>5. ASSUME NEW offset \in 1..n PROVE seq[offset] \in W
  <2> DEFINE w == seq[offset]
  <2>1. w = [shard |-> i, row_start |-> start + offset - 1, episode_id |-> e.id,
             start_frame |-> e.first_timestep + offset - 1]
    BY <1>2, <1>4
  <2>2. n \in Int /\ offset \in Nat /\ offset >= 1 /\ offset <= n
    BY <1>1, <1>2
  <2>3. start + offset - 1 \in Nat /\ e.first_timestep + offset - 1 \in Int
    BY <1>2, <2>2
  <2> HIDE DEF w
  <2>4. w \in [shard : DOMAIN shards, row_start : Nat, episode_id : Nat, start_frame : Int]
    BY <1>2, <2>1, <2>3
  <2>5. w.shard = i /\ w.row_start = start + offset - 1
    BY <2>1
  <2>6. w.row_start >= start /\ w.row_start + horizon <= start + e.len
    BY <1>1, <1>2, <2>2, <2>5
  <2> QED BY <1>3, <2>4, <2>5, <2>6 DEF TrainingWindows, e, w
<1> HIDE DEF W
<1>6. CASE n <= 0
  <2>1. 1..n = {}
    BY <1>1, <1>2, <1>6
  <2>2. seq = << >>
    BY <1>4, <2>1
  <2> QED BY <2>2 DEF W, e
<1>7. CASE n > 0
  <2>1. n \in Nat
    BY <1>1, <1>2, <1>7
  <2>2. DOMAIN seq = 1..n /\ seq \in [1..n -> W]
    BY <1>4, <1>5
  <2>3. seq \in Seq(W)
    <3> HIDE DEF seq, n
    <3> QED BY <2>1, <2>2, SeqDef
  <2> QED BY <2>3 DEF W, e
<1>8. n \in Int
  BY <1>1, <1>2
<1> QED BY <1>6, <1>7, <1>8

LEMMA WindowsOfOneShard ==
  ASSUME NEW shards, NEW horizon, ShardsOpen(shards, horizon), NEW i \in DOMAIN shards
  PROVE  BuildWindows(shards[i], i, "train", horizon) \in Seq(TrainingWindows(shards, horizon))
<1> DEFINE s == shards[i]
           W == TrainingWindows(shards, horizon)
           n == Cardinality(EpisodeStarts(s))
           part(k) == IF ~SplitContains("train", BuildEpisodes(s)[k].id) \/ BuildEpisodes(s)[k].len < horizon
                      THEN << >> ELSE WindowsOf(BuildEpisodes(s)[k], i, horizon)
           parts == [k \in DOMAIN BuildEpisodes(s) |-> part(k)]
<1>1. s \in Shards /\ EpisodesOk(s) /\ s.timestep # << >>
  BY ReadableShards
<1>2. n \in Nat /\ DOMAIN BuildEpisodes(s) = 1..n
  <2>1. IsFiniteSet(EpisodeStarts(s))
    BY <1>1, StartsAreRows
  <2> QED BY <2>1, FS_CardinalityType DEF BuildEpisodes
<1>3. ASSUME NEW k \in 1..n PROVE part(k) \in Seq(W)
  <2>1. StartOfEpisode(s, k) \in EpisodeStarts(s)
    BY <1>1, RanksHaveStarts
  <2>2. BuildEpisodes(s)[k] = EpisodeAt(s, StartOfEpisode(s, k))
    BY DEF BuildEpisodes
  <2>3. << >> \in Seq(W)
    OBVIOUS
  <2>4. SplitContains("train", BuildEpisodes(s)[k].id) => WindowsOf(BuildEpisodes(s)[k], i, horizon) \in Seq(W)
    BY <2>1, <2>2, WindowsOfOneEpisode
  <2> HIDE DEF s, W
  <2> QED BY <2>3, <2>4
<1>4. BuildWindows(s, i, "train", horizon) = FlattenSeq(parts)
  BY DEF BuildWindows
<1> HIDE DEF part, W, n, s
<1>5. parts \in Seq(Seq(W))
  <2>1. parts \in [1..n -> Seq(W)]
    BY <1>2, <1>3
  <2> HIDE DEF parts
  <2> QED BY <1>2, <2>1, SeqDef
<1>6. FlattenSeq(parts) \in Seq(W)
  <2> HIDE DEF parts
  <2> QED BY <1>5, FlattenedIsSequence
<1> QED BY <1>4, <1>6 DEF W, s

-----------------------------------------------------------------------------
(* A data set that opens, and the same data with its evaluation episodes masked. *)

TrainingWindowsOf(shards, horizon) ==
  FlattenSeq([i \in DOMAIN shards |-> BuildWindows(shards[i], i, "train", horizon)])

Opens(shards, horizon) ==
  /\ family = "pusht" \/ Len(shards) = 1
  /\ shards # << >> /\ TrainingWindowsOf(shards, horizon) # << >>
  /\ \A i \in DOMAIN shards : SchemaOk(shards[i], TRUE) /\ EpisodesOk(shards[i])

DataOf(shards, horizon) == OpenDataset(shards, StatsConfig(horizon))

LEMMA DataThatOpens ==
  ASSUME NEW shards, NEW horizon \in Nat \ {0}
  PROVE  /\ (DataOf(shards, horizon).how = "open") <=> Opens(shards, horizon)
         /\ Opens(shards, horizon) =>
              DataOf(shards, horizon) = [how |-> "open", from |-> shards, config |-> StatsConfig(horizon),
                                         windows |-> TrainingWindowsOf(shards, horizon)]
<1> DEFINE c == StatsConfig(horizon)
           W == TrainingWindowsOf(shards, horizon)
<1>1. c.horizon = horizon /\ c.split = "train" /\ c.history_size = 0 /\ c.validate_schema = TRUE
  BY DEF StatsConfig
<1>2. ~(c.horizon = 0 \/ c.history_size > c.horizon)
  BY <1>1
<1> HIDE DEF c
<1>3. W = FlattenSeq([i \in DOMAIN shards |-> BuildWindows(shards[i], i, c.split, c.horizon)])
  BY <1>1 DEF TrainingWindowsOf
<1> HIDE DEF W
<1> DEFINE fine == \A i \in DOMAIN shards : SchemaOk(shards[i], TRUE) /\ EpisodesOk(shards[i])
           whole == [how |-> "open", from |-> shards, config |-> c, windows |-> W]
<1>4. OpenPusht(shards, c) = IF shards = << >> THEN Refused("empty") ELSE IF ~fine THEN Refused("schema")
                             ELSE IF W = << >> THEN Refused("empty") ELSE whole
  BY <1>1, <1>2, <1>3 DEF OpenPusht
<1>5. \A how \in {"config", "empty", "schema"} : Refused(how).how = how /\ how # "open"
  BY DEF Refused
<1>6. whole.how = "open"
  OBVIOUS
<1> HIDE DEF fine, whole
<1>7. (OpenPusht(shards, c).how = "open") <=> (shards # << >> /\ fine /\ W # << >>)
  BY <1>4, <1>5, <1>6
<1>8. DataOf(shards, horizon) = IF family = "pusht" \/ Len(shards) = 1 THEN OpenPusht(shards, c) ELSE Refused("config")
  BY DEF DataOf, OpenDataset, OpenSo100, c
<1> QED BY <1>4, <1>5, <1>7, <1>8 DEF Opens, fine, whole, W, c

LEMMA OpenedData ==
  ASSUME NEW shards \in Seq(Shards), NEW horizon \in Nat \ {0}, Opens(shards, horizon)
  PROVE  /\ ShardsOpen(shards, horizon)
         /\ TrainingWindowsOf(shards, horizon) \in Seq(TrainingWindows(shards, horizon))
         /\ Len(TrainingWindowsOf(shards, horizon)) \in Nat \ {0}
<1> DEFINE W == TrainingWindows(shards, horizon)
           parts == [i \in DOMAIN shards |-> BuildWindows(shards[i], i, "train", horizon)]
<1>1. ShardsOpen(shards, horizon) /\ TrainingWindowsOf(shards, horizon) # << >>
  BY DEF ShardsOpen, Opens
<1>2. DOMAIN shards = 1..Len(shards) /\ Len(shards) \in Nat
  OBVIOUS
<1>3. \A i \in 1..Len(shards) : BuildWindows(shards[i], i, "train", horizon) \in Seq(W)
  BY <1>1, <1>2, WindowsOfOneShard
<1> HIDE DEF W
<1>4. parts \in [1..Len(shards) -> Seq(W)]
  BY <1>2, <1>3
<1>5. parts \in Seq(Seq(W))
  <2> HIDE DEF parts
  <2> QED BY <1>2, <1>4, SeqDef
<1>6. FlattenSeq(parts) \in Seq(W)
  <2> HIDE DEF parts
  <2> QED BY <1>5, FlattenedIsSequence
<1>7. TrainingWindowsOf(shards, horizon) \in Seq(W)
  BY <1>6 DEF TrainingWindowsOf
<1>8. Len(TrainingWindowsOf(shards, horizon)) \in Nat \ {0}
  BY <1>1, <1>7, EmptySeq, LenProperties
<1> QED BY <1>1, <1>7, <1>8 DEF W

\* Masking touches the actions alone, so it moves no start, episode or window.
Alike(s, t) ==
  /\ t.episode_index = s.episode_index /\ t.timestep = s.timestep /\ t.lengths = s.lengths
  /\ t.channels = s.channels /\ t.actionDim = s.actionDim /\ t.types = s.types

LEMMA MaskedShards ==
  ASSUME NEW shards \in Seq(Shards)
  PROVE  /\ DOMAIN Masked(shards) = DOMAIN shards
         /\ \A i \in DOMAIN shards :
              /\ Alike(shards[i], Masked(shards)[i])
              /\ Masked(shards)[i].actions =
                   [r \in DOMAIN shards[i].actions |->
                      IF InEvaluation(shards[i], r) THEN 0 ELSE shards[i].actions[r]]
<1>1. DOMAIN Masked(shards) = DOMAIN shards
  BY DEF Masked
<1>2. ASSUME NEW i \in DOMAIN shards
      PROVE  /\ Alike(shards[i], Masked(shards)[i])
             /\ Masked(shards)[i].actions =
                   [r \in DOMAIN shards[i].actions |->
                      IF InEvaluation(shards[i], r) THEN 0 ELSE shards[i].actions[r]]
  <2> DEFINE s == shards[i]
             maskedSample == [r \in DOMAIN s.actions |-> IF InEvaluation(s, r) THEN 0 ELSE s.actions[r]]
  <2>1. s \in Shards
    OBVIOUS
  <2>2. Masked(shards)[i] = [s EXCEPT !.actions = maskedSample]
    BY DEF Masked
  <2>3. s \in [episode_index : Seq(Int), timestep : Seq(Int), actions : Seq(Int), lengths : SUBSET Nat,
               channels : Nat, actionDim : Nat, side : Nat, types : {"declared", "pixels", "index", "missing"}]
    BY <2>1 DEF Shards
  <2> HIDE DEF s
  <2> HIDE DEF maskedSample
  <2>4. Masked(shards)[i].actions = maskedSample
    BY <2>2, <2>3
  <2>5. Alike(s, Masked(shards)[i])
    BY <2>2, <2>3 DEF Alike
  <2> QED BY <2>4, <2>5 DEF s, maskedSample
<1> QED BY <1>1, <1>2

LEMMA AlikeEpisodes ==
  ASSUME NEW s, NEW t, Alike(s, t)
  PROVE  BuildEpisodes(t) = BuildEpisodes(s) /\ (EpisodesOk(t) <=> EpisodesOk(s))
<1>1. EpisodeStarts(t) = EpisodeStarts(s)
  BY DEF Alike, EpisodeStarts, PerRowIds
<1>2. \A r : Ordinal(t, r) = Ordinal(s, r)
  BY <1>1 DEF Ordinal
<1>3. \A r : EpisodeAt(t, r) = EpisodeAt(s, r)
  BY <1>1, <1>2 DEF EpisodeAt, Alike, PerRowIds
<1>4. \A k : StartOfEpisode(t, k) = StartOfEpisode(s, k)
  BY <1>1, <1>2 DEF StartOfEpisode
<1>5. BuildEpisodes(t) = BuildEpisodes(s)
  BY <1>1, <1>3, <1>4 DEF BuildEpisodes
<1>6. EpisodesOk(t) <=> EpisodesOk(s)
  BY <1>1, <1>3 DEF EpisodesOk, Alike
<1> QED BY <1>5, <1>6

LEMMA AlikeSchemas ==
  ASSUME NEW s, NEW t, Alike(s, t)
  PROVE  SchemaOk(t, TRUE) <=> SchemaOk(s, TRUE)
BY DEF SchemaOk, PushtSchemaOk, So100SchemaOk, ColumnsAgree, Alike

LEMMA MaskedDataOpens ==
  ASSUME NEW shards \in Seq(Shards), NEW horizon \in Nat \ {0}, Opens(shards, horizon)
  PROVE  /\ Opens(Masked(shards), horizon)
         /\ TrainingWindowsOf(Masked(shards), horizon) = TrainingWindowsOf(shards, horizon)
<1> DEFINE m == Masked(shards)
<1>1. DOMAIN m = DOMAIN shards /\ \A i \in DOMAIN shards : Alike(shards[i], m[i])
  BY MaskedShards
<1>2. DOMAIN shards = 1..Len(shards) /\ Len(shards) \in Nat
  OBVIOUS
<1> HIDE DEF m
<1>3. \A i \in DOMAIN shards :
        /\ SchemaOk(m[i], TRUE) <=> SchemaOk(shards[i], TRUE)
        /\ EpisodesOk(m[i]) <=> EpisodesOk(shards[i])
        /\ BuildWindows(m[i], i, "train", horizon) = BuildWindows(shards[i], i, "train", horizon)
  <2> SUFFICES ASSUME NEW i \in DOMAIN shards
               PROVE  /\ SchemaOk(m[i], TRUE) <=> SchemaOk(shards[i], TRUE)
                      /\ EpisodesOk(m[i]) <=> EpisodesOk(shards[i])
                      /\ BuildWindows(m[i], i, "train", horizon) = BuildWindows(shards[i], i, "train", horizon)
    OBVIOUS
  <2> DEFINE s == shards[i]
             t == m[i]
  <2>1. Alike(s, t)
    BY <1>1
  <2> HIDE DEF s, t
  <2>2. SchemaOk(t, TRUE) <=> SchemaOk(s, TRUE)
    BY <2>1, AlikeSchemas
  <2>3. EpisodesOk(t) <=> EpisodesOk(s)
    BY <2>1, AlikeEpisodes
  <2>4. BuildWindows(t, i, "train", horizon) = BuildWindows(s, i, "train", horizon)
    BY <2>1, AlikeEpisodes DEF BuildWindows
  <2> QED BY <2>2, <2>3, <2>4 DEF s, t
<1>4. [i \in DOMAIN m |-> BuildWindows(m[i], i, "train", horizon)]
        = [i \in DOMAIN shards |-> BuildWindows(shards[i], i, "train", horizon)]
  BY <1>1, <1>3
<1>5. TrainingWindowsOf(m, horizon) = TrainingWindowsOf(shards, horizon)
  BY <1>4 DEF TrainingWindowsOf
<1>6. Len(m) = Len(shards)
  <2> DEFINE n == Len(shards)
             M == {m[i] : i \in 1..n}
  <2>1. m = [i \in 1..n |-> m[i]] /\ n \in Nat
    BY <1>1, <1>2 DEF m, Masked
  <2>2. m \in [1..n -> M]
    BY <2>1
  <2> HIDE DEF n, M
  <2>3. m \in Seq(M) /\ DOMAIN m = 1..n
    BY <2>1, <2>2, SeqDef
  <2> QED BY <2>1, <2>3, LenProperties DEF n
<1>7. m # << >>
  BY <1>1, <1>2 DEF Opens
<1> QED BY <1>1, <1>3, <1>5, <1>6, <1>7 DEF Opens, m

-----------------------------------------------------------------------------
(* The actions that the statistics are made of. *)

LEMMA PlaceInBounds ==
  ASSUME NEW n \in Nat, NEW h \in Nat \ {0}, NEW k \in 1..(n * h)
  PROVE  ((k - 1) \div h) + 1 \in 1..n /\ (k - 1) % h \in 0..(h - 1)
<1> DEFINE q == (k - 1) \div h
           r == (k - 1) % h
<1>1. n * h \in Nat /\ k - 1 \in Nat /\ k - 1 < n * h
  OBVIOUS
<1>2. q \in Int /\ r \in 0..(h - 1) /\ k - 1 = h * q + r
  BY <1>1
<1> HIDE DEF q, r
<1>3. q >= 0
  <2> SUFFICES ASSUME q <= -1 PROVE FALSE
    BY <1>2
  <2>1. h * q <= h * (-1)
    BY <1>2
  <2> QED BY <1>1, <1>2, <2>1
<1>4. q < n
  <2> SUFFICES ASSUME n <= q PROVE FALSE
    BY <1>2
  <2>1. h * n <= h * q
    BY <1>2
  <2> QED BY <1>1, <1>2, <2>1
<1> QED BY <1>2, <1>3, <1>4 DEF q, r

\* A row of a training window has an action, and lies in no evaluation episode.
LEMMA TrainingRows ==
  ASSUME NEW shards \in Seq(Shards), NEW horizon \in Nat \ {0}, ShardsOpen(shards, horizon),
         NEW w \in TrainingWindows(shards, horizon), NEW t \in 0..(horizon - 1)
  PROVE  /\ w.shard \in DOMAIN shards /\ w.row_start + t \in DOMAIN shards[w.shard].actions
         /\ ~InEvaluation(shards[w.shard], w.row_start + t)
<1> DEFINE s == shards[w.shard]
           row == w.row_start + t
<1>1. w.shard \in DOMAIN shards /\ w.row_start \in Nat
  BY DEF TrainingWindows
<1>2. s \in Shards /\ SchemaOk(s, TRUE) /\ EpisodesOk(s)
  BY <1>1, ReadableShards
<1>3. PICK start \in EpisodeStarts(s) :
        /\ EpisodeAt(s, start).id \notin EvalEpisodes[family]
        /\ w.row_start >= start /\ w.row_start + horizon <= start + EpisodeAt(s, start).len
  BY DEF TrainingWindows
<1> DEFINE len == EpisodeAt(s, start).len
<1>4. /\ len \in Nat /\ start + len <= Len(s.timestep) + 1 /\ start \in 1..Len(s.timestep)
  BY <1>2, EpisodeShape
<1>5. s.timestep \in Seq(Int) /\ s.actions \in Seq(Int) /\ Len(s.actions) \in s.lengths
  BY <1>2 DEF Shards
<1>6. Len(s.actions) = Len(s.timestep)
  BY <1>2, <1>5 DEF SchemaOk, PushtSchemaOk, So100SchemaOk, ColumnsAgree
<1>7. Len(s.timestep) \in Nat
  BY <1>5
<1> HIDE DEF len
<1>8. row \in start..(start + len - 1) /\ row \in 1..Len(s.timestep) /\ row \in Int
  <2> DEFINE first == w.row_start
             rows == Len(s.timestep)
  <2>1. first \in Nat /\ first >= start /\ first + horizon <= start + len /\ start \in 1..rows /\ rows \in Nat
        /\ start + len <= rows + 1 /\ len \in Nat
    BY <1>1, <1>3, <1>4, <1>7 DEF len
  <2> HIDE DEF first, rows
  <2>2. first + t \in start..(start + len - 1) /\ first + t \in 1..rows /\ first + t \in Int
    BY <2>1
  <2> QED BY <2>2 DEF first, rows
<1>9. row \in DOMAIN s.actions
  BY <1>5, <1>6, <1>8
<1>10. ~InEvaluation(s, row)
  <2> SUFFICES ASSUME InEvaluation(s, row) PROVE FALSE
    OBVIOUS
  <2>1. PICK q \in EpisodeStarts(s) :
          EpisodeAt(s, q).id \in EvalEpisodes[family] /\ row \in q..(q + EpisodeAt(s, q).len - 1)
    BY DEF InEvaluation
  <2>2. q = start
    <3> HIDE DEF s, row
    <3> QED BY <1>2, <1>8, <2>1, EpisodesAreDisjoint DEF len
  <2> QED BY <1>3, <2>1, <2>2
<1> QED BY <1>1, <1>9, <1>10

LEMMA ActionsOfData ==
  ASSUME NEW shards \in Seq(Shards), NEW horizon \in Nat \ {0}, Opens(shards, horizon)
  PROVE  /\ ActionsOf(DataOf(Masked(shards), horizon)) = ActionsOf(DataOf(shards, horizon))
         /\ ActionsOf(DataOf(shards, horizon)) \in Seq(Int) /\ ActionsOf(DataOf(shards, horizon)) # << >>
<1> DEFINE m == Masked(shards)
           W == TrainingWindowsOf(shards, horizon)
           n == Len(W)
           at(k) == W[((k - 1) \div horizon) + 1]
           frame(k) == (k - 1) % horizon
           actions == ActionsOf(DataOf(shards, horizon))
<1>1. /\ ShardsOpen(shards, horizon) /\ W \in Seq(TrainingWindows(shards, horizon)) /\ n \in Nat \ {0}
  BY OpenedData
<1>2. DataOf(shards, horizon) = [how |-> "open", from |-> shards, config |-> StatsConfig(horizon), windows |-> W]
  BY DataThatOpens
<1>3. DataOf(m, horizon) = [how |-> "open", from |-> m, config |-> StatsConfig(horizon), windows |-> W]
  BY DataThatOpens, MaskedDataOpens
<1>4. StatsConfig(horizon).horizon = horizon
  BY DEF StatsConfig
<1> HIDE DEF W, m
<1>5. actions = [k \in 1..(n * horizon) |-> shards[at(k).shard].actions[at(k).row_start + frame(k)]]
  <2> DEFINE d == DataOf(shards, horizon)
  <2>1. d.from = shards /\ d.windows = W /\ d.config.horizon = horizon
    BY <1>2, <1>4
  <2> HIDE DEF d
  <2>2. ActionsOf(d) = [k \in 1..(n * horizon) |-> shards[at(k).shard].actions[at(k).row_start + frame(k)]]
    BY <2>1 DEF ActionsOf
  <2> QED BY <2>2 DEF d, actions
<1>6. ActionsOf(DataOf(m, horizon)) = [k \in 1..(n * horizon) |-> m[at(k).shard].actions[at(k).row_start + frame(k)]]
  <2> DEFINE d == DataOf(m, horizon)
  <2>1. d.from = m /\ d.windows = W /\ d.config.horizon = horizon
    BY <1>3, <1>4
  <2> HIDE DEF d
  <2>2. ActionsOf(d) = [k \in 1..(n * horizon) |-> m[at(k).shard].actions[at(k).row_start + frame(k)]]
    BY <2>1 DEF ActionsOf
  <2> QED BY <2>2 DEF d
<1>7. ASSUME NEW k \in 1..(n * horizon)
      PROVE  /\ m[at(k).shard].actions[at(k).row_start + frame(k)]
                  = shards[at(k).shard].actions[at(k).row_start + frame(k)]
             /\ shards[at(k).shard].actions[at(k).row_start + frame(k)] \in Int
  <2>1. ((k - 1) \div horizon) + 1 \in 1..n /\ frame(k) \in 0..(horizon - 1)
    <3> HIDE DEF n
    <3> QED BY <1>1, PlaceInBounds
  <2>2. at(k) \in TrainingWindows(shards, horizon)
    BY <1>1, <2>1
  <2> DEFINE w == at(k)
             row == at(k).row_start + frame(k)
  <2>3. w.shard \in DOMAIN shards /\ row \in DOMAIN shards[w.shard].actions
        /\ ~InEvaluation(shards[w.shard], row)
    <3> HIDE DEF at, frame
    <3> QED BY <1>1, <2>1, <2>2, TrainingRows
  <2> HIDE DEF w, row
  <2>4. m[w.shard].actions = [r \in DOMAIN shards[w.shard].actions |->
           IF InEvaluation(shards[w.shard], r) THEN 0 ELSE shards[w.shard].actions[r]]
    BY <2>3, MaskedShards DEF m
  <2>5. m[w.shard].actions[row] = shards[w.shard].actions[row]
    BY <2>3, <2>4
  <2>6. shards[w.shard] \in Shards
    BY <1>1, <2>3, ReadableShards
  <2>7. shards[w.shard].actions \in Seq(Int)
    BY <2>6 DEF Shards
  <2>8. shards[w.shard].actions[row] \in Int
    BY <2>3, <2>7
  <2> QED BY <2>5, <2>8 DEF w, row
<1> HIDE DEF at, frame
<1>8. ActionsOf(DataOf(m, horizon)) = actions
  BY <1>5, <1>6, <1>7
<1>9. n * horizon \in Nat /\ n * horizon # 0
  <2> HIDE DEF n
  <2>1. n >= 1 /\ horizon >= 1 /\ n \in Nat /\ horizon \in Nat
    BY <1>1
  <2>2. n * horizon >= 1 * 1
    BY <2>1
  <2> QED BY <2>1, <2>2
<1>10. actions \in [1..(n * horizon) -> Int]
  BY <1>5, <1>7
<1> HIDE DEF actions, n
<1>11. actions \in Seq(Int)
  <2> DEFINE c == n * horizon
  <2> HIDE DEF c
  <2>1. c \in Nat /\ actions \in [1..c -> Int]
    BY <1>9, <1>10 DEF c
  <2> QED BY <2>1, SeqDef
<1>12. actions # << >>
  <2>1. DOMAIN actions # {}
    <3>1. 1 \in 1..(n * horizon)
      BY <1>9
    <3> QED BY <1>10, <3>1
  <2> QED BY <2>1
<1> QED BY <1>8, <1>11, <1>12 DEF actions, m

-----------------------------------------------------------------------------
(* Sums, and the deviation that comes of them. *)

\* The running sum that SumOf reads its answer from.
Adds(v, f) ==
  /\ f \in [0..Len(v) -> Int] /\ f[0] = 0
  /\ \A i \in 1..Len(v) : f[i] = f[i - 1] + v[i]

LEMMA RunningSumExists ==
  ASSUME NEW v \in Seq(Int)
  PROVE  \E f : Adds(v, f)
<1> DEFINE Upto(n, f) == /\ f \in [0..n -> Int] /\ f[0] = 0
                         /\ \A i \in 1..n : f[i] = f[i - 1] + v[i]
           Bad == {n \in 0..Len(v) : ~\E f : Upto(n, f)}
<1>1. Len(v) \in Nat /\ Len(v) \in 0..Len(v)
  BY LenProperties
<1>2. Bad = {}
  <2> SUFFICES ASSUME Bad # {} PROVE FALSE
    OBVIOUS
  <2>1. PICK n \in Bad : \A x \in Bad : n <= x
    <3>1. Bad \subseteq Nat
      OBVIOUS
    <3> HIDE DEF Bad
    <3> QED BY <3>1, LeastNumber
  <2>2. n \in 0..Len(v) /\ ~\E f : Upto(n, f)
    OBVIOUS
  <2>3. n # 0
    <3>1. Upto(0, [i \in 0..0 |-> 0])
      OBVIOUS
    <3> QED BY <2>2, <3>1
  <2>4. n - 1 \in 0..Len(v) /\ n \in 1..Len(v) /\ v[n] \in Int /\ n - 1 \notin Bad
    <3>1. n - 1 \in 0..Len(v) /\ n \in 1..Len(v) /\ v[n] \in Int /\ ~(n <= n - 1)
      BY <1>1, <2>2, <2>3
    <3> HIDE DEF Bad
    <3> QED BY <2>1, <3>1
  <2>5. PICK f : Upto(n - 1, f)
    <3>1. \E f : Upto(n - 1, f)
      <4> HIDE DEF Upto
      <4> QED BY <2>4
    <3> QED BY <3>1
  <2> DEFINE g == [i \in 0..n |-> IF i = n THEN f[n - 1] + v[n] ELSE f[i]]
  <2>6. f[n - 1] \in Int
    BY <2>4, <2>5
  <2>7. g \in [0..n -> Int]
    <3>1. ASSUME NEW i \in 0..n PROVE g[i] \in Int
      <4>1. i = n \/ i \in 0..(n - 1)
        BY <2>4
      <4> QED BY <2>4, <2>5, <2>6, <4>1
    <3> QED BY <3>1
  <2>8. g[0] = 0
    BY <2>3, <2>4, <2>5
  <2>9. ASSUME NEW i \in 1..n PROVE g[i] = g[i - 1] + v[i]
    <3>1. CASE i = n
      <4>1. n - 1 \in 0..n /\ n \in 0..n /\ n - 1 # n
        BY <2>4
      <4>2. g[n - 1] = f[n - 1] /\ g[n] = f[n - 1] + v[n]
        BY <4>1
      <4> QED BY <3>1, <4>2
    <3>2. CASE i # n
      <4>1. i \in 1..(n - 1) /\ i - 1 \in 0..n /\ i - 1 # n /\ i \in 0..n
        BY <2>4, <3>2
      <4>2. g[i - 1] = f[i - 1] /\ g[i] = f[i]
        BY <3>2, <4>1
      <4> QED BY <2>5, <4>1, <4>2
    <3> QED BY <3>1, <3>2
  <2>10. Upto(n, g)
    BY <2>7, <2>8, <2>9
  <2> QED BY <2>2, <2>10
<1>3. \E f : Upto(Len(v), f)
  <2> HIDE DEF Upto
  <2> QED BY <1>1, <1>2
<1>4. PICK f : Upto(Len(v), f)
  BY <1>3
<1> QED BY <1>4 DEF Adds

LEMMA SumOfIsTheRunningSum ==
  ASSUME NEW v \in Seq(Int), NEW f, Adds(v, f)
  PROVE  SumOf(v) = f[Len(v)]
<1> DEFINE n == Len(v)
           Rec(g) == g = [i \in 0..n |-> IF i = 0 THEN 0 ELSE g[i - 1] + v[i]]
           sum == CHOOSE g : Rec(g)
<1>1. n \in Nat
  OBVIOUS
<1>2. Rec(f)
  <2>1. DOMAIN f = 0..n /\ f = [i \in DOMAIN f |-> f[i]]
    BY DEF Adds
  <2>2. ASSUME NEW i \in 0..n PROVE f[i] = IF i = 0 THEN 0 ELSE f[i - 1] + v[i]
    <3>1. i # 0 => i \in 1..n
      BY <1>1
    <3> QED BY <3>1 DEF Adds
  <2> QED BY <2>1, <2>2
<1>3. Rec(sum)
  <2> HIDE DEF Rec
  <2> QED BY <1>2
<1>4. SumOf(v) = sum[n]
  BY DEF SumOf
<1> HIDE DEF sum
<1>5. \A i \in 0..n : sum[i] = f[i]
  <2> DEFINE Bad == {i \in 0..n : sum[i] # f[i]}
  <2> SUFFICES ASSUME Bad # {} PROVE FALSE
    OBVIOUS
  <2>1. PICK i \in Bad : \A x \in Bad : i <= x
    <3>1. Bad \subseteq Nat
      OBVIOUS
    <3> HIDE DEF Bad
    <3> QED BY <3>1, LeastNumber
  <2>2. i \in 0..n /\ sum[i] # f[i]
    OBVIOUS
  <2>3. sum[i] = IF i = 0 THEN 0 ELSE sum[i - 1] + v[i]
    BY <1>3, <2>2
  <2>4. CASE i = 0
    BY <2>2, <2>3, <2>4 DEF Adds
  <2>5. CASE i # 0
    <3>1. i - 1 \in 0..n /\ i \in 1..n /\ ~(i <= i - 1)
      BY <1>1, <2>2, <2>5
    <3>2. i - 1 \notin Bad
      <4> HIDE DEF Bad
      <4> QED BY <2>1, <3>1
    <3>3. sum[i - 1] = f[i - 1]
      BY <3>1, <3>2
    <3>4. f[i] = f[i - 1] + v[i]
      BY <3>1 DEF Adds
    <3> QED BY <2>2, <2>3, <2>5, <3>3, <3>4
  <2> QED BY <2>4, <2>5
<1>6. n \in 0..n
  BY <1>1
<1> QED BY <1>4, <1>5, <1>6

LEMMA SquareIsNatural ==
  ASSUME NEW x \in Int
  PROVE  x * x \in Int /\ x * x >= 0
OBVIOUS

\* One more value keeps count * sum_sq at least sum^2.
LEMMA OneMoreValue ==
  ASSUME NEW k \in Nat \ {0}, NEW q \in Int, NEW a \in Int, NEW x \in Int, k * q >= a * a
  PROVE  (k + 1) * (q + x * x) >= (a + x) * (a + x)
<1> DEFINE d == k * (x * x) + q - 2 * (a * x)
           e == k * x - a
<1>1. d \in Int /\ e \in Int /\ k * d \in Int
  OBVIOUS
<1>2. k * d = e * e + (k * q - a * a)
  OBVIOUS
<1>3. e * e >= 0
  <2> HIDE DEF e
  <2> QED BY <1>1, SquareIsNatural
<1>4. k * d >= 0
  <2> DEFINE p == e * e
             r == k * q - a * a
  <2>1. p \in Int /\ r \in Int /\ r >= 0
    OBVIOUS
  <2> HIDE DEF p, r, d
  <2> QED BY <1>1, <1>2, <1>3, <2>1 DEF p, r
<1>5. d >= 0
  <2> HIDE DEF d
  <2> SUFFICES ASSUME d <= -1 PROVE FALSE
    BY <1>1
  <2>1. k * d <= k * (-1)
    BY <1>1
  <2> QED BY <1>1, <1>4, <2>1
<1>6. (k + 1) * (q + x * x) = (a + x) * (a + x) + (k * q - a * a) + d
  OBVIOUS
<1> QED BY <1>1, <1>5, <1>6

LEMMA SumOfSquares ==
  ASSUME NEW v \in Seq(Int)
  PROVE  LET sum == SumOf(v)
             sq == SumOf([k \in DOMAIN v |-> v[k] * v[k]])
         IN  sum \in Int /\ sq \in Int /\ Len(v) * sq >= sum * sum
<1> DEFINE n == Len(v)
           w == [k \in DOMAIN v |-> v[k] * v[k]]
<1>1. n \in Nat /\ DOMAIN v = 1..n /\ \A k \in 1..n : v[k] \in Int
  OBVIOUS
<1>2. w \in Seq(Int) /\ Len(w) = n /\ \A k \in 1..n : w[k] = v[k] * v[k]
  BY <1>1
<1>3. PICK f : Adds(v, f)
  BY RunningSumExists
<1> HIDE DEF w
<1>4. PICK g : Adds(w, g)
  BY <1>2, RunningSumExists
<1>5. SumOf(v) = f[n] /\ SumOf(w) = g[n]
  BY <1>2, <1>3, <1>4, SumOfIsTheRunningSum
<1>6. /\ f \in [0..n -> Int] /\ f[0] = 0 /\ \A i \in 1..n : f[i] = f[i - 1] + v[i]
      /\ g \in [0..n -> Int] /\ g[0] = 0 /\ \A i \in 1..n : g[i] = g[i - 1] + v[i] * v[i]
  BY <1>2, <1>3, <1>4 DEF Adds
<1> HIDE DEF n
<1> DEFINE Bad == {i \in 0..n : ~(i * g[i] >= f[i] * f[i])}
<1>7. Bad = {}
  <2> SUFFICES ASSUME Bad # {} PROVE FALSE
    OBVIOUS
  <2>1. PICK i \in Bad : \A x \in Bad : i <= x
    <3>1. Bad \subseteq Nat
      BY <1>1
    <3> HIDE DEF Bad
    <3> QED BY <3>1, LeastNumber
  <2>2. i \in 0..n /\ ~(i * g[i] >= f[i] * f[i])
    OBVIOUS
  <2>3. i # 0
    BY <1>6, <2>2
  <2>4. i - 1 \in 0..n /\ i \in 1..n /\ ~(i <= i - 1)
    BY <1>1, <2>2, <2>3
  <2>5. i - 1 \notin Bad
    <3> HIDE DEF Bad
    <3> QED BY <2>1, <2>4
  <2>6. (i - 1) * g[i - 1] >= f[i - 1] * f[i - 1]
    BY <2>4, <2>5
  <2> DEFINE k == i - 1
             q == g[i - 1]
             a == f[i - 1]
             x == v[i]
  <2>7. k \in Nat /\ i = k + 1 /\ q \in Int /\ a \in Int /\ x \in Int /\ k * q >= a * a
        /\ f[i] = a + x /\ g[i] = q + x * x /\ (k = 0 => q = 0 /\ a = 0)
    BY <1>1, <1>6, <2>4, <2>6
  <2> HIDE DEF k, q, a, x, Bad
  <2>8. CASE k = 0
    BY <2>2, <2>7, <2>8
  <2>9. CASE k # 0
    <3>1. (k + 1) * (q + x * x) >= (a + x) * (a + x)
      BY <2>7, <2>9, OneMoreValue
    <3> QED BY <2>2, <2>7, <3>1
  <2> QED BY <2>8, <2>9
<1>8. n \in 0..n /\ f[n] \in Int /\ g[n] \in Int
  BY <1>1, <1>6
<1>9. n * g[n] >= f[n] * f[n]
  BY <1>7, <1>8
<1> QED BY <1>5, <1>8, <1>9 DEF w, n

LEMMA MeasuredData ==
  ASSUME NEW shards \in Seq(Shards), NEW horizon \in Nat \ {0}, Opens(shards, horizon)
  PROVE  LET measured == Accumulate(DataOf(shards, horizon))
         IN  /\ Accumulate(DataOf(Masked(shards), horizon)) = measured
             /\ measured.count > 0 /\ Deviation(measured).num > 0
<1> DEFINE data == DataOf(shards, horizon)
           actions == ActionsOf(data)
           measured == Accumulate(data)
           sum == SumOf(actions)
           sq == SumOf([k \in DOMAIN actions |-> actions[k] * actions[k]])
<1>1. /\ ActionsOf(DataOf(Masked(shards), horizon)) = actions
      /\ actions \in Seq(Int) /\ actions # << >>
  BY ActionsOfData
<1>2. Accumulate(DataOf(Masked(shards), horizon)) = measured
  BY <1>1 DEF Accumulate
<1>3. measured.count = Len(actions) /\ measured.sum = sum /\ measured.sum_sq = sq
  BY DEF Accumulate
<1> HIDE DEF data, actions
<1>4. Len(actions) \in Nat \ {0}
  BY <1>1, EmptySeq, LenProperties
<1>5. sum \in Int /\ sq \in Int /\ Len(actions) * sq >= sum * sum
  BY <1>1, SumOfSquares
<1> HIDE DEF sum, sq, measured
<1> DEFINE square == measured.count * measured.sum_sq - measured.sum * measured.sum
<1>6. square \in Int /\ square >= 0
  BY <1>3, <1>4, <1>5
<1>7. Deviation(measured).num = IF square = 0 THEN 1 ELSE square
  BY DEF Deviation
<1> HIDE DEF square
<1>8. Deviation(measured).num > 0
  BY <1>6, <1>7
<1> QED BY <1>2, <1>3, <1>4, <1>8 DEF measured, data

-----------------------------------------------------------------------------
(* compute_stats. *)

Measured(shards, horizon) == Accumulate(DataOf(shards, horizon))

\* The phases of compute_stats: what has been read fits the disk of its time.
PhaseIsHashed ==
  stats.at = "hashed" =>
    /\ stats = [at |-> "hashed", hash |-> stats.hash, horizon |-> stats.horizon]
    /\ stats.horizon \in Horizons \ {0} /\ (replaced = 0 => stats.hash = disk)

PhaseIsRead ==
  stats.at \in {"read", "saving"} =>
    /\ stats = [at |-> stats.at, hash |-> stats.hash, from |-> stats.from, horizon |-> stats.horizon,
                measured |-> stats.measured]
    /\ stats.from \in Disks /\ stats.horizon \in Horizons \ {0} /\ Opens(stats.from, stats.horizon)
    /\ stats.measured = Measured(stats.from, stats.horizon)
    /\ replaced = 0 => stats.hash = stats.from

FileIsUsable ==
  statsFile.how = "whole" =>
    /\ statsFile.stats.measured.count > 0 /\ Deviation(statsFile.stats.measured).num > 0
    /\ replaced = 0 => statsFile.stats.hash = statsFile.stats.from

StatsInv == disk \in Disks /\ replaced \in Nat /\ PhaseIsHashed /\ PhaseIsRead /\ FileIsUsable

LEMMA FamilyStays ==
  ASSUME family' = family, NEW shards, NEW horizon
  PROVE  /\ Opens(shards, horizon)' <=> Opens(shards, horizon)
         /\ Measured(shards, horizon)' = Measured(shards, horizon)
<1>1. ActionDim' = ActionDim
  BY DEF ActionDim
<1>2. \A s : ColumnsAgree(s)' <=> ColumnsAgree(s)
  BY <1>1 DEF ColumnsAgree
<1>3. \A s : SchemaOk(s, TRUE)' <=> SchemaOk(s, TRUE)
  BY <1>2 DEF SchemaOk, PushtSchemaOk, So100SchemaOk
<1>4. \A s, i, h : BuildWindows(s, i, "train", h)' = BuildWindows(s, i, "train", h)
  BY DEF BuildWindows, SplitContains
<1>5. TrainingWindowsOf(shards, horizon)' = TrainingWindowsOf(shards, horizon)
  BY <1>4 DEF TrainingWindowsOf
<1>6. Opens(shards, horizon)' <=> Opens(shards, horizon)
  BY <1>3, <1>5 DEF Opens
<1>7. OpenPusht(shards, StatsConfig(horizon))' = OpenPusht(shards, StatsConfig(horizon))
  BY <1>3, <1>4 DEF OpenPusht, StatsConfig
<1>8. DataOf(shards, horizon)' = DataOf(shards, horizon)
  BY <1>7 DEF DataOf, OpenDataset, OpenSo100
<1>9. Measured(shards, horizon)' = Measured(shards, horizon)
  BY <1>8 DEF Measured
<1> QED BY <1>6, <1>9

LEMMA StatsInvInit == DataInit => StatsInv
BY DEF DataInit, StatsInv, PhaseIsHashed, PhaseIsRead, FileIsUsable, NoStats

LEMMA StatsInvStep == StatsInv /\ [DataNext]_dataVars => StatsInv'
<1> SUFFICES ASSUME StatsInv, [DataNext]_dataVars PROVE StatsInv'
  OBVIOUS
<1> USE DEF StatsInv
<1>1. family' = family
  BY DEF DataNext, Open, NextBatch, Replace, ComputeStats, HashData, ReadData, TruncateStats, SaveStats,
         StatsCrash, dataVars
<1>2. \A shards, horizon : (Opens(shards, horizon)' <=> Opens(shards, horizon))
                           /\ Measured(shards, horizon)' = Measured(shards, horizon)
  BY <1>1, FamilyStays
<1>3. ASSUME UNCHANGED <<disk, replaced, stats>>, PhaseIsRead PROVE PhaseIsRead' /\ PhaseIsHashed'
  <2>1. PhaseIsHashed'
    BY <1>3 DEF PhaseIsHashed
  <2>2. PhaseIsRead'
    BY <1>2, <1>3 DEF PhaseIsRead
  <2> QED BY <2>1, <2>2
<1>4. ASSUME UNCHANGED <<replaced, statsFile>> PROVE FileIsUsable'
  BY <1>4 DEF FileIsUsable
<1>5. ASSUME stats' = NoStats PROVE PhaseIsRead' /\ PhaseIsHashed'
  BY <1>5 DEF PhaseIsHashed, PhaseIsRead, NoStats
<1>6. CASE Open \/ NextBatch \/ UNCHANGED dataVars
  <2>1. UNCHANGED <<disk, replaced, stats, statsFile>>
    BY <1>6 DEF Open, NextBatch, dataVars
  <2> QED BY <1>3, <1>4, <2>1
<1>7. CASE Replace
  <2>1. /\ disk' \in Disks /\ replaced' = replaced + 1 /\ UNCHANGED <<stats, statsFile>>
    BY <1>7 DEF Replace
  <2>2. replaced' \in Nat /\ replaced' # 0
    BY <2>1
  <2>3. PhaseIsHashed'
    BY <2>1, <2>2 DEF PhaseIsHashed
  <2>4. PhaseIsRead'
    BY <1>2, <2>1, <2>2 DEF PhaseIsRead
  <2>5. FileIsUsable'
    BY <2>1, <2>2 DEF FileIsUsable
  <2> QED BY <2>1, <2>2, <2>3, <2>4, <2>5
<1>8. CASE HashData
  <2>1. PICK horizon \in Horizons \ {0} : stats' = [at |-> "hashed", hash |-> disk, horizon |-> horizon]
    BY <1>8 DEF HashData
  <2>2. UNCHANGED <<disk, statsFile, replaced>>
    BY <1>8 DEF HashData
  <2>3. PhaseIsHashed' /\ PhaseIsRead'
    BY <2>1, <2>2 DEF PhaseIsHashed, PhaseIsRead
  <2> QED BY <1>4, <2>2, <2>3
<1>9. CASE ReadData
  <2>1. UNCHANGED <<disk, statsFile, replaced>> /\ stats.at = "hashed"
    BY <1>9 DEF ReadData
  <2>2. stats' = NoStats \/ /\ DataOf(disk, stats.horizon).how = "open"
                            /\ stats' = [at |-> "read", hash |-> stats.hash, from |-> disk, horizon |-> stats.horizon,
                                         measured |-> Measured(disk, stats.horizon)]
    BY <1>9 DEF ReadData, DataOf, Measured
  <2>3. CASE stats' = NoStats
    BY <1>4, <1>5, <2>1, <2>3
  <2>4. CASE stats' # NoStats
    <3>1. stats.horizon \in Horizons \ {0} /\ (replaced = 0 => stats.hash = disk)
      BY <2>1 DEF PhaseIsHashed
    <3>2. stats.horizon \in Nat \ {0}
      BY <3>1, DataAssumption
    <3>3. Opens(disk, stats.horizon)
      BY <2>2, <2>4, <3>2, DataThatOpens
    <3>4. /\ stats'.at = "read" /\ stats'.hash = stats.hash /\ stats'.from = disk /\ stats'.horizon = stats.horizon
          /\ stats'.measured = Measured(disk, stats.horizon)
          /\ stats' = [at |-> stats'.at, hash |-> stats'.hash, from |-> stats'.from, horizon |-> stats'.horizon,
                       measured |-> stats'.measured]
      BY <2>2, <2>4
    <3>5. PhaseIsHashed'
      BY <3>4 DEF PhaseIsHashed
    <3>6. PhaseIsRead'
      BY <1>2, <2>1, <3>1, <3>3, <3>4 DEF PhaseIsRead
    <3> QED BY <1>4, <2>1, <3>5, <3>6
  <2> QED BY <2>3, <2>4
<1>10. CASE TruncateStats
  <2>1. /\ UNCHANGED <<disk, replaced>> /\ stats.at = "read" /\ stats' = [stats EXCEPT !.at = "saving"]
        /\ statsFile' = [how |-> "torn"]
    BY <1>10 DEF TruncateStats
  <2>2. stats = [at |-> stats.at, hash |-> stats.hash, from |-> stats.from, horizon |-> stats.horizon,
                 measured |-> stats.measured]
    BY <2>1 DEF PhaseIsRead
  <2>3. stats' = [at |-> "saving", hash |-> stats.hash, from |-> stats.from, horizon |-> stats.horizon,
                  measured |-> stats.measured]
    BY <2>1, <2>2
  <2>4. PhaseIsHashed' /\ FileIsUsable'
    BY <2>1, <2>3 DEF PhaseIsHashed, FileIsUsable
  <2>5. PhaseIsRead'
    BY <1>2, <2>1, <2>3 DEF PhaseIsRead
  <2> QED BY <2>1, <2>4, <2>5
<1>11. CASE SaveStats
  <2>1. /\ UNCHANGED <<disk, replaced>> /\ stats.at = "saving" /\ stats' = NoStats
        /\ statsFile' = [how |-> "whole", stats |-> stats]
    BY <1>11 DEF SaveStats
  <2>2. /\ stats.from \in Disks /\ stats.horizon \in Horizons \ {0} /\ Opens(stats.from, stats.horizon)
        /\ stats.measured = Measured(stats.from, stats.horizon)
        /\ replaced = 0 => stats.hash = stats.from
    BY <2>1 DEF PhaseIsRead
  <2>3. stats.from \in Seq(Shards) /\ stats.horizon \in Nat \ {0}
    BY <2>2, DataAssumption
  <2>4. stats.measured.count > 0 /\ Deviation(stats.measured).num > 0
    BY <2>2, <2>3, MeasuredData DEF Measured
  <2>5. FileIsUsable'
    BY <2>1, <2>2, <2>4 DEF FileIsUsable
  <2> QED BY <1>5, <2>1, <2>5
<1>12. CASE StatsCrash
  <2>1. stats' = NoStats /\ UNCHANGED <<disk, statsFile, replaced>>
    BY <1>12 DEF StatsCrash
  <2> QED BY <1>4, <1>5, <2>1
<1> QED BY <1>6, <1>7, <1>8, <1>9, <1>10, <1>11, <1>12 DEF DataNext, ComputeStats

LEMMA StatsInvImplies == StatsInv => StatsAreOfTheTrainingSplit
<1> SUFFICES ASSUME StatsInv PROVE EvaluationNeverLeaks /\ LoadedStatsAreWhole
  BY DEF StatsAreOfTheTrainingSplit
<1>1. EvaluationNeverLeaks
  <2> SUFFICES ASSUME stats.at = "read"
               PROVE  stats.measured = Accumulate(OpenDataset(Masked(stats.from), StatsConfig(stats.horizon)))
    BY DEF EvaluationNeverLeaks
  <2>1. /\ stats.from \in Disks /\ stats.horizon \in Horizons \ {0} /\ Opens(stats.from, stats.horizon)
        /\ stats.measured = Measured(stats.from, stats.horizon)
    BY DEF StatsInv, PhaseIsRead
  <2>2. stats.from \in Seq(Shards) /\ stats.horizon \in Nat \ {0}
    BY <2>1, DataAssumption
  <2>3. Accumulate(DataOf(Masked(stats.from), stats.horizon)) = stats.measured
    BY <2>1, <2>2, MeasuredData DEF Measured
  <2> QED BY <2>3 DEF DataOf
<1>2. LoadedStatsAreWhole
  BY DEF StatsInv, FileIsUsable, LoadedStatsAreWhole, LoadStats
<1> QED BY <1>1, <1>2

(* Whatever the shards on disk are, however often they are replaced and wherever
   compute_stats is killed, the sums it saves are those of the training split
   alone, and a statistics file that loads is whole, divides by no zero and
   carries the hash of its data unless the data was replaced (stats.rs). *)
THEOREM StatsStayOfTheTrainingSplit == DataSpec => []StatsAreOfTheTrainingSplit
<1>1. DataSpec => []StatsInv
  BY StatsInvInit, StatsInvStep, PTL DEF DataSpec
<1> QED BY <1>1, StatsInvImplies, PTL

-----------------------------------------------------------------------------
(* The windows of either split. *)

\* A run of rows inside one episode of the split, from this row on.
InSplit(s, split, horizon, start, row) ==
  /\ SplitContains(split, EpisodeAt(s, start).id)
  /\ row \in Nat /\ start <= row /\ row + horizon <= start + EpisodeAt(s, start).len

AnyWindow == [shard : Nat, row_start : Nat, episode_id : Nat, start_frame : Int]

\* The windows q of a shard are its runs, each once.
WindowsAre(q, s, shard, split, horizon) ==
  /\ q \in Seq(AnyWindow)
  /\ \A k \in 1..Len(q) :
       q[k].shard = shard /\ \E start \in EpisodeStarts(s) : InSplit(s, split, horizon, start, q[k].row_start)
  /\ \A start \in EpisodeStarts(s), row \in Nat :
       InSplit(s, split, horizon, start, row) => \E k \in 1..Len(q) : q[k].row_start = row
  /\ \A k, l \in 1..Len(q) : q[k].row_start = q[l].row_start => k = l

LEMMA EpisodeWindows ==
  ASSUME NEW s \in Shards, EpisodesOk(s), NEW start \in EpisodeStarts(s), NEW shard \in Nat, NEW horizon \in Nat \ {0}
  PROVE  LET e == EpisodeAt(s, start)
             q == WindowsOf(e, shard, horizon)
         IN  /\ q \in Seq(AnyWindow)
             /\ \A k \in 1..Len(q) :
                  /\ q[k].shard = shard /\ q[k].row_start = start + k - 1
                  /\ q[k].row_start + horizon <= start + e.len
             /\ \A row \in Nat : start <= row /\ row + horizon <= start + e.len => row - start + 1 \in 1..Len(q)
<1> DEFINE e == EpisodeAt(s, start)
           n == e.len - horizon + 1
           q == WindowsOf(e, shard, horizon)
<1>1. e.row_start = start /\ e.len \in Nat /\ start \in Nat \ {0} /\ e.id \in Nat /\ e.first_timestep \in Int
  <2>1. Len(s.timestep) \in Nat
    BY DEF Shards
  <2> QED BY <2>1, EpisodeShape
<1> HIDE DEF e
<1>2. q = [offset \in 1..n |-> [shard |-> shard, row_start |-> e.row_start + offset - 1,
                                episode_id |-> e.id, start_frame |-> e.first_timestep + offset - 1]]
  BY DEF WindowsOf
<1>3. n \in Int
  BY <1>1
<1>4. ASSUME NEW k \in 1..n
      PROVE  /\ q[k] \in AnyWindow /\ q[k].shard = shard /\ q[k].row_start = start + k - 1
             /\ q[k].row_start + horizon <= start + e.len
  <2>1. q[k] = [shard |-> shard, row_start |-> start + k - 1, episode_id |-> e.id, start_frame |-> e.first_timestep + k - 1]
    BY <1>1, <1>2
  <2>2. k \in Nat /\ 1 <= k /\ k <= e.len - horizon + 1
    BY <1>3
  <2>3. start + k - 1 \in Nat /\ e.first_timestep + k - 1 \in Int /\ (start + k - 1) + horizon <= start + e.len
    BY <1>1, <2>2
  <2> QED BY <1>1, <2>1, <2>3 DEF AnyWindow
<1>5. q \in Seq(AnyWindow) /\ \A k \in Int : k \in 1..Len(q) <=> k \in 1..n
  <2>1. CASE n <= 0
    <3>1. 1..n = {}
      BY <1>3, <2>1
    <3>2. q = << >>
      BY <1>2, <3>1
    <3> QED BY <3>1, <3>2
  <2>2. CASE n > 0
    <3>1. n \in Nat
      BY <1>3, <2>2
    <3>2. q = [k \in 1..n |-> q[k]]
      BY <1>2
    <3>3. q \in Seq(AnyWindow) /\ Len(q) = n
      <4> HIDE DEF q, n
      <4> QED BY <1>4, <3>1, <3>2, AsSeq
    <3> QED BY <3>3
  <2> QED BY <1>3, <2>1, <2>2
<1>6. ASSUME NEW row \in Nat, start <= row, row + horizon <= start + e.len PROVE row - start + 1 \in 1..n
  BY <1>1, <1>3, <1>6
<1>7. Len(q) \in Nat
  BY <1>5
<1> HIDE DEF q, n
<1>8. \A k \in 1..Len(q) : k \in 1..n
  BY <1>5, <1>7
<1>9. \A row \in Nat : start <= row /\ row + horizon <= start + e.len => row - start + 1 \in 1..Len(q)
  BY <1>1, <1>5, <1>6
<1> QED BY <1>4, <1>5, <1>8, <1>9 DEF q, e

\* Every start has its rank.
LEMMA StartsHaveRanks ==
  ASSUME NEW s \in Shards, s.timestep # << >>, NEW start \in EpisodeStarts(s)
  PROVE  /\ Ordinal(s, start) \in 1..Cardinality(EpisodeStarts(s)) /\ Cardinality(EpisodeStarts(s)) \in Nat
         /\ StartOfEpisode(s, Ordinal(s, start)) = start
<1> DEFINE E == EpisodeStarts(s)
           Upto(r) == {x \in E : x <= r}
<1>1. E \subseteq Nat /\ IsFiniteSet(E) /\ Cardinality(E) \in Nat
  <2>1. E \subseteq 1..Len(s.timestep) /\ Len(s.timestep) \in Nat /\ IsFiniteSet(E)
    BY StartsAreRows
  <2>2. E \subseteq Nat
    BY <2>1
  <2> QED BY <2>1, <2>2, FS_CardinalityType
<1>2. \A r \in E : Ordinal(s, r) = Cardinality(Upto(r))
  BY DEF Ordinal
<1>3. start \in E
  OBVIOUS
<1> HIDE DEF E
<1>4. Ordinal(s, start) \in 1..Cardinality(E)
  BY <1>1, <1>2, <1>3, UptoGrows
<1>5. ASSUME NEW q \in E, NEW r \in E, q < r PROVE Ordinal(s, q) # Ordinal(s, r)
  BY <1>1, <1>2, <1>5, UptoGrows
<1> DEFINE again == StartOfEpisode(s, Ordinal(s, start))
<1>6. again \in E /\ Ordinal(s, again) = Ordinal(s, start)
  BY <1>4, RanksHaveStarts DEF E
<1>7. again < start \/ start < again \/ again = start
  <2> HIDE DEF again
  <2> QED BY <1>1, <1>3, <1>6
<1>8. again = start
  <2>1. again \in E /\ start \in E
    BY <1>3, <1>6
  <2>2. ~(again < start) /\ ~(start < again)
    <3> HIDE DEF again
    <3> QED BY <1>5, <1>6, <2>1
  <2> QED BY <1>7, <2>2
<1> QED BY <1>1, <1>4, <1>8 DEF E

LEMMA ShardWindows ==
  ASSUME NEW s \in Shards, EpisodesOk(s), NEW shard \in Nat, NEW split, NEW horizon \in Nat \ {0}
  PROVE  WindowsAre(BuildWindows(s, shard, split, horizon), s, shard, split, horizon)
<1> DEFINE n == Cardinality(EpisodeStarts(s))
           start(i) == StartOfEpisode(s, i)
           wanted(i) == SplitContains(split, EpisodeAt(s, start(i)).id) /\ ~(EpisodeAt(s, start(i)).len < horizon)
           windows(i) == WindowsOf(EpisodeAt(s, start(i)), shard, horizon)
           parts == [i \in 1..n |-> IF wanted(i) THEN windows(i) ELSE << >>]
           q == BuildWindows(s, shard, split, horizon)
<1>1. s.timestep # << >>
  BY DEF EpisodesOk
<1>2. n \in Nat /\ DOMAIN BuildEpisodes(s) = 1..n
  <2>1. IsFiniteSet(EpisodeStarts(s))
    BY <1>1, StartsAreRows
  <2> QED BY <2>1, FS_CardinalityType DEF BuildEpisodes
<1>3. \A i \in 1..n : start(i) \in EpisodeStarts(s) /\ Ordinal(s, start(i)) = i
  BY <1>1, RanksHaveStarts
<1>4. q = FlattenSeq(parts)
  BY DEF BuildWindows, BuildEpisodes
<1>5. ASSUME NEW i \in 1..n
      PROVE  /\ windows(i) \in Seq(AnyWindow)
             /\ \A j \in 1..Len(windows(i)) :
                  /\ windows(i)[j].shard = shard /\ windows(i)[j].row_start = start(i) + j - 1
                  /\ windows(i)[j].row_start + horizon <= start(i) + EpisodeAt(s, start(i)).len
             /\ \A row \in Nat : start(i) <= row /\ row + horizon <= start(i) + EpisodeAt(s, start(i)).len
                                 => row - start(i) + 1 \in 1..Len(windows(i))
  BY <1>3, EpisodeWindows
<1>6. \A i \in 1..n : start(i) \in Nat /\ EpisodeAt(s, start(i)).len \in Nat
  <2>1. Len(s.timestep) \in Nat
    BY DEF Shards
  <2> QED BY <1>3, <2>1, EpisodeShape
<1> HIDE DEF windows, wanted
<1>7. parts \in [1..n -> Seq(AnyWindow)]
  BY <1>5
<1>8. q \in Seq(AnyWindow) /\ \E a, b : LaidOut(parts, n, q, a, b)
  <2> HIDE DEF parts, n, q
  <2> QED BY <1>2, <1>4, <1>7, FlattenedIsLaidOut
<1>9. PICK a, b : LaidOut(parts, n, q, a, b)
  BY <1>8
<1>10. /\ \A k \in 1..Len(q) : a[k] \in 1..n /\ b[k] \in 1..Len(parts[a[k]]) /\ q[k] = parts[a[k]][b[k]]
       /\ \A k, l \in 1..Len(q) : a[k] = a[l] /\ b[k] = b[l] => k = l
       /\ \A i \in 1..n : \A j \in 1..Len(parts[i]) : \E k \in 1..Len(q) : a[k] = i /\ b[k] = j
  BY <1>9 DEF LaidOut
<1> HIDE DEF q
<1>11. ASSUME NEW k \in 1..Len(q)
       PROVE  /\ a[k] \in 1..n /\ wanted(a[k]) /\ b[k] \in Nat /\ q[k].shard = shard
              /\ q[k].row_start = start(a[k]) + b[k] - 1 /\ q[k].row_start \in Nat
              /\ start(a[k]) <= q[k].row_start /\ q[k].row_start + horizon <= start(a[k]) + EpisodeAt(s, start(a[k])).len
  <2>1. a[k] \in 1..n /\ b[k] \in 1..Len(parts[a[k]]) /\ q[k] = parts[a[k]][b[k]]
    BY <1>10
  <2>2. parts[a[k]] # << >>
    BY <2>1
  <2>3. wanted(a[k]) /\ parts[a[k]] = windows(a[k])
    BY <2>1, <2>2
  <2> HIDE DEF parts
  <2>4. /\ q[k].shard = shard /\ q[k].row_start = start(a[k]) + b[k] - 1
        /\ q[k].row_start + horizon <= start(a[k]) + EpisodeAt(s, start(a[k])).len
    BY <1>5, <2>1, <2>3
  <2>5. b[k] \in Nat /\ b[k] >= 1
    <3>1. Len(windows(a[k])) \in Nat
      BY <1>5, <2>1
    <3> QED BY <2>1, <2>3, <3>1
  <2>6. start(a[k]) \in Nat
    BY <1>6, <2>1
  <2> HIDE DEF start
  <2>7. q[k].row_start \in Nat /\ start(a[k]) <= q[k].row_start
    BY <2>4, <2>5, <2>6
  <2> QED BY <2>1, <2>3, <2>4, <2>5, <2>7
<1>12. ASSUME NEW k \in 1..Len(q)
       PROVE  q[k].shard = shard /\ \E st \in EpisodeStarts(s) : InSplit(s, split, horizon, st, q[k].row_start)
  <2>1. start(a[k]) \in EpisodeStarts(s)
    BY <1>3, <1>11
  <2>2. InSplit(s, split, horizon, start(a[k]), q[k].row_start)
    BY <1>11 DEF InSplit, wanted
  <2> QED BY <1>11, <2>1, <2>2
<1>13. ASSUME NEW st \in EpisodeStarts(s), NEW row \in Nat, InSplit(s, split, horizon, st, row)
       PROVE  \E k \in 1..Len(q) : q[k].row_start = row
  <2> DEFINE i == Ordinal(s, st)
  <2>1. i \in 1..n /\ start(i) = st
    BY <1>1, StartsHaveRanks
  <2> HIDE DEF i, start
  <2>2. start(i) <= row /\ row + horizon <= start(i) + EpisodeAt(s, start(i)).len
    BY <1>13, <2>1 DEF InSplit
  <2>3. ~(EpisodeAt(s, start(i)).len < horizon)
    BY <1>6, <2>1, <2>2
  <2>4. wanted(i)
    BY <1>13, <2>1, <2>3 DEF InSplit, wanted
  <2>5. parts[i] = windows(i)
    BY <2>1, <2>4
  <2>6. row - start(i) + 1 \in 1..Len(parts[i])
    BY <1>5, <2>1, <2>2, <2>5
  <2>7. PICK k \in 1..Len(q) : a[k] = i /\ b[k] = row - start(i) + 1
    BY <1>10, <2>1, <2>6
  <2>8. q[k].row_start = start(i) + (row - start(i) + 1) - 1
    BY <1>11, <2>7
  <2> QED BY <1>6, <2>1, <2>8
<1>14. ASSUME NEW k \in 1..Len(q), NEW l \in 1..Len(q), q[k].row_start = q[l].row_start PROVE k = l
  <2> DEFINE row == q[k].row_start
  <2>1. row \in start(a[k])..(start(a[k]) + EpisodeAt(s, start(a[k])).len - 1)
    BY <1>6, <1>11
  <2>2. row \in start(a[l])..(start(a[l]) + EpisodeAt(s, start(a[l])).len - 1)
    BY <1>6, <1>11, <1>14
  <2>3. row \in Int /\ start(a[k]) \in EpisodeStarts(s) /\ start(a[l]) \in EpisodeStarts(s)
    BY <1>3, <1>11
  <2>4. start(a[k]) = start(a[l])
    <3> HIDE DEF row
    <3> QED BY <2>1, <2>2, <2>3, EpisodesAreDisjoint
  <2>5. a[k] = a[l]
    BY <1>3, <1>11, <2>4
  <2>6. b[k] = b[l]
    <3>1. start(a[k]) + b[k] - 1 = start(a[k]) + b[l] - 1
      BY <1>11, <1>14, <2>4
    <3>2. start(a[k]) \in Nat /\ b[k] \in Nat /\ b[l] \in Nat
      BY <1>6, <1>11
    <3> HIDE DEF start
    <3> QED BY <3>1, <3>2
  <2> QED BY <1>10, <2>5, <2>6
<1> QED BY <1>8, <1>12, <1>13, <1>14 DEF WindowsAre, q

WindowsOfAll(shards, split, horizon) ==
  FlattenSeq([i \in DOMAIN shards |-> BuildWindows(shards[i], i, split, horizon)])

\* The windows q of a data set are the runs of its shards, each once.
DataWindowsAre(q, shards, split, horizon) ==
  /\ q \in Seq(AnyWindow)
  /\ \A k \in DOMAIN q :
       /\ q[k].shard \in DOMAIN shards
       /\ \E start \in EpisodeStarts(shards[q[k].shard]) :
            InSplit(shards[q[k].shard], split, horizon, start, q[k].row_start)
  /\ \A i \in DOMAIN shards : \A start \in EpisodeStarts(shards[i]), row \in Nat :
       InSplit(shards[i], split, horizon, start, row) =>
         \E k \in DOMAIN q : q[k].shard = i /\ q[k].row_start = row
  /\ \A k, l \in DOMAIN q : q[k].shard = q[l].shard /\ q[k].row_start = q[l].row_start => k = l

LEMMA DataWindows ==
  ASSUME NEW shards \in Seq(Shards), \A i \in DOMAIN shards : EpisodesOk(shards[i]), NEW split, NEW horizon \in Nat \ {0}
  PROVE  DataWindowsAre(WindowsOfAll(shards, split, horizon), shards, split, horizon)
<1> DEFINE n == Len(shards)
           parts == [i \in 1..n |-> BuildWindows(shards[i], i, split, horizon)]
           q == WindowsOfAll(shards, split, horizon)
<1>1. n \in Nat /\ DOMAIN shards = 1..n /\ \A i \in 1..n : i \in Nat /\ shards[i] \in Shards /\ EpisodesOk(shards[i])
  OBVIOUS
<1>2. \A i \in 1..n : WindowsAre(BuildWindows(shards[i], i, split, horizon), shards[i], i, split, horizon)
  BY <1>1, ShardWindows
<1>3. q = FlattenSeq(parts)
  BY <1>1 DEF WindowsOfAll
<1>4. \A i \in 1..n : parts[i] \in Seq(AnyWindow) /\ WindowsAre(parts[i], shards[i], i, split, horizon)
  <2> SUFFICES ASSUME NEW i \in 1..n PROVE parts[i] \in Seq(AnyWindow) /\ WindowsAre(parts[i], shards[i], i, split, horizon)
    OBVIOUS
  <2>1. parts[i] = BuildWindows(shards[i], i, split, horizon)
    OBVIOUS
  <2>2. WindowsAre(parts[i], shards[i], i, split, horizon)
    BY <1>2, <2>1
  <2> HIDE DEF parts
  <2> QED BY <2>2 DEF WindowsAre
<1>5. parts \in [1..n -> Seq(AnyWindow)]
  BY <1>4
<1> HIDE DEF parts, q, n
<1>6. q \in Seq(AnyWindow) /\ \E a, b : LaidOut(parts, n, q, a, b)
  BY <1>1, <1>3, <1>5, FlattenedIsLaidOut
<1>7. PICK a, b : LaidOut(parts, n, q, a, b)
  BY <1>6
<1>8. /\ \A k \in 1..Len(q) : a[k] \in 1..n /\ b[k] \in 1..Len(parts[a[k]]) /\ q[k] = parts[a[k]][b[k]]
      /\ \A k, l \in 1..Len(q) : a[k] = a[l] /\ b[k] = b[l] => k = l
      /\ \A i \in 1..n : \A j \in 1..Len(parts[i]) : \E k \in 1..Len(q) : a[k] = i /\ b[k] = j
  BY <1>7 DEF LaidOut
<1>9. \A i \in 1..n :
        /\ \A j \in 1..Len(parts[i]) :
             parts[i][j].shard = i /\ \E start \in EpisodeStarts(shards[i]) : InSplit(shards[i], split, horizon, start, parts[i][j].row_start)
        /\ \A start \in EpisodeStarts(shards[i]), row \in Nat :
             InSplit(shards[i], split, horizon, start, row) => \E j \in 1..Len(parts[i]) : parts[i][j].row_start = row
        /\ \A j, l \in 1..Len(parts[i]) : parts[i][j].row_start = parts[i][l].row_start => j = l
  BY <1>4 DEF WindowsAre
<1>10. DOMAIN q = 1..Len(q)
  BY <1>6
<1>11. ASSUME NEW k \in DOMAIN q
       PROVE  /\ q[k].shard = a[k] /\ a[k] \in 1..n
              /\ \E start \in EpisodeStarts(shards[q[k].shard]) :
                   InSplit(shards[q[k].shard], split, horizon, start, q[k].row_start)
  <2>1. a[k] \in 1..n /\ b[k] \in 1..Len(parts[a[k]]) /\ q[k] = parts[a[k]][b[k]]
    BY <1>8, <1>10
  <2> DEFINE i == a[k]
             w == parts[a[k]][b[k]]
  <2>2. w.shard = i /\ \E start \in EpisodeStarts(shards[i]) : InSplit(shards[i], split, horizon, start, w.row_start)
    BY <1>9, <2>1
  <2> QED BY <2>1, <2>2
<1>12. ASSUME NEW i \in 1..n, NEW start \in EpisodeStarts(shards[i]), NEW row \in Nat,
              InSplit(shards[i], split, horizon, start, row)
       PROVE  \E k \in DOMAIN q : q[k].shard = i /\ q[k].row_start = row
  <2>1. PICK j \in 1..Len(parts[i]) : parts[i][j].row_start = row
    <3>1. \A st \in EpisodeStarts(shards[i]), r \in Nat :
             InSplit(shards[i], split, horizon, st, r) => \E j \in 1..Len(parts[i]) : parts[i][j].row_start = r
      BY <1>9
    <3> QED BY <1>12, <3>1
  <2>2. PICK k \in 1..Len(q) : a[k] = i /\ b[k] = j
    BY <1>8
  <2>3. q[k].shard = i /\ q[k].row_start = row
    BY <1>8, <1>10, <1>11, <2>1, <2>2
  <2> QED BY <1>10, <2>3
<1>13. ASSUME NEW k \in DOMAIN q, NEW l \in DOMAIN q, q[k].shard = q[l].shard, q[k].row_start = q[l].row_start
       PROVE  k = l
  <2>1. a[k] = a[l] /\ a[k] \in 1..n
    BY <1>11, <1>13
  <2>2. /\ b[k] \in 1..Len(parts[a[k]]) /\ q[k] = parts[a[k]][b[k]]
        /\ b[l] \in 1..Len(parts[a[k]]) /\ q[l] = parts[a[k]][b[l]]
    BY <1>8, <1>10, <2>1
  <2>3. b[k] = b[l]
    BY <1>9, <1>13, <2>1, <2>2
  <2> QED BY <1>8, <1>10, <2>1, <2>3
<1> QED BY <1>1, <1>6, <1>11, <1>12, <1>13 DEF q, DataWindowsAre

-----------------------------------------------------------------------------
(* The rows of an episode. *)

LEMMA EpisodeEnds ==
  ASSUME NEW s \in Shards, EpisodesOk(s), NEW start \in EpisodeStarts(s)
  PROVE  LET end == start + EpisodeAt(s, start).len
         IN  end = Len(s.timestep) + 1 \/ (end \in EpisodeStarts(s) /\ start < end)
<1> DEFINE later == {r \in EpisodeStarts(s) : r > start}
           e == EpisodeAt(s, start)
           n == Len(s.timestep)
<1>1. EpisodeStarts(s) \subseteq 1..n /\ n \in Nat
  BY StartsAreRows DEF EpisodesOk
<1>2. e.len = (IF later = {} THEN n + 1 ELSE Min(later)) - start
  BY DEF EpisodeAt
<1>3. start \in Nat
  BY <1>1
<1>4. CASE later = {}
  BY <1>1, <1>2, <1>3, <1>4
<1>5. CASE later # {}
  <2>1. later \in SUBSET Nat
    BY <1>1
  <2>2. Min(later) \in later
    <3> HIDE DEF later
    <3> QED BY <1>5, <2>1, MinOfNaturals
  <2>3. Min(later) \in EpisodeStarts(s) /\ Min(later) > start /\ Min(later) \in Nat
    BY <2>1, <2>2
  <2>4. e.len = Min(later) - start
    BY <1>2, <1>5
  <2>5. start + e.len = Min(later)
    BY <1>3, <2>3, <2>4
  <2> QED BY <2>3, <2>5
<1> QED BY <1>4, <1>5

\* Every row lies in an episode: in that of the last start before it.
LEMMA EpisodeOfRow ==
  ASSUME NEW s \in Shards, EpisodesOk(s), NEW row \in 1..Len(s.timestep)
  PROVE  \E start \in EpisodeStarts(s) : start <= row /\ row < start + EpisodeAt(s, start).len
<1> DEFINE E == EpisodeStarts(s)
           n == Len(s.timestep)
           before == {r \in E : r <= row}
<1>1. E \subseteq 1..n /\ 1 \in E /\ n \in Nat /\ IsFiniteSet(E)
  BY StartsAreRows DEF EpisodesOk
<1>2. before \in SUBSET Nat /\ IsFiniteSet(before) /\ before # {}
  <2>1. before \in SUBSET E /\ 1 \in before
    BY <1>1
  <2> QED BY <1>1, <2>1, FS_Subset
<1>3. PICK start \in before : \A r \in before : r <= start
  <2> HIDE DEF before
  <2>1. Greatest(before, Max(before))
    BY <1>2, FiniteSetsHaveAGreatest
  <2> QED BY <2>1 DEF Greatest
<1>4. start \in E /\ start <= row /\ start \in Nat
  BY <1>1, <1>3
<1> DEFINE end == start + EpisodeAt(s, start).len
<1>5. end = n + 1 \/ (end \in E /\ start < end)
  BY <1>4, EpisodeEnds
<1> HIDE DEF end
<1>6. row < end
  <2>1. CASE end = n + 1
    BY <1>1, <2>1
  <2>2. CASE end \in E /\ start < end
    <3>1. end \notin before /\ end \in Nat
      BY <1>1, <1>3, <1>4, <2>2
    <3> QED BY <1>1, <2>2, <3>1
  <2> QED BY <1>5, <2>1, <2>2
<1> QED BY <1>4, <1>6 DEF end

LEMMA ShardColumns ==
  ASSUME NEW s \in Shards
  PROVE  /\ s.timestep \in Seq(Int) /\ s.episode_index \in Seq(Int) /\ Len(s.timestep) \in Nat
         /\ \A r \in 1..Len(s.timestep) : s.timestep[r] \in Int
BY DEF Shards

\* A row after the start is no start, so that it has the id of the one before, and counts up.
LEMMA NextRow ==
  ASSUME NEW s \in Shards, EpisodesOk(s), CountsUp(s), NEW start \in EpisodeStarts(s), NEW row \in Int,
         start < row, row < start + EpisodeAt(s, start).len
  PROVE  /\ row \in 2..Len(s.timestep) /\ s.timestep[row] = s.timestep[row - 1] + 1
         /\ PerRowIds(s) => s.episode_index[row] = s.episode_index[row - 1]
<1>1. /\ start \in 1..Len(s.timestep) /\ start + EpisodeAt(s, start).len <= Len(s.timestep) + 1
      /\ EpisodeAt(s, start).len \in Nat /\ \A q \in EpisodeStarts(s) : q > start => start + EpisodeAt(s, start).len <= q
  BY EpisodeShape
<1>2. Len(s.timestep) \in Nat
  BY ShardColumns
<1>3. row \in 2..Len(s.timestep) /\ row \notin EpisodeStarts(s)
  BY <1>1, <1>2
<1>4. s.timestep[row] # 0 /\ ~(PerRowIds(s) /\ s.episode_index[row] # s.episode_index[row - 1])
  BY <1>3 DEF EpisodeStarts
<1>5. \/ s.timestep[row] = 0 \/ s.timestep[row] = s.timestep[row - 1] + 1
      \/ PerRowIds(s) /\ s.episode_index[row] # s.episode_index[row - 1]
  BY <1>3 DEF CountsUp
<1> QED BY <1>3, <1>4, <1>5

\* So all rows of an episode have the id of its start, and timesteps from it on.
LEMMA RowsOfEpisode ==
  ASSUME NEW s \in Shards, EpisodesOk(s), CountsUp(s), NEW start \in EpisodeStarts(s), NEW row \in Int,
         start <= row, row < start + EpisodeAt(s, start).len
  PROVE  /\ s.timestep[row] \in Nat
         /\ PerRowIds(s) => s.episode_index[row] = s.episode_index[start]
<1> DEFINE n == EpisodeAt(s, start).len - 1
           S == {k \in 0..n : /\ s.timestep[start + k] \in Nat
                              /\ PerRowIds(s) => s.episode_index[start + k] = s.episode_index[start]}
<1>1. start \in 1..Len(s.timestep) /\ EpisodeAt(s, start).len \in Nat
  BY EpisodeShape
<1>2. Len(s.timestep) \in Nat /\ s.timestep[start] \in Int
  BY <1>1, ShardColumns
<1>3. start \in Nat /\ n \in Nat /\ row - start \in 0..n
  BY <1>1, <1>2
<1>4. 0 \in S
  <2>1. s.timestep[start] >= 0
    BY DEF EpisodesOk
  <2>2. start + 0 = start /\ 0 \in 0..n
    BY <1>3
  <2> QED BY <1>2, <2>1, <2>2
<1>5. ASSUME NEW k \in 1..n, k - 1 \in S PROVE k \in S
  <2>1. start + k \in Int /\ start < start + k /\ start + k < start + EpisodeAt(s, start).len /\ (start + k) - 1 = start + (k - 1)
    BY <1>1, <1>3
  <2>2. /\ s.timestep[start + k] = s.timestep[start + (k - 1)] + 1
        /\ PerRowIds(s) => s.episode_index[start + k] = s.episode_index[start + (k - 1)]
    BY <2>1, NextRow
  <2> QED BY <1>5, <2>2
<1>6. row - start \in S
  <2> HIDE DEF S, n
  <2> QED BY <1>3, <1>4, <1>5, Induction
<1>7. start + (row - start) = row
  BY <1>3
<1> QED BY <1>6, <1>7

\* A window lies in one episode.
LEMMA WindowIsOneEpisode ==
  ASSUME NEW s \in Shards, EpisodesOk(s), CountsUp(s), NEW start \in EpisodeStarts(s), NEW row \in Nat,
         NEW horizon \in Nat \ {0}, start <= row, row + horizon <= start + EpisodeAt(s, start).len
  PROVE  OneEpisode(s, row, horizon)
<1>1. /\ start \in 1..Len(s.timestep) /\ start + EpisodeAt(s, start).len <= Len(s.timestep) + 1 /\ EpisodeAt(s, start).len \in Nat
  BY EpisodeShape
<1>2. Len(s.timestep) \in Nat
  BY ShardColumns
<1>3. row + horizon - 1 <= Len(s.timestep)
  BY <1>1, <1>2
<1>4. ASSUME NEW r \in (row + 1)..(row + horizon - 1)
      PROVE  /\ s.timestep[r] = s.timestep[r - 1] + 1
             /\ PerRowIds(s) => s.episode_index[r] = s.episode_index[r - 1]
  <2>1. r \in Int /\ start < r /\ r < start + EpisodeAt(s, start).len
    BY <1>1, <1>2
  <2> QED BY <2>1, NextRow
<1> QED BY <1>3, <1>4 DEF OneEpisode

\* And rows that belong together lie in one episode.
LEMMA RunIsInEpisode ==
  ASSUME NEW s \in Shards, EpisodesOk(s), CountsUp(s), PerRowIds(s), NEW row \in 1..Len(s.timestep),
         NEW horizon \in Nat \ {0}, OneEpisode(s, row, horizon),
         NEW start \in EpisodeStarts(s), start <= row, row < start + EpisodeAt(s, start).len
  PROVE  row + horizon <= start + EpisodeAt(s, start).len
<1> DEFINE end == start + EpisodeAt(s, start).len
<1>1. start \in 1..Len(s.timestep) /\ EpisodeAt(s, start).len \in Nat /\ Len(s.timestep) \in Nat
  BY EpisodeShape, ShardColumns
<1>2. end \in Nat /\ row < end /\ start <= row /\ row \in Nat \ {0}
  BY <1>1
<1>3. end = Len(s.timestep) + 1 \/ end \in EpisodeStarts(s)
  BY EpisodeEnds
<1>4. s.timestep[end - 1] \in Nat
  <2>1. end - 1 \in Int /\ start <= end - 1 /\ end - 1 < start + EpisodeAt(s, start).len
    BY <1>1, <1>2
  <2> HIDE DEF end
  <2> QED BY <2>1, RowsOfEpisode
<1> HIDE DEF end
<1> SUFFICES ASSUME end < row + horizon PROVE FALSE
  BY <1>2 DEF end
<1>5. /\ row + horizon - 1 <= Len(s.timestep)
      /\ \A r \in (row + 1)..(row + horizon - 1) :
           s.timestep[r] = s.timestep[r - 1] + 1 /\ s.episode_index[r] = s.episode_index[r - 1]
  BY DEF OneEpisode
<1>6. end \in (row + 1)..(row + horizon - 1) /\ end # Len(s.timestep) + 1 /\ end # 1
  BY <1>1, <1>2, <1>5
<1>7. s.timestep[end] = s.timestep[end - 1] + 1 /\ s.episode_index[end] = s.episode_index[end - 1]
  BY <1>5, <1>6
<1>8. s.timestep[end] = 0
  BY <1>3, <1>6, <1>7 DEF EpisodeStarts
<1> QED BY <1>4, <1>7, <1>8

LEMMA IdOfEpisode ==
  ASSUME NEW s \in Shards, PerRowIds(s), NEW start \in 1..Len(s.timestep)
  PROVE  EpisodeAt(s, start).id = s.episode_index[start]
<1>1. DOMAIN s.episode_index = 1..Len(s.timestep)
  BY ShardColumns DEF PerRowIds
<1> QED BY <1>1 DEF EpisodeAt

\* The windows of a data set, as the property asks for them.
LEMMA WindowsAreEpisodes ==
  ASSUME NEW shards \in Seq(Shards), \A i \in DOMAIN shards : EpisodesOk(shards[i]), NEW split, NEW horizon \in Nat \ {0},
         NEW i \in DOMAIN shards, CountsUp(shards[i])
  PROVE  LET s == shards[i]
             q == WindowsOfAll(shards, split, horizon)
             starts == {q[w].row_start : w \in {v \in DOMAIN q : q[v].shard = i}}
         IN  /\ \A r \in starts : OneEpisode(s, r, horizon)
             /\ \A r \in DOMAIN s.timestep :
                  OneEpisode(s, r, horizon) /\ PerRowIds(s) =>
                    (r \in starts <=> SplitContains(split, s.episode_index[r]))
<1> DEFINE s == shards[i]
           q == WindowsOfAll(shards, split, horizon)
           starts == {q[w].row_start : w \in {v \in DOMAIN q : q[v].shard = i}}
<1>1. s \in Shards /\ EpisodesOk(s)
  OBVIOUS
<1>2. /\ \A k \in DOMAIN q : q[k].shard = i => \E st \in EpisodeStarts(s) : InSplit(s, split, horizon, st, q[k].row_start)
      /\ \A st \in EpisodeStarts(s), row \in Nat :
           InSplit(s, split, horizon, st, row) => \E k \in DOMAIN q : q[k].shard = i /\ q[k].row_start = row
  <2>1. /\ \A k \in DOMAIN q :
             \E start \in EpisodeStarts(shards[q[k].shard]) : InSplit(shards[q[k].shard], split, horizon, start, q[k].row_start)
        /\ \A j \in DOMAIN shards : \A start \in EpisodeStarts(shards[j]), row \in Nat :
             InSplit(shards[j], split, horizon, start, row) => \E k \in DOMAIN q : q[k].shard = j /\ q[k].row_start = row
    <3>1. DataWindowsAre(q, shards, split, horizon)
      BY DataWindows
    <3> HIDE DEF q
    <3> QED BY <3>1 DEF DataWindowsAre
  <2> HIDE DEF q
  <2>2. ASSUME NEW k \in DOMAIN q, q[k].shard = i
        PROVE  \E st \in EpisodeStarts(s) : InSplit(s, split, horizon, st, q[k].row_start)
    BY <2>1, <2>2
  <2> QED BY <2>1, <2>2
<1>3. ASSUME NEW r \in starts
      PROVE  \E st \in EpisodeStarts(s) : InSplit(s, split, horizon, st, r)
  BY <1>2
<1>4. ASSUME NEW st \in EpisodeStarts(s), NEW r \in Nat, InSplit(s, split, horizon, st, r)
      PROVE  r \in starts
  BY <1>2, <1>4
<1>5. CountsUp(s)
  OBVIOUS
<1> HIDE DEF starts, q, s
<1>6. ASSUME NEW r \in starts PROVE OneEpisode(s, r, horizon)
  <2>1. PICK st \in EpisodeStarts(s) : InSplit(s, split, horizon, st, r)
    BY <1>3
  <2> QED BY <1>1, <1>5, <2>1, WindowIsOneEpisode DEF InSplit
<1>7. ASSUME NEW r \in DOMAIN s.timestep, OneEpisode(s, r, horizon), PerRowIds(s)
      PROVE  r \in starts <=> SplitContains(split, s.episode_index[r])
  <2>1. r \in 1..Len(s.timestep) /\ r \in Nat /\ Len(s.timestep) \in Nat
    BY <1>1, ShardColumns
  <2>2. PICK st \in EpisodeStarts(s) : st <= r /\ r < st + EpisodeAt(s, st).len
    BY <1>1, <2>1, EpisodeOfRow
  <2>3. r + horizon <= st + EpisodeAt(s, st).len
    BY <1>1, <1>5, <1>7, <2>1, <2>2, RunIsInEpisode
  <2>4. st \in 1..Len(s.timestep) /\ EpisodeAt(s, st).len \in Nat
    BY <1>1, EpisodeShape
  <2>5. EpisodeAt(s, st).id = s.episode_index[st] /\ s.episode_index[r] = s.episode_index[st]
    BY <1>1, <1>5, <1>7, <2>1, <2>2, <2>4, IdOfEpisode, RowsOfEpisode
  <2>6. SplitContains(split, s.episode_index[r]) => r \in starts
    <3>1. SplitContains(split, s.episode_index[r]) => InSplit(s, split, horizon, st, r)
      BY <2>1, <2>2, <2>3, <2>5 DEF InSplit
    <3> QED BY <1>4, <2>1, <3>1
  <2>7. ASSUME r \in starts PROVE SplitContains(split, s.episode_index[r])
    <3>1. PICK other \in EpisodeStarts(s) : InSplit(s, split, horizon, other, r)
      BY <1>3, <2>7
    <3>2. other \in 1..Len(s.timestep) /\ EpisodeAt(s, other).len \in Nat
      BY <1>1, EpisodeShape
    <3>3. other <= r /\ r + horizon <= other + EpisodeAt(s, other).len
      BY <3>1 DEF InSplit
    <3>4. r \in other..(other + EpisodeAt(s, other).len - 1)
      BY <2>1, <3>2, <3>3
    <3>6. r \in st..(st + EpisodeAt(s, st).len - 1)
      BY <2>1, <2>2, <2>4
    <3>5. other = st
      BY <1>1, <2>1, <3>4, <3>6, EpisodesAreDisjoint
    <3> QED BY <2>5, <3>1, <3>5 DEF InSplit
  <2> QED BY <2>6, <2>7
<1> QED BY <1>6, <1>7 DEF starts, q, s

-----------------------------------------------------------------------------
(* The order of reading, and the places in a batch. *)

\* As many indices in a row as there are windows read each of them.
LEMMA EveryPlaceIsRead ==
  ASSUME NEW n \in Nat \ {0}, NEW first \in Nat
  PROVE  {((first + k) % n) + 1 : k \in 0..(n - 1)} = 1..n
<1>1. ASSUME NEW k \in 0..(n - 1) PROVE ((first + k) % n) + 1 \in 1..n
  <2>1. (first + k) % n \in 0..(n - 1)
    BY Divided
  <2> DEFINE r == (first + k) % n
  <2> HIDE DEF r
  <2> QED BY <2>1 DEF r
<1>2. ASSUME NEW t \in 1..n PROVE \E k \in 0..(n - 1) : t = ((first + k) % n) + 1
  <2> DEFINE a == t - 1 - first
             d == a \div n
             k == a % n
  <2>1. a \in Int /\ t - 1 \in Int /\ 0 <= t - 1 /\ t - 1 < n
    OBVIOUS
  <2>2. d \in Int /\ k \in 0..(n - 1) /\ a = d * n + k
    <3> HIDE DEF a
    <3> QED BY <2>1, Divided
  <2> HIDE DEF d, k
  <2>3. first + k = (-d) * n + (t - 1)
    <3>1. (-d) * n = -(d * n) /\ d * n \in Int
      BY <2>2
    <3> QED BY <2>1, <2>2, <3>1
  <2>4. (first + k) % n = t - 1
    <3>1. first + k \in Int /\ -d \in Int
      BY <2>2
    <3> QED BY <2>1, <2>3, <3>1, DivMod
  <2>5. t = ((first + k) % n) + 1
    BY <2>1, <2>4
  <2> QED BY <2>2, <2>5
<1> QED BY <1>1, <1>2

\* The place of a pixel: sample b, frame t, channel c, and p in the plane.
PlaceOfPixel(h, n, m, b, t, c, p) ==
  LET x == (((b - 1) * h + t) * 3 + c) * n + p
  IN  /\ x \in 0..(m * h * (3 * n) - 1) /\ x \div (h * (3 * n)) = b - 1
      /\ (x \div (3 * n)) % h = t /\ x % (3 * n) = c * n + p
      /\ (c * n + p) \div n = c /\ (c * n + p) % n = p

LEMMA PixelPlaces ==
  ASSUME NEW h \in Nat \ {0}, NEW n \in Nat \ {0}, NEW m \in Nat \ {0},
         NEW b \in 1..m, NEW t \in 0..(h - 1), NEW c \in 0..2, NEW p \in 0..(n - 1)
  PROVE  PlaceOfPixel(h, n, m, b, t, c, p)
<1> DEFINE F == 3 * n
           row == (b - 1) * h + t
           low == c * n + p
           x == ((row) * 3 + c) * n + p
<1>1. n \in Nat /\ n > 0 /\ b - 1 \in Nat /\ (b - 1) * h \in Nat /\ row \in Nat /\ c \in Int /\ p \in Int /\ c * n \in Int /\ t \in Int
  OBVIOUS
<1>2. low \in Int /\ 0 <= low /\ low < F /\ F \in Nat \ {0}
  <2>1. 0 * n <= c * n /\ c * n <= 2 * n
    OBVIOUS
  <2> QED BY <2>1
<1>3. x = row * F + low /\ x \in Int
  <2>1. (row * 3 + c) * n = row * (3 * n) + c * n
    BY <1>1
  <2> HIDE DEF row
  <2> QED BY <1>1, <2>1
<1>4. low \div n = c /\ low % n = p
  BY <1>1, <1>2, DivMod
<1> HIDE DEF x, low, F
<1>5. x \div F = row /\ x % F = low
  BY <1>1, <1>2, <1>3, DivMod
<1>6. row % h = t
  BY <1>1, DivMod
<1> DEFINE G == h * F
           rest == t * F + low
<1>7. rest \in Int /\ 0 <= rest /\ rest < G /\ G \in Nat \ {0}
  <2>1. t + 1 <= h /\ t >= 0
    OBVIOUS
  <2>2. 0 * F <= t * F /\ (t + 1) * F <= h * F
    BY <1>1, <1>2, <2>1
  <2>3. (t + 1) * F = t * F + F /\ t * F \in Int /\ h * F \in Nat /\ 0 * F = 0
    BY <1>1, <1>2
  <2> QED BY <1>2, <2>2, <2>3
<1>8. x = (b - 1) * G + rest
  <2>1. row * F = (b - 1) * (h * F) + t * F
    BY <1>1, <1>2
  <2>2. (b - 1) * (h * F) \in Int /\ t * F \in Int
    BY <1>1, <1>2
  <2> HIDE DEF row
  <2> QED BY <1>2, <1>3, <2>1, <2>2
<1>9. x \div G = b - 1
  <2> DEFINE q == b - 1
  <2>1. q \in Int /\ x \in Int /\ G \in Nat \ {0} /\ rest \in Int /\ x = q * G + rest /\ 0 <= rest /\ rest < G
    BY <1>1, <1>3, <1>7, <1>8
  <2> HIDE DEF G, rest, q
  <2>2. x \div G = q
    BY <2>1, DivMod
  <2> QED BY <2>2 DEF q
<1>10. 0 <= x /\ x <= m * h * F - 1
  <2>1. (b - 1) * G >= 0 * G /\ (b - 1 + 1) * G <= m * G
    <3> HIDE DEF G
    <3> QED BY <1>1, <1>7
  <2>2. (b - 1 + 1) * G = (b - 1) * G + G /\ (b - 1) * G \in Int /\ m * G \in Int /\ 0 * G = 0
    <3> HIDE DEF G
    <3> QED BY <1>1, <1>7
  <2>3. m * G = m * h * F
    BY <1>2
  <2> HIDE DEF G, rest
  <2> QED BY <1>7, <1>8, <2>1, <2>2, <2>3
<1>11. x \in 0..(m * h * F - 1)
  <2>1. m * h * F \in Int
    BY <1>2
  <2> QED BY <1>3, <1>10, <2>1
<1> QED BY <1>4, <1>5, <1>6, <1>9, <1>11 DEF PlaceOfPixel, x, low, F

LEMMA ActionPlaces ==
  ASSUME NEW h \in Nat \ {0}, NEW m \in Nat \ {0}, NEW b \in 1..m, NEW t \in 0..(h - 1)
  PROVE  LET x == (b - 1) * h + t
         IN  x \in 0..(m * h - 1) /\ x \div h = b - 1 /\ x % h = t
<1> DEFINE x == (b - 1) * h + t
<1>1. b - 1 \in Nat /\ t \in Int /\ 0 <= t /\ t < h /\ (b - 1) * h \in Nat /\ x \in Nat
  OBVIOUS
<1>2. x \div h = b - 1 /\ x % h = t
  BY <1>1, DivMod
<1>3. x <= m * h - 1
  <2>1. (b - 1 + 1) * h <= m * h
    OBVIOUS
  <2>2. (b - 1 + 1) * h = (b - 1) * h + h /\ m * h \in Int
    OBVIOUS
  <2> QED BY <1>1, <2>1, <2>2
<1> QED BY <1>1, <1>2, <1>3

-----------------------------------------------------------------------------
(* Powers of two, and the rounding. *)

Doubles(n, f) == f \in [0..n -> Nat] /\ f[0] = 1 /\ \A i \in 1..n : f[i] = 2 * f[i - 1]

LEMMA PowDoubles ==
  ASSUME NEW n \in Nat
  PROVE  \E f : Doubles(n, f) /\ Pow2(n) = f[n]
<1> DEFINE step == [i \in 1..n |-> [x \in Nat |-> 2 * x]]
           Rec(g) == g = [i \in 0..n |-> IF i = 0 THEN 1 ELSE 2 * g[i - 1]]
           pow == CHOOSE g : Rec(g)
<1>1. PICK f : Iterates(Nat, n, 1, step, f)
  <2>1. 1 \in Nat /\ step \in [1..n -> [Nat -> Nat]]
    OBVIOUS
  <2> HIDE DEF step
  <2> QED BY <2>1, Recursion, Zenon
<1>2. Doubles(n, f)
  <2>1. ASSUME NEW i \in 1..n PROVE f[i] = 2 * f[i - 1]
    <3>1. i - 1 \in 0..n
      OBVIOUS
    <3>2. f[i - 1] \in Nat /\ f[i] = step[i][f[i - 1]]
      BY <3>1, <1>1 DEF Iterates
    <3> QED BY <3>2
  <2> QED BY <2>1, <1>1 DEF Iterates, Doubles
<1>3. Rec(f)
  <2>1. f = [i \in 0..n |-> f[i]]
    BY <1>2 DEF Doubles
  <2>2. \A i \in 0..n : f[i] = IF i = 0 THEN 1 ELSE 2 * f[i - 1]
    BY <1>2 DEF Doubles
  <2> QED BY <2>1, <2>2
<1>4. Rec(pow)
  <2> HIDE DEF Rec
  <2> QED BY <1>3
<1>5. Pow2(n) = pow[n]
  BY DEF Pow2
<1> HIDE DEF pow
<1>6. Doubles(n, pow)
  <2>1. /\ pow[0] = 1 /\ \A i \in 1..n : pow[i] = 2 * pow[i - 1]
    BY <1>4
  <2>2. \A i \in 1..n : f[i - 1] = pow[i - 1] => f[i] = pow[i]
    BY <1>2, <2>1 DEF Doubles
  <2>3. \A i \in 0..n : f[i] = pow[i]
    <3>1. f[0] = pow[0]
      BY <1>2, <2>1 DEF Doubles
    <3> QED BY <2>2, <3>1, RecursionIsUnique
  <2>4. pow = [i \in 0..n |-> IF i = 0 THEN 1 ELSE 2 * pow[i - 1]]
    BY <1>4
  <2>5. DOMAIN pow = 0..n /\ \A i \in 0..n : pow[i] \in Nat
    BY <1>2, <2>3, <2>4 DEF Doubles
  <2>6. pow \in [0..n -> Nat]
    BY <2>4, <2>5
  <2> QED BY <2>1, <2>6 DEF Doubles
<1> QED BY <1>5, <1>6

LEMMA PowOfZero == Pow2(0) = 1
<1>1. PICK f : Doubles(0, f) /\ Pow2(0) = f[0]
  BY PowDoubles
<1> QED BY <1>1 DEF Doubles

LEMMA PowOfOneMore ==
  ASSUME NEW n \in Nat
  PROVE  Pow2(n) \in Nat /\ Pow2(n + 1) = 2 * Pow2(n)
<1>1. PICK f : Doubles(n, f) /\ Pow2(n) = f[n]
  BY PowDoubles
<1>2. PICK g : Doubles(n + 1, g) /\ Pow2(n + 1) = g[n + 1]
  BY PowDoubles
<1>3. \A i \in 1..n : f[i - 1] = g[i - 1] => f[i] = g[i]
  BY <1>1, <1>2 DEF Doubles
<1>4. f[0] = g[0]
  BY <1>1, <1>2 DEF Doubles
<1>5. f[n] = g[n]
  <2>1. n \in 0..n
    OBVIOUS
  <2> QED BY <1>3, <1>4, <2>1, RecursionIsUnique
<1>6. g[n + 1] = 2 * g[n]
  <2>1. n + 1 \in 1..(n + 1) /\ (n + 1) - 1 = n
    OBVIOUS
  <2> QED BY <1>2, <2>1 DEF Doubles
<1>7. f[n] \in Nat
  <2>1. n \in 0..n
    OBVIOUS
  <2> QED BY <1>1, <2>1 DEF Doubles
<1> QED BY <1>1, <1>2, <1>5, <1>6, <1>7

LEMMA PowsMultiply ==
  ASSUME NEW m \in Nat, NEW n \in Nat
  PROVE  Pow2(m + n) = Pow2(m) * Pow2(n) /\ Pow2(n) \in Nat \ {0}
<1> DEFINE S == {k \in 0..n : Pow2(m + k) = Pow2(m) * Pow2(k) /\ Pow2(k) \in Nat \ {0}}
<1>1. 0 \in S
  <2>1. m + 0 = m /\ Pow2(m) * 1 = Pow2(m)
    BY PowOfOneMore
  <2> QED BY <2>1, PowOfZero
<1>2. ASSUME NEW k \in 1..n, k - 1 \in S PROVE k \in S
  <2>1. k - 1 \in Nat /\ m + (k - 1) \in Nat /\ (k - 1) + 1 = k /\ (m + (k - 1)) + 1 = m + k
    OBVIOUS
  <2>2. Pow2(k) = 2 * Pow2(k - 1) /\ Pow2(m + k) = 2 * Pow2(m + (k - 1))
    BY <2>1, PowOfOneMore
  <2>3. Pow2(m) \in Nat
    BY PowOfOneMore
  <2>4. Pow2(m + (k - 1)) = Pow2(m) * Pow2(k - 1) /\ Pow2(k - 1) \in Nat \ {0}
    BY <1>2
  <2>5. \A x, y \in Nat : 2 * (x * y) = x * (2 * y)
    OBVIOUS
  <2>6. Pow2(m + k) = Pow2(m) * Pow2(k)
    BY <2>2, <2>3, <2>4, <2>5
  <2>7. Pow2(k) \in Nat \ {0}
    BY <2>2, <2>4
  <2> QED BY <2>6, <2>7
<1>3. n \in S
  <2>1. n \in 0..n
    OBVIOUS
  <2> HIDE DEF S
  <2> QED BY <1>1, <1>2, <2>1, Induction
<1> QED BY <1>3

\* Adding half of the last place, less one unless its last bit is set, rounds to the nearest, ties to even.
LEMMA NearestEven ==
  ASSUME NEW half \in Nat \ {0}, NEW bits \in Nat
  PROVE  LET low == 2 * half
             near == ((bits + (half - 1 + ((bits \div low) % 2))) \div low) * low
             off == IF near > bits THEN near - bits ELSE bits - near
         IN  /\ near \in Nat /\ near % low = 0 /\ 2 * off <= low
             /\ 2 * off = low => (near \div low) % 2 = 0
<1> DEFINE low == 2 * half
           h == bits \div low
           l == bits % low
           odd == h % 2
           q == (bits + (half - 1 + odd)) \div low
           near == q * low
<1>1. low \in Nat \ {0} /\ h \in Int /\ l \in 0..(low - 1) /\ bits = h * low + l
  <2>1. low \in Nat \ {0}
    OBVIOUS
  <2> HIDE DEF low
  <2> QED BY <2>1, Divided
<1>2. h >= 0
  <2> HIDE DEF h, l, low
  <2> SUFFICES ASSUME h <= -1 PROVE FALSE
    BY <1>1
  <2>1. h * low <= (-1) * low
    BY <1>1
  <2>2. h * low \in Int /\ (-1) * low = -low
    BY <1>1
  <2> QED BY <1>1, <2>1, <2>2
<1> HIDE DEF h, l
<1>3. odd \in {0, 1} /\ (odd = 1 => (h + 1) % 2 = 0)
  BY <1>1
<1> HIDE DEF odd
<1>4. ASSUME NEW k \in Nat, q = k PROVE near \div low = k /\ near % low = 0 /\ near \in Nat /\ near = k * low
  <2>1. near = k * low /\ k * low \in Nat
    BY <1>4
  <2>2. k * low = k * low + 0
    BY <2>1
  <2> HIDE DEF near, low
  <2>3. (k * low) \div low = k /\ (k * low) % low = 0
    BY <1>1, <2>1, <2>2, DivMod
  <2> QED BY <2>1, <2>3
<1>5. h * low \in Nat
  BY <1>1, <1>2
<1>6. CASE l + half - 1 + odd < low
  <2>1. bits + (half - 1 + odd) = h * low + (l + half - 1 + odd)
    BY <1>1, <1>3, <1>5
  <2>2. l + half - 1 + odd \in Int /\ 0 <= l + half - 1 + odd
    BY <1>1, <1>3
  <2>3. q = h
    <3> DEFINE a == bits + (half - 1 + odd)
               r == l + half - 1 + odd
    <3>1. a \in Int /\ r \in Int /\ a = h * low + r /\ 0 <= r /\ r < low
      BY <1>1, <1>3, <1>6, <2>1, <2>2
    <3> HIDE DEF a, r, low
    <3>2. a \div low = h
      BY <1>1, <3>1, DivMod
    <3> QED BY <3>2 DEF a
  <2>4. h \in Nat
    BY <1>1, <1>2
  <2>5. near \div low = h /\ near % low = 0 /\ near \in Nat /\ near = h * low
    BY <1>4, <2>3, <2>4
  <2> HIDE DEF near, q
  <2>6. ~(near > bits) /\ bits - near = l
    BY <1>1, <1>5, <2>5
  <2>7. 2 * l <= low /\ (2 * l = low => odd = 0)
    BY <1>1, <1>3, <1>6
  <2>8. odd = 0 => h % 2 = 0
    BY DEF odd
  <2> HIDE DEF low
  <2> QED BY <2>5, <2>6, <2>7, <2>8 DEF near, q, low, odd, h
<1>7. CASE ~(l + half - 1 + odd < low)
  <2>1. bits + (half - 1 + odd) = (h + 1) * low + (l + half - 1 + odd - low)
    <3>1. (h + 1) * low = h * low + low
      BY <1>1, <1>2
    <3> QED BY <1>1, <1>3, <1>5, <3>1
  <2>2. l + half - 1 + odd - low \in Int /\ 0 <= l + half - 1 + odd - low /\ l + half - 1 + odd - low < low
    BY <1>1, <1>3, <1>7
  <2>3. q = h + 1
    <3> DEFINE a == bits + (half - 1 + odd)
               r == l + half - 1 + odd - low
    <3>1. a \in Int /\ r \in Int /\ a = (h + 1) * low + r /\ 0 <= r /\ r < low /\ h + 1 \in Int
      BY <1>1, <1>3, <2>1, <2>2
    <3> HIDE DEF a, r, low
    <3>2. a \div low = h + 1
      BY <1>1, <3>1, DivMod
    <3> QED BY <3>2 DEF a
  <2>4. h + 1 \in Nat
    BY <1>1, <1>2
  <2>5. near \div low = h + 1 /\ near % low = 0 /\ near \in Nat /\ near = (h + 1) * low
    BY <1>4, <2>3, <2>4
  <2>6. (h + 1) * low = h * low + low
    BY <1>1, <1>2
  <2> HIDE DEF near, q
  <2>7. near > bits /\ near - bits = low - l
    BY <1>1, <1>5, <2>5, <2>6
  <2>8. 2 * (low - l) <= low /\ (2 * (low - l) = low => odd = 1)
    BY <1>1, <1>3, <1>7
  <2> HIDE DEF low
  <2> QED BY <1>3, <2>5, <2>7, <2>8 DEF near, q, low, odd, h
<1> QED BY <1>6, <1>7


\* A number from q times n on and below the next multiple has the quotient q, also when it is cut to a
\* multiple of low.
LEMMA CutKeepsQuotient ==
  ASSUME NEW low \in Nat \ {0}, NEW many \in Nat \ {0}, NEW q \in Nat, NEW a \in Nat,
         q * (many * low) <= a, a < (q + 1) * (many * low)
  PROVE  ((a \div low) * low) \div (many * low) = q
<1> DEFINE n == many * low
           d == a \div low
           l == a % low
           near == d * low
<1>1. d \in Int /\ l \in 0..(low - 1) /\ a = d * low + l
  BY Divided
<1> HIDE DEF d, l
<1>2. n \in Nat \ {0} /\ q * n \in Nat /\ q * n = (q * many) * low /\ (q + 1) * n = q * n + n /\ q * many \in Nat
  OBVIOUS
<1>3. near <= a /\ near \in Int
  BY <1>1
<1>4. q * n <= near
  <2>1. q * many <= d
    <3> DEFINE e == q * many
    <3>1. e \in Int /\ e * low <= a
      BY <1>2
    <3> HIDE DEF e
    <3> SUFFICES ASSUME d <= e - 1 PROVE FALSE
      BY <1>1, <3>1 DEF e
    <3>2. d * low <= (e - 1) * low /\ (e - 1) * low = e * low - low /\ e * low \in Int /\ d * low \in Int
      BY <1>1, <3>1
    <3> QED BY <1>1, <3>1, <3>2
  <2>2. (q * many) * low <= d * low
    BY <1>1, <1>2, <2>1
  <2> QED BY <1>2, <2>2
<1>5. near - q * n \in Int /\ 0 <= near - q * n /\ near - q * n < n /\ near = q * n + (near - q * n)
  BY <1>2, <1>3, <1>4
<1> HIDE DEF near
<1>6. near \div n = q
  <2> DEFINE r == near - q * n
  <2>1. near \in Int /\ r \in Int /\ near = q * n + r /\ 0 <= r /\ r < n /\ q \in Int
    BY <1>3, <1>5
  <2> HIDE DEF r, n
  <2> QED BY <1>2, <2>1, DivMod
<1> QED BY <1>6 DEF near

\* round_f32_to_bf16 of every finite value.
LEMMA RoundsToNearest ==
  ASSUME NEW negative \in {0, 1},
         NEW m \in 0..((Pow2(ExponentBits) - 1) * Pow2(HighBits - 1 - ExponentBits + LowBits) - 1)
  PROVE  LET sign == Pow2(HighBits - 1 + LowBits)
             low == Pow2(LowBits)
             bits == negative * sign + m
             near == RoundToBf16(bits)
             off == IF near > bits THEN near - bits ELSE bits - near
         IN  /\ near % low = 0 /\ 2 * off <= low
             /\ 2 * off = low => (near \div low) % 2 = 0
             /\ near \div sign = negative
<1> DEFINE half == Pow2(LowBits - 1)
           low == Pow2(LowBits)
           E == Pow2(ExponentBits)
           g == Pow2(HighBits - 1 - ExponentBits)
           sign == Pow2(HighBits - 1 + LowBits)
           top == Pow2(HighBits - 1 - ExponentBits + LowBits)
           all == Pow2(HighBits + LowBits)
           bits == negative * sign + m
           bias == half - 1 + ((bits \div low) % 2)
           near == ((bits + bias) \div low) * low
<1>1. ExponentBits \in Nat /\ LowBits \in Nat /\ LowBits - 1 \in Nat /\ HighBits - 1 - ExponentBits \in Nat /\ HighBits \in Nat
  BY DataAssumption
<1>2. half \in Nat \ {0} /\ low = 2 * half /\ low \in Nat \ {0}
  <2>1. (LowBits - 1) + 1 = LowBits
    BY <1>1
  <2>2. half \in Nat \ {0} /\ low \in Nat \ {0}
    BY <1>1, PowsMultiply
  <2>3. low = 2 * half
    BY <1>1, <2>1, PowOfOneMore
  <2> QED BY <2>2, <2>3
<1>3. E \in Nat \ {0} /\ g \in Nat \ {0} /\ top = g * low
  BY <1>1, PowsMultiply
<1>4. sign = E * top
  <2>1. HighBits - 1 + LowBits = ExponentBits + (HighBits - 1 - ExponentBits + LowBits)
        /\ HighBits - 1 - ExponentBits + LowBits \in Nat
    BY <1>1
  <2> QED BY <1>1, <2>1, PowsMultiply
<1>5. all = 2 * sign
  <2>1. HighBits + LowBits = (HighBits - 1 + LowBits) + 1 /\ HighBits - 1 + LowBits \in Nat
    BY <1>1
  <2> QED BY <2>1, PowOfOneMore
<1> HIDE DEF half, low, E, g, sign, top, all
<1> DEFINE many == E * g
<1>6. many \in Nat \ {0} /\ sign = many * low /\ sign \in Nat \ {0}
  <2>1. E * (g * low) = (E * g) * low
    BY <1>2, <1>3
  <2>2. E * g \in Nat /\ E * g # 0
    BY <1>3
  <2>3. (E * g) * low \in Nat /\ (E * g) * low # 0
    BY <1>2, <2>2
  <2> QED BY <1>3, <1>4, <2>1, <2>2, <2>3
<1> HIDE DEF many
<1>7. top >= low /\ top \in Nat
  <2>1. 1 * low <= g * low /\ g * low \in Nat
    BY <1>2, <1>3
  <2> QED BY <1>2, <1>3, <2>1
<1>8. m \in Nat /\ m < sign - low
  <2>1. m \in 0..((E - 1) * top - 1)
    BY DEF E, top
  <2>2. (E - 1) * top = E * top - top /\ E * top \in Int
    BY <1>3, <1>7
  <2> QED BY <1>2, <1>4, <1>6, <1>7, <2>1, <2>2
<1>9. bits \in Nat /\ negative * sign <= bits /\ bits < (negative + 1) * sign - low /\ negative \in Nat
  <2>1. negative * sign \in Nat /\ (negative + 1) * sign = negative * sign + sign
    BY <1>6
  <2> QED BY <1>2, <1>6, <1>8, <2>1
<1> HIDE DEF bits
<1>10. (bits \div low) % 2 \in {0, 1}
  <2>1. bits \div low \in Int
    BY <1>2, <1>9, Divided
  <2> DEFINE k == bits \div low
  <2> HIDE DEF k
  <2>2. k \in Int => k % 2 \in {0, 1}
    OBVIOUS
  <2> QED BY <2>1, <2>2 DEF k
<1>11. bits + bias \in Nat /\ negative * sign <= bits + bias /\ bits + bias < (negative + 1) * sign
  <2> DEFINE odd == (bits \div low) % 2
  <2>1. bias = half - 1 + odd
    OBVIOUS
  <2>2. odd \in {0, 1}
    BY <1>10
  <2>3. negative * sign \in Int /\ (negative + 1) * sign \in Int
    BY <1>6, <1>9
  <2> HIDE DEF bias, odd
  <2> QED BY <1>2, <1>9, <2>1, <2>2, <2>3
<1>12. (bits + bias) % all = bits + bias
  <2>1. all \in Nat \ {0} /\ (negative + 1) * sign <= all
    BY <1>5, <1>6
  <2>2. bits + bias < all /\ bits + bias = 0 * all + (bits + bias)
    <3>1. (negative + 1) * sign \in Int
      BY <1>6, <1>9
    <3> HIDE DEF bias
    <3> QED BY <1>11, <2>1, <3>1
  <2> DEFINE a == bits + bias
  <2>3. a \in Int /\ 0 <= a /\ a < all /\ a = 0 * all + a
    BY <1>11, <2>2
  <2> HIDE DEF a
  <2>4. a % all = a
    BY <2>1, <2>3, DivMod
  <2> QED BY <2>4 DEF a
<1>13. RoundToBf16(bits) = near
  BY <1>12 DEF RoundToBf16, Truncated, low, half, all
<1>14. LET off == IF near > bits THEN near - bits ELSE bits - near
       IN  /\ near \in Nat /\ near % low = 0 /\ 2 * off <= low
           /\ 2 * off = low => (near \div low) % 2 = 0
  <2>1. LET l == 2 * half
            n == ((bits + (half - 1 + ((bits \div l) % 2))) \div l) * l
            off == IF n > bits THEN n - bits ELSE bits - n
        IN  /\ n \in Nat /\ n % l = 0 /\ 2 * off <= l
            /\ 2 * off = l => (n \div l) % 2 = 0
    BY <1>2, <1>9, NearestEven
  <2> QED BY <1>2, <2>1
<1>15. near \div sign = negative
  <2> DEFINE a == bits + bias
  <2>1. a \in Nat /\ negative * (many * low) <= a /\ a < (negative + 1) * (many * low)
    BY <1>6, <1>11
  <2> HIDE DEF a
  <2>2. ((a \div low) * low) \div (many * low) = negative
    BY <1>2, <1>6, <1>9, <2>1, CutKeepsQuotient
  <2> QED BY <1>6, <2>2 DEF a
<1> HIDE DEF near
<1> QED BY <1>13, <1>14, <1>15 DEF bits, sign, low

-----------------------------------------------------------------------------
(* The data set that is open, and the batches it gives. *)

\* An open data set has the windows of the shards it was opened from.
OpenedFromShards ==
  opened.how = "open" =>
    /\ opened.from \in Disks /\ \A i \in DOMAIN opened.from : EpisodesOk(opened.from[i])
    /\ opened.config \in Configs /\ opened.config.horizon # 0 /\ opened.windows # << >>
    /\ opened.windows = WindowsOfAll(opened.from, opened.config.split, opened.config.horizon)

\* A batch is two windows of the data set that is open.
BatchOfWindows == batch.how # "none" => opened.how = "open" /\ \E i, j \in Nat : batch = Collate(<<i, j>>)

SamplesInv == disk \in Disks /\ OpenedFromShards /\ BatchOfWindows

LEMMA OpenDatasetOpens ==
  ASSUME NEW shards, NEW config, OpenDataset(shards, config).how = "open"
  PROVE  LET data == OpenDataset(shards, config)
         IN  /\ data.from = shards /\ \A i \in DOMAIN shards : EpisodesOk(shards[i])
             /\ data.config = config /\ config.horizon # 0 /\ data.windows # << >>
             /\ data.windows = WindowsOfAll(shards, config.split, config.horizon)
<1> DEFINE windows == WindowsOfAll(shards, config.split, config.horizon)
           data == OpenPusht(shards, config)
<1>1. data = OpenDataset(shards, config)
  BY DEF OpenDataset, OpenSo100, Refused
<1>2. data = IF config.horizon = 0 \/ config.history_size > config.horizon THEN Refused("config")
             ELSE IF shards = << >> THEN Refused("empty")
             ELSE IF \E i \in DOMAIN shards : ~SchemaOk(shards[i], config.validate_schema)
                                                \/ ~EpisodesOk(shards[i]) THEN Refused("schema")
             ELSE IF windows = << >> THEN Refused("empty")
             ELSE [how |-> "open", from |-> shards, config |-> config, windows |-> windows]
  BY DEF OpenPusht, WindowsOfAll
<1> HIDE DEF data, windows
<1>3. data.how = "open"
  BY <1>1
<1>4. \A why \in {"config", "empty", "schema"} : Refused(why).how # "open"
  BY DEF Refused
<1>5. /\ config.horizon # 0 /\ windows # << >> /\ \A i \in DOMAIN shards : EpisodesOk(shards[i])
      /\ data = [how |-> "open", from |-> shards, config |-> config, windows |-> windows]
  BY <1>2, <1>3, <1>4
<1> QED BY <1>1, <1>5 DEF windows

\* The value at a position of a batch of two.
LEMMA CollatedPlaces ==
  ASSUME opened.config.horizon \in Nat \ {0}, NEW i \in Nat, NEW j \in Nat, batch = Collate(<<i, j>>)
  PROVE  BatchKeepsPlaces
<1> SUFFICES ASSUME batch.how = "ok" PROVE BatchKeepsPlaces
  BY DEF BatchKeepsPlaces
<1> DEFINE samples == <<i, j>>
           windows == [k \in DOMAIN samples |-> opened.windows[WindowAt(samples[k])]]
           horizon == opened.config.horizon
           frameLen == RgbChannels * Plane
           pixel(x) == [window |-> windows[(x \div (horizon * frameLen)) + 1],
                        frame |-> (x \div frameLen) % horizon, source |-> HwcOf(x % frameLen)]
           action(x) == [window |-> windows[(x \div horizon) + 1], frame |-> x % horizon]
           pixels == [x \in 0..(Len(samples) * horizon * frameLen - 1) |-> pixel(x)]
           actions == [x \in 0..(Len(samples) * horizon - 1) |-> action(x)]
           mixed == \E k, l \in DOMAIN samples : SideOf(windows[k]) # SideOf(windows[l])
           broken == \E k \in DOMAIN samples, t \in 0..(horizon - 1) : Row(windows[k], t) = NotFiniteAction
<1>1. batch = IF mixed THEN [how |-> "shapes", meta |-> windows]
              ELSE IF broken THEN [how |-> "not finite", meta |-> windows]
              ELSE [how |-> "ok", meta |-> windows, pixels |-> pixels, actions |-> actions]
  BY DEF Collate
<1>2. Len(samples) = 2 /\ DOMAIN samples = 1..2 /\ DOMAIN windows = 1..2
  OBVIOUS
<1>3. \A k, l \in 1..2 : ~mixed => SideOf(windows[k]) = SideOf(windows[l])
  BY <1>2
<1>4. Plane \in Nat \ {0} /\ horizon \in Nat \ {0}
  <2>1. \A n \in Nat \ {0} : n * n \in Nat \ {0}
    OBVIOUS
  <2> QED BY <2>1, DataAssumption DEF Plane
<1>5. \A x \in 0..(2 * horizon * (3 * Plane) - 1) :
        pixels[x] = [window |-> windows[(x \div (horizon * (3 * Plane))) + 1],
                     frame |-> (x \div (3 * Plane)) % horizon, source |-> HwcOf(x % (3 * Plane))]
  BY <1>2 DEF RgbChannels
<1>6. \A x \in 0..(2 * horizon - 1) : actions[x] = [window |-> windows[(x \div horizon) + 1], frame |-> x % horizon]
  BY <1>2
<1> HIDE DEF windows, pixels, actions, mixed, broken, horizon, samples
<1>7. ~mixed /\ batch.meta = windows /\ batch.pixels = pixels /\ batch.actions = actions
  <2>1. [how |-> "shapes", meta |-> windows].how = "shapes" /\ [how |-> "not finite", meta |-> windows].how = "not finite"
    OBVIOUS
  <2>2. ~mixed
    <3>1. batch.how = "ok"
      OBVIOUS
    <3> QED BY <1>1, <2>1, <3>1
  <2>4. ~broken
    <3>1. batch.how = "ok"
      OBVIOUS
    <3> SUFFICES ASSUME broken PROVE FALSE
      OBVIOUS
    <3>2. batch = [how |-> "not finite", meta |-> windows]
      BY <1>1, <2>2, Zenon
    <3>3. batch.how = [how |-> "not finite", meta |-> windows].how
      BY <3>2, Zenon
    <3> QED BY <2>1, <3>1, <3>3
  <2>5. batch = [how |-> "ok", meta |-> windows, pixels |-> pixels, actions |-> actions]
    BY <1>1, <2>2, <2>4
  <2> QED BY <2>2, <2>5
<1>8. ASSUME NEW b \in 1..2, NEW t \in 0..(horizon - 1)
      PROVE  batch.actions[(b - 1) * horizon + t] = [window |-> batch.meta[b], frame |-> t]
  <2> DEFINE x == (b - 1) * horizon + t
  <2>1. x \in 0..(2 * horizon - 1) /\ x \div horizon = b - 1 /\ x % horizon = t
    BY <1>4, ActionPlaces
  <2>2. (b - 1) + 1 = b
    OBVIOUS
  <2> HIDE DEF x
  <2>3. actions[x] = [window |-> windows[b], frame |-> t]
    BY <1>6, <2>1, <2>2
  <2> QED BY <1>7, <2>3 DEF x
<1>9. ASSUME NEW b \in 1..2, NEW t \in 0..(horizon - 1), NEW c \in 0..(RgbChannels - 1), NEW p \in 0..(Plane - 1)
      PROVE  batch.pixels[(((b - 1) * horizon + t) * RgbChannels + c) * Plane + p]
               = [window |-> batch.meta[b], frame |-> t, source |-> p * RgbChannels + c]
  <2> DEFINE x == (((b - 1) * horizon + t) * 3 + c) * Plane + p
             low == c * Plane + p
  <2>1. /\ x \in 0..(2 * horizon * (3 * Plane) - 1) /\ x \div (horizon * (3 * Plane)) = b - 1
        /\ (x \div (3 * Plane)) % horizon = t /\ x % (3 * Plane) = low
        /\ low \div Plane = c /\ low % Plane = p
    <3>1. c \in 0..2
      BY DEF RgbChannels
    <3>2. 2 \in Nat \ {0} /\ b \in 1..2
      OBVIOUS
    <3>3. PlaceOfPixel(horizon, Plane, 2, b, t, c, p)
      BY <1>4, <3>1, <3>2, PixelPlaces, Zenon
    <3> QED BY <3>3 DEF PlaceOfPixel
  <2>2. HwcOf(low) = p * 3 + c
    BY <2>1 DEF HwcOf, RgbChannels
  <2>3. (b - 1) + 1 = b
    OBVIOUS
  <2> HIDE DEF x, low
  <2>4. pixels[x] = [window |-> windows[b], frame |-> t, source |-> p * 3 + c]
    BY <1>5, <2>1, <2>2, <2>3
  <2> QED BY <1>7, <2>4 DEF x, RgbChannels
<1>10. DOMAIN batch.meta = 1..2 /\ \A k, l \in 1..2 : SideOf(batch.meta[k]) = SideOf(batch.meta[l])
  <2>1. DOMAIN windows = 1..2
    BY <1>2 DEF windows
  <2> QED BY <1>3, <1>7, <2>1
<1> QED BY <1>8, <1>9, <1>10 DEF BatchKeepsPlaces, horizon

LEMMA SamplesInvInit == DataInit => SamplesInv
BY DEF DataInit, SamplesInv, OpenedFromShards, BatchOfWindows, Refused

LEMMA SamplesInvStep == SamplesInv /\ [DataNext]_dataVars => SamplesInv'
<1> SUFFICES ASSUME SamplesInv, [DataNext]_dataVars PROVE SamplesInv'
  OBVIOUS
<1>1. disk \in Disks /\ OpenedFromShards /\ BatchOfWindows
  BY DEF SamplesInv
<1>2. family' = family /\ disk' \in Disks
  BY <1>1 DEF DataNext, Open, NextBatch, Replace, ComputeStats, HashData, ReadData, TruncateStats, SaveStats,
         StatsCrash, dataVars
<1>3. \A shards, split, horizon : WindowsOfAll(shards, split, horizon)' = WindowsOfAll(shards, split, horizon)
  BY <1>2 DEF WindowsOfAll, BuildWindows, SplitContains
<1>4. ASSUME opened' = opened PROVE OpenedFromShards'
  BY <1>1, <1>3, <1>4 DEF OpenedFromShards
<1>5. ASSUME opened' = opened PROVE \A i, j : Collate(<<i, j>>)' = Collate(<<i, j>>)
  BY <1>5 DEF Collate, WindowAt, SideOf, Row
<1>6. CASE Open
  <2>1. opened.how = "never" /\ batch' = batch
    BY <1>6 DEF Open
  <2>2. batch'.how = "none"
    BY <1>1, <2>1 DEF BatchOfWindows
  <2>3. PICK config \in Configs : opened' = OpenDataset(disk, config)
    BY <1>6 DEF Open
  <2>4. OpenedFromShards'
    <3> SUFFICES ASSUME opened'.how = "open" PROVE OpenedFromShards'
      BY DEF OpenedFromShards
    <3>1. /\ opened'.from = disk /\ \A i \in DOMAIN disk : EpisodesOk(disk[i])
          /\ opened'.config = config /\ config.horizon # 0 /\ opened'.windows # << >>
          /\ opened'.windows = WindowsOfAll(disk, config.split, config.horizon)
      BY <2>3, OpenDatasetOpens
    <3>2. opened'.windows = WindowsOfAll(opened.from, opened.config.split, opened.config.horizon)'
      BY <1>3, <3>1
    <3> QED BY <1>1, <3>1, <3>2 DEF OpenedFromShards
  <2> QED BY <1>2, <2>2, <2>4 DEF SamplesInv, BatchOfWindows
<1>7. CASE NextBatch
  <2>1. opened.how = "open" /\ opened' = opened
    BY <1>7 DEF NextBatch
  <2>2. PICK i, j \in 0..Len(opened.windows) : batch' = Collate(<<i, j>>)
    BY <1>7 DEF NextBatch
  <2>3. i \in Nat /\ j \in Nat
    OBVIOUS
  <2>4. batch' = Collate(<<i, j>>)'
    BY <1>5, <2>1, <2>2
  <2>5. BatchOfWindows'
    BY <2>1, <2>3, <2>4 DEF BatchOfWindows
  <2> QED BY <1>2, <1>4, <2>1, <2>5 DEF SamplesInv
<1>8. CASE Replace \/ ComputeStats \/ UNCHANGED dataVars
  <2>1. opened' = opened /\ batch' = batch
    BY <1>8 DEF Replace, ComputeStats, HashData, ReadData, TruncateStats, SaveStats, StatsCrash, dataVars
  <2>2. BatchOfWindows'
    BY <1>1, <1>5, <2>1 DEF BatchOfWindows
  <2> QED BY <1>2, <1>4, <2>1, <2>2 DEF SamplesInv
<1> QED BY <1>6, <1>7, <1>8 DEF DataNext

LEMMA SamplesInvImplies == SamplesInv => SamplesReachTheBatch
<1> SUFFICES ASSUME SamplesInv PROVE SamplesReachTheBatch
  OBVIOUS
<1>1. OpenedFromShards /\ BatchOfWindows
  BY DEF SamplesInv
<1> DEFINE shards == opened.from
           split == opened.config.split
           horizon == opened.config.horizon
           q == WindowsOfAll(shards, split, horizon)
<1>2. ASSUME opened.how = "open"
      PROVE  /\ shards \in Seq(Shards) /\ (\A i \in DOMAIN shards : EpisodesOk(shards[i]))
             /\ horizon \in Nat \ {0} /\ q # << >> /\ opened.windows = q
             /\ DataWindowsAre(q, shards, split, horizon) /\ Len(q) \in Nat \ {0} /\ DOMAIN q = 1..Len(q)
  <2>1. /\ opened.from \in Disks /\ (\A i \in DOMAIN shards : EpisodesOk(shards[i])) /\ opened.windows = q
        /\ opened.config \in Configs /\ horizon # 0 /\ q # << >>
    BY <1>1, <1>2 DEF OpenedFromShards
  <2>2. shards \in Seq(Shards) /\ horizon \in Nat \ {0}
    BY <2>1, DataAssumption DEF Configs
  <2>3. DataWindowsAre(q, shards, split, horizon)
    <3> HIDE DEF shards, split, horizon
    <3> QED BY <2>1, <2>2, DataWindows
  <2>4. q \in Seq(AnyWindow)
    <3> HIDE DEF q
    <3> QED BY <2>3 DEF DataWindowsAre
  <2> HIDE DEF q, shards, split, horizon
  <2>5. Len(q) \in Nat \ {0} /\ DOMAIN q = 1..Len(q)
    BY <2>1, <2>4
  <2> QED BY <2>1, <2>2, <2>3, <2>5
<1>3. WindowsStayInEpisodes
  <2> SUFFICES ASSUME opened.how = "open" PROVE WindowsStayInEpisodes
    BY DEF WindowsStayInEpisodes
  <2>1. ASSUME NEW i \in DOMAIN opened.from
        PROVE LET s == opened.from[i]
                  starts == {q[w].row_start : w \in {v \in DOMAIN q : q[v].shard = i}}
              IN  CountsUp(s) =>
                    /\ \A r \in starts : OneEpisode(s, r, horizon)
                    /\ \A r \in DOMAIN s.timestep :
                         OneEpisode(s, r, horizon) /\ PerRowIds(s) =>
                           (r \in starts <=> SplitContains(split, s.episode_index[r]))
    <3> SUFFICES ASSUME CountsUp(shards[i])
                 PROVE  LET s == shards[i]
                            starts == {q[w].row_start : w \in {v \in DOMAIN q : q[v].shard = i}}
                        IN  /\ \A r \in starts : OneEpisode(s, r, horizon)
                            /\ \A r \in DOMAIN s.timestep :
                                 OneEpisode(s, r, horizon) /\ PerRowIds(s) =>
                                   (r \in starts <=> SplitContains(split, s.episode_index[r]))
      OBVIOUS
    <3>1. shards \in Seq(Shards) /\ (\A k \in DOMAIN shards : EpisodesOk(shards[k])) /\ horizon \in Nat \ {0} /\ i \in DOMAIN shards
      BY <1>2
    <3> HIDE DEF shards, split, horizon
    <3> QED BY <3>1, WindowsAreEpisodes
  <2>2. \A v, w \in DOMAIN q : q[v].shard = q[w].shard /\ q[v].row_start = q[w].row_start => v = w
    <3>1. DataWindowsAre(q, shards, split, horizon)
      BY <1>2
    <3> HIDE DEF q, shards, split, horizon
    <3> QED BY <3>1 DEF DataWindowsAre
  <2>3. opened.windows = q
    BY <1>2
  <2> HIDE DEF q
  <2> QED BY <2>1, <2>2, <2>3 DEF WindowsStayInEpisodes
<1>4. EveryWindowIsRead
  <2> SUFFICES ASSUME opened.how = "open", NEW first \in 0..Len(opened.windows)
               PROVE {WindowAt(first + k) : k \in 0..(Len(opened.windows) - 1)} = DOMAIN opened.windows
    BY DEF EveryWindowIsRead
  <2>1. Len(q) \in Nat \ {0} /\ DOMAIN q = 1..Len(q) /\ opened.windows = q
    BY <1>2
  <2> HIDE DEF q
  <2> DEFINE n == Len(q)
  <2>2. n \in Nat \ {0} /\ DOMAIN opened.windows = 1..n /\ Len(opened.windows) = n /\ first \in Nat
    BY <2>1
  <2> HIDE DEF n
  <2>3. {((first + k) % n) + 1 : k \in 0..(n - 1)} = 1..n
    BY <2>2, EveryPlaceIsRead
  <2>4. {WindowAt(first + k) : k \in 0..(Len(opened.windows) - 1)} = {((first + k) % n) + 1 : k \in 0..(n - 1)}
    BY <2>2 DEF WindowAt
  <2> QED BY <2>2, <2>3, <2>4
<1>5. BatchKeepsPlaces
  <2>1. CASE batch.how # "none"
    <3>1. opened.config.horizon \in Nat \ {0}
      BY <1>1, <1>2, <2>1 DEF BatchOfWindows
    <3>2. PICK i, j \in Nat : batch = Collate(<<i, j>>)
      BY <1>1, <2>1 DEF BatchOfWindows
    <3> QED BY <3>1, <3>2, CollatedPlaces
  <2>2. CASE batch.how = "none"
    BY <2>2 DEF BatchKeepsPlaces
  <2> QED BY <2>1, <2>2
<1>6. RoundingIsNearest
  BY RoundsToNearest DEF RoundingIsNearest
<1> QED BY <1>3, <1>4, <1>5, <1>6 DEF SamplesReachTheBatch

(* Whatever the shards, the split and the horizon, and whichever indices a loader
   asks for: the windows of an open data set are the runs of rows inside the
   episodes of its split, each once, a pass reads every one of them, each value of
   a batch is the one of its place, and the cast to bf16 takes the nearest value
   in every width (pusht.rs, so100.rs, batch.rs). *)
THEOREM SamplesAlwaysReachTheBatch == DataSpec => []SamplesReachTheBatch
<1>1. DataSpec => []SamplesInv
  BY SamplesInvInit, SamplesInvStep, PTL DEF DataSpec
<1> QED BY <1>1, SamplesInvImplies, PTL

-----------------------------------------------------------------------------
(* Paths and their prefixes. *)

LEMMA PrefixMeans ==
  ASSUME NEW s, NEW t, IsPath(s), IsPath(t)
  PROVE  IsPrefix(s, t) <=> Len(s) <= Len(t) /\ \A i \in 1..Len(s) : s[i] = t[i]
<1> DEFINE Both == Range(s) \cup Range(t)
<1>0. s \in Seq(Both) /\ t \in Seq(Both)
  BY DEF IsPath
<1> HIDE DEF Both
<1>1. CASE Len(s) <= Len(t)
  <2> DEFINE a == SubSeq(s, 1, Len(s))
             b == SubSeq(t, 1, Len(s))
  <2>1. Len(s) \in Nat /\ Len(t) \in Nat
    BY <1>0
  <2>2. a = s
    BY <1>0, <2>1
  <2>3. b \in Seq(Both) /\ Len(b) = Len(s) /\ \A i \in 1..Len(s) : b[i] = t[i]
    BY <1>0, <1>1, <2>1
  <2>4. s = b <=> \A i \in 1..Len(s) : s[i] = b[i]
    <3> HIDE DEF b
    <3> QED BY <1>0, <2>1, <2>3
  <2>5. IsPrefix(s, t) <=> a = b
    BY <1>1 DEF IsPrefix
  <2> HIDE DEF a, b
  <2> QED BY <1>1, <2>2, <2>3, <2>4, <2>5
<1>2. CASE ~(Len(s) <= Len(t))
  BY <1>2 DEF IsPrefix
<1> QED BY <1>1, <1>2

LEMMA PrefixOfItself ==
  ASSUME NEW s, NEW t, IsPath(s), IsPath(t)
  PROVE  IsPrefix(s, s) /\ (IsPrefix(s, t) /\ IsPrefix(t, s) => s = t)
<1>1. Len(s) \in Nat /\ Len(t) \in Nat
  BY DEF IsPath
<1>2. IsPrefix(s, s)
  BY <1>1, PrefixMeans
<1>3. ASSUME IsPrefix(s, t), IsPrefix(t, s) PROVE s = t
  <2>1. Len(s) = Len(t) /\ \A i \in 1..Len(s) : s[i] = t[i]
    BY <1>1, <1>3, PrefixMeans
  <2> QED BY <1>1, <2>1 DEF IsPath
<1> QED BY <1>2, <1>3

LEMMA PrefixOfPrefix ==
  ASSUME NEW r, NEW s, NEW t, IsPath(r), IsPath(s), IsPath(t), IsPrefix(r, s), IsPrefix(s, t)
  PROVE  IsPrefix(r, t)
<1>1. Len(r) \in Nat /\ Len(s) \in Nat /\ Len(t) \in Nat
  BY DEF IsPath
<1>2. Len(r) <= Len(s) /\ (\A i \in 1..Len(r) : r[i] = s[i]) /\ Len(s) <= Len(t) /\ (\A i \in 1..Len(s) : s[i] = t[i])
  BY PrefixMeans
<1>3. \A i \in 1..Len(r) : i \in 1..Len(s)
  BY <1>1, <1>2
<1>4. Len(r) <= Len(t) /\ \A i \in 1..Len(r) : r[i] = t[i]
  BY <1>1, <1>2, <1>3
<1> QED BY <1>4, PrefixMeans

LEMMA PrefixesOfOne ==
  ASSUME NEW r, NEW s, NEW t, IsPath(r), IsPath(s), IsPath(t), IsPrefix(r, t), IsPrefix(s, t)
  PROVE  IsPrefix(r, s) \/ IsPrefix(s, r)
<1>1. Len(r) \in Nat /\ Len(s) \in Nat /\ Len(t) \in Nat
  BY DEF IsPath
<1>2. /\ Len(r) <= Len(t) /\ \A i \in 1..Len(r) : r[i] = t[i]
      /\ Len(s) <= Len(t) /\ \A i \in 1..Len(s) : s[i] = t[i]
  BY PrefixMeans
<1>3. CASE Len(r) <= Len(s)
  <2>1. \A i \in 1..Len(r) : i \in 1..Len(s)
    BY <1>1, <1>3
  <2> QED BY <1>2, <1>3, <2>1, PrefixMeans
<1>4. CASE Len(s) <= Len(r)
  <2>1. \A i \in 1..Len(s) : i \in 1..Len(r)
    BY <1>1, <1>4
  <2> QED BY <1>2, <1>4, <2>1, PrefixMeans
<1> QED BY <1>1, <1>3, <1>4

LEMMA Appended ==
  ASSUME NEW s, IsPath(s), NEW name
  PROVE  LET p == Append(s, name)
         IN  /\ IsPath(p) /\ Len(p) = Len(s) + 1 /\ Len(s) \in Nat /\ Front(p) = s /\ Last(p) = name
             /\ \A i \in 1..Len(s) : p[i] = s[i]
             /\ p[Len(s) + 1] = name
<1> DEFINE S == Range(s) \cup {name}
           p == Append(s, name)
<1>1. s \in Seq(S) /\ name \in S
  BY DEF IsPath
<1> HIDE DEF S
<1>2. p \in Seq(S) /\ Len(p) = Len(s) + 1 /\ Len(s) \in Nat /\ p[Len(s) + 1] = name /\ \A i \in 1..Len(s) : p[i] = s[i]
  BY <1>1
<1>3. SubSeq(p, 1, Len(s)) = s
  BY <1>1
<1> HIDE DEF p
<1>4. Front(p) = s /\ Last(p) = name
  BY <1>2, <1>3 DEF Front, Last
<1>5. IsPath(p)
  <2>1. \A i \in 1..Len(p) : p[i] \in Range(p)
    BY <1>2 DEF Range
  <2> QED BY <1>2, <2>1 DEF IsPath
<1> QED BY <1>2, <1>4, <1>5 DEF p

-----------------------------------------------------------------------------
(* The fields there are. *)

LEMMA SectionCases ==
  ASSUME NEW d, NEW e
  PROVE  /\ SectionFields(d, e, << >>) = Version
         /\ SectionFields(d, e, <<"model">>) = JepaConfig
         /\ SectionFields(d, e, <<"model", "encoder">>) = VitConfig
         /\ SectionFields(d, e, <<"model", "action_encoder">>) = EmbedderConfig
         /\ SectionFields(d, e, <<"model", "predictor">>) = PredictorConfig
         /\ SectionFields(d, e, <<"model", "projector">>) = MlpConfig
         /\ SectionFields(d, e, <<"model", "pred_proj">>) = MlpConfig
         /\ SectionFields(d, e, <<"dataset">>) = (IF d = "pusht" THEN PushtDatasetConfig ELSE So100DatasetConfig)
         /\ SectionFields(d, e, <<"eval">>) = (IF e = "pusht_simulated" THEN PushtEvalConfig ELSE So100EvalConfig)
         /\ SectionFields(d, e, <<"training">>) = TrainingFields
         /\ SectionFields(d, e, <<"experimental">>) = TrainModes
BY DEF SectionFields

LEMMA OneStep ==
  ASSUME NEW a
  PROVE  LET p == <<a>> IN IsPath(p) /\ Len(p) = 1 /\ p[1] = a
<1> DEFINE p == <<a>>
<1>1. p \in Seq({a}) /\ Len(p) = 1 /\ p[1] = a
  OBVIOUS
<1> HIDE DEF p
<1>2. \A i \in 1..Len(p) : p[i] \in Range(p)
  BY <1>1 DEF Range
<1>3. IsPath(p)
  BY <1>1, <1>2 DEF IsPath
<1> QED BY <1>1, <1>3 DEF p

LEMMA TwoSteps ==
  ASSUME NEW a, NEW b
  PROVE  LET p == <<a, b>> IN IsPath(p) /\ Len(p) = 2 /\ p[1] = a /\ p[2] = b
<1> DEFINE p == <<a, b>>
<1>1. p \in Seq({a, b}) /\ Len(p) = 2 /\ p[1] = a /\ p[2] = b
  OBVIOUS
<1> HIDE DEF p
<1>2. \A i \in 1..Len(p) : p[i] \in Range(p)
  BY <1>1 DEF Range
<1>3. IsPath(p)
  BY <1>1, <1>2 DEF IsPath
<1> QED BY <1>1, <1>3 DEF p

LEMMA SectionPaths ==
  ASSUME NEW s \in Sections
  PROVE  /\ IsPath(s) /\ Len(s) \in 0..2 /\ (Len(s) = 0 => s = << >>)
         /\ Len(s) = 1 => s[1] \in {"model", "dataset", "eval", "training", "experimental"}
         /\ Len(s) = 2 => /\ s[1] = "model"
                          /\ s[2] \in {"encoder", "action_encoder", "predictor", "projector", "pred_proj"}
<1>1. CASE s = << >>
  BY <1>1 DEF IsPath
<1>2. ASSUME NEW name \in {"model", "dataset", "eval", "training", "experimental"}, s = <<name>>
      PROVE  IsPath(s) /\ Len(s) = 1 /\ s[1] = name
  BY <1>2, OneStep
<1>3. ASSUME NEW name \in {"encoder", "action_encoder", "predictor", "projector", "pred_proj"}, s = <<"model", name>>
      PROVE  IsPath(s) /\ Len(s) = 2 /\ s[1] = "model" /\ s[2] = name
  BY <1>3, TwoSteps
<1>4. \/ s = << >>
      \/ \E name \in {"model", "dataset", "eval", "training", "experimental"} : s = <<name>>
      \/ \E name \in {"encoder", "action_encoder", "predictor", "projector", "pred_proj"} : s = <<"model", name>>
  BY DEF Sections
<1> QED BY <1>1, <1>2, <1>3, <1>4


LEMMA OverAt ==
  ASSUME NEW f, NEW g
  PROVE  /\ DOMAIN Over(f, g) = DOMAIN f \cup DOMAIN g
         /\ Over(f, g) = [x \in DOMAIN Over(f, g) |-> Over(f, g)[x]]
         /\ \A x \in DOMAIN f : Over(f, g)[x] = f[x]
         /\ \A x \in DOMAIN g : x \notin DOMAIN f => Over(f, g)[x] = g[x]
BY DEF Over

LEMMA OverDomain == ASSUME NEW f, NEW g PROVE DOMAIN Over(f, g) = DOMAIN f \cup DOMAIN g
BY OverAt

LEMMA OverFunction == ASSUME NEW f, NEW g PROVE Over(f, g) = [x \in DOMAIN Over(f, g) |-> Over(f, g)[x]]
BY OverAt

LEMMA OverFirst == ASSUME NEW f, NEW g, NEW x, x \in DOMAIN f PROVE Over(f, g)[x] = f[x]
BY DEF Over
LEMMA OverSecond == ASSUME NEW f, NEW g, NEW x, x \in DOMAIN g, x \notin DOMAIN f PROVE Over(f, g)[x] = g[x]
BY DEF Over

LEMMA DatasetNames ==
  /\ DOMAIN PushtDatasetConfig = {"kind", "horizon", "history_size", "split", "raw_action_dim", "frameskip"}
  /\ DOMAIN So100DatasetConfig = {"kind", "horizon", "history_size", "split", "action_dim", "camera_view"}
  /\ PushtDatasetConfig["kind"] = Field("pusht", {"pusht", "so100"})
  /\ So100DatasetConfig["kind"] = Field("pusht", {"pusht", "so100"})
  /\ So100DatasetConfig["action_dim"] = Sized(6, 64)
  /\ PushtDatasetConfig["horizon"] = Within(4, 2, 64) /\ So100DatasetConfig["horizon"] = Within(4, 2, 64)
<1> DEFINE pusht == [raw_action_dim |-> Sized(2, 64), frameskip |-> Sized(5, 64)]
           so100 == [action_dim |-> Sized(6, 64), camera_view |-> Field("top", {"top", "wrist"})]
<1>1. DOMAIN DatasetKind = {"kind"} /\ DatasetKind["kind"] = Field("pusht", {"pusht", "so100"})
  BY DEF DatasetKind
<1>2. DOMAIN Windowed = {"horizon", "history_size", "split"} /\ Windowed["horizon"] = Within(4, 2, 64)
  BY DEF Windowed
<1>3. DOMAIN pusht = {"raw_action_dim", "frameskip"} /\ DOMAIN so100 = {"action_dim", "camera_view"}
      /\ so100["action_dim"] = Sized(6, 64)
  OBVIOUS
<1>4. PushtDatasetConfig = Over(DatasetKind, Over(Windowed, pusht)) /\ So100DatasetConfig = Over(DatasetKind, Over(Windowed, so100))
  BY DEF PushtDatasetConfig, So100DatasetConfig
<1> HIDE DEF pusht, so100
<1> DEFINE pushtW == Over(Windowed, pusht)
           so100W == Over(Windowed, so100)
<1>5. DOMAIN pushtW = DOMAIN Windowed \cup DOMAIN pusht /\ DOMAIN so100W = DOMAIN Windowed \cup DOMAIN so100
  BY OverAt
<1>6. pushtW["horizon"] = Windowed["horizon"] /\ so100W["horizon"] = Windowed["horizon"]
  <2>1. "horizon" \in DOMAIN Windowed
    BY <1>2
  <2> QED BY <2>1, OverFirst
<1>7. so100W["action_dim"] = so100["action_dim"]
  <2>1. "action_dim" \in DOMAIN so100 /\ "action_dim" \notin DOMAIN Windowed
    BY <1>2, <1>3
  <2> QED BY <2>1, OverSecond
<1> HIDE DEF pushtW, so100W
<1>8. /\ DOMAIN PushtDatasetConfig = DOMAIN DatasetKind \cup DOMAIN pushtW
      /\ DOMAIN So100DatasetConfig = DOMAIN DatasetKind \cup DOMAIN so100W
  BY <1>4, OverAt DEF pushtW, so100W
<1>9. PushtDatasetConfig["kind"] = DatasetKind["kind"] /\ So100DatasetConfig["kind"] = DatasetKind["kind"]
  <2>1. "kind" \in DOMAIN DatasetKind
    BY <1>1
  <2> QED BY <1>4, <2>1, OverFirst
<1>10. PushtDatasetConfig["horizon"] = pushtW["horizon"] /\ So100DatasetConfig["horizon"] = so100W["horizon"]
  <2>1. "horizon" \in DOMAIN pushtW /\ "horizon" \in DOMAIN so100W /\ "horizon" \notin DOMAIN DatasetKind
    BY <1>1, <1>2, <1>5
  <2> QED BY <1>4, <2>1, OverSecond DEF pushtW, so100W
<1>11. So100DatasetConfig["action_dim"] = so100W["action_dim"]
  <2>1. "action_dim" \in DOMAIN so100W /\ "action_dim" \notin DOMAIN DatasetKind
    BY <1>1, <1>3, <1>5
  <2> QED BY <1>4, <2>1, OverSecond DEF so100W
<1>12. /\ DOMAIN PushtDatasetConfig = {"kind", "horizon", "history_size", "split", "raw_action_dim", "frameskip"}
       /\ DOMAIN So100DatasetConfig = {"kind", "horizon", "history_size", "split", "action_dim", "camera_view"}
  BY <1>1, <1>2, <1>3, <1>5, <1>8
<1> QED BY <1>1, <1>2, <1>3, <1>6, <1>7, <1>9, <1>10, <1>11, <1>12

LEMMA EvalNames ==
  /\ DOMAIN PushtEvalConfig = {"kind", "episode_ids", "n_cand"} /\ DOMAIN So100EvalConfig = {"kind", "episode_ids", "episodes"}
  /\ PushtEvalConfig["kind"] = Field("pusht_simulated", {"pusht_simulated", "so100_latent", "so100_latent_rollout"})
  /\ So100EvalConfig["kind"] = Field("pusht_simulated", {"pusht_simulated", "so100_latent", "so100_latent_rollout"})
<1> DEFINE pusht == [episode_ids |-> Field(Spread, {Spread, HeldOut, <<5>>}), n_cand |-> Sized(1000, 100000)]
           so100 == [episode_ids |-> Field(HeldOut, {Spread, HeldOut, <<5>>}), episodes |-> Sized(5, 1000)]
<1>1. /\ DOMAIN EvalKind = {"kind"}
      /\ EvalKind["kind"] = Field("pusht_simulated", {"pusht_simulated", "so100_latent", "so100_latent_rollout"})
  BY DEF EvalKind
<1>2. DOMAIN pusht = {"episode_ids", "n_cand"} /\ DOMAIN so100 = {"episode_ids", "episodes"}
  OBVIOUS
<1>3. PushtEvalConfig = Over(EvalKind, pusht) /\ So100EvalConfig = Over(EvalKind, so100)
  BY DEF PushtEvalConfig, So100EvalConfig
<1> HIDE DEF pusht, so100
<1>4. DOMAIN PushtEvalConfig = DOMAIN EvalKind \cup DOMAIN pusht /\ DOMAIN So100EvalConfig = DOMAIN EvalKind \cup DOMAIN so100
  BY <1>3, OverAt
<1>5. PushtEvalConfig["kind"] = EvalKind["kind"] /\ So100EvalConfig["kind"] = EvalKind["kind"]
  <2>1. "kind" \in DOMAIN EvalKind
    BY <1>1
  <2> QED BY <1>3, <2>1, OverFirst
<1>6. DOMAIN PushtEvalConfig = {"kind", "episode_ids", "n_cand"} /\ DOMAIN So100EvalConfig = {"kind", "episode_ids", "episodes"}
  BY <1>1, <1>2, <1>4
<1> QED BY <1>1, <1>5, <1>6

LEMMA OtherNames ==
  /\ DOMAIN Version = {"schema_version"} /\ DOMAIN JepaConfig = {"history_size", "horizon"}
  /\ DOMAIN TrainModes = {"pusht_train_mode"}
  /\ TrainModes["pusht_train_mode"] = Field("bounded_module", {"bounded_module", "full_burn_jepa"})
  /\ "kind" \notin DOMAIN VitConfig /\ "kind" \notin DOMAIN EmbedderConfig /\ "kind" \notin DOMAIN PredictorConfig
  /\ "kind" \notin DOMAIN MlpConfig /\ "kind" \notin DOMAIN TrainingFields
<1>1. DOMAIN Version = {"schema_version"}
  BY DEF Version
<1>2. DOMAIN JepaConfig = {"history_size", "horizon"}
  BY DEF JepaConfig
<1>3. /\ DOMAIN TrainModes = {"pusht_train_mode"}
      /\ TrainModes["pusht_train_mode"] = Field("bounded_module", {"bounded_module", "full_burn_jepa"})
  BY DEF TrainModes
<1>4. "kind" \notin DOMAIN VitConfig
  BY DEF VitConfig
<1>5. "kind" \notin DOMAIN EmbedderConfig
  BY DEF EmbedderConfig
<1>6. "kind" \notin DOMAIN PredictorConfig
  BY DEF PredictorConfig
<1>7. "kind" \notin DOMAIN MlpConfig
  BY DEF MlpConfig
<1>8. "kind" \notin DOMAIN TrainingFields
  BY DEF TrainingFields
<1> QED BY <1>1, <1>2, <1>3, <1>4, <1>5, <1>6, <1>7, <1>8

\* A field is a name in a section.
LEMMA FieldPlace ==
  ASSUME NEW d, NEW e
  PROVE  /\ \A p \in DOMAIN FieldsFor(d, e) :
              \E s \in Sections : \E name \in DOMAIN SectionFields(d, e, s) : p = Append(s, name)
         /\ \A s \in Sections : \A name \in DOMAIN SectionFields(d, e, s) :
              /\ Append(s, name) \in DOMAIN FieldsFor(d, e)
              /\ FieldsFor(d, e)[Append(s, name)] = SectionFields(d, e, s)[name]
         /\ FieldsFor(d, e) = [p \in DOMAIN FieldsFor(d, e) |-> FieldsFor(d, e)[p]]
         /\ \A p \in DOMAIN FieldsFor(d, e) : IsPath(p)
<1> DEFINE D == UNION {{Append(s, name) : name \in DOMAIN SectionFields(d, e, s)} : s \in Sections}
<1>1. \A s \in Sections : \A name : Front(Append(s, name)) = s /\ Last(Append(s, name)) = name /\ IsPath(Append(s, name))
  BY SectionPaths, Appended
<1>2. FieldsFor(d, e) = [p \in D |-> SectionFields(d, e, Front(p))[Last(p)]]
  BY DEF FieldsFor
<1>3. \A p \in D : \E s \in Sections : \E name \in DOMAIN SectionFields(d, e, s) : p = Append(s, name)
  OBVIOUS
<1>4. \A s \in Sections : \A name \in DOMAIN SectionFields(d, e, s) : Append(s, name) \in D
  OBVIOUS
<1> HIDE DEF D
<1>5. DOMAIN FieldsFor(d, e) = D
  BY <1>2
<1>6. ASSUME NEW s \in Sections, NEW name \in DOMAIN SectionFields(d, e, s)
      PROVE  FieldsFor(d, e)[Append(s, name)] = SectionFields(d, e, s)[name]
  BY <1>1, <1>2, <1>4
<1>7. \A p \in D : IsPath(p)
  BY <1>1, <1>3
<1> QED BY <1>2, <1>3, <1>4, <1>5, <1>6, <1>7

\* No field lies under another one, whatever the kinds.
LEMMA FieldsArePrefixFree ==
  ASSUME NEW d, NEW e, NEW p \in DOMAIN FieldsFor(d, e), NEW c, NEW f, NEW q \in DOMAIN FieldsFor(c, f), IsPrefix(p, q)
  PROVE  p = q
<1>1. PICK s \in Sections : \E name \in DOMAIN SectionFields(d, e, s) : p = Append(s, name)
  BY FieldPlace
<1>2. PICK n \in DOMAIN SectionFields(d, e, s) : p = Append(s, n)
  BY <1>1
<1>3. PICK t \in Sections : \E name \in DOMAIN SectionFields(c, f, t) : q = Append(t, name)
  BY FieldPlace
<1>4. PICK m : q = Append(t, m)
  BY <1>3
<1>5. IsPath(p) /\ IsPath(q) /\ IsPath(s) /\ IsPath(t) /\ Len(s) \in 0..2 /\ Len(t) \in 0..2
  BY FieldPlace, SectionPaths
<1>6. /\ Len(p) = Len(s) + 1 /\ p[Len(s) + 1] = n /\ \A i \in 1..Len(s) : p[i] = s[i]
      /\ Len(q) = Len(t) + 1 /\ \A i \in 1..Len(t) : q[i] = t[i]
  BY <1>2, <1>4, <1>5, Appended
<1>7. Len(p) <= Len(q) /\ \A i \in 1..Len(p) : p[i] = q[i]
  BY <1>5, PrefixMeans
<1>8. CASE Len(s) = Len(t)
  <2>1. IsPrefix(q, p)
    BY <1>5, <1>6, <1>7, <1>8, PrefixMeans
  <2> QED BY <1>5, <2>1, PrefixOfItself
<1>9. CASE Len(s) = 0 /\ Len(t) \in 1..2
  <2>1. s = << >>
    BY <1>9, SectionPaths
  <2>2. n = "schema_version"
    BY <2>1, SectionCases, OtherNames
  <2>3. p[1] = n /\ q[1] = t[1] /\ p[1] = q[1]
    BY <1>6, <1>7, <1>9
  <2>4. t[1] \in {"model", "dataset", "eval", "training", "experimental"}
    BY <1>9, SectionPaths
  <2> QED BY <2>2, <2>3, <2>4
<1>10. CASE Len(s) = 1 /\ Len(t) = 2
  <2>1. p[1] = s[1] /\ q[1] = t[1] /\ p[1] = q[1] /\ p[2] = n /\ q[2] = t[2] /\ p[2] = q[2]
    BY <1>6, <1>7, <1>10
  <2>2. t[1] = "model" /\ t[2] \in {"encoder", "action_encoder", "predictor", "projector", "pred_proj"}
    BY <1>10, SectionPaths
  <2>3. s = <<"model">>
    <3>1. s[1] = "model"
      BY <2>1, <2>2
    <3>2. \E name \in {"model", "dataset", "eval", "training", "experimental"} : s = <<name>>
      BY <1>10, TwoSteps DEF Sections
    <3> QED BY <3>1, <3>2, OneStep
  <2>4. n \in {"history_size", "horizon"}
    BY <2>3, SectionCases, OtherNames
  <2> QED BY <2>1, <2>2, <2>4
<1> QED BY <1>5, <1>6, <1>7, <1>8, <1>9, <1>10

KindField(section) == <<section, "kind">>

LEMMA TwoAppended == ASSUME NEW a, NEW b PROVE Append(<<a>>, b) = <<a, b>>
<1> DEFINE S == {a, b}
           p == Append(<<a>>, b)
           q == <<a, b>>
<1>1. <<a>> \in Seq(S) /\ Len(<<a>>) = 1 /\ <<a>>[1] = a /\ b \in S
  OBVIOUS
<1>2. p \in Seq(S) /\ Len(p) = 2 /\ p[1] = a /\ p[2] = b
  BY <1>1
<1>3. q \in Seq(S) /\ Len(q) = 2 /\ q[1] = a /\ q[2] = b
  OBVIOUS
<1> HIDE DEF p, q
<1>4. \A i \in 1..2 : p[i] = q[i]
  BY <1>2, <1>3
<1>5. p = q
  BY <1>2, <1>3, <1>4
<1> QED BY <1>5 DEF p, q

\* The sections of the two kinds, and the tables that have one.
LEMMA KindFields ==
  ASSUME NEW d, NEW e
  PROVE  /\ \A s \in {"dataset", "eval"} : Append(<<s>>, "kind") = KindField(s) /\ KindField(s) \in DOMAIN FieldsFor(d, e)
         /\ FieldsFor(d, e)[KindField("dataset")] = Field("pusht", {"pusht", "so100"})
         /\ FieldsFor(d, e)[KindField("eval")]
              = Field("pusht_simulated", {"pusht_simulated", "so100_latent", "so100_latent_rollout"})
         /\ \A p \in DOMAIN FieldsFor(d, e) : Last(p) = "kind" => Front(p) \in {<<"dataset">>, <<"eval">>}
<1>1. \A s \in {"dataset", "eval"} : Append(<<s>>, "kind") = KindField(s)
  BY TwoAppended DEF KindField
<1>2. <<"dataset">> \in Sections /\ <<"eval">> \in Sections
  BY DEF Sections
<1>3. /\ "kind" \in DOMAIN SectionFields(d, e, <<"dataset">>)
      /\ SectionFields(d, e, <<"dataset">>)["kind"] = Field("pusht", {"pusht", "so100"})
  BY SectionCases, DatasetNames
<1>4. /\ "kind" \in DOMAIN SectionFields(d, e, <<"eval">>)
      /\ SectionFields(d, e, <<"eval">>)["kind"]
           = Field("pusht_simulated", {"pusht_simulated", "so100_latent", "so100_latent_rollout"})
  BY SectionCases, EvalNames
<1>5. KindField("dataset") \in DOMAIN FieldsFor(d, e) /\ FieldsFor(d, e)[KindField("dataset")] = Field("pusht", {"pusht", "so100"})
  <2>1. KindField("dataset") = Append(<<"dataset">>, "kind")
    BY <1>1
  <2> DEFINE t == <<"dataset">>
  <2>2. t \in Sections /\ "kind" \in DOMAIN SectionFields(d, e, t)
    BY <1>2, <1>3
  <2>3. /\ Append(t, "kind") \in DOMAIN FieldsFor(d, e)
        /\ FieldsFor(d, e)[Append(t, "kind")] = SectionFields(d, e, t)["kind"]
    <3> HIDE DEF t
    <3> QED BY <2>2, FieldPlace
  <2> QED BY <1>3, <2>1, <2>3
<1>6. /\ KindField("eval") \in DOMAIN FieldsFor(d, e)
      /\ FieldsFor(d, e)[KindField("eval")] = Field("pusht_simulated", {"pusht_simulated", "so100_latent", "so100_latent_rollout"})
  <2>1. KindField("eval") = Append(<<"eval">>, "kind")
    BY <1>1
  <2> DEFINE t == <<"eval">>
  <2>2. t \in Sections /\ "kind" \in DOMAIN SectionFields(d, e, t)
    BY <1>2, <1>4
  <2>3. /\ Append(t, "kind") \in DOMAIN FieldsFor(d, e)
        /\ FieldsFor(d, e)[Append(t, "kind")] = SectionFields(d, e, t)["kind"]
    <3> HIDE DEF t
    <3> QED BY <2>2, FieldPlace
  <2> QED BY <1>4, <2>1, <2>3
<1>7. ASSUME NEW p \in DOMAIN FieldsFor(d, e), Last(p) = "kind" PROVE Front(p) \in {<<"dataset">>, <<"eval">>}
  <2>1. PICK s \in Sections : \E name \in DOMAIN SectionFields(d, e, s) : p = Append(s, name)
    BY FieldPlace
  <2>2. PICK name \in DOMAIN SectionFields(d, e, s) : p = Append(s, name)
    BY <2>1
  <2>3. IsPath(s)
    BY SectionPaths
  <2>4. Front(p) = s /\ name = "kind"
    BY <1>7, <2>2, <2>3, Appended
  <2>5. \A t \in Sections : t \in {<<"dataset">>, <<"eval">>} \/ "kind" \notin DOMAIN SectionFields(d, e, t)
    BY SectionCases, OtherNames DEF Sections
  <2> QED BY <2>2, <2>4, <2>5
<1> QED BY <1>1, <1>5, <1>6, <1>7


\* A field of the default kinds that lies in no table of another kind is a field, and the same one.
LEMMA SameFields ==
  ASSUME NEW d, NEW e, NEW p \in DOMAIN PushtFields,
         Under(<<"dataset">>, p) => d = "pusht", Under(<<"eval">>, p) => e = "pusht_simulated"
  PROVE  p \in DOMAIN FieldsFor(d, e) /\ FieldsFor(d, e)[p] = PushtFields[p]
<1>1. PICK s \in Sections : \E name \in DOMAIN SectionFields("pusht", "pusht_simulated", s) : p = Append(s, name)
  BY FieldPlace DEF PushtFields
<1>2. PICK name \in DOMAIN SectionFields("pusht", "pusht_simulated", s) : p = Append(s, name)
  BY <1>1
<1>3. IsPath(s) /\ Len(s) \in Nat
  BY SectionPaths
<1>4. Under(s, p)
  <2>1. IsPath(p) /\ Len(p) = Len(s) + 1 /\ \A i \in 1..Len(s) : p[i] = s[i]
    BY <1>2, <1>3, Appended
  <2>2. IsPrefix(s, p)
    BY <1>3, <2>1, PrefixMeans
  <2>3. s # p
    BY <1>3, <2>1
  <2> QED BY <2>2, <2>3 DEF Under, IsStrictPrefix
<1>5. SectionFields(d, e, s) = SectionFields("pusht", "pusht_simulated", s)
  <2>1. CASE s = <<"dataset">>
    BY <1>4, <2>1, SectionCases
  <2>2. CASE s = <<"eval">>
    BY <1>4, <2>2, SectionCases
  <2>3. CASE s \notin {<<"dataset">>, <<"eval">>}
    BY <2>3, SectionCases DEF Sections
  <2> QED BY <2>1, <2>2, <2>3
<1>6. PushtFields[p] = SectionFields("pusht", "pusht_simulated", s)[name]
  BY <1>2, FieldPlace DEF PushtFields
<1>7. p \in DOMAIN FieldsFor(d, e) /\ FieldsFor(d, e)[p] = SectionFields(d, e, s)[name]
  BY <1>2, <1>5, FieldPlace
<1> QED BY <1>5, <1>6, <1>7

\* The fields that only the default kinds have.
RawDimField == <<"dataset", "raw_action_dim">>
CandidatesField == <<"eval", "n_cand">>

LEMMA OwnFields ==
  ASSUME NEW d, NEW e
  PROVE  /\ RawDimField \in DOMAIN PushtFields /\ CandidatesField \in DOMAIN PushtFields
         /\ RawDimField \in DOMAIN FieldsFor(d, e) => d = "pusht"
         /\ CandidatesField \in DOMAIN FieldsFor(d, e) => e = "pusht_simulated"
<1>1. <<"dataset">> \in Sections /\ <<"eval">> \in Sections
  BY DEF Sections
<1>2. Append(<<"dataset">>, "raw_action_dim") = RawDimField /\ Append(<<"eval">>, "n_cand") = CandidatesField
  BY TwoAppended DEF RawDimField, CandidatesField
<1>3. /\ "raw_action_dim" \in DOMAIN SectionFields("pusht", "pusht_simulated", <<"dataset">>)
      /\ "n_cand" \in DOMAIN SectionFields("pusht", "pusht_simulated", <<"eval">>)
  BY SectionCases, DatasetNames, EvalNames
<1>4. RawDimField \in DOMAIN PushtFields
  <2> DEFINE t == <<"dataset">>
  <2>1. t \in Sections /\ "raw_action_dim" \in DOMAIN SectionFields("pusht", "pusht_simulated", t)
    BY <1>1, <1>3
  <2>2. Append(t, "raw_action_dim") \in DOMAIN PushtFields
    <3> HIDE DEF t
    <3> QED BY <2>1, FieldPlace DEF PushtFields
  <2> QED BY <1>2, <2>2
<1>5. CandidatesField \in DOMAIN PushtFields
  <2> DEFINE t == <<"eval">>
  <2>1. t \in Sections /\ "n_cand" \in DOMAIN SectionFields("pusht", "pusht_simulated", t)
    BY <1>1, <1>3
  <2>2. Append(t, "n_cand") \in DOMAIN PushtFields
    <3> HIDE DEF t
    <3> QED BY <2>1, FieldPlace DEF PushtFields
  <2> QED BY <1>2, <2>2
<1>6. ASSUME NEW table, NEW name, <<table, name>> \in DOMAIN FieldsFor(d, e)
      PROVE  \E s \in Sections : s = <<table>> /\ name \in DOMAIN SectionFields(d, e, s)
  <2> DEFINE q == <<table, name>>
  <2>0. \E s \in Sections : \E n \in DOMAIN SectionFields(d, e, s) : q = Append(s, n)
    <3>1. q \in DOMAIN FieldsFor(d, e)
      BY <1>6
    <3> HIDE DEF q
    <3> QED BY <3>1, FieldPlace
  <2>1. PICK s \in Sections : \E n \in DOMAIN SectionFields(d, e, s) : <<table, name>> = Append(s, n)
    BY <2>0
  <2>2. PICK n \in DOMAIN SectionFields(d, e, s) : <<table, name>> = Append(s, n)
    BY <2>1
  <2>3. IsPath(s) /\ IsPath(<<table>>)
    BY SectionPaths, OneStep
  <2>4. Front(Append(s, n)) = s /\ Last(Append(s, n)) = n
    BY <2>3, Appended
  <2>5. <<table, name>> = Append(<<table>>, name)
    BY TwoAppended
  <2>6. Front(Append(<<table>>, name)) = <<table>> /\ Last(Append(<<table>>, name)) = name
    BY <2>3, Appended
  <2>7. s = <<table>> /\ n = name
    BY <2>2, <2>4, <2>5, <2>6
  <2> QED BY <2>2, <2>7
<1>7. RawDimField \in DOMAIN FieldsFor(d, e) => d = "pusht"
  <2> SUFFICES ASSUME RawDimField \in DOMAIN FieldsFor(d, e), d # "pusht" PROVE FALSE
    OBVIOUS
  <2>1. "raw_action_dim" \in DOMAIN SectionFields(d, e, <<"dataset">>)
    BY <1>6 DEF RawDimField
  <2>2. SectionFields(d, e, <<"dataset">>) = So100DatasetConfig
    BY SectionCases
  <2> QED BY <2>1, <2>2, DatasetNames
<1>8. CandidatesField \in DOMAIN FieldsFor(d, e) => e = "pusht_simulated"
  <2> SUFFICES ASSUME CandidatesField \in DOMAIN FieldsFor(d, e), e # "pusht_simulated" PROVE FALSE
    OBVIOUS
  <2>1. "n_cand" \in DOMAIN SectionFields(d, e, <<"eval">>)
    BY <1>6 DEF CandidatesField
  <2>2. SectionFields(d, e, <<"eval">>) = So100EvalConfig
    BY SectionCases
  <2> QED BY <2>1, <2>2, EvalNames
<1> QED BY <1>4, <1>5, <1>7, <1>8

LEMMA FieldParts == ASSUME NEW default, NEW values
                    PROVE  Field(default, values).default = default /\ Field(default, values).values = values
BY DEF Field

LEMMA TrainModeIsAField ==
  ASSUME NEW d, NEW e
  PROVE  /\ TrainModeField \in DOMAIN FieldsFor(d, e) /\ FieldsFor(d, e)[TrainModeField].default = "bounded_module"
         /\ ~Under(<<"dataset">>, TrainModeField) /\ ~Under(<<"eval">>, TrainModeField)
         /\ TrainModeField \notin {KindField("dataset"), KindField("eval"), <<"schema_version">>}
<1> DEFINE t == <<"experimental">>
<1>1. t \in Sections /\ "pusht_train_mode" \in DOMAIN SectionFields(d, e, t)
      /\ SectionFields(d, e, t)["pusht_train_mode"] = Field("bounded_module", {"bounded_module", "full_burn_jepa"})
  <2>1. t \in Sections
    BY DEF Sections
  <2>2. SectionFields(d, e, t) = TrainModes
    BY SectionCases
  <2> QED BY <2>1, <2>2, OtherNames
<1>2. Append(t, "pusht_train_mode") = TrainModeField
  BY TwoAppended DEF TrainModeField
<1>3. /\ Append(t, "pusht_train_mode") \in DOMAIN FieldsFor(d, e)
      /\ FieldsFor(d, e)[Append(t, "pusht_train_mode")] = SectionFields(d, e, t)["pusht_train_mode"]
  <2> HIDE DEF t
  <2> QED BY <1>1, FieldPlace
<1>4. FieldsFor(d, e)[TrainModeField].default = "bounded_module"
  <2>1. FieldsFor(d, e)[TrainModeField] = Field("bounded_module", {"bounded_module", "full_burn_jepa"})
    BY <1>1, <1>2, <1>3
  <2> QED BY <2>1, FieldParts
<1>5. IsPath(TrainModeField) /\ TrainModeField[1] = "experimental" /\ TrainModeField[2] = "pusht_train_mode" /\ Len(TrainModeField) = 2
  BY TwoSteps DEF TrainModeField
<1>6. \A table : IsPath(<<table>>) /\ Len(<<table>>) = 1 /\ <<table>>[1] = table
  BY OneStep
<1>7. \A table : IsPrefix(<<table>>, TrainModeField) => table = "experimental"
  <2> SUFFICES ASSUME NEW table, IsPrefix(<<table>>, TrainModeField) PROVE table = "experimental"
    OBVIOUS
  <2> DEFINE u == <<table>>
  <2>1. IsPath(u) /\ Len(u) = 1 /\ u[1] = table
    BY <1>6
  <2>2. IsPrefix(u, TrainModeField)
    OBVIOUS
  <2> HIDE DEF u
  <2>3. \A i \in 1..Len(u) : u[i] = TrainModeField[i]
    BY <1>5, <2>1, <2>2, PrefixMeans
  <2> QED BY <1>5, <2>1, <2>3
<1>8. ~Under(<<"dataset">>, TrainModeField) /\ ~Under(<<"eval">>, TrainModeField)
  BY <1>7 DEF Under, IsStrictPrefix
<1>9. TrainModeField \notin {KindField("dataset"), KindField("eval"), <<"schema_version">>}
  BY DEF TrainModeField, KindField
<1> QED BY <1>2, <1>3, <1>4, <1>8, <1>9
-----------------------------------------------------------------------------
(* The --set options, one after the other. *)

\* The values on the way from value, through the options.
Applied(value, options, f) ==
  /\ f[0] = value
  /\ \A k \in 1..Len(options) : f[k] = ApplyValue(f[k - 1], options[k][1], options[k][2])

LEMMA SetsAreApplied ==
  ASSUME NEW value, NEW options, Len(options) \in Nat
  PROVE  \E f : Applied(value, options, f) /\ ApplySets(value, options) = f[Len(options)]
<1> DEFINE n == Len(options)
           Upto(m, f) == /\ f = [i \in 0..m |-> f[i]] /\ f[0] = value
                         /\ \A k \in 1..m : f[k] = ApplyValue(f[k - 1], options[k][1], options[k][2])
           S == {m \in 0..n : \E f : Upto(m, f)}
           Rec(f) == f = [k \in 0..n |-> IF k = 0 THEN value ELSE ApplyValue(f[k - 1], options[k][1], options[k][2])]
           after == CHOOSE f : Rec(f)
<1>1. 0 \in S
  <2> DEFINE f == [i \in 0..0 |-> value]
  <2>1. Upto(0, f)
    OBVIOUS
  <2> HIDE DEF Upto, f
  <2> QED BY <2>1
<1>2. ASSUME NEW m \in 1..n, m - 1 \in S PROVE m \in S
  <2>1. PICK f : Upto(m - 1, f)
    BY <1>2
  <2> DEFINE g == [i \in 0..m |-> IF i = m THEN ApplyValue(f[m - 1], options[m][1], options[m][2]) ELSE f[i]]
  <2>2. g = [i \in 0..m |-> g[i]] /\ g[0] = value
    BY <2>1
  <2>3. ASSUME NEW k \in 1..m PROVE g[k] = ApplyValue(g[k - 1], options[k][1], options[k][2])
    <3>1. g[k - 1] = f[k - 1] /\ k - 1 \in 0..m
      OBVIOUS
    <3>2. CASE k = m
      BY <3>1, <3>2
    <3>3. CASE k # m
      <4>1. g[k] = f[k] /\ k \in 1..(m - 1)
        BY <3>3
      <4>2. f[k] = ApplyValue(f[k - 1], options[k][1], options[k][2])
        BY <2>1, <4>1
      <4> QED BY <3>1, <4>1, <4>2
    <3> QED BY <3>2, <3>3
  <2> HIDE DEF g
  <2>4. Upto(m, g)
    BY <2>2, <2>3
  <2> HIDE DEF Upto
  <2> QED BY <2>4
<1>3. n \in S
  <2>1. n \in 0..n
    OBVIOUS
  <2> HIDE DEF S, n
  <2> QED BY <1>1, <1>2, <2>1, Induction
<1>4. PICK f : Upto(n, f)
  BY <1>3
<1>5. Rec(f)
  <2>1. \A k \in 0..n : f[k] = IF k = 0 THEN value ELSE ApplyValue(f[k - 1], options[k][1], options[k][2])
    <3> SUFFICES ASSUME NEW k \in 0..n
                 PROVE  f[k] = IF k = 0 THEN value ELSE ApplyValue(f[k - 1], options[k][1], options[k][2])
      OBVIOUS
    <3>1. k = 0 \/ k \in 1..n
      OBVIOUS
    <3>2. CASE k = 0
      BY <1>4, <3>2
    <3>3. CASE k \in 1..n
      <4>1. f[k] = ApplyValue(f[k - 1], options[k][1], options[k][2]) /\ k # 0
        BY <1>4, <3>3
      <4> QED BY <4>1
    <3> QED BY <3>1, <3>2, <3>3
  <2>2. f = [k \in 0..n |-> f[k]]
    BY <1>4
  <2> QED BY <2>1, <2>2
<1>6. Rec(after)
  <2> HIDE DEF Rec
  <2> QED BY <1>5
<1>7. ApplySets(value, options) = after[n]
  BY DEF ApplySets
<1> HIDE DEF after
<1>8. Applied(value, options, after)
  BY <1>6 DEF Applied
<1> QED BY <1>7, <1>8

\* One option: what it sets, what it keeps, and what it removes it covers.
LEMMA OneOption ==
  ASSUME NEW value, IsTable(value), NEW p, IsPath(p), NEW leaf
  PROVE  LET after == ApplyValue(value, p, leaf)
         IN  /\ IsTable(after) /\ p \in DOMAIN after /\ after[p] = leaf
             /\ \A q \in DOMAIN after : q # p => q \in DOMAIN value /\ after[q] = value[q]
             /\ \A q \in DOMAIN value : q \in DOMAIN after \/ IsPrefix(p, q)
<1> DEFINE first == [q \in {p} |-> leaf]
           rest == [q \in {q \in DOMAIN value : ~IsPrefix(p, q)} |-> value[q]]
           after == ApplyValue(value, p, leaf)
<1>1. after = Over(first, rest)
  BY DEF ApplyValue
<1>2. DOMAIN first = {p} /\ first[p] = leaf
  OBVIOUS
<1>3. DOMAIN rest = {q \in DOMAIN value : ~IsPrefix(p, q)} /\ \A q \in DOMAIN rest : rest[q] = value[q]
  OBVIOUS
<1> HIDE DEF first, rest, after
<1>4. /\ DOMAIN after = {p} \cup DOMAIN rest /\ after = [x \in DOMAIN after |-> after[x]]
      /\ after[p] = leaf /\ \A x \in DOMAIN rest : x # p => after[x] = rest[x]
  <2>1. DOMAIN after = {p} \cup DOMAIN rest
    <3>1. DOMAIN after = DOMAIN first \cup DOMAIN rest
      BY <1>1, OverDomain, Zenon
    <3> QED BY <1>2, <3>1
  <2>2. after = [x \in DOMAIN after |-> after[x]]
    BY <1>1, OverFunction, Zenon
  <2>3. after[p] = leaf
    BY <1>1, <1>2, OverFirst
  <2>4. \A x \in DOMAIN rest : x # p => after[x] = rest[x]
    BY <1>1, <1>2, OverSecond
  <2> QED BY <2>1, <2>2, <2>3, <2>4
<1>5. IsTable(after)
  <2>1. \A q \in DOMAIN value : IsPath(q)
    BY DEF IsTable
  <2>2. \A q \in DOMAIN after : IsPath(q)
    BY <1>3, <1>4, <2>1
  <2> QED BY <1>4, <2>2 DEF IsTable
<1> QED BY <1>3, <1>4, <1>5 DEF after


\* Through all options: tables stay tables, a leaf stays or a leaf above it comes, and a leaf that no
\* option names afterwards has the value it had.
LEMMA AllOptions ==
  ASSUME NEW value, IsTable(value), NEW options, AreOptions(options), NEW f, Applied(value, options, f),
         NEW j \in 0..Len(options)
  PROVE  LET n == Len(options)
         IN  /\ IsTable(f[j]) /\ IsTable(f[n])
             /\ \A q \in DOMAIN f[j] : \E r \in DOMAIN f[n] : IsPrefix(r, q)
             /\ \A p : (\A k \in (j + 1)..n : options[k][1] # p) /\ p \in DOMAIN f[n]
                       => p \in DOMAIN f[j] /\ f[n][p] = f[j][p]
<1> DEFINE n == Len(options)
           Covers(a, b) == \A q \in DOMAIN a : \E r \in DOMAIN b : IsPrefix(r, q)
           Unnamed(i, m, p) == \A k \in (i + 1)..m : options[k][1] # p
           Same(i, m) == \A p : Unnamed(i, m, p) /\ p \in DOMAIN f[m] => p \in DOMAIN f[i] /\ f[m][p] = f[i][p]
           Tables == {m \in 0..n : IsTable(f[m])}
           S == {m \in 0..n : m < j \/ (Covers(f[j], f[m]) /\ Same(j, m))}
<1>1. n \in Nat /\ f[0] = value
      /\ \A k \in 1..n : f[k] = ApplyValue(f[k - 1], options[k][1], options[k][2]) /\ IsPath(options[k][1])
  BY DEF AreOptions, Applied
<1>2. ASSUME NEW k \in 1..n, IsTable(f[k - 1])
      PROVE  /\ IsTable(f[k])
             /\ \A q \in DOMAIN f[k] : q # options[k][1] => q \in DOMAIN f[k - 1] /\ f[k][q] = f[k - 1][q]
             /\ \A q \in DOMAIN f[k - 1] : q \in DOMAIN f[k] \/ (options[k][1] \in DOMAIN f[k] /\ IsPrefix(options[k][1], q))
  BY <1>1, <1>2, OneOption
<1>3. \A m \in 0..n : IsTable(f[m])
  <2>1. 0 \in Tables
    BY <1>1
  <2>2. \A k \in 1..n : k - 1 \in Tables => k \in Tables
    BY <1>2
  <2>3. 0..n \subseteq Tables
    <3> HIDE DEF Tables, n
    <3> QED BY <1>1, <2>1, <2>2, Induction
  <2> QED BY <2>3
<1>4. j \in 0..n /\ j \in Nat
  OBVIOUS
<1>5. \A m \in 0..n : \A q \in DOMAIN f[m] : IsPath(q)
  BY <1>3 DEF IsTable
<1>6. Covers(f[j], f[j]) /\ Same(j, j)
  <2>1. \A q \in DOMAIN f[j] : IsPrefix(q, q)
    BY <1>4, <1>5, PrefixOfItself
  <2> QED BY <2>1
<1>7. 0 \in S
  <2>1. CASE j = 0
    BY <1>1, <1>6, <2>1
  <2>2. CASE j # 0
    BY <1>1, <1>4, <2>2
  <2> QED BY <2>1, <2>2
<1>8. ASSUME NEW m \in 1..n, m - 1 \in S PROVE m \in S
  <2>1. CASE m < j
    BY <2>1
  <2>2. CASE m = j
    BY <1>6, <2>2
  <2>3. CASE m > j
    <3>1. Covers(f[j], f[m - 1]) /\ Same(j, m - 1) /\ m - 1 \in 0..n /\ m \in 0..n
      BY <1>4, <1>8, <2>3
    <3>2. IsTable(f[m - 1])
      BY <1>3, <3>1
    <3>3. Covers(f[j], f[m])
      <4> SUFFICES ASSUME NEW q \in DOMAIN f[j] PROVE \E r \in DOMAIN f[m] : IsPrefix(r, q)
        OBVIOUS
      <4>1. PICK r \in DOMAIN f[m - 1] : IsPrefix(r, q)
        BY <3>1
      <4>2. CASE r \in DOMAIN f[m]
        BY <4>1, <4>2
      <4>3. CASE options[m][1] \in DOMAIN f[m] /\ IsPrefix(options[m][1], r)
        <5>1. IsPath(options[m][1]) /\ IsPath(r) /\ IsPath(q)
          BY <1>1, <1>4, <1>5, <3>1
        <5>2. IsPrefix(options[m][1], q)
          BY <4>1, <4>3, <5>1, PrefixOfPrefix
        <5> QED BY <4>3, <5>2
      <4> QED BY <1>2, <3>2, <4>2, <4>3
    <3>4. Same(j, m)
      <4> SUFFICES ASSUME NEW p, Unnamed(j, m, p), p \in DOMAIN f[m] PROVE p \in DOMAIN f[j] /\ f[m][p] = f[j][p]
        OBVIOUS
      <4>1. options[m][1] # p
        <5>1. m \in (j + 1)..m
          BY <1>4, <2>3
        <5> QED BY <5>1
      <4>2. p \in DOMAIN f[m - 1] /\ f[m][p] = f[m - 1][p]
        BY <1>2, <3>2, <4>1
      <4>3. Unnamed(j, m - 1, p)
        <5>1. \A k \in (j + 1)..(m - 1) : k \in (j + 1)..m
          BY <1>4
        <5> QED BY <5>1
      <4>4. p \in DOMAIN f[j] /\ f[m - 1][p] = f[j][p]
        <5> HIDE DEF Unnamed
        <5> QED BY <3>1, <4>2, <4>3
      <4> QED BY <4>2, <4>4
    <3> HIDE DEF Covers, Same
    <3> QED BY <3>1, <3>3, <3>4
  <2> HIDE DEF S
  <2> QED BY <1>1, <1>4, <2>1, <2>2, <2>3
<1>9. n \in S /\ n \in 0..n
  <2>1. n \in 0..n
    BY <1>1
  <2> HIDE DEF S, n
  <2> QED BY <1>1, <1>7, <1>8, <2>1, Induction
<1>10. Covers(f[j], f[n]) /\ Same(j, n)
  <2>1. ~(n < j)
    BY <1>1, <1>4
  <2> HIDE DEF Covers, Same
  <2> QED BY <1>9, <2>1
<1> QED BY <1>3, <1>4, <1>9, <1>10

LEMMA OverTables ==
  ASSUME NEW f, NEW g, IsTable(f), IsTable(g)
  PROVE  IsTable(Over(f, g))
<1>1. DOMAIN Over(f, g) = DOMAIN f \cup DOMAIN g /\ Over(f, g) = [x \in DOMAIN Over(f, g) |-> Over(f, g)[x]]
  BY OverAt
<1>2. \A p \in DOMAIN f \cup DOMAIN g : IsPath(p)
  BY DEF IsTable
<1> QED BY <1>1, <1>2 DEF IsTable

LEMMA NoLayer == IsTable(<< >>) /\ AreOptions(<< >>) /\ DOMAIN << >> = {} /\ Len(<< >>) = 0
<1>1. DOMAIN << >> = {} /\ Len(<< >>) = 0 /\ << >> = [x \in {} |-> << >>[x]]
  OBVIOUS
<1>2. << >> = [k \in 1..0 |-> << >>[k]]
  OBVIOUS
<1> QED BY <1>1, <1>2 DEF IsTable, AreOptions

-----------------------------------------------------------------------------
(* The layers of a job, and what is decoded from them. *)

Switched(over) == SwitchedTables(Defaults, over)
Merged(over) == MergeValues(Defaults, over)
Related(p, q) == IsPrefix(q, p) \/ IsPrefix(p, q)

LEMMA DefaultsAt ==
  DOMAIN Defaults = DOMAIN PushtFields /\ \A p \in DOMAIN PushtFields : Defaults[p] = PushtFields[p].default /\ IsPath(p)
BY FieldPlace DEF Defaults, PushtFields

LEMMA SwitchedByTheFile ==
  ASSUME NEW over
  PROVE  /\ Switched(over) \subseteq {<<"dataset">>, <<"eval">>}
         /\ <<"dataset">> \in Switched(over)
              <=> KindField("dataset") \in DOMAIN over /\ over[KindField("dataset")] # "pusht"
         /\ <<"eval">> \in Switched(over)
              <=> KindField("eval") \in DOMAIN over /\ over[KindField("eval")] # "pusht_simulated"
<1> DEFINE tables == {Front(p) : p \in {q \in DOMAIN Defaults : Last(q) = "kind"}}
<1>1. \A t : t \in Switched(over) <=> t \in tables /\ Append(t, "kind") \in DOMAIN over
                                       /\ over[Append(t, "kind")] # Defaults[Append(t, "kind")]
  BY DEF Switched, SwitchedTables
<1>2. tables \subseteq {<<"dataset">>, <<"eval">>}
  BY DefaultsAt, KindFields DEF PushtFields
<1>3. ASSUME NEW s \in {"dataset", "eval"} PROVE <<s>> \in tables /\ Append(<<s>>, "kind") = KindField(s)
  <2> DEFINE t == <<s>>
             p == Append(t, "kind")
  <2>1. p = KindField(s) /\ p \in DOMAIN Defaults
    BY DefaultsAt, KindFields DEF PushtFields
  <2>2. IsPath(t)
    BY OneStep
  <2>3. Front(p) = t /\ Last(p) = "kind"
    <3> HIDE DEF t
    <3> QED BY <2>2, Appended
  <2>4. t \in tables
    <3> HIDE DEF t, p
    <3> QED BY <2>1, <2>3
  <2> QED BY <2>1, <2>4
<1>4. Defaults[KindField("dataset")] = "pusht" /\ Defaults[KindField("eval")] = "pusht_simulated"
  <2>1. KindField("dataset") \in DOMAIN PushtFields /\ KindField("eval") \in DOMAIN PushtFields
    BY KindFields DEF PushtFields
  <2>2. /\ PushtFields[KindField("dataset")] = Field("pusht", {"pusht", "so100"})
        /\ PushtFields[KindField("eval")] = Field("pusht_simulated", {"pusht_simulated", "so100_latent", "so100_latent_rollout"})
    BY KindFields DEF PushtFields
  <2>3. PushtFields[KindField("dataset")].default = "pusht" /\ PushtFields[KindField("eval")].default = "pusht_simulated"
    BY <2>2, FieldParts
  <2> QED BY <2>1, <2>3, DefaultsAt
<1> HIDE DEF tables
<1> QED BY <1>1, <1>2, <1>3, <1>4

LEMMA MergedAt ==
  ASSUME NEW over, IsTable(over)
  PROVE  LET m == Merged(over)
         IN  /\ IsTable(m) /\ m = [p \in DOMAIN m |-> m[p]]
             /\ \A p \in DOMAIN over : p \in DOMAIN m /\ m[p] = over[p]
             /\ \A p \in DOMAIN m : p \notin DOMAIN over =>
                  /\ p \in DOMAIN PushtFields /\ m[p] = PushtFields[p].default
                  /\ (\A t \in Switched(over) : ~Under(t, p)) /\ \A q \in DOMAIN over : ~Related(p, q)
             /\ \A p \in DOMAIN PushtFields :
                  (\A t \in Switched(over) : ~Under(t, p)) => p \in DOMAIN m \/ \E q \in DOMAIN over : Related(p, q)
<1> DEFINE m == Merged(over)
           kept == {p \in DOMAIN Defaults : /\ \A t \in Switched(over) : ~Under(t, p)
                                            /\ \A q \in DOMAIN over : ~IsPrefix(q, p) /\ ~IsPrefix(p, q)}
           rest == [p \in kept |-> Defaults[p]]
<1>1. m = Over(over, rest)
  BY DEF Merged, MergeValues, MergeFields, Switched
<1>2. DOMAIN rest = kept /\ \A p \in kept : rest[p] = Defaults[p]
  OBVIOUS
<1>3. \A p \in kept : /\ p \in DOMAIN PushtFields /\ Defaults[p] = PushtFields[p].default /\ IsPath(p)
                      /\ (\A t \in Switched(over) : ~Under(t, p)) /\ \A q \in DOMAIN over : ~Related(p, q)
  BY DefaultsAt DEF Related
<1>4. \A p \in DOMAIN PushtFields :
        (\A t \in Switched(over) : ~Under(t, p)) => p \in kept \/ \E q \in DOMAIN over : Related(p, q)
  BY DefaultsAt DEF Related
<1> HIDE DEF kept, rest
<1>5. DOMAIN m = DOMAIN over \cup DOMAIN rest
  <2>1. DOMAIN Over(over, rest) = DOMAIN over \cup DOMAIN rest
    BY OverDomain
  <2> QED BY <1>1, <2>1, Zenon
<1>6. m = [p \in DOMAIN m |-> m[p]]
  BY <1>1, OverAt
<1>7. \A p \in DOMAIN over : m[p] = over[p]
  BY <1>1, OverFirst
<1>8. \A p \in DOMAIN rest : p \notin DOMAIN over => m[p] = rest[p]
  BY <1>1, OverSecond
<1>9. \A p \in DOMAIN over : IsPath(p)
  BY DEF IsTable
<1>10. \A p \in DOMAIN m : IsPath(p)
  BY <1>2, <1>3, <1>5, <1>9
<1>11. IsTable(m)
  BY <1>6, <1>10 DEF IsTable
<1> HIDE DEF m
<1> QED BY <1>2, <1>3, <1>4, <1>5, <1>6, <1>7, <1>8, <1>11 DEF m

AreLayers(layers) == IsTable(layers.file) /\ IsTable(layers.env) /\ AreOptions(layers.sets)
Final(layers) == Layered(layers, Merged(layers.file))
Start(layers) == Over(layers.env, Merged(layers.file))

LEMMA FinalAt ==
  ASSUME NEW layers, AreLayers(layers)
  PROVE  LET v == Final(layers)
             n == Len(layers.sets)
         IN  /\ IsTable(v)
             /\ \A q \in DOMAIN Start(layers) : \E r \in DOMAIN v : IsPrefix(r, q)
             /\ \A p \in DOMAIN v : (\A k \in 1..n : layers.sets[k][1] # p)
                                     => p \in DOMAIN Start(layers) /\ v[p] = Start(layers)[p]
             /\ \A j \in 1..n : \E r \in DOMAIN v : IsPrefix(r, layers.sets[j][1])
             /\ \A j \in 1..n : (\A k \in (j + 1)..n : layers.sets[k][1] # layers.sets[j][1])
                                /\ layers.sets[j][1] \in DOMAIN v
                                => v[layers.sets[j][1]] = layers.sets[j][2]
<1> DEFINE sets == layers.sets
           n == Len(sets)
           start == Start(layers)
           v == Final(layers)
<1>1. AreOptions(sets) /\ n \in Nat /\ IsTable(start)
  <2>1. IsTable(Merged(layers.file)) /\ IsTable(layers.env) /\ AreOptions(sets)
    BY MergedAt DEF AreLayers
  <2> QED BY <2>1, OverTables DEF Start, AreOptions
<1>2. PICK f : Applied(start, sets, f) /\ v = f[n]
  <2>1. v = ApplySets(start, sets)
    BY DEF Final, Layered, ApplyEnv, Start
  <2> HIDE DEF v, start, sets
  <2> QED BY <1>1, <2>1, SetsAreApplied DEF n
<1> HIDE DEF sets, start, v
<1>3. \A j \in 0..n :
        /\ IsTable(f[j]) /\ IsTable(f[n])
        /\ \A q \in DOMAIN f[j] : \E r \in DOMAIN f[n] : IsPrefix(r, q)
        /\ \A p : (\A k \in (j + 1)..n : sets[k][1] # p) /\ p \in DOMAIN f[n]
                  => p \in DOMAIN f[j] /\ f[n][p] = f[j][p]
  BY <1>1, <1>2, AllOptions
<1>4. f[0] = start /\ 0 \in 0..n /\ \A j \in 1..n : f[j] = ApplyValue(f[j - 1], sets[j][1], sets[j][2]) /\ IsPath(sets[j][1])
  BY <1>1, <1>2 DEF Applied, AreOptions
<1>5. ASSUME NEW j \in 1..n PROVE sets[j][1] \in DOMAIN f[j] /\ f[j][sets[j][1]] = sets[j][2]
  <2>1. j - 1 \in 0..n
    BY <1>1
  <2> QED BY <1>3, <1>4, <2>1, OneOption
<1>6. IsTable(v)
  BY <1>2, <1>3, <1>4
<1>7. \A q \in DOMAIN start : \E r \in DOMAIN v : IsPrefix(r, q)
  BY <1>2, <1>3, <1>4
<1>8. \A p \in DOMAIN v : (\A k \in 1..n : sets[k][1] # p) => p \in DOMAIN start /\ v[p] = start[p]
  <2>1. 0 + 1 = 1
    OBVIOUS
  <2>2. \A p : (\A k \in 1..n : sets[k][1] # p) /\ p \in DOMAIN f[n] => p \in DOMAIN f[0] /\ f[n][p] = f[0][p]
    BY <1>3, <1>4, <2>1
  <2> QED BY <1>2, <1>4, <2>2
<1>9. \A j \in 1..n : j \in 0..n
  BY <1>1
<1>10. \A j \in 1..n : \E r \in DOMAIN v : IsPrefix(r, sets[j][1])
  BY <1>2, <1>3, <1>5, <1>9
<1>11. \A j \in 1..n : (\A k \in (j + 1)..n : sets[k][1] # sets[j][1]) /\ sets[j][1] \in DOMAIN v => v[sets[j][1]] = sets[j][2]
  BY <1>2, <1>3, <1>5, <1>9
<1> QED BY <1>6, <1>7, <1>8, <1>10, <1>11 DEF sets, v, start

LEMMA DecodedAt ==
  ASSUME NEW v, IsTable(v), Decodes(v)
  PROVE  LET root == Decoded(v)
             d == Kind(v, "dataset")
             e == Kind(v, "eval")
         IN  /\ DOMAIN root = DOMAIN FieldsFor(d, e) /\ root = [p \in DOMAIN root |-> root[p]]
             /\ DOMAIN v \subseteq DOMAIN root /\ FieldsOf(v) = FieldsFor(d, e) /\ FieldsOf(root) = FieldsFor(d, e)
             /\ root[KindField("eval")] = e /\ Kind(root, "dataset") = d /\ Kind(root, "eval") = e
             /\ KindField("dataset") \in DOMAIN v /\ KindField("eval") \in DOMAIN v
             /\ \A p \in DOMAIN v : p # KindField("eval") => root[p] = v[p]
             /\ \A p \in DOMAIN root : p \notin DOMAIN v => root[p] = FieldsFor(d, e)[p].default
<1> DEFINE d == Kind(v, "dataset")
           e == Kind(v, "eval")
           fields == FieldsFor(d, e)
           plain == [p \in DOMAIN fields |-> fields[p].default]
           whole == Over(v, plain)
           root == Decoded(v)
<1>1. FieldsOf(v) = fields
  BY DEF FieldsOf
<1>2. DOMAIN v \subseteq DOMAIN fields /\ KindField("dataset") \in DOMAIN v /\ KindField("eval") \in DOMAIN v
  BY <1>1 DEF Decodes, KindField
<1>3. root = [whole EXCEPT ![KindField("eval")] = e]
  BY <1>1 DEF Decoded, KindField
<1>4. DOMAIN plain = DOMAIN fields /\ \A p \in DOMAIN fields : plain[p] = fields[p].default
  OBVIOUS
<1> HIDE DEF plain, root, fields
<1>5. /\ DOMAIN whole = DOMAIN v \cup DOMAIN plain /\ whole = [p \in DOMAIN whole |-> whole[p]]
      /\ \A p \in DOMAIN v : whole[p] = v[p]
      /\ \A p \in DOMAIN plain : p \notin DOMAIN v => whole[p] = plain[p]
  <2>1. DOMAIN whole = DOMAIN v \cup DOMAIN plain
    BY OverDomain
  <2>2. whole = [p \in DOMAIN whole |-> whole[p]]
    BY OverFunction, Zenon
  <2>3. \A p \in DOMAIN v : whole[p] = v[p]
    BY OverFirst
  <2>4. \A p \in DOMAIN plain : p \notin DOMAIN v => whole[p] = plain[p]
    BY OverSecond
  <2> QED BY <2>1, <2>2, <2>3, <2>4
<1> HIDE DEF whole
<1>6. DOMAIN whole = DOMAIN fields
  BY <1>2, <1>4, <1>5
<1>7. /\ DOMAIN root = DOMAIN fields /\ root = [p \in DOMAIN root |-> root[p]]
      /\ root[KindField("eval")] = e /\ \A p \in DOMAIN fields : p # KindField("eval") => root[p] = whole[p]
  BY <1>2, <1>3, <1>5, <1>6
<1>8. KindField("dataset") # KindField("eval")
  BY DEF KindField
<1>9. \A p \in DOMAIN v : p # KindField("eval") => root[p] = v[p]
  BY <1>2, <1>5, <1>7
<1>10. \A p \in DOMAIN root : p \notin DOMAIN v => root[p] = fields[p].default
  BY <1>2, <1>4, <1>5, <1>7
<1>11. Kind(root, "dataset") = d
  BY <1>2, <1>8, <1>9 DEF Kind, KindField
<1>12. Kind(root, "eval") = e
  <2>1. e # "so100_latent_rollout"
    BY DEF Kind
  <2> QED BY <1>7, <2>1 DEF Kind, KindField
<1>13. FieldsOf(root) = fields
  BY <1>11, <1>12 DEF FieldsOf, fields
<1> QED BY <1>1, <1>2, <1>7, <1>9, <1>10, <1>11, <1>12, <1>13 DEF root, fields

-----------------------------------------------------------------------------
(* A layer names what is there in the end. *)

LEMMA NamedIsThere ==
  ASSUME NEW v, Decodes(v), NEW c, NEW f, NEW p \in DOMAIN FieldsFor(c, f), NEW r \in DOMAIN v,
         IsPrefix(r, p) \/ IsPrefix(p, r)
  PROVE  p \in DOMAIN v
<1>1. r \in DOMAIN FieldsFor(Kind(v, "dataset"), Kind(v, "eval"))
  BY DEF Decodes, FieldsOf
<1>2. r = p
  BY <1>1, FieldsArePrefixFree
<1> QED BY <1>2

LEMMA UnswitchedStays ==
  ASSUME NEW layers, AreLayers(layers), Decodes(Final(layers)), NEW p \in DOMAIN PushtFields,
         \A t \in Switched(layers.file) : ~Under(t, p)
  PROVE  p \in DOMAIN Final(layers)
<1> DEFINE v == Final(layers)
           m == Merged(layers.file)
<1>1. IsTable(v) /\ IsTable(m) /\ IsTable(layers.file) /\ IsPath(p)
  <2>1. IsTable(v)
    BY FinalAt
  <2>2. IsTable(layers.file)
    BY DEF AreLayers
  <2>3. IsTable(m)
    BY <2>2, MergedAt
  <2>4. IsPath(p)
    BY FieldPlace DEF PushtFields
  <2> QED BY <2>1, <2>2, <2>3, <2>4
<1>2. \E q \in DOMAIN m : Related(p, q)
  <2>1. p \in DOMAIN m \/ \E q \in DOMAIN layers.file : Related(p, q)
    BY <1>1, MergedAt
  <2>2. Related(p, p)
    BY <1>1, PrefixOfItself DEF Related
  <2>3. \A q \in DOMAIN layers.file : q \in DOMAIN m
    BY <1>1, MergedAt
  <2> QED BY <2>1, <2>2, <2>3
<1>3. PICK q \in DOMAIN m : Related(p, q)
  BY <1>2
<1>4. q \in DOMAIN Start(layers)
  <2>1. DOMAIN Start(layers) = DOMAIN layers.env \cup DOMAIN m
    BY OverDomain DEF Start
  <2> QED BY <1>3, <2>1
<1>5. PICK r \in DOMAIN v : IsPrefix(r, q)
  BY <1>4, FinalAt
<1>6. IsPath(r) /\ IsPath(q)
  BY <1>1, <1>3, <1>5 DEF IsTable
<1>7. IsPrefix(r, p) \/ IsPrefix(p, r)
  <2>1. CASE IsPrefix(q, p)
    BY <2>1, <1>1, <1>5, <1>6, PrefixOfPrefix
  <2>2. CASE IsPrefix(p, q)
    BY <2>2, <1>1, <1>5, <1>6, PrefixesOfOne
  <2> QED BY <2>1, <2>2, <1>3 DEF Related
<1>8. p \in DOMAIN FieldsFor("pusht", "pusht_simulated")
  BY DEF PushtFields
<1> HIDE DEF v
<1>9. Decodes(v)
  BY DEF v
<1>10. p \in DOMAIN v
  BY <1>5, <1>7, <1>8, <1>9, NamedIsThere
<1> QED BY <1>10 DEF v

LEMMA OtherSection ==
  ASSUME NEW a, NEW b, NEW c, a # b
  PROVE  ~Under(<<a>>, <<b, c>>)
<1> DEFINE s == <<a>>
           t == <<b, c>>
<1>1. IsPath(s) /\ Len(s) = 1 /\ s[1] = a
  BY OneStep
<1>2. IsPath(t) /\ Len(t) = 2 /\ t[1] = b
  BY TwoSteps
<1> HIDE DEF s, t
<1>3. ~IsPrefix(s, t)
  BY <1>1, <1>2, PrefixMeans
<1>4. ~Under(s, t)
  BY <1>3 DEF Under, IsStrictPrefix
<1> QED BY <1>4 DEF s, t

LEMMA UnswitchedKind ==
  ASSUME NEW layers, AreLayers(layers), Decodes(Final(layers))
  PROVE  /\ <<"dataset">> \notin Switched(layers.file) => Kind(Final(layers), "dataset") = "pusht"
         /\ <<"eval">> \notin Switched(layers.file) => Kind(Final(layers), "eval") = "pusht_simulated"
<1> DEFINE v == Final(layers)
           d == Kind(v, "dataset")
           e == Kind(v, "eval")
<1>1. DOMAIN v \subseteq DOMAIN FieldsFor(d, e)
  BY DEF Decodes, FieldsOf
<1>2. Switched(layers.file) \subseteq {<<"dataset">>, <<"eval">>}
  BY SwitchedByTheFile
<1>3. RawDimField \in DOMAIN PushtFields /\ CandidatesField \in DOMAIN PushtFields
  BY OwnFields
<1>4. ~Under(<<"eval">>, RawDimField) /\ ~Under(<<"dataset">>, CandidatesField)
  <2>1. ~Under(<<"eval">>, <<"dataset", "raw_action_dim">>)
    BY OtherSection
  <2>2. ~Under(<<"dataset">>, <<"eval", "n_cand">>)
    BY OtherSection
  <2> QED BY <2>1, <2>2, Zenon DEF RawDimField, CandidatesField
<1> DEFINE ds == <<"dataset">>
           es == <<"eval">>
<1>5. /\ Switched(layers.file) \subseteq {ds, es}
      /\ ~Under(es, RawDimField) /\ ~Under(ds, CandidatesField)
  BY <1>2, <1>4
<1> HIDE DEF ds, es
<1>6. ASSUME ds \notin Switched(layers.file) PROVE RawDimField \in DOMAIN v
  <2>1. \A t \in Switched(layers.file) : ~Under(t, RawDimField)
    BY <1>5, <1>6
  <2> QED BY <2>1, <1>3, UnswitchedStays
<1>7. ASSUME es \notin Switched(layers.file) PROVE CandidatesField \in DOMAIN v
  <2>1. \A t \in Switched(layers.file) : ~Under(t, CandidatesField)
    BY <1>5, <1>7
  <2> QED BY <2>1, <1>3, UnswitchedStays
<1> HIDE DEF v, d, e
<1>8. ds \notin Switched(layers.file) => d = "pusht"
  BY <1>1, <1>6, OwnFields
<1>9. es \notin Switched(layers.file) => e = "pusht_simulated"
  BY <1>1, <1>7, OwnFields
<1> QED BY <1>8, <1>9 DEF ds, es, d, e, v

-----------------------------------------------------------------------------
(* What load_root answers. *)

LEMMA LoadedMeans ==
  ASSUME NEW layers, LoadRoot(layers).how = "loaded"
  PROVE  LET v == Final(layers)
             root == Decoded(v)
         IN  /\ LoadRoot(layers) = [how |-> "loaded", root |-> root] /\ LoadRoot(layers).root = root
             /\ Decodes(v) /\ root[<<"schema_version">>] = "1.0.0"
             /\ RangesOk(root) /\ ShapeOk(root) /\ CrossFieldsOk(root)
<1> DEFINE schema == <<"schema_version">>
           v == Final(layers)
           root == Decoded(v)
           sound == RangesOk(root) /\ ShapeOk(root) /\ CrossFieldsOk(root)
           here == schema \in DOMAIN layers.file
           env == EnvRefused(layers.env)
           sets == SetRefused(Merged(layers.file), layers.sets)
           decodes == Decodes(v)
           version == root[schema]
<1>1. LoadRoot(layers) =
        IF ~here THEN Failed("no schema_version")
        ELSE IF env THEN Failed("environment")
        ELSE IF sets THEN Failed("override")
        ELSE IF ~decodes THEN Failed("unknown field")
        ELSE IF version # "1.0.0" THEN Failed("schema")
        ELSE IF ~sound THEN Failed("validation")
        ELSE [how |-> "loaded", root |-> root]
  BY DEF LoadRoot, Merged, Final
<1>2. \A how : Failed(how).how = how
  BY DEF Failed
<1> HIDE DEF root, v, sound, here, env, sets, decodes, version
<1>3. decodes /\ version = "1.0.0" /\ sound /\ LoadRoot(layers) = [how |-> "loaded", root |-> root]
  BY <1>1, <1>2
<1>4. LoadRoot(layers).root = root
  BY <1>3
<1> QED BY <1>3, <1>4 DEF root, v, sound, decodes, version

LEMMA LoadedWhen ==
  ASSUME NEW layers, NEW v, v = Final(layers), <<"schema_version">> \in DOMAIN layers.file, ~EnvRefused(layers.env),
         ~SetRefused(Merged(layers.file), layers.sets), Decodes(v), NEW root, root = Decoded(v),
         root[<<"schema_version">>] = "1.0.0", RangesOk(root), ShapeOk(root), CrossFieldsOk(root)
  PROVE  LoadRoot(layers) = [how |-> "loaded", root |-> root]
<1> DEFINE schema == <<"schema_version">>
<1>1. LoadRoot(layers) =
        IF ~(schema \in DOMAIN layers.file) THEN Failed("no schema_version")
        ELSE IF EnvRefused(layers.env) THEN Failed("environment")
        ELSE IF SetRefused(Merged(layers.file), layers.sets) THEN Failed("override")
        ELSE IF ~Decodes(v) THEN Failed("unknown field")
        ELSE IF root[schema] # "1.0.0" THEN Failed("schema")
        ELSE IF ~(RangesOk(root) /\ ShapeOk(root) /\ CrossFieldsOk(root)) THEN Failed("validation")
        ELSE [how |-> "loaded", root |-> root]
  BY DEF LoadRoot, Merged, Final
<1> QED BY <1>1

LEMMA UnderTheDefaults ==
  ASSUME NEW layers, AreLayers(layers), Decodes(Final(layers)), NEW p \in DOMAIN PushtFields,
         \A t \in Switched(layers.file) : ~Under(t, p)
  PROVE  LET d == Kind(Final(layers), "dataset")
             e == Kind(Final(layers), "eval")
         IN  p \in DOMAIN FieldsFor(d, e) /\ FieldsFor(d, e)[p] = PushtFields[p]
<1> DEFINE d == Kind(Final(layers), "dataset")
           e == Kind(Final(layers), "eval")
           ds == <<"dataset">>
           es == <<"eval">>
<1>1. (ds \notin Switched(layers.file) => d = "pusht") /\ (es \notin Switched(layers.file) => e = "pusht_simulated")
  BY UnswitchedKind
<1> HIDE DEF ds, es, d, e
<1>2. (Under(ds, p) => d = "pusht") /\ (Under(es, p) => e = "pusht_simulated")
  BY <1>1
<1>3. (Under(<<"dataset">>, p) => d = "pusht") /\ (Under(<<"eval">>, p) => e = "pusht_simulated")
  BY <1>2, Zenon DEF ds, es
<1>4. p \in DOMAIN FieldsFor(d, e) /\ FieldsFor(d, e)[p] = PushtFields[p]
  BY <1>3, SameFields
<1> QED BY <1>4 DEF d, e

\* A field has the value of the last layer that names it, whatever the layers.
LastOfTheLayers(layers, root) ==
  \A p \in DOMAIN root \ {KindField("eval")} :
    LET options == {k \in DOMAIN layers.sets : layers.sets[k][1] = p}
    IN  root[p] = IF options # {} THEN layers.sets[Max(options)][2]
                  ELSE IF p \in DOMAIN layers.env THEN layers.env[p]
                  ELSE IF p \in DOMAIN layers.file THEN layers.file[p]
                  ELSE FieldsOf(root)[p].default

LEMMA LastLayerNamed ==
  ASSUME NEW layers, AreLayers(layers), Decodes(Final(layers))
  PROVE  LastOfTheLayers(layers, Decoded(Final(layers)))
<1> DEFINE v == Final(layers)
           root == Decoded(v)
           fields == FieldsFor(Kind(v, "dataset"), Kind(v, "eval"))
           sets == layers.sets
           n == Len(sets)
           start == Start(layers)
           m == Merged(layers.file)
<1>1. IsTable(v) /\ AreOptions(sets) /\ IsTable(layers.file)
  BY FinalAt DEF AreLayers
<1>2. /\ DOMAIN root = DOMAIN fields /\ DOMAIN v \subseteq DOMAIN root /\ FieldsOf(root) = fields
      /\ \A p \in DOMAIN v : p # KindField("eval") => root[p] = v[p]
      /\ \A p \in DOMAIN root : p \notin DOMAIN v => root[p] = fields[p].default
  BY <1>1, DecodedAt
<1>3. n \in Nat /\ DOMAIN sets = 1..n
  BY <1>1 DEF AreOptions
<1>4. /\ \A q \in DOMAIN start : \E r \in DOMAIN v : IsPrefix(r, q)
      /\ \A p \in DOMAIN v : (\A k \in 1..n : sets[k][1] # p) => p \in DOMAIN start /\ v[p] = start[p]
      /\ \A j \in 1..n : \E r \in DOMAIN v : IsPrefix(r, sets[j][1])
      /\ \A j \in 1..n : (\A k \in (j + 1)..n : sets[k][1] # sets[j][1]) /\ sets[j][1] \in DOMAIN v
                         => v[sets[j][1]] = sets[j][2]
  BY FinalAt
<1>5. /\ DOMAIN start = DOMAIN layers.env \cup DOMAIN m
      /\ \A p \in DOMAIN layers.env : start[p] = layers.env[p]
      /\ \A p \in DOMAIN m : p \notin DOMAIN layers.env => start[p] = m[p]
  <2>1. DOMAIN start = DOMAIN layers.env \cup DOMAIN m
    BY OverDomain DEF Start
  <2>2. \A p \in DOMAIN layers.env : start[p] = layers.env[p]
    BY OverFirst DEF Start
  <2>3. \A p \in DOMAIN m : p \notin DOMAIN layers.env => start[p] = m[p]
    BY OverSecond DEF Start
  <2> QED BY <2>1, <2>2, <2>3
<1>6. /\ \A p \in DOMAIN layers.file : p \in DOMAIN m /\ m[p] = layers.file[p]
      /\ \A p \in DOMAIN m : p \notin DOMAIN layers.file =>
           /\ p \in DOMAIN PushtFields /\ m[p] = PushtFields[p].default
           /\ \A t \in Switched(layers.file) : ~Under(t, p)
  BY <1>1, MergedAt
<1>7. \A p \in DOMAIN fields : (\E r \in DOMAIN v : IsPrefix(r, p)) => p \in DOMAIN v
  BY NamedIsThere
<1>8. \A p \in DOMAIN PushtFields : (\A t \in Switched(layers.file) : ~Under(t, p)) => fields[p] = PushtFields[p]
  BY UnderTheDefaults
<1> SUFFICES ASSUME NEW p \in DOMAIN root \ {KindField("eval")}
             PROVE  LET options == {k \in DOMAIN sets : sets[k][1] = p}
                    IN  root[p] = IF options # {} THEN sets[Max(options)][2]
                                  ELSE IF p \in DOMAIN layers.env THEN layers.env[p]
                                  ELSE IF p \in DOMAIN layers.file THEN layers.file[p]
                                  ELSE FieldsOf(root)[p].default
  BY DEF LastOfTheLayers
<1> DEFINE options == {k \in DOMAIN sets : sets[k][1] = p}
           last == sets[Max(options)][2]
           some == options # {}
<1> SUFFICES root[p] = IF some THEN last
                       ELSE IF p \in DOMAIN layers.env THEN layers.env[p]
                       ELSE IF p \in DOMAIN layers.file THEN layers.file[p]
                       ELSE FieldsOf(root)[p].default
  BY Zenon DEF options
<1>9. p \in DOMAIN fields /\ p # KindField("eval") /\ p \in DOMAIN root
  BY <1>2
<1> HIDE DEF v, root, fields, sets, start, m, last, some
<1>10. CASE some
  <2> DEFINE j == Max(options)
  <2>1. options \in SUBSET (1..n)
    BY <1>3
  <2>2. j \in options /\ \A y \in options : y <= j
    <3> HIDE DEF options
    <3> QED BY <1>3, <1>10, <2>1, MaxOfSome DEF some
  <2>3. j \in 1..n /\ sets[j][1] = p
    <3> HIDE DEF j
    <3> QED BY <2>2, <1>3
  <2>4. \A k \in (j + 1)..n : sets[k][1] # sets[j][1]
    <3>1. \A k \in (j + 1)..n : k \in 1..n /\ ~(k <= j)
      <4> HIDE DEF j
      <4> QED BY <2>3, <1>3
    <3>2. ASSUME NEW k \in (j + 1)..n, sets[k][1] = p PROVE k \in options
      <4> HIDE DEF j
      <4> QED BY <3>1, <3>2, <1>3
    <3> HIDE DEF options, j
    <3> QED BY <3>1, <3>2, <2>2, <2>3
  <2> HIDE DEF j, options
  <2>5. \E r \in DOMAIN v : IsPrefix(r, p)
    BY <2>3, <1>4
  <2>6. p \in DOMAIN v
    BY <2>5, <1>7, <1>9
  <2>7. v[p] = sets[j][2]
    BY <2>3, <2>4, <2>6, <1>4
  <2>8. root[p] = sets[j][2]
    BY <2>6, <2>7, <1>2, <1>9
  <2>9. last = sets[j][2]
    BY DEF last, j
  <2> QED BY <2>8, <2>9, <1>10
<1>11. CASE ~some
  <2>1. \A k \in 1..n : sets[k][1] # p
    BY <1>11, <1>3 DEF some
  <2> HIDE DEF options
  <2>2. p \in DOMAIN v => p \in DOMAIN start /\ v[p] = start[p] /\ root[p] = v[p]
    BY <2>1, <1>2, <1>4, <1>9
  <2>3. p \in DOMAIN start /\ IsPath(p) => p \in DOMAIN v
    BY <1>4, <1>7, <1>9
  <2>4. IsPath(p)
    BY <1>9, FieldPlace DEF fields
  <2>5. CASE p \in DOMAIN layers.env
    BY <2>2, <2>3, <2>4, <2>5, <1>5, <1>11
  <2>6. CASE p \notin DOMAIN layers.env /\ p \in DOMAIN layers.file
    BY <2>2, <2>3, <2>4, <2>6, <1>5, <1>6, <1>11
  <2>7. CASE p \notin DOMAIN layers.env /\ p \notin DOMAIN layers.file /\ p \in DOMAIN v
    <3>1. p \in DOMAIN m /\ root[p] = m[p]
      BY <2>2, <2>7, <1>5
    <3>2. m[p] = fields[p].default
      BY <3>1, <2>7, <1>6, <1>8
    <3> QED BY <3>1, <3>2, <2>7, <1>2, <1>11
  <2>8. CASE p \notin DOMAIN layers.env /\ p \notin DOMAIN layers.file /\ p \notin DOMAIN v
    BY <2>8, <1>2, <1>9, <1>11
  <2> QED BY <2>5, <2>6, <2>7, <2>8
<1> QED BY <1>10, <1>11

-----------------------------------------------------------------------------
(* The printed configuration loads to itself. *)

LEMMA FieldKeeps ==
  ASSUME NEW root, RangesOk(root), NEW p \in DOMAIN root, NEW default, NEW values,
         FieldsOf(root)[p] = Field(default, values)
  PROVE  root[p] \in values
<1>1. Field(default, values).values = values
  BY FieldParts
<1> QED BY <1>1 DEF RangesOk

LEMMA SchemaIsAField ==
  ASSUME NEW d, NEW e
  PROVE  <<"schema_version">> \in DOMAIN FieldsFor(d, e)
<1> DEFINE top == << >>
           name == "schema_version"
<1>1. top \in Sections /\ name \in DOMAIN SectionFields(d, e, top)
  <2>1. SectionFields(d, e, << >>) = Version
    BY SectionCases
  <2>2. DOMAIN Version = {"schema_version"}
    BY OtherNames
  <2>3. << >> \in Sections
    BY DEF Sections
  <2> QED BY <2>1, <2>2, <2>3
<1>2. Append(top, name) = <<name>>
  OBVIOUS
<1> HIDE DEF top, name
<1>3. Append(top, name) \in DOMAIN FieldsFor(d, e)
  BY <1>1, FieldPlace
<1> QED BY <1>2, <1>3 DEF name

\* A root as load_root answers one.
Accepted(root) ==
  LET d == Kind(root, "dataset")
      e == Kind(root, "eval")
  IN  /\ DOMAIN root = DOMAIN FieldsFor(d, e) /\ root = [p \in DOMAIN root |-> root[p]]
      /\ root[KindField("eval")] = e /\ root[<<"schema_version">>] = "1.0.0"
      /\ RangesOk(root) /\ ShapeOk(root) /\ CrossFieldsOk(root)

LEMMA LoadedIsAccepted ==
  ASSUME NEW layers, AreLayers(layers), LoadRoot(layers).how = "loaded"
  PROVE  Accepted(LoadRoot(layers).root)
<1> DEFINE v == Final(layers)
           root == Decoded(v)
           d == Kind(v, "dataset")
           e == Kind(v, "eval")
<1>1. IsTable(v)
  BY FinalAt
<1>2. /\ LoadRoot(layers).root = root /\ Decodes(v) /\ root[<<"schema_version">>] = "1.0.0"
      /\ RangesOk(root) /\ ShapeOk(root) /\ CrossFieldsOk(root)
  BY LoadedMeans
<1> HIDE DEF v
<1>3. /\ DOMAIN root = DOMAIN FieldsFor(d, e) /\ root = [p \in DOMAIN root |-> root[p]]
      /\ root[KindField("eval")] = e /\ Kind(root, "dataset") = d /\ Kind(root, "eval") = e
  BY <1>1, <1>2, DecodedAt
<1> HIDE DEF d, e, root
<1> QED BY <1>2, <1>3 DEF Accepted

LEMMA AcceptedKinds ==
  ASSUME NEW root, Accepted(root)
  PROVE  /\ KindField("dataset") \in DOMAIN root /\ KindField("eval") \in DOMAIN root
         /\ root[KindField("dataset")] \in {"pusht", "so100"} /\ Kind(root, "dataset") = root[KindField("dataset")]
         /\ root[KindField("eval")] \in {"pusht_simulated", "so100_latent"}
         /\ Kind(root, "eval") = root[KindField("eval")]
<1> DEFINE d == Kind(root, "dataset")
           e == Kind(root, "eval")
           dk == KindField("dataset")
           ek == KindField("eval")
<1>1. DOMAIN root = DOMAIN FieldsFor(d, e) /\ FieldsOf(root) = FieldsFor(d, e) /\ RangesOk(root) /\ root[ek] = e
  BY DEF Accepted, FieldsOf
<1>2. dk \in DOMAIN FieldsFor(d, e) /\ ek \in DOMAIN FieldsFor(d, e)
  BY KindFields
<1>3. /\ FieldsFor(d, e)[dk] = Field("pusht", {"pusht", "so100"})
      /\ FieldsFor(d, e)[ek] = Field("pusht_simulated", {"pusht_simulated", "so100_latent", "so100_latent_rollout"})
  BY KindFields
<1>4. d = (IF root[dk] = "so100_latent_rollout" THEN "so100_latent" ELSE root[dk])
  BY DEF Kind, KindField
<1>5. e = (IF root[ek] = "so100_latent_rollout" THEN "so100_latent" ELSE root[ek])
  BY DEF Kind, KindField
<1> HIDE DEF d, e, dk, ek
<1>6. root[dk] \in {"pusht", "so100"}
  BY <1>1, <1>2, <1>3, FieldKeeps
<1>7. root[ek] \in {"pusht_simulated", "so100_latent", "so100_latent_rollout"}
  BY <1>1, <1>2, <1>3, FieldKeeps
<1>8. root[ek] # "so100_latent_rollout"
  BY <1>1, <1>5
<1> QED BY <1>1, <1>2, <1>4, <1>6, <1>7, <1>8 DEF d, e, dk, ek

Printed(root) == [file |-> CanonicalToml(root), env |-> << >>, sets |-> << >>]

LEMMA PrintedLayers ==
  ASSUME NEW root, Accepted(root)
  PROVE  /\ AreLayers(Printed(root)) /\ Printed(root).file = CanonicalToml(root)
         /\ Printed(root).env = << >> /\ Printed(root).sets = << >>
         /\ \A p : p \in DOMAIN CanonicalToml(root)
              <=> p \in DOMAIN root /\ (p # TrainModeField \/ root[p] # "bounded_module")
         /\ \A p \in DOMAIN CanonicalToml(root) : CanonicalToml(root)[p] = root[p]
<1> DEFINE file == CanonicalToml(root)
<1>1. /\ \A p : p \in DOMAIN file <=> p \in DOMAIN root /\ (p # TrainModeField \/ root[p] # "bounded_module")
      /\ \A p \in DOMAIN file : file[p] = root[p]
      /\ file = [p \in DOMAIN file |-> file[p]]
  BY DEF CanonicalToml
<1>2. \A p \in DOMAIN root : IsPath(p)
  BY FieldPlace DEF Accepted
<1> HIDE DEF file
<1>3. IsTable(file)
  BY <1>1, <1>2 DEF IsTable
<1>4. AreLayers([file |-> file, env |-> << >>, sets |-> << >>])
  <2>1. IsTable(<< >>) /\ AreOptions(<< >>)
    BY NoLayer
  <2> QED BY <2>1, <1>3 DEF AreLayers
<1> QED BY <1>1, <1>4 DEF Printed, file

LEMMA PrintedMerges ==
  ASSUME NEW root, Accepted(root)
  PROVE  Merged(CanonicalToml(root)) = root
<1> DEFINE d == Kind(root, "dataset")
           e == Kind(root, "eval")
           file == CanonicalToml(root)
           m == Merged(file)
           held == TrainModeField
<1>1. /\ \A p : p \in DOMAIN file <=> p \in DOMAIN root /\ (p # held \/ root[p] # "bounded_module")
      /\ \A p \in DOMAIN file : file[p] = root[p]
      /\ IsTable(file)
  BY PrintedLayers DEF AreLayers
<1>2. DOMAIN root = DOMAIN FieldsFor(d, e) /\ root = [p \in DOMAIN root |-> root[p]]
  BY DEF Accepted
<1>3. /\ IsTable(m)
      /\ \A p \in DOMAIN file : p \in DOMAIN m /\ m[p] = file[p]
      /\ \A p \in DOMAIN m : p \notin DOMAIN file =>
           /\ p \in DOMAIN PushtFields /\ m[p] = PushtFields[p].default
           /\ (\A t \in Switched(file) : ~Under(t, p)) /\ \A q \in DOMAIN file : ~Related(p, q)
      /\ \A p \in DOMAIN PushtFields :
           (\A t \in Switched(file) : ~Under(t, p)) => p \in DOMAIN m \/ \E q \in DOMAIN file : Related(p, q)
  BY <1>1, MergedAt
<1>4. /\ held \notin {KindField("dataset"), KindField("eval"), <<"schema_version">>}
      /\ held \in DOMAIN PushtFields /\ PushtFields[held].default = "bounded_module"
      /\ ~Under(<<"dataset">>, held) /\ ~Under(<<"eval">>, held) /\ held \in DOMAIN FieldsFor(d, e)
  BY TrainModeIsAField DEF PushtFields
<1> DEFINE ds == <<"dataset">>
           es == <<"eval">>
           dk == KindField("dataset")
           ek == KindField("eval")
<1>5. Switched(file) \subseteq {ds, es} /\ ~Under(ds, held) /\ ~Under(es, held) /\ held # dk /\ held # ek
  BY <1>4, SwitchedByTheFile
<1>6. /\ ds \in Switched(file) <=> dk \in DOMAIN file /\ file[dk] # "pusht"
      /\ es \in Switched(file) <=> ek \in DOMAIN file /\ file[ek] # "pusht_simulated"
  BY SwitchedByTheFile
<1>7. dk \in DOMAIN root /\ ek \in DOMAIN root /\ root[dk] = d /\ root[ek] = e
  BY AcceptedKinds
<1> HIDE DEF file, m, held, ds, es, dk, ek, d, e
<1>8. (ds \notin Switched(file) => d = "pusht") /\ (es \notin Switched(file) => e = "pusht_simulated")
  BY <1>1, <1>5, <1>6, <1>7
<1>9. ASSUME NEW p \in DOMAIN m, p \notin DOMAIN file PROVE p = held /\ p \in DOMAIN root /\ m[p] = root[p]
  <2>1. p \in DOMAIN PushtFields /\ m[p] = PushtFields[p].default /\ \A t \in Switched(file) : ~Under(t, p)
    BY <1>3, <1>9
  <2>2. (Under(ds, p) => d = "pusht") /\ (Under(es, p) => e = "pusht_simulated")
    BY <2>1, <1>8
  <2>3. (Under(<<"dataset">>, p) => d = "pusht") /\ (Under(<<"eval">>, p) => e = "pusht_simulated")
    BY <2>2, Zenon DEF ds, es
  <2>4. p \in DOMAIN root
    BY <2>1, <2>3, <1>2, SameFields
  <2>5. p = held /\ root[p] = "bounded_module"
    BY <2>4, <1>1, <1>9
  <2> QED BY <2>1, <2>4, <2>5, <1>4
<1>10. ASSUME NEW p \in DOMAIN root PROVE p \in DOMAIN m
  <2>1. CASE p \in DOMAIN file
    BY <2>1, <1>3
  <2>2. CASE p \notin DOMAIN file
    <3>1. p = held
      BY <2>2, <1>1
    <3>2. \A t \in Switched(file) : ~Under(t, p)
      BY <3>1, <1>5
    <3>3. p \in DOMAIN PushtFields
      BY <3>1, <1>4
    <3>4. p \in DOMAIN m \/ \E q \in DOMAIN file : Related(p, q)
      BY <1>3, <3>2, <3>3
    <3>5. ASSUME NEW q \in DOMAIN file, Related(p, q) PROVE FALSE
      <4>1. p \in DOMAIN FieldsFor(d, e) /\ q \in DOMAIN FieldsFor(d, e)
        BY <1>1, <1>2
      <4>2. p = q
        BY <4>1, <3>5, FieldsArePrefixFree DEF Related
      <4> QED BY <4>2, <2>2
    <3> QED BY <3>4, <3>5
  <2> QED BY <2>1, <2>2
<1>11. \A p \in DOMAIN m : p \in DOMAIN root /\ m[p] = root[p]
  BY <1>1, <1>3, <1>9
<1>12. DOMAIN m = DOMAIN root
  BY <1>10, <1>11
<1>13. m = [p \in DOMAIN m |-> m[p]]
  BY <1>3 DEF IsTable
<1>14. m = root
  BY <1>2, <1>11, <1>12, <1>13
<1> QED BY <1>14 DEF m, file

LEMMA AcceptedDecodes ==
  ASSUME NEW root, Accepted(root)
  PROVE  IsTable(root) /\ Decodes(root) /\ Decoded(root) = root
<1> DEFINE d == Kind(root, "dataset")
           e == Kind(root, "eval")
           dk == KindField("dataset")
           ek == KindField("eval")
           again == Decoded(root)
<1>1. DOMAIN root = DOMAIN FieldsFor(d, e) /\ root = [p \in DOMAIN root |-> root[p]] /\ FieldsOf(root) = FieldsFor(d, e)
  BY DEF Accepted, FieldsOf
<1>2. IsTable(root)
  BY <1>1, FieldPlace DEF IsTable
<1>3. Decodes(root)
  <2>1. root[dk] # WrongType /\ root[ek] # WrongType /\ dk \in DOMAIN root /\ ek \in DOMAIN root
    BY AcceptedKinds, ConfigAssumption DEF ConfigAssumption
  <2>2. DOMAIN root \subseteq DOMAIN FieldsOf(root)
    BY <1>1
  <2> QED BY <2>1, <2>2 DEF Decodes, KindField
<1>4. /\ DOMAIN again = DOMAIN FieldsFor(d, e) /\ again = [p \in DOMAIN again |-> again[p]]
      /\ again[ek] = e /\ \A p \in DOMAIN root : p # ek => again[p] = root[p]
  BY <1>2, <1>3, DecodedAt
<1>5. root[ek] = e
  BY AcceptedKinds
<1> HIDE DEF again, d, e, ek
<1>6. again = root
  <2>1. \A p \in DOMAIN root : again[p] = root[p]
    BY <1>4, <1>5
  <2> QED BY <2>1, <1>1, <1>4
<1> QED BY <1>2, <1>3, <1>6 DEF again

LEMMA PrintedLoads ==
  ASSUME NEW root, Accepted(root)
  PROVE  LoadRoot(Printed(root)) = [how |-> "loaded", root |-> root]
<1> DEFINE layers == Printed(root)
           v == Final(layers)
<1>1. layers.file = CanonicalToml(root) /\ layers.env = << >> /\ layers.sets = << >> /\ Merged(layers.file) = root
  BY PrintedLayers, PrintedMerges
<1>2. IsTable(root) /\ Decodes(root) /\ Decoded(root) = root
  BY AcceptedDecodes
<1>3. v = root
  <2>1. v = ApplySets(Over(<< >>, root), << >>)
    BY <1>1 DEF Final, Layered, ApplyEnv
  <2> DEFINE start == Over(<< >>, root)
  <2>2. DOMAIN start = DOMAIN root /\ start = [p \in DOMAIN start |-> start[p]]
    <3>1. DOMAIN start = DOMAIN << >> \cup DOMAIN root
      BY OverDomain
    <3>2. DOMAIN << >> = {}
      BY NoLayer
    <3>3. start = [p \in DOMAIN start |-> start[p]]
      BY OverFunction, Zenon
    <3> HIDE DEF start
    <3> QED BY <3>1, <3>2, <3>3
  <2>3. \A p \in DOMAIN root : start[p] = root[p]
    <3>1. \A p \in DOMAIN root : p \notin DOMAIN << >>
      BY NoLayer
    <3> QED BY <3>1, OverSecond
  <2>4. root = [p \in DOMAIN root |-> root[p]]
    BY <1>2 DEF IsTable
  <2> HIDE DEF start
  <2>5. start = root
    BY <2>2, <2>3, <2>4
  <2>6. ApplySets(start, << >>) = start
    <3> DEFINE none == << >>
    <3>1. Len(none) = 0 /\ Len(none) \in Nat
      BY NoLayer
    <3> HIDE DEF none
    <3>2. PICK f : Applied(start, none, f) /\ ApplySets(start, none) = f[Len(none)]
      BY <3>1, SetsAreApplied
    <3>3. ApplySets(start, none) = start
      BY <3>1, <3>2 DEF Applied
    <3> QED BY <3>3 DEF none
  <2> QED BY <2>1, <2>5, <2>6 DEF start
<1>4. <<"schema_version">> \in DOMAIN layers.file
  <2> DEFINE schema == <<"schema_version">>
  <2>1. schema \in DOMAIN root
    BY SchemaIsAField DEF Accepted
  <2>2. schema # TrainModeField
    BY TrainModeIsAField
  <2> HIDE DEF schema
  <2>3. schema \in DOMAIN CanonicalToml(root)
    BY <2>1, <2>2, PrintedLayers
  <2> QED BY <2>3, <1>1 DEF schema
<1>5. ~EnvRefused(layers.env)
  BY <1>1, NoLayer DEF EnvRefused
<1>6. ~SetRefused(Merged(layers.file), layers.sets)
  BY <1>1, NoLayer DEF SetRefused
<1>7. root[<<"schema_version">>] = "1.0.0" /\ RangesOk(root) /\ ShapeOk(root) /\ CrossFieldsOk(root)
  BY DEF Accepted
<1> HIDE DEF layers
<1>8. LoadRoot(layers) = [how |-> "loaded", root |-> root]
  BY <1>2, <1>3, <1>4, <1>5, <1>6, <1>7, LoadedWhen
<1> QED BY <1>8 DEF layers

-----------------------------------------------------------------------------
(* A configuration a trainer takes fits the windows its data set serves. *)

LEMMA WithinIsInt == ASSUME NEW default, NEW least, NEW most, NEW x \in Within(default, least, most).values PROVE x \in Int
<1> DEFINE range == least..most
<1>1. Within(default, least, most).values = range
  <2>1. Within(default, least, most) = Field(default, range)
    BY DEF Within
  <2> HIDE DEF range
  <2> QED BY <2>1, FieldParts
<1>2. x \in range
  BY <1>1
<1> QED BY <1>2

LEMMA ModelLengths ==
  ASSUME NEW root, Accepted(root)
  PROVE  root[<<"model", "horizon">>] \in Int /\ root[<<"model", "history_size">>] \in Int
<1> DEFINE d == Kind(root, "dataset")
           e == Kind(root, "eval")
           s == <<"model">>
<1>1. DOMAIN root = DOMAIN FieldsFor(d, e) /\ FieldsOf(root) = FieldsFor(d, e) /\ RangesOk(root)
  BY DEF Accepted, FieldsOf
<1>2. SectionFields(d, e, s) = JepaConfig /\ s \in Sections
  BY SectionCases DEF Sections
<1>3. DOMAIN JepaConfig = {"history_size", "horizon"}
  BY OtherNames
<1>4. JepaConfig["horizon"] = Within(4, 1, 1024) /\ JepaConfig["history_size"] = Within(3, 1, 100)
  <2> DEFINE long == Within(4, 1, 1024)
             short == Within(3, 1, 100)
  <2>1. JepaConfig = [history_size |-> short, horizon |-> long]
    BY DEF JepaConfig, Sized
  <2> HIDE DEF long, short
  <2>2. JepaConfig["horizon"] = long /\ JepaConfig["history_size"] = short
    BY <2>1
  <2> QED BY <2>2 DEF long, short
<1>5. Append(s, "horizon") = <<"model", "horizon">> /\ Append(s, "history_size") = <<"model", "history_size">>
  BY TwoAppended
<1> HIDE DEF d, e, s
<1>6. ASSUME NEW name \in {"horizon", "history_size"} PROVE root[Append(s, name)] \in Int
  <2>1. name \in DOMAIN SectionFields(d, e, s)
    BY <1>2, <1>3
  <2>2. Append(s, name) \in DOMAIN root /\ FieldsOf(root)[Append(s, name)] = JepaConfig[name]
    BY <2>1, <1>1, <1>2, FieldPlace
  <2>3. root[Append(s, name)] \in JepaConfig[name].values
    BY <2>2, <1>1 DEF RangesOk
  <2> QED BY <2>3, <1>4, WithinIsInt
<1>7. root[Append(s, "horizon")] \in Int /\ root[Append(s, "history_size")] \in Int
  BY <1>6
<1> QED BY <1>5, <1>7

LEMMA AcceptedTrains ==
  ASSUME NEW root, Accepted(root), ~TrainerRefuses(root), WindowRefused(root, WindowFor(root))
  PROVE  root[<<"dataset", "kind">>] = "pusht" /\ root[<<"dataset", "raw_action_dim">>] # 2
<1> DEFINE kind == root[<<"dataset", "kind">>]
           raw == root[<<"dataset", "raw_action_dim">>]
           joints == root[<<"dataset", "action_dim">>]
           frames == root[<<"dataset", "horizon">>]
           past == root[<<"dataset", "history_size">>]
           horizon == root[<<"model", "horizon">>]
           history == root[<<"model", "history_size">>]
<1>1. kind \in {"pusht", "so100"}
  BY AcceptedKinds DEF KindField
<1>2. horizon \in Int /\ history \in Int
  BY ModelLengths
<1>3. frames = horizon /\ past = history /\ (kind # "pusht" => So100Contract(root))
  BY DEF Accepted, CrossFieldsOk
<1>4. So100Contract(root) => joints = 6
  BY DEF So100Contract
<1>5. TrainMode(root) # "burn" => horizon - history = 1
  BY DEF TrainerRefuses, SupportedShape
<1>6. \/ kind = "pusht" /\ (IF kind = "pusht" THEN 2 ELSE 6) # raw
      \/ kind = "so100" /\ (IF kind = "pusht" THEN 2 ELSE 6) # joints
      \/ IF TrainMode(root) = "burn" THEN frames < horizon ELSE frames <= history
  BY DEF WindowRefused, WindowFor
<1> HIDE DEF kind, raw, joints, frames, past, horizon, history
<1>7. ~(IF TrainMode(root) = "burn" THEN frames < horizon ELSE frames <= history)
  BY <1>2, <1>3, <1>5
<1>8. kind = "pusht" /\ raw # 2
  BY <1>1, <1>3, <1>4, <1>6, <1>7
<1> QED BY <1>8 DEF kind, raw

-----------------------------------------------------------------------------
(* Jobs. *)

\* What is loaded is what load_root makes of the request, and a job that stopped
\* at a sample was one its trainer had accepted.
ConfigInv ==
  /\ AreLayers(request)
  /\ loaded = Failed("not yet") \/ loaded = LoadRoot(request)
  /\ trained = "stopped" => /\ loaded.how = "loaded" /\ ~TrainerRefuses(loaded.root)
                            /\ WindowRefused(loaded.root, WindowFor(loaded.root))

LEMMA LoadedFromRequest == ASSUME ConfigInv, loaded.how = "loaded" PROVE loaded = LoadRoot(request)
<1>1. Failed("not yet").how = "not yet"
  BY DEF Failed
<1>2. loaded # Failed("not yet")
  BY <1>1
<1> QED BY <1>2 DEF ConfigInv

LEMMA ConfigInvHonours == ASSUME ConfigInv PROVE ConfigIsHonoured
<1>1. loaded.how = "loaded" => loaded = LoadRoot(request)
  BY LoadedFromRequest
<1>2. AreLayers(request)
  BY DEF ConfigInv
<1>3. ASSUME loaded.how = "loaded" PROVE Accepted(loaded.root) /\ LastOfTheLayers(request, loaded.root)
                                         /\ loaded = [how |-> "loaded", root |-> loaded.root]
  <2>1. loaded = LoadRoot(request) /\ LoadRoot(request).how = "loaded"
    BY <1>1, <1>3
  <2>2. /\ loaded.root = Decoded(Final(request)) /\ Decodes(Final(request))
        /\ loaded = [how |-> "loaded", root |-> Decoded(Final(request))]
    BY <2>1, LoadedMeans
  <2>3. Accepted(loaded.root)
    BY <2>1, <1>2, LoadedIsAccepted
  <2>4. LastOfTheLayers(request, loaded.root)
    BY <2>2, <1>2, LastLayerNamed
  <2> QED BY <2>2, <2>3, <2>4
<1>4. LastLayerWins
  BY <1>3, Zenon DEF LastLayerWins, LastOfTheLayers, KindField
<1>5. PrintedConfigIsTheSame
  BY <1>3, PrintedLoads DEF PrintedConfigIsTheSame, Printed
<1>6. AcceptedConfigTrains
  BY <1>3, AcceptedTrains DEF AcceptedConfigTrains, ConfigInv
<1> QED BY <1>4, <1>5, <1>6 DEF ConfigIsHonoured

LEMMA ConfigInvStarts == ASSUME ConfigInit PROVE ConfigInv
<1>1. AreLayers(request)
  BY ConfigAssumption DEF ConfigInit, ConfigAssumption, AreLayers
<1> QED BY <1>1 DEF ConfigInit, ConfigInv

LEMMA ConfigInvKept == ASSUME ConfigInv, [ConfigNext]_configVars PROVE ConfigInv'
<1>1. CASE Load
  <2>1. request' = request /\ trained' = trained /\ loaded' = LoadRoot(request) /\ loaded.how = "not yet"
    BY <1>1 DEF Load
  <2>2. trained # "stopped"
    BY <2>1 DEF ConfigInv
  <2> QED BY <2>1, <2>2 DEF ConfigInv
<1>2. CASE Train
  <2>1. request' = request /\ loaded' = loaded /\ loaded.how = "loaded"
    BY <1>2 DEF Train
  <2>2. trained' = "stopped" => ~TrainerRefuses(loaded.root) /\ WindowRefused(loaded.root, WindowFor(loaded.root))
    BY <1>2 DEF Train
  <2> QED BY <2>1, <2>2 DEF ConfigInv
<1>3. CASE LoadPrinted
  <2>1. request' = Printed(loaded.root) /\ loaded' = LoadRoot(request') /\ trained' = "no" /\ loaded.how = "loaded"
    BY <1>3 DEF LoadPrinted, Printed
  <2>2. loaded = LoadRoot(request) /\ AreLayers(request)
    BY <2>1, LoadedFromRequest DEF ConfigInv
  <2>3. Accepted(loaded.root)
    BY <2>1, <2>2, LoadedIsAccepted
  <2>4. AreLayers(request')
    BY <2>1, <2>3, PrintedLayers
  <2> QED BY <2>1, <2>4 DEF ConfigInv
<1>4. CASE UNCHANGED configVars
  BY <1>4 DEF configVars, ConfigInv
<1> QED BY <1>1, <1>2, <1>3, <1>4 DEF ConfigNext

\* What config.rs promises holds whatever the files, the environments and the
\* options are: a loaded field has the value of the last layer that names it, the
\* printed configuration loads to the same one, and one that the trainer accepts
\* stops no job at a sample, but for a raw_action_dim that is not the data's.
THEOREM ConfigStaysHonoured == ConfigSpec => []ConfigIsHonoured
<1>1. ConfigInit => ConfigInv
  BY ConfigInvStarts
<1>2. ConfigInv /\ [ConfigNext]_configVars => ConfigInv'
  BY ConfigInvKept
<1>3. ConfigInv => ConfigIsHonoured
  BY ConfigInvHonours
<1> QED BY <1>1, <1>2, <1>3, PTL DEF ConfigSpec

-----------------------------------------------------------------------------
(* Positions on one axis. *)

\* A position lies less than one patch outside the grid.
Position(at, side) == at.num \in Int /\ at.den \in Nat \ {0} /\ -at.den < at.num /\ at.num < side * at.den

LEMMA PositionsAreNear ==
  ASSUME NEW side \in Nat \ {0}, NEW to \in Nat \ {0}, NEW i \in 0..(to - 1), NEW corners \in BOOLEAN
  PROVE  LET at == SourceIndex(side, to, i, corners)
         IN  Position(at, side) /\ at.den = SourceIndex(side, to, 0, corners).den
<1>1. CASE ~corners
  <2> DEFINE num == (2 * i + 1) * side - to
             den == 2 * to
  <2>1. SourceIndex(side, to, i, corners) = [num |-> num, den |-> den] /\ SourceIndex(side, to, 0, corners).den = den
    BY <1>1 DEF SourceIndex
  <2>2. num \in Int /\ den \in Nat \ {0}
    OBVIOUS
  <2>3. 1 * side <= (2 * i + 1) * side
    BY 1 <= 2 * i + 1
  <2>4. (2 * i + 1) * side <= (2 * to - 1) * side
    BY 2 * i + 1 <= 2 * to - 1
  <2>5. (2 * to - 1) * side = 2 * to * side - side /\ side * den = 2 * to * side /\ 2 * to * side \in Int
    OBVIOUS
  <2>6. (2 * i + 1) * side \in Int
    OBVIOUS
  <2>7. -den < num /\ num < side * den
    BY <2>3, <2>4, <2>5, <2>6
  <2> HIDE DEF num, den
  <2> QED BY <2>1, <2>2, <2>7 DEF Position
<1>2. CASE corners /\ to = 1
  <2>1. SourceIndex(side, to, i, corners) = [num |-> 0, den |-> 1] /\ SourceIndex(side, to, 0, corners).den = 1
    BY <1>2 DEF SourceIndex
  <2> QED BY <2>1 DEF Position
<1>3. CASE corners /\ to # 1
  <2> DEFINE num == i * (side - 1)
             den == to - 1
  <2>1. SourceIndex(side, to, i, corners) = [num |-> num, den |-> den] /\ SourceIndex(side, to, 0, corners).den = den
    BY <1>3 DEF SourceIndex
  <2>2. num \in Int /\ den \in Nat \ {0}
    BY <1>3
  <2>3. i * (side - 1) <= (to - 1) * (side - 1) /\ 0 <= i * (side - 1)
    BY i <= to - 1, 0 <= i, 0 <= side - 1
  <2>4. (to - 1) * (side - 1) = side * den - den /\ side * den \in Int
    OBVIOUS
  <2>5. -den < num /\ num < side * den
    BY <2>2, <2>3, <2>4
  <2> HIDE DEF num, den
  <2> QED BY <2>1, <2>2, <2>5 DEF Position
<1> QED BY <1>1, <1>2, <1>3

\* Counted from the other side.
LEMMA MirroredPosition ==
  ASSUME NEW side \in Nat \ {0}, NEW to \in Nat \ {0}, NEW i \in 0..(to - 1), NEW corners \in BOOLEAN,
         ~(corners /\ to = 1)
  PROVE  LET at == SourceIndex(side, to, i, corners)
             back == SourceIndex(side, to, to - 1 - i, corners)
         IN  back.num = (side - 1) * at.den - at.num /\ back.den = at.den
<1>1. CASE ~corners
  <2>1. (2 * (to - 1 - i) + 1) * side - to = (side - 1) * (2 * to) - ((2 * i + 1) * side - to)
    OBVIOUS
  <2> QED BY <1>1, <2>1 DEF SourceIndex
<1>2. CASE corners /\ to # 1
  <2>1. (to - 1 - i) * (side - 1) = (side - 1) * (to - 1) - i * (side - 1)
    OBVIOUS
  <2> QED BY <1>2, <2>1 DEF SourceIndex
<1> QED BY <1>1, <1>2

\* The weights of a position t / d past its base.
WeightsAt(t, d) ==
  [k \in 1..4 |->
     IF k = 1 THEN 6 * (t * t * d) - 3 * (t * t * t) - 3 * (t * d * d)
     ELSE IF k = 2 THEN 5 * (t * t * t) - 9 * (t * t * d) + 4 * (d * d * d)
     ELSE IF k = 3 THEN 6 * (t * t * d) + 3 * (t * d * d) - 5 * (t * t * t)
     ELSE 3 * (t * t * t) - 3 * (t * t * d)]

LEMMA Weights ==
  ASSUME NEW d \in Nat \ {0}, NEW t \in Int, 0 <= t, t < d
  PROVE  /\ CubicWeight(t + d, d) = WeightsAt(t, d)[1]
         /\ CubicWeight(t, d) = WeightsAt(t, d)[2]
         /\ CubicWeight(t - d, d) = WeightsAt(t, d)[3]
         /\ CubicWeight(t - 2 * d, d) = WeightsAt(t, d)[4]
<1>1. CubicWeight(t + d, d) = WeightsAt(t, d)[1]
  <2> DEFINE x == t + d
  <2>1. x \in Int /\ ~(x < 0) /\ x < 2 * d /\ (x <= d <=> t = 0)
    OBVIOUS
  <2>2. CASE t = 0
    <3>1. CubicWeight(x, d) = 5 * x * x * x - 9 * x * x * d + 4 * d * d * d
      <4> HIDE DEF x
      <4> QED BY <2>1, <2>2 DEF CubicWeight
    <3>2. x = d
      BY <2>2
    <3>3. 5 * d * d * d - 9 * d * d * d + 4 * d * d * d = 0
      OBVIOUS
    <3> QED BY <2>2, <3>1, <3>2, <3>3 DEF WeightsAt
  <2>3. CASE t # 0
    <3>1. CubicWeight(x, d) = -3 * x * x * x + 15 * x * x * d - 24 * x * d * d + 12 * d * d * d
      <4> HIDE DEF x
      <4> QED BY <2>1, <2>3 DEF CubicWeight
    <3>2. -3 * x * x * x + 15 * x * x * d - 24 * x * d * d + 12 * d * d * d = 6 * (t * t * d) - 3 * (t * t * t) - 3 * (t * d * d)
      OBVIOUS
    <3> QED BY <3>1, <3>2 DEF WeightsAt
  <2> QED BY <2>2, <2>3
<1>2. CubicWeight(t, d) = WeightsAt(t, d)[2]
  <2>1. ~(t < 0) /\ t <= d
    OBVIOUS
  <2>2. CubicWeight(t, d) = 5 * t * t * t - 9 * t * t * d + 4 * d * d * d
    BY <2>1 DEF CubicWeight
  <2>3. 5 * t * t * t - 9 * t * t * d + 4 * d * d * d = 5 * (t * t * t) - 9 * (t * t * d) + 4 * (d * d * d)
    OBVIOUS
  <2> QED BY <2>2, <2>3 DEF WeightsAt
<1>3. CubicWeight(t - d, d) = WeightsAt(t, d)[3]
  <2> DEFINE y == t - d
             x == -y
  <2>1. y \in Int /\ x \in Int /\ y < 0 /\ x <= d
    OBVIOUS
  <2>2. CubicWeight(y, d) = 5 * x * x * x - 9 * x * x * d + 4 * d * d * d
    <3> HIDE DEF y
    <3> QED BY <2>1 DEF CubicWeight
  <2>3. 5 * x * x * x - 9 * x * x * d + 4 * d * d * d = 6 * (t * t * d) + 3 * (t * d * d) - 5 * (t * t * t)
    OBVIOUS
  <2> QED BY <2>2, <2>3 DEF WeightsAt
<1>4. CubicWeight(t - 2 * d, d) = WeightsAt(t, d)[4]
  <2> DEFINE y == t - 2 * d
             x == -y
  <2>1. y \in Int /\ x \in Int /\ y < 0 /\ ~(x <= d) /\ (x < 2 * d <=> t # 0)
    OBVIOUS
  <2>2. CASE t = 0
    <3>1. CubicWeight(y, d) = 0
      <4> HIDE DEF y
      <4> QED BY <2>1, <2>2 DEF CubicWeight
    <3>2. 3 * (t * t * t) - 3 * (t * t * d) = 0
      BY <2>2
    <3> QED BY <3>1, <3>2 DEF WeightsAt
  <2>3. CASE t # 0
    <3>1. CubicWeight(y, d) = -3 * x * x * x + 15 * x * x * d - 24 * x * d * d + 12 * d * d * d
      <4> HIDE DEF y
      <4> QED BY <2>1, <2>3 DEF CubicWeight
    <3>2. -3 * x * x * x + 15 * x * x * d - 24 * x * d * d + 12 * d * d * d = 3 * (t * t * t) - 3 * (t * t * d)
      OBVIOUS
    <3> QED BY <3>1, <3>2 DEF WeightsAt
  <2> QED BY <2>2, <2>3
<1> QED BY <1>1, <1>2, <1>3, <1>4
-----------------------------------------------------------------------------
(* A line at a position. *)

Quotient(at) == at.num \div at.den
Rest(at) == at.num - Quotient(at) * at.den

LEMMA PositionParts ==
  ASSUME NEW side \in Nat \ {0}, NEW at, Position(at, side)
  PROVE  /\ Quotient(at) \in Int /\ Rest(at) \in Int /\ 0 <= Rest(at) /\ Rest(at) < at.den
         /\ at.num = Quotient(at) * at.den + Rest(at) /\ -1 <= Quotient(at) /\ Quotient(at) < side
<1> DEFINE n == at.num
           d == at.den
           q == n \div d
<1>1. n \in Int /\ d \in Nat \ {0} /\ -d < n /\ n < side * d
  BY DEF Position
<1> HIDE DEF n, d
<1>2. q \in Int /\ n % d \in 0..(d - 1) /\ n = q * d + (n % d)
  BY <1>1, Divided
<1> DEFINE r == n % d
<1>3. q * d \in Int
  BY <1>1, <1>2
<1>4. r = n - q * d /\ r \in Int /\ 0 <= r /\ r < d
  BY <1>1, <1>2, <1>3
<1> HIDE DEF q, r
<1>5. -1 <= q
  <2> SUFFICES ASSUME q <= -2 PROVE FALSE
    BY <1>2
  <2>1. q * d <= (-2) * d
    BY <1>1, <1>2
  <2> QED BY <1>1, <1>2, <1>3, <1>4, <2>1
<1>6. q < side
  <2> SUFFICES ASSUME side <= q PROVE FALSE
    BY <1>2
  <2>1. side * d <= q * d
    BY <1>1, <1>2
  <2>2. side * d \in Int
    BY <1>1
  <2> QED BY <1>1, <1>2, <1>3, <1>4, <2>1, <2>2
<1>7. Quotient(at) = q /\ Rest(at) = n - q * d
  BY DEF Quotient, Rest, n, d, q
<1>8. n = q * d + (n - q * d)
  BY <1>1, <1>3
<1>9. n - q * d \in Int /\ 0 <= n - q * d /\ n - q * d < d
  BY <1>4
<1> QED BY <1>2, <1>5, <1>6, <1>7, <1>8, <1>9 DEF n, d

LEMMA WeightsAreWhole ==
  ASSUME NEW t \in Int, NEW d \in Int
  PROVE  /\ WeightsAt(t, d)[1] \in Int /\ WeightsAt(t, d)[2] \in Int /\ WeightsAt(t, d)[3] \in Int /\ WeightsAt(t, d)[4] \in Int
BY DEF WeightsAt

LEMMA WeightsOfPosition ==
  ASSUME NEW side \in Nat \ {0}, NEW at, Position(at, side)
  PROVE  \A k \in 1..4 : CubicWeights(at)[k] = WeightsAt(Rest(at), at.den)[k]
<1> DEFINE n == at.num
           d == at.den
           q == Quotient(at)
           t == Rest(at)
<1>1. q \in Int /\ t \in Int /\ 0 <= t /\ t < d /\ n = q * d + t
  BY PositionParts
<1>2. d \in Nat \ {0} /\ n \in Int
  BY DEF Position
<1>3. \A k \in 1..4 : CubicWeights(at)[k] = CubicWeight(n - (q + k - 2) * d, d)
  BY DEF CubicWeights, Quotient
<1> HIDE DEF n, d, q, t
<1>4. n - (q + 1 - 2) * d = t + d /\ n - (q + 2 - 2) * d = t /\ n - (q + 3 - 2) * d = t - d /\ n - (q + 4 - 2) * d = t - 2 * d
  BY <1>1, <1>2
<1>5. CubicWeights(at)[1] = CubicWeight(t + d, d) /\ CubicWeights(at)[2] = CubicWeight(t, d)
  BY <1>3, <1>4
<1>6. CubicWeights(at)[3] = CubicWeight(t - d, d) /\ CubicWeights(at)[4] = CubicWeight(t - 2 * d, d)
  BY <1>3, <1>4
<1>7. /\ CubicWeights(at)[1] = WeightsAt(t, d)[1] /\ CubicWeights(at)[2] = WeightsAt(t, d)[2]
      /\ CubicWeights(at)[3] = WeightsAt(t, d)[3] /\ CubicWeights(at)[4] = WeightsAt(t, d)[4]
  BY <1>1, <1>2, <1>5, <1>6, Weights
<1>8. \A k \in 1..4 : k = 1 \/ k = 2 \/ k = 3 \/ k = 4
  OBVIOUS
<1>9. \A k \in 1..4 : CubicWeights(at)[k] = WeightsAt(t, d)[k]
  BY <1>7, <1>8
<1> QED BY <1>9 DEF t, d

Near(at, side, k) == ClampIndex(Quotient(at) + k - 2, side)

LEMMA NearIsInside ==
  ASSUME NEW side \in Nat \ {0}, NEW j \in Int
  PROVE  ClampIndex(j, side) \in 0..(side - 1)
BY DEF ClampIndex

\* A line at a position, by the four weights.
LEMMA LineAt ==
  ASSUME NEW side \in Nat \ {0}, NEW at, Position(at, side), NEW line
  PROVE  ResampleLine(at, side, line)
           = WeightsAt(Rest(at), at.den)[1] * line[Near(at, side, 1)] + WeightsAt(Rest(at), at.den)[2] * line[Near(at, side, 2)]
             + WeightsAt(Rest(at), at.den)[3] * line[Near(at, side, 3)] + WeightsAt(Rest(at), at.den)[4] * line[Near(at, side, 4)]
<1>1. \A k \in 1..4 : CubicWeights(at)[k] = WeightsAt(Rest(at), at.den)[k]
  BY WeightsOfPosition
<1> DEFINE a == CubicWeights(at)[1]
           b == CubicWeights(at)[2]
           c == CubicWeights(at)[3]
           e == CubicWeights(at)[4]
<1>2. ResampleLine(at, side, line)
        = a * line[Near(at, side, 1)] + b * line[Near(at, side, 2)] + c * line[Near(at, side, 3)] + e * line[Near(at, side, 4)]
  BY DEF ResampleLine, Near, Quotient
<1>3. /\ a = WeightsAt(Rest(at), at.den)[1] /\ b = WeightsAt(Rest(at), at.den)[2]
      /\ c = WeightsAt(Rest(at), at.den)[3] /\ e = WeightsAt(Rest(at), at.den)[4]
  BY <1>1
<1> HIDE DEF a, b, c, e
<1> QED BY <1>2, <1>3, Zenon

LEMMA LineIsWhole ==
  ASSUME NEW side \in Nat \ {0}, NEW at, Position(at, side), NEW line \in [0..(side - 1) -> Int]
  PROVE  ResampleLine(at, side, line) \in Int /\ \A k \in 1..4 : Near(at, side, k) \in 0..(side - 1)
<1>1. Quotient(at) \in Int /\ Rest(at) \in Int
  BY PositionParts
<1>2. \A k \in 1..4 : Near(at, side, k) \in 0..(side - 1)
  <2> SUFFICES ASSUME NEW k \in 1..4 PROVE Near(at, side, k) \in 0..(side - 1)
    OBVIOUS
  <2> DEFINE j == Quotient(at) + k - 2
  <2>1. j \in Int
    BY <1>1
  <2> HIDE DEF j
  <2>2. ClampIndex(j, side) \in 0..(side - 1)
    BY <2>1, NearIsInside
  <2> QED BY <2>2 DEF Near, j
<1> DEFINE a == WeightsAt(Rest(at), at.den)[1]
           b == WeightsAt(Rest(at), at.den)[2]
           c == WeightsAt(Rest(at), at.den)[3]
           e == WeightsAt(Rest(at), at.den)[4]
           la == line[Near(at, side, 1)]
           lb == line[Near(at, side, 2)]
           lc == line[Near(at, side, 3)]
           le == line[Near(at, side, 4)]
<1>3. a \in Int /\ b \in Int /\ c \in Int /\ e \in Int
  <2>1. at.den \in Int
    BY DEF Position
  <2> QED BY <1>1, <2>1, WeightsAreWhole
<1>4. la \in Int /\ lb \in Int /\ lc \in Int /\ le \in Int
  BY <1>2
<1>5. ResampleLine(at, side, line) = a * la + b * lb + c * lc + e * le
  BY LineAt
<1> HIDE DEF a, b, c, e, la, lb, lc, le
<1> QED BY <1>2, <1>3, <1>4, <1>5

IsRaised(higher, line, side, by) == \A c \in 0..(side - 1) : higher[c] = line[c] + by
IsFlipped(flipped, line, side) == \A c \in 0..(side - 1) : flipped[c] = line[side - 1 - c]
DiffersAt(other, line, side, s) == \A c \in 0..(side - 1) : c # s => other[c] = line[c]

\* The weights add up to 4 * den^3: raising a line raises what it gives.
LEMMA LineIsRaised ==
  ASSUME NEW side \in Nat \ {0}, NEW at, Position(at, side), NEW line \in [0..(side - 1) -> Int], NEW by \in Int,
         NEW higher, IsRaised(higher, line, side, by)
  PROVE  ResampleLine(at, side, higher) = ResampleLine(at, side, line) + 4 * (at.den * at.den * at.den) * by
<1> DEFINE t == Rest(at)
           d == at.den
           a == WeightsAt(t, d)[1]
           b == WeightsAt(t, d)[2]
           c == WeightsAt(t, d)[3]
           e == WeightsAt(t, d)[4]
           la == line[Near(at, side, 1)]
           lb == line[Near(at, side, 2)]
           lc == line[Near(at, side, 3)]
           le == line[Near(at, side, 4)]
<1>1. t \in Int /\ d \in Int
  BY PositionParts DEF Position
<1>2. a \in Int /\ b \in Int /\ c \in Int /\ e \in Int
  BY <1>1, WeightsAreWhole
<1>3. \A k \in 1..4 : Near(at, side, k) \in 0..(side - 1)
  BY LineIsWhole
<1>4. la \in Int /\ lb \in Int /\ lc \in Int /\ le \in Int
  BY <1>3
<1>5. ResampleLine(at, side, line) = a * la + b * lb + c * lc + e * le
  BY LineAt
<1>6. ResampleLine(at, side, higher) = a * higher[Near(at, side, 1)] + b * higher[Near(at, side, 2)]
                                       + c * higher[Near(at, side, 3)] + e * higher[Near(at, side, 4)]
  BY LineAt
<1>7. /\ higher[Near(at, side, 1)] = la + by /\ higher[Near(at, side, 2)] = lb + by
      /\ higher[Near(at, side, 3)] = lc + by /\ higher[Near(at, side, 4)] = le + by
  <2>1. /\ Near(at, side, 1) \in 0..(side - 1) /\ Near(at, side, 2) \in 0..(side - 1)
        /\ Near(at, side, 3) \in 0..(side - 1) /\ Near(at, side, 4) \in 0..(side - 1)
    BY <1>3
  <2> QED BY <2>1 DEF IsRaised
<1>8. a + b + c + e = 4 * (d * d * d)
  <2>1. /\ a = 6 * (t * t * d) - 3 * (t * t * t) - 3 * (t * d * d) /\ b = 5 * (t * t * t) - 9 * (t * t * d) + 4 * (d * d * d)
        /\ c = 6 * (t * t * d) + 3 * (t * d * d) - 5 * (t * t * t) /\ e = 3 * (t * t * t) - 3 * (t * t * d)
    BY DEF WeightsAt
  <2> DEFINE ttt == t * t * t
             ttd == t * t * d
             tdd == t * d * d
             ddd == d * d * d
  <2>2. ttt \in Int /\ ttd \in Int /\ tdd \in Int /\ ddd \in Int
    <3> HIDE DEF t, d
    <3> QED BY <1>1
  <2>3. /\ a = 6 * ttd - 3 * ttt - 3 * tdd /\ b = 5 * ttt - 9 * ttd + 4 * ddd
        /\ c = 6 * ttd + 3 * tdd - 5 * ttt /\ e = 3 * ttt - 3 * ttd
    BY <2>1
  <2> HIDE DEF a, b, c, e, ttt, ttd, tdd, ddd
  <2>4. a + b + c + e = 4 * ddd
    BY <2>2, <2>3
  <2> QED BY <2>4 DEF ddd
<1> HIDE DEF a, b, c, e, la, lb, lc, le
<1>9. a * (la + by) + b * (lb + by) + c * (lc + by) + e * (le + by)
        = a * la + b * lb + c * lc + e * le + (a + b + c + e) * by
  BY <1>2, <1>4
<1>10. ResampleLine(at, side, higher) = a * (la + by) + b * (lb + by) + c * (lc + by) + e * (le + by)
  BY <1>6, <1>7, Zenon
<1> QED BY <1>5, <1>8, <1>9, <1>10, Zenon DEF d
LEMMA DivExact ==
  ASSUME NEW n \in Nat \ {0}, NEW a \in Int, NEW q \in Int, a = q * n
  PROVE  a \div n = q
<1>1. PICK r \in Int : r = 0
  OBVIOUS
<1>2. q * n \in Int
  OBVIOUS
<1>3. a = q * n + r /\ 0 <= r /\ r < n
  BY <1>1, <1>2
<1> QED BY <1>3, DivMod

LEMMA ClampMirrored ==
  ASSUME NEW side \in Nat \ {0}, NEW j \in Int
  PROVE  ClampIndex(side - 1 - j, side) = side - 1 - ClampIndex(j, side)
BY DEF ClampIndex

\* At a patch, a line gives that patch.
LEMMA LineAtPatch ==
  ASSUME NEW side \in Nat \ {0}, NEW at, Position(at, side), Rest(at) = 0, NEW line \in [0..(side - 1) -> Int]
  PROVE  ResampleLine(at, side, line) = 4 * (at.den * at.den * at.den) * line[ClampIndex(Quotient(at), side)]
<1> DEFINE d == at.den
           la == line[Near(at, side, 1)]
           lb == line[Near(at, side, 2)]
           lc == line[Near(at, side, 3)]
           le == line[Near(at, side, 4)]
<1>1. d \in Int /\ Quotient(at) \in Int
  BY PositionParts DEF Position
<1>2. \A k \in 1..4 : Near(at, side, k) \in 0..(side - 1)
  BY LineIsWhole
<1>3. la \in Int /\ lb \in Int /\ lc \in Int /\ le \in Int
  BY <1>2
<1>4. WeightsAt(0, d)[1] = 0 /\ WeightsAt(0, d)[2] = 4 * (d * d * d) /\ WeightsAt(0, d)[3] = 0 /\ WeightsAt(0, d)[4] = 0
  <2> HIDE DEF d
  <2> QED BY <1>1 DEF WeightsAt
<1>5. ResampleLine(at, side, line) = WeightsAt(0, d)[1] * la + WeightsAt(0, d)[2] * lb + WeightsAt(0, d)[3] * lc + WeightsAt(0, d)[4] * le
  <2>1. ResampleLine(at, side, line)
          = WeightsAt(Rest(at), d)[1] * la + WeightsAt(Rest(at), d)[2] * lb + WeightsAt(Rest(at), d)[3] * lc
            + WeightsAt(Rest(at), d)[4] * le
    BY LineAt, SMTT(60)
  <2> HIDE DEF d, la, lb, lc, le
  <2> QED BY <2>1, Zenon
<1>6. Near(at, side, 2) = ClampIndex(Quotient(at), side)
  <2>1. Quotient(at) + 2 - 2 = Quotient(at)
    BY <1>1
  <2> QED BY <2>1 DEF Near
<1> DEFINE ddd == d * d * d
<1>7. ddd \in Int
  <2> HIDE DEF d
  <2> QED BY <1>1
<1> HIDE DEF la, lb, lc, le, d, ddd
<1>8. 0 * la + 4 * ddd * lb + 0 * lc + 0 * le = 4 * ddd * lb
  BY <1>3, <1>7
<1>9. ResampleLine(at, side, line) = 4 * ddd * lb
  BY <1>4, <1>5, <1>8, Zenon DEF ddd
<1> QED BY <1>6, <1>9, Zenon DEF lb, d, ddd

\* From the other side a line gives what its mirror image does.
LEMMA LineIsMirrored ==
  ASSUME NEW side \in Nat \ {0}, NEW at, Position(at, side), NEW back, Position(back, side),
         back.num = (side - 1) * at.den - at.num, back.den = at.den,
         NEW line \in [0..(side - 1) -> Int], NEW flipped \in [0..(side - 1) -> Int],
         IsFlipped(flipped, line, side)
  PROVE  ResampleLine(at, side, flipped) = ResampleLine(back, side, line)
<1> DEFINE d == at.den
           n == at.num
           q == Quotient(at)
           t == Rest(at)
<1>1. q \in Int /\ t \in Int /\ 0 <= t /\ t < d /\ n = q * d + t /\ n \in Int /\ d \in Nat \ {0} /\ q * d \in Int
  BY PositionParts DEF Position
<1>2. back.num = (side - 1) * d - n /\ back.den = d
  OBVIOUS
<1>3. CASE t = 0
  <2>1. back.num = (side - 1 - q) * d
    <3> HIDE DEF d, n, q, t
    <3> QED BY <1>1, <1>2, <1>3
  <2>2. Quotient(back) = side - 1 - q
    <3> HIDE DEF d, n, q, t
    <3>1. side - 1 - q \in Int /\ back.num \in Int
      BY <1>1, <2>1
    <3>2. back.num \div d = side - 1 - q
      BY <1>1, <2>1, <3>1, DivExact
    <3> QED BY <1>2, <3>2 DEF Quotient
  <2>3. Rest(back) = 0
    <3> HIDE DEF d, n, q, t
    <3>1. (side - 1 - q) * d \in Int
      BY <1>1
    <3> QED BY <1>2, <2>1, <2>2, <3>1 DEF Rest
  <2> DEFINE p == ClampIndex(q, side)
  <2>4. ClampIndex(Quotient(back), side) = side - 1 - p
    <3>1. q \in Int
      BY <1>1
    <3> HIDE DEF q
    <3> QED BY <2>2, <3>1, ClampMirrored
  <2>5. p \in 0..(side - 1)
    <3> HIDE DEF q
    <3> QED BY <1>1, NearIsInside
  <2>6. flipped[p] = line[side - 1 - p]
    <3> HIDE DEF p
    <3> QED BY <2>5 DEF IsFlipped
  <2>7. ResampleLine(at, side, flipped) = 4 * (d * d * d) * flipped[p]
    BY <1>3, LineAtPatch
  <2>8. ResampleLine(back, side, line) = 4 * (d * d * d) * line[ClampIndex(Quotient(back), side)]
    BY <1>2, <2>3, LineAtPatch
  <2> HIDE DEF p, d
  <2> QED BY <2>4, <2>6, <2>7, <2>8, Zenon
<1>4. CASE t # 0
  <2> DEFINE u == d - t
  <2>1. back.num = (side - 2 - q) * d + u /\ u \in Int /\ 0 <= u /\ u < d
    <3> HIDE DEF d, n, q, t
    <3> QED BY <1>1, <1>2, <1>4
  <2>2. Quotient(back) = side - 2 - q
    <3> HIDE DEF d, n, q, t, u
    <3>1. side - 2 - q \in Int /\ back.num \in Int
      <4>1. (side - 2 - q) * d \in Int
        BY <1>1
      <4> QED BY <1>1, <2>1, <4>1
    <3>2. back.num \div d = side - 2 - q
      BY <1>1, <2>1, <3>1, DivMod
    <3> QED BY <1>2, <3>2 DEF Quotient
  <2>3. Rest(back) = u
    <3> HIDE DEF d, n, q, t, u
    <3>1. (side - 2 - q) * d \in Int
      BY <1>1
    <3> QED BY <1>2, <2>1, <2>2, <3>1 DEF Rest
  <2>4. /\ WeightsAt(u, d)[1] = WeightsAt(t, d)[4] /\ WeightsAt(u, d)[2] = WeightsAt(t, d)[3]
        /\ WeightsAt(u, d)[3] = WeightsAt(t, d)[2] /\ WeightsAt(u, d)[4] = WeightsAt(t, d)[1]
    <3> HIDE DEF d, t
    <3>1. 6 * (u * u * d) - 3 * (u * u * u) - 3 * (u * d * d) = 3 * (t * t * t) - 3 * (t * t * d)
      BY <1>1
    <3>2. 5 * (u * u * u) - 9 * (u * u * d) + 4 * (d * d * d) = 6 * (t * t * d) + 3 * (t * d * d) - 5 * (t * t * t)
      BY <1>1
    <3>3. 6 * (u * u * d) + 3 * (u * d * d) - 5 * (u * u * u) = 5 * (t * t * t) - 9 * (t * t * d) + 4 * (d * d * d)
      BY <1>1
    <3>4. 3 * (u * u * u) - 3 * (u * u * d) = 6 * (t * t * d) - 3 * (t * t * t) - 3 * (t * d * d)
      BY <1>1
    <3> HIDE DEF u
    <3> QED BY <3>1, <3>2, <3>3, <3>4 DEF WeightsAt
  <2>5. /\ Near(back, side, 1) = side - 1 - Near(at, side, 4) /\ Near(back, side, 2) = side - 1 - Near(at, side, 3)
        /\ Near(back, side, 3) = side - 1 - Near(at, side, 2) /\ Near(back, side, 4) = side - 1 - Near(at, side, 1)
    <3> HIDE DEF q
    <3>1. /\ side - 2 - q + 1 - 2 = side - 1 - (q + 4 - 2) /\ side - 2 - q + 2 - 2 = side - 1 - (q + 3 - 2)
          /\ side - 2 - q + 3 - 2 = side - 1 - (q + 2 - 2) /\ side - 2 - q + 4 - 2 = side - 1 - (q + 1 - 2)
      BY <1>1
    <3>2. q + 4 - 2 \in Int /\ q + 3 - 2 \in Int /\ q + 2 - 2 \in Int /\ q + 1 - 2 \in Int
      BY <1>1
    <3>3. /\ ClampIndex(side - 2 - q + 1 - 2, side) = side - 1 - ClampIndex(q + 4 - 2, side)
          /\ ClampIndex(side - 2 - q + 2 - 2, side) = side - 1 - ClampIndex(q + 3 - 2, side)
          /\ ClampIndex(side - 2 - q + 3 - 2, side) = side - 1 - ClampIndex(q + 2 - 2, side)
          /\ ClampIndex(side - 2 - q + 4 - 2, side) = side - 1 - ClampIndex(q + 1 - 2, side)
      BY <3>1, <3>2, ClampMirrored
    <3>4. \A k : Near(back, side, k) = ClampIndex(side - 2 - q + k - 2, side) /\ Near(at, side, k) = ClampIndex(q + k - 2, side)
      BY <2>2 DEF Near, q
    <3> QED BY <3>3, <3>4
  <2>6. /\ Near(at, side, 1) \in 0..(side - 1) /\ Near(at, side, 2) \in 0..(side - 1)
        /\ Near(at, side, 3) \in 0..(side - 1) /\ Near(at, side, 4) \in 0..(side - 1)
    BY LineIsWhole
  <2>7. /\ flipped[Near(at, side, 1)] = line[Near(back, side, 4)] /\ flipped[Near(at, side, 2)] = line[Near(back, side, 3)]
        /\ flipped[Near(at, side, 3)] = line[Near(back, side, 2)] /\ flipped[Near(at, side, 4)] = line[Near(back, side, 1)]
    BY <2>5, <2>6 DEF IsFlipped
  <2> DEFINE a == WeightsAt(t, d)[1]
             b == WeightsAt(t, d)[2]
             c == WeightsAt(t, d)[3]
             e == WeightsAt(t, d)[4]
             fa == flipped[Near(at, side, 1)]
             fb == flipped[Near(at, side, 2)]
             fc == flipped[Near(at, side, 3)]
             fe == flipped[Near(at, side, 4)]
  <2>8. ResampleLine(at, side, flipped) = a * fa + b * fb + c * fc + e * fe
    BY LineAt
  <2>9. ResampleLine(back, side, line)
          = WeightsAt(u, d)[1] * line[Near(back, side, 1)] + WeightsAt(u, d)[2] * line[Near(back, side, 2)]
            + WeightsAt(u, d)[3] * line[Near(back, side, 3)] + WeightsAt(u, d)[4] * line[Near(back, side, 4)]
    <3>1. ResampleLine(back, side, line)
          = WeightsAt(Rest(back), back.den)[1] * line[Near(back, side, 1)] + WeightsAt(Rest(back), back.den)[2] * line[Near(back, side, 2)]
            + WeightsAt(Rest(back), back.den)[3] * line[Near(back, side, 3)] + WeightsAt(Rest(back), back.den)[4] * line[Near(back, side, 4)]
      BY LineAt
    <3> HIDE DEF u, d
    <3> QED BY <3>1, <2>3, <1>2, Zenon
  <2>10. a \in Int /\ b \in Int /\ c \in Int /\ e \in Int /\ fa \in Int /\ fb \in Int /\ fc \in Int /\ fe \in Int
    <3>1. t \in Int /\ d \in Int
      BY <1>1
    <3>2. a \in Int /\ b \in Int /\ c \in Int /\ e \in Int
      BY <3>1, WeightsAreWhole
    <3> QED BY <2>6, <3>2
  <2>11. ResampleLine(back, side, line) = e * fe + c * fc + b * fb + a * fa
    <3> HIDE DEF u, d, t
    <3> QED BY <2>4, <2>7, <2>9, Zenon DEF a, b, c, e, fa, fb, fc, fe
  <2> HIDE DEF a, b, c, e, fa, fb, fc, fe
  <2> QED BY <2>8, <2>10, <2>11
<1> QED BY <1>3, <1>4

\* A patch two or more away does not count.
Away(at, s) == s * at.den - at.num >= 2 * at.den \/ -(s * at.den - at.num) >= 2 * at.den

LEMMA NearIsNotAway ==
  ASSUME NEW side \in Nat \ {0}, NEW at, Position(at, side), NEW s \in 0..(side - 1), Away(at, s),
         NEW k \in 1..4, Rest(at) # 0 \/ k = 2
  PROVE  Near(at, side, k) # s
<1> DEFINE d == at.den
           n == at.num
           q == Quotient(at)
           t == Rest(at)
           off == s * d - n
<1>1. /\ q \in Int /\ t \in Int /\ 0 <= t /\ t < d /\ n = q * d + t /\ n \in Int /\ d \in Nat \ {0} /\ q * d \in Int
      /\ -d < n /\ n < side * d /\ (t # 0 \/ k = 2)
  BY PositionParts DEF Position
<1>2. off >= 2 * d \/ -off >= 2 * d
  BY DEF Away
<1>3. Near(at, side, k) = ClampIndex(q + k - 2, side)
  BY DEF Near
<1> HIDE DEF d, n, q, t
<1>4. s * d \in Int /\ side * d \in Int
  BY <1>1
<1> SUFFICES ASSUME Near(at, side, k) = s PROVE FALSE
  OBVIOUS
<1>5. CASE q + k - 2 < 0
  <2>1. s = 0
    BY <1>1, <1>3, <1>5 DEF ClampIndex
  <2>2. q <= 0
    BY <1>1, <1>5
  <2>3. q * d <= 0 * d
    BY <1>1, <2>2
  <2>4. n < d /\ s * d = 0
    BY <1>1, <2>1, <2>3
  <2> QED BY <1>1, <1>2, <2>4
<1>6. CASE q + k - 2 >= side
  <2>1. s = side - 1
    BY <1>1, <1>3, <1>6 DEF ClampIndex
  <2>2. side - 2 <= q
    BY <1>1, <1>6
  <2>3. (side - 2) * d <= q * d
    BY <1>1, <2>2
  <2>4. (side - 2) * d = side * d - 2 * d /\ s * d = side * d - d
    BY <1>1, <2>1
  <2> QED BY <1>1, <1>2, <1>4, <2>3, <2>4
<1>7. CASE 0 <= q + k - 2 /\ q + k - 2 < side
  <2>1. s = q + k - 2
    BY <1>1, <1>3, <1>7 DEF ClampIndex
  <2>2. s * d = q * d + k * d - 2 * d /\ k * d \in Int
    BY <1>1, <2>1
  <2>3. k = 1 \/ k = 2 \/ k = 3 \/ k = 4
    OBVIOUS
  <2>4. (k = 1 => k * d = d) /\ (k = 2 => k * d = 2 * d) /\ (k = 3 => k * d = 3 * d) /\ (k = 4 => k * d = 4 * d)
    BY <1>1
  <2>5. off = k * d - 2 * d - t
    BY <1>1, <1>4, <2>2
  <2> HIDE DEF off
  <2> QED BY <1>1, <1>2, <2>3, <2>4, <2>5
<1> QED BY <1>1, <1>5, <1>6, <1>7

LEMMA LineIsLocal ==
  ASSUME NEW side \in Nat \ {0}, NEW at, Position(at, side), NEW s \in 0..(side - 1), Away(at, s),
         NEW line \in [0..(side - 1) -> Int], NEW other \in [0..(side - 1) -> Int],
         DiffersAt(other, line, side, s)
  PROVE  ResampleLine(at, side, other) = ResampleLine(at, side, line)
<1>1. \A k \in 1..4 : Near(at, side, k) \in 0..(side - 1)
  BY LineIsWhole
<1>2. CASE Rest(at) = 0
  <2>1. Near(at, side, 2) # s
    BY NearIsNotAway
  <2>2. Near(at, side, 2) = ClampIndex(Quotient(at), side)
    <3>1. Quotient(at) + 2 - 2 = Quotient(at)
      BY PositionParts
    <3> QED BY <3>1 DEF Near
  <2>3. other[ClampIndex(Quotient(at), side)] = line[ClampIndex(Quotient(at), side)]
    BY <1>1, <2>1, <2>2 DEF DiffersAt
  <2>4. /\ ResampleLine(at, side, other) = 4 * (at.den * at.den * at.den) * other[ClampIndex(Quotient(at), side)]
        /\ ResampleLine(at, side, line) = 4 * (at.den * at.den * at.den) * line[ClampIndex(Quotient(at), side)]
    BY <1>2, LineAtPatch
  <2> QED BY <2>3, <2>4, Zenon
<1>3. CASE Rest(at) # 0
  <2>1. ASSUME NEW k \in 1..4 PROVE other[Near(at, side, k)] = line[Near(at, side, k)]
    <3>1. Near(at, side, k) # s
      BY <1>3, NearIsNotAway
    <3> QED BY <1>1, <3>1 DEF DiffersAt
  <2>2. /\ other[Near(at, side, 1)] = line[Near(at, side, 1)] /\ other[Near(at, side, 2)] = line[Near(at, side, 2)]
        /\ other[Near(at, side, 3)] = line[Near(at, side, 3)] /\ other[Near(at, side, 4)] = line[Near(at, side, 4)]
    BY <2>1
  <2>3. ResampleLine(at, side, other)
           = WeightsAt(Rest(at), at.den)[1] * other[Near(at, side, 1)] + WeightsAt(Rest(at), at.den)[2] * other[Near(at, side, 2)]
             + WeightsAt(Rest(at), at.den)[3] * other[Near(at, side, 3)] + WeightsAt(Rest(at), at.den)[4] * other[Near(at, side, 4)]
    BY LineAt
  <2>4. ResampleLine(at, side, line)
           = WeightsAt(Rest(at), at.den)[1] * line[Near(at, side, 1)] + WeightsAt(Rest(at), at.den)[2] * line[Near(at, side, 2)]
             + WeightsAt(Rest(at), at.den)[3] * line[Near(at, side, 3)] + WeightsAt(Rest(at), at.den)[4] * line[Near(at, side, 4)]
    BY LineAt
  <2> QED BY <2>2, <2>3, <2>4, Zenon
<1> QED BY <1>2, <1>3
-----------------------------------------------------------------------------
(* A grid at a position. *)

LEMMA SumsCommute ==
  ASSUME NEW a1 \in Int, NEW a2 \in Int, NEW a3 \in Int, NEW a4 \in Int,
         NEW b1 \in Int, NEW b2 \in Int, NEW b3 \in Int, NEW b4 \in Int,
         NEW c1 \in Int, NEW c2 \in Int, NEW c3 \in Int, NEW c4 \in Int,
         NEW d1 \in Int, NEW d2 \in Int, NEW d3 \in Int, NEW d4 \in Int,
         NEW v1 \in Int, NEW v2 \in Int, NEW v3 \in Int, NEW v4 \in Int,
         NEW w1 \in Int, NEW w2 \in Int, NEW w3 \in Int, NEW w4 \in Int
  PROVE  v1 * (w1 * a1 + w2 * a2 + w3 * a3 + w4 * a4) + v2 * (w1 * b1 + w2 * b2 + w3 * b3 + w4 * b4)
           + v3 * (w1 * c1 + w2 * c2 + w3 * c3 + w4 * c4) + v4 * (w1 * d1 + w2 * d2 + w3 * d3 + w4 * d4)
         = w1 * (v1 * a1 + v2 * b1 + v3 * c1 + v4 * d1) + w2 * (v1 * a2 + v2 * b2 + v3 * c2 + v4 * d2)
           + w3 * (v1 * a3 + v2 * b3 + v3 * c3 + v4 * d3) + w4 * (v1 * a4 + v2 * b4 + v3 * c4 + v4 * d4)
OBVIOUS

Grids(side) == [0..(side - 1) -> [0..(side - 1) -> Int]]

GridTurned(h, g, side) == \A r, c \in 0..(side - 1) : h[r][c] = g[c][r]
GridFlipped(h, g, side) == \A r, c \in 0..(side - 1) : h[r][c] = g[r][side - 1 - c]
GridHigher(h, g, side) == \A r, c \in 0..(side - 1) : h[r][c] = g[r][c] + 1
GridTouched(h, g, side, s, t) == \A r, c \in 0..(side - 1) : ~(r = s /\ c = t) => h[r][c] = g[r][c]

\* The rows of a grid at a position, and the line they make at another.
Rows(x, side, g) == [r \in 0..(side - 1) |-> ResampleLine(x, side, g[r])]
Resample(y, x, side, g) == ResampleLine(y, side, Rows(x, side, g))

LEMMA RowsAreWhole ==
  ASSUME NEW side \in Nat \ {0}, NEW x, Position(x, side), NEW g \in Grids(side)
  PROVE  Rows(x, side, g) \in [0..(side - 1) -> Int]
<1>1. ASSUME NEW r \in 0..(side - 1) PROVE ResampleLine(x, side, g[r]) \in Int
  <2>1. g[r] \in [0..(side - 1) -> Int]
    BY DEF Grids
  <2> QED BY <2>1, LineIsWhole
<1> QED BY <1>1 DEF Rows

LEMMA GridIsWhole ==
  ASSUME NEW side \in Nat \ {0}, NEW y, Position(y, side), NEW x, Position(x, side), NEW g \in Grids(side)
  PROVE  Resample(y, x, side, g) \in Int
BY RowsAreWhole, LineIsWhole DEF Resample

LEMMA GridIsTransposed ==
  ASSUME NEW side \in Nat \ {0}, NEW y, Position(y, side), NEW x, Position(x, side), NEW g \in Grids(side),
         NEW h \in Grids(side), GridTurned(h, g, side)
  PROVE  Resample(y, x, side, h) = Resample(x, y, side, g)
<1> DEFINE S == 0..(side - 1)
           v(k) == WeightsAt(Rest(y), y.den)[k]
           w(k) == WeightsAt(Rest(x), x.den)[k]
           i(k) == Near(y, side, k)
           j(k) == Near(x, side, k)
           a(k, l) == h[i(k)][j(l)]
<1>1. \A k \in 1..4 : i(k) \in S /\ j(k) \in S
  <2>1. [c \in S |-> 0] \in [S -> Int]
    OBVIOUS
  <2> QED BY <2>1, LineIsWhole
<1>2. i(1) \in S /\ i(2) \in S /\ i(3) \in S /\ i(4) \in S /\ j(1) \in S /\ j(2) \in S /\ j(3) \in S /\ j(4) \in S
  BY <1>1
<1>3. v(1) \in Int /\ v(2) \in Int /\ v(3) \in Int /\ v(4) \in Int /\ w(1) \in Int /\ w(2) \in Int /\ w(3) \in Int /\ w(4) \in Int
  <2>1. Rest(y) \in Int /\ Rest(x) \in Int /\ y.den \in Int /\ x.den \in Int
    BY PositionParts DEF Position
  <2> QED BY <2>1, WeightsAreWhole
<1>4. \A r \in S : Rows(x, side, h)[r] = ResampleLine(x, side, h[r]) /\ Rows(y, side, g)[r] = ResampleLine(y, side, g[r])
  BY DEF Rows
<1>5. \A r \in S : Rows(x, side, h)[r] = w(1) * h[r][j(1)] + w(2) * h[r][j(2)] + w(3) * h[r][j(3)] + w(4) * h[r][j(4)]
  BY <1>4, LineAt
<1>6. \A r \in S : Rows(y, side, g)[r] = v(1) * g[r][i(1)] + v(2) * g[r][i(2)] + v(3) * g[r][i(3)] + v(4) * g[r][i(4)]
  BY <1>4, LineAt
<1>7. Resample(y, x, side, h) = v(1) * Rows(x, side, h)[i(1)] + v(2) * Rows(x, side, h)[i(2)]
                                + v(3) * Rows(x, side, h)[i(3)] + v(4) * Rows(x, side, h)[i(4)]
  BY LineAt DEF Resample
<1>8. Resample(x, y, side, g) = w(1) * Rows(y, side, g)[j(1)] + w(2) * Rows(y, side, g)[j(2)]
                                + w(3) * Rows(y, side, g)[j(3)] + w(4) * Rows(y, side, g)[j(4)]
  BY LineAt DEF Resample
<1>9. \A r, c \in S : h[r][c] = g[c][r] /\ h[r][c] \in Int
  BY DEF Grids, GridTurned
<1> HIDE DEF v, w, i, j, S
<1>10. ASSUME NEW k \in {1, 2, 3, 4}
       PROVE  /\ Rows(x, side, h)[i(k)] = w(1) * a(k, 1) + w(2) * a(k, 2) + w(3) * a(k, 3) + w(4) * a(k, 4)
              /\ Rows(y, side, g)[j(k)] = v(1) * a(1, k) + v(2) * a(2, k) + v(3) * a(3, k) + v(4) * a(4, k)
  <2>1. i(k) \in S /\ j(k) \in S
    BY <1>2
  <2>2. g[j(k)][i(1)] = a(1, k) /\ g[j(k)][i(2)] = a(2, k) /\ g[j(k)][i(3)] = a(3, k) /\ g[j(k)][i(4)] = a(4, k)
    BY <1>2, <1>9, <2>1
  <2>3. Rows(x, side, h)[i(k)] = w(1) * a(k, 1) + w(2) * a(k, 2) + w(3) * a(k, 3) + w(4) * a(k, 4)
    BY <1>5, <2>1
  <2>4. Rows(y, side, g)[j(k)] = v(1) * g[j(k)][i(1)] + v(2) * g[j(k)][i(2)] + v(3) * g[j(k)][i(3)] + v(4) * g[j(k)][i(4)]
    BY <1>6, <2>1
  <2> HIDE DEF a
  <2> QED BY <2>2, <2>3, <2>4
<1>11. /\ a(1, 1) \in Int /\ a(1, 2) \in Int /\ a(1, 3) \in Int /\ a(1, 4) \in Int
       /\ a(2, 1) \in Int /\ a(2, 2) \in Int /\ a(2, 3) \in Int /\ a(2, 4) \in Int
       /\ a(3, 1) \in Int /\ a(3, 2) \in Int /\ a(3, 3) \in Int /\ a(3, 4) \in Int
       /\ a(4, 1) \in Int /\ a(4, 2) \in Int /\ a(4, 3) \in Int /\ a(4, 4) \in Int
  BY <1>2, <1>9
<1> HIDE DEF a
<1>12. Resample(y, x, side, h)
         = v(1) * (w(1) * a(1, 1) + w(2) * a(1, 2) + w(3) * a(1, 3) + w(4) * a(1, 4))
           + v(2) * (w(1) * a(2, 1) + w(2) * a(2, 2) + w(3) * a(2, 3) + w(4) * a(2, 4))
           + v(3) * (w(1) * a(3, 1) + w(2) * a(3, 2) + w(3) * a(3, 3) + w(4) * a(3, 4))
           + v(4) * (w(1) * a(4, 1) + w(2) * a(4, 2) + w(3) * a(4, 3) + w(4) * a(4, 4))
  BY <1>7, <1>10, Zenon
<1>13. Resample(x, y, side, g)
         = w(1) * (v(1) * a(1, 1) + v(2) * a(2, 1) + v(3) * a(3, 1) + v(4) * a(4, 1))
           + w(2) * (v(1) * a(1, 2) + v(2) * a(2, 2) + v(3) * a(3, 2) + v(4) * a(4, 2))
           + w(3) * (v(1) * a(1, 3) + v(2) * a(2, 3) + v(3) * a(3, 3) + v(4) * a(4, 3))
           + w(4) * (v(1) * a(1, 4) + v(2) * a(2, 4) + v(3) * a(3, 4) + v(4) * a(4, 4))
  BY <1>8, <1>10, Zenon
<1> QED BY <1>3, <1>11, <1>12, <1>13, SumsCommute

LEMMA GridIsMirrored ==
  ASSUME NEW side \in Nat \ {0}, NEW y, Position(y, side), NEW x, Position(x, side), NEW back, Position(back, side),
         back.num = (side - 1) * x.den - x.num, back.den = x.den, NEW g \in Grids(side),
         NEW h \in Grids(side), GridFlipped(h, g, side)
  PROVE  Resample(y, x, side, h) = Resample(y, back, side, g)
<1>1. ASSUME NEW r \in 0..(side - 1) PROVE Rows(x, side, h)[r] = Rows(back, side, g)[r]
  <2> DEFINE line == g[r]
             flipped == h[r]
  <2>1. flipped \in [0..(side - 1) -> Int] /\ line \in [0..(side - 1) -> Int]
    BY DEF Grids
  <2>2. IsFlipped(flipped, line, side)
    BY DEF IsFlipped, GridFlipped
  <2>3. Rows(x, side, h)[r] = ResampleLine(x, side, flipped) /\ Rows(back, side, g)[r] = ResampleLine(back, side, line)
    BY DEF Rows
  <2> HIDE DEF line, flipped
  <2>4. ResampleLine(x, side, flipped) = ResampleLine(back, side, line)
    BY <2>1, <2>2, LineIsMirrored, SMTT(60)
  <2> QED BY <2>3, <2>4
<1>2. Rows(x, side, h) = Rows(back, side, g)
  <2>1. Rows(x, side, h) \in [0..(side - 1) -> Int] /\ Rows(back, side, g) \in [0..(side - 1) -> Int]
    BY RowsAreWhole
  <2> QED BY <1>1, <2>1
<1> QED BY <1>2 DEF Resample

LEMMA GridIsRaised ==
  ASSUME NEW side \in Nat \ {0}, NEW y, Position(y, side), NEW x, Position(x, side), NEW g \in Grids(side), x.den = y.den,
         NEW h \in Grids(side), GridHigher(h, g, side)
  PROVE  Resample(y, x, side, h) = Resample(y, x, side, g) + 16 * (x.den * x.den * x.den) * (x.den * x.den * x.den)
<1> DEFINE d == x.den
           ddd == d * d * d
           up == 4 * (d * d * d) * 1
<1>1. ddd \in Int /\ up \in Int /\ up = 4 * ddd
  <2>1. d \in Int
    BY DEF Position
  <2> HIDE DEF d
  <2> QED BY <2>1
<1>2. ASSUME NEW r \in 0..(side - 1) PROVE Rows(x, side, h)[r] = Rows(x, side, g)[r] + up
  <2> DEFINE line == g[r]
             higher == h[r]
  <2>1. higher \in [0..(side - 1) -> Int] /\ line \in [0..(side - 1) -> Int]
    BY DEF Grids
  <2>2. IsRaised(higher, line, side, 1)
    BY DEF IsRaised, GridHigher
  <2>3. Rows(x, side, h)[r] = ResampleLine(x, side, higher) /\ Rows(x, side, g)[r] = ResampleLine(x, side, line)
    BY DEF Rows
  <2> HIDE DEF line, higher
  <2>4. ResampleLine(x, side, higher) = ResampleLine(x, side, line) + up
    BY <2>1, <2>2, LineIsRaised
  <2> QED BY <2>3, <2>4
<1>3. Rows(x, side, g) \in [0..(side - 1) -> Int]
  BY RowsAreWhole
<1>4. Resample(y, x, side, h) = Resample(y, x, side, g) + 4 * (y.den * y.den * y.den) * up
  <2> HIDE DEF up
  <2>1. IsRaised(Rows(x, side, h), Rows(x, side, g), side, up)
    BY <1>2 DEF IsRaised
  <2> QED BY <1>1, <1>3, <2>1, LineIsRaised DEF Resample
<1>5. 4 * (y.den * y.den * y.den) = 4 * ddd
  OBVIOUS
<1>6. 4 * (y.den * y.den * y.den) * up = 16 * ddd * ddd
  <2>1. 4 * (y.den * y.den * y.den) * up = 4 * ddd * up
    BY <1>5, Zenon
  <2>2. 4 * ddd * up = 16 * ddd * ddd
    <3> HIDE DEF ddd, up
    <3> QED BY <1>1
  <2> HIDE DEF ddd, up
  <2> QED BY <2>1, <2>2
<1> QED BY <1>4, <1>6, Zenon DEF ddd, d

LEMMA GridIsLocal ==
  ASSUME NEW side \in Nat \ {0}, NEW y, Position(y, side), NEW x, Position(x, side), NEW g \in Grids(side),
         NEW s \in 0..(side - 1), NEW t \in 0..(side - 1), Away(y, s) \/ Away(x, t),
         NEW h \in Grids(side), GridTouched(h, g, side, s, t)
  PROVE  Resample(y, x, side, h) = Resample(y, x, side, g)
<1>1. Rows(x, side, h) \in [0..(side - 1) -> Int] /\ Rows(x, side, g) \in [0..(side - 1) -> Int]
  BY RowsAreWhole
<1>2. \A r \in 0..(side - 1) : /\ h[r] \in [0..(side - 1) -> Int] /\ g[r] \in [0..(side - 1) -> Int]
                               /\ Rows(x, side, h)[r] = ResampleLine(x, side, h[r]) /\ Rows(x, side, g)[r] = ResampleLine(x, side, g[r])
  BY DEF Grids, Rows
<1>3. ASSUME NEW r \in 0..(side - 1), r # s PROVE Rows(x, side, h)[r] = Rows(x, side, g)[r]
  <2>1. \A c \in 0..(side - 1) : h[r][c] = g[r][c]
    BY <1>3 DEF GridTouched
  <2>2. h[r] = g[r]
    <3> DEFINE line == g[r]
               other == h[r]
    <3>1. line \in [0..(side - 1) -> Int] /\ other \in [0..(side - 1) -> Int] /\ \A c \in 0..(side - 1) : other[c] = line[c]
      BY <1>2, <2>1
    <3> HIDE DEF line, other
    <3>2. other = line
      BY <3>1
    <3> QED BY <3>2 DEF line, other
  <2> QED BY <1>2, <2>2
<1>4. CASE Away(y, s)
  <2>1. DiffersAt(Rows(x, side, h), Rows(x, side, g), side, s)
    BY <1>3 DEF DiffersAt
  <2> QED BY <1>1, <1>4, <2>1, LineIsLocal DEF Resample
<1>5. CASE Away(x, t)
  <2>2. ResampleLine(x, side, h[s]) = ResampleLine(x, side, g[s])
    <3> DEFINE line == g[s]
               other == h[s]
    <3>1. DiffersAt(other, line, side, t)
      BY DEF DiffersAt, GridTouched
    <3>2. line \in [0..(side - 1) -> Int] /\ other \in [0..(side - 1) -> Int]
      BY <1>2
    <3> HIDE DEF line, other
    <3>3. ResampleLine(x, side, other) = ResampleLine(x, side, line)
      BY <1>5, <3>1, <3>2, LineIsLocal
    <3> QED BY <3>3 DEF line, other
  <2>3. \A r \in 0..(side - 1) : Rows(x, side, h)[r] = Rows(x, side, g)[r]
    BY <1>2, <1>3, <2>2
  <2>4. Rows(x, side, h) = Rows(x, side, g)
    BY <1>1, <2>3
  <2> QED BY <2>4 DEF Resample
<1> QED BY <1>4, <1>5

\* A position of a grid resampled to itself is a patch.
LEMMA SamePosition ==
  ASSUME NEW side \in Nat \ {0}, NEW i \in 0..(side - 1), NEW corners \in BOOLEAN
  PROVE  LET at == SourceIndex(side, side, i, corners) IN Position(at, side) /\ Quotient(at) = i /\ Rest(at) = 0
<1> DEFINE at == SourceIndex(side, side, i, corners)
           n == at.num
           d == at.den
<1>1. Position(at, side)
  BY PositionsAreNear
<1>2. n \in Int /\ d \in Nat \ {0}
  BY <1>1 DEF Position
<1>3. n = i * d
  <2>1. CASE ~corners
    <3>1. n = (2 * i + 1) * side - side /\ d = 2 * side
      BY <2>1 DEF SourceIndex
    <3>2. (2 * i + 1) * side - side = i * (2 * side)
      OBVIOUS
    <3> QED BY <3>1, <3>2
  <2>2. CASE corners /\ side = 1
    <3>1. n = 0 /\ d = 1 /\ i = 0
      BY <2>2 DEF SourceIndex
    <3> QED BY <3>1
  <2>3. CASE corners /\ side # 1
    BY <2>3 DEF SourceIndex
  <2> QED BY <2>1, <2>2, <2>3
<1> HIDE DEF n, d, at
<1>4. n \div d = i
  BY <1>2, <1>3, DivExact
<1>5. i * d \in Int
  BY <1>2
<1>6. n - i * d = 0
  BY <1>3, <1>5
<1> QED BY <1>1, <1>4, <1>6 DEF Quotient, Rest, n, d, at

LEMMA GridAtPatch ==
  ASSUME NEW side \in Nat \ {0}, NEW r \in 0..(side - 1), NEW c \in 0..(side - 1), NEW y, Position(y, side), NEW x, Position(x, side),
         Rest(y) = 0, Quotient(y) = r, Rest(x) = 0, Quotient(x) = c, x.den = y.den, NEW g \in Grids(side)
  PROVE  Resample(y, x, side, g) = 16 * (x.den * x.den * x.den) * (x.den * x.den * x.den) * g[r][c]
<1> DEFINE d == x.den
           ddd == d * d * d
           v == g[r][c]
<1>1. d \in Int /\ v \in Int /\ ddd \in Int
  <2>1. d \in Int
    BY DEF Position
  <2>2. v \in Int
    BY DEF Grids
  <2> HIDE DEF d
  <2> QED BY <2>1, <2>2
<1>2. \A i \in 0..(side - 1) : ClampIndex(i, side) = i
  BY DEF ClampIndex
<1>3. Rows(x, side, g)[r] = 4 * ddd * v
  <2>1. g[r] \in [0..(side - 1) -> Int]
    BY DEF Grids
  <2>2. ResampleLine(x, side, g[r]) = 4 * (x.den * x.den * x.den) * g[r][ClampIndex(Quotient(x), side)]
    BY <2>1, LineAtPatch
  <2>3. ClampIndex(Quotient(x), side) = c
    BY <1>2
  <2>4. ResampleLine(x, side, g[r]) = 4 * ddd * v
    BY <2>2, <2>3, Zenon
  <2>5. Rows(x, side, g)[r] = ResampleLine(x, side, g[r])
    BY DEF Rows
  <2> QED BY <2>4, <2>5, Zenon
<1>4. Resample(y, x, side, g) = 4 * ddd * (4 * ddd * v)
  <2>1. Rows(x, side, g) \in [0..(side - 1) -> Int]
    BY RowsAreWhole
  <2>2. ResampleLine(y, side, Rows(x, side, g)) = 4 * (y.den * y.den * y.den) * Rows(x, side, g)[ClampIndex(Quotient(y), side)]
    BY <2>1, LineAtPatch
  <2>3. ClampIndex(Quotient(y), side) = r
    BY <1>2
  <2>4. ResampleLine(y, side, Rows(x, side, g)) = 4 * ddd * (4 * ddd * v)
    BY <2>2, <2>3, <1>3, Zenon
  <2> QED BY <2>4, Zenon DEF Resample
<1> HIDE DEF ddd, v
<1>5. 4 * ddd * (4 * ddd * v) = 16 * ddd * ddd * v
  BY <1>1
<1> QED BY <1>4, <1>5 DEF ddd, v
-----------------------------------------------------------------------------
(* Where the values of an embedding lie. *)

LEMMA SideOfSquare ==
  ASSUME NEW n \in Nat, SquareSide(n) # 0
  PROVE  SquareSide(n) \in Nat \ {0} /\ SquareSide(n) * SquareSide(n) = n
<1> DEFINE square(side) == side * side = n
<1>1. \E side \in 1..n : square(side)
  BY DEF SquareSide
<1>2. SquareSide(n) = CHOOSE side \in 1..n : square(side)
  BY <1>1 DEF SquareSide
<1> HIDE DEF square
<1>3. SquareSide(n) \in 1..n /\ square(SquareSide(n))
  BY <1>1, <1>2
<1> QED BY <1>3 DEF square

Place(side, dim, r, c, d) == (r * side + c + 1) * dim + d

LEMMA PlaceParts ==
  ASSUME NEW side \in Nat \ {0}, NEW dim \in Nat \ {0}, NEW r \in 0..(side - 1), NEW c \in 0..(side - 1), NEW d \in 1..dim
  PROVE  LET p == Place(side, dim, r, c, d)
         IN  /\ p \in 1..((side * side + 1) * dim) /\ ~(p <= dim)
             /\ (p - 1) % dim = d - 1 /\ ((p - 1) \div dim - 1) \div side = r /\ ((p - 1) \div dim - 1) % side = c
<1> DEFINE patch == r * side + c
           p == Place(side, dim, r, c, d)
<1>1. patch \in Int /\ 0 <= patch /\ patch + 1 <= side * side /\ side * side \in Int
  <2>1. r * side <= (side - 1) * side /\ 0 <= r * side
    BY r <= side - 1, 0 <= r
  <2>2. (side - 1) * side = side * side - side /\ side * side \in Int /\ r * side \in Int
    OBVIOUS
  <2> QED BY <2>1, <2>2
<1>2. patch \div side = r /\ patch % side = c
  <2>1. r * side \in Int
    OBVIOUS
  <2>2. r \in Int /\ c \in Int /\ 0 <= c /\ c < side
    OBVIOUS
  <2> QED BY <1>1, <2>1, <2>2, DivMod
<1> HIDE DEF patch
<1>3. p = (patch + 1) * dim + d /\ (patch + 1) * dim \in Int
  BY <1>1 DEF Place, patch
<1> HIDE DEF p
<1>4. p \in Int
  BY <1>3
<1>5. (p - 1) \div dim = patch + 1 /\ (p - 1) % dim = d - 1
  <2>1. p - 1 = (patch + 1) * dim + (d - 1)
    BY <1>3
  <2>2. patch + 1 \in Int /\ d - 1 \in Int /\ 0 <= d - 1 /\ d - 1 < dim /\ p - 1 \in Int
    BY <1>1, <1>4
  <2> QED BY <2>1, <2>2, DivMod
<1>6. (p - 1) \div dim - 1 = patch
  BY <1>1, <1>5
<1>7. ~(p <= dim)
  <2>1. 1 * dim <= (patch + 1) * dim
    BY <1>1, 1 <= patch + 1
  <2> QED BY <1>3, <2>1
<1>8. p <= (side * side + 1) * dim
  <2>1. (patch + 1) * dim <= (side * side) * dim
    BY <1>1
  <2>2. (side * side + 1) * dim = (side * side) * dim + dim /\ (side * side) * dim \in Int
    BY <1>1
  <2> QED BY <1>3, <2>1, <2>2
<1>9. (side * side + 1) * dim \in Int
  BY <1>1
<1>10. p \in 1..((side * side + 1) * dim)
  BY <1>4, <1>7, <1>8, <1>9
<1> QED BY <1>2, <1>5, <1>6, <1>7, <1>10 DEF p

LEMMA PlaceCases ==
  ASSUME NEW side \in Nat \ {0}, NEW dim \in Nat \ {0}, NEW p \in 1..((side * side + 1) * dim), ~(p <= dim)
  PROVE  \E r, c \in 0..(side - 1) : \E d \in 1..dim : p = Place(side, dim, r, c, d)
<1> DEFINE token == (p - 1) \div dim
           patch == token - 1
           d == ((p - 1) % dim) + 1
           r == patch \div side
           c == patch % side
           most == side * side + 1
<1>1. most \in Int /\ p \in Int /\ p <= most * dim /\ side * side \in Int
  <2>1. side * side \in Int
    OBVIOUS
  <2>2. most \in Int
    BY <2>1
  <2>3. most * dim \in Int
    <3> HIDE DEF most
    <3> QED BY <2>2
  <2> QED BY <2>1, <2>2, <2>3
<1> HIDE DEF most
<1>2. token \in Int /\ 0 <= token /\ token < most
  <2>1. p - 1 \in Int /\ 0 <= p - 1 /\ p - 1 < most * dim
    <3>1. most * dim \in Int
      BY <1>1
    <3> QED BY <1>1, <3>1
  <2> QED BY <1>1, <2>1, RowOf
<1>3. (p - 1) % dim \in 0..(dim - 1) /\ p - 1 = token * dim + ((p - 1) % dim)
  BY <1>1, Divided
<1>4. d \in 1..dim /\ p = token * dim + d
  <2> DEFINE m == (p - 1) % dim
  <2>1. m \in 0..(dim - 1) /\ p - 1 = token * dim + m /\ token * dim \in Int
    BY <1>2, <1>3
  <2> HIDE DEF m, token
  <2>2. m + 1 \in 1..dim /\ p = token * dim + (m + 1)
    BY <1>1, <2>1
  <2> QED BY <2>2 DEF m
<1> HIDE DEF token, d
<1>5. token # 0
  BY <1>1, <1>4
<1>6. patch \in Int /\ 0 <= patch /\ patch < side * side
  BY <1>1, <1>2, <1>5 DEF most
<1> HIDE DEF patch
<1>7. r \in Int /\ 0 <= r /\ r < side
  BY <1>6, RowOf
<1>8. c \in 0..(side - 1) /\ patch = r * side + c
  BY <1>6, Divided
<1> HIDE DEF r, c
<1>9. r \in 0..(side - 1)
  BY <1>7
<1>10. p = Place(side, dim, r, c, d)
  <2>1. token = patch + 1
    BY <1>2 DEF patch
  <2> QED BY <1>4, <1>8, <2>1 DEF Place
<1> QED BY <1>4, <1>8, <1>9, <1>10

LEMMA FirstPlaces ==
  ASSUME NEW dim \in Nat \ {0}, NEW n \in Nat
  PROVE  /\ (n + 1) * dim \in Nat /\ \A p \in 1..dim : p \in 1..((n + 1) * dim)
<1>1. n * dim \in Int /\ 0 <= n * dim
  BY 0 <= n
<1>2. (n + 1) * dim = n * dim + dim
  OBVIOUS
<1>3. (n + 1) * dim \in Nat /\ dim <= (n + 1) * dim
  BY <1>1, <1>2
<1> QED BY <1>3
-----------------------------------------------------------------------------
(* An embedding and its answer by grids. *)

Embedding(n, dim, v) == [n_patch |-> n, dim |-> dim, values |-> v]
Values(side, dim) == [1..((side * side + 1) * dim) -> Int]

LEMMA EmbeddingParts ==
  ASSUME NEW pos, IsEmbedding(pos), pos # Invalid
  PROVE  LET side == SquareSide(pos.n_patch)
         IN  /\ side \in Nat \ {0} /\ side * side = pos.n_patch /\ pos.dim \in Nat \ {0} /\ pos.n_patch \in Nat
             /\ pos.values \in Values(side, pos.dim) /\ pos = Embedding(pos.n_patch, pos.dim, pos.values)
<1> DEFINE n == pos.n_patch
           dim == pos.dim
           v == pos.values
           side == SquareSide(n)
<1>1. n \in Nat /\ dim \in Nat /\ v \in Seq(Int) /\ pos = FromValues(n, dim, v)
  BY DEF IsEmbedding
<1>2. side # 0 /\ dim # 0 /\ Len(v) = (n + 1) * dim /\ pos = [n_patch |-> n, dim |-> dim, values |-> v]
  <2> HIDE DEF n, dim, v
  <2> QED BY <1>1 DEF FromValues, PositionEmbeddingLen
<1>3. side \in Nat \ {0} /\ side * side = n
  <2> HIDE DEF n
  <2> QED BY <1>1, <1>2, SideOfSquare
<1>4. v \in [1..Len(v) -> Int]
  <2> HIDE DEF v
  <2> QED BY <1>1
<1>5. v \in Values(side, dim)
  <2> HIDE DEF v, side, n, dim
  <2> QED BY <1>2, <1>3, <1>4 DEF Values
<1>6. pos = Embedding(n, dim, v)
  BY <1>2, Zenon DEF Embedding
<1> QED BY <1>1, <1>2, <1>3, <1>5, <1>6

LEMMA EmbeddingChanged ==
  ASSUME NEW n, NEW dim, NEW v, NEW w
  PROVE  [Embedding(n, dim, v) EXCEPT !.values = w] = Embedding(n, dim, w)
BY DEF Embedding

LEMMA EmbeddingIsValid ==
  ASSUME NEW n, NEW dim, NEW v
  PROVE  Embedding(n, dim, v) # Invalid
<1>1. DOMAIN Embedding(n, dim, v) = {"n_patch", "dim", "values"} /\ DOMAIN Invalid = {"invalid"}
  BY DEF Embedding, Invalid
<1>2. "dim" # "invalid"
  OBVIOUS
<1> QED BY <1>1, <1>2

LEMMA SquaresDiffer ==
  ASSUME NEW a \in Nat, NEW b \in Nat, a * a = b * b
  PROVE  a = b
<1>1. a * a \in Int /\ b * b \in Int /\ a * b \in Int
  OBVIOUS
<1>2. CASE a < b
  <2>1. a * a <= a * b
    BY <1>2
  <2>2. a * b < b * b
    <3>1. (a + 1) * b <= b * b
      BY <1>2, a + 1 <= b
    <3>2. (a + 1) * b = a * b + b
      OBVIOUS
    <3> QED BY <1>1, <1>2, <3>1, <3>2
  <2> QED BY <1>1, <2>1, <2>2
<1>3. CASE b < a
  <2>1. b * b <= a * b
    BY <1>3
  <2>2. a * b < a * a
    <3>1. a * (b + 1) <= a * a
      BY <1>3, b + 1 <= a
    <3>2. a * (b + 1) = a * b + a
      OBVIOUS
    <3> QED BY <1>1, <1>3, <3>1, <3>2
  <2> QED BY <1>1, <2>1, <2>2
<1> QED BY <1>2, <1>3

\* The patches of one feature.
GridOf(v, side, dim, d) == [r \in 0..(side - 1) |-> [c \in 0..(side - 1) |-> v[Place(side, dim, r, c, d)]]]

LEMMA GridIsAGrid ==
  ASSUME NEW side \in Nat \ {0}, NEW dim \in Nat \ {0}, NEW v \in Values(side, dim), NEW d \in 1..dim
  PROVE  GridOf(v, side, dim, d) \in Grids(side)
<1>1. ASSUME NEW r \in 0..(side - 1), NEW c \in 0..(side - 1) PROVE v[Place(side, dim, r, c, d)] \in Int
  <2>1. Place(side, dim, r, c, d) \in 1..((side * side + 1) * dim)
    BY PlaceParts
  <2> QED BY <2>1 DEF Values
<1> QED BY <1>1 DEF GridOf, Grids

LEMMA PatchByGrid ==
  ASSUME NEW n, NEW dim, NEW v, NEW from, NEW to, NEW r, NEW c, NEW d, NEW corners
  PROVE  InterpolatePatch(Embedding(n, dim, v), from, to, r, c, d, corners)
           = Resample(SourceIndex(from, to, r, corners), SourceIndex(from, to, c, corners), from, GridOf(v, from, dim, d))
<1> DEFINE pos == Embedding(n, dim, v)
           x == SourceIndex(from, to, c, corners)
<1>1. pos.values = v /\ pos.dim = dim
  BY DEF Embedding
<1> HIDE DEF pos
<1>2. \A row, col : PatchValue(pos, from, row, col, d) = v[Place(from, dim, row, col, d)]
  BY <1>1 DEF PatchValue, Place
<1>3. \A row \in 0..from - 1 : [col \in 0..from - 1 |-> PatchValue(pos, from, row, col, d)] = GridOf(v, from, dim, d)[row]
  BY <1>2 DEF GridOf
<1>4. [row \in 0..from - 1 |-> ResampleLine(x, from, [col \in 0..from - 1 |-> PatchValue(pos, from, row, col, d)])]
        = Rows(x, from, GridOf(v, from, dim, d))
  <2> HIDE DEF x
  <2> QED BY <1>3 DEF Rows
<1> QED BY <1>4 DEF InterpolatePatch, Resample, pos
-----------------------------------------------------------------------------
(* The answer for another grid. *)

Resampling(v, dim, from, to, corners) == ResampledValues(Embedding(from * from, dim, v), from, to, corners)

\* The value of an output patch.
PatchAt(v, dim, from, to, r, c, d, corners) ==
  Resample(SourceIndex(from, to, r, corners), SourceIndex(from, to, c, corners), from, GridOf(v, from, dim, d))

HasValues(a, v, dim, from, to, corners) ==
  /\ \A p \in 1..dim : a[p] = v[p] * Scale(from, to, corners)
  /\ \A r, c \in 0..(to - 1) : \A d \in 1..dim : a[Place(to, dim, r, c, d)] = PatchAt(v, dim, from, to, r, c, d, corners)

LEMMA ResampledAt ==
  ASSUME NEW from \in Nat \ {0}, NEW to \in Nat \ {0}, NEW dim \in Nat \ {0}, NEW v \in Values(from, dim), NEW corners \in BOOLEAN
  PROVE  /\ DOMAIN Resampling(v, dim, from, to, corners) = 1..((to * to + 1) * dim)
         /\ HasValues(Resampling(v, dim, from, to, corners), v, dim, from, to, corners)
<1> DEFINE pos == Embedding(from * from, dim, v)
           D == 1..((to * to + 1) * dim)
           a == Resampling(v, dim, from, to, corners)
<1>1. pos.values = v /\ pos.dim = dim
  BY DEF Embedding
<1> HIDE DEF pos
<1>2. a = [p \in D |-> IF p <= dim THEN v[p] * Scale(from, to, corners)
                       ELSE InterpolatePatch(pos, from, to, PatchRow(pos, to, p), PatchColumn(pos, to, p), Feature(pos, p), corners)]
  BY <1>1, Zenon DEF Resampling, ResampledValues, PositionEmbeddingLen, pos
<1> HIDE DEF a, D
<1>3. ASSUME NEW p \in 1..dim PROVE a[p] = v[p] * Scale(from, to, corners)
  <2>1. p \in D
    BY FirstPlaces DEF D
  <2> QED BY <1>2, <2>1
<1>4. ASSUME NEW r \in 0..(to - 1), NEW c \in 0..(to - 1), NEW d \in 1..dim
      PROVE  a[Place(to, dim, r, c, d)] = PatchAt(v, dim, from, to, r, c, d, corners)
  <2> DEFINE p == Place(to, dim, r, c, d)
  <2>1. p \in D /\ ~(p <= dim) /\ (p - 1) % dim = d - 1 /\ ((p - 1) \div dim - 1) \div to = r /\ ((p - 1) \div dim - 1) % to = c
    BY PlaceParts DEF D
  <2> HIDE DEF p
  <2>2. PatchRow(pos, to, p) = r /\ PatchColumn(pos, to, p) = c /\ Feature(pos, p) = d
    BY <1>1, <2>1 DEF PatchRow, PatchColumn, Feature
  <2>3. a[p] = InterpolatePatch(pos, from, to, r, c, d, corners)
    BY <1>2, <2>1, <2>2
  <2> QED BY <2>3, PatchByGrid DEF PatchAt, pos, p
<1> QED BY <1>2, <1>3, <1>4 DEF HasValues, D, a

LEMMA PatchIsWhole ==
  ASSUME NEW from \in Nat \ {0}, NEW to \in Nat \ {0}, NEW dim \in Nat \ {0}, NEW v \in Values(from, dim), NEW corners \in BOOLEAN,
         NEW r \in 0..(to - 1), NEW c \in 0..(to - 1), NEW d \in 1..dim
  PROVE  PatchAt(v, dim, from, to, r, c, d, corners) \in Int
<1>1. Position(SourceIndex(from, to, r, corners), from) /\ Position(SourceIndex(from, to, c, corners), from)
  BY PositionsAreNear
<1> QED BY <1>1, GridIsAGrid, GridIsWhole DEF PatchAt

LEMMA ScaleIsWhole ==
  ASSUME NEW from \in Nat \ {0}, NEW to \in Nat \ {0}, NEW corners \in BOOLEAN
  PROVE  Scale(from, to, corners) \in Int
<1> DEFINE den == SourceIndex(from, to, 0, corners).den
           cube == den * den * den
<1>1. den \in Int
  BY 0 \in 0..(to - 1), PositionsAreNear DEF Position
<1>2. Scale(from, to, corners) = 16 * cube * cube
  BY Zenon DEF Scale
<1> HIDE DEF den
<1>3. cube \in Int
  BY <1>1
<1> HIDE DEF cube
<1> QED BY <1>2, <1>3

LEMMA ResampledIsWhole ==
  ASSUME NEW from \in Nat \ {0}, NEW to \in Nat \ {0}, NEW dim \in Nat \ {0}, NEW v \in Values(from, dim), NEW corners \in BOOLEAN
  PROVE  Resampling(v, dim, from, to, corners) \in Values(to, dim)
<1> DEFINE D == 1..((to * to + 1) * dim)
           a == Resampling(v, dim, from, to, corners)
<1>1. DOMAIN a = D /\ HasValues(a, v, dim, from, to, corners)
  BY ResampledAt
<1>2. a = [p \in D |-> a[p]]
  BY <1>1, Zenon DEF Resampling, ResampledValues, PositionEmbeddingLen, Embedding
<1> HIDE DEF a
<1>3. ASSUME NEW p \in D PROVE a[p] \in Int
  <2>1. CASE p <= dim
    <3>1. p \in 1..dim /\ p \in 1..((from * from + 1) * dim)
      BY <2>1, FirstPlaces
    <3>2. v[p] \in Int
      BY <3>1 DEF Values
    <3>3. a[p] = v[p] * Scale(from, to, corners)
      BY <1>1, <3>1 DEF HasValues
    <3> QED BY <3>2, <3>3, ScaleIsWhole
  <2>2. CASE ~(p <= dim)
    <3>1. PICK r \in 0..(to - 1), c \in 0..(to - 1), d \in 1..dim : p = Place(to, dim, r, c, d)
      BY <2>2, PlaceCases
    <3>2. a[p] = PatchAt(v, dim, from, to, r, c, d, corners)
      BY <1>1, <3>1 DEF HasValues
    <3> QED BY <3>2, PatchIsWhole
  <2> QED BY <2>1, <2>2
<1> QED BY <1>2, <1>3 DEF Values, a

\* Two embeddings are equal if their class tokens and patches are.
SameValues(f, g, side, dim) ==
  /\ \A p \in 1..dim : f[p] = g[p]
  /\ \A r, c \in 0..(side - 1) : \A d \in 1..dim : f[Place(side, dim, r, c, d)] = g[Place(side, dim, r, c, d)]

LEMMA EqualValues ==
  ASSUME NEW to \in Nat \ {0}, NEW dim \in Nat \ {0}, NEW f \in Values(to, dim), NEW g \in Values(to, dim), SameValues(f, g, to, dim)
  PROVE  f = g
<1> DEFINE D == 1..((to * to + 1) * dim)
<1>1. ASSUME NEW p \in D PROVE f[p] = g[p]
  <2>1. CASE p <= dim
    BY <2>1, p \in 1..dim DEF SameValues
  <2>2. CASE ~(p <= dim)
    <3>1. PICK r \in 0..(to - 1), c \in 0..(to - 1), d \in 1..dim : p = Place(to, dim, r, c, d)
      BY <2>2, PlaceCases
    <3> QED BY <3>1 DEF SameValues
  <2> QED BY <2>1, <2>2
<1>2. f \in [D -> Int] /\ g \in [D -> Int]
  BY DEF Values
<1> HIDE DEF D
<1> QED BY <1>1, <1>2
-----------------------------------------------------------------------------
(* Answers of interpolate_pos_embed. *)

Answer(n, dim, v, scale) == [n_patch |-> n, dim |-> dim, values |-> v, scale |-> scale]

LEMMA AnswerOf ==
  ASSUME NEW n \in Nat, NEW m \in Nat, SquareSide(n) # 0, SquareSide(m) # 0, n # m, NEW dim \in Nat \ {0}, NEW corners \in BOOLEAN,
         NEW v \in Values(SquareSide(n), dim)
  PROVE  LET from == SquareSide(n) to == SquareSide(m)
         IN  InterpolatePosEmbed(Embedding(n, dim, v), m, corners)
               = Answer(m, dim, Resampling(v, dim, from, to, corners), Scale(from, to, corners))
<1> DEFINE from == SquareSide(n)
           to == SquareSide(m)
           pos == Embedding(n, dim, v)
           a == Resampling(v, dim, from, to, corners)
<1>1. from \in Nat \ {0} /\ from * from = n /\ to \in Nat \ {0} /\ to * to = m
  BY SideOfSquare
<1>2. pos.n_patch = n /\ pos.dim = dim
  BY DEF Embedding
<1>3. a \in Values(to, dim)
  <2>1. v \in Values(from, dim)
    OBVIOUS
  <2> HIDE DEF from, to
  <2> QED BY <1>1, <2>1, ResampledIsWhole
<1>4. Len(a) = (m + 1) * dim
  <2> DEFINE most == (m + 1) * dim
  <2>1. most \in Nat
    BY FirstPlaces
  <2>2. a \in [1..most -> Int]
    BY <1>1, <1>3, Zenon DEF Values
  <2> HIDE DEF a, most
  <2>3. Len(a) = most
    BY <2>1, <2>2
  <2> QED BY <2>3 DEF most
<1>5. ResampledValues(pos, from, to, corners) = a
  BY <1>1, Zenon DEF Resampling
<1>6. FromValues(m, dim, a) = Embedding(m, dim, a)
  <2> HIDE DEF a
  <2> QED BY <1>4 DEF FromValues, PositionEmbeddingLen, Embedding
<1>7. InUnitsOf(Scale(from, to, corners), Embedding(m, dim, a)) = Answer(m, dim, a, Scale(from, to, corners))
  <2> HIDE DEF a
  <2> DEFINE e == Embedding(m, dim, a)
  <2>1. e # Invalid
    BY EmbeddingIsValid
  <2>2. e.n_patch = m /\ e.dim = dim /\ e.values = a
    BY DEF Embedding
  <2> HIDE DEF e
  <2>3. InUnitsOf(Scale(from, to, corners), e) = Answer(m, dim, a, Scale(from, to, corners))
    BY <2>1, <2>2, Zenon DEF InUnitsOf, Answer
  <2> QED BY <2>3 DEF e
<1>8. InterpolatePosEmbed(pos, m, corners)
        = InUnitsOf(Scale(from, to, corners), FromValues(m, dim, ResampledValues(pos, from, to, corners)))
  <2> HIDE DEF pos
  <2>1. pos.n_patch # m
    BY <1>2
  <2> QED BY <1>2, <2>1, Zenon DEF InterpolatePosEmbed
<1> HIDE DEF pos, from, to, a
<1>9. InterpolatePosEmbed(pos, m, corners) = Answer(m, dim, a, Scale(from, to, corners))
  BY <1>5, <1>6, <1>7, <1>8, Zenon
<1> QED BY <1>9 DEF pos, from, to, a

LEMMA SameAnswer ==
  ASSUME NEW n \in Nat, SquareSide(n) # 0, NEW dim, NEW v, NEW corners
  PROVE  InterpolatePosEmbed(Embedding(n, dim, v), n, corners) = Answer(n, dim, v, 1)
<1> DEFINE pos == Embedding(n, dim, v)
<1>1. pos.n_patch = n /\ pos.dim = dim /\ pos.values = v
  BY DEF Embedding
<1>2. pos # Invalid
  BY EmbeddingIsValid
<1> HIDE DEF pos
<1>3. InterpolatePosEmbed(pos, n, corners) = InUnitsOf(1, pos)
  BY <1>1, Zenon DEF InterpolatePosEmbed
<1>4. InUnitsOf(1, pos) = Answer(n, dim, v, 1)
  BY <1>1, <1>2, Zenon DEF InUnitsOf, Answer
<1> QED BY <1>3, <1>4 DEF pos

\* The changed values, of an embedding or of an answer.
TransposedValues(v, side, dim, t) ==
  /\ \A p \in 1..dim : t[p] = v[p]
  /\ \A r, c \in 0..(side - 1) : \A d \in 1..dim : t[Place(side, dim, r, c, d)] = v[Place(side, dim, c, r, d)]
MirroredValues(v, side, dim, t) ==
  /\ \A p \in 1..dim : t[p] = v[p]
  /\ \A r, c \in 0..(side - 1) : \A d \in 1..dim : t[Place(side, dim, r, c, d)] = v[Place(side, dim, r, side - 1 - c, d)]

LEMMA ChangesOf ==
  ASSUME NEW side \in Nat \ {0}, NEW dim \in Nat \ {0}, NEW v \in Values(side, dim), NEW e, e.values = v, e.dim = dim
  PROVE  /\ Transposed(e, side) \in Values(side, dim) /\ TransposedValues(v, side, dim, Transposed(e, side))
         /\ Mirrored(e, side) \in Values(side, dim) /\ MirroredValues(v, side, dim, Mirrored(e, side))
<1> DEFINE D == 1..((side * side + 1) * dim)
           t == Transposed(e, side)
           m == Mirrored(e, side)
<1>1. DOMAIN v = D /\ \A p \in D : v[p] \in Int
  BY DEF Values
<1>2. /\ t = [p \in D |-> IF p <= dim THEN v[p]
                          ELSE v[Place(side, dim, PatchColumn(e, side, p), PatchRow(e, side, p), Feature(e, p))]]
      /\ m = [p \in D |-> IF p <= dim THEN v[p]
                          ELSE v[Place(side, dim, PatchRow(e, side, p), side - 1 - PatchColumn(e, side, p), Feature(e, p))]]
  BY <1>1, Zenon DEF Transposed, Mirrored, PatchValue, Place
<1> HIDE DEF t, m
<1>3. ASSUME NEW p \in 1..dim PROVE p \in D /\ t[p] = v[p] /\ m[p] = v[p]
  <2>1. p \in D
    BY side * side \in Nat, FirstPlaces
  <2> HIDE DEF D
  <2> QED BY <1>2, <2>1
<1>4. ASSUME NEW r \in 0..(side - 1), NEW c \in 0..(side - 1), NEW d \in 1..dim
      PROVE  /\ t[Place(side, dim, r, c, d)] = v[Place(side, dim, c, r, d)]
             /\ m[Place(side, dim, r, c, d)] = v[Place(side, dim, r, side - 1 - c, d)]
  <2> DEFINE p == Place(side, dim, r, c, d)
  <2>1. p \in D /\ ~(p <= dim) /\ (p - 1) % dim = d - 1 /\ ((p - 1) \div dim - 1) \div side = r /\ ((p - 1) \div dim - 1) % side = c
    BY PlaceParts
  <2> HIDE DEF p, D
  <2>2. PatchRow(e, side, p) = r /\ PatchColumn(e, side, p) = c /\ Feature(e, p) = d
    BY <2>1 DEF PatchRow, PatchColumn, Feature
  <2>3. t[p] = v[Place(side, dim, c, r, d)] /\ m[p] = v[Place(side, dim, r, side - 1 - c, d)]
    BY <1>2, <2>1, <2>2
  <2> QED BY <2>3 DEF p
<1>5. ASSUME NEW p \in D PROVE t[p] \in Int /\ m[p] \in Int
  <2>1. CASE p <= dim
    BY <1>1, <1>3, <2>1, p \in 1..dim
  <2>2. CASE ~(p <= dim)
    <3>1. PICK r \in 0..(side - 1), c \in 0..(side - 1), d \in 1..dim : p = Place(side, dim, r, c, d)
      BY <2>2, PlaceCases
    <3>2. side - 1 - c \in 0..(side - 1)
      OBVIOUS
    <3>3. Place(side, dim, c, r, d) \in D /\ Place(side, dim, r, side - 1 - c, d) \in D
      BY <3>2, PlaceParts
    <3> HIDE DEF D
    <3> QED BY <1>1, <1>4, <3>1, <3>3
  <2> QED BY <2>1, <2>2
<1>6. t \in [D -> Int] /\ m \in [D -> Int]
  <2> HIDE DEF D
  <2> QED BY <1>2, <1>5
<1> QED BY <1>3, <1>4, <1>6 DEF TransposedValues, MirroredValues, Values, t, m
-----------------------------------------------------------------------------
(* What a change of the embedding does to the answer. *)

LEMMA PatchTransposed ==
  ASSUME NEW from \in Nat \ {0}, NEW to \in Nat \ {0}, NEW dim \in Nat \ {0}, NEW v \in Values(from, dim), NEW corners \in BOOLEAN,
         NEW t \in Values(from, dim), TransposedValues(v, from, dim, t),
         NEW r \in 0..(to - 1), NEW c \in 0..(to - 1), NEW d \in 1..dim
  PROVE  PatchAt(t, dim, from, to, r, c, d, corners) = PatchAt(v, dim, from, to, c, r, d, corners)
<1> DEFINE y == SourceIndex(from, to, r, corners)
           x == SourceIndex(from, to, c, corners)
           g == GridOf(v, from, dim, d)
           h == GridOf(t, from, dim, d)
<1>1. Position(y, from) /\ Position(x, from)
  BY PositionsAreNear
<1>2. g \in Grids(from) /\ h \in Grids(from)
  BY GridIsAGrid
<1>3. GridTurned(h, g, from)
  BY DEF GridTurned, GridOf, TransposedValues
<1> HIDE DEF y, x, g, h
<1>4. Resample(y, x, from, h) = Resample(x, y, from, g)
  BY <1>1, <1>2, <1>3, GridIsTransposed
<1> QED BY <1>4 DEF PatchAt, y, x, g, h

LEMMA PatchMirrored ==
  ASSUME NEW from \in Nat \ {0}, NEW to \in Nat \ {0}, NEW dim \in Nat \ {0}, NEW v \in Values(from, dim), NEW corners \in BOOLEAN,
         NEW t \in Values(from, dim), MirroredValues(v, from, dim, t), ~(corners /\ to = 1),
         NEW r \in 0..(to - 1), NEW c \in 0..(to - 1), NEW d \in 1..dim
  PROVE  PatchAt(t, dim, from, to, r, c, d, corners) = PatchAt(v, dim, from, to, r, to - 1 - c, d, corners)
<1> DEFINE y == SourceIndex(from, to, r, corners)
           x == SourceIndex(from, to, c, corners)
           back == SourceIndex(from, to, to - 1 - c, corners)
           g == GridOf(v, from, dim, d)
           h == GridOf(t, from, dim, d)
<1>1. Position(y, from) /\ Position(x, from) /\ Position(back, from)
  <2>1. to - 1 - c \in 0..(to - 1)
    OBVIOUS
  <2> QED BY <2>1, PositionsAreNear
<1>2. g \in Grids(from) /\ h \in Grids(from)
  BY GridIsAGrid
<1>3. GridFlipped(h, g, from)
  <2>1. \A c2 \in 0..(from - 1) : from - 1 - c2 \in 0..(from - 1)
    OBVIOUS
  <2> QED BY <2>1 DEF GridFlipped, GridOf, MirroredValues
<1>4. back.num = (from - 1) * x.den - x.num /\ back.den = x.den
  BY MirroredPosition
<1> HIDE DEF y, x, g, h, back
<1>5. Resample(y, x, from, h) = Resample(y, back, from, g)
  BY <1>1, <1>2, <1>3, <1>4, GridIsMirrored
<1> QED BY <1>5 DEF PatchAt, y, x, g, h, back

IsHigher(t, v, side, dim) == \A p \in 1..((side * side + 1) * dim) : t[p] = v[p] + 1
IsTouched(t, v, side, dim, at) == \A p \in 1..((side * side + 1) * dim) : p # at => t[p] = v[p]

LEMMA PatchRaised ==
  ASSUME NEW from \in Nat \ {0}, NEW to \in Nat \ {0}, NEW dim \in Nat \ {0}, NEW v \in Values(from, dim), NEW corners \in BOOLEAN,
         NEW t \in Values(from, dim), IsHigher(t, v, from, dim),
         NEW r \in 0..(to - 1), NEW c \in 0..(to - 1), NEW d \in 1..dim
  PROVE  PatchAt(t, dim, from, to, r, c, d, corners) = PatchAt(v, dim, from, to, r, c, d, corners) + Scale(from, to, corners)
<1> DEFINE y == SourceIndex(from, to, r, corners)
           x == SourceIndex(from, to, c, corners)
           g == GridOf(v, from, dim, d)
           h == GridOf(t, from, dim, d)
<1>1. Position(y, from) /\ Position(x, from)
  BY PositionsAreNear
<1>2. x.den = SourceIndex(from, to, 0, corners).den /\ y.den = SourceIndex(from, to, 0, corners).den
  BY PositionsAreNear
<1>3. g \in Grids(from) /\ h \in Grids(from)
  BY GridIsAGrid
<1>4. GridHigher(h, g, from)
  <2>1. \A r2, c2 \in 0..(from - 1) : Place(from, dim, r2, c2, d) \in 1..((from * from + 1) * dim)
    BY PlaceParts
  <2> QED BY <2>1 DEF GridHigher, GridOf, IsHigher
<1>5. Scale(from, to, corners) = 16 * (x.den * x.den * x.den) * (x.den * x.den * x.den)
  BY <1>2, Zenon DEF Scale
<1> HIDE DEF y, x, g, h
<1>6. Resample(y, x, from, h) = Resample(y, x, from, g) + 16 * (x.den * x.den * x.den) * (x.den * x.den * x.den)
  <2>1. x.den = y.den
    BY <1>2, Zenon
  <2> QED BY <1>1, <1>3, <1>4, <2>1, GridIsRaised
<1> QED BY <1>5, <1>6, Zenon DEF PatchAt, y, x, g, h

LEMMA PlacesDiffer ==
  ASSUME NEW side \in Nat \ {0}, NEW dim \in Nat \ {0}, NEW d \in 1..dim, NEW r \in 0..(side - 1), NEW c \in 0..(side - 1),
         NEW s \in 0..(side - 1), NEW u \in 0..(side - 1), ~(r = s /\ c = u)
  PROVE  Place(side, dim, r, c, d) # Place(side, dim, s, u, d)
<1> DEFINE p == Place(side, dim, r, c, d)
           q == Place(side, dim, s, u, d)
<1>1. ((p - 1) \div dim - 1) \div side = r /\ ((p - 1) \div dim - 1) % side = c
  BY PlaceParts
<1>2. ((q - 1) \div dim - 1) \div side = s /\ ((q - 1) \div dim - 1) % side = u
  BY PlaceParts
<1> HIDE DEF p, q
<1>3. p # q
  BY <1>1, <1>2
<1> QED BY <1>3 DEF p, q

LEMMA PatchTouched ==
  ASSUME NEW from \in Nat \ {0}, NEW to \in Nat \ {0}, NEW dim \in Nat \ {0}, NEW v \in Values(from, dim), NEW corners \in BOOLEAN,
         NEW s \in 0..(from - 1), NEW u \in 0..(from - 1), NEW d \in 1..dim,
         NEW t \in Values(from, dim),
         IsTouched(t, v, from, dim, Place(from, dim, s, u, d)),
         NEW r \in 0..(to - 1), NEW c \in 0..(to - 1),
         Away(SourceIndex(from, to, r, corners), s) \/ Away(SourceIndex(from, to, c, corners), u)
  PROVE  PatchAt(t, dim, from, to, r, c, d, corners) = PatchAt(v, dim, from, to, r, c, d, corners)
<1> DEFINE y == SourceIndex(from, to, r, corners)
           x == SourceIndex(from, to, c, corners)
           g == GridOf(v, from, dim, d)
           h == GridOf(t, from, dim, d)
<1>1. Position(y, from) /\ Position(x, from)
  BY PositionsAreNear
<1>2. g \in Grids(from) /\ h \in Grids(from)
  BY GridIsAGrid
<1>3. GridTouched(h, g, from, s, u)
  <2>1. ASSUME NEW r2 \in 0..(from - 1), NEW c2 \in 0..(from - 1), ~(r2 = s /\ c2 = u)
        PROVE  h[r2][c2] = g[r2][c2]
    <3> DEFINE p == Place(from, dim, r2, c2, d)
               q == Place(from, dim, s, u, d)
    <3>0. h[r2][c2] = t[p] /\ g[r2][c2] = v[p]
      BY DEF GridOf
    <3> HIDE DEF y, x, g, h
    <3>1. p \in 1..((from * from + 1) * dim)
      BY PlaceParts
    <3>2. p # q
      BY <2>1, PlacesDiffer
    <3> HIDE DEF p
    <3>5. t[p] = v[p]
      BY <3>1, <3>2 DEF IsTouched, q
    <3> QED BY <3>0, <3>5
  <2> HIDE DEF g, h
  <2> QED BY <2>1 DEF GridTouched
<1>4. Away(y, s) \/ Away(x, u)
  OBVIOUS
<1> HIDE DEF y, x, g, h
<1>5. Resample(y, x, from, h) = Resample(y, x, from, g)
  BY <1>1, <1>2, <1>3, <1>4, GridIsLocal
<1> QED BY <1>5 DEF PatchAt, y, x, g, h

LEMMA PatchKept ==
  ASSUME NEW side \in Nat \ {0}, NEW dim \in Nat \ {0}, NEW v \in Values(side, dim), NEW corners \in BOOLEAN,
         NEW r \in 0..(side - 1), NEW c \in 0..(side - 1), NEW d \in 1..dim
  PROVE  PatchAt(v, dim, side, side, r, c, d, corners) = Scale(side, side, corners) * v[Place(side, dim, r, c, d)]
<1> DEFINE y == SourceIndex(side, side, r, corners)
           x == SourceIndex(side, side, c, corners)
           g == GridOf(v, side, dim, d)
<1>1. Position(y, side) /\ Rest(y) = 0 /\ Quotient(y) = r /\ Position(x, side) /\ Rest(x) = 0 /\ Quotient(x) = c
  BY SamePosition
<1>2. x.den = SourceIndex(side, side, 0, corners).den /\ y.den = SourceIndex(side, side, 0, corners).den
  BY PositionsAreNear
<1>3. g \in Grids(side) /\ g[r][c] = v[Place(side, dim, r, c, d)]
  BY GridIsAGrid DEF GridOf
<1>4. Scale(side, side, corners) = 16 * (x.den * x.den * x.den) * (x.den * x.den * x.den)
  BY <1>2, Zenon DEF Scale
<1> HIDE DEF y, x, g
<1>5. Resample(y, x, side, g) = 16 * (x.den * x.den * x.den) * (x.den * x.den * x.den) * g[r][c]
  <2>1. x.den = y.den
    BY <1>2, Zenon
  <2> QED BY <1>1, <1>3, <2>1, GridAtPatch
<1> QED BY <1>3, <1>4, <1>5, Zenon DEF PatchAt, y, x, g
-----------------------------------------------------------------------------
(* The answer to a changed embedding. *)

LEMMA AgainOf ==
  ASSUME NEW n \in Nat, NEW m \in Nat, SquareSide(n) # 0, SquareSide(m) # 0, n # m, NEW dim \in Nat \ {0}, NEW corners \in BOOLEAN,
         NEW v, NEW w \in Values(SquareSide(n), dim)
  PROVE  Again(Embedding(n, dim, v), w, m, corners) = Resampling(w, dim, SquareSide(n), SquareSide(m), corners)
<1>1. [Embedding(n, dim, v) EXCEPT !.values = w] = Embedding(n, dim, w)
  BY EmbeddingChanged
<1>2. InterpolatePosEmbed(Embedding(n, dim, w), m, corners)
        = Answer(m, dim, Resampling(w, dim, SquareSide(n), SquareSide(m), corners), Scale(SquareSide(n), SquareSide(m), corners))
  BY AnswerOf
<1>3. \A a, b : Answer(m, dim, a, b).values = a
  BY DEF Answer
<1>4. Again(Embedding(n, dim, v), w, m, corners) = InterpolatePosEmbed(Embedding(n, dim, w), m, corners).values
  BY <1>1, Zenon DEF Again
<1> QED BY <1>2, <1>3, <1>4, Zenon

LEMMA AgainSame ==
  ASSUME NEW n \in Nat, SquareSide(n) # 0, NEW dim, NEW corners, NEW v, NEW w
  PROVE  Again(Embedding(n, dim, v), w, n, corners) = w
<1>1. [Embedding(n, dim, v) EXCEPT !.values = w] = Embedding(n, dim, w)
  BY EmbeddingChanged
<1>2. InterpolatePosEmbed(Embedding(n, dim, w), n, corners) = Answer(n, dim, w, 1)
  BY SameAnswer
<1>3. Answer(n, dim, w, 1).values = w
  BY DEF Answer
<1>4. Again(Embedding(n, dim, v), w, n, corners) = InterpolatePosEmbed(Embedding(n, dim, w), n, corners).values
  BY <1>1, Zenon DEF Again
<1> QED BY <1>2, <1>3, <1>4, Zenon

LEMMA RaisedAt ==
  ASSUME NEW side \in Nat \ {0}, NEW dim \in Nat \ {0}, NEW v \in Values(side, dim), NEW e, e.values = v, NEW by \in Int
  PROVE  /\ Raised(e, by) \in Values(side, dim)
         /\ \A p \in 1..((side * side + 1) * dim) : Raised(e, by)[p] = v[p] + by
<1> DEFINE D == 1..((side * side + 1) * dim)
<1>1. v \in [D -> Int]
  BY DEF Values
<1>2. Raised(e, by) = [p \in D |-> v[p] + by]
  BY <1>1, Zenon DEF Raised
<1>3. Values(side, dim) = [D -> Int]
  BY DEF Values
<1> HIDE DEF D
<1>4. Raised(e, by) \in [D -> Int] /\ \A p \in D : Raised(e, by)[p] = v[p] + by
  BY <1>1, <1>2
<1> QED BY <1>3, <1>4 DEF D

LEMMA TouchedAt ==
  ASSUME NEW side \in Nat \ {0}, NEW dim \in Nat \ {0}, NEW v \in Values(side, dim), NEW e, e.values = v, e.dim = dim, NEW patch \in Int
  PROVE  /\ Touched(e, patch) \in Values(side, dim)
         /\ IsTouched(Touched(e, patch), v, side, dim, (patch + 1) * dim + 1)
<1> DEFINE D == 1..((side * side + 1) * dim)
           at == (patch + 1) * dim + 1
<1>1. v \in [D -> Int]
  BY DEF Values
<1>2. Touched(e, patch) = [p \in D |-> v[p] + (IF p = at THEN 1 ELSE 0)]
  BY <1>1, Zenon DEF Touched
<1>3. Values(side, dim) = [D -> Int]
  BY DEF Values
<1> HIDE DEF D, at
<1>4. \A p \in D : v[p] \in Int
  BY <1>1
<1>5. Touched(e, patch) \in [D -> Int] /\ \A p \in D : p # at => Touched(e, patch)[p] = v[p]
  BY <1>2, <1>4
<1> QED BY <1>3, <1>5, Zenon DEF IsTouched, D, at

-----------------------------------------------------------------------------
(* Another grid. *)

LEMMA TransposedAnswer ==
  ASSUME NEW from \in Nat \ {0}, NEW to \in Nat \ {0}, NEW dim \in Nat \ {0}, NEW v \in Values(from, dim), NEW corners \in BOOLEAN,
         NEW t \in Values(from, dim), TransposedValues(v, from, dim, t),
         NEW e, e.values = Resampling(v, dim, from, to, corners), e.dim = dim
  PROVE  Resampling(t, dim, from, to, corners) = Transposed(e, to)
<1> DEFINE a == Resampling(v, dim, from, to, corners)
           f == Resampling(t, dim, from, to, corners)
           g == Transposed(e, to)
<1>1. a \in Values(to, dim) /\ HasValues(a, v, dim, from, to, corners) /\ f \in Values(to, dim) /\ HasValues(f, t, dim, from, to, corners)
  BY ResampledIsWhole, ResampledAt
<1>2. e.values = a
  OBVIOUS
<1> HIDE DEF a, f
<1>3. g \in Values(to, dim) /\ TransposedValues(a, to, dim, g)
  BY <1>1, <1>2, ChangesOf
<1> HIDE DEF g
<1>4. \A p \in 1..dim : f[p] = g[p]
  BY <1>1, <1>3 DEF HasValues, TransposedValues
<1>5. ASSUME NEW r \in 0..(to - 1), NEW c \in 0..(to - 1), NEW d \in 1..dim
      PROVE  f[Place(to, dim, r, c, d)] = g[Place(to, dim, r, c, d)]
  <2>1. f[Place(to, dim, r, c, d)] = PatchAt(t, dim, from, to, r, c, d, corners)
    BY <1>1 DEF HasValues
  <2>2. g[Place(to, dim, r, c, d)] = PatchAt(v, dim, from, to, c, r, d, corners)
    BY <1>1, <1>3 DEF HasValues, TransposedValues
  <2>3. PatchAt(t, dim, from, to, r, c, d, corners) = PatchAt(v, dim, from, to, c, r, d, corners)
    BY PatchTransposed
  <2> QED BY <2>1, <2>2, <2>3, Zenon
<1>6. SameValues(f, g, to, dim)
  BY <1>4, <1>5 DEF SameValues
<1>7. f = g
  BY <1>1, <1>3, <1>6, EqualValues
<1> QED BY <1>7 DEF f, g

LEMMA MirroredAnswer ==
  ASSUME NEW from \in Nat \ {0}, NEW to \in Nat \ {0}, NEW dim \in Nat \ {0}, NEW v \in Values(from, dim), NEW corners \in BOOLEAN,
         NEW t \in Values(from, dim), MirroredValues(v, from, dim, t), ~(corners /\ to = 1),
         NEW e, e.values = Resampling(v, dim, from, to, corners), e.dim = dim
  PROVE  Resampling(t, dim, from, to, corners) = Mirrored(e, to)
<1> DEFINE a == Resampling(v, dim, from, to, corners)
           f == Resampling(t, dim, from, to, corners)
           g == Mirrored(e, to)
<1>1. a \in Values(to, dim) /\ HasValues(a, v, dim, from, to, corners) /\ f \in Values(to, dim) /\ HasValues(f, t, dim, from, to, corners)
  BY ResampledIsWhole, ResampledAt
<1>2. e.values = a
  OBVIOUS
<1> HIDE DEF a, f
<1>3. g \in Values(to, dim) /\ MirroredValues(a, to, dim, g)
  BY <1>1, <1>2, ChangesOf
<1> HIDE DEF g
<1>4. \A p \in 1..dim : f[p] = g[p]
  BY <1>1, <1>3 DEF HasValues, MirroredValues
<1>5. ASSUME NEW r \in 0..(to - 1), NEW c \in 0..(to - 1), NEW d \in 1..dim
      PROVE  f[Place(to, dim, r, c, d)] = g[Place(to, dim, r, c, d)]
  <2>1. f[Place(to, dim, r, c, d)] = PatchAt(t, dim, from, to, r, c, d, corners)
    BY <1>1 DEF HasValues
  <2>2. g[Place(to, dim, r, c, d)] = PatchAt(v, dim, from, to, r, to - 1 - c, d, corners)
    <3>1. to - 1 - c \in 0..(to - 1)
      OBVIOUS
    <3>2. g[Place(to, dim, r, c, d)] = a[Place(to, dim, r, to - 1 - c, d)]
      BY <1>3 DEF MirroredValues
    <3>3. a[Place(to, dim, r, to - 1 - c, d)] = PatchAt(v, dim, from, to, r, to - 1 - c, d, corners)
      BY <1>1, <3>1 DEF HasValues
    <3> QED BY <3>2, <3>3, Zenon
  <2>3. PatchAt(t, dim, from, to, r, c, d, corners) = PatchAt(v, dim, from, to, r, to - 1 - c, d, corners)
    BY PatchMirrored
  <2> QED BY <2>1, <2>2, <2>3, Zenon
<1>6. SameValues(f, g, to, dim)
  BY <1>4, <1>5 DEF SameValues
<1>7. f = g
  BY <1>1, <1>3, <1>6, EqualValues
<1> QED BY <1>7 DEF f, g

LEMMA RaisedAnswer ==
  ASSUME NEW from \in Nat \ {0}, NEW to \in Nat \ {0}, NEW dim \in Nat \ {0}, NEW v \in Values(from, dim), NEW corners \in BOOLEAN,
         NEW t \in Values(from, dim), IsHigher(t, v, from, dim),
         NEW e, e.values = Resampling(v, dim, from, to, corners)
  PROVE  Resampling(t, dim, from, to, corners) = Raised(e, Scale(from, to, corners))
<1> DEFINE a == Resampling(v, dim, from, to, corners)
           f == Resampling(t, dim, from, to, corners)
           by == Scale(from, to, corners)
           g == Raised(e, by)
           D == 1..((to * to + 1) * dim)
<1>1. a \in Values(to, dim) /\ HasValues(a, v, dim, from, to, corners) /\ f \in Values(to, dim) /\ HasValues(f, t, dim, from, to, corners)
  <2>1. a \in Values(to, dim) /\ f \in Values(to, dim)
    BY ResampledIsWhole
  <2>2. HasValues(a, v, dim, from, to, corners) /\ HasValues(f, t, dim, from, to, corners)
    BY ResampledAt
  <2> HIDE DEF a, f
  <2> QED BY <2>1, <2>2
<1>2. e.values = a /\ by \in Int
  BY ScaleIsWhole
<1> HIDE DEF a, f, by
<1>3. g \in Values(to, dim) /\ \A p \in D : g[p] = a[p] + by
  BY <1>1, <1>2, RaisedAt
<1> HIDE DEF g
<1>4. ASSUME NEW p \in 1..dim PROVE f[p] = g[p]
  <2>1. p \in D /\ p \in 1..((from * from + 1) * dim)
    BY to * to \in Nat, from * from \in Nat, FirstPlaces
  <2>2. v[p] \in Int /\ t[p] = v[p] + 1
    BY <2>1 DEF Values, IsHigher
  <2>3. f[p] = t[p] * by /\ a[p] = v[p] * by
    BY <1>1 DEF HasValues, by
  <2>4. (v[p] + 1) * by = v[p] * by + by
    BY <1>2, <2>2
  <2>5. g[p] = a[p] + by
    BY <1>3, <2>1
  <2> QED BY <2>2, <2>3, <2>4, <2>5, Zenon
<1>5. ASSUME NEW r \in 0..(to - 1), NEW c \in 0..(to - 1), NEW d \in 1..dim
      PROVE  f[Place(to, dim, r, c, d)] = g[Place(to, dim, r, c, d)]
  <2>1. f[Place(to, dim, r, c, d)] = PatchAt(t, dim, from, to, r, c, d, corners)
    BY <1>1 DEF HasValues
  <2>2. g[Place(to, dim, r, c, d)] = PatchAt(v, dim, from, to, r, c, d, corners) + by
    <3>1. Place(to, dim, r, c, d) \in D
      BY PlaceParts
    <3>2. a[Place(to, dim, r, c, d)] = PatchAt(v, dim, from, to, r, c, d, corners)
      BY <1>1 DEF HasValues
    <3> HIDE DEF D
    <3> QED BY <1>3, <3>1, <3>2, Zenon
  <2>3. PatchAt(t, dim, from, to, r, c, d, corners) = PatchAt(v, dim, from, to, r, c, d, corners) + by
    BY PatchRaised DEF by
  <2> QED BY <2>1, <2>2, <2>3, Zenon
<1>6. SameValues(f, g, to, dim)
  BY <1>4, <1>5 DEF SameValues
<1>7. f = g
  BY <1>1, <1>3, <1>6, EqualValues
<1> QED BY <1>7 DEF f, g, by
-----------------------------------------------------------------------------
(* The parts of PositionsAreInterpolated. *)

\* The shape of every embedding met below.
Shape(n, from, dim, v) == n \in Nat /\ from = SquareSide(n) /\ from \in Nat \ {0} /\ from * from = n /\ dim \in Nat \ {0} /\ v \in Values(from, dim)

LEMMA PatchPlace ==
  ASSUME NEW n \in Nat, NEW side \in Nat \ {0}, side * side = n, NEW dim \in Nat \ {0}, NEW patch \in 0..(n - 1)
  PROVE  /\ patch \div side \in 0..(side - 1) /\ patch % side \in 0..(side - 1)
         /\ (patch + 1) * dim + 1 = Place(side, dim, patch \div side, patch % side, 1)
<1> DEFINE q == patch \div side
           r == patch % side
<1>1. q \in Int /\ 0 <= q /\ q < side
  BY RowOf
<1>2. q \in Int /\ r \in 0..(side - 1) /\ patch = q * side + r
  BY Divided
<1> HIDE DEF q, r
<1>3. q \in 0..(side - 1)
  BY <1>1
<1>4. (patch + 1) * dim + 1 = Place(side, dim, q, r, 1)
  BY <1>2 DEF Place
<1> QED BY <1>2, <1>3, <1>4 DEF q, r

LEMMA ResampledWell ==
  ASSUME NEW n, NEW from, NEW dim, NEW v, Shape(n, from, dim, v), NEW m \in Nat, NEW to, to = SquareSide(m), to # 0, n # m,
         NEW corners \in BOOLEAN
  PROVE  LET pos == Embedding(n, dim, v) answer == InterpolatePosEmbed(pos, m, corners)
         IN  /\ HasEveryPatch(pos, m, answer) /\ TurnsWithTheGrid(pos, m, corners, answer)
             /\ RisesWithTheGrid(pos, m, corners, answer) /\ StaysLocal(pos, m, corners, answer)
<1> DEFINE pos == Embedding(n, dim, v)
           answer == InterpolatePosEmbed(pos, m, corners)
           a == Resampling(v, dim, from, to, corners)
           scale == Scale(from, to, corners)
<1>1. /\ n \in Nat /\ from = SquareSide(n) /\ from \in Nat \ {0} /\ from * from = n /\ dim \in Nat \ {0} /\ v \in Values(from, dim)
      /\ SquareSide(n) # 0
  BY DEF Shape
<1>2. to \in Nat \ {0} /\ to * to = m
  BY SideOfSquare
<1>3. answer = Answer(m, dim, a, scale)
  BY <1>1, AnswerOf
<1>4. answer.values = a /\ answer.dim = dim /\ answer.scale = scale /\ answer.n_patch = m
  <2> HIDE DEF answer, a, scale
  <2> QED BY <1>3 DEF Answer
<1>5. pos.values = v /\ pos.dim = dim /\ pos.n_patch = n
  BY DEF Embedding
<1>6. a \in Values(to, dim) /\ HasValues(a, v, dim, from, to, corners)
  <2> HIDE DEF pos, answer, scale
  <2>1. a \in Values(to, dim)
    BY <1>1, <1>2, ResampledIsWhole
  <2>2. HasValues(a, v, dim, from, to, corners)
    BY <1>1, <1>2, ResampledAt
  <2> QED BY <2>1, <2>2
<1>7. ASSUME NEW w \in Values(from, dim)
      PROVE  Again(pos, w, m, corners) = Resampling(w, dim, from, to, corners)
  BY <1>1, AgainOf
<1> HIDE DEF pos, answer, a
<1>8. HasEveryPatch(pos, m, answer)
  <2>1. Len(a) = (m + 1) * dim
    <3> DEFINE most == (m + 1) * dim
    <3>1. most \in Nat
      BY <1>1, FirstPlaces
    <3>2. a \in [1..most -> Int]
      BY <1>2, <1>6, Zenon DEF Values
    <3> HIDE DEF most
    <3>3. Len(a) = most
      BY <3>1, <3>2
    <3> QED BY <3>3 DEF most
  <2>2. ASSUME NEW p \in 1..dim PROVE a[p] = scale * v[p]
    <3>1. p \in 1..((from * from + 1) * dim)
      BY <1>1, FirstPlaces
    <3>2. v[p] \in Int /\ scale \in Int
      BY <1>1, <1>2, <3>1, ScaleIsWhole DEF Values
    <3>3. a[p] = v[p] * scale
      BY <1>6 DEF HasValues
    <3> HIDE DEF scale
    <3> QED BY <3>2, <3>3
  <2> QED BY <1>4, <1>5, <2>1, <2>2 DEF HasEveryPatch
<1>9. TurnsWithTheGrid(pos, m, corners, answer)
  <2>1. /\ Transposed(pos, from) \in Values(from, dim) /\ TransposedValues(v, from, dim, Transposed(pos, from))
        /\ Mirrored(pos, from) \in Values(from, dim) /\ MirroredValues(v, from, dim, Mirrored(pos, from))
    BY <1>1, <1>5, ChangesOf
  <2>2. answer.values = Resampling(v, dim, from, to, corners)
    BY <1>4 DEF a
  <2>3. Resampling(Transposed(pos, from), dim, from, to, corners) = Transposed(answer, to)
    BY <1>1, <1>2, <1>4, <2>1, <2>2, TransposedAnswer
  <2>4. (corners /\ to = 1) \/ Resampling(Mirrored(pos, from), dim, from, to, corners) = Mirrored(answer, to)
    BY <1>1, <1>2, <1>4, <2>1, <2>2, MirroredAnswer
  <2>5. /\ Again(pos, Transposed(pos, from), m, corners) = Transposed(answer, to)
        /\ (corners /\ to = 1) \/ Again(pos, Mirrored(pos, from), m, corners) = Mirrored(answer, to)
    BY <1>7, <2>1, <2>3, <2>4
  <2> QED BY <1>1, <1>5, <2>5, Zenon DEF TurnsWithTheGrid
<1>10. RisesWithTheGrid(pos, m, corners, answer)
  <2> DEFINE t == Raised(pos, 1)
  <2>1. t \in Values(from, dim) /\ IsHigher(t, v, from, dim)
    BY <1>1, <1>5, RaisedAt DEF IsHigher
  <2> HIDE DEF t
  <2>2. answer.values = Resampling(v, dim, from, to, corners)
    BY <1>4 DEF a
  <2>3. Resampling(t, dim, from, to, corners) = Raised(answer, scale)
    BY <1>1, <1>2, <2>1, <2>2, RaisedAnswer
  <2>4. Again(pos, t, m, corners) = Raised(answer, answer.scale)
    BY <1>4, <1>7, <2>1, <2>3, Zenon
  <2> QED BY <2>4 DEF RisesWithTheGrid, t
<1>11. StaysLocal(pos, m, corners, answer)
  <2> SUFFICES ASSUME NEW touched \in 0..n - 1, NEW patch \in 0..m - 1, TooFar(pos, touched, m, patch, corners)
               PROVE  Again(pos, Touched(pos, touched), m, corners)[(patch + 1) * dim + 1] = answer.values[(patch + 1) * dim + 1]
    BY <1>5, Zenon DEF StaysLocal
  <2> DEFINE t == Touched(pos, touched)
             s == touched \div from
             u == touched % from
             r == patch \div to
             c == patch % to
             y == SourceIndex(from, to, r, corners)
             x == SourceIndex(from, to, c, corners)
  <2>1. s \in 0..(from - 1) /\ u \in 0..(from - 1) /\ (touched + 1) * dim + 1 = Place(from, dim, s, u, 1)
    BY <1>1, PatchPlace
  <2>2. r \in 0..(to - 1) /\ c \in 0..(to - 1) /\ (patch + 1) * dim + 1 = Place(to, dim, r, c, 1)
    <3> HIDE DEF y, x, t, s, u
    <3>1. m \in Nat /\ to \in Nat \ {0} /\ to * to = m /\ dim \in Nat \ {0} /\ patch \in 0..(m - 1)
      BY <1>1, <1>2
    <3>2. r \in 0..(to - 1) /\ c \in 0..(to - 1)
      BY <3>1, PatchPlace
    <3>3. (patch + 1) * dim + 1 = Place(to, dim, r, c, 1)
      BY <3>1, PatchPlace
    <3> QED BY <3>2, <3>3
  <2>3. t \in Values(from, dim) /\ IsTouched(t, v, from, dim, (touched + 1) * dim + 1)
    <3>1. touched \in Int
      BY <1>1
    <3> HIDE DEF y, x
    <3> QED BY <1>1, <1>5, <3>1, TouchedAt
  <2>4. Away(y, s) \/ Away(x, u)
    BY <1>1, <1>5, Zenon DEF TooFar, Away
  <2> HIDE DEF t, s, u, r, c
  <2>5. PatchAt(t, dim, from, to, r, c, 1, corners) = PatchAt(v, dim, from, to, r, c, 1, corners)
    <3>1. 1 \in 1..dim
      BY <1>1
    <3>2. IsTouched(t, v, from, dim, Place(from, dim, s, u, 1))
      BY <2>1, <2>3, Zenon
    <3>3. from \in Nat \ {0} /\ to \in Nat \ {0} /\ dim \in Nat \ {0} /\ v \in Values(from, dim) /\ t \in Values(from, dim)
      BY <1>1, <1>2, <2>3
    <3>4. s \in 0..(from - 1) /\ u \in 0..(from - 1) /\ r \in 0..(to - 1) /\ c \in 0..(to - 1)
      BY <2>1, <2>2
    <3> QED BY <2>4, <3>1, <3>2, <3>3, <3>4, PatchTouched
  <2>6. HasValues(Resampling(t, dim, from, to, corners), t, dim, from, to, corners)
    BY <1>1, <1>2, <2>3, ResampledAt
  <2>7. /\ Resampling(t, dim, from, to, corners)[Place(to, dim, r, c, 1)] = PatchAt(t, dim, from, to, r, c, 1, corners)
        /\ a[Place(to, dim, r, c, 1)] = PatchAt(v, dim, from, to, r, c, 1, corners)
    <3>1. 1 \in 1..dim
      BY <1>1
    <3> HIDE DEF y, x
    <3> QED BY <1>6, <2>2, <2>6, <3>1 DEF HasValues
  <2>8. Again(pos, t, m, corners) = Resampling(t, dim, from, to, corners)
    BY <1>7, <2>3
  <2>9. Again(pos, t, m, corners)[Place(to, dim, r, c, 1)] = answer.values[Place(to, dim, r, c, 1)]
    BY <1>4, <2>5, <2>7, <2>8, Zenon
  <2> QED BY <2>2, <2>9, Zenon DEF t
<1> QED BY <1>8, <1>9, <1>10, <1>11 DEF pos, answer
LEMMA ShortCutHolds ==
  ASSUME NEW n, NEW from, NEW dim, NEW v, Shape(n, from, dim, v), NEW corners \in BOOLEAN
  PROVE  ShortCutIsExact(Embedding(n, dim, v), n, corners)
<1> DEFINE pos == Embedding(n, dim, v)
<1>1. n \in Nat /\ from = SquareSide(n) /\ from \in Nat \ {0} /\ dim \in Nat \ {0} /\ v \in Values(from, dim)
  BY DEF Shape
<1>2. pos.dim = dim /\ pos.values = v
  BY DEF Embedding
<1>3. ASSUME NEW y \in 0..from - 1, NEW x \in 0..from - 1, NEW d \in 1..dim
      PROVE  InterpolatePatch(pos, from, from, y, x, d, corners) = Scale(from, from, corners) * PatchValue(pos, from, y, x, d)
  <2>1. InterpolatePatch(pos, from, from, y, x, d, corners) = PatchAt(v, dim, from, from, y, x, d, corners)
    BY PatchByGrid DEF PatchAt
  <2>2. PatchAt(v, dim, from, from, y, x, d, corners) = Scale(from, from, corners) * v[Place(from, dim, y, x, d)]
    BY <1>1, PatchKept
  <2>3. PatchValue(pos, from, y, x, d) = v[Place(from, dim, y, x, d)]
    BY <1>2, Zenon DEF PatchValue, Place
  <2> QED BY <2>1, <2>2, <2>3, Zenon
<1> HIDE DEF pos
<1> QED BY <1>1, <1>2, <1>3 DEF ShortCutIsExact, pos

LEMMA KeptWell ==
  ASSUME NEW n, NEW from, NEW dim, NEW v, Shape(n, from, dim, v), NEW corners \in BOOLEAN
  PROVE  LET pos == Embedding(n, dim, v) answer == InterpolatePosEmbed(pos, n, corners)
         IN  /\ HasEveryPatch(pos, n, answer) /\ TurnsWithTheGrid(pos, n, corners, answer)
             /\ RisesWithTheGrid(pos, n, corners, answer) /\ StaysLocal(pos, n, corners, answer)
<1> DEFINE pos == Embedding(n, dim, v)
           answer == InterpolatePosEmbed(pos, n, corners)
<1>1. n \in Nat /\ from = SquareSide(n) /\ from \in Nat \ {0} /\ from * from = n /\ dim \in Nat \ {0} /\ v \in Values(from, dim) /\ SquareSide(n) # 0
  BY DEF Shape
<1>2. answer = Answer(n, dim, v, 1)
  BY <1>1, SameAnswer
<1>3. answer.values = v /\ answer.dim = dim /\ answer.scale = 1
  <2> HIDE DEF answer
  <2> QED BY <1>2 DEF Answer
<1>4. pos.values = v /\ pos.dim = dim /\ pos.n_patch = n
  BY DEF Embedding
<1>5. \A w : Again(pos, w, n, corners) = w
  BY <1>1, AgainSame
<1> HIDE DEF pos, answer
<1>6. HasEveryPatch(pos, n, answer)
  <2>1. Len(v) = (n + 1) * dim
    <3> DEFINE most == (n + 1) * dim
    <3>1. most \in Nat
      BY <1>1, FirstPlaces
    <3>2. v \in [1..most -> Int]
      BY <1>1, Zenon DEF Values
    <3> HIDE DEF most
    <3>3. Len(v) = most
      BY <3>1, <3>2
    <3> QED BY <3>3 DEF most
  <2>2. ASSUME NEW p \in 1..dim PROVE v[p] = 1 * v[p]
    <3>1. p \in 1..((from * from + 1) * dim)
      BY <1>1, FirstPlaces
    <3>2. v[p] \in Int
      BY <1>1, <3>1 DEF Values
    <3> QED BY <3>2
  <2> QED BY <1>3, <1>4, <2>1, <2>2 DEF HasEveryPatch
<1>7. Transposed(pos, from) = Transposed(answer, from) /\ Mirrored(pos, from) = Mirrored(answer, from)
  BY <1>3, <1>4, Zenon DEF Transposed, Mirrored, PatchValue, PatchRow, PatchColumn, Feature
<1>8. TurnsWithTheGrid(pos, n, corners, answer)
  BY <1>1, <1>4, <1>5, <1>7, Zenon DEF TurnsWithTheGrid
<1>9. RisesWithTheGrid(pos, n, corners, answer)
  <2>1. Raised(pos, 1) = Raised(answer, 1)
    BY <1>3, <1>4, Zenon DEF Raised
  <2> QED BY <1>3, <1>5, <2>1, Zenon DEF RisesWithTheGrid
<1>10. StaysLocal(pos, n, corners, answer)
  BY <1>4, Zenon DEF StaysLocal
<1> QED BY <1>6, <1>8, <1>9, <1>10 DEF pos, answer

LEMMA AnswerIsGood ==
  ASSUME NEW pos, IsEmbedding(pos), pos # Invalid, NEW n \in Nat, NEW corners \in BOOLEAN,
         InterpolatePosEmbed(pos, n, corners) # Invalid
  PROVE  LET answer == InterpolatePosEmbed(pos, n, corners)
         IN  /\ HasEveryPatch(pos, n, answer) /\ TurnsWithTheGrid(pos, n, corners, answer)
             /\ RisesWithTheGrid(pos, n, corners, answer) /\ StaysLocal(pos, n, corners, answer)
             /\ ShortCutIsExact(pos, n, corners)
<1> DEFINE side == SquareSide(pos.n_patch)
           m == pos.n_patch
           dim == pos.dim
           v == pos.values
<1>1. pos = Embedding(m, dim, v) /\ Shape(m, side, dim, v)
  BY EmbeddingParts DEF Shape
<1>2. SquareSide(n) # 0
  BY Zenon DEF InterpolatePosEmbed
<1> HIDE DEF side, m, dim, v
<1>3. CASE n = m
  BY <1>1, <1>3, KeptWell, ShortCutHolds
<1>4. CASE n # m
  <2>1. ShortCutIsExact(pos, n, corners)
    BY <1>4 DEF ShortCutIsExact, m
  <2> QED BY <1>1, <1>2, <1>4, <2>1, ResampledWell
<1> QED BY <1>3, <1>4

-----------------------------------------------------------------------------
(* Causal masks. *)

LEMMA MaskIsCausal ==
  ASSUME NEW len \in Nat \ {0}
  PROVE  LET values == BuildCausalMaskValues(len)
         IN  /\ Len(values) = len * len
             /\ \A row, col \in 0..len - 1 : values[row * len + col + 1] = (col > row)
<1> DEFINE values == BuildCausalMaskValues(len)
           most == len * len
<1>1. most \in Nat
  OBVIOUS
<1>2. values = [k \in 1..most |-> (k - 1) % len > (k - 1) \div len]
  BY DEF BuildCausalMaskValues
<1> HIDE DEF values
<1>3. Len(values) = most
  <2> HIDE DEF most
  <2>1. \A k \in 1..most : values[k] \in BOOLEAN
    BY <1>2
  <2>2. values \in [1..most -> BOOLEAN]
    BY <1>2, <2>1
  <2> QED BY <1>1, <2>2
<1>4. ASSUME NEW row \in 0..len - 1, NEW col \in 0..len - 1 PROVE values[row * len + col + 1] = (col > row)
  <2> DEFINE a == row * len + col
  <2>1. row * len \in Int /\ 0 <= row * len /\ row * len <= (len - 1) * len
    BY 0 <= row, row <= len - 1
  <2>2. (len - 1) * len = most - len
    OBVIOUS
  <2>3. a \in Int /\ 0 <= a /\ a + 1 <= most
    BY <1>1, <2>1, <2>2
  <2>4. a \div len = row /\ a % len = col
    BY <2>1, <2>3, DivMod
  <2> HIDE DEF a, most
  <2>5. a + 1 \in 1..most /\ (a + 1) - 1 = a
    BY <1>1, <2>3
  <2>6. values[a + 1] = (a % len > a \div len)
    <3> DEFINE Hides(b) == b % len > b \div len
    <3>1. values = [k \in 1..most |-> Hides(k - 1)]
      BY <1>2
    <3> HIDE DEF Hides
    <3>2. \A k \in 1..most : values[k] = Hides(k - 1)
      BY <3>1, Zenon
    <3> DEFINE k == a + 1
    <3>3. k \in 1..most /\ k - 1 = a
      BY <2>5
    <3> HIDE DEF k
    <3>4. values[k] = Hides(k - 1)
      BY <3>2, <3>3, Zenon
    <3>5. values[a + 1] = Hides(a)
      BY <3>3, <3>4, Zenon DEF k
    <3> QED BY <3>5, Zenon DEF Hides
  <2> QED BY <2>4, <2>6, Zenon DEF a
<1> QED BY <1>3, <1>4 DEF values

-----------------------------------------------------------------------------
(* The tensors stay exact. *)

TensorInv ==
  /\ \/ resampled = Invalid
     \/ \E pos \in PosEmbeddings \ {Invalid}, n \in PatchCounts, corners \in BOOLEAN :
          resampled = [pos |-> pos, n |-> n, corners |-> corners, answer |-> InterpolatePosEmbed(pos, n, corners)]
  /\ \A key \in DOMAIN cache : \E len \in SeqLens \ {0}, device \in Devices : key = <<len, device>> /\ cache[key] = BuildCausalMaskValues(len)
  /\ \/ masked = Invalid
     \/ \E len \in SeqLens \ {0}, device \in Devices : masked = [seq_len |-> len, device |-> device, values |-> BuildCausalMaskValues(len)]

LEMMA TensorInit_Inv == TensorInit => TensorInv
<1> SUFFICES ASSUME TensorInit PROVE TensorInv
  OBVIOUS
<1>1. resampled = Invalid /\ masked = Invalid /\ DOMAIN cache = {}
  BY DEF TensorInit
<1> QED BY <1>1 DEF TensorInv

LEMMA Interpolate_Inv ==
  ASSUME TensorInv, NEW pos \in PosEmbeddings, NEW n \in PatchCounts, NEW corners \in BOOLEAN, pos # Invalid, Interpolate(pos, n, corners)
  PROVE  TensorInv'
<1>1. /\ resampled' = [pos |-> pos, n |-> n, corners |-> corners, answer |-> InterpolatePosEmbed(pos, n, corners)]
      /\ UNCHANGED <<cache, masked>>
  BY DEF Interpolate
<1>2. pos \in PosEmbeddings \ {Invalid}
  OBVIOUS
<1> QED BY <1>1, <1>2, Zenon DEF TensorInv

LEMMA BuildCausalMask_Inv ==
  ASSUME TensorInv, NEW len \in SeqLens, NEW device \in Devices, BuildCausalMask(len, device)
  PROVE  TensorInv'
<1> DEFINE key == <<len, device>>
           Cached(k) == \E l \in SeqLens \ {0}, dev \in Devices : k = <<l, dev>> /\ cache[k] = BuildCausalMaskValues(l)
           CachedNext(k) == \E l \in SeqLens \ {0}, dev \in Devices : k = <<l, dev>> /\ cache'[k] = BuildCausalMaskValues(l)
<1>1. resampled' = resampled
  BY DEF BuildCausalMask
<1>2. \A k \in DOMAIN cache : Cached(k)
  BY DEF TensorInv
<1>3. CASE len = 0
  <2>1. masked' = Invalid /\ cache' = cache
    BY <1>3 DEF BuildCausalMask
  <2> QED BY <1>1, <2>1, Zenon DEF TensorInv
<1>4. CASE len # 0
  <2>1. /\ cache' = [k \in DOMAIN cache \cup {key} |-> IF k \in DOMAIN cache THEN cache[k] ELSE BuildCausalMaskValues(len)]
        /\ masked' = [seq_len |-> len, device |-> device, values |-> cache'[key]]
    BY <1>4, Zenon DEF BuildCausalMask
  <2>2. DOMAIN cache' = DOMAIN cache \cup {key}
    BY <2>1
  <2>3. ASSUME NEW k \in DOMAIN cache' PROVE CachedNext(k)
    <3>1. CASE k \in DOMAIN cache
      <4>1. cache'[k] = cache[k]
        BY <2>1, <2>2, <3>1
      <4> QED BY <1>2, <3>1, <4>1, Zenon
    <3>2. CASE k \notin DOMAIN cache
      <4>1. k = key /\ cache'[k] = BuildCausalMaskValues(len)
        BY <2>1, <2>2, <3>2
      <4>2. len \in SeqLens \ {0}
        BY <1>4
      <4> QED BY <4>1, <4>2, Zenon
    <3> QED BY <3>1, <3>2
  <2>4. cache'[key] = BuildCausalMaskValues(len)
    <3>1. CachedNext(key)
      BY <2>2, <2>3
    <3>2. PICK l \in SeqLens \ {0}, dev \in Devices : key = <<l, dev>> /\ cache'[key] = BuildCausalMaskValues(l)
      BY <3>1
    <3> HIDE DEF CachedNext, Cached
    <3>3. l = len
      BY <3>2
    <3> QED BY <3>2, <3>3, Zenon
  <2>5. \E l \in SeqLens \ {0}, dev \in Devices : masked' = [seq_len |-> l, device |-> dev, values |-> BuildCausalMaskValues(l)]
    <3>1. masked' = [seq_len |-> len, device |-> device, values |-> BuildCausalMaskValues(len)]
      BY <2>1, <2>4, Zenon
    <3>2. len \in SeqLens \ {0}
      BY <1>4
    <3> QED BY <3>1, <3>2, Zenon
  <2>6. \A k \in DOMAIN cache' : CachedNext(k)
    BY <2>3
  <2> QED BY <1>1, <2>5, <2>6, Zenon DEF TensorInv
<1> QED BY <1>3, <1>4

LEMMA TensorInv_Exact == TensorInv => TensorsAreExact
<1> SUFFICES ASSUME TensorInv PROVE TensorsAreExact
  OBVIOUS
<1>1. PositionsAreInterpolated
  <2> SUFFICES ASSUME resampled # Invalid, resampled.answer # Invalid
               PROVE  LET pos == resampled.pos n == resampled.n corners == resampled.corners answer == resampled.answer
                      IN  /\ HasEveryPatch(pos, n, answer) /\ TurnsWithTheGrid(pos, n, corners, answer)
                          /\ RisesWithTheGrid(pos, n, corners, answer) /\ StaysLocal(pos, n, corners, answer)
                          /\ ShortCutIsExact(pos, n, corners)
    BY Zenon DEF PositionsAreInterpolated
  <2>1. PICK pos \in PosEmbeddings \ {Invalid}, n \in PatchCounts, corners \in BOOLEAN :
          resampled = [pos |-> pos, n |-> n, corners |-> corners, answer |-> InterpolatePosEmbed(pos, n, corners)]
    BY Zenon DEF TensorInv
  <2>2. resampled.pos = pos /\ resampled.n = n /\ resampled.corners = corners /\ resampled.answer = InterpolatePosEmbed(pos, n, corners)
    BY <2>1
  <2>3. IsEmbedding(pos) /\ pos # Invalid /\ n \in Nat
    BY TensorAssumption
  <2>4. LET answer == InterpolatePosEmbed(pos, n, corners)
        IN  /\ HasEveryPatch(pos, n, answer) /\ TurnsWithTheGrid(pos, n, corners, answer)
            /\ RisesWithTheGrid(pos, n, corners, answer) /\ StaysLocal(pos, n, corners, answer)
            /\ ShortCutIsExact(pos, n, corners)
    <3>1. InterpolatePosEmbed(pos, n, corners) # Invalid
      BY <2>2, Zenon
    <3> QED BY <2>3, <3>1, AnswerIsGood
  <2> QED BY <2>2, <2>4, Zenon
<1>2. MasksAreCausal
  <2> SUFFICES ASSUME masked # Invalid
               PROVE  \A row, col \in 0..masked.seq_len - 1 :
                        /\ Len(masked.values) = masked.seq_len * masked.seq_len
                        /\ masked.values[row * masked.seq_len + col + 1] = (col > row)
    BY Zenon DEF MasksAreCausal
  <2>1. PICK len \in SeqLens \ {0}, device \in Devices :
          masked = [seq_len |-> len, device |-> device, values |-> BuildCausalMaskValues(len)]
    BY Zenon DEF TensorInv
  <2>2. masked.seq_len = len /\ masked.values = BuildCausalMaskValues(len)
    BY <2>1
  <2>3. len \in Nat \ {0}
    BY TensorAssumption
  <2>4. /\ Len(BuildCausalMaskValues(len)) = len * len
        /\ \A row, col \in 0..len - 1 : BuildCausalMaskValues(len)[row * len + col + 1] = (col > row)
    BY <2>3, MaskIsCausal
  <2> QED BY <2>2, <2>4, Zenon
<1> QED BY <1>1, <1>2 DEF TensorsAreExact

\* Every resampled position embedding and every causal mask, from the cache or
\* not, has at each index the value its definition by row and column gives,
\* for all grids, embeddings and lengths (tensor_ops.rs: interpolate_pos_embed,
\* build_causal_mask).
THEOREM TensorsStayExact == TensorSpec => []TensorsAreExact
<1>1. TensorInit => TensorInv
  BY TensorInit_Inv
<1>2. TensorInv /\ [TensorNext]_tensorVars => TensorInv'
  <2> SUFFICES ASSUME TensorInv, [TensorNext]_tensorVars PROVE TensorInv'
    OBVIOUS
  <2>1. ASSUME NEW pos \in PosEmbeddings, NEW n \in PatchCounts, NEW corners \in BOOLEAN, pos # Invalid, Interpolate(pos, n, corners)
        PROVE  TensorInv'
    BY <2>1, Interpolate_Inv
  <2>2. ASSUME NEW len \in SeqLens, NEW device \in Devices, BuildCausalMask(len, device)
        PROVE  TensorInv'
    BY <2>2, BuildCausalMask_Inv
  <2>3. CASE UNCHANGED tensorVars
    BY <2>3, Zenon DEF TensorInv, tensorVars
  <2> QED BY <2>1, <2>2, <2>3, Zenon DEF TensorNext
<1>3. TensorInv => TensorsAreExact
  BY TensorInv_Exact
<1> QED BY <1>1, <1>2, <1>3, PTL DEF TensorSpec
=============================================================================
