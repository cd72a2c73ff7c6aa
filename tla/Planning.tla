------------------------------ MODULE Planning ------------------------------
(***************************************************************************)
(* Planning and the SO-100 evaluation.  The two cross-entropy planners     *)
(* (lewm-plan/src/cem.rs and lewm-infer/src/plan.rs) sample candidate      *)
(* action sequences, cost each by a rollout of the world model, and refit  *)
(* the proposal to the cheapest.  lewm-eval so100 replays the recorded     *)
(* actions of held-out episodes, ranks the distances of the trajectories,  *)
(* and writes three files in a directory that may hold an earlier run's.   *)
(*                                                                         *)
(* Latents and actions are integers.  A Gaussian sample may be any action  *)
(* of the instance, whatever the proposal is.                              *)
(***************************************************************************)
EXTENDS Integers, FiniteSets, SequencesExt, Sorting

CONSTANTS
  NextLatent(_, _), \* the latent that follows a window of latents, for an action
  NotFiniteLatent, \* a latent with a NaN or an infinity; a prediction that is no integer is one too
  MaxFiniteCost,   \* the largest cost an f32 holds; a greater one is infinite
  SampledActions,  \* what a candidate may do at one step
  CemConfigs,      \* the planners' parameters
  Requests,        \* latent histories and goals
  Inputs,          \* the files --encoded-episodes may name
  HistorySizes, Floors, \* the --history-size and --spearman-floor (percent) given
  MaxEvals         \* bound on the runs of lewm-eval

ASSUME PlanningAssumption ==
  /\ MaxFiniteCost \in Nat /\ MaxEvals \in Nat /\ SampledActions \subseteq Int /\ SampledActions # {}
  /\ HistorySizes \subseteq Nat /\ Floors \subseteq Int /\ NotFiniteLatent \notin Int
  /\ CemConfigs \subseteq [n_iter : Nat, n_cand : Nat, n_elite : Nat, horizon : Nat,
                          sigma_init : Int, sigma_min : Int, chunk_size : Nat, max_batch : Nat]
  /\ Requests \subseteq [history : Seq(Int \cup {NotFiniteLatent}), goal : Int \cup {NotFiniteLatent}]
  /\ Inputs \subseteq Seq([id : Int, targets : Seq(Int), actions : Seq(Int), predictions : Seq(Int)])

Infinite == MaxFiniteCost + 1
NullThreshold == 40   \* percent

VARIABLES
  plan,      \* one planning request
  eval,      \* the process lewm-eval so100
  outDir,    \* its output directory: of which run each file is
  evals      \* runs of lewm-eval so far

planningVars == <<plan, eval, outDir, evals>>

SumOf(v) == LET sum[i \in 0..Len(v)] == IF i = 0 THEN 0 ELSE sum[i - 1] + v[i] IN sum[Len(v)]

-----------------------------------------------------------------------------
\* The planners

\* Cem::validate
CemConfigRefused(c) ==
  \/ 0 \in {c.n_iter, c.n_cand, c.n_elite, c.horizon, c.chunk_size, c.max_batch}
  \/ c.n_elite > c.n_cand \/ c.sigma_init <= 0 \/ c.sigma_min <= 0 \/ c.sigma_min > c.sigma_init

\* CemPlanInput::validate
CemInputRefused(p) == p.history = << >> \/ NotFiniteLatent \in Range(p.history) \cup {p.goal}

\* validate_inputs: lewm-infer does not compare the two deviations.
CpuRefused(p) ==
  \/ 0 \in {p.config.n_iter, p.config.n_cand, p.config.n_elite, p.config.horizon}
  \/ p.config.n_elite > p.config.n_cand \/ p.config.sigma_init <= 0 \/ p.config.sigma_min <= 0
  \/ CemInputRefused(p)

PlanRefused(p) ==
  IF p.planner = "cem" THEN CemConfigRefused(p.config) \/ CemInputRefused(p) ELSE CpuRefused(p)

\* rollout_final_latent: the oldest latent leaves the window.
Shift(window, next) == Append(Tail(window), next)

Rollout(history, candidate) ==
  FoldLeft(LAMBDA window, a :
             IF window = << >> \/ NextLatent(window, a) \notin Int THEN << >>
             ELSE Shift(window, NextLatent(window, a)),
           history, candidate)

\* candidate_cost: the squared distance of the final latent, or << >> for an error.
CandidateCost(p, candidate) ==
  LET window == Rollout(p.history, candidate)
      square == (Last(window) - p.goal) * (Last(window) - p.goal)
  IN  IF window = << >> THEN << >> ELSE <<IF square > MaxFiniteCost THEN Infinite ELSE square>>

\* One cost request of several candidates.
CostsOf(p, candidates) == [i \in DOMAIN candidates |-> CandidateCost(p, candidates[i])]

\* should_chunk: the scalars of one cost request against its limit.
ShouldChunk(p) ==
  p.config.n_cand * (Len(p.history) + 1 + p.config.horizon) > p.config.max_batch

WholeChunksOnly(p, candidates) ==
  LET size == p.config.chunk_size
  IN  IF ShouldChunk(p) /\ p.config.n_cand > size
      THEN FlattenSeq([k \in 1..(p.config.n_cand \div size) |->
             CostsOf(p, SubSeq(candidates, (k - 1) * size + 1, k * size))])
      ELSE CostsOf(p, candidates)

\* evaluate_costs: one request, or one for every chunk_size candidates.
EvaluateCosts(p, candidates) ==
  LET size == p.config.chunk_size
      n == p.config.n_cand
  IN  IF ShouldChunk(p) /\ n > size
      THEN FlattenSeq([k \in 1..((n + size - 1) \div size) |->
             CostsOf(p, SubSeq(candidates, (k - 1) * size + 1, IF k * size < n THEN k * size ELSE n))])
      ELSE CostsOf(p, candidates)

\* evaluate_chunk refuses an infinite cost too; the other planner ranks it last.
CostsRefused(costs) == {<< >>, <<Infinite>>} \cap Range(costs) # {}

\* elite_indices and best_cost_index order by cost, then by index.
Ranked(costs) == SortedIndexes([i \in DOMAIN costs |-> costs[i][1]])

\* update_proposal and proposal_from_elites, per step of the sequence: the mean
\* sum/n, and the variance num/den, not below the square of sigma_min.
Spread(sum, square, n, floor) ==
  IF n * square - sum * sum < floor * floor * n * n THEN [num |-> floor * floor, den |-> 1]
  ELSE [num |-> n * square - sum * sum, den |-> n * n]

UpdateProposal(p, candidates, elites) ==
  [step \in 1..p.config.horizon |->
     LET n == Len(elites)
         taken == [e \in 1..n |-> candidates[elites[e]][step]]
         sum == SumOf(taken)
         square == SumOf([e \in 1..n |-> taken[e] * taken[e]])
     IN  [sum |-> sum, n |-> n, spread |-> Spread(sum, square, n, p.config.sigma_min)]]

NoPlan == [at |-> "idle"]

AskForPlan ==
  /\ plan = NoPlan
  /\ \E planner \in {"cem", "cpu"}, config \in CemConfigs, request \in Requests :
       LET p == [at |-> "planning", planner |-> planner, config |-> config, iter |-> 0,
                 history |-> request.history, goal |-> request.goal, candidates |-> << >>, costs |-> << >>,
                 elites |-> << >>, proposal |-> << >>, best |-> 0]
       IN  plan' = IF PlanRefused(p) THEN [at |-> "refused"] ELSE p
  /\ UNCHANGED <<eval, outDir, evals>>

Samples == [1..plan.config.n_cand -> [1..plan.config.horizon -> SampledActions]]

\* The plan is the cheapest of the last sample, whatever earlier samples held.
Refit(candidates, costs) ==
  plan' = LET elites == SubSeq(Ranked(costs), 1, plan.config.n_elite)
          IN  [plan EXCEPT !.at = "iterated", !.iter = @ + 1, !.candidates = candidates, !.costs = costs,
                           !.elites = elites, !.proposal = UpdateProposal(plan, candidates, elites),
                           !.best = Ranked(costs)[1]]

MorePlanning(planner) ==
  plan.at \in {"planning", "iterated"} /\ plan.planner = planner /\ plan.iter < plan.config.n_iter

\* One iteration of plan_with_rng, or its error.
CemIterate ==
  /\ MorePlanning("cem")
  /\ \E candidates \in Samples : \E costs \in {EvaluateCosts(plan, candidates)} :
       IF CostsRefused(costs) THEN plan' = [at |-> "refused"] ELSE Refit(candidates, costs)
  /\ UNCHANGED <<eval, outDir, evals>>

\* One iteration of CpuCem::plan, which rolls its candidates out one by one.
CpuIterate ==
  /\ MorePlanning("cpu")
  /\ \E candidates \in Samples : \E costs \in {CostsOf(plan, candidates)} :
       IF << >> \in Range(costs) THEN plan' = [at |-> "refused"] ELSE Refit(candidates, costs)
  /\ UNCHANGED <<eval, outDir, evals>>

-----------------------------------------------------------------------------
\* The SO-100 evaluation

\* pairwise_distances: the upper triangle, row by row.  A latent is one scalar.
Distances(latents) ==
  LET abs(x) == IF x < 0 THEN -x ELSE x
  IN  FlattenSeq([i \in 1..(Len(latents) - 1) |->
        [j \in 1..(Len(latents) - i) |-> abs(latents[i] - latents[i + j])]])

\* average_ranks, doubled: sorted, each run start..end of equal values gets the
\* rank (start + 1 + end) / 2.
AverageRanks(values) ==
  LET sorted == SortedIndexes(values)
      run(v) == {k \in DOMAIN sorted : values[sorted[k]] = v}
  IN  [i \in DOMAIN values |-> Min(run(values[i])) + Max(run(values[i]))]

\* pearson_correlation of two sequences, as num / sqrt(left * right).
Pearson(l, r) ==
  LET product(x, y) == SumOf([i \in DOMAIN x |-> x[i] * y[i]])
      covariance(x, y) == Len(x) * product(x, y) - SumOf(x) * SumOf(y)
  IN  [num |-> covariance(l, r), left |-> covariance(l, l), right |-> covariance(r, r)]

Spearman(predicted, targets) ==
  Pearson(AverageRanks(Distances(predicted)), AverageRanks(Distances(targets)))

\* In whole percents, rounded down.
Percents(rho) ==
  LET atLeast(p) == LET lower == p * p * rho.left * rho.right
                        square == 10000 * rho.num * rho.num
                    IN  IF p >= 0 THEN rho.num >= 0 /\ square >= lower
                        ELSE rho.num >= 0 \/ square <= lower
  IN  Max({p \in -100..100 : atLeast(p)})

\* validate_episode
EpisodeRefused(e, history_size) ==
  \/ Len(e.targets) <= history_size
  \/ Len(e.actions) < Len(e.targets) - history_size

NoEval == [at |-> "idle"]

\* run_so100 up to So100Evaluator::run.
StartEval ==
  /\ eval = NoEval /\ evals < MaxEvals
  /\ evals' = evals + 1
  /\ \E input \in Inputs, size \in HistorySizes, floor \in Floors, reserved \in BOOLEAN :
       eval' = IF reserved \/ input = << >> \/ size = 0 \/ floor \notin 0..100 THEN NoEval
               ELSE [at |-> "begin", run |-> evals', input |-> input, size |-> size, floor |-> floor,
                     cursor |-> 0, history |-> << >>, predicted |-> << >>, rollouts |-> << >>,
                     outcome |-> "none", file |-> 1, whole |-> TRUE]
  /\ UNCHANGED <<plan, outDir>>

Current == eval.input[Len(eval.rollouts) + 1]

\* The predictions are kept by episode id: of two with one id the later stays.
RecordedFor(id) ==
  LET same == {k \in DOMAIN eval.input : eval.input[k].id = id} IN eval.input[Max(same)].predictions

FailEval == eval' = NoEval /\ UNCHANGED <<plan, outDir, evals>>

BeginWithoutReset ==
  eval' = [eval EXCEPT !.at = "rollout", !.predicted = << >>,
                       !.history = [h \in 1..eval.size |-> Current.targets[1]]]

\* begin_episode, and the seed of the history: the first latent, repeated.
Begun ==
  eval' = [eval EXCEPT !.at = "rollout", !.cursor = 0, !.predicted = << >>,
                       !.history = [h \in 1..eval.size |-> Current.targets[1]]]

BeginEpisode ==
  /\ eval.at = "begin" /\ Len(eval.rollouts) < Len(eval.input)
  /\ ~EpisodeRefused(Current, eval.size)
  /\ Begun
  /\ UNCHANGED <<plan, outDir, evals>>

RefuseEpisode ==
  /\ eval.at = "begin" /\ Len(eval.rollouts) < Len(eval.input) /\ EpisodeRefused(Current, eval.size)
  /\ FailEval

\* One step of run_episode; predict_next ends in an error when no prediction is left.
PredictNext ==
  /\ eval.at = "rollout" /\ Len(eval.predicted) < Len(Current.targets) - eval.size
  /\ LET recorded == RecordedFor(Current.id)
         at == eval.cursor + 1
     IN  eval' = IF at > Len(recorded) THEN NoEval
                 ELSE [eval EXCEPT !.cursor = at, !.predicted = Append(@, recorded[at]),
                                   !.history = Shift(@, recorded[at])]
  /\ UNCHANGED <<plan, outDir, evals>>

\* The target of step s is the latent size frames later.
TargetsOf(e, size) == SubSeq(e.targets, size + 1, Len(e.targets))

\* The end of run_episode: the metrics need three latents, and two that differ.
EndEpisode ==
  /\ eval.at = "rollout" /\ Len(eval.predicted) = Len(Current.targets) - eval.size
  /\ LET targets == TargetsOf(Current, eval.size)
         rho == Spearman(eval.predicted, targets)
     IN  eval' = IF Len(targets) < 3 \/ rho.left * rho.right = 0 THEN NoEval
                 ELSE [eval EXCEPT !.at = "begin", !.rollouts = Append(@,
                         [predicted |-> eval.predicted, targets |-> targets, spearman |-> Percents(rho)])]
  /\ UNCHANGED <<plan, outDir, evals>>

\* So100Acceptance::from_spearman
Outcome(mean, floor) ==
  IF mean >= floor THEN "pass" ELSE IF mean < NullThreshold THEN "null" ELSE "partial"

DecideOutcome ==
  /\ eval.at = "begin" /\ Len(eval.rollouts) = Len(eval.input)
  /\ LET n == Len(eval.rollouts)
         mean == SumOf([k \in 1..n |-> eval.rollouts[k].spearman]) \div n
     IN  eval' = [eval EXCEPT !.at = "write", !.outcome = Outcome(mean, eval.floor)]
  /\ UNCHANGED <<plan, outDir, evals>>

\* write_so100_outputs, and write_pusht_artifacts: three files, each written in
\* place.
OutputFiles == <<"results", "report", "traces">>

TornOutput == [run |-> 0, outcome |-> "torn"]
WriteOutput ==
  /\ eval.at = "write"
  /\ LET name == OutputFiles[eval.file]
     IN  IF eval.whole
         THEN /\ outDir' = [outDir EXCEPT ![name] = TornOutput] /\ eval' = [eval EXCEPT !.whole = FALSE]
         ELSE /\ outDir' = [outDir EXCEPT ![name] = [run |-> eval.run, outcome |-> eval.outcome]]
              /\ eval' = IF eval.file = Len(OutputFiles) THEN NoEval
                         ELSE [eval EXCEPT !.whole = TRUE, !.file = @ + 1]
  /\ UNCHANGED <<plan, evals>>

\* run_report: lewm-eval report renders the report anew from results that parse,
\* in place; the process may die before it is whole.
RenderReport ==
  /\ outDir["results"].run > 0
  /\ outDir' \in {[outDir EXCEPT !["report"] = outDir["results"]], [outDir EXCEPT !["report"] = TornOutput]}
  /\ UNCHANGED <<plan, eval, evals>>

\* A kill, or a full disk.
DieEvaluating == eval # NoEval /\ FailEval

-----------------------------------------------------------------------------
PlanningInit ==
  /\ plan = NoPlan /\ eval = NoEval /\ evals = 0
  /\ outDir = [name \in Range(OutputFiles) |-> [run |-> 0, outcome |-> "missing"]]

EvalNext ==
  \/ StartEval \/ BeginEpisode \/ RefuseEpisode \/ PredictNext \/ EndEpisode \/ DecideOutcome
  \/ WriteOutput \/ RenderReport \/ DieEvaluating
PlanNext == AskForPlan \/ CemIterate \/ CpuIterate
PlanningNext == PlanNext \/ EvalNext
PlanningSpec == PlanningInit /\ [][PlanningNext]_planningVars

-----------------------------------------------------------------------------
\* Properties

\* The latent after k steps, by the recurrence it stands for.
LatentAfter(history, candidate, k) ==
  LET latent[i \in 1..(Len(history) + k)] ==
        IF i <= Len(history) THEN history[i]
        ELSE NextLatent([h \in 1..Len(history) |-> latent[i - Len(history) - 1 + h]], candidate[i - Len(history)])
  IN  latent[Len(history) + k]

(* The cost at an index is that of the candidate at the index, whether the costs
   came in one request or in chunks that do not divide their number, and it is
   that of a latent predicted from the latents just before it (cem.rs:
   evaluate_costs; plan.rs: rollout_final_latent). *)
CostsAreOfTheirCandidates ==
  plan.at = "iterated" =>
    /\ Len(plan.costs) = plan.config.n_cand
    /\ \A i \in DOMAIN plan.costs :
         LET off == LatentAfter(plan.history, plan.candidates[i], plan.config.horizon) - plan.goal
         IN  plan.costs[i] = <<IF off * off > MaxFiniteCost THEN Infinite ELSE off * off>>

(* However alike the elites are, the proposal keeps a deviation of sigma_min or
   more, and its mean lies between two of them: it neither dies nor runs away
   (cem.rs: update_proposal; plan.rs: proposal_from_elites). *)
ProposalStaysAlive ==
  plan.at = "iterated" =>
    \A step \in 1..plan.config.horizon :
      LET p == plan.proposal[step]
          chosen == {plan.candidates[plan.elites[e]][step] : e \in DOMAIN plan.elites}
      IN  /\ p.spread.num >= plan.config.sigma_min * plan.config.sigma_min * p.spread.den
          /\ p.n * Min(chosen) <= p.sum /\ p.sum <= p.n * Max(chosen)

(* The plan is a candidate of the last sample that none is cheaper than, and it
   has an infinite cost only with the planner of lewm-infer and when all have. *)
PlanIsTheCheapest ==
  plan.at = "iterated" =>
    /\ \A i \in DOMAIN plan.costs : plan.costs[plan.best][1] <= plan.costs[i][1]
    /\ plan.costs[plan.best] = <<Infinite>> =>
         plan.planner = "cpu" /\ \A i \in DOMAIN plan.costs : plan.costs[i] = <<Infinite>>

DistinctIds == IsInjective([k \in DOMAIN eval.input |-> eval.input[k].id])

(* An episode is scored by the predictions recorded for it, each against the
   latent history_size frames after the one it was replayed from, whatever
   episodes came before; with one id for two episodes both are scored by the
   predictions of the later (so100_eval.rs: RecordedRolloutModel). *)
RolloutsAreTheirOwn ==
  eval.at \in {"begin", "write"} =>
    \A k \in DOMAIN eval.rollouts :
      LET e == eval.input[k]
          rollout == eval.rollouts[k]
      IN  /\ Len(rollout.predicted) = Len(e.targets) - eval.size
          /\ \A s \in DOMAIN rollout.predicted :
               /\ DistinctIds => rollout.predicted[s] = e.predictions[s]
               /\ rollout.targets[s] = e.targets[s + eval.size]

(* A rank is one more than the number of smaller distances, plus half of those
   that equal it: what scipy calls the average method (so100_eval.rs). *)
RanksAreAverages ==
  eval.at \in {"begin", "write"} =>
    \A k \in DOMAIN eval.rollouts :
      LET d == Distances(eval.rollouts[k].targets)
      IN  \A i \in DOMAIN d :
            AverageRanks(d)[i] = 2 * Cardinality({j \in DOMAIN d : d[j] < d[i]})
                                   + Cardinality({j \in DOMAIN d : d[j] = d[i]}) + 1

(* A model that predicts every target of a run is accepted, at any floor. *)
PerfectRolloutsPass ==
  (eval.at = "write" /\ \A k \in DOMAIN eval.input :
     LET e == eval.input[k] IN e.predictions = SubSeq(e.targets, eval.size + 1, Len(e.targets)) /\ DistinctIds)
    => eval.outcome = "pass"

(* The three files are written in one order, so that a whole file is of no later
   run than the whole files before it: traces that belong to a run never lie
   beside the results of an earlier one, wherever a run was killed. *)
TracesComeLast ==
  \A i, j \in DOMAIN OutputFiles :
    LET before == outDir[<<"results", "report", "traces">>[i]]
        after == outDir[<<"results", "report", "traces">>[j]]
    IN  i < j /\ before.run > 0 => after.run <= before.run

(* The plan returned is the cheapest of the candidates actually costed, of a
   proposal that is still alive (cem.rs, plan.rs). *)
PlansAreSound == CostsAreOfTheirCandidates /\ ProposalStaysAlive /\ PlanIsTheCheapest

(* The verdict on a run of rollouts is that of their own latents, by correct
   ranks, and its files are told apart from those of an earlier run. *)
RolloutsAreJudged == RolloutsAreTheirOwn /\ RanksAreAverages /\ PerfectRolloutsPass /\ TracesComeLast
=============================================================================
