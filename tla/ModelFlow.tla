----------------------------- MODULE ModelFlow -----------------------------
(***************************************************************************)
(* What the answers of the model depend on: the training loop of the full  *)
(* Burn model (trainer.rs), the file it saves, and the callers that load   *)
(* it, the Burn runner of lewm-infer and the cost model of the planner.    *)
(*                                                                         *)
(* A value of the network (module Forward) says, for initial weights and   *)
(* for weights that took a step, what it was computed of: the inputs it    *)
(* depends on, those it depends on through statistics of a batch only, and *)
(* whether it is zero whatever they are.                                   *)
(***************************************************************************)
EXTENDS Integers, SequencesExt

CONSTANTS Batch, EncoderDepth, PredictorDepth, NumFrames, HistorySize, Horizon, MaxSteps

ASSUME FlowAssumption ==
  /\ {Batch, EncoderDepth, PredictorDepth, NumFrames, HistorySize, Horizon, MaxSteps} \subseteq Nat \ {0}
  /\ HistorySize <= NumFrames /\ HistorySize < Horizon   \* shape_errors, and tail_steps

VARIABLES
  jobPhase,      \* of the training run
  taken,         \* steps it took
  runningStats,  \* its running statistics, per batch norm
  savedModel,    \* what it saved
  servedModel,   \* what a later process loaded
  lastAnswer     \* the last result
flowVars == <<jobPhase, taken, runningStats, savedModel, servedModel, lastAnswer>>

-----------------------------------------------------------------------------
\* Values

Weights == {"initial", "stepped"}
Of(zero, value, batchwise) == [zero |-> zero, value |-> value, batchwise |-> batchwise]
Leaf(kind, row, time) == [w \in Weights |-> Of(FALSE, {<<kind, row, time>>}, {})] @@ << >>
Constant == [w \in Weights |-> Of(FALSE, {}, {})] @@ << >>

\* AdaLNZero::init leaves the conditioner at zero, and the first step moves its
\* gates.  The running statistics are an input of their own.
Conditioner == [w \in Weights |-> Of(w = "initial", {}, {})] @@ << >>
FlowParameter(name) ==
  IF Len(name) = 6 /\ name[5] = "linear" THEN Conditioner
  ELSE IF name[Len(name)] \in {"running_mean", "running_var"} THEN Leaf("running", name[1], 0)
  ELSE Constant

IsZero(op, zero) ==
  \/ op[1] = "mul" /\ \E i \in DOMAIN zero : zero[i]
  \/ op[1] = "linear" /\ zero[2] /\ zero[3]
  \/ op[1] \in {"chunk", "add"} /\ \A i \in DOMAIN zero : zero[i]

Flow(op, args) ==
  [w \in Weights |->
     LET value == UNION {args[i][w].value : i \in DOMAIN args}
         batchwise == UNION {args[i][w].batchwise : i \in DOMAIN args}
     IN  IF IsZero(op, [i \in DOMAIN args |-> args[i][w].zero]) THEN Of(TRUE, {}, {})
         ELSE IF op[1] \in {"mean", "variance"} THEN Of(FALSE, {}, value \cup batchwise)
         ELSE Of(FALSE, value, batchwise)] @@ << >>

Net == INSTANCE Forward WITH Apply <- Flow, Parameter <- FlowParameter, HiddenAct <- "tanh", LayerNormEps <- "1e-12"

OfWeights(w, rows) == Net!Each(LAMBDA row : Net!Each(LAMBDA x : x[w], row), rows)

Grid(kind, rows, times) == [b \in 1..rows |-> [t \in 1..times |-> Leaf(kind, b, t)] \o << >>] \o << >>
Images(kind, rows, times) == [b \in 1..rows |-> [t \in 1..times |-> <<Leaf(kind, b, t)>>] \o << >>] \o << >>

-----------------------------------------------------------------------------
\* Training

Nothing == [call |-> "none"]
NoFile == [weights |-> "none"]
BatchNorms == {"projector", "pred_proj"}
Untouched == [norm \in BatchNorms |-> [absorbed |-> {}, updates |-> 0]]
WeightsNow == IF taken = 0 THEN "initial" ELSE "stepped"

\* The batches of the loop hold a frame and a packed action per step of the
\* horizon; the criterion also takes actions for the predicted frames only.
TrainingActions == {Horizon, Horizon - HistorySize}
CriterionOf(length) == Net!Criterion(TRUE, Images("frame", Batch, Horizon), Grid("action", Batch, length))
Criteria == [length \in TrainingActions |-> CriterionOf(length)]

\* The running statistics of a norm after the batches it saw.
Absorb(statistics, w, batches) ==
  [absorbed |-> statistics.absorbed \cup UNION {batches[k][w].batchwise : k \in DOMAIN batches},
   updates |-> statistics.updates + Len(batches)]

\* One step of the loop: the criterion updates the running statistics, and a
\* loss that is not finite ends the run before its optimizer step.
CriterionStep ==
  /\ jobPhase = "training" /\ taken < MaxSteps
  /\ \E length \in TrainingActions, finite \in BOOLEAN :
       \E result \in {Criteria[length]} :
         /\ runningStats' = [norm \in BatchNorms |-> Absorb(runningStats[norm], WeightsNow, result[norm])]
         /\ lastAnswer' = [call |-> "train", weights |-> WeightsNow, length |-> length,
                       pred |-> OfWeights(WeightsNow, result.pred), target |-> OfWeights(WeightsNow, result.target),
                       sigreg |-> result.sigreg[WeightsNow]]
         /\ IF finite THEN taken' = taken + 1 /\ jobPhase' = jobPhase ELSE taken' = taken /\ jobPhase' = "failed"
  /\ UNCHANGED <<savedModel, servedModel>>

\* The run ends, and its checkpoint keeps the parameters and the statistics.
SaveModel ==
  /\ jobPhase = "training" /\ taken = MaxSteps
  /\ jobPhase' = "saved" /\ savedModel' = [weights |-> "stepped", running |-> runningStats]
  /\ UNCHANGED <<taken, runningStats, servedModel, lastAnswer>>

-----------------------------------------------------------------------------
\* Evaluation, by a backend without autodiff

Autodiff == FALSE

\* load_jepa_from_safetensors, or from_model with an initialised model.
LoadModel ==
  /\ servedModel = NoFile
  /\ \/ jobPhase = "saved" /\ servedModel' = savedModel
     \/ servedModel' = [weights |-> "initial", running |-> Untouched]
  /\ UNCHANGED <<jobPhase, taken, runningStats, savedModel, lastAnswer>>

\* The caller gets rows, and the model what its norms absorb meanwhile.
Answered(call, arguments, rows, projector, pred_proj) ==
  /\ lastAnswer' = [call |-> call, weights |-> servedModel.weights, rows |-> OfWeights(servedModel.weights, rows)] @@ arguments
  /\ servedModel' = [servedModel EXCEPT !.running = [projector |-> Absorb(@.projector, servedModel.weights, projector),
                                        pred_proj |-> Absorb(@.pred_proj, servedModel.weights, pred_proj)]]
  /\ UNCHANGED <<jobPhase, taken, runningStats, savedModel>>

EncodeCall ==
  /\ servedModel # NoFile
  /\ \E rows \in 1..Batch, times \in {1, Horizon} :
       LET images == Images("query", rows, times)
       IN  Answered("encode", [batch |-> rows, times |-> times],
                    Net!Encode(Autodiff, images), Net!EncodeUpdates(Autodiff, images), << >>)

\* The runner predicts one row; its width check refuses other features.
PredictCall ==
  /\ servedModel # NoFile
  /\ \E times \in 0..NumFrames + 1, extra \in {0, 1}, fits \in BOOLEAN :
       LET context == Grid("context", 1, times)
           actions == Grid("given", 1, times + extra)
           refused == ~fits \/ ~Net!Predictable(context, actions)
       IN  Answered("predict", [times |-> times, extra |-> extra, fits |-> fits],
                    IF refused THEN << >> ELSE Net!Predict(Autodiff, context, actions), << >>,
                    IF refused THEN << >> ELSE Net!PredictUpdates(Autodiff, context, actions))

RolloutCall ==
  /\ servedModel # NoFile
  /\ \E past \in {HistorySize, HistorySize + 1}, tail \in TrainingActions :
       LET starts == Grid("context", Batch, past)
           actions == Grid("given", Batch, tail)
       IN  Answered("rollout", [past |-> past, tail |-> tail], Net!Rollout(Autodiff, starts, actions), << >>,
                    IF Net!Rollable(starts, actions) THEN Net!RolloutUpdates(Autodiff, starts, actions) ELSE << >>)

\* cycle().take(): the request's values again for every candidate.
Replicated(values, count) == [n \in 1..count |-> values[((n - 1) % Len(values)) + 1]] \o << >>

Reshaped(flat, rows, width) == [b \in 1..rows |-> SubSeq(flat, (b - 1) * width + 1, b * width)] \o << >>

\* JepaCemCostModel::get_cost.
CostCall ==
  /\ servedModel # NoFile
  /\ \E count \in 0..Batch, plan \in TrainingActions, past \in {HistorySize, HistorySize + 1}, fits \in BOOLEAN :
       LET history == [t \in 1..past |-> Leaf("history", 0, t)] \o << >>
           histories == Reshaped(Replicated(history, count * past), count, past)
           candidates == Reshaped(FlattenSeq(Grid("candidate", count, plan)), count, plan)
           goals == Replicated(<<Leaf("goal", 0, 0)>>, count)
           refused == plan # Horizon - HistorySize \/ past # HistorySize \/ ~fits \/ count = 0
       IN  Answered("cost", [count |-> count, plan |-> plan, past |-> past, fits |-> fits],
                    IF refused THEN << >> ELSE <<Net!Cost(Net!Rollout(Autodiff, histories, candidates), goals)>>, << >>,
                    IF refused THEN << >> ELSE Net!RolloutUpdates(Autodiff, histories, candidates))

FlowInit ==
  /\ jobPhase = "training" /\ taken = 0 /\ runningStats = Untouched
  /\ savedModel = NoFile /\ servedModel = NoFile /\ lastAnswer = Nothing
FlowNext == CriterionStep \/ SaveModel \/ LoadModel \/ EncodeCall \/ PredictCall \/ RolloutCall \/ CostCall
FlowSpec == FlowInit /\ [][FlowNext]_flowVars

-----------------------------------------------------------------------------
(* Properties.                                                              *)

\* Without autodiff a value depends on running statistics, and on the batch by
\* its own inputs only.
Running(norms) == {<<"running", norm, 0>> : norm \in norms}
Inputs(kind, row, times) == {<<kind, row, t>> : t \in times}
DependsOn(x, leaves, norms) == x.value = leaves \cup Running(norms) /\ x.batchwise = {}

\* An embedding is of its own frame: no image of the batch, and no other step of
\* its row, enters it (Jepa::encode flattens batch and time for the encoder and
\* the projector, and takes them apart again).
EmbeddingsAreOfTheirFrames ==
  lastAnswer.call = "encode" =>
    /\ Len(lastAnswer.rows) = lastAnswer.batch
    /\ \A b \in 1..lastAnswer.batch : /\ Len(lastAnswer.rows[b]) = lastAnswer.times
                                  /\ \A t \in 1..lastAnswer.times :
                                       DependsOn(lastAnswer.rows[b][t], Inputs("query", b, {t}), {"projector"})

\* A prediction of the runner is causal: position i depends on every context
\* embedding and action up to i and on none after it; before its first step a
\* model passes its context through, since the gates of AdaLN-zero are closed.
\* A context longer than the position embedding is refused.
PredictionsAreCausal ==
  lastAnswer.call = "predict" =>
    IF lastAnswer.times \in 1..NumFrames /\ lastAnswer.extra = 0 /\ lastAnswer.fits
    THEN /\ Len(lastAnswer.rows[1]) = lastAnswer.times
         /\ \A i \in 1..lastAnswer.times :
              DependsOn(lastAnswer.rows[1][i],
                        IF lastAnswer.weights = "initial" THEN Inputs("context", 1, {i})
                        ELSE Inputs("context", 1, 1..i) \cup Inputs("given", 1, 1..i), {"pred_proj"})
    ELSE lastAnswer.rows = << >>

\* The window of a rollout slides over its own predictions: the embedding of
\* step k depends on the whole history and on the first k actions of its row.
RolloutsUseThePast ==
  lastAnswer.call = "rollout" =>
    IF lastAnswer.past = HistorySize /\ lastAnswer.tail = Horizon - HistorySize
    THEN \A b \in 1..Batch : \A k \in 1..lastAnswer.tail :
           DependsOn(lastAnswer.rows[b][HistorySize + k],
                     IF lastAnswer.weights = "initial" THEN Inputs("context", b, {HistorySize})
                     ELSE Inputs("context", b, 1..HistorySize) \cup Inputs("given", b, 1..k), {"pred_proj"})
    ELSE lastAnswer.rows = << >>

\* The cost of a candidate depends on the shared history, the goal and all its
\* own actions, and on those of no other candidate of the batch.
CandidateCostsAreIndependent ==
  lastAnswer.call = "cost" =>
    IF lastAnswer.plan = Horizon - HistorySize /\ lastAnswer.past = HistorySize /\ lastAnswer.fits /\ lastAnswer.count > 0
    THEN \A c \in 1..lastAnswer.count :
           DependsOn(lastAnswer.rows[1][c],
                     {<<"goal", 0, 0>>} \cup
                     IF lastAnswer.weights = "initial" THEN Inputs("history", 0, {HistorySize})
                     ELSE Inputs("history", 0, 1..HistorySize) \cup Inputs("candidate", c, 1..lastAnswer.plan), {"pred_proj"})
    ELSE lastAnswer.rows = << >>

\* In training a prediction takes the values of its own row's history and of
\* the actions of the predicted frames so far: the frames it has to predict,
\* and the other rows, reach it through the batch statistics alone.  SIGReg
\* sees the predicted frames only.
TargetsStayUnseen ==
  lastAnswer.call = "train" =>
    /\ \A b \in 1..Batch : \A k \in 1..(Horizon - HistorySize) :
         /\ lastAnswer.pred[b][k].value =
              IF lastAnswer.weights = "initial" THEN Inputs("frame", b, {HistorySize})
              ELSE Inputs("frame", b, 1..HistorySize)
                   \cup Inputs("action", b, IF lastAnswer.length = Horizon THEN HistorySize + 1..HistorySize + k ELSE 1..k)
         /\ lastAnswer.target[b][k].value = Inputs("frame", b, {HistorySize + k})
    /\ lastAnswer.sigreg.value = UNION {Inputs("frame", b, HistorySize + 1..Horizon) : b \in 1..Batch}

\* The running statistics are of training batches alone: the projector absorbs
\* one batch per criterion and pred_proj one per rollout step, and a model that
\* answers a caller keeps the statistics it was loaded with.
EvaluationLeavesNoTrace ==
  LET calls == taken + IF jobPhase = "failed" THEN 1 ELSE 0
      frames == {<<"frame", b, t>> : b \in 1..Batch, t \in 1..Horizon}
  IN  /\ runningStats.projector.updates = calls /\ runningStats.pred_proj.updates = calls * (Horizon - HistorySize)
      /\ \A norm \in BatchNorms : (\E l \in runningStats[norm].absorbed : l[1] = "frame") => frames \subseteq runningStats[norm].absorbed
      /\ servedModel # NoFile => servedModel.running = IF servedModel.weights = "initial" THEN Untouched ELSE savedModel.running

\* The four calls of a served model, encode, predict, rollout and cost, depend on
\* what they should and on nothing else.
AnswersDependOnTheirInputs ==
  EmbeddingsAreOfTheirFrames /\ PredictionsAreCausal /\ RolloutsUseThePast /\ CandidateCostsAreIndependent

\* Training sees no target but through the batch statistics, and nothing but
\* training moves them.
TrainingIsCausal == TargetsStayUnseen /\ EvaluationLeavesNoTrace

(* What the model answers, in every mode, depends on its own inputs and on no
   later frame, and training it does not leak its targets (jepa.rs, trainer.rs,
   lewm-infer/src/runner, cem.rs). *)
FlowIsCausal == AnswersDependOnTheirInputs /\ TrainingIsCausal
=============================================================================
