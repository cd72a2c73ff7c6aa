------------------------------ MODULE Forward ------------------------------
(***************************************************************************)
(* The network of lewm-core: the ViT encoder, the action embedder, the     *)
(* predictor with its AdaLN-zero blocks, the two projections, and what     *)
(* Jepa composes of them.                                                  *)
(*                                                                         *)
(* A value stands for the features of one position: of a patch, a token, a *)
(* frame or an action.  Apply(op, args) is what the tensor operation op    *)
(* yields of the values args, and Parameter(name) what the model holds     *)
(* under a name; an instance says what they are.  A tensor over batch and  *)
(* time is the sequence of its rows, each a sequence of positions.         *)
(***************************************************************************)
EXTENDS Integers, SequencesExt

CONSTANTS
  Apply(_, _), Parameter(_),
  EncoderDepth, PredictorDepth,  \* num_hidden_layers and depth
  NumFrames, HistorySize, Horizon,
  HiddenAct,                     \* GeluVariant of the encoder
  LayerNormEps                   \* layer_norm_eps of the encoder

Each(Op(_), seq) == [n \in DOMAIN seq |-> Op(seq[n])] \o << >>

Linear(name, x) == Apply(<<"linear">>, <<x, Parameter(name \o <<"weight">>), Parameter(name \o <<"bias">>)>>)
LayerNorm(name, eps, x) == Apply(<<"layer_norm", eps>>, <<x, Parameter(name \o <<"gamma">>), Parameter(name \o <<"beta">>)>>)
Gelu(variant, x) == Apply(<<"gelu", variant>>, <<x>>)
Silu(x) == Apply(<<"silu">>, <<x>>)
Chunk(k, n, x) == Apply(<<"chunk", k, n>>, <<x>>)   \* the k-th of n
Add(x, y) == Apply(<<"add">>, <<x, y>>)
Mul(x, y) == Apply(<<"mul">>, <<x, y>>)
Sub(x, y) == Apply(<<"sub">>, <<x, y>>)
PositionOf(name, n) == Apply(<<"position", n>>, <<Parameter(name)>>)

-----------------------------------------------------------------------------
(* Attention: queries, keys and values are the thirds of qkv; position i    *)
(* attends to the first seen[i] positions.  The heads split the features    *)
(* alike on both sides and are not told apart.                              *)

Queries(qkv) == Each(LAMBDA x : Chunk(1, 3, x), qkv)
Keys(qkv) == Each(LAMBDA x : Chunk(2, 3, x), qkv)
ValuesOf(qkv) == Each(LAMBDA x : Chunk(3, 3, x), qkv)

Attended(qkv, seen) ==
  LET queries == Queries(qkv)
      keys == Keys(qkv)
      values == ValuesOf(qkv)
  IN  [i \in DOMAIN qkv |->
         Apply(<<"attend">>, <<queries[i]>> \o SubSeq(keys, 1, seen[i]) \o SubSeq(values, 1, seen[i]))] \o << >>

Everything(T) == [i \in 1..T |-> T]

\* -inf strictly above the diagonal: position i sees itself and what precedes it.
CausalMask(T) == [i \in 1..T |-> i]

-----------------------------------------------------------------------------
(* The encoder.  An image is the sequence of its patches; validate_pixels    *)
(* fixes its size, so that the position embedding is never interpolated.    *)

EncoderBlockName(layer) == <<"encoder", "blocks", layer>>

PatchEmbed(image) ==
  LET name == <<"encoder", "embeddings", "patch_embed", "proj">>
  IN  Each(LAMBDA p : Apply(<<"conv2d">>, <<p, Parameter(name \o <<"weight">>), Parameter(name \o <<"bias">>)>>), image)

Embeddings(image) ==
  LET tokens == <<Parameter(<<"encoder", "embeddings", "cls_token">>)>> \o PatchEmbed(image)
  IN  [n \in DOMAIN tokens |-> Add(tokens[n], PositionOf(<<"encoder", "embeddings", "pos_embed">>, n))] \o << >>

MlpBlock(name, x) == Linear(name \o <<"fc2">>, Gelu(HiddenAct, Linear(name \o <<"fc1">>, x)))

EncoderBlock(name, tokens) ==
  LET normed == Each(LAMBDA x : LayerNorm(name \o <<"norm1">>, LayerNormEps, x), tokens)
      attended == Attended(Each(LAMBDA x : Linear(name \o <<"attn", "qkv">>, x), normed), Everything(Len(tokens)))
      mixed == [n \in DOMAIN tokens |-> Add(tokens[n], Linear(name \o <<"attn", "proj">>, attended[n]))] \o << >>
  IN  Each(LAMBDA x : Add(x, MlpBlock(name \o <<"mlp">>, LayerNorm(name \o <<"norm2">>, LayerNormEps, x))), mixed)

\* Vit::forward, then cls_from.
Encoder(image) ==
  LET tokens[layer \in 0..EncoderDepth] ==
        IF layer = 0 THEN Embeddings(image) ELSE EncoderBlock(EncoderBlockName(layer - 1), tokens[layer - 1])
  IN  LayerNorm(<<"encoder", "norm">>, LayerNormEps, tokens[EncoderDepth][1])

-----------------------------------------------------------------------------
(* The projections, over a flat batch, with NormVariant::BatchNorm1d.  A     *)
(* backend with autodiff normalises with the statistics of the batch, and    *)
(* updates the running ones; any other normalises with the running ones.    *)

Hidden(name, flat) == Each(LAMBDA x : Linear(<<name, "fc1">>, x), flat)
Mean(hidden) == Apply(<<"mean">>, hidden)
Variance(hidden) == Apply(<<"variance">>, <<Mean(hidden)>> \o hidden)

Statistics(autodiff, name, hidden) ==
  IF autodiff THEN <<Mean(hidden), Variance(hidden)>>
  ELSE <<Parameter(<<name, "norm", "running_mean">>), Parameter(<<name, "norm", "running_var">>)>>

Normalized(name, x, statistics) ==
  Apply(<<"normalize", "1e-5">>, <<x>> \o statistics \o <<Parameter(<<name, "norm", "weight">>), Parameter(<<name, "norm", "bias">>)>>)

Projected(autodiff, name, flat) ==
  LET hidden == Hidden(name, flat)
      statistics == Statistics(autodiff, name, hidden)
  IN  Each(LAMBDA x : Linear(<<name, "fc2">>, Gelu("erf", Normalized(name, x, statistics))), hidden)

\* Projections of a tensor over batch and time.
ProjectedRows(autodiff, name, rows) ==
  LET width == Len(rows[1])
      flat == Projected(autodiff, name, FlattenSeq(rows))
  IN  [b \in DOMAIN rows |-> SubSeq(flat, (b - 1) * width + 1, b * width)] \o << >>

-----------------------------------------------------------------------------
(* The predictor, over one row.                                             *)

ActionEmbedding(a) ==
  LET smoothed == Apply(<<"conv1d">>, <<a, Parameter(<<"action_encoder", "smoother", "weight">>),
                                           Parameter(<<"action_encoder", "smoother", "bias">>)>>)
  IN  Linear(<<"action_encoder", "fc2">>, Silu(Linear(<<"action_encoder", "fc1">>, smoothed)))

PredictorBlockName(layer) == <<"predictor", "blocks", layer>>

AffineFreeNorm(x) == Apply(<<"standardize", "1e-6">>, <<x>>)
Modulate(x, shift, scale) == Add(Mul(x, Apply(<<"one_plus">>, <<scale>>)), shift)

\* The order of the six chunks of AdaLNZeroOutputs.
ShiftMsa == 1
ScaleMsa == 2
GateMsa == 3
ShiftMlp == 4
ScaleMlp == 5
GateMlp == 6

PredictorMlpBlock(name, x) ==
  Linear(name \o <<"fc2">>, Gelu("erf", Linear(name \o <<"fc1">>, LayerNorm(name \o <<"norm">>, "1e-5", x))))

ConditionalBlock(name, tokens, conditioning) ==
  LET mods == Each(LAMBDA c : Linear(name \o <<"adaln", "linear">>, Silu(c)), conditioning)
      input == [i \in DOMAIN tokens |->
                  LayerNorm(name \o <<"attn", "norm">>, "1e-5",
                            Modulate(AffineFreeNorm(tokens[i]), Chunk(ShiftMsa, 6, mods[i]), Chunk(ScaleMsa, 6, mods[i])))] \o << >>
      qkv == Each(LAMBDA x : Apply(<<"matmul">>, <<x, Parameter(name \o <<"attn", "qkv", "weight">>)>>), input)
      attended == Attended(qkv, CausalMask(Len(tokens)))
      mixed == [i \in DOMAIN tokens |->
                  Add(tokens[i], Mul(Chunk(GateMsa, 6, mods[i]), Linear(name \o <<"attn", "proj">>, attended[i])))] \o << >>
      mlp == [i \in DOMAIN tokens |->
                PredictorMlpBlock(name \o <<"mlp">>,
                                  Modulate(AffineFreeNorm(mixed[i]), Chunk(ShiftMlp, 6, mods[i]), Chunk(ScaleMlp, 6, mods[i])))] \o << >>
  IN  [i \in DOMAIN tokens |-> Add(mixed[i], Mul(Chunk(GateMlp, 6, mods[i]), mlp[i]))] \o << >>

Predictor(context, conditioning) ==
  LET positioned == [i \in DOMAIN context |-> Add(context[i], PositionOf(<<"predictor", "pos_embed">>, i))] \o << >>
      tokens[layer \in 0..PredictorDepth] ==
        IF layer = 0 THEN positioned
        ELSE ConditionalBlock(PredictorBlockName(layer - 1), tokens[layer - 1], conditioning)
  IN  Each(LAMBDA x : LayerNorm(<<"predictor", "norm">>, "1e-5", x), tokens[PredictorDepth])

-----------------------------------------------------------------------------
(* Jepa.  What is refused yields no row.                                    *)

Encoded(images) == Each(LAMBDA row : Each(Encoder, row), images)

Encode(autodiff, images) == ProjectedRows(autodiff, "projector", Encoded(images))

\* validate_predict_shapes, and the length check of the predictor.
Predictable(context, actions) ==
  /\ context # << >> /\ Len(actions) = Len(context)
  /\ \A b \in DOMAIN context : Len(context[b]) \in 1..NumFrames /\ Len(actions[b]) = Len(context[b])

Predicted(context, actions) ==
  [b \in DOMAIN context |-> Predictor(context[b], Each(ActionEmbedding, actions[b]))] \o << >>

Predict(autodiff, context, actions) ==
  IF Predictable(context, actions) THEN ProjectedRows(autodiff, "pred_proj", Predicted(context, actions)) ELSE << >>

TailSteps == Horizon - HistorySize

Window(row) == SubSeq(row, Len(row) - HistorySize + 1, Len(row))

\* The context of step k of a rollout: the last embeddings, and one action for
\* the whole window.
StepContext(rows) == Each(Window, rows)
StepActions(actions, k) == Each(LAMBDA row : [i \in 1..HistorySize |-> row[k]], actions)

\* validate_rollout_shapes.
Rollable(starts, actions) ==
  /\ TailSteps > 0 /\ starts # << >> /\ Len(actions) = Len(starts)
  /\ \A b \in DOMAIN starts : Len(starts[b]) = HistorySize /\ Len(actions[b]) = TailSteps

\* The rows after k steps of Jepa::rollout.
RolloutSteps(autodiff, starts, actions) ==
  LET rows[k \in 0..TailSteps] ==
        IF k = 0 THEN starts
        ELSE LET before == rows[k - 1]
                 next == Predict(autodiff, StepContext(before), StepActions(actions, k))
             IN  [b \in DOMAIN before |-> Append(before[b], next[b][HistorySize])] \o << >>
  IN  rows

Rollout(autodiff, starts, actions) ==
  IF Rollable(starts, actions) THEN RolloutSteps(autodiff, starts, actions)[TailSteps] ELSE << >>

\* Mutant: the running statistics move whatever the backend.
AbsorbedAlways(autodiff, name, rows) == <<Mean(Hidden(name, FlattenSeq(rows)))>>

\* What a call adds to the running statistics, in its order: nothing without
\* autodiff, else the mean of what each projection was given.
Absorbed(autodiff, name, rows) == IF autodiff THEN <<Mean(Hidden(name, FlattenSeq(rows)))>> ELSE << >>
EncodeUpdates(autodiff, images) == Absorbed(autodiff, "projector", Encoded(images))
PredictUpdates(autodiff, context, actions) == Absorbed(autodiff, "pred_proj", Predicted(context, actions))
RolloutUpdates(autodiff, starts, actions) ==
  LET rolled == RolloutSteps(autodiff, starts, actions)
  IN  FlattenSeq([k \in 1..TailSteps |-> PredictUpdates(autodiff, StepContext(rolled[k - 1]), StepActions(actions, k))])

-----------------------------------------------------------------------------
(* The training objective.                                                  *)

\* criterion_rollout_actions: actions for every frame lose those of the history.
RolloutActions(actions) ==
  IF \A b \in DOMAIN actions : Len(actions[b]) = Horizon
  THEN Each(LAMBDA row : SubSeq(row, HistorySize + 1, Horizon), actions)
  ELSE actions

Criterion(autodiff, images, actions) ==
  LET embeddings == Encode(autodiff, images)
      starts == Each(LAMBDA row : SubSeq(row, 1, HistorySize), embeddings)
      TailOf(row) == SubSeq(row, HistorySize + 1, Horizon)
      target == Each(TailOf, embeddings)
      rollout == RolloutActions(actions)
  IN  IF images = << >> \/ (\E b \in DOMAIN images : Len(images[b]) # Horizon) \/ ~Rollable(starts, rollout)
      THEN [refused |-> TRUE]
      ELSE [refused |-> FALSE, pred |-> Each(TailOf, Rollout(autodiff, starts, rollout)), target |-> target,
            sigreg |-> Apply(<<"sigreg">>, FlattenSeq(target)),
            projector |-> EncodeUpdates(autodiff, images),
            pred_proj |-> RolloutUpdates(autodiff, starts, rollout)]

\* get_cost: the squared distance of the last embedding to the goal.
Cost(rows, goals) ==
  [b \in DOMAIN rows |->
     LET diff == Sub(rows[b][Horizon], goals[b]) IN Apply(<<"feature_mean">>, <<Mul(diff, diff)>>)] \o << >>
=============================================================================
