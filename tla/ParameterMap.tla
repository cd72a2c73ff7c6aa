---------------------------- MODULE ParameterMap ----------------------------
(***************************************************************************)
(* The parameters of the reference model, as PyTorch names and lays them   *)
(* out and as lewm-core does: the rules between the two                    *)
(* (python/param_name_map.py) and their inverse (python/export_onnx.py),   *)
(* the Safetensors loader and exporter of lewm-core, and the network the   *)
(* Python tools compute with the PyTorch parameters.                       *)
(*                                                                         *)
(* A tensor is its dtype, its shape and its elements in row-major order;   *)
(* an element says only where it came from.  A value of the network is the *)
(* term that computes it, down to the single weights of its linear layers. *)
(* Terms leave out the epsilon of a normalisation.                         *)
(***************************************************************************)
EXTENDS Integers, FiniteSetsExt, SequencesExt

CONSTANTS
  EncoderDepth, PredictorDepth, NumFrames,
  NumPatches, HiddenSize, InnerSize, ActionSize,  \* InnerSize: of every MLP and of the predictor's heads
  HiddenAct                                       \* of the VitConfig the loader gives

ASSUME MapAssumption ==
  {EncoderDepth, PredictorDepth, NumFrames, NumPatches, HiddenSize, InnerSize, ActionSize} \subseteq Nat \ {0}

Tensor(dtype, shape, data) == [dtype |-> dtype, shape |-> shape, data |-> data]
Size(shape) == FoldLeft(LAMBDA a, b : a * b, 1, shape)

\* A tensor nobody computed: its elements are told apart by their place.
Fresh(owner, name, dtype, shape) ==
  Tensor(dtype, shape, [k \in 1..Size(shape) |-> <<owner, name, k>>] \o << >>)

Row(t, i) == SubSeq(t.data, (i - 1) * t.shape[2] + 1, i * t.shape[2])
Column(t, j) == [i \in 1..t.shape[1] |-> t.data[(i - 1) * t.shape[2] + j]] \o << >>

Transposed(t) ==
  Tensor(t.dtype, <<t.shape[2], t.shape[1]>>, FlattenSeq([j \in 1..t.shape[2] |-> Column(t, j)]))
Concatenated(ts) ==
  Tensor(ts[1].dtype, <<FoldLeft(LAMBDA n, t : n + t.shape[1], 0, ts)>> \o Tail(ts[1].shape),
         FlattenSeq([i \in DOMAIN ts |-> ts[i].data] \o << >>))
\* The k-th of three parts along the first axis.
Part(t, k) ==
  LET third == Len(t.data) \div 3
  IN  Tensor(t.dtype, <<t.shape[1] \div 3>> \o Tail(t.shape), SubSeq(t.data, (k - 1) * third + 1, k * third))

-----------------------------------------------------------------------------
(* The rules.                                                               *)

Single(source, destination, transform) ==
  [sources |-> <<source>>, destination |-> destination, transform |-> transform]
Kept(source, destination, ends) == {Single(source \o e[1], destination \o e[2], "identity") : e \in ends}
Same == {<<<<"weight">>, <<"weight">>>>, <<<<"bias">>, <<"bias">>>>}
NormRules(source, destination) ==
  Kept(source, destination, {<<<<"weight">>, <<"gamma">>>>, <<<<"bias">>, <<"beta">>>>})
LinearRules(source, destination) ==
  {Single(source \o <<"weight">>, destination \o <<"weight">>, "linear_transpose"),
   Single(source \o <<"bias">>, destination \o <<"bias">>, "identity")}

Thirds == <<"query", "key", "value">>
\* Mutant: keys and values change places.
ThirdsSwapped(layer, end) ==
  [i \in 1..3 |-> <<"encoder", "encoder", "layer", layer, "attention", "attention", <<"query", "value", "key">>[i], end>>] \o << >>

QkvSources(layer, end) ==
  [i \in 1..3 |-> <<"encoder", "encoder", "layer", layer, "attention", "attention", Thirds[i], end>>] \o << >>

EncoderLayerRules(layer) ==
  LET src == <<"encoder", "encoder", "layer", layer>>
      dst == <<"encoder", "blocks", layer>>
      Qkv(end, transform) ==
        [sources |-> QkvSources(layer, end), destination |-> dst \o <<"attn", "qkv", end>>, transform |-> transform]
  IN  {Qkv("weight", "qkv_linear_concat_transpose"), Qkv("bias", "qkv_bias_concat")}
      \cup NormRules(src \o <<"layernorm_before">>, dst \o <<"norm1">>)
      \cup NormRules(src \o <<"layernorm_after">>, dst \o <<"norm2">>)
      \cup LinearRules(src \o <<"attention", "output", "dense">>, dst \o <<"attn", "proj">>)
      \cup LinearRules(src \o <<"intermediate", "dense">>, dst \o <<"mlp", "fc1">>)
      \cup LinearRules(src \o <<"output", "dense">>, dst \o <<"mlp", "fc2">>)

EncoderRules ==
  LET embeddings == <<"encoder", "embeddings">>
  IN  Kept(embeddings \o <<"patch_embeddings", "projection">>, embeddings \o <<"patch_embed", "proj">>, Same)
      \cup Kept(embeddings, embeddings, {<<<<"cls_token">>, <<"cls_token">>>>, <<<<"position_embeddings">>, <<"pos_embed">>>>})
      \cup UNION {EncoderLayerRules(layer) : layer \in 0..EncoderDepth - 1}
      \cup NormRules(<<"encoder", "layernorm">>, <<"encoder", "norm">>)

ActionEncoderRules ==
  Kept(<<"action_encoder", "patch_embed">>, <<"action_encoder", "smoother">>, Same)
  \cup LinearRules(<<"action_encoder", "embed", 0>>, <<"action_encoder", "fc1">>)
  \cup LinearRules(<<"action_encoder", "embed", 2>>, <<"action_encoder", "fc2">>)

PredictorLayerRules(layer) ==
  LET src == <<"predictor", "transformer", "layers", layer>>
      dst == <<"predictor", "blocks", layer>>
  IN  {Single(src \o <<"attn", "to_qkv", "weight">>, dst \o <<"attn", "qkv", "weight">>, "linear_transpose")}
      \cup NormRules(src \o <<"attn", "norm">>, dst \o <<"attn", "norm">>)
      \cup NormRules(src \o <<"mlp", "net", 0>>, dst \o <<"mlp", "norm">>)
      \cup LinearRules(src \o <<"attn", "to_out", 0>>, dst \o <<"attn", "proj">>)
      \cup LinearRules(src \o <<"mlp", "net", 1>>, dst \o <<"mlp", "fc1">>)
      \cup LinearRules(src \o <<"mlp", "net", 4>>, dst \o <<"mlp", "fc2">>)
      \cup LinearRules(src \o <<"adaLN_modulation", 1>>, dst \o <<"adaln", "linear">>)

PredictorRules ==
  {Single(<<"predictor", "pos_embedding">>, <<"predictor", "pos_embed">>, "identity")}
  \cup NormRules(<<"predictor", "transformer", "norm">>, <<"predictor", "norm">>)
  \cup UNION {PredictorLayerRules(layer) : layer \in 0..PredictorDepth - 1}

MlpRules(prefix) ==
  LinearRules(<<prefix, "net", 0>>, <<prefix, "fc1">>)
  \cup Kept(<<prefix, "net", 1>>, <<prefix, "norm">>,
            {<<<<end>>, <<end>>>> : end \in {"weight", "bias", "running_mean", "running_var"}})
  \cup {Single(<<prefix, "net", 1, "num_batches_tracked">>, <<prefix, "norm", "num_batches_tracked">>, "scalar_to_len1")}
  \cup LinearRules(<<prefix, "net", 3>>, <<prefix, "fc2">>)

ParameterRules ==
  EncoderRules \cup ActionEncoderRules \cup PredictorRules \cup MlpRules("projector") \cup MlpRules("pred_proj")

ExpectedSourceKeys == UNION {Range(rule.sources) : rule \in ParameterRules}
ExpectedDestinationKeys == {rule.destination : rule \in ParameterRules}

ApplyRule(rule, state) ==
  LET arrays == [i \in DOMAIN rule.sources |-> state[rule.sources[i]]] \o << >> IN
  CASE rule.transform = "identity" -> arrays[1]
    [] rule.transform = "linear_transpose" -> Transposed(arrays[1])
    [] rule.transform = "qkv_linear_concat_transpose" -> Transposed(Concatenated(arrays))
    [] rule.transform = "qkv_bias_concat" -> Concatenated(arrays)
    [] rule.transform = "scalar_to_len1" -> Tensor(arrays[1].dtype, <<1>>, arrays[1].data)

RuleOf(destination) == CHOOSE rule \in ParameterRules : rule.destination = destination
MapStateDict(state) == [destination \in ExpectedDestinationKeys |-> ApplyRule(RuleOf(destination), state)] @@ << >>

\* invert_rule: what the sources of a rule are, from its destination.
InvertRule(rule, t) ==
  CASE rule.transform = "identity" -> <<t>>
    [] rule.transform = "linear_transpose" -> <<Transposed(t)>>
    [] rule.transform = "scalar_to_len1" -> <<Tensor(t.dtype, << >>, t.data)>>
    [] rule.transform = "qkv_linear_concat_transpose" -> [k \in 1..3 |-> Part(Transposed(t), k)] \o << >>
    [] rule.transform = "qkv_bias_concat" -> [k \in 1..3 |-> Part(t, k)] \o << >>

\* The contract of the ONNX export: every destination and nothing else.
ContractHolds(tensors) == DOMAIN tensors = ExpectedDestinationKeys
RecoverStateDict(tensors) ==
  [key \in ExpectedSourceKeys |->
     LET rule == CHOOSE r \in ParameterRules : key \in Range(r.sources)
         position == CHOOSE i \in DOMAIN rule.sources : rule.sources[i] = key
     IN  [InvertRule(rule, tensors[rule.destination])[position] EXCEPT !.dtype = "F32"]] @@ << >>

-----------------------------------------------------------------------------
(* The module Jepa: its parameters and running state, as init makes them.   *)

Parameters(prefix, shapes) ==
  {[name |-> prefix \o <<field>>, dtype |-> "F32", shape |-> shapes[field]] : field \in DOMAIN shapes}
LinearParameters(prefix, inputs, outputs) == Parameters(prefix, [weight |-> <<inputs, outputs>>, bias |-> <<outputs>>])
NormParameters(prefix, size) == Parameters(prefix, [gamma |-> <<size>>, beta |-> <<size>>])

PatchEmbedParameters ==
  Parameters(<<"encoder", "embeddings", "patch_embed", "proj">>, [weight |-> <<HiddenSize, 1, 1, 1>>, bias |-> <<HiddenSize>>])
EmbeddingsParameters ==
  PatchEmbedParameters \cup
  Parameters(<<"encoder", "embeddings">>, [cls_token |-> <<1, 1, HiddenSize>>, pos_embed |-> <<1, NumPatches + 1, HiddenSize>>])
AttentionParameters(prefix) ==
  LinearParameters(prefix \o <<"qkv">>, HiddenSize, 3 * HiddenSize) \cup LinearParameters(prefix \o <<"proj">>, HiddenSize, HiddenSize)
MlpBlockParameters(prefix) ==
  LinearParameters(prefix \o <<"fc1">>, HiddenSize, InnerSize) \cup LinearParameters(prefix \o <<"fc2">>, InnerSize, HiddenSize)
EncoderBlockParameters(prefix) ==
  NormParameters(prefix \o <<"norm1">>, HiddenSize) \cup AttentionParameters(prefix \o <<"attn">>)
  \cup NormParameters(prefix \o <<"norm2">>, HiddenSize) \cup MlpBlockParameters(prefix \o <<"mlp">>)
VitParameters(depth) ==
  EmbeddingsParameters \cup NormParameters(<<"encoder", "norm">>, HiddenSize)
  \cup UNION {EncoderBlockParameters(<<"encoder", "blocks", layer>>) : layer \in 0..depth - 1}

EmbedderParameters ==
  Parameters(<<"action_encoder", "smoother">>, [weight |-> <<ActionSize, ActionSize, 1>>, bias |-> <<ActionSize>>])
  \cup LinearParameters(<<"action_encoder", "fc1">>, ActionSize, InnerSize)
  \cup LinearParameters(<<"action_encoder", "fc2">>, InnerSize, HiddenSize)

CausalSelfAttentionParameters(prefix) ==
  NormParameters(prefix \o <<"norm">>, HiddenSize)
  \cup Parameters(prefix \o <<"qkv">>, [weight |-> <<HiddenSize, 3 * InnerSize>>])
  \cup LinearParameters(prefix \o <<"proj">>, InnerSize, HiddenSize)
PredictorMlpParameters(prefix) == NormParameters(prefix \o <<"norm">>, HiddenSize) \cup MlpBlockParameters(prefix)
AdaLNParameters(prefix) == LinearParameters(prefix \o <<"linear">>, HiddenSize, 6 * HiddenSize)
ConditionalBlockParameters(prefix) ==
  CausalSelfAttentionParameters(prefix \o <<"attn">>) \cup PredictorMlpParameters(prefix \o <<"mlp">>)
  \cup AdaLNParameters(prefix \o <<"adaln">>)
ArPredictorParameters ==
  Parameters(<<"predictor">>, [pos_embed |-> <<1, NumFrames, HiddenSize>>])
  \cup UNION {ConditionalBlockParameters(<<"predictor", "blocks", layer>>) : layer \in 0..PredictorDepth - 1}
  \cup NormParameters(<<"predictor", "norm">>, HiddenSize)

NormBlockParameters(prefix) ==
  Parameters(prefix, [field \in {"weight", "bias", "running_mean", "running_var"} |-> <<InnerSize>>])
  \cup {[name |-> prefix \o <<"num_batches_tracked">>, dtype |-> "I64", shape |-> <<1>>]}
MlpParameters(name) ==
  LinearParameters(<<name, "fc1">>, HiddenSize, InnerSize) \cup NormBlockParameters(<<name, "norm">>)
  \cup LinearParameters(<<name, "fc2">>, InnerSize, HiddenSize)

\* The constants of SIGReg are state of the module too, made by init and named
\* to be left out of every file.
SigRegParameters == Parameters(<<"sigreg", "consts">>, [field \in {"t_grid", "phi", "window", "trap"} |-> <<2>>])
IsGenerated(name) == SubSeq(name, 1, 2) = <<"sigreg", "consts">>

JepaParameters(depth) ==
  VitParameters(depth) \cup EmbedderParameters \cup ArPredictorParameters
  \cup MlpParameters("projector") \cup MlpParameters("pred_proj") \cup SigRegParameters

\* Somebody's tensors for what is declared, by name.
Filled(owner, declared) ==
  LET DeclarationOf(name) == CHOOSE p \in declared : p.name = name
  IN  [name \in {p.name : p \in declared} |->
         Fresh(owner, name, DeclarationOf(name).dtype, DeclarationOf(name).shape)] @@ << >>

Blank == Filled("initial", JepaParameters(EncoderDepth))

\* apply_tensors_to_jepa with MissingPolicy::Strict: a parameter without a
\* tensor, a tensor of another dtype or shape, and a tensor without a parameter
\* are errors; all are looked for, then the load fails.
Fits(tensors) ==
  /\ \A name \in DOMAIN Blank : IsGenerated(name) \/ name \in DOMAIN tensors
  /\ \A name \in DOMAIN tensors :
       name \in DOMAIN Blank /\ tensors[name].dtype = Blank[name].dtype /\ tensors[name].shape = Blank[name].shape

LoadedModel(tensors) == [name \in DOMAIN Blank |-> IF name \in DOMAIN tensors THEN tensors[name] ELSE Blank[name]] @@ << >>

\* collect_parameters: everything but what init generates.
Collected(model) == [name \in {n \in DOMAIN model : ~IsGenerated(n)} |-> model[name]] @@ << >>

-----------------------------------------------------------------------------
(* The state dict of the reference, with some hidden size.                  *)

TorchDenseShapes(prefix, inputs, outputs) == Parameters(prefix, [weight |-> <<outputs, inputs>>, bias |-> <<outputs>>])
TorchNormShapes(prefix, size) == Parameters(prefix, [weight |-> <<size>>, bias |-> <<size>>])
ReferenceLayer(src, hidden) ==
  UNION {TorchDenseShapes(src \o <<"attention", "attention", which>>, hidden, hidden) : which \in Range(Thirds)}
  \cup UNION {TorchNormShapes(src \o <<norm>>, hidden) : norm \in {"layernorm_before", "layernorm_after"}}
  \cup TorchDenseShapes(src \o <<"attention", "output", "dense">>, hidden, hidden)
  \cup TorchDenseShapes(src \o <<"intermediate", "dense">>, hidden, InnerSize)
  \cup TorchDenseShapes(src \o <<"output", "dense">>, InnerSize, hidden)
ReferencePredictorLayer(src, hidden) ==
  Parameters(src \o <<"attn", "to_qkv">>, [weight |-> <<3 * InnerSize, hidden>>])
  \cup TorchNormShapes(src \o <<"attn", "norm">>, hidden) \cup TorchNormShapes(src \o <<"mlp", "net", 0>>, hidden)
  \cup TorchDenseShapes(src \o <<"attn", "to_out", 0>>, InnerSize, hidden)
  \cup TorchDenseShapes(src \o <<"mlp", "net", 1>>, hidden, InnerSize)
  \cup TorchDenseShapes(src \o <<"mlp", "net", 4>>, InnerSize, hidden)
  \cup TorchDenseShapes(src \o <<"adaLN_modulation", 1>>, hidden, 6 * hidden)
ReferenceMlp(name, hidden) ==
  TorchDenseShapes(<<name, "net", 0>>, hidden, InnerSize) \cup TorchDenseShapes(<<name, "net", 3>>, InnerSize, hidden)
  \cup Parameters(<<name, "net", 1>>, [field \in {"weight", "bias", "running_mean", "running_var"} |-> <<InnerSize>>])
  \cup {[name |-> <<name, "net", 1, "num_batches_tracked">>, dtype |-> "I64", shape |-> << >>]}
ReferenceParameters(hidden) ==
  Parameters(<<"encoder", "embeddings", "patch_embeddings", "projection">>, [weight |-> <<hidden, 1, 1, 1>>, bias |-> <<hidden>>])
  \cup Parameters(<<"encoder", "embeddings">>, [cls_token |-> <<1, 1, hidden>>, position_embeddings |-> <<1, NumPatches + 1, hidden>>])
  \cup UNION {ReferenceLayer(<<"encoder", "encoder", "layer", layer>>, hidden) : layer \in 0..EncoderDepth - 1}
  \cup TorchNormShapes(<<"encoder", "layernorm">>, hidden)
  \cup Parameters(<<"action_encoder", "patch_embed">>, [weight |-> <<ActionSize, ActionSize, 1>>, bias |-> <<ActionSize>>])
  \cup TorchDenseShapes(<<"action_encoder", "embed", 0>>, ActionSize, InnerSize)
  \cup TorchDenseShapes(<<"action_encoder", "embed", 2>>, InnerSize, hidden)
  \cup Parameters(<<"predictor">>, [pos_embedding |-> <<1, NumFrames, hidden>>])
  \cup UNION {ReferencePredictorLayer(<<"predictor", "transformer", "layers", layer>>, hidden) : layer \in 0..PredictorDepth - 1}
  \cup TorchNormShapes(<<"predictor", "transformer", "norm">>, hidden)
  \cup ReferenceMlp("projector", hidden) \cup ReferenceMlp("pred_proj", hidden)

-----------------------------------------------------------------------------
(* Terms.                                                                   *)

Term(op, args, data) == [op |-> op, args |-> args, shape |-> << >>, data |-> data]
Weight(t) == [op |-> <<"parameter">>, args |-> << >>, shape |-> t.shape, data |-> t.data]
Given(kind, n) == Term(<<"given", kind, n>>, << >>, << >>)

\* A linear map by its output features, each the weights of its inputs in
\* order and, where there is one, its bias.
Affine(x, features) == Term(<<"affine">>, <<x>>, features)

\* burn nn::Linear keeps a weight as inputs by outputs; torch F.linear takes
\* it as outputs by inputs.
BurnLinear(x, w, b) == Affine(x, [j \in 1..w.shape[2] |-> Append(Column(w, j), b.data[j])] \o << >>)
TorchLinear(x, w, b) == Affine(x, [i \in 1..w.shape[1] |-> Append(Row(w, i), b.data[i])] \o << >>)
BurnMatmul(x, w) == Affine(x, [j \in 1..w.shape[2] |-> Column(w, j)] \o << >>)
TorchMatmul(x, w) == Affine(x, [i \in 1..w.shape[1] |-> Row(w, i)] \o << >>)

ChunkOf(x, k, n) ==
  LET width == Len(x.data) \div n IN Affine(x.args[1], SubSeq(x.data, (k - 1) * width + 1, k * width))
\* Row n of a position embedding [1, rows, features].
PositionRow(t, n) == Term(<<"position">>, << >>, SubSeq(t.data, (n - 1) * t.shape[3] + 1, n * t.shape[3]))

BurnApply(op, args) ==
  CASE op[1] = "linear" -> BurnLinear(args[1], args[2], args[3])
    [] op[1] = "matmul" -> BurnMatmul(args[1], args[2])
    [] op[1] = "chunk" -> ChunkOf(args[1], op[2], op[3])
    [] op[1] = "position" -> PositionRow(args[1], op[2])
    [] op[1] \in {"layer_norm", "standardize", "normalize"} -> Term(<<op[1]>>, args, << >>)
    [] OTHER -> Term(op, args, << >>)

Burn(model) == INSTANCE Forward
  WITH Apply <- BurnApply, Parameter <- LAMBDA name : Weight(model[name]), LayerNormEps <- "",
       HistorySize <- NumFrames, Horizon <- NumFrames + 1

-----------------------------------------------------------------------------
(* The network of the Python tools, by the names of the state dict.         *)

Rowwise(Op(_), xs) == [i \in DOMAIN xs |-> Op(xs[i])] \o << >>
TorchNorm(state, name, x) == Term(<<"layer_norm">>, <<x, Weight(state[name \o <<"weight">>]), Weight(state[name \o <<"bias">>])>>, << >>)
TorchStandardize(x) == Term(<<"standardize">>, <<x>>, << >>)
TorchDense(state, name, x) == TorchLinear(x, state[name \o <<"weight">>], state[name \o <<"bias">>])
TorchGelu(x) == Term(<<"gelu", "erf">>, <<x>>, << >>)
TorchSilu(x) == Term(<<"silu">>, <<x>>, << >>)
TorchAdd(x, y) == Term(<<"add">>, <<x, y>>, << >>)
TorchMul(x, y) == Term(<<"mul">>, <<x, y>>, << >>)

\* softmax(q k') v of query i, over the first seen positions.
TorchAttended(q, k, v, i, seen) ==
  Term(<<"attend">>, <<q[i]>> \o SubSeq(k, 1, seen) \o SubSeq(v, 1, seen), << >>)

TorchEncoderLayer(state, src, x) ==
  LET normed == Rowwise(LAMBDA t : TorchNorm(state, src \o <<"layernorm_before">>, t), x)
      Projection(which) == Rowwise(LAMBDA t : TorchDense(state, src \o <<"attention", "attention", which>>, t), normed)
      q == Projection("query")
      k == Projection("key")
      v == Projection("value")
      mixed == [i \in DOMAIN x |-> TorchAdd(x[i], TorchDense(state, src \o <<"attention", "output", "dense">>,
                                                              TorchAttended(q, k, v, i, Len(x))))] \o << >>
      Mlp(t) == TorchDense(state, src \o <<"output", "dense">>,
                  TorchGelu(TorchDense(state, src \o <<"intermediate", "dense">>, TorchNorm(state, src \o <<"layernorm_after">>, t))))
  IN  Rowwise(LAMBDA t : TorchAdd(t, Mlp(t)), mixed)

TorchEncoder(state, image) ==
  LET projection == <<"encoder", "embeddings", "patch_embeddings", "projection">>
      patches == Rowwise(LAMBDA p : Term(<<"conv2d">>, <<p, Weight(state[projection \o <<"weight">>]),
                                                            Weight(state[projection \o <<"bias">>])>>, << >>), image)
      cls == <<Weight(state[<<"encoder", "embeddings", "cls_token">>])>> \o patches
      x[layer \in 0..EncoderDepth] ==
        IF layer = 0
        THEN [n \in DOMAIN cls |-> TorchAdd(cls[n], PositionRow(state[<<"encoder", "embeddings", "position_embeddings">>], n))] \o << >>
        ELSE TorchEncoderLayer(state, <<"encoder", "encoder", "layer", layer - 1>>, x[layer - 1])
  IN  TorchNorm(state, <<"encoder", "layernorm">>, x[EncoderDepth][1])

TorchMlpBn(state, prefix, x) ==
  LET OfNorm(end) == Weight(state[<<prefix, "net", 1, end>>])
      hidden == TorchDense(state, <<prefix, "net", 0>>, x)
  IN  TorchDense(state, <<prefix, "net", 3>>,
        TorchGelu(Term(<<"normalize">>, <<hidden, OfNorm("running_mean"), OfNorm("running_var"), OfNorm("weight"), OfNorm("bias")>>, << >>)))

TorchActionEncoder(state, a) ==
  LET smoothed == Term(<<"conv1d">>, <<a, Weight(state[<<"action_encoder", "patch_embed", "weight">>]),
                                          Weight(state[<<"action_encoder", "patch_embed", "bias">>])>>, << >>)
  IN  TorchDense(state, <<"action_encoder", "embed", 2>>, TorchSilu(TorchDense(state, <<"action_encoder", "embed", 0>>, smoothed)))

TorchModulated(x, shift, scale) == TorchAdd(TorchMul(TorchStandardize(x), Term(<<"one_plus">>, <<scale>>, << >>)), shift)

TorchPredictorLayer(state, src, tokens, conditioning) ==
  LET mods == Rowwise(LAMBDA c : TorchDense(state, src \o <<"adaLN_modulation", 1>>, TorchSilu(c)), conditioning)
      Mod(k, i) == ChunkOf(mods[i], k, 6)   \* shift, scale, gate of attention, then of the MLP
      qkv == [i \in DOMAIN tokens |->
                TorchMatmul(TorchNorm(state, src \o <<"attn", "norm">>, TorchModulated(tokens[i], Mod(1, i), Mod(2, i))),
                            state[src \o <<"attn", "to_qkv", "weight">>])] \o << >>
      Third(k) == Rowwise(LAMBDA t : ChunkOf(t, k, 3), qkv)
      q == Third(1)
      k == Third(2)
      v == Third(3)
      mixed == [i \in DOMAIN tokens |->
                  TorchAdd(tokens[i], TorchMul(Mod(3, i), TorchDense(state, src \o <<"attn", "to_out", 0>>,
                                                                      TorchAttended(q, k, v, i, i))))] \o << >>
      Mlp(x) == TorchDense(state, src \o <<"mlp", "net", 4>>,
                  TorchGelu(TorchDense(state, src \o <<"mlp", "net", 1>>, TorchNorm(state, src \o <<"mlp", "net", 0>>, x))))
  IN  [i \in DOMAIN tokens |-> TorchAdd(mixed[i], TorchMul(Mod(6, i), Mlp(TorchModulated(mixed[i], Mod(4, i), Mod(5, i)))))] \o << >>

TorchPredictor(state, context, conditioning) ==
  LET tokens[layer \in 0..PredictorDepth] ==
        IF layer = 0
        THEN [i \in DOMAIN context |-> TorchAdd(context[i], PositionRow(state[<<"predictor", "pos_embedding">>], i))] \o << >>
        ELSE TorchPredictorLayer(state, <<"predictor", "transformer", "layers", layer - 1>>, tokens[layer - 1], conditioning)
  IN  Rowwise(LAMBDA t : TorchNorm(state, <<"predictor", "transformer", "norm">>, t), tokens[PredictorDepth])

\* The two graphs of the ONNX export; the second takes NumFrames steps.
EncoderGraph(state, image) == TorchMlpBn(state, "projector", TorchEncoder(state, image))
PredictorGraph(state, history, actions) ==
  Rowwise(LAMBDA t : TorchMlpBn(state, "pred_proj", t),
            TorchPredictor(state, history, Rowwise(LAMBDA a : TorchActionEncoder(state, a), actions)))

\* What a network answers, by either code.
SomeImage == [n \in 1..NumPatches |-> Given("patch", n)] \o << >>
SomeContext(T) == [n \in 1..T |-> Given("context", n)] \o << >>
SomeActions(T) == [n \in 1..T |-> Given("action", n)] \o << >>

BurnAnswers(model) ==
  [encoded |-> Burn(model)!Encode(FALSE, <<<<SomeImage>>>>)[1][1],
   predicted |-> [T \in 1..NumFrames |-> Burn(model)!Predict(FALSE, <<SomeContext(T)>>, <<SomeActions(T)>>)[1]] \o << >>]
TorchAnswers(state) ==
  [encoded |-> EncoderGraph(state, SomeImage),
   predicted |-> [T \in 1..NumFrames |-> PredictorGraph(state, SomeContext(T), SomeActions(T))] \o << >>]
=============================================================================
