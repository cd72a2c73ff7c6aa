---------------------------- MODULE BoundedCore ----------------------------
(***************************************************************************)
(* The model of the bounded training modes and its hand-written backward   *)
(* pass (lewm-train/src/pusht_full.rs), with the samples it is trained on  *)
(* (trainer.rs) and the partition of its parameters (optim.rs).            *)
(*                                                                         *)
(* Parameters and features are integers.  The two scales of the code are   *)
(* kept exact: a loss is multiplied by 2 * HiddenDim^2 (hidden_scale is    *)
(* 1/HiddenDim), and ActionScale stands for 1/sqrt(action_emb_dim), of     *)
(* which the backward pass only assumes that it is the factor of the       *)
(* forward pass.                                                           *)
(***************************************************************************)
EXTENDS Integers, Sequences, FiniteSets, FiniteSetsExt

CONSTANTS
  HiddenDim, EmbDim, RawActionDim, Frameskip, History,   \* of JepaConfig and the data set
  Channels,      \* IMAGE_CHANNELS
  ActionScale,   \* 1 / sqrt(action_emb_dim)
  Lambda,        \* loss.lambda_sigreg
  Fills,         \* parameter values, as functions of the flat index
  Windows        \* samples

ASSUME BoundedAssumption ==
  /\ {HiddenDim, EmbDim, RawActionDim, Frameskip, History, Channels} \subseteq Nat \ {0}
  /\ ActionScale \in Int /\ Lambda \in Nat

PackedDim == RawActionDim * Frameskip
Upto(n) == 0..n-1

\* The sum of f over a..b.
Total(a, b, f(_)) == LET sum[n \in Int] == IF n < a THEN 0 ELSE sum[n - 1] + f(n) IN sum[b]
Sum0(n, f(_)) == Total(0, n - 1, f)

-----------------------------------------------------------------------------
(* Parameters: one flat vector, cut into the slices of the layout.          *)

Slot(module, kind, rows, cols, decay) ==
  [name |-> <<module, kind>>, rows |-> rows, cols |-> cols, decay |-> decay]

Layout ==
  << Slot("encoder", "bias", HiddenDim, 1, FALSE),
     Slot("encoder.pixel_mean", "weight", HiddenDim, 1, TRUE),
     Slot("encoder.pixel_energy", "weight", HiddenDim, 1, TRUE),
     Slot("encoder.channel_mean", "weight", HiddenDim, Channels, TRUE),
     Slot("encoder.time", "weight", HiddenDim, 1, TRUE),
     Slot("action_encoder", "bias", EmbDim, 1, FALSE),
     Slot("action_encoder.input", "weight", EmbDim, PackedDim, TRUE),
     Slot("predictor", "bias", HiddenDim, 1, FALSE),
     Slot("predictor.history", "weight", HiddenDim, History, TRUE),
     Slot("predictor.action", "weight", HiddenDim, EmbDim, TRUE),
     Slot("projector", "bias", HiddenDim, 1, FALSE),
     Slot("projector", "weight", HiddenDim, 1, TRUE),
     Slot("pred_proj", "bias", HiddenDim, 1, FALSE),
     Slot("pred_proj", "weight", HiddenDim, 1, TRUE) >>

ElementCount(k) == Layout[k].rows * Layout[k].cols

\* push_values appends each slice after the ones before it.
StartOf(k) == Total(1, k - 1, LAMBDA j : ElementCount(j))

Starts == [k \in DOMAIN Layout |-> StartOf(k)]
SliceOf(k) == Starts[k]..Starts[k] + ElementCount(k) - 1
ParameterCount == Total(1, Len(Layout), ElementCount)
Indexes == Upto(ParameterCount)

SlotNo(name) == CHOOSE k \in DOMAIN Layout : Layout[k].name = name
Flat(k, row, col) == Starts[k] + row * Layout[k].cols + col

Bias(module) == SlotNo(<<module, "bias">>)
Weight(module) == SlotNo(<<module, "weight">>)
SlotNos ==
  [eb |-> Bias("encoder"), ep |-> Weight("encoder.pixel_mean"), ee |-> Weight("encoder.pixel_energy"),
   ec |-> Weight("encoder.channel_mean"), et |-> Weight("encoder.time"),
   ab |-> Bias("action_encoder"), aw |-> Weight("action_encoder.input"),
   rb |-> Bias("predictor"), rh |-> Weight("predictor.history"), ra |-> Weight("predictor.action"),
   jb |-> Bias("projector"), jw |-> Weight("projector"),
   qb |-> Bias("pred_proj"), qw |-> Weight("pred_proj")]

\* The parameters as matrices, by the short names of their slices.
Matrices(flat) ==
  [s \in DOMAIN SlotNos |->
     LET k == SlotNos[s]
     IN  [at \in Upto(Layout[k].rows) \X Upto(Layout[k].cols) |-> flat[Flat(k, at[1], at[2])]]]
At(p, s, row, col) == p[s][row, col]

\* parameter_spec_for_flat_index: the first slice that holds the index, else the last.
SpecOf(i) ==
  LET holding == {k \in DOMAIN Layout : i \in SliceOf(k)}
  IN  Layout[IF holding = {} THEN Len(Layout) ELSE Min(holding)]

\* uses_weight_decay, for names whose modules are no norms, tokens or embeddings
DecaysByName(name) == name[2] # "bias" /\ name[2] = "weight"
UsesWeightDecay(name) == DecaysByName(name)

Decayed == {i \in Indexes : SpecOf(i).decay}

-----------------------------------------------------------------------------
(* Samples of the data sets.                                                *)

\* validate_full_lewm_sample, and the frame count
SampleRefused(w) ==
  \/ w.actionDim # RawActionDim
  \/ w.channels # Channels
  \/ Len(w.frames) <= History

ImageFeatures(w, k) ==
  [pixel |-> w.frames[k+1].pixel, energy |-> w.frames[k+1].energy,
   channel |-> w.frames[k+1].channel, time |-> w.start + k]

\* The actions from the target on, the last one repeated beyond the window.
PackedAction(w) ==
  [j \in Upto(PackedDim) |->
     LET at == Min({History + (j \div RawActionDim), Len(w.actions) - 1})
     IN  w.actions[at+1][(j % RawActionDim) + 1]]

ExampleOf(w) ==
  [frames |-> [k \in 0..History |-> ImageFeatures(w, k)], action |-> PackedAction(w)]

-----------------------------------------------------------------------------
(* The forward pass.  Frame History of an example is its target, the others *)
(* are its sources.                                                         *)

EncodeFrame(p, f) ==
  [d \in Upto(HiddenDim) |->
     At(p, "eb", d, 0) + At(p, "ep", d, 0) * f.pixel + At(p, "ee", d, 0) * f.energy
     + At(p, "et", d, 0) * f.time
     + Sum0(Channels, LAMBDA c : At(p, "ec", d, c) * f.channel[c+1])]

EncodeAction(p, a) ==
  [e \in Upto(EmbDim) |->
     At(p, "ab", e, 0) + Sum0(PackedDim, LAMBDA j : At(p, "aw", e, j) * a[j])]

AffineDiag(p, weight, bias, x) ==
  [d \in Upto(HiddenDim) |-> At(p, bias, d, 0) + At(p, weight, d, 0) * x[d]]

PredictNext(p, sources, embedding) ==
  [d \in Upto(HiddenDim) |->
     At(p, "rb", d, 0) + Sum0(History, LAMBDA h : At(p, "rh", d, h) * sources[h][d])
     + Sum0(EmbDim, LAMBDA e : At(p, "ra", d, e) * embedding[e] * ActionScale)]

Forward(p, x) ==
  LET encoded == [k \in 0..History |-> EncodeFrame(p, x.frames[k])]
      projected == [k \in 0..History |-> AffineDiag(p, "jw", "jb", encoded[k])]
      embedding == EncodeAction(p, x.action)
      raw == PredictNext(p, projected, embedding)
  IN  [encoded |-> encoded, projected |-> projected, embedding |-> embedding, raw |-> raw,
       predicted |-> AffineDiag(p, "qw", "qb", raw)]

Residual(y) == [d \in Upto(HiddenDim) |-> y.predicted[d] - y.projected[History][d]]
\* sigreg_moment_proxy: mean square minus one, times HiddenDim
Excess(y) == Sum0(HiddenDim, LAMBDA d : y.projected[History][d] * y.projected[History][d]) - HiddenDim

LossOf(p, x) ==
  LET y == Forward(p, x) r == Residual(y) s == Excess(y)
  IN  2 * HiddenDim * Sum0(HiddenDim, LAMBDA d : r[d] * r[d]) + Lambda * s * s

-----------------------------------------------------------------------------
(* The backward pass.                                                       *)

GradPredicted(y) == [d \in Upto(HiddenDim) |-> 4 * HiddenDim * Residual(y)[d]]

\* A target treated as a constant of the prediction loss is a deviation.
DetachedTarget(y) == [d \in Upto(HiddenDim) |-> 4 * Lambda * Excess(y) * y.projected[History][d]]
GradTarget(y) ==
  [d \in Upto(HiddenDim) |-> 4 * Lambda * Excess(y) * y.projected[History][d] - 4 * HiddenDim * Residual(y)[d]]

LossAndGradients(p, x) ==
  LET y == Forward(p, x)
      gradPredicted == GradPredicted(y)
      gradRaw == [d \in Upto(HiddenDim) |-> gradPredicted[d] * At(p, "qw", d, 0)]
      gradEmbedding == [e \in Upto(EmbDim) |->
        Sum0(HiddenDim, LAMBDA d : gradRaw[d] * At(p, "ra", d, e) * ActionScale)]
      gradProjected == [k \in 0..History |->
        IF k = History THEN GradTarget(y)
        ELSE [d \in Upto(HiddenDim) |-> gradRaw[d] * At(p, "rh", d, k)]]
      gradEncoded == [k \in 0..History |->
        [d \in Upto(HiddenDim) |-> gradProjected[k][d] * At(p, "jw", d, 0)]]
      overFrames(d, g, f(_)) == Total(0, History, LAMBDA k : g[k][d] * f(k))
      one(k) == 1
      grad(s, d, c) ==
        CASE s = "qb" -> gradPredicted[d]
          [] s = "qw" -> gradPredicted[d] * y.raw[d]
          [] s = "rb" -> gradRaw[d]
          [] s = "rh" -> gradRaw[d] * y.projected[c][d]
          [] s = "ra" -> gradRaw[d] * y.embedding[c] * ActionScale
          [] s = "ab" -> gradEmbedding[d]
          [] s = "aw" -> gradEmbedding[d] * x.action[c]
          [] s = "jb" -> overFrames(d, gradProjected, one)
          [] s = "jw" -> overFrames(d, gradProjected, LAMBDA k : y.encoded[k][d])
          [] s = "eb" -> overFrames(d, gradEncoded, one)
          [] s = "ep" -> overFrames(d, gradEncoded, LAMBDA k : x.frames[k].pixel)
          [] s = "ee" -> overFrames(d, gradEncoded, LAMBDA k : x.frames[k].energy)
          [] s = "et" -> overFrames(d, gradEncoded, LAMBDA k : x.frames[k].time)
          [] s = "ec" -> overFrames(d, gradEncoded, LAMBDA k : x.frames[k].channel[c+1])
  IN  [loss |-> LossOf(p, x),
       gradients |-> [i \in Indexes |->
         LET s == CHOOSE s \in DOMAIN SlotNos : i \in SliceOf(SlotNos[s])
             k == SlotNos[s]
             off == i - Starts[k]
         IN  grad(s, off \div Layout[k].cols, off % Layout[k].cols)]]

-----------------------------------------------------------------------------
VARIABLES
  params,    \* the flat parameters
  window,    \* the sample
  outcome    \* what loss_and_gradients returned
coreVars == <<params, window, outcome>>

NoOutcome == [loss |-> 0, gradients |-> << >>]
Refusal == [loss |-> -1, gradients |-> << >>]

CoreInit ==
  /\ \E f \in Fills : params = [i \in Indexes |-> f[i % Cardinality(DOMAIN f)]]
  /\ window \in Windows
  /\ outcome = NoOutcome

TrainOnSample ==
  /\ outcome = NoOutcome
  /\ IF SampleRefused(window) THEN outcome' = Refusal
     ELSE \E o \in {LossAndGradients(Matrices(params), ExampleOf(window))} : outcome' = o
  /\ UNCHANGED <<params, window>>

-----------------------------------------------------------------------------
(* Properties.                                                              *)

Nudged(i, by) == [params EXCEPT ![i] = @ + by]
LossAt(i, by) == LossOf(Matrices(Nudged(i, by)), ExampleOf(window))

\* The hand-written backward pass is the derivative of the forward pass for
\* every parameter.  The loss has degree four or less in each one, so that the
\* five-point difference quotient below is exact.
GradientIsTheDerivative ==
  outcome.gradients # << >> =>
    \A i \in Indexes :
      12 * outcome.gradients[i]
        = LossAt(i, -2) - 8 * LossAt(i, -1) + 8 * LossAt(i, 1) - LossAt(i, 2)

\* The slices cover the flat vector without overlap, every index is looked up in
\* the slice that owns it, and the flag the update reads agrees with the
\* partition of the optimizer by name.
EveryParameterHasItsSlice ==
  outcome.gradients # << >> =>
  /\ UNION {SliceOf(k) : k \in DOMAIN Layout} = Indexes
  /\ \A j, k \in DOMAIN Layout : j # k => SliceOf(j) \intersect SliceOf(k) = {}
  /\ Decayed = UNION {SliceOf(k) : k \in {j \in DOMAIN Layout : UsesWeightDecay(Layout[j].name)}}

\* The update of the bounded modes moves each parameter along the derivative of
\* the loss, and decays exactly those the optimizer's partition names.
BackwardPassIsExact == GradientIsTheDerivative /\ EveryParameterHasItsSlice
=============================================================================
