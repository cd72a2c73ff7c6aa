----------------------------- MODULE TrainingMC -----------------------------
(***************************************************************************)
(* Model-checking instance of what leads to a trained model: its           *)
(* configuration, its data, one sample of the bounded model, the flow      *)
(* through the full one, its tensor operations, the loops, and what a      *)
(* checkpoint carries.  They share no variable, so that a behaviour is one *)
(* of one of them: part says which, and the others rest.                   *)
(***************************************************************************)
EXTENDS TrainingConfig, Dataset, BoundedCore, ModelFlow, TensorOps, Training, SavedState

VARIABLE part

-----------------------------------------------------------------------------
(* Configurations.                                                          *)

Versioned == <<"schema_version">> :> "1.0.0"
Entry(section, name, value) == <<section, name>> :> value
So100File ==
  Versioned @@ Entry("dataset", "kind", "so100") @@ Entry("eval", "kind", "so100_latent_rollout")
  @@ Entry("training", "warmup_steps", 500) @@ (<<"model", "action_encoder", "input_dim">> :> 6)
WindowFile(horizon, history) ==
  Versioned
  @@ [p \in {"dataset", "model", "training"} \X {"horizon", "history_size"} |->
        IF p[2] = "horizon" THEN horizon ELSE history]
FullModel == Entry("experimental", "pusht_train_mode", "full_burn_jepa")
McFiles ==
  {<< >>, Versioned, <<"schema_version">> :> "2.0.0", So100File, So100File @@ Entry("dataset", "camera_view", "wrist"),
   So100File @@ Entry("dataset", "frameskip", 5), So100File @@ Entry("eval", "episode_ids", <<5>>),
   WindowFile(3, 2), WindowFile(5, 3), WindowFile(3, 3), FullModel @@ WindowFile(6, 3),
   Versioned @@ Entry("dataset", "raw_action_dim", 1) @@ Entry("dataset", "frameskip", 10),
   Versioned @@ Entry("dataset", "kind", "so100"), Versioned @@ Entry("training", "wieght_decay", 1),
   Versioned @@ (<<"training">> :> WrongType),
   Versioned @@ (<<"model", "encoder", "hidden_size">> :> 96) @@ (<<"model", "projector", "input_dim">> :> 96)}
Seed(n) == Entry("training", "seed", n)
McEnvironments == {<< >>, Seed(3), Seed(9), Entry("training", "lr_peak", 5000) @@ Seed(1)}
Option(p, value) == <<<<p, value>>>>
McOptions ==
  {<< >>, Option(<<"training", "seed">>, 2) \o Option(<<"training", "seed">>, 4), Option(<<"seed">>, 2),
   Option(<<"dataset", "kind">>, "so100"), Option(<<"training", "batch_size">>, 1024),
   Option(<<"training", "seed", "x">>, 1), Option(<<"dataset", "horizon">>, 3),
   Option(<<"training", "lr_min">>, 1000), Option(<<"training", "betas">>, <<95, 90>>),
   Option(<<"dataset", "history_size">>, 2), Option(<<"training", "precision">>, WrongType),
   Option(<<"model", "encoder", "num_channels">>, 1)}

-----------------------------------------------------------------------------
(* Data: two episodes with an id per row; two recordings of one id; episodes *)
(* that do not start at zero; one id per episode, and another frame size.    *)

Shard(ids, steps, side, actions) ==
  [episode_index |-> ids, timestep |-> steps, lengths |-> {Len(steps)}, channels |-> 3,
   actionDim |-> 2, types |-> "declared", side |-> side, actions |-> actions]
PerRow == Shard(<<7, 7, 7, 0, 0>>, <<0, 1, 2, 0, 1>>, 2, <<1, 3, 2, 4, 4>>)
Twice == Shard(<<7, 7, 7, 7>>, <<0, 1, 0, 1>>, 2, <<1, 2, 3, 4>>)
Late == Shard(<<7, 7, 3, 3>>, <<4, 5, 6, 7>>, 2, <<1, 1, 1, 1>>)
PerEpisode == Shard(<<0, 3>>, <<0, 1, 0, 1, 2>>, 3, <<1, 2, 3, 4, 5>>)
Spare == Shard(<<3, 0, 9>>, <<0, 1, 2, 3>>, 2, <<1, 2, 3, 4>>)
ForArm(s) == [s EXCEPT !.actionDim = 6]
McDisks ==
  {<< >>, <<PerRow>>, <<PerRow, PerEpisode>>, <<Late, Twice>>, <<Spare>>,
   <<ForArm(PerRow)>>, <<ForArm(PerEpisode)>>, <<ForArm(Late)>>,
   <<[PerRow EXCEPT !.types = "pixels"]>>, <<[PerRow EXCEPT !.types = "index"]>>,
   <<[PerRow EXCEPT !.channels = 1]>>, <<[PerRow EXCEPT !.lengths = {4, 5}]>>,
   <<Shard(<<3>>, <<0, 1, 0, 1>>, 2, <<1, 2, 3, 4>>)>>,
   <<Shard(<<-1, -1>>, <<0, 1>>, 2, <<1, 2>>)>>,
   <<[PerRow EXCEPT !.actions = <<1, NotFiniteAction, 2, 4, 4>>]>>}
McEval == [pusht |-> {0}, so100 |-> {3}]

-----------------------------------------------------------------------------
(* Samples and parameters of the model.                                     *)

McFills == {[i \in 0..6 |-> (((a * i) + (b * i * i)) % 5) - 2] : a \in 1..3, b \in 0..3}
Frame(pixel, energy) == [pixel |-> pixel, energy |-> energy, channel |-> <<pixel - energy, 1>>]
Sample(frames, actionDim, actions) ==
  [frames |-> frames, channels |-> 2, actionDim |-> actionDim, start |-> Len(actions), actions |-> actions]
McWindows ==
  {Sample(<<Frame(1, 0), Frame(a, 2), Frame(0, b), Frame(1, 1)>>, 1, <<<<1>>, <<b>>, <<2>>, <<a>>>>) :
     a \in {0, 1}, b \in {0, 2}}
  \union {Sample(<<Frame(1, 0), Frame(0, 1)>>, 1, <<<<1>>, <<1>>>>),
          Sample(<<Frame(1, 0), Frame(0, 1), Frame(0, 1)>>, 2, <<<<1>>, <<1>>>>)}

-----------------------------------------------------------------------------
(* Grids of patches: one of one, of four and of nine; one of two features;   *)
(* three patches are no grid.                                               *)

McEmbeddings ==
  {FromValues(1, 2, <<9, 4, 1, 2>>), FromValues(4, 1, <<7, 0, 3, 5, 1>>), FromValues(3, 1, <<1, 2, 3, 4>>),
   FromValues(9, 1, <<5, 1, 0, 2, 4, 3, 1, 0, 2, 6>>), FromValues(4, 2, <<7, 8, 0, 1, 3, 2, 5, 5, 1, 4>>)}

-----------------------------------------------------------------------------
(* Checkpoints: the action encoder of the source is wider, so that what      *)
(* follows it lies elsewhere in the source than in the model.               *)

McStreamSeed ==
  [name \in StreamNames |->
     CASE name = "data_shuffle" -> <<255, 0, 17, 3>> [] name = "sigreg_sketch" -> <<1, 2, 3, 4>>
       [] name = "dropout" -> <<9, 8, 7, 6>> [] name = "cem" -> <<250, 251, 252, 253>>
       [] OTHER -> <<64, 128, 191, 77>>]
Parameter(name, shape) == [name |-> name, shape |-> shape]
McParameters(inputs) ==
  <<Parameter("encoder.bias", <<2>>), Parameter("action_encoder.weight", <<1, inputs>>),
    Parameter("predictor.bias", <<1>>)>>
McSpecs == McParameters(1)
McSourceSpecs == McParameters(2)
McInitialModel == <<7, 0, 22, 9>>
McSourceModels == {<<6, 13, 5, 30, 1030>>}
McTransferNames == {"encoder.bias", "predictor.bias"}

\* The words of the data_shuffle stream of each seed.
McWord == [s \in {0, 3} |-> [k \in 1..40 |-> (((7 * k * k) + (5 * s) + (k \div 3)) % 16)]]

-----------------------------------------------------------------------------

PartsInit ==
  /\ part \in {"loops", "config", "trainer_data", "stats", "core", "flow", "tensors", "saved"}
  /\ IF part = "config" THEN ConfigInit
     ELSE request = [file |-> << >>, env |-> << >>, sets |-> << >>] /\ loaded = Failed("not yet") /\ trained = "no"
  /\ DataInit /\ (part \notin {"trainer_data", "stats"} => family = "pusht" /\ disk = << >>)
  /\ IF part = "core" THEN CoreInit ELSE params = << >> /\ window = << >> /\ outcome = NoOutcome
  /\ FlowInit /\ TensorInit /\ SavedInit
  /\ TrainingInit /\ (part # "loops" => mode = "smoke")

\* The trainer and compute_stats are processes of their own.
PartsNext ==
  /\ UNCHANGED part
  /\ \/ part = "loops" /\ TrainingNext
        /\ UNCHANGED <<configVars, dataVars, coreVars, flowVars, tensorVars, savedVars>>
     \/ part = "config" /\ ConfigNext
        /\ UNCHANGED <<dataVars, coreVars, flowVars, tensorVars, trainingVars, savedVars>>
     \/ part = "trainer_data" /\ (Open \/ NextBatch)
        /\ UNCHANGED <<configVars, coreVars, flowVars, tensorVars, trainingVars, savedVars>>
     \/ part = "stats" /\ (Replace \/ ComputeStats)
        /\ UNCHANGED <<configVars, coreVars, flowVars, tensorVars, trainingVars, savedVars>>
     \/ part = "core" /\ TrainOnSample
        /\ UNCHANGED <<configVars, dataVars, flowVars, tensorVars, trainingVars, savedVars>>
     \/ part = "flow" /\ FlowNext
        /\ UNCHANGED <<configVars, dataVars, coreVars, tensorVars, trainingVars, savedVars>>
     \/ part = "tensors" /\ TensorNext
        /\ UNCHANGED <<configVars, dataVars, coreVars, flowVars, trainingVars, savedVars>>
     \/ part = "saved" /\ SavedNext
        /\ UNCHANGED <<configVars, dataVars, coreVars, flowVars, tensorVars, trainingVars>>

PartsSpec == PartsInit /\ [][PartsNext]_<<part, configVars, dataVars, coreVars, flowVars, tensorVars, trainingVars, savedVars>>
=============================================================================
