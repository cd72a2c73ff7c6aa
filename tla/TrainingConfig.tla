--------------------------- MODULE TrainingConfig ---------------------------
(***************************************************************************)
(* How a job comes by its configuration (lewm-train/src/config.rs,         *)
(* lewm-core/src/config.rs) and what the trainers then ask of it: the      *)
(* defaults, the file, the environment and the --set options are merged,   *)
(* decoded strictly, validated and hashed.                                 *)
(*                                                                         *)
(* A TOML value is a function from the paths of its leaves to their        *)
(* values; a table is the set of leaves under it.  The fields kept are     *)
(* those that a check between fields or a trainer reads, and one or two    *)
(* others of each section.                                                 *)
(***************************************************************************)
EXTENDS Integers, FiniteSets, SequencesExt

CONSTANTS
  ConfigFiles,   \* files: TOML values
  Environments,  \* allowlisted variables that are set: TOML values
  SetOptions,    \* --set options, sequences of <<path, value>>
  WrongType,     \* a value of a type its field does not have
  SeedMax,       \* i64::MAX; LEWM_SEED is a u64 and TOML integers are not
  HeldOut,       \* SO100_HELDOUT_EPISODES
  Spread         \* the fifty default episodes of a PushT evaluation

\* f, and g where f says nothing.
Over(f, g) == [x \in DOMAIN f \cup DOMAIN g |-> IF x \in DOMAIN f THEN f[x] ELSE g[x]]

IsPath(p) == p \in Seq(Range(p))
IsTable(value) == value = [p \in DOMAIN value |-> value[p]] /\ \A p \in DOMAIN value : IsPath(p)
AreOptions(options) ==
  /\ options = [k \in 1..Len(options) |-> options[k]] /\ Len(options) \in Nat
  /\ \A k \in 1..Len(options) : IsPath(options[k][1])

ASSUME ConfigAssumption ==
  /\ SeedMax \in Nat /\ WrongType \notin {"pusht", "so100", "pusht_simulated", "so100_latent"}
  /\ \A value \in ConfigFiles \cup Environments : IsTable(value)
  /\ \A options \in SetOptions : AreOptions(options)

-----------------------------------------------------------------------------
(* Fields: the default and the values that decode and pass the ranges.      *)

Field(default, values) == [default |-> default, values |-> values]
Within(default, least, most) == Field(default, least..most)
Sized(default, most) == Within(default, 1, most)
Flag == Field(FALSE, BOOLEAN)

VitConfig == [image_size |-> Within(224, 16, 4096), patch_size |-> Sized(14, 512),
              num_channels |-> Sized(3, 16), hidden_size |-> Sized(192, 8192),
              num_attention_heads |-> Sized(3, 128), pretrained |-> Flag]
EmbedderConfig == [input_dim |-> Sized(10, 1024), smoothed_dim |-> Sized(10, 4096), emb_dim |-> Sized(192, 8192)]
PredictorConfig == [num_frames |-> Sized(3, 1024), input_dim |-> Sized(192, 8192),
                    hidden_dim |-> Sized(192, 8192), output_dim |-> Sized(192, 8192),
                    action_emb_dim |-> Sized(192, 8192)]
MlpConfig == [input_dim |-> Sized(192, 8192), hidden_dim |-> Sized(2048, 65536), output_dim |-> Sized(192, 8192)]
JepaConfig == [history_size |-> Sized(3, 100), horizon |-> Sized(4, 1024)]

DatasetKind == [kind |-> Field("pusht", {"pusht", "so100"})]
Windowed == [horizon |-> Within(4, 2, 64), history_size |-> Sized(3, 100), split |-> Field("train", {"train", "eval"})]
PushtDatasetConfig == Over(DatasetKind, Over(Windowed, [raw_action_dim |-> Sized(2, 64), frameskip |-> Sized(5, 64)]))
So100DatasetConfig ==
  Over(DatasetKind, Over(Windowed, [action_dim |-> Sized(6, 64), camera_view |-> Field("top", {"top", "wrist"})]))

EvalKind == [kind |-> Field("pusht_simulated", {"pusht_simulated", "so100_latent", "so100_latent_rollout"})]
PushtEvalConfig ==
  Over(EvalKind, [episode_ids |-> Field(Spread, {Spread, HeldOut, <<5>>}), n_cand |-> Sized(1000, 100000)])
So100EvalConfig ==
  Over(EvalKind, [episode_ids |-> Field(HeldOut, {Spread, HeldOut, <<5>>}), episodes |-> Sized(5, 1000)])

\* Learning rates in units of 1e-9, the two betas in hundredths.  The betas have
\* no range of their own.
TrainingFields ==
  [history_size |-> Sized(3, 100), horizon |-> Within(4, 2, 64), batch_size |-> Sized(64, 1024),
   grad_accum_steps |-> Sized(2, 32), lr_peak |-> Within(300000, 100, 10000000),
   lr_min |-> Sized(10000, 1000000), warmup_steps |-> Within(1000, 0, 100000),
   betas |-> Field(<<90, 95>>, Nat \X Nat), seed |-> Within(0, 0, SeedMax),
   precision |-> Field("bf16_mixed", {"f32", "bf16_mixed"})]

Version == [schema_version |-> Field("1.0.0", {"1.0.0", "2.0.0"})]
TrainModes == [pusht_train_mode |-> Field("bounded_module", {"bounded_module", "full_burn_jepa"})]

\* RootConfig: its tables, and the fields there are for these two kinds.
Sections ==
  {<< >>, <<"model">>, <<"dataset">>, <<"eval">>, <<"training">>, <<"experimental">>, <<"model", "encoder">>,
   <<"model", "action_encoder">>, <<"model", "predictor">>, <<"model", "projector">>, <<"model", "pred_proj">>}
SectionFields(dataset, eval, section) ==
  CASE section = << >> -> Version
    [] section = <<"model">> -> JepaConfig
    [] section = <<"model", "encoder">> -> VitConfig
    [] section = <<"model", "action_encoder">> -> EmbedderConfig
    [] section = <<"model", "predictor">> -> PredictorConfig
    [] section \in {<<"model", "projector">>, <<"model", "pred_proj">>} -> MlpConfig
    [] section = <<"dataset">> -> IF dataset = "pusht" THEN PushtDatasetConfig ELSE So100DatasetConfig
    [] section = <<"eval">> -> IF eval = "pusht_simulated" THEN PushtEvalConfig ELSE So100EvalConfig
    [] section = <<"training">> -> TrainingFields
    [] section = <<"experimental">> -> TrainModes
FieldsFor(dataset, eval) ==
  [p \in UNION {{Append(s, name) : name \in DOMAIN SectionFields(dataset, eval, s)} : s \in Sections} |->
     SectionFields(dataset, eval, Front(p))[Last(p)]]

PushtFields == FieldsFor("pusht", "pusht_simulated")
Defaults == [p \in DOMAIN PushtFields |-> PushtFields[p].default]

-----------------------------------------------------------------------------
(* Layers.                                                                  *)

Under(table, p) == IsStrictPrefix(table, p)

\* Tables whose kind the overlay changes.
SwitchedTables(base, over) ==
  {t \in {Front(p) : p \in {q \in DOMAIN base : Last(q) = "kind"}} :
     Append(t, "kind") \in DOMAIN over /\ over[Append(t, "kind")] # base[Append(t, "kind")]}

\* merge_values: a table of another kind is replaced, others are merged.
MergeFields(base, over, switched) ==
  LET kept == {p \in DOMAIN base :
                 /\ \A t \in switched : ~Under(t, p)
                 /\ \A q \in DOMAIN over : ~IsPrefix(q, p) /\ ~IsPrefix(p, q)}
  IN  Over(over, [p \in kept |-> base[p]])
MergeValues(base, over) == MergeFields(base, over, SwitchedTables(base, over))

\* apply_value, for a path that crosses no leaf
ApplyValue(value, p, leaf) ==
  Over([q \in {p} |-> leaf], [q \in {q \in DOMAIN value : ~IsPrefix(p, q)} |-> value[q]])

Crosses(value, p) == \E q \in DOMAIN value : Under(q, p)

\* apply_set for each option in turn; a path of one segment is no dotted one.
SetRefused(value, options) ==
  \E k \in DOMAIN options : Len(options[k][1]) < 2 \/ Crosses(value, options[k][1])
ApplySets(value, options) ==
  LET after[k \in 0..Len(options)] ==
        IF k = 0 THEN value ELSE ApplyValue(after[k - 1], options[k][1], options[k][2])
  IN  after[Len(options)]

EnvRefused(env) == <<"training", "seed">> \in DOMAIN env /\ env[<<"training", "seed">>] > SeedMax
ApplyEnv(value, env) == Over(env, value)

SetsThenEnv(layers, value) == ApplyEnv(ApplySets(value, layers.sets), layers.env)
Layered(layers, value) == ApplySets(ApplyEnv(value, layers.env), layers.sets)

-----------------------------------------------------------------------------
(* Decoding and validation.                                                 *)

Kind(value, section) ==
  LET kind == value[<<section, "kind">>] IN IF kind = "so100_latent_rollout" THEN "so100_latent" ELSE kind
FieldsOf(value) == FieldsFor(Kind(value, "dataset"), Kind(value, "eval"))

\* deny_unknown_fields, and #[serde(default)] for what is absent
Decodes(value) ==
  /\ \A s \in {"dataset", "eval"} : <<s, "kind">> \in DOMAIN value /\ value[<<s, "kind">>] # WrongType
  /\ DOMAIN value \subseteq DOMAIN FieldsOf(value)
Decoded(value) ==
  LET fields == FieldsOf(value)
      root == Over(value, [p \in DOMAIN fields |-> fields[p].default])
  IN  [root EXCEPT ![<<"eval", "kind">>] = Kind(value, "eval")]

RangesOk(root) == \A p \in DOMAIN root : root[p] \in FieldsOf(root)[p].values

Model(r, section, name) == r[<<"model", section, name>>]
Training(r, name) == r[<<"training", name>>]

\* JepaConfig::shape_errors
ShapeOk(r) ==
  LET dim == Model(r, "predictor", "hidden_dim")
      history == r[<<"model", "history_size">>]
  IN  /\ Model(r, "encoder", "image_size") % Model(r, "encoder", "patch_size") = 0
      /\ Model(r, "encoder", "hidden_size") % Model(r, "encoder", "num_attention_heads") = 0
      /\ {Model(r, "predictor", "input_dim"), Model(r, "predictor", "output_dim"),
          Model(r, "projector", "output_dim"), Model(r, "pred_proj", "input_dim"),
          Model(r, "pred_proj", "output_dim")} = {dim}
      /\ Model(r, "projector", "input_dim") = Model(r, "encoder", "hidden_size")
      /\ Model(r, "action_encoder", "emb_dim") = Model(r, "predictor", "action_emb_dim")
      /\ history <= r[<<"model", "horizon">>] /\ history <= Model(r, "predictor", "num_frames")

PushtContract(r) ==
  Model(r, "action_encoder", "input_dim") = r[<<"dataset", "raw_action_dim">>] * r[<<"dataset", "frameskip">>]

So100Contract(r) ==
  /\ r[<<"dataset", "action_dim">>] = 6 /\ Model(r, "action_encoder", "input_dim") = 6
  /\ Training(r, "warmup_steps") = 500
  /\ r[<<"eval", "kind">>] = "so100_latent" /\ r[<<"eval", "episode_ids">>] = HeldOut

CrossFieldsOk(r) ==
  /\ Training(r, "batch_size") * Training(r, "grad_accum_steps") \in 32..512
  /\ Training(r, "lr_min") <= Training(r, "lr_peak")
  /\ Training(r, "betas")[1] < Training(r, "betas")[2] /\ Training(r, "betas")[2] < 100
  /\ Training(r, "history_size") <= Model(r, "predictor", "num_frames")
  /\ IF r[<<"dataset", "kind">>] = "pusht" THEN PushtContract(r) ELSE So100Contract(r)
  /\ \A s \in {"dataset", "model"} :
       r[<<s, "horizon">>] = Training(r, "horizon") /\ r[<<s, "history_size">>] = Training(r, "history_size")

-----------------------------------------------------------------------------
Failed(how) == [how |-> how]

\* load_root, from the text of the file on
LoadRoot(layers) ==
  LET merged == MergeValues(Defaults, layers.file)
      layered == Layered(layers, merged)
  IN  IF <<"schema_version">> \notin DOMAIN layers.file THEN Failed("no schema_version")
      ELSE IF EnvRefused(layers.env) THEN Failed("environment")
      ELSE IF SetRefused(merged, layers.sets) THEN Failed("override")
      ELSE IF ~Decodes(layered) THEN Failed("unknown field")
      ELSE LET root == Decoded(layered)
           IN  IF root[<<"schema_version">>] # "1.0.0" THEN Failed("schema")
               ELSE IF ~(RangesOk(root) /\ ShapeOk(root) /\ CrossFieldsOk(root)) THEN Failed("validation")
               ELSE [how |-> "loaded", root |-> root]

\* canonical_toml writes every field; what has no value, or the default training
\* mode, is left out.
TrainModeField == <<"experimental", "pusht_train_mode">>
CanonicalToml(root) ==
  [p \in {q \in DOMAIN root : q # TrainModeField \/ root[q] # "bounded_module"} |-> root[p]]

\* The trainers ask for more before their first step.
SupportedShape(r) ==
  /\ Model(r, "encoder", "hidden_size") = Model(r, "predictor", "hidden_dim")
  /\ r[<<"model", "horizon">>] - r[<<"model", "history_size">>] = 1
TrainMode(r) ==
  IF r[<<"dataset", "kind">>] = "so100" THEN "so100"
  ELSE IF r[<<"experimental", "pusht_train_mode">>] = "full_burn_jepa" THEN "burn" ELSE "bounded"
TrainerRefuses(r) ==
  IF TrainMode(r) = "burn" THEN Model(r, "encoder", "num_channels") # 3 ELSE ~SupportedShape(r)

\* A window of the data set that the trainer opens: as many frames and actions as
\* the configured horizon, of the data set's own number of joints.
WindowFor(r) ==
  [frames |-> r[<<"dataset", "horizon">>], actionDim |-> IF r[<<"dataset", "kind">>] = "pusht" THEN 2 ELSE 6]

\* The checks of full_lewm_example_from_sample, its SO-100 counterpart and
\* validate_pusht_burn_jepa_sample.
WindowRefused(r, w) ==
  \/ r[<<"dataset", "kind">>] = "pusht" /\ w.actionDim # r[<<"dataset", "raw_action_dim">>]
  \/ r[<<"dataset", "kind">>] = "so100" /\ w.actionDim # r[<<"dataset", "action_dim">>]
  \/ IF TrainMode(r) = "burn" THEN w.frames < r[<<"model", "horizon">>]
     ELSE w.frames <= r[<<"model", "history_size">>]

VARIABLES
  request,   \* the file, the environment and the options of a job
  loaded,    \* what load_root made of them
  trained    \* "no", "refused" before the first step, "stopped" at its first sample, "yes"
configVars == <<request, loaded, trained>>

ConfigInit ==
  /\ request \in [file : ConfigFiles, env : Environments, sets : SetOptions]
  /\ loaded = Failed("not yet") /\ trained = "no"

Load ==
  /\ loaded.how = "not yet"
  /\ loaded' = LoadRoot(request)
  /\ UNCHANGED <<request, trained>>

Train ==
  /\ loaded.how = "loaded" /\ trained = "no"
  /\ trained' = IF TrainerRefuses(loaded.root) THEN "refused"
                ELSE IF WindowRefused(loaded.root, WindowFor(loaded.root)) THEN "stopped"
                ELSE "yes"
  /\ UNCHANGED <<request, loaded>>

\* --print-config written to a file, loaded by the next job
LoadPrinted ==
  /\ loaded.how = "loaded" /\ trained = "yes"
  /\ request' = [file |-> CanonicalToml(loaded.root), env |-> << >>, sets |-> << >>]
  /\ request' # request
  /\ loaded' = LoadRoot(request')
  /\ trained' = "no"

ConfigNext == Load \/ Train \/ LoadPrinted
ConfigSpec == ConfigInit /\ [][ConfigNext]_configVars

-----------------------------------------------------------------------------
(* Properties.                                                              *)

\* The printed configuration of a job loads to the same configuration, so that
\* its hash names it: also when it switches kinds against the defaults, and
\* whatever the layers were.  Resuming compares that hash.
PrintedConfigIsTheSame ==
  loaded.how = "loaded" =>
    LoadRoot([file |-> CanonicalToml(loaded.root), env |-> << >>, sets |-> << >>]) = loaded

\* A field has the value of the last layer that names it: an option (the last of
\* several), the environment, the file, the default of its kind.
LastLayerWins ==
  loaded.how = "loaded" =>
    \A p \in DOMAIN loaded.root \ {<<"eval", "kind">>} :
      LET options == {k \in DOMAIN request.sets : request.sets[k][1] = p}
      IN  loaded.root[p] =
            IF options # {} THEN request.sets[Max(options)][2]
            ELSE IF p \in DOMAIN request.env THEN request.env[p]
            ELSE IF p \in DOMAIN request.file THEN request.file[p]
            ELSE FieldsOf(loaded.root)[p].default

\* A configuration that loads and that the trainer accepts never stops a job at a
\* sample its data set can serve, except a PushT one whose raw_action_dim is not
\* the two of the data: no check compares these.
AcceptedConfigTrains ==
  trained = "stopped" =>
    loaded.root[<<"dataset", "kind">>] = "pusht" /\ loaded.root[<<"dataset", "raw_action_dim">>] # 2

\* What config.rs promises of a configuration: it is that of its layers, it
\* prints as itself, and once accepted it trains.
ConfigIsHonoured == LastLayerWins /\ PrintedConfigIsTheSame /\ AcceptedConfigTrains
=============================================================================
