------------------------------ MODULE SavedState ------------------------------
(***************************************************************************)
(* How the state of a training job crosses a checkpoint (trainer.rs,       *)
(* resume.rs, checkpoint.rs, rng.rs): the random streams as base64 texts   *)
(* of the sidecar, the parameters as numbers of the JSON record and as     *)
(* bytes of the safetensors mirror, the counters as metrics; and how       *)
(* parameters move by name when a job starts warm.                         *)
(*                                                                         *)
(* TrainRun has the files and Training the loop; here is what the bytes    *)
(* mean.  A parameter counts units of f64 precision, and an f32 holds the  *)
(* multiples of Ulps of them.                                              *)
(***************************************************************************)
EXTENDS Integers, FiniteSets, SequencesExt

CONSTANTS
  SeedLen, PosLen,   \* bytes of a seed and of a word position: 32 and 16
  WordPeriod,        \* words after which a generator repeats itself: 2^68
  StreamSeed,        \* StreamSeed[name]: seed of a stream of this run, as bytes
  Specs,             \* parameter_specs: name and shape, in the order of the model
  SourceSpecs,       \* those of a warm-start source
  InitialModel,      \* parameters of a new model
  SourceModels,      \* parameters of the warm-start sources
  TransferNames,     \* names of the parameters that a warm start takes
  Ulps,              \* units of f64 between neighbouring f32
  F32Len,            \* bytes of an f32: 4
  CounterMax,        \* u32::MAX, the largest counter a metric holds
  Drawn,             \* words a step draws from data_shuffle
  ParamValues,       \* values a step gives a parameter
  EditedStreams,     \* streams whose texts are edited
  EditedChars,       \* characters written over one of them
  MaxUpdates, MaxJobs, MaxEdits,  \* bounds
  MaxDrifts          \* bound on the parameters that one reading changes

StreamNames == {"data_shuffle", "sigreg_sketch", "dropout", "cem", "model_init"}

VARIABLES
  trainer,   \* the job's state, NoTrainer when none runs
  shelf,     \* the newest checkpoint, NoShelf when there is none
  writer,    \* history: the state the checkpoint was made of
  origin,    \* history: what the job's state was made of
  edits, jobs
savedVars == <<trainer, shelf, writer, origin, edits, jobs>>

NoTrainer == [step |-> 0]
NoShelf == [runId |-> "none"]
NoAnswer == <<-1>>
RefusedStream == [seed |-> << >>, pos |-> -1]

-----------------------------------------------------------------------------
(* Base64, by characters as ASCII codes. *)

Pad == 61

EncodeChar(n) ==
  IF n < 26 THEN n + 65
  ELSE IF n < 52 THEN n + 71
  ELSE IF n < 62 THEN n - 4
  ELSE IF n = 62 THEN 43 ELSE 47

\* -1 where the code refuses.
DecodeChar(c) ==
  IF c \in 65..90 THEN c - 65
  ELSE IF c \in 97..122 THEN c - 71
  ELSE IF c \in 48..57 THEN c + 4
  ELSE IF c = 43 THEN 62 ELSE IF c = 47 THEN 63 ELSE -1

\* The q-th character of a chunk of three bytes, of which the first n exist.
ChunkChar(b1, b2, b3, n, q) ==
  IF q = 1 THEN EncodeChar(b1 \div 4)
  ELSE IF q = 2 THEN EncodeChar((b1 % 4) * 16 + b2 \div 16)
  ELSE IF q = 3 THEN IF n > 1 THEN EncodeChar((b2 % 16) * 4 + b3 \div 64) ELSE Pad
  ELSE IF n > 2 THEN EncodeChar(b3 % 64) ELSE Pad

Base64Encode(bytes) ==
  LET at(i) == IF i <= Len(bytes) THEN bytes[i] ELSE 0
      done(p) == 3 * ((p - 1) \div 4)
  IN  [p \in 1..4 * ((Len(bytes) + 2) \div 3) |->
         ChunkChar(at(done(p) + 1), at(done(p) + 2), at(done(p) + 3), Len(bytes) - done(p),
                   ((p - 1) % 4) + 1)]

\* "=" may only end a chunk, and is accepted in every one.
ChunkRefused(c1, c2, c3, c4) ==
  \/ DecodeChar(c1) = -1 \/ DecodeChar(c2) = -1
  \/ c3 # Pad /\ DecodeChar(c3) = -1
  \/ c4 # Pad /\ DecodeChar(c4) = -1
  \/ c3 = Pad /\ c4 # Pad

ChunkBytes(c1, c2, c3, c4) ==
  LET first == DecodeChar(c1) second == DecodeChar(c2) third == DecodeChar(c3)
      b1 == first * 4 + second \div 16
      b2 == (second % 16) * 16 + third \div 4
      b3 == (third % 4) * 64 + DecodeChar(c4)
  IN  IF c3 = Pad THEN <<b1>> ELSE IF c4 = Pad THEN <<b1, b2>> ELSE <<b1, b2, b3>>

Base64Decode(text) ==
  LET chunks == 1..(Len(text) \div 4)
      refused(k) == ChunkRefused(text[4 * k - 3], text[4 * k - 2], text[4 * k - 1], text[4 * k])
      bytes(k) == ChunkBytes(text[4 * k - 3], text[4 * k - 2], text[4 * k - 1], text[4 * k])
  IN  IF Len(text) % 4 # 0 \/ \E k \in chunks : refused(k) THEN NoAnswer
      ELSE FlattenSeq([k \in chunks |-> bytes(k)])

-----------------------------------------------------------------------------
(* Words as little-endian bytes. *)

Pow256(n) == LET pow[i \in 0..n] == IF i = 0 THEN 1 ELSE 256 * pow[i - 1] IN pow[n]

Word256(n, len) ==
  LET rest[i \in 0..len] == IF i = 0 THEN n ELSE rest[i - 1] \div 256
  IN  [i \in 1..len |-> rest[i - 1] % 256]

OfWord256(bytes) ==
  LET above[i \in 0..Len(bytes)] ==
        IF i = 0 THEN 0 ELSE bytes[Len(bytes) + 1 - i] + 256 * above[i - 1]
  IN  above[Len(bytes)]

SerializeRng(rng) == rng.seed \o Word256(rng.pos, PosLen)

\* The position a serialized generator names; set_word_pos takes it round the period.
NamedPosition(bytes) == OfWord256(SubSeq(bytes, SeedLen + 1, SeedLen + PosLen))

DeserializeRng(bytes) ==
  IF Len(bytes) # SeedLen + PosLen THEN RefusedStream
  ELSE [seed |-> SubSeq(bytes, 1, SeedLen), pos |-> NamedPosition(bytes) % WordPeriod]

EncodeRng(rng) == Base64Encode(SerializeRng(rng))

DecodeRng(text) ==
  LET bytes == Base64Decode(text) IN IF bytes = NoAnswer THEN RefusedStream ELSE DeserializeRng(bytes)

\* restore_rng_streams; two texts exchanged are a deviation.
RestoreStreamsSwapped(texts) ==
  [name \in StreamNames |-> DecodeRng(texts[IF name = "cem" THEN "dropout" ELSE name])]
RestoreStreams(texts) == [name \in StreamNames |-> DecodeRng(texts[name])]

\* substream_rng: a stream begins at word 0 of the seed hashed from its name.
FreshStreams == [name \in StreamNames |-> [seed |-> StreamSeed[name], pos |-> 0]]

CheckpointRngState(streams) == [name \in StreamNames |-> EncodeRng(streams[name])]

-----------------------------------------------------------------------------
(* Counters as metrics. *)

StepAsF64(n) == IF n <= CounterMax THEN n ELSE 0

NotWhole == -1

MetricU64(value) == IF value = NotWhole THEN 0 ELSE value

CheckpointMetrics(t) == [samples |-> StepAsF64(t.samples), explosions |-> StepAsF64(t.explosions)]

-----------------------------------------------------------------------------
(* Parameters: flat in the model, by name and shape everywhere else. *)

CheckedCount(shape) ==
  LET count[k \in 0..Len(shape)] == IF k = 0 THEN 1 ELSE count[k - 1] * shape[k]
  IN  count[Len(shape)]

\* push_values: a parameter begins where the one before it ends.
OffsetOf(specs, i) ==
  LET start[k \in 0..Len(specs)] == IF k = 0 THEN 0 ELSE start[k - 1] + CheckedCount(specs[k].shape)
  IN  start[i - 1]

ValueCount(specs) == OffsetOf(specs, Len(specs) + 1)
ModelLen == ValueCount(Specs)

ParameterValues(specs, model, i) ==
  SubSeq(model, OffsetOf(specs, i) + 1, OffsetOf(specs, i) + CheckedCount(specs[i].shape))

\* The nearest f32; a tie goes to the even one.  Counted in f32 steps.
F32(v) ==
  LET below == v \div Ulps over == 2 * (v % Ulps)
  IN  IF over < Ulps \/ (over = Ulps /\ below % 2 = 0) THEN below ELSE below + 1

F32s(values) == [i \in DOMAIN values |-> F32(values[i])]

Valid(tensor) == tensor.name # "" /\ CheckedCount(tensor.shape) = Len(tensor.values)

ParameterTensor(model, i) ==
  [name |-> Specs[i].name, shape |-> Specs[i].shape, values |-> F32s(ParameterValues(Specs, model, i))]

\* A tensor of the mirror: its name, its shape and its bytes.
SerializeParameters(tensors) ==
  [name \in {t.name : t \in Range(tensors)} |->
     LET t == CHOOSE t \in Range(tensors) : t.name = name
     IN  [shape |-> t.shape,
          bytes |-> FlattenSeq([i \in DOMAIN t.values |-> Word256(t.values[i], F32Len)])]]

F32Values(bytes) ==
  [k \in 1..(Len(bytes) \div F32Len) |->
     OfWord256(SubSeq(bytes, F32Len * (k - 1) + 1, F32Len * k))]

\* SafeTensors::deserialize: every tensor has the bytes of its shape.
Readable(mirror) ==
  \A name \in DOMAIN mirror : Len(mirror[name].bytes) = F32Len * CheckedCount(mirror[name].shape)

\* validate_full_lewm_safetensors
SameMirror(model, mirror) ==
  \A i \in DOMAIN Specs :
    /\ Specs[i].name \in DOMAIN mirror
    /\ mirror[Specs[i].name].shape = Specs[i].shape
    /\ F32Values(mirror[Specs[i].name].bytes) = F32s(ParameterValues(Specs, model, i))

\* full_lewm_train_state: by name.
TrainState(specs, model) ==
  [name \in {specs[i].name : i \in DOMAIN specs} |->
     LET i == CHOOSE i \in DOMAIN specs : specs[i].name = name
     IN  [shape |-> specs[i].shape, values |-> F32s(ParameterValues(specs, model, i))]]

\* apply_full_lewm_train_state: one after another, in the order of the model.
ApplyTrainState(state) ==
  IF \E i \in DOMAIN Specs :
       Specs[i].name \notin DOMAIN state \/ state[Specs[i].name].shape # Specs[i].shape
  THEN NoAnswer
  ELSE LET values == FlattenSeq([i \in DOMAIN Specs |-> state[Specs[i].name].values])
       IN  IF Len(values) # ModelLen THEN NoAnswer ELSE [i \in DOMAIN values |-> Ulps * values[i]]

\* load_warmstart
WarmStarted(source) ==
  LET theirs == TrainState(SourceSpecs, source)
      own == TrainState(Specs, InitialModel)
  IN  [name \in DOMAIN own \union TransferNames |-> IF name \in TransferNames THEN theirs[name] ELSE own[name]]

-----------------------------------------------------------------------------
(* What the code and the bounds say of the constants: parameters have names  *)
(* of their own, a warm start takes parameters the source has, and a finite *)
(* value is one an f32 holds, however often it is read back.                *)

AreSpecs(specs) ==
  /\ specs \in Seq([name : STRING, shape : Seq(Nat)])
  /\ \A i, j \in DOMAIN specs : specs[i].name = specs[j].name => i = j

\* The values a parameter is given, and what reading them back makes of them.
Given ==
  LET models == {InitialModel} \union SourceModels
      rounded == UNION {Range(F32s(m)) : m \in models}
  IN  ParamValues \union Range(InitialModel) \union {Ulps * n : n \in rounded}
DriftsOf(n) == {v + d : v \in Given, d \in -n..n}
IsF32(n) == n \in 0..(Pow256(F32Len) - 1)

ASSUME SavedStateAssumption ==
  /\ {SeedLen, PosLen, Ulps, F32Len} \subseteq Nat \ {0}
  /\ (SeedLen + PosLen) % 3 = 0 /\ WordPeriod \in 1..Pow256(PosLen)
  /\ StreamSeed \in [StreamNames -> [1..SeedLen -> 0..255]]
  /\ CounterMax \in Nat /\ Drawn \in Nat /\ ParamValues \subseteq Int
  /\ EditedStreams \subseteq StreamNames /\ EditedChars \subseteq 0..255
  /\ {MaxUpdates, MaxJobs, MaxEdits, MaxDrifts} \subseteq Nat
  /\ AreSpecs(Specs) /\ AreSpecs(SourceSpecs)
  /\ TransferNames \subseteq {SourceSpecs[j].name : j \in DOMAIN SourceSpecs}
  /\ InitialModel \in [1..ModelLen -> Int] /\ SourceModels \subseteq [1..ValueCount(SourceSpecs) -> Int]
  /\ \A v \in DriftsOf(MaxJobs) : IsF32(F32(v))
  /\ \A source \in SourceModels : \A i \in DOMAIN source : IsF32(F32(source[i]))

-----------------------------------------------------------------------------
(* Jobs. *)

SavedInit ==
  /\ trainer = NoTrainer /\ shelf = NoShelf /\ writer = NoTrainer
  /\ origin = [kind |-> "none"]
  /\ edits = {} /\ jobs = 0

Begins(runId, model, from) ==
  /\ trainer = NoTrainer /\ shelf = NoShelf /\ jobs < MaxJobs
  /\ model # NoAnswer
  /\ trainer' = [runId |-> runId, step |-> 1, model |-> model, streams |-> FreshStreams,
                 samples |-> 0, explosions |-> 0]
  /\ origin' = from
  /\ jobs' = jobs + 1
  /\ UNCHANGED <<shelf, writer, edits>>

StartJob(runId) == Begins(runId, InitialModel, [kind |-> "fresh"])

WarmStart(source) ==
  Begins("so100", ApplyTrainState(WarmStarted(source)), [kind |-> "warm", source |-> source])

\* What a step leaves: a parameter, the words it drew, the counters.
StepOn(i, v, exploded) ==
  /\ trainer # NoTrainer /\ trainer.step <= MaxUpdates
  /\ trainer' = [trainer EXCEPT
       !.step = @ + 1, !.model[i] = v, !.samples = @ + Drawn,
       !.streams["data_shuffle"].pos = (@ + (IF trainer.runId = "smoke" THEN 0 ELSE Drawn)) % WordPeriod,
       !.explosions = @ + (IF exploded THEN 1 ELSE 0)]
  /\ origin' = [kind |-> "stepped"]
  /\ UNCHANGED <<shelf, writer, edits, jobs>>

\* save_checkpoint and what it is given; the program then ends.
Tensors(model) == [i \in DOMAIN Specs |-> ParameterTensor(model, i)]

WriteRequest(t) ==
  [runId |-> t.runId, texts |-> CheckpointRngState(t.streams), metrics |-> CheckpointMetrics(t),
   record |-> [params |-> t.model, samples |-> t.samples], tensors |-> Tensors(t.model)]

SidecarFromRequest(request) == [runId |-> request.runId, texts |-> request.texts, metrics |-> request.metrics]

SaveCheckpoint(request) ==
  /\ \A t \in Range(request.tensors) : Valid(t)
  /\ shelf' = [runId |-> request.runId, sidecar |-> SidecarFromRequest(request),
               record |-> request.record, mirror |-> SerializeParameters(request.tensors)]

SaveJob ==
  /\ trainer # NoTrainer /\ trainer.runId # "smoke" /\ trainer.step > 1
  /\ SaveCheckpoint(WriteRequest(trainer))
  /\ writer' = trainer /\ trainer' = NoTrainer
  /\ origin' = [kind |-> "none"] /\ edits' = {}
  /\ UNCHANGED jobs

\* write_scalar_smoke_checkpoint: a model of two scalars, no stream, and
\* placeholders ("disabled-for-smoke") where the texts of streams belong.
SmokePlaceholder == <<45, 45, 45, 45>>

SaveSmoke ==
  /\ trainer # NoTrainer /\ trainer.runId = "smoke" /\ trainer.step > 1
  /\ SaveCheckpoint([WriteRequest(trainer) EXCEPT !.texts = [name \in StreamNames |-> SmokePlaceholder]])
  /\ writer' = trainer /\ trainer' = NoTrainer
  /\ origin' = [kind |-> "none"] /\ edits' = {}
  /\ UNCHANGED jobs

\* Someone edits a file of the checkpoint.
\* (where a job is left to read it)
Editable == trainer = NoTrainer /\ shelf # NoShelf /\ Cardinality(edits) < MaxEdits /\ jobs < MaxJobs

Edits(kind, files) ==
  /\ shelf' = files /\ shelf' # shelf
  /\ edits' = edits \union {kind}
  /\ UNCHANGED <<trainer, writer, origin, jobs>>

EditText(name) ==
  LET text == shelf.sidecar.texts[name]
      becomes(t) == Edits("text", [shelf EXCEPT !.sidecar.texts[name] = t])
  IN  /\ Editable /\ Len(text) >= 4
      /\ \/ becomes(Front(text)) \/ becomes(SubSeq(text, 1, Len(text) - 4)) \/ becomes(text \o SubSeq(text, 1, 4))
         \/ \E k \in DOMAIN text, c \in EditedChars : becomes([text EXCEPT ![k] = c])

EditMirror(name, k) ==
  /\ Editable
  /\ \/ Edits("mirror", [shelf EXCEPT !.mirror[name].bytes[k] = (@ + 1) % 256])
     \/ Edits("mirror", [shelf EXCEPT !.mirror[name].bytes = Front(@)])

EditMetric ==
  Editable /\ Edits("metric", [shelf EXCEPT !.sidecar.metrics.explosions = NotWhole])

\* The JSON reader gives the nearest f64 or a neighbour of it.
Drifts ==
  {drift \in [1..ModelLen -> {-1, 0, 1}] :
     Cardinality({i \in DOMAIN drift : drift[i] # 0}) <= MaxDrifts}
Read(record, drift) == [i \in DOMAIN record.params |-> record.params[i] + drift[i]]

\* load_checkpoint, restore_*_full_lewm_start: all of it, or an error.
Loadable(model, streams) ==
  /\ Readable(shelf.mirror)
  /\ Len(model) = ModelLen
  /\ SameMirror(model, shelf.mirror)
  /\ \A name \in StreamNames : streams[name] # RefusedStream

ResumeJob(runId, drift) ==
  LET model == Read(shelf.record, drift)
      streams == RestoreStreams(shelf.sidecar.texts)
      accepted == shelf.runId = runId /\ Loadable(model, streams)
  IN  /\ trainer = NoTrainer /\ shelf # NoShelf /\ jobs < MaxJobs
      /\ trainer' = IF accepted
                    THEN [runId |-> runId, step |-> writer.step, model |-> model, streams |-> streams,
                          samples |-> shelf.record.samples,
                          explosions |-> MetricU64(shelf.sidecar.metrics.explosions)]
                    ELSE NoTrainer
      /\ origin' = [kind |-> IF accepted THEN "resumed" ELSE "refused", drift |-> drift, runId |-> runId]
      /\ jobs' = jobs + 1
      /\ UNCHANGED <<shelf, writer, edits>>

SavedNext ==
  \/ \E id \in {"bounded", "so100", "smoke"} : StartJob(id)
  \/ \E source \in SourceModels : WarmStart(source)
  \/ \E i \in 1..ModelLen, v \in ParamValues, e \in BOOLEAN : StepOn(i, v, e)
  \/ SaveJob \/ SaveSmoke
  \/ \E name \in EditedStreams : EditText(name)
  \/ \E i \in DOMAIN Specs : EditMirror(Specs[i].name, 1)
  \/ EditMetric
  \/ \E id \in {"bounded", "so100"}, drift \in Drifts : ResumeJob(id, drift)

SavedSpec == SavedInit /\ [][SavedNext]_savedVars

-----------------------------------------------------------------------------
(* Properties. *)

\* Texts of which there is one for each state: "=" nowhere, and a position
\* below the period.
Canonical(text) == (\A k \in DOMAIN text : text[k] # Pad) /\ NamedPosition(Base64Decode(text)) < WordPeriod

\* A resumed job has the streams of the job that wrote the checkpoint where
\* their texts are the ones it wrote; an edited text is refused, or names
\* another state, or is not the canonical one.  Its parameters are those of the
\* record up to the JSON reader, and round to the mirror's; its counters come
\* back, the explosions from 0 when they exceed what a metric holds.
ResumedIsWhatWasSaved ==
  origin.kind = "resumed" =>
    /\ trainer.runId = writer.runId
    /\ \A name \in StreamNames :
         LET text == shelf.sidecar.texts[name] written == EncodeRng(writer.streams[name])
         IN  /\ text = written => trainer.streams[name] = writer.streams[name]
             /\ trainer.streams[name] = writer.streams[name] /\ Canonical(text) => text = written
    /\ \A i \in 1..ModelLen : trainer.model[i] - writer.model[i] \in {-1, 0, 1}
    /\ "mirror" \notin edits => F32s(trainer.model) = F32s(writer.model)
    /\ trainer.samples = writer.samples
    /\ trainer.explosions \in {0, writer.explosions}
    /\ "metric" \notin edits /\ writer.explosions <= CounterMax => trainer.explosions = writer.explosions

\* A checkpoint nobody edited is refused only by another mode, or when the
\* reader moved a parameter across the middle of two f32.
UneditedIsAccepted ==
  origin.kind = "refused" /\ edits = {} =>
    \/ writer.runId # origin.runId
    \/ \E i \in 1..ModelLen : F32(writer.model[i] + origin.drift[i]) # F32(writer.model[i])

\* A warm start moves each parameter by its name: in its own place as the
\* source has it in the source's, or as initialised, both as f32.
MovedByName ==
  origin.kind = "warm" =>
    \A i \in DOMAIN Specs :
      LET expected == {ParameterValues(SourceSpecs, origin.source, j) :
                         j \in {j \in DOMAIN SourceSpecs : SourceSpecs[j].name = Specs[i].name}}
          own == ParameterValues(Specs, InitialModel, i)
          took == ParameterValues(Specs, trainer.model, i)
      IN  IF Specs[i].name \in TransferNames
          THEN \A values \in expected : [k \in DOMAIN values |-> Ulps * F32(values[k])] = took
          ELSE [k \in DOMAIN own |-> Ulps * F32(own[k])] = took

\* What a job hands on through a checkpoint or a warm start arrives in its place.
StateComesBack == ResumedIsWhatWasSaved /\ UneditedIsAccepted /\ MovedByName
=============================================================================
