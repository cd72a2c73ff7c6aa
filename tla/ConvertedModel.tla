--------------------------- MODULE ConvertedModel ---------------------------
(***************************************************************************)
(* The tensors behind the files of Conversion: what the checkpoints and    *)
(* the exports hold, what the converter, the loader, the verifier and the  *)
(* exporter find in them, and that the model which comes out of a          *)
(* conversion, and the graphs exported from it, are the reference's.       *)
(***************************************************************************)
EXTENDS ParameterMap, Conversion

-----------------------------------------------------------------------------
\* Checkpoints and files.

\* What extract_state_dict finds: the mapping itself, or the one under a key
\* of STATE_DICT_CANDIDATES.
StateDict ==
  [id \in Checkpoints |->
     LET reference == Filled(id, ReferenceParameters(IF id = "wider" THEN HiddenSize + 1 ELSE HiddenSize)) IN
     CASE id = "extra" -> reference @@ (<<"pooler", "weight">> :> Fresh(id, <<"pooler", "weight">>, "F32", <<1>>))
       [] id = "lacking" -> [key \in DOMAIN reference \ {<<"encoder", "layernorm", "bias">>} |-> reference[key]] @@ << >>
       [] id = "boolean" -> [reference EXCEPT ![<<"predictor", "pos_embedding">>].dtype = "BOOL"]
       [] OTHER -> reference]

\* Exports of this repository's own training.
OwnExport(id) ==
  CASE id = "trained" -> Collected(Filled(id, JepaParameters(EncoderDepth)))
    [] id = "shallow" -> Collected(Filled(id, JepaParameters(EncoderDepth - 1)))
    [] id = "deep" -> Collected(Filled(id, JepaParameters(EncoderDepth + 1)))
    [] id = "bounded" -> <<"projector", "weight">> :> Fresh(id, <<"projector", "weight">>, "F32", <<1>>)

\* validate_state_dict_keys, and the dtypes canonical_array takes.
ReferenceKeysValid(id) == DOMAIN StateDict[id] = ExpectedSourceKeys
ReferenceWritable(id) == \A key \in DOMAIN StateDict[id] : StateDict[id][key].dtype \in {"F32", "I64"}

\* The tensors of a Safetensors file.
TensorsOf == [id \in Sound \cup OwnExports |-> IF id \in Sound THEN MapStateDict(StateDict[id]) ELSE OwnExport(id)]

\* lewm-reference-record --burn-record-in: the record is read into a fresh
\* model, and what the model collects compared with the mirror.
TensorsMatch(mirror, record) ==
  /\ mirror \in Sound /\ record \in Sound
  /\ LET expected == TensorsOf[mirror]
         actual == Collected(LoadedModel(TensorsOf[record]))
     IN  DOMAIN expected = DOMAIN actual /\ \A name \in DOMAIN expected : expected[name] = actual[name]

\* apply_tensors_to_jepa, and the contract of export_onnx.py.
TensorsFit(id) == Fits(TensorsOf[id])
ContractMet(id) == ContractHolds(TensorsOf[id])

-----------------------------------------------------------------------------
(* Properties.                                                              *)

\* A model the loader accepts has nothing of its own initialisation left: to
\* export it gives back the file, tensor by tensor.
LoadReplacesEverything ==
  reading.did = "load" /\ reading.ok => Collected(LoadedModel(TensorsOf[reading.file])) = TensorsOf[reading.file]

\* The converted model is the reference model: lewm-core answers with the
\* converted parameters what the Python tools answer with those of the
\* checkpoint, for the encoder and for every length of the predictor.
SameAnswers ==
  [id \in {c \in Sound : Fits(TensorsOf[c])} |-> BurnAnswers(LoadedModel(TensorsOf[id])) = TorchAnswers(StateDict[id])]
ConvertedModelIsTheSame ==
  reading.did = "load" /\ reading.ok /\ reading.file \in Sound => SameAnswers[reading.file]

\* The exported graphs are the model of the file: for every file the contract
\* lets through and the loader accepts, a training run's as well as a mirror.
GraphsAgree ==
  [id \in {f \in Sound \cup OwnExports : Fits(TensorsOf[f]) /\ ContractHolds(TensorsOf[f])} |->
     LET state == RecoverStateDict(TensorsOf[id])
         model == BurnAnswers(LoadedModel(TensorsOf[id]))
     IN  /\ EncoderGraph(state, SomeImage) = model.encoded
         /\ PredictorGraph(state, SomeContext(NumFrames), SomeActions(NumFrames)) = model.predicted[NumFrames]]
ExportedModelIsTheSame ==
  reading.did = "export" /\ reading.ok /\ Fits(TensorsOf[reading.file]) => GraphsAgree[reading.file]

\* The conversion keeps the model: nothing of an initialisation is left, and the
\* loaded model and the exported graphs answer as the reference does.
ConversionKeepsTheModel == LoadReplacesEverything /\ ConvertedModelIsTheSame /\ ExportedModelIsTheSame
=============================================================================
