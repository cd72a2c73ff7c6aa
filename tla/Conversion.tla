----------------------------- MODULE Conversion -----------------------------
(***************************************************************************)
(* From the reference weights to files of this repository, and what may be *)
(* relied on afterwards: convert of python/convert_reference.py with its   *)
(* helper lewm-reference-record, python/verify_conversion.py, the loader   *)
(* of lewm-core, and python/export_onnx.py.                                *)
(*                                                                         *)
(* An operator runs one command at a time.  A conversion may die between   *)
(* any two of its writes, and weights.pt may be replaced at any time, also *)
(* between its hash and its load.  A file is known by whose tensors it     *)
(* holds; what the commands decide by looking into the tensors is given by *)
(* ConvertedModel.                                                         *)
(***************************************************************************)
EXTENDS Naturals

CONSTANTS
  MaxRuns, MaxReplaced,    \* bounds on the conversions and on the replacements
  KeysValid(_),            \* the names in a checkpoint are those of the parameter map
  Writable(_),             \* its tensors have dtypes that can be written
  LoaderTakes(_),          \* the model takes the tensors of a Safetensors file
  RecordMatches(_, _),     \* a mirror and a Burn record hold the same tensors
  ExporterTakes(_)         \* export_onnx.py recovers a checkpoint from the file

ASSUME ConversionAssumption == MaxRuns \in Nat /\ MaxReplaced \in Nat

VARIABLES
  weightsFile,   \* weights.pt
  mirrorFile,    \* the Safetensors file
  recordFile,    \* the Burn record
  metaFile,      \* the conversion metadata
  converter,     \* the conversion under way
  reading,       \* the last result of a command that reads
  runs, replaced
conversionVars == <<weightsFile, mirrorFile, recordFile, metaFile, converter, reading, runs, replaced>>

-----------------------------------------------------------------------------
\* Checkpoints and files.

\* The locked revision, another one of the same network, one that is wider,
\* and three the converter has to refuse.
Sound == {"locked", "finetuned", "wider"}
Checkpoints == Sound \cup {"extra", "lacking", "boolean"}

\* Exports of this repository's own training: of the model, of one with a
\* block less or more, and of the core of the bounded run.
OwnExports == {"trained", "shallow", "deep", "bounded"}

-----------------------------------------------------------------------------
\* convert

NoReading == [did |-> "nothing"]
NoMeta == [sha |-> "none", steady |-> TRUE, mirror |-> "none", record |-> "none"]
Idle == [at |-> "idle", sha |-> "none", steady |-> TRUE, recordToo |-> FALSE, holds |-> "none"]

\* prepare_reference_files: the weights have the locked hash, or --skip-sha256
\* was given and the metadata will say none.
StartConversion ==
  /\ converter = Idle /\ reading = NoReading /\ runs < MaxRuns
  /\ runs' = runs + 1
  /\ \E skip \in BOOLEAN, recordToo \in BOOLEAN :
       IF ~skip /\ weightsFile # "locked" THEN converter' = Idle
       ELSE converter' = [Idle EXCEPT !.at = "prepared", !.recordToo = recordToo,
                                      !.sha = IF skip THEN "skipped" ELSE weightsFile]
  /\ UNCHANGED <<weightsFile, mirrorFile, recordFile, metaFile, reading, replaced>>

\* The file is opened again for its tensors; the audit of the keys and
\* canonical_array may end the command, before anything is written.
LoadStateDict ==
  /\ converter.at = "prepared"
  /\ converter' = IF KeysValid(weightsFile) /\ Writable(weightsFile)
                  THEN [converter EXCEPT !.at = "mapped", !.holds = weightsFile] ELSE Idle
  /\ UNCHANGED <<weightsFile, mirrorFile, recordFile, metaFile, reading, runs, replaced>>

\* write_safetensors, through a temporary file.
WriteMirror ==
  /\ converter.at = "mapped"
  /\ mirrorFile' = converter.holds
  /\ converter' = [converter EXCEPT !.at = IF converter.recordToo THEN "helper" ELSE "converted"]
  /\ UNCHANGED <<weightsFile, recordFile, metaFile, reading, runs, replaced>>

\* lewm-reference-record: what does not fit fails the command with the mirror
\* in place; the record is written to its own path.
BeginRecord ==
  /\ converter.at = "helper"
  /\ IF LoaderTakes(mirrorFile)
     THEN recordFile' = "half-written" /\ converter' = [converter EXCEPT !.at = "recording"]
     ELSE recordFile' = recordFile /\ converter' = Idle
  /\ UNCHANGED <<weightsFile, mirrorFile, metaFile, reading, runs, replaced>>

EndRecord ==
  /\ converter.at = "recording"
  /\ recordFile' = mirrorFile
  /\ converter' = [converter EXCEPT !.at = "converted"]
  /\ UNCHANGED <<weightsFile, mirrorFile, metaFile, reading, runs, replaced>>

\* The hashes of both artifacts, of the record only when this run wrote it.
WriteMeta ==
  /\ converter.at = "converted"
  /\ metaFile' = [sha |-> converter.sha, steady |-> converter.steady, mirror |-> mirrorFile,
                  record |-> IF converter.recordToo THEN recordFile ELSE "none"]
  /\ converter' = Idle
  /\ UNCHANGED <<weightsFile, mirrorFile, recordFile, reading, runs, replaced>>

Die ==
  /\ converter # Idle
  /\ converter' = Idle
  /\ UNCHANGED <<weightsFile, mirrorFile, recordFile, metaFile, reading, runs, replaced>>

\* Another download, or a copy by hand.  steady remembers that none came
\* between the hash of a conversion and its load.
ReplaceReference ==
  /\ reading = NoReading /\ replaced < MaxReplaced
  /\ replaced' = replaced + 1
  /\ weightsFile' \in Checkpoints \ {weightsFile}
  /\ converter' = [converter EXCEPT !.steady = converter.at # "prepared" /\ @]
  /\ UNCHANGED <<mirrorFile, recordFile, metaFile, reading, runs>>

-----------------------------------------------------------------------------
\* Readers

\* Mutant: only the presence of the hashes is checked.
HashesPresent(meta, mirror, record) == meta # NoMeta /\ meta.record # "none"

\* verify_hashes.
HashesAgree(meta, mirror, record) ==
  meta # NoMeta /\ meta.record # "none" /\ meta.mirror = mirror /\ meta.record = record

Read(result) ==
  /\ converter = Idle /\ reading = NoReading /\ reading' = result
  /\ UNCHANGED <<weightsFile, mirrorFile, recordFile, metaFile, converter, runs, replaced>>

\* The hashes, then lewm-reference-record --burn-record-in.
VerifyConversion ==
  Read([did |-> "verify", ok |-> HashesAgree(metaFile, mirrorFile, recordFile) /\ RecordMatches(mirrorFile, recordFile),
        sha |-> metaFile.sha, steady |-> metaFile.steady, mirror |-> mirrorFile, record |-> recordFile])

SafetensorsFiles == OwnExports \cup ({mirrorFile} \ {"none"})

\* load_jepa_from_safetensors.
LoadJepa == \E id \in SafetensorsFiles : Read([did |-> "load", ok |-> LoaderTakes(id), file |-> id])

\* export_onnx.py: recover_pytorch_numpy_from_burn, then the two graphs.
ExportGraphs == \E id \in SafetensorsFiles : Read([did |-> "export", ok |-> ExporterTakes(id), file |-> id])

NextCommand ==
  /\ reading # NoReading /\ reading' = NoReading
  /\ UNCHANGED <<weightsFile, mirrorFile, recordFile, metaFile, converter, runs, replaced>>

ConversionInit ==
  /\ weightsFile \in Checkpoints
  /\ mirrorFile = "none" /\ recordFile = "none" /\ metaFile = NoMeta
  /\ converter = Idle /\ reading = NoReading /\ runs = 0 /\ replaced = 0

ConversionNext ==
  \/ StartConversion \/ LoadStateDict \/ WriteMirror \/ BeginRecord \/ EndRecord \/ WriteMeta \/ Die
  \/ ReplaceReference \/ VerifyConversion \/ LoadJepa \/ ExportGraphs \/ NextCommand

ConversionSpec == ConversionInit /\ [][ConversionNext]_conversionVars

-----------------------------------------------------------------------------
(* Properties.                                                              *)

\* Verified files are of one conversion, whatever other conversions began and
\* died before and after it: the record holds the tensors of the mirror, and
\* where the metadata names the locked weights they are the locked ones, unless
\* weights.pt was replaced between its hash and its load.
VerifiedIsOneConversion ==
  reading.did = "verify" /\ reading.ok =>
    /\ reading.record = reading.mirror
    /\ reading.sha # "skipped" /\ reading.steady => reading.mirror = "locked"
=============================================================================
