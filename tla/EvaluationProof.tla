--------------------------- MODULE EvaluationProof ---------------------------
(***************************************************************************)
(* Proofs about what is done with a trained model.                         *)
(*                                                                         *)
(* The export: whatever is interrupted or overlaps, a sidecar vouches for  *)
(* its graphs, a pair of two exports tells of an export that had not       *)
(* ended, and of the step files the newest is read.  The comparisons and   *)
(* the benchmark say nothing that the compared values do not.  A rollout   *)
(* is scored by its own predictions and correct ranks.  A planner's costs  *)
(* are those of their candidates, and its plan is the cheapest.            *)
(*                                                                         *)
(* Files that were verified are of one conversion, and a file that is      *)
(* written is never torn.                                                  *)
(*                                                                         *)
(* Between them, as lemmas of their own: what the sorting permutation of   *)
(* Sorting gives, sums and ranks.  DataLemmas has what they rest on.       *)
(***************************************************************************)
EXTENDS Inference, Planning, Conversion, AtomicFile, DataLemmas

-----------------------------------------------------------------------------
(* The export and the loader. *)

ExportNames == {"encoder.onnx", "predictor.onnx", "onnx_export.json"}
Exported == Dirs \X ExportNames
InferenceFiles == Dirs \X (Graphs \union {"onnx_export.json"})

OldGraph == [export |-> -1, whole |-> TRUE]

ExportTypes ==
  /\ weights \in Nat /\ exports.begun \in Nat
  /\ exports \in [begun : Nat, ended : SUBSET (1..exports.begun)]
  /\ DOMAIN files = InferenceFiles
  /\ \A f \in Exported : files[f].export \in 0..exports.begun
  /\ \A d \in Dirs, name \in {"encoder.nnef", "predictor.nnef"} : File(d, name) \in {Missing, OldGraph}
  /\ \A d \in Dirs : File(d, "onnx_export.json").whole => File(d, "onnx_export.json").names \subseteq Dirs
  /\ exporter \in {Nothing} \union [at : {"writing"}, export : {exports.begun} \ (exports.ended \union {0}), weights : 0..weights,
                                    variants : Selections, next : Nat \ {0}, open : BOOLEAN]

\* The files before the current one are of this export, and no others are.
Progress ==
  exporter # Nothing =>
    LET targets == ExportTargets(exporter.variants)
    IN  /\ exporter.next <= Len(targets)
        /\ \A k \in 1..(exporter.next - 1) : files[targets[k]].export = exporter.export
        /\ \A f \in Exported : files[f].export = exporter.export => \E k \in 1..exporter.next : targets[k] = f

\* An export that ended has left no encoder without its predictor.
EndedInPairs ==
  \A d \in Dirs : File(d, "encoder.onnx").export \in exports.ended =>
    File(d, "predictor.onnx").export >= File(d, "encoder.onnx").export

\* What a loader that has read the encoder can still find for a predictor.
HalfLoaded ==
  runner.at = "encoder" =>
    /\ runner.dir \in Dirs /\ runner.format \in {"onnx", "nnef"} /\ runner.ended \subseteq exports.ended
    /\ runner.format = "nnef" => runner.encoder.export = -1
    /\ runner.format = "onnx" =>
         LET e == runner.encoder.export
             p == File(runner.dir, "predictor.onnx").export
         IN  /\ e \in 0..exports.begun
             /\ e \in runner.ended => p >= e
             /\ p > e => p \notin runner.ended

CheckpointTypes == checkpoint.steps \subseteq StepFiles

ExportInv ==
  /\ ExportTypes /\ Progress /\ EndedInPairs /\ SidecarComesLast
  /\ HalfLoaded /\ MixedPairMeansUnfinishedExport /\ NewestStepIsLoaded /\ CheckpointTypes


-----------------------------------------------------------------------------
\* The files of an export, in each of the three selections.

LEMMA TargetsOfOne ==
  ASSUME NEW variants \in {<<"onnxruntime">>, <<"tract-compat">>}
  PROVE  LET T == ExportTargets(variants)
         IN  /\ Len(T) = 3
             /\ T[1] = <<"flat", "encoder.onnx">> /\ T[2] = <<"flat", "predictor.onnx">>
             /\ T[3] = <<"flat", "onnx_export.json">>
             /\ DirsOf(variants) = {"flat"}
<1>1. Len(variants) = 1
  OBVIOUS
<1> DEFINE G == GraphTargets(variants)
           S == <<<<"flat", "onnx_export.json">>>> \o << >>
<1>2. \A k \in DOMAIN variants : VariantDir(variants, k) = "flat"
  BY <1>1 DEF VariantDir
<1>3. 2 * Len(variants) = 2 /\ DOMAIN variants = {1}
  BY <1>1
<1>4. /\ G = [i \in 1..2 |-> <<VariantDir(variants, (i + 1) \div 2), IF i % 2 = 1 THEN "encoder.onnx" ELSE "predictor.onnx">>]
  BY <1>3 DEF GraphTargets
<1>5. (1 + 1) \div 2 = 1 /\ (2 + 1) \div 2 = 1 /\ 1 % 2 = 1 /\ 2 % 2 = 0
  OBVIOUS
<1>6. G[1] = <<"flat", "encoder.onnx">> /\ G[2] = <<"flat", "predictor.onnx">> /\ Len(G) = 2
  BY <1>1, <1>4, <1>5 DEF VariantDir
<1>7. SidecarTargets(variants) = S
  BY <1>1 DEF SidecarTargets
<1>8. S = <<<<"flat", "onnx_export.json">>>>
  OBVIOUS
<1> DEFINE X == {G[1], G[2], <<"flat", "onnx_export.json">>}
           F == <<<<"flat", "onnx_export.json">>>>
<1>9. G \in Seq(X)
  <2>1. G = [i \in 1..2 |-> G[i]]
    BY <1>4
  <2>2. \A i \in 1..2 : G[i] \in X
    OBVIOUS
  <2> HIDE DEF G, X
  <2> QED BY <2>1, <2>2, AsSeq
<1>10. ExportTargets(variants) = G \o <<<<"flat", "onnx_export.json">>>>
  BY <1>7, <1>8 DEF ExportTargets
<1>11. DirsOf(variants) = {"flat"}
  BY <1>1, <1>2, <1>3 DEF DirsOf
<1>13. F \in Seq(X) /\ Len(F) = 1 /\ F[1] = <<"flat", "onnx_export.json">>
  <2>1. F[1] \in X
    OBVIOUS
  <2> HIDE DEF X
  <2> QED BY <2>1
<1> HIDE DEF G, F, X
<1>12. Len(G \o F) = 3 /\ (G \o F)[1] = G[1] /\ (G \o F)[2] = G[2] /\ (G \o F)[3] = F[1]
  <2>1. /\ Len(G \o F) = Len(G) + Len(F)
        /\ \A i \in 1..Len(G) : (G \o F)[i] = G[i]
        /\ \A i \in 1..Len(F) : (G \o F)[Len(G) + i] = F[i]
    BY <1>9, <1>13, ConcatAt
  <2> QED BY <2>1, <1>6, <1>13
<1> QED BY <1>6, <1>10, <1>11, <1>12, <1>13 DEF F

LEMMA TargetsOfBoth ==
  LET variants == <<"onnxruntime", "tract-compat">>
      T == ExportTargets(variants)
  IN  /\ Len(T) = 7
      /\ T[1] = <<"onnxruntime", "encoder.onnx">> /\ T[2] = <<"onnxruntime", "predictor.onnx">>
      /\ T[3] = <<"tract-compat", "encoder.onnx">> /\ T[4] = <<"tract-compat", "predictor.onnx">>
      /\ T[5] = <<"flat", "onnx_export.json">>
      /\ T[6] = <<"onnxruntime", "onnx_export.json">> /\ T[7] = <<"tract-compat", "onnx_export.json">>
      /\ DirsOf(variants) = {"onnxruntime", "tract-compat"}
<1> DEFINE variants == <<"onnxruntime", "tract-compat">>
           G == GraphTargets(variants)
           C == [k \in DOMAIN variants |-> <<variants[k], "onnx_export.json">>]
           F == <<<<"flat", "onnx_export.json">>>>
           S == F \o C
<1>1. Len(variants) = 2 /\ DOMAIN variants = {1, 2} /\ DOMAIN variants = 1..2
  OBVIOUS
<1>2. VariantDir(variants, 1) = "onnxruntime" /\ VariantDir(variants, 2) = "tract-compat"
  BY <1>1 DEF VariantDir
<1>3. DirsOf(variants) = {"onnxruntime", "tract-compat"}
  BY <1>1, <1>2 DEF DirsOf
<1>4. G = [i \in 1..4 |-> <<VariantDir(variants, (i + 1) \div 2), IF i % 2 = 1 THEN "encoder.onnx" ELSE "predictor.onnx">>]
  BY <1>1 DEF GraphTargets
<1>5. /\ (1 + 1) \div 2 = 1 /\ (2 + 1) \div 2 = 1 /\ (3 + 1) \div 2 = 2 /\ (4 + 1) \div 2 = 2
      /\ 1 % 2 = 1 /\ 2 % 2 = 0 /\ 3 % 2 = 1 /\ 4 % 2 = 0
  OBVIOUS
<1> HIDE DEF variants
<1>6. /\ G[1] = <<"onnxruntime", "encoder.onnx">> /\ G[2] = <<"onnxruntime", "predictor.onnx">>
      /\ G[3] = <<"tract-compat", "encoder.onnx">> /\ G[4] = <<"tract-compat", "predictor.onnx">>
  BY <1>2, <1>4, <1>5
<1>7. DOMAIN G = 1..4 /\ Len(G) = 4
  BY <1>4
<1>8. /\ C[1] = <<"onnxruntime", "onnx_export.json">> /\ C[2] = <<"tract-compat", "onnx_export.json">>
      /\ C = [k \in 1..2 |-> C[k]]
  BY <1>1 DEF variants
<1> DEFINE X == {G[1], G[2], G[3], G[4], F[1], C[1], C[2]}
<1>9. G \in Seq(X)
  <2>1. G = [i \in 1..4 |-> G[i]]
    BY <1>4
  <2>2. \A i \in 1..4 : G[i] \in X
    OBVIOUS
  <2> HIDE DEF G, X
  <2> QED BY <2>1, <2>2, AsSeq
<1>10. C \in Seq(X) /\ Len(C) = 2
  <2>2. \A i \in 1..2 : C[i] \in X
    OBVIOUS
  <2> HIDE DEF C, X
  <2> QED BY <1>8, <2>2, AsSeq
<1>11. ExportTargets(variants) = G \o S
  BY <1>1 DEF ExportTargets, SidecarTargets
<1>12. F \in Seq(X) /\ Len(F) = 1 /\ F[1] = <<"flat", "onnx_export.json">>
  <2>1. F[1] \in X
    OBVIOUS
  <2> HIDE DEF X
  <2> QED BY <2>1
<1> HIDE DEF G, C, F, X
<1>13. S \in Seq(X) /\ Len(S) = 3 /\ S[1] = F[1] /\ S[2] = C[1] /\ S[3] = C[2]
  <2>1. /\ S \in Seq(X) /\ Len(S) = Len(F) + Len(C)
        /\ \A i \in 1..Len(F) : S[i] = F[i]
        /\ \A i \in 1..Len(C) : S[Len(F) + i] = C[i]
    <3>1. C \in Seq(X) /\ F \in Seq(X)
      BY <1>10, <1>12
    <3> QED BY <3>1, ConcatAt
  <2> HIDE DEF S
  <2> QED BY <2>1, <1>10, <1>12
<1> HIDE DEF S
<1>15. LET T == G \o S
       IN  /\ Len(T) = 7 /\ T[1] = G[1] /\ T[2] = G[2] /\ T[3] = G[3] /\ T[4] = G[4]
           /\ T[5] = S[1] /\ T[6] = S[2] /\ T[7] = S[3]
  <2> DEFINE T == G \o S
  <2>1. /\ Len(T) = Len(G) + Len(S)
        /\ \A i \in 1..Len(G) : T[i] = G[i]
        /\ \A i \in 1..Len(S) : T[Len(G) + i] = S[i]
    BY <1>9, <1>13, ConcatAt
  <2> HIDE DEF T
  <2>2. Len(T) = 7 /\ T[1] = G[1] /\ T[2] = G[2] /\ T[3] = G[3] /\ T[4] = G[4]
    BY <2>1, <1>7, <1>13
  <2>3. T[5] = S[1] /\ T[6] = S[2] /\ T[7] = S[3]
    BY <2>1, <1>7, <1>13
  <2> QED BY <2>2, <2>3 DEF T
<1> QED BY <1>3, <1>6, <1>8, <1>11, <1>12, <1>13, <1>15 DEF variants

\* An encoder comes before its predictor, and both before any sidecar, the last.
ExportOrder(variants, T) ==
  /\ Len(T) \in Nat \ {0} /\ DirsOf(variants) \subseteq Dirs
  /\ \A k \in 1..Len(T) : T[k] \in Exported
  /\ \A k \in 1..Len(T), d \in Dirs : T[k] = <<d, "onnx_export.json">> =>
       \A g \in DirsOf(variants) :
         /\ \E j \in 1..(k - 1) : T[j] = <<g, "encoder.onnx">>
         /\ \E j \in 1..(k - 1) : T[j] = <<g, "predictor.onnx">>
  /\ \A k \in 1..Len(T), d \in Dirs : T[k] = <<d, "predictor.onnx">> => \E j \in 1..(k - 1) : T[j] = <<d, "encoder.onnx">>
  /\ \A k \in 1..Len(T), d \in Dirs : T[k] = <<d, "encoder.onnx">> => d \in DirsOf(variants)
  /\ \E d \in Dirs : T[Len(T)] = <<d, "onnx_export.json">>

LEMMA TargetsInOrder ==
  ASSUME NEW variants \in Selections
  PROVE  ExportOrder(variants, ExportTargets(variants))
<1>1. CASE variants \in {<<"onnxruntime">>, <<"tract-compat">>}
  <2> DEFINE T == ExportTargets(variants)
             D == DirsOf(variants)
  <2>1. /\ Len(T) = 3
        /\ T[1] = <<"flat", "encoder.onnx">> /\ T[2] = <<"flat", "predictor.onnx">>
        /\ T[3] = <<"flat", "onnx_export.json">> /\ D = {"flat"}
    BY <1>1, TargetsOfOne
  <2> HIDE DEF T, D
  <2>2. \A k \in 1..Len(T) : k = 1 \/ k = 2 \/ k = 3
    BY <2>1
  <2>3. \A k \in 1..Len(T) : T[k] \in Exported
    BY <2>1, <2>2 DEF Exported, Dirs, ExportNames
  <2>4. ASSUME NEW k \in 1..Len(T), NEW d \in Dirs, T[k] = <<d, "onnx_export.json">> PROVE k = 3
    BY <2>1, <2>2, <2>4
  <2>5. ASSUME NEW k \in 1..Len(T), NEW d \in Dirs, T[k] = <<d, "predictor.onnx">> PROVE k = 2 /\ d = "flat"
    BY <2>1, <2>2, <2>5
  <2>6. ASSUME NEW k \in 1..Len(T), NEW d \in Dirs, T[k] = <<d, "encoder.onnx">> PROVE d = "flat"
    BY <2>1, <2>2, <2>6
  <2> QED BY <2>1, <2>3, <2>4, <2>5, <2>6 DEF ExportOrder, T, D, Dirs
<1>2. CASE variants = <<"onnxruntime", "tract-compat">>
  <2> DEFINE T == ExportTargets(variants)
             D == DirsOf(variants)
  <2>1. /\ Len(T) = 7
        /\ T[1] = <<"onnxruntime", "encoder.onnx">> /\ T[2] = <<"onnxruntime", "predictor.onnx">>
        /\ T[3] = <<"tract-compat", "encoder.onnx">> /\ T[4] = <<"tract-compat", "predictor.onnx">>
        /\ T[5] = <<"flat", "onnx_export.json">>
        /\ T[6] = <<"onnxruntime", "onnx_export.json">> /\ T[7] = <<"tract-compat", "onnx_export.json">>
        /\ D = {"onnxruntime", "tract-compat"}
    BY <1>2, TargetsOfBoth
  <2> HIDE DEF T, D
  <2>2. \A k \in 1..Len(T) : k = 1 \/ k = 2 \/ k = 3 \/ k = 4 \/ k = 5 \/ k = 6 \/ k = 7
    BY <2>1
  <2>3. \A k \in 1..Len(T) : T[k] \in Exported
    BY <2>1, <2>2 DEF Exported, Dirs, ExportNames
  <2>4. ASSUME NEW k \in 1..Len(T), NEW d \in Dirs, T[k] = <<d, "onnx_export.json">> PROVE k = 5 \/ k = 6 \/ k = 7
    BY <2>1, <2>2, <2>4
  <2>5. ASSUME NEW k \in 1..Len(T), NEW d \in Dirs, T[k] = <<d, "predictor.onnx">>
        PROVE (k = 2 /\ d = "onnxruntime") \/ (k = 4 /\ d = "tract-compat")
    BY <2>1, <2>2, <2>5
  <2>6. ASSUME NEW k \in 1..Len(T), NEW d \in Dirs, T[k] = <<d, "encoder.onnx">> PROVE d \in D
    BY <2>1, <2>2, <2>6
  <2>7. ASSUME NEW k \in 1..Len(T), NEW d \in Dirs, T[k] = <<d, "onnx_export.json">>
        PROVE  1 \in 1..(k - 1) /\ 2 \in 1..(k - 1) /\ 3 \in 1..(k - 1) /\ 4 \in 1..(k - 1)
    BY <2>4, <2>7
  <2>8. ASSUME NEW k \in 1..Len(T), NEW d \in Dirs, T[k] = <<d, "predictor.onnx">>
        PROVE  \E j \in 1..(k - 1) : T[j] = <<d, "encoder.onnx">>
    <3>1. CASE k = 2 /\ d = "onnxruntime"
      <4>1. 1 \in 1..(k - 1)
        BY <3>1
      <4> QED BY <2>1, <3>1, <4>1
    <3>2. CASE k = 4 /\ d = "tract-compat"
      <4>1. 3 \in 1..(k - 1)
        BY <3>2
      <4> QED BY <2>1, <3>2, <4>1
    <3> QED BY <3>1, <3>2, <2>5, <2>8
  <2>9. ASSUME NEW k \in 1..Len(T), NEW d \in Dirs, T[k] = <<d, "onnx_export.json">>, NEW g \in D
        PROVE  /\ \E j \in 1..(k - 1) : T[j] = <<g, "encoder.onnx">>
               /\ \E j \in 1..(k - 1) : T[j] = <<g, "predictor.onnx">>
    <3>1. CASE g = "onnxruntime"
      BY <3>1, <2>1, <2>7, <2>9
    <3>2. CASE g = "tract-compat"
      BY <3>2, <2>1, <2>7, <2>9
    <3> QED BY <3>1, <3>2, <2>1
  <2>10. D \subseteq Dirs /\ "tract-compat" \in Dirs
    BY <2>1 DEF Dirs
  <2> QED BY <2>1, <2>3, <2>6, <2>8, <2>9, <2>10 DEF ExportOrder, T, D
<1> QED BY <1>1, <1>2 DEF Selections

-----------------------------------------------------------------------------
\* The greatest number of a finite set, which detect_safetensors reads.

LEMMA FilesAtFirst == InferenceInit => ExportInv
<1> SUFFICES ASSUME InferenceInit PROVE ExportInv
  OBVIOUS
<1>1. PICK nnef \in SUBSET {"encoder.nnef", "predictor.nnef"} :
        files = [f \in InferenceFiles |-> IF f[1] = "flat" /\ f[2] \in nnef THEN OldGraph ELSE Missing]
  BY DEF InferenceInit, InferenceFiles, OldGraph
<1>2. \A d \in Dirs, name \in ExportNames : File(d, name) = Missing
  BY <1>1 DEF InferenceFiles, ExportNames, Graphs, File
<1>3. \A d \in Dirs, name \in {"encoder.nnef", "predictor.nnef"} : File(d, name) \in {Missing, OldGraph}
  BY <1>1 DEF InferenceFiles, Graphs, File
<1>4. \A f \in Exported : files[f] = Missing
  BY <1>1 DEF Exported, ExportNames, InferenceFiles, Graphs, File
<1>5. ExportTypes
  <2>1. exports = [begun |-> 0, ended |-> {}] /\ exports.begun = 0 /\ weights = 1 /\ exporter = Nothing
    BY DEF InferenceInit
  <2>2. exports \in [begun : Nat, ended : SUBSET (1..exports.begun)]
    <3>1. {} \in SUBSET (1..exports.begun)
      OBVIOUS
    <3> QED BY <2>1, <3>1
  <2>3. \A f \in Exported : files[f].export \in 0..exports.begun
    BY <1>4, <2>1 DEF Missing
  <2>4. \A d \in Dirs : ~File(d, "onnx_export.json").whole
    BY <1>2 DEF Missing, ExportNames
  <2>5. DOMAIN files = InferenceFiles
    BY <1>1
  <2> QED BY <1>3, <2>1, <2>2, <2>3, <2>4, <2>5 DEF ExportTypes
<1>6. Progress
  BY DEF Progress, InferenceInit
<1>7. EndedInPairs /\ SidecarComesLast
  BY <1>2 DEF EndedInPairs, SidecarComesLast, InferenceInit, Missing, ExportNames
<1>8. runner.at = "nothing"
  BY DEF InferenceInit, Nothing
<1>9. HalfLoaded /\ MixedPairMeansUnfinishedExport /\ NewestStepIsLoaded
  BY <1>8 DEF HalfLoaded, MixedPairMeansUnfinishedExport, NewestStepIsLoaded
<1>10. CheckpointTypes
  BY DEF CheckpointTypes, InferenceInit
<1> QED BY <1>5, <1>6, <1>7, <1>9, <1>10 DEF File, ExportInv

\* What the comparisons and the server do, the export does not see.
LEMMA RestOfInference ==
  ASSUME ExportInv, UNCHANGED <<fileVars, checkpoint, runner>>
  PROVE  ExportInv'
BY DEF File, ExportInv, ExportTypes, Progress, EndedInPairs, SidecarComesLast, HalfLoaded, MixedPairMeansUnfinishedExport,
       NewestStepIsLoaded, CheckpointTypes, fileVars

LEMMA BeginExportKeeps ==
  ASSUME ExportInv, BeginExport
  PROVE  ExportInv'
<1> USE DEF BeginExport
<1>1. exports.begun \in Nat /\ exports' = [begun |-> exports.begun + 1, ended |-> exports.ended]
  BY DEF File, ExportInv, ExportTypes
<1>2. exports'.begun = exports.begun + 1 /\ exports'.ended = exports.ended
  BY <1>1
<1>3. exports.begun + 1 \notin exports.ended /\ exports.ended \subseteq 1..(exports.begun + 1)
  BY DEF File, ExportInv, ExportTypes
<1>4. \/ exporter' = Nothing
      \/ \E variants \in Selections :
           exporter' = [at |-> "writing", export |-> exports.begun + 1, weights |-> weights,
                        variants |-> variants, next |-> 1, open |-> FALSE]
  OBVIOUS
<1>5. ExportTypes'
  <2>1. exporter' \in {Nothing} \union [at : {"writing"}, export : {exports'.begun} \ (exports'.ended \union {0}), weights : 0..weights',
                                        variants : Selections, next : Nat \ {0}, open : BOOLEAN]
    <3>1. exports'.begun \in {exports'.begun} \ (exports'.ended \union {0}) /\ weights \in 0..weights' /\ 1 \in Nat \ {0}
      BY <1>2, <1>3 DEF File, ExportInv, ExportTypes
    <3>2. exporter' = Nothing \/ exporter' \in [at : {"writing"}, export : {exports'.begun} \ (exports'.ended \union {0}), weights : 0..weights',
                                        variants : Selections, next : Nat \ {0}, open : BOOLEAN]
      BY <1>2, <1>4, <3>1
    <3> QED BY <3>2
  <2>2. exports' \in [begun : Nat, ended : SUBSET (1..exports'.begun)]
    <3>1. exports.begun + 1 \in Nat /\ exports.ended \in SUBSET (1..exports'.begun)
      BY <1>1, <1>2, <1>3
    <3> QED BY <1>1, <3>1
  <2>3. \A f \in Exported : files'[f].export \in 0..exports'.begun
    BY <1>1, <1>2 DEF File, ExportInv, ExportTypes
  <2> QED BY <1>1, <1>2, <2>1, <2>2, <2>3 DEF File, ExportInv, ExportTypes
<1>6. Progress'
  <2> SUFFICES ASSUME exporter' # Nothing
               PROVE  LET targets == ExportTargets(exporter'.variants)
                      IN  /\ exporter'.next <= Len(targets)
                          /\ \A k \in 1..(exporter'.next - 1) : files'[targets[k]].export = exporter'.export
                          /\ \A f \in Exported : files'[f].export = exporter'.export => \E k \in 1..exporter'.next : targets[k] = f
    BY DEF Progress
  <2>1. PICK variants \in Selections :
           exporter' = [at |-> "writing", export |-> exports.begun + 1, weights |-> weights,
                        variants |-> variants, next |-> 1, open |-> FALSE]
    BY <1>4
  <2>2. exporter'.next = 1 /\ exporter'.variants = variants /\ exporter'.export = exports.begun + 1
    BY <2>1
  <2>3. Len(ExportTargets(variants)) \in Nat \ {0}
    BY TargetsInOrder DEF ExportOrder
  <2>4. \A f \in Exported : files'[f].export # exports.begun + 1
    BY <1>1 DEF File, ExportInv, ExportTypes
  <2> QED BY <2>2, <2>3, <2>4
<1>7. HalfLoaded'
  BY <1>1, <1>2 DEF File, ExportInv, HalfLoaded
<1> QED BY <1>2, <1>5, <1>6, <1>7 DEF File, ExportInv, EndedInPairs, SidecarComesLast, MixedPairMeansUnfinishedExport,
                                      NewestStepIsLoaded, CheckpointTypes

LEMMA StopExportKeeps ==
  ASSUME ExportInv, StopExport
  PROVE  ExportInv'
BY DEF StopExport, File, ExportInv, ExportTypes, Progress, EndedInPairs, SidecarComesLast, HalfLoaded, MixedPairMeansUnfinishedExport,
       NewestStepIsLoaded, CheckpointTypes

LEMMA ReplaceWeightsKeeps ==
  ASSUME ExportInv, ReplaceWeights
  PROVE  ExportInv'
<1>1. ExportTypes'
  <2>1. weights' \in Nat /\ \A n \in 0..weights : n \in 0..weights'
    BY DEF ReplaceWeights, File, ExportInv, ExportTypes
  <2> QED BY <2>1 DEF ReplaceWeights, File, ExportInv, ExportTypes
<1> QED BY <1>1 DEF ReplaceWeights, File, ExportInv, Progress, EndedInPairs, SidecarComesLast, HalfLoaded, MixedPairMeansUnfinishedExport,
                    NewestStepIsLoaded, CheckpointTypes

\* One file more of this export: none gets older, and none but this one changes.
LEMMA WriteExportKeeps ==
  ASSUME ExportInv, WriteExport
  PROVE  ExportInv'
<1> DEFINE T == ExportTargets(exporter.variants)
           n == exporter.next
           t == T[n]
           e == exporter.export
           file == [export |-> e, weights |-> exporter.weights, digest |-> weights,
                    names |-> DirsOf(exporter.variants), whole |-> exporter.open]
           last == n = Len(T) /\ exporter.open
<1>1. /\ exporter.at = "writing" /\ exporter # Nothing
      /\ exporter \in [at : {"writing"}, export : {exports.begun} \ (exports.ended \union {0}), weights : 0..weights,
                       variants : Selections, next : Nat \ {0}, open : BOOLEAN]
  BY DEF WriteExport, ExportInv, ExportTypes, Nothing
<1>2. /\ e = exports.begun /\ e \notin exports.ended /\ e # 0 /\ exporter.variants \in Selections
      /\ n \in Nat \ {0} /\ exporter.weights \in 0..weights /\ exporter.open \in BOOLEAN
      /\ weights \in Nat /\ exports.begun \in Nat /\ exports.ended \in SUBSET (1..exports.begun)
  BY <1>1 DEF ExportInv, ExportTypes
<1>3. ExportOrder(exporter.variants, T)
  BY <1>2, TargetsInOrder
<1>4. n \in 1..Len(T) /\ t \in Exported /\ Len(T) \in Nat
  <2>1. n <= Len(T)
    BY <1>1 DEF ExportInv, Progress
  <2> QED BY <2>1, <1>2, <1>3 DEF ExportOrder
<1>5. /\ files' = [files EXCEPT ![t] = file]
      /\ exporter' = IF last THEN Nothing
                     ELSE [exporter EXCEPT !.open = ~exporter.open, !.next = IF exporter.open THEN n + 1 ELSE n]
      /\ exports' = IF last THEN [exports EXCEPT !.ended = exports.ended \union {e}] ELSE exports
      /\ UNCHANGED <<weights, checkpoint, runner>>
  BY DEF WriteExport, Written
<1>6. DOMAIN files = InferenceFiles /\ Exported \subseteq InferenceFiles
  BY DEF ExportInv, ExportTypes, Exported, ExportNames, InferenceFiles, Graphs
<1>7. /\ DOMAIN files' = InferenceFiles /\ files'[t] = file
      /\ \A f \in InferenceFiles : f # t => files'[f] = files[f]
  BY <1>4, <1>5, <1>6
<1>8. /\ file.export = e /\ file.names = DirsOf(exporter.variants) /\ file.digest = weights
      /\ file.weights = exporter.weights /\ file.whole = exporter.open
  OBVIOUS
<1>9. /\ exports'.begun = exports.begun
      /\ exports'.ended = IF last THEN exports.ended \union {e} ELSE exports.ended
      /\ exports' \in [begun : Nat, ended : SUBSET (1..exports'.begun)]
  <2>1. exports \in [begun : Nat, ended : SUBSET (1..exports.begun)]
    BY DEF ExportInv, ExportTypes
  <2>2. e \in 1..exports.begun
    BY <1>2
  <2>3. CASE last
    <3>1. exports' = [begun |-> exports.begun, ended |-> exports.ended \union {e}]
      BY <1>5, <2>1, <2>3
    <3>2. exports.ended \union {e} \in SUBSET (1..exports.begun)
      BY <1>2, <2>2
    <3> QED BY <3>1, <3>2, <1>2, <2>3
  <2>4. CASE ~last
    BY <1>5, <2>1, <2>4
  <2> QED BY <2>3, <2>4
<1>10. \A f \in Exported : files[f].export \in 0..exports.begun
  BY DEF ExportInv, ExportTypes
<1> HIDE DEF file, t, T
<1>11. \A f \in Exported : /\ files'[f].export \in 0..exports.begun
                           /\ files'[f].export >= files[f].export
                           /\ f # t => files'[f] = files[f]
                           /\ f = t => files'[f].export = e
  <2> SUFFICES ASSUME NEW f \in Exported
               PROVE  /\ files'[f].export \in 0..exports.begun
                      /\ files'[f].export >= files[f].export
                      /\ f # t => files'[f] = files[f]
                      /\ f = t => files'[f].export = e
    OBVIOUS
  <2>1. CASE f = t
    BY <2>1, <1>2, <1>7, <1>8, <1>10
  <2>2. CASE f # t
    BY <2>2, <1>6, <1>7, <1>10
  <2> QED BY <2>1, <2>2
<1>24. \A f \in Exported : files[f].export \in Int /\ files'[f].export \in Int
  BY <1>2, <1>10, <1>11
<1>12. \A d \in Dirs : \A name \in ExportNames : <<d, name>> \in Exported
  BY DEF Exported
<1>13. \A d \in Dirs : /\ <<d, "encoder.onnx">> \in Exported
                       /\ <<d, "predictor.onnx">> \in Exported
                       /\ <<d, "onnx_export.json">> \in Exported
  BY <1>12 DEF ExportNames
<1>14. ExportTypes'
  <2>1. \A f \in Exported : files'[f].export \in 0..exports'.begun
    BY <1>9, <1>11
  <2>2. ASSUME NEW d \in Dirs, NEW name \in {"encoder.nnef", "predictor.nnef"}
        PROVE  File(d, name)' \in {Missing, OldGraph}
    <3>1. <<d, name>> # t /\ <<d, name>> \in InferenceFiles
      BY <1>4 DEF Exported, ExportNames, InferenceFiles, Graphs
    <3>2. files'[<<d, name>>] = files[<<d, name>>]
      BY <3>1, <1>7
    <3>3. File(d, name) \in {Missing, OldGraph}
      BY DEF ExportInv, ExportTypes
    <3> QED BY <3>2, <3>3 DEF File
  <2>3. ASSUME NEW d \in Dirs, File(d, "onnx_export.json")'.whole
        PROVE  File(d, "onnx_export.json")'.names \subseteq Dirs
    <3>1. CASE <<d, "onnx_export.json">> = t
      BY <3>1, <1>3, <1>7, <1>8 DEF File, ExportOrder
    <3>2. CASE <<d, "onnx_export.json">> # t
      <4>1. File(d, "onnx_export.json")' = File(d, "onnx_export.json")
        BY <3>2, <1>11, <1>13 DEF File
      <4> QED BY <4>1, <2>3 DEF ExportInv, ExportTypes
    <3> QED BY <3>1, <3>2
  <2>4. exporter' \in {Nothing} \union [at : {"writing"}, export : {exports'.begun} \ (exports'.ended \union {0}), weights : 0..weights',
                                        variants : Selections, next : Nat \ {0}, open : BOOLEAN]
    <3>1. CASE last
      BY <3>1, <1>5
    <3>2. CASE ~last
      <4>1. exports'.begun = exports.begun /\ exports'.ended = exports.ended /\ weights' = weights
        BY <3>2, <1>5, <1>9
      <4>2. (~exporter.open) \in BOOLEAN
        OBVIOUS
      <4> DEFINE m == IF exporter.open THEN n + 1 ELSE n
                 W == [at : {"writing"}, export : {exports.begun} \ (exports.ended \union {0}), weights : 0..weights,
                       variants : Selections, next : Nat \ {0}, open : BOOLEAN]
      <4>3. m \in Nat \ {0}
        <5>1. n \in Nat \ {0} /\ n + 1 \in Nat \ {0}
          BY <1>2
        <5> QED BY <5>1
      <4>4. exporter' = [exporter EXCEPT !.open = ~exporter.open, !.next = m]
        BY <3>2, <1>5
      <4> HIDE DEF m
      <4>5. exporter' \in W
        BY <4>2, <4>3, <4>4, <1>1
      <4> QED BY <4>1, <4>5
    <3> QED BY <3>1, <3>2
  <2>5. weights' \in Nat /\ exports'.begun \in Nat
    BY <1>2, <1>5, <1>9
  <2> QED BY <1>7, <1>9, <2>1, <2>2, <2>3, <2>4, <2>5 DEF ExportTypes
<1>15. /\ \A k \in 1..(n - 1) : files[T[k]].export = e
       /\ \A f \in Exported : files[f].export = e => \E k \in 1..n : T[k] = f
  BY <1>1 DEF ExportInv, Progress, T
<1>16. \A k \in 1..n : T[k] \in Exported /\ files'[T[k]].export = e
  <2> SUFFICES ASSUME NEW k \in 1..n PROVE T[k] \in Exported /\ files'[T[k]].export = e
    OBVIOUS
  <2>1. T[k] \in Exported
    BY <1>3, <1>4 DEF ExportOrder
  <2>2. CASE k = n
    BY <2>1, <2>2, <1>11 DEF t
  <2>3. CASE k # n
    <3>1. k \in 1..(n - 1)
      BY <2>3, <1>2
    <3>2. files[T[k]].export = e
      BY <3>1, <1>15
    <3> QED BY <2>1, <3>2, <1>2, <1>10, <1>11
  <2> QED BY <2>2, <2>3
<1>17. \A f \in Exported : files'[f].export = e => \E k \in 1..n : T[k] = f
  <2> SUFFICES ASSUME NEW f \in Exported, files'[f].export = e PROVE \E k \in 1..n : T[k] = f
    OBVIOUS
  <2>1. CASE f = t
    <3>1. n \in 1..n
      BY <1>2
    <3> QED BY <2>1, <3>1 DEF t
  <2>2. CASE f # t
    BY <2>2, <1>11, <1>15
  <2> QED BY <2>1, <2>2
<1>18. Progress'
  <2> SUFFICES ASSUME exporter' # Nothing
               PROVE  /\ exporter'.next <= Len(ExportTargets(exporter'.variants))
                      /\ \A k \in 1..(exporter'.next - 1) : files'[ExportTargets(exporter'.variants)[k]].export = exporter'.export
                      /\ \A f \in Exported : files'[f].export = exporter'.export
                           => \E k \in 1..exporter'.next : ExportTargets(exporter'.variants)[k] = f
    BY DEF Progress
  <2>1. ~last
    BY <1>5
  <2>2. /\ exporter'.variants = exporter.variants /\ exporter'.export = e
        /\ exporter'.next = IF exporter.open THEN n + 1 ELSE n
    BY <2>1, <1>1, <1>5
  <2>3. exporter'.next <= Len(T)
    BY <2>1, <2>2, <1>4, <1>2
  <2>4. \A k \in 1..(exporter'.next - 1) : k \in 1..n
    BY <2>2, <1>2
  <2>5. \A k \in 1..n : k \in 1..exporter'.next
    BY <2>2, <1>2
  <2>6. ExportTargets(exporter'.variants) = T
    BY <2>2 DEF T
  <2> HIDE DEF n, e
  <2> QED BY <2>2, <2>3, <2>4, <2>5, <2>6, <1>16, <1>17
\* Predictors lag behind encoders, and an export that ends leaves none behind.
<1>19. \A d \in Dirs : /\ files[<<d, "predictor.onnx">>].export <= files[<<d, "encoder.onnx">>].export
                       /\ files'[<<d, "predictor.onnx">>].export <= files'[<<d, "encoder.onnx">>].export
  <2> SUFFICES ASSUME NEW d \in Dirs
               PROVE  /\ files[<<d, "predictor.onnx">>].export <= files[<<d, "encoder.onnx">>].export
                      /\ files'[<<d, "predictor.onnx">>].export <= files'[<<d, "encoder.onnx">>].export
    OBVIOUS
  <2>1. files[<<d, "predictor.onnx">>].export <= files[<<d, "encoder.onnx">>].export
    BY DEF ExportInv, SidecarComesLast, File
  <2>2. CASE <<d, "predictor.onnx">> = t
    <3>1. PICK j \in 1..(n - 1) : T[j] = <<d, "encoder.onnx">>
      BY <2>2, <1>3, <1>4 DEF ExportOrder, t
    <3>2. files'[<<d, "encoder.onnx">>].export = e
      <4>1. j \in 1..n
        BY <1>2
      <4> QED BY <4>1, <3>1, <1>16
    <3>3. files'[<<d, "predictor.onnx">>].export = e
      BY <2>2, <1>11, <1>13
    <3> QED BY <2>1, <3>2, <3>3, <1>2
  <2>3. CASE <<d, "predictor.onnx">> # t
    <3>1. files'[<<d, "predictor.onnx">>].export = files[<<d, "predictor.onnx">>].export
      BY <2>3, <1>11, <1>13
    <3>2. files'[<<d, "encoder.onnx">>].export >= files[<<d, "encoder.onnx">>].export
      BY <1>11, <1>13
    <3>3. /\ files[<<d, "predictor.onnx">>].export \in Int /\ files[<<d, "encoder.onnx">>].export \in Int
          /\ files'[<<d, "encoder.onnx">>].export \in Int
      BY <1>13, <1>24
    <3> QED BY <2>1, <3>1, <3>2, <3>3
  <2> QED BY <2>2, <2>3
<1>20. EndedInPairs'
  <2> SUFFICES ASSUME NEW d \in Dirs, files'[<<d, "encoder.onnx">>].export \in exports'.ended
               PROVE  files'[<<d, "predictor.onnx">>].export >= files'[<<d, "encoder.onnx">>].export
    BY DEF EndedInPairs, File
  <2>1. CASE files'[<<d, "encoder.onnx">>].export = e
    <3>1. last
      BY <2>1, <1>2, <1>9
    <3>2. PICK k \in 1..n : T[k] = <<d, "encoder.onnx">>
      BY <2>1, <1>13, <1>17
    <3>3. d \in DirsOf(exporter.variants)
      BY <3>2, <1>3, <1>4 DEF ExportOrder
    <3>4. PICK s \in Dirs : T[n] = <<s, "onnx_export.json">>
      BY <3>1, <1>3 DEF ExportOrder
    <3>5. PICK j \in 1..(n - 1) : T[j] = <<d, "predictor.onnx">>
      BY <3>3, <3>4, <1>3, <1>4 DEF ExportOrder
    <3>6. j \in 1..n
      BY <1>2
    <3>7. files'[<<d, "predictor.onnx">>].export = e
      BY <3>5, <3>6, <1>16
    <3> QED BY <2>1, <3>7, <1>2
  <2>2. CASE files'[<<d, "encoder.onnx">>].export # e
    <3>1. <<d, "encoder.onnx">> # t
      BY <2>2, <1>11, <1>13
    <3>2. files'[<<d, "encoder.onnx">>].export = files[<<d, "encoder.onnx">>].export
      BY <3>1, <1>11, <1>13
    <3>3. files[<<d, "encoder.onnx">>].export \in exports.ended
      BY <2>2, <3>2, <1>9
    <3>4. files[<<d, "predictor.onnx">>].export >= files[<<d, "encoder.onnx">>].export
      BY <3>3 DEF ExportInv, EndedInPairs, File
    <3>5. files'[<<d, "predictor.onnx">>].export >= files[<<d, "predictor.onnx">>].export
      BY <1>11, <1>13
    <3>6. /\ files[<<d, "predictor.onnx">>].export \in Int /\ files[<<d, "encoder.onnx">>].export \in Int
          /\ files'[<<d, "predictor.onnx">>].export \in Int
      BY <1>13, <1>24
    <3> QED BY <3>2, <3>4, <3>5, <3>6
  <2> QED BY <2>1, <2>2
<1>21. SidecarComesLast'
  <2>1. ASSUME NEW dir \in Dirs, File(dir, "onnx_export.json")'.whole, NEW d \in File(dir, "onnx_export.json")'.names
        PROVE  /\ File(d, "encoder.onnx")'.export >= File(dir, "onnx_export.json")'.export
               /\ File(d, "predictor.onnx")'.export >= File(dir, "onnx_export.json")'.export
               /\ File(dir, "onnx_export.json")'.digest >= File(dir, "onnx_export.json")'.weights
    <3> DEFINE sidecar == <<dir, "onnx_export.json">>
    <3>1. CASE sidecar = t
      <4>1. /\ File(dir, "onnx_export.json")'.export = e /\ d \in DirsOf(exporter.variants)
            /\ File(dir, "onnx_export.json")'.digest = weights /\ File(dir, "onnx_export.json")'.weights = exporter.weights
        BY <3>1, <2>1, <1>7, <1>8 DEF File
      <4>2. /\ \E j \in 1..(n - 1) : T[j] = <<d, "encoder.onnx">>
            /\ \E j \in 1..(n - 1) : T[j] = <<d, "predictor.onnx">>
        BY <3>1, <4>1, <1>3, <1>4 DEF ExportOrder, t
      <4>3. \A j \in 1..(n - 1) : j \in 1..n
        BY <1>2
      <4>4. files'[<<d, "encoder.onnx">>].export = e /\ files'[<<d, "predictor.onnx">>].export = e
        BY <4>2, <4>3, <1>16
      <4> QED BY <4>1, <4>4, <1>2 DEF File
    <3>2. CASE sidecar # t
      <4>1. File(dir, "onnx_export.json")' = File(dir, "onnx_export.json")
        BY <3>2, <1>11, <1>13 DEF File
      <4>2. /\ d \in File(dir, "onnx_export.json").names /\ File(dir, "onnx_export.json").whole
            /\ d \in Dirs
        BY <4>1, <2>1 DEF ExportInv, ExportTypes
      <4>3. /\ File(d, "encoder.onnx").export >= File(dir, "onnx_export.json").export
            /\ File(d, "predictor.onnx").export >= File(dir, "onnx_export.json").export
            /\ File(dir, "onnx_export.json").digest >= File(dir, "onnx_export.json").weights
        BY <4>2 DEF ExportInv, SidecarComesLast
      <4>4. /\ files'[<<d, "encoder.onnx">>].export >= files[<<d, "encoder.onnx">>].export
            /\ files'[<<d, "predictor.onnx">>].export >= files[<<d, "predictor.onnx">>].export
        BY <4>2, <1>11, <1>13
      <4>5. /\ files[<<d, "predictor.onnx">>].export \in Int /\ files[<<d, "encoder.onnx">>].export \in Int
            /\ files'[<<d, "predictor.onnx">>].export \in Int /\ files'[<<d, "encoder.onnx">>].export \in Int
            /\ files[<<dir, "onnx_export.json">>].export \in Int
        BY <4>2, <1>13, <1>24
      <4> QED BY <4>1, <4>3, <4>4, <4>5 DEF File
    <3> QED BY <3>1, <3>2
  <2> QED BY <2>1, <1>19 DEF SidecarComesLast, File
<1>22. HalfLoaded'
  <2> SUFFICES ASSUME runner.at = "encoder"
               PROVE  /\ runner.dir \in Dirs /\ runner.format \in {"onnx", "nnef"} /\ runner.ended \subseteq exports'.ended
                      /\ runner.format = "nnef" => runner.encoder.export = -1
                      /\ runner.format = "onnx" =>
                           LET p == files'[<<runner.dir, "predictor.onnx">>].export
                           IN  /\ runner.encoder.export \in 0..exports'.begun
                               /\ runner.encoder.export \in runner.ended => p >= runner.encoder.export
                               /\ p > runner.encoder.export => p \notin runner.ended
    BY <1>5 DEF HalfLoaded, File
  <2>1. /\ runner.dir \in Dirs /\ runner.format \in {"onnx", "nnef"} /\ runner.ended \subseteq exports.ended
        /\ runner.format = "nnef" => runner.encoder.export = -1
        /\ runner.format = "onnx" =>
             LET p == files[<<runner.dir, "predictor.onnx">>].export
             IN  /\ runner.encoder.export \in 0..exports.begun
                 /\ runner.encoder.export \in runner.ended => p >= runner.encoder.export
                 /\ p > runner.encoder.export => p \notin runner.ended
    BY DEF ExportInv, HalfLoaded, File
  <2>2. exports.ended \subseteq exports'.ended /\ exports'.begun = exports.begun
    BY <1>9
  <2>3. e \notin runner.ended
    BY <2>1, <1>2
  <2> DEFINE p == files[<<runner.dir, "predictor.onnx">>].export
             q == files'[<<runner.dir, "predictor.onnx">>].export
  <2>4. p \in 0..exports.begun /\ q \in 0..exports.begun /\ (q = p \/ q = e)
    BY <2>1, <1>10, <1>11, <1>13
  <2> HIDE DEF p, q
  <2>5. CASE runner.format = "onnx"
    <3>1. runner.encoder.export \in 0..exports.begun
      BY <2>1, <2>5
    <3>2. runner.encoder.export \in runner.ended => q >= runner.encoder.export
      BY <2>1, <2>4, <2>5, <3>1, <1>2 DEF p
    <3>3. q > runner.encoder.export => q \notin runner.ended
      BY <2>1, <2>3, <2>4, <2>5, <3>1, <1>2 DEF p
    <3> QED BY <2>1, <2>2, <2>5, <3>1, <3>2, <3>3 DEF q
  <2>6. CASE runner.format # "onnx"
    BY <2>1, <2>2, <2>6
  <2> QED BY <2>5, <2>6
<1>23. (MixedPairMeansUnfinishedExport /\ NewestStepIsLoaded /\ CheckpointTypes)'
  BY <1>5 DEF ExportInv, MixedPairMeansUnfinishedExport, NewestStepIsLoaded, CheckpointTypes
<1> QED BY <1>14, <1>18, <1>20, <1>21, <1>22, <1>23 DEF ExportInv

\* The first graph is whole when it is read, and its predictor is no newer.
LEMMA LoadGraphsKeeps ==
  ASSUME ExportInv, LoadGraphs
  PROVE  ExportInv'
<1>1. UNCHANGED <<weights, files, exporter, exports, checkpoint>>
  BY DEF LoadGraphs, fileVars
<1>2. PICK dir \in Dirs :
        runner' = IF DetectFormat(dir) \notin Features \/ ~File(dir, Encoder[DetectFormat(dir)]).whole THEN [at |-> "refused"]
                  ELSE [at |-> "encoder", dir |-> dir, format |-> DetectFormat(dir),
                        encoder |-> File(dir, Encoder[DetectFormat(dir)]), ended |-> exports.ended]
  BY DEF LoadGraphs
<1>3. CASE runner' = [at |-> "refused"]
  <2>1. runner'.at = "refused"
    BY <1>3
  <2> QED BY <1>1, <2>1 DEF ExportInv, ExportTypes, Progress, EndedInPairs, SidecarComesLast, HalfLoaded,
        MixedPairMeansUnfinishedExport, NewestStepIsLoaded, CheckpointTypes, File
<1>4. CASE /\ DetectFormat(dir) \in Features /\ File(dir, Encoder[DetectFormat(dir)]).whole
           /\ runner' = [at |-> "encoder", dir |-> dir, format |-> DetectFormat(dir),
                         encoder |-> File(dir, Encoder[DetectFormat(dir)]), ended |-> exports.ended]
  <2> DEFINE format == DetectFormat(dir)
  <2>1. format \in {"onnx", "nnef"}
    BY <1>4, InferenceAssumption DEF DetectFormat
  <2>2. /\ runner'.at = "encoder" /\ runner'.dir = dir /\ runner'.format = format
        /\ runner'.encoder = File(dir, Encoder[format]) /\ runner'.ended = exports.ended
    BY <1>4
  <2> HIDE DEF format
  <2>3. CASE format = "nnef"
    <3>1. Encoder[format] = "encoder.nnef"
      BY <2>3 DEF Encoder
    <3>2. File(dir, "encoder.nnef") \in {Missing, OldGraph} /\ File(dir, "encoder.nnef").whole
      BY <3>1, <1>4 DEF ExportInv, ExportTypes, format
    <3>3. runner'.encoder.export = -1
      BY <2>2, <3>1, <3>2 DEF Missing, OldGraph
    <3> QED BY <1>1, <2>2, <2>3, <3>3 DEF HalfLoaded, ExportInv, ExportTypes, Progress, EndedInPairs, SidecarComesLast,
              MixedPairMeansUnfinishedExport, NewestStepIsLoaded, CheckpointTypes, File
  <2>4. CASE format = "onnx"
    <3>1. runner'.encoder = files[<<dir, "encoder.onnx">>]
      BY <2>2, <2>4 DEF Encoder, File
    <3>2. files[<<dir, "encoder.onnx">>].export \in 0..exports.begun
      BY DEF ExportInv, ExportTypes, Exported, ExportNames
    <3>3. files[<<dir, "predictor.onnx">>].export <= files[<<dir, "encoder.onnx">>].export
      BY DEF ExportInv, SidecarComesLast, File
    <3>4. files[<<dir, "encoder.onnx">>].export \in exports.ended =>
            files[<<dir, "predictor.onnx">>].export >= files[<<dir, "encoder.onnx">>].export
      BY DEF ExportInv, EndedInPairs, File
    <3>5. files[<<dir, "predictor.onnx">>].export \in 0..exports.begun
      BY DEF ExportInv, ExportTypes, Exported, ExportNames
    <3>6. ~(files[<<dir, "predictor.onnx">>].export > files[<<dir, "encoder.onnx">>].export)
      BY <3>2, <3>3, <3>5
    <3>7. HalfLoaded'
      BY <1>1, <2>2, <2>4, <3>1, <3>2, <3>4, <3>6 DEF HalfLoaded, File
    <3> QED BY <1>1, <2>2, <3>7 DEF ExportInv, ExportTypes, Progress, EndedInPairs, SidecarComesLast,
              MixedPairMeansUnfinishedExport, NewestStepIsLoaded, CheckpointTypes, File
  <2> QED BY <2>1, <2>3, <2>4
<1> QED BY <1>2, <1>3, <1>4

\* The pair is then of one export, or the later of its two had not ended.
LEMMA LoadPredictorKeeps ==
  ASSUME ExportInv, LoadPredictor
  PROVE  ExportInv'
<1> DEFINE predictor == File(runner.dir, Predictor[runner.format])
<1>1. UNCHANGED <<weights, files, exporter, exports, checkpoint>> /\ runner.at = "encoder"
  BY DEF LoadPredictor, fileVars
<1>2. runner' = IF ~predictor.whole THEN [at |-> "refused"]
                ELSE [at |-> "graphs", dir |-> runner.dir, format |-> runner.format,
                      encoder |-> runner.encoder, predictor |-> predictor, ended |-> runner.ended]
  BY DEF LoadPredictor
<1>3. /\ runner.dir \in Dirs /\ runner.format \in {"onnx", "nnef"} /\ runner.ended \subseteq exports.ended
      /\ runner.format = "nnef" => runner.encoder.export = -1
      /\ runner.format = "onnx" =>
           LET p == files[<<runner.dir, "predictor.onnx">>].export
           IN  /\ runner.encoder.export \in 0..exports.begun
               /\ runner.encoder.export \in runner.ended => p >= runner.encoder.export
               /\ p > runner.encoder.export => p \notin runner.ended
  BY <1>1 DEF ExportInv, HalfLoaded, File
<1>4. ASSUME predictor.whole, runner.encoder.export # predictor.export
      PROVE  Max({runner.encoder.export, predictor.export}) \notin runner.ended
  <2>1. runner.format = "onnx"
    <3>1. SUFFICES ASSUME runner.format = "nnef" PROVE FALSE
      BY <1>3
    <3>2. predictor = File(runner.dir, "predictor.nnef")
      BY <3>1 DEF Predictor
    <3>3. predictor \in {Missing, OldGraph}
      BY <3>2, <1>3 DEF ExportInv, ExportTypes
    <3>4. predictor.export = -1
      BY <3>3, <1>4 DEF Missing, OldGraph
    <3> QED BY <3>1, <3>4, <1>3, <1>4
  <2>2. predictor = files[<<runner.dir, "predictor.onnx">>]
    BY <2>1 DEF Predictor, File
  <2>3. predictor.export \in 0..exports.begun
    BY <2>2, <1>3 DEF ExportInv, ExportTypes, Exported, ExportNames
  <2>4. exports.begun \in Nat
    BY DEF ExportInv, ExportTypes
  <2> DEFINE e == runner.encoder.export
             p == predictor.export
             m == Max({e, p})
  <2>5. e \in Int /\ p \in Int /\ e # p
    BY <1>3, <1>4, <2>1, <2>3, <2>4
  <2>6. /\ e \in runner.ended => p >= e
        /\ p > e => p \notin runner.ended
    BY <1>3, <2>1, <2>2
  <2> HIDE DEF e, p
  <2>7. m \in {e, p} /\ m >= e /\ m >= p
    <3>1. \E x \in {e, p} : \A y \in {e, p} : x >= y
      BY <2>5
    <3>2. m \in {e, p} /\ \A y \in {e, p} : m >= y
      BY <3>1 DEF Max
    <3> QED BY <3>2
  <2> HIDE DEF m
  <2>8. m \notin runner.ended
    BY <2>5, <2>6, <2>7
  <2> QED BY <2>8 DEF m, e, p
<1>5. CASE ~predictor.whole
  <2>1. runner'.at = "refused"
    BY <1>2, <1>5
  <2> QED BY <1>1, <2>1 DEF ExportInv, ExportTypes, Progress, EndedInPairs, SidecarComesLast, HalfLoaded,
        MixedPairMeansUnfinishedExport, NewestStepIsLoaded, CheckpointTypes, File
<1>6. CASE predictor.whole
  <2>1. /\ runner'.at = "graphs" /\ runner'.encoder = runner.encoder /\ runner'.predictor = predictor
        /\ runner'.ended = runner.ended
    BY <1>2, <1>6
  <2> HIDE DEF predictor
  <2>2. MixedPairMeansUnfinishedExport'
    BY <2>1, <1>4, <1>6 DEF MixedPairMeansUnfinishedExport
  <2> QED BY <1>1, <2>1, <2>2 DEF ExportInv, ExportTypes, Progress, EndedInPairs, SidecarComesLast, HalfLoaded,
        NewestStepIsLoaded, CheckpointTypes, File
<1> QED BY <1>5, <1>6

\* The names weights and reference come before the numbered ones.
LEMMA LoadBurnKeeps ==
  ASSUME ExportInv, LoadBurn
  PROVE  ExportInv'
<1>1. UNCHANGED <<weights, files, exporter, exports, checkpoint>>
  BY DEF LoadBurn, fileVars
<1>2. PICK given \in {<< >>, <<"given">>} :
        \/ runner' = [at |-> "refused"]
        \/ /\ (IF given # << >> THEN given ELSE DetectSafetensors) # << >>
           /\ runner' = [at |-> "burn", file |-> IF given # << >> THEN given ELSE DetectSafetensors]
  BY DEF LoadBurn
<1> DEFINE file == IF given # << >> THEN given ELSE DetectSafetensors
<1>3. file # << >> /\ file[1] = "step" => file = <<"step", LatestStep(checkpoint.steps)>> /\ checkpoint.steps # {}
  <2>1. <<"given">>[1] = "given" /\ <<"weights">>[1] = "weights" /\ <<"reference">>[1] = "reference"
    OBVIOUS
  <2>2. CASE given = <<"given">>
    BY <2>1, <2>2
  <2>3. CASE given = << >>
    <3>1. file = DetectSafetensors
      BY <2>3
    <3>2. CASE checkpoint.weights \/ checkpoint.reference
      BY <3>1, <3>2, <2>1 DEF DetectSafetensors
    <3>3. CASE ~checkpoint.weights /\ ~checkpoint.reference /\ checkpoint.steps # {}
      BY <3>1, <3>3 DEF DetectSafetensors
    <3>4. CASE ~checkpoint.weights /\ ~checkpoint.reference /\ checkpoint.steps = {}
      <4>1. file = << >>
        BY <3>1, <3>4 DEF DetectSafetensors
      <4> QED BY <4>1
    <3> QED BY <3>2, <3>3, <3>4
  <2> QED BY <2>2, <2>3
<1>4. checkpoint.steps # {} => Greatest(checkpoint.steps, LatestStep(checkpoint.steps))
  <2>1. checkpoint.steps \in SUBSET Nat /\ IsFiniteSet(checkpoint.steps)
    BY InferenceAssumption, FS_Subset DEF ExportInv, CheckpointTypes
  <2> QED BY <2>1, FiniteSetsHaveAGreatest DEF LatestStep
<1> HIDE DEF file
<1>5. NewestStepIsLoaded' /\ runner'.at \in {"refused", "burn"}
  BY <1>1, <1>2, <1>3, <1>4 DEF NewestStepIsLoaded, Greatest, file
<1> QED BY <1>1, <1>5 DEF ExportInv, ExportTypes, Progress, EndedInPairs, SidecarComesLast, HalfLoaded,
      MixedPairMeansUnfinishedExport, CheckpointTypes, File

LEMMA ExportStep ==
  ASSUME ExportInv, [InferenceNext]_inferenceVars
  PROVE  ExportInv'
<1>1. CASE FilesNext
  BY <1>1, BeginExportKeeps, WriteExportKeeps, StopExportKeeps, ReplaceWeightsKeeps, LoadGraphsKeeps, LoadPredictorKeeps
     DEF FilesNext
<1>2. CASE LoadBurn
  BY <1>2, LoadBurnKeeps
<1>3. CASE CompareNext
  BY <1>3, RestOfInference DEF CompareNext, RunEval, PickStrategy, RunBench
<1>4. CASE ServeNext
  <2>1. UNCHANGED <<fileVars, checkpoint, runner>>
    BY <1>4 DEF ServeNext, Accept, ReadRequest, WriteResponse, Connect, Send, HangUp, Reset
  <2> QED BY <2>1, RestOfInference
<1>5. CASE UNCHANGED inferenceVars
  BY <1>5, RestOfInference DEF inferenceVars
<1> QED BY <1>1, <1>2, <1>3, <1>4, <1>5 DEF InferenceNext

(* Whatever is exported, stopped, replaced and loaded, in any order: a whole
   sidecar names graphs that are no older than itself, a loaded pair of two
   exports tells of one that had not ended, and the step file read is the newest
   (export_onnx.py: main; loader.rs: load, detect_safetensors). *)
THEOREM ExportsStayTold == InferenceSpec => []ExportsAreTold
<1>1. ExportInv => ExportsAreTold
  BY DEF ExportInv, ExportsAreTold
<1> QED BY <1>1, FilesAtFirst, ExportStep, PTL DEF InferenceSpec

-----------------------------------------------------------------------------
(* Sorting. *)

Place(values, i) == Cardinality(Before(values, i)) + 1

\* Every index has its place and every place its index.
InOrder(values, p, n, S) ==
  /\ n = Cardinality(S) /\ n \in Nat /\ p \in [1..n -> S]
  /\ \A k \in 1..n : Place(values, p[k]) = k
  /\ \A i \in S : Place(values, i) \in 1..n /\ p[Place(values, i)] = i
  /\ \A k, l \in 1..n : k < l => Precedes(values, p[k], p[l])

LEMMA Sorted ==
  ASSUME NEW S \in SUBSET Nat, IsFiniteSet(S), NEW values \in [S -> Int]
  PROVE  InOrder(values, SortedIndexes(values), Cardinality(S), S)
<1> DEFINE n == Cardinality(S)
           p == SortedIndexes(values)
           place(i) == Cardinality(Before(values, i)) + 1
           f == [i \in S |-> place(i)]
<1>1. n \in Nat /\ DOMAIN values = S
  BY FS_CardinalityType
<1>2. \A i \in S : Before(values, i) = {j \in S : Precedes(values, j, i)}
  BY DEF Before
<1>3. \A i, j, k \in S : /\ ~Precedes(values, i, i)
                         /\ Precedes(values, i, j) /\ Precedes(values, j, k) => Precedes(values, i, k)
                         /\ i = j \/ Precedes(values, i, j) \/ Precedes(values, j, i)
  BY DEF Precedes
<1>4. ASSUME NEW i \in S PROVE place(i) \in 1..n /\ IsFiniteSet(Before(values, i))
  <2>1. Before(values, i) \in SUBSET S /\ i \notin Before(values, i)
    BY <1>2, <1>3
  <2>2. IsFiniteSet(Before(values, i)) /\ Cardinality(Before(values, i)) <= n /\ Cardinality(Before(values, i)) # n
    BY <2>1, FS_Subset
  <2>3. Cardinality(Before(values, i)) \in Nat
    BY <2>2, FS_CardinalityType
  <2> HIDE DEF n
  <2> QED BY <1>1, <2>2, <2>3
<1>5. ASSUME NEW i \in S, NEW j \in S, Precedes(values, i, j) PROVE place(i) < place(j)
  <2>1. Before(values, i) \in SUBSET Before(values, j) /\ i \in Before(values, j) /\ i \notin Before(values, i)
    BY <1>2, <1>3, <1>5
  <2>2. /\ Cardinality(Before(values, i)) <= Cardinality(Before(values, j))
        /\ Cardinality(Before(values, i)) # Cardinality(Before(values, j))
    BY <1>4, <2>1, FS_Subset
  <2>3. Cardinality(Before(values, i)) \in Nat /\ Cardinality(Before(values, j)) \in Nat
    BY <1>4, FS_CardinalityType
  <2> QED BY <2>2, <2>3
<1>6. ASSUME NEW i \in S, NEW j \in S, place(i) = place(j) PROVE i = j
  <2>1. place(i) \in Int /\ place(j) \in Int
    BY <1>1, <1>4
  <2>2. ~(place(i) < place(j)) /\ ~(place(j) < place(i))
    BY <2>1, <1>6
  <2> HIDE DEF place
  <2> QED BY <1>3, <1>5, <2>2
<1>7. f \in Injection(S, 1..n)
  <2>1. f \in [S -> 1..n]
    BY <1>4
  <2>2. ASSUME NEW i \in S, NEW j \in S, f[i] = f[j] PROVE i = j
    BY <1>6, <2>2
  <2> HIDE DEF f, n
  <2> QED BY <2>1, <2>2 DEF Injection, IsInjective
<1>8. IsFiniteSet(1..n) /\ Cardinality(1..n) = n
  <2> HIDE DEF n
  <2>1. IsFiniteSet(1..n) /\ Cardinality(1..n) = IF 1 > n THEN 0 ELSE n - 1 + 1
    BY <1>1, FS_Interval
  <2> QED BY <1>1, <2>1
<1>9. f \in Surjection(S, 1..n)
  <2> HIDE DEF f, n
  <2> QED BY <1>7, <1>8, FS_Injection DEF n
<1>10. ASSUME NEW k \in 1..n PROVE p[k] \in S /\ place(p[k]) = k
  <2>1. PICK i \in S : f[i] = k
    <3> HIDE DEF f, n
    <3> QED BY <1>9 DEF Surjection
  <2>2. Cardinality(Before(values, i)) = k - 1
    <3>1. Cardinality(Before(values, i)) \in Nat
      BY <1>4, FS_CardinalityType
    <3> QED BY <2>1, <3>1
  <2>3. p[k] = CHOOSE x \in S : Cardinality(Before(values, x)) = k - 1
    BY <1>1 DEF SortedIndexes
  <2>4. p[k] \in S /\ Cardinality(Before(values, p[k])) = k - 1
    <3> HIDE DEF p
    <3> QED BY <2>2, <2>3
  <2> QED BY <2>4
<1>11. p \in [1..n -> S]
  <2>1. p = [k \in 1..n |-> p[k]]
    BY <1>1 DEF SortedIndexes
  <2> HIDE DEF p, n
  <2> QED BY <1>10, <2>1
<1>12. ASSUME NEW i \in S PROVE place(i) \in 1..n /\ p[place(i)] = i
  <2>1. place(i) \in 1..n
    BY <1>4
  <2>2. p[place(i)] \in S /\ place(p[place(i)]) = place(i)
    <3> HIDE DEF p, place
    <3> QED BY <1>10, <2>1
  <2> HIDE DEF p, place
  <2> QED BY <2>1, <2>2, <1>6
<1>13. ASSUME NEW k \in 1..n, NEW l \in 1..n, k < l PROVE Precedes(values, p[k], p[l])
  <2>1. p[k] \in S /\ p[l] \in S /\ place(p[k]) = k /\ place(p[l]) = l
    BY <1>10
  <2>2. p[k] # p[l]
    BY <2>1, <1>13
  <2>3. ~Precedes(values, p[l], p[k])
    <3>1. ~(place(p[l]) < place(p[k]))
      BY <2>1, <1>1, <1>13
    <3> HIDE DEF p, place
    <3> QED BY <3>1, <2>1, <1>5
  <2> HIDE DEF p
  <2> QED BY <2>1, <2>2, <2>3, <1>3
<1> HIDE DEF p, place, n
<1>14. /\ n \in Nat /\ p \in [1..n -> S]
       /\ \A k \in 1..n : place(p[k]) = k
       /\ \A i \in S : place(i) \in 1..n /\ p[place(i)] = i
       /\ \A k, l \in 1..n : k < l => Precedes(values, p[k], p[l])
  BY <1>1, <1>10, <1>11, <1>12, <1>13
<1> QED BY <1>14 DEF InOrder, Place, p, place, n

-----------------------------------------------------------------------------
(* The comparisons: the largest difference, and what a verdict says of it.  *)

Number == Int \union {NaN, Infinity}

LEMMA Numbers ==
  /\ Values \subseteq Number /\ NaN # Infinity /\ NaN \notin Int /\ Infinity \notin Int
  /\ \A x \in Number : Finite(x) <=> x \in Int
  /\ \A x, y \in Number : Diff(x, y) \in Number /\ (Diff(x, y) \in Int => Diff(x, y) >= 0)
  /\ ExportTolerance \in Nat /\ Tolerances \subseteq Nat
<1>1. Values \subseteq Number /\ NaN # Infinity /\ NaN \notin Int /\ Infinity \notin Int
      /\ ExportTolerance \in Nat /\ Tolerances \subseteq Nat
  BY InferenceAssumption DEF Number
<1>2. \A x \in Number : Finite(x) <=> x \in Int
  BY <1>1 DEF Number, Finite
<1>3. ASSUME NEW x \in Number, NEW y \in Number PROVE Diff(x, y) \in Number /\ (Diff(x, y) \in Int => Diff(x, y) >= 0)
  <2>1. CASE x \in Int /\ y \in Int
    BY <1>1, <2>1 DEF Number, Diff
  <2>2. CASE ~(x \in Int /\ y \in Int)
    BY <1>1, <2>2 DEF Number, Diff
  <2> QED BY <2>1, <2>2
<1> QED BY <1>1, <1>2, <1>3

\* The maximum that compare_stage keeps, after each of the values.
Raised(n, d, f) ==
  /\ f \in [0..n -> Number] /\ f[0] = 0
  /\ \A i \in 1..n : f[i] = IF Above(d[i], f[i - 1]) THEN d[i] ELSE f[i - 1]

Differences(a, e) == [i \in 1..Len(a) |-> Diff(a[i], e[i])]

LEMMA DifferencesAreNumbers ==
  ASSUME NEW a \in Seq(Number), NEW e \in Seq(Number), Len(e) = Len(a)
  PROVE  /\ Len(a) \in Nat /\ DOMAIN a = 1..Len(a)
         /\ \A i \in 1..Len(a) : a[i] \in Number /\ e[i] \in Number /\ Differences(a, e)[i] = Diff(a[i], e[i])
         /\ Differences(a, e) \in [1..Len(a) -> Number]
<1>1. \A i \in 1..Len(a) : a[i] \in Number /\ e[i] \in Number
  OBVIOUS
<1>2. \A i \in 1..Len(a) : Diff(a[i], e[i]) \in Number
  BY <1>1, Numbers
<1> QED BY <1>1, <1>2 DEF Differences

LEMMA LinfIsRaised ==
  ASSUME NEW a \in Seq(Number), NEW e \in Seq(Number), Len(e) = Len(a)
  PROVE  \E f : Raised(Len(a), Differences(a, e), f) /\ Linf(a, e) = f[Len(a)]
<1> DEFINE n == Len(a)
           d == Differences(a, e)
           step == [i \in 1..n |-> [most \in Number |-> IF Above(d[i], most) THEN d[i] ELSE most]]
           q == [i \in DOMAIN a |-> i]
           Rec(g) == g = [s \in SUBSET DOMAIN q |->
                            IF s = {} THEN 0
                            ELSE IF Above(Diff(a[q[Max(s)]], e[q[Max(s)]]), g[s \ {Max(s)}])
                                 THEN Diff(a[q[Max(s)]], e[q[Max(s)]]) ELSE g[s \ {Max(s)}]]
           iter == CHOOSE g : Rec(g)
<1>1. n \in Nat /\ DOMAIN a = 1..n /\ d \in [1..n -> Number] /\ DOMAIN q = 1..n
  BY DifferencesAreNumbers
<1>2. \A i \in 1..n : d[i] = Diff(a[q[i]], e[q[i]]) /\ d[i] \in Number
  BY DifferencesAreNumbers, <1>1
<1>3. 0 \in Number /\ step \in [1..n -> [Number -> Number]]
  <2>1. \A i \in 1..n, most \in Number : (IF Above(d[i], most) THEN d[i] ELSE most) \in Number
    BY <1>2
  <2>2. 0 \in Number
    BY DEF Number
  <2> HIDE DEF d
  <2> QED BY <2>1, <2>2
<1>4. PICK f : Iterates(Number, n, 0, step, f)
  <2> HIDE DEF step, n
  <2> QED BY <1>1, <1>3, Recursion
<1>5. PICK g : Folds(Number, n, 0, step, g)
  <2> HIDE DEF step, n
  <2> QED BY <1>1, <1>3, FoldExists
<1>6. Raised(n, d, f)
  <2>1. ASSUME NEW i \in 1..n PROVE f[i] = IF Above(d[i], f[i - 1]) THEN d[i] ELSE f[i - 1]
    <3>1. i - 1 \in 0..n
      BY <1>1
    <3>2. f[i - 1] \in Number /\ f[i] = step[i][f[i - 1]]
      BY <3>1, <1>4 DEF Iterates
    <3> QED BY <3>2
  <2> QED BY <2>1, <1>4 DEF Iterates, Raised
<1>7. Rec(g)
  <2>1. g = [s \in SUBSET (1..n) |-> g[s]]
    BY <1>5 DEF Folds
  <2>2. ASSUME NEW s \in SUBSET (1..n)
        PROVE  g[s] = IF s = {} THEN 0 ELSE IF Above(d[Max(s)], g[s \ {Max(s)}]) THEN d[Max(s)] ELSE g[s \ {Max(s)}]
    <3>1. CASE s = {}
      BY <3>1, <1>5 DEF Folds
    <3>2. CASE s # {}
      <4>1. Max(s) \in 1..n
        BY <1>1, <3>2, MaxOfSome
      <4>2. s \ {Max(s)} \in SUBSET (1..n)
        OBVIOUS
      <4>3. g[s \ {Max(s)}] \in Number /\ g[s] = step[Max(s)][g[s \ {Max(s)}]]
        BY <3>2, <4>2, <1>5 DEF Folds
      <4> QED BY <3>2, <4>1, <4>3
    <3> QED BY <3>1, <3>2
  <2>3. ASSUME NEW s \in SUBSET (1..n), s # {} PROVE d[Max(s)] = Diff(a[q[Max(s)]], e[q[Max(s)]])
    <3>1. Max(s) \in 1..n
      BY <1>1, <2>3, MaxOfSome
    <3> QED BY <3>1, <1>2
  <2> HIDE DEF q
  <2> QED BY <1>1, <2>1, <2>2, <2>3
<1>8. Rec(iter)
  <2> HIDE DEF Rec
  <2> QED BY <1>7
<1>9. Linf(a, e) = iter[DOMAIN q]
  BY DEF Linf, FoldLeft, MapThenFoldSet
<1> HIDE DEF iter
<1>10. \A s \in SUBSET (1..n) :
         iter[s] = IF s = {} THEN 0 ELSE IF Above(Diff(a[q[Max(s)]], e[q[Max(s)]]), iter[s \ {Max(s)}])
                                         THEN Diff(a[q[Max(s)]], e[q[Max(s)]]) ELSE iter[s \ {Max(s)}]
  <2> HIDE DEF q
  <2> QED BY <1>8, <1>1
<1> DEFINE S == {k \in 0..n : iter[1..k] = f[k]}
<1>11. 0 \in S
  <2>1. 1..0 = {} /\ 0 \in 0..n
    BY <1>1
  <2>2. iter[1..0] = 0
    BY <2>1, <1>10
  <2> QED BY <2>1, <2>2, <1>6 DEF Raised
<1>12. ASSUME NEW k \in 1..n, k - 1 \in S PROVE k \in S
  <2>1. k \in Nat /\ k # 0 /\ 1..k \in SUBSET (1..n) /\ k \in 0..n
    BY <1>1
  <2>2. Max(1..k) = k /\ (1..k) \ {k} = 1..(k - 1) /\ 1..k # {}
    BY <2>1, FirstAndLast
  <2>3. iter[1..k] = IF Above(d[k], iter[1..(k - 1)]) THEN d[k] ELSE iter[1..(k - 1)]
    <3>1. iter[1..k] = IF Above(Diff(a[q[k]], e[q[k]]), iter[1..(k - 1)]) THEN Diff(a[q[k]], e[q[k]]) ELSE iter[1..(k - 1)]
      BY <2>1, <2>2, <1>10
    <3>2. d[k] = Diff(a[q[k]], e[q[k]])
      BY <1>2
    <3> HIDE DEF d, q
    <3> QED BY <3>1, <3>2
  <2>4. iter[1..(k - 1)] = f[k - 1]
    BY <1>12
  <2>5. f[k] = IF Above(d[k], f[k - 1]) THEN d[k] ELSE f[k - 1]
    BY <1>6 DEF Raised
  <2> QED BY <2>1, <2>3, <2>4, <2>5
<1>13. n \in S
  <2>1. n \in 0..n
    BY <1>1
  <2> HIDE DEF S, n
  <2> QED BY <1>1, <1>11, <1>12, <2>1, Induction
<1> QED BY <1>1, <1>6, <1>9, <1>13

LEMMA RaisedBounds ==
  ASSUME NEW n \in Nat, NEW d \in [1..n -> Number], \A i \in 1..n : d[i] \in Int => d[i] >= 0,
         NEW f, Raised(n, d, f)
  PROVE  /\ f[n] \in Nat \union {Infinity}
         /\ f[n] # Infinity => \A i \in 1..n : d[i] = NaN \/ (d[i] \in Int /\ d[i] <= f[n])
         /\ f[n] = 0 \/ \E i \in 1..n : f[n] = d[i]
<1> DEFINE Holds(k) == /\ f[k] \in Nat \union {Infinity}
                       /\ f[k] # Infinity => \A i \in 1..k : d[i] = NaN \/ (d[i] \in Int /\ d[i] <= f[k])
                       /\ f[k] = 0 \/ \E i \in 1..k : f[k] = d[i]
           S == {k \in 0..n : Holds(k)}
<1>1. 0 \in S
  BY DEF Raised
<1>2. ASSUME NEW k \in 1..n, k - 1 \in S PROVE k \in S
  <2>1. Holds(k - 1) /\ k - 1 \in Nat /\ 1..k = 1..(k - 1) \union {k}
    BY <1>2
  <2>2. f[k] = IF Above(d[k], f[k - 1]) THEN d[k] ELSE f[k - 1]
    BY DEF Raised
  <2>3. NaN \notin Int /\ Infinity \notin Int /\ NaN # Infinity
    BY Numbers
  <2>4. d[k] \in Number /\ (d[k] \in Int => d[k] >= 0)
    OBVIOUS
  <2>5. /\ Finite(d[k]) <=> d[k] \in Int
        /\ Finite(f[k - 1]) <=> f[k - 1] \in Int
    <3>1. f[k - 1] \in Number
      BY <2>1 DEF Number
    <3> QED BY <3>1, <2>4, Numbers
  <2>6. CASE Above(d[k], f[k - 1])
    <3>1. f[k] = d[k] /\ d[k] \in Nat \union {Infinity}
      BY <2>2, <2>3, <2>4, <2>5, <2>6 DEF Above
    <3>2. ASSUME f[k] # Infinity, NEW i \in 1..k PROVE d[i] = NaN \/ (d[i] \in Int /\ d[i] <= f[k])
      <4>1. f[k - 1] \in Nat /\ f[k - 1] < d[k] /\ d[k] \in Nat
        BY <2>1, <2>3, <2>4, <2>5, <2>6, <3>1, <3>2 DEF Above
      <4>2. CASE i = k
        BY <3>1, <4>1, <4>2
      <4>3. CASE i \in 1..(k - 1)
        BY <2>1, <2>3, <3>1, <4>1, <4>3
      <4> QED BY <2>1, <4>2, <4>3
    <3>3. k \in 1..k
      OBVIOUS
    <3>4. Holds(k)
      BY <3>1, <3>2, <3>3
    <3> QED BY <3>4
  <2>7. CASE ~Above(d[k], f[k - 1])
    <3>1. f[k] = f[k - 1]
      BY <2>2, <2>7
    <3>2. ASSUME f[k] # Infinity PROVE d[k] = NaN \/ (d[k] \in Int /\ d[k] <= f[k])
      BY <2>1, <2>3, <2>4, <2>5, <2>7, <3>1, <3>2 DEF Above, Number
    <3>3. Holds(k)
      BY <2>1, <3>1, <3>2
    <3> QED BY <3>3
  <2> QED BY <2>6, <2>7
<1>3. n \in S
  <2>1. n \in 0..n
    OBVIOUS
  <2> HIDE DEF S
  <2> QED BY <1>1, <1>2, <2>1, Induction
<1> QED BY <1>3

\* The maximum is one of the differences, and none that is no NaN is above it.
LEMMA LinfBounds ==
  ASSUME NEW a \in Seq(Number), NEW e \in Seq(Number), Len(e) = Len(a)
  PROVE  /\ Linf(a, e) \in Nat \union {Infinity}
         /\ Linf(a, e) # Infinity =>
              \A i \in 1..Len(a) : Diff(a[i], e[i]) = NaN \/ (Diff(a[i], e[i]) \in Int /\ Diff(a[i], e[i]) <= Linf(a, e))
         /\ Linf(a, e) = 0 \/ \E i \in 1..Len(a) : Linf(a, e) = Diff(a[i], e[i])
<1> DEFINE n == Len(a)
           d == Differences(a, e)
<1>1. n \in Nat /\ d \in [1..n -> Number] /\ \A i \in 1..n : a[i] \in Number /\ e[i] \in Number /\ d[i] = Diff(a[i], e[i])
  BY DifferencesAreNumbers
<1>2. \A i \in 1..n : d[i] \in Int => d[i] >= 0
  BY <1>1, Numbers
<1>3. PICK f : Raised(n, d, f) /\ Linf(a, e) = f[n]
  BY LinfIsRaised
<1> HIDE DEF n, d
<1>4. /\ f[n] \in Nat \union {Infinity}
      /\ f[n] # Infinity => \A i \in 1..n : d[i] = NaN \/ (d[i] \in Int /\ d[i] <= f[n])
      /\ f[n] = 0 \/ \E i \in 1..n : f[n] = d[i]
  BY <1>1, <1>2, <1>3, RaisedBounds
<1> QED BY <1>1, <1>3, <1>4 DEF n

\* What a stage that passes says of its values.
LEMMA PassedStage ==
  ASSUME NEW a \in Seq(Number), NEW e \in Seq(Number), Len(e) = Len(a), NEW limit \in Nat, ~Above(Linf(a, e), limit)
  PROVE  \A i \in DOMAIN a : Diff(a[i], e[i]) = NaN \/ (Finite(Diff(a[i], e[i])) /\ Diff(a[i], e[i]) <= limit)
<1>1. Infinity \notin Int /\ Linf(a, e) \in Nat \union {Infinity}
  BY LinfBounds, Numbers
<1>2. \A x \in Int : Finite(x)
  BY Numbers DEF Number
<1>3. Linf(a, e) \in Nat /\ Linf(a, e) <= limit
  BY <1>1, <1>2 DEF Above
<1>4. \A i \in 1..Len(a) : Diff(a[i], e[i]) = NaN \/ (Diff(a[i], e[i]) \in Int /\ Diff(a[i], e[i]) <= Linf(a, e))
  BY <1>1, <1>3, LinfBounds
<1> QED BY <1>2, <1>3, <1>4

\* Verified is what it is called: finite values that are close.
LEMMA VerifiedMeansClose ==
  ASSUME NEW reference \in Seq(Number), NEW output \in Seq(Number)
  PROVE  Verified(reference, output) <=>
           Len(output) = Len(reference) /\ Close(output, reference, ExportTolerance)
<1> DEFINE T == ExportTolerance
           diff(i) == Diff(output[i], reference[i])
<1>1. T \in Nat /\ Infinity \notin Int /\ NaN \notin Int
  BY Numbers
<1>2. CASE Len(output) # Len(reference)
  BY <1>2 DEF Verified, Incomparable
<1>3. CASE Len(output) = Len(reference)
  <2>1. /\ DOMAIN output = 1..Len(output) /\ DOMAIN reference = 1..Len(output)
        /\ \A i \in 1..Len(output) : output[i] \in Number /\ reference[i] \in Number
    BY <1>3
  <2>2. Incomparable(reference, output) <=> \E i \in 1..Len(output) : ~Finite(output[i]) \/ ~Finite(reference[i])
    BY <1>3, <2>1 DEF Incomparable, Range
  <2>3. ASSUME \A i \in 1..Len(output) : Finite(output[i]) /\ Finite(reference[i])
        PROVE  ~Above(Linf(output, reference), T) <=> \A i \in 1..Len(output) : diff(i) <= T
    <3>1. \A i \in 1..Len(output) : output[i] \in Int /\ reference[i] \in Int
      BY <2>1, <2>3, Numbers
    <3>2. \A i \in 1..Len(output) : diff(i) \in Nat
      BY <3>1, <1>1 DEF Diff
    <3>3. ASSUME ~Above(Linf(output, reference), T), NEW i \in 1..Len(output) PROVE diff(i) <= T
      <4>1. diff(i) = NaN \/ (Finite(diff(i)) /\ diff(i) <= T)
        BY <1>1, <1>3, <2>1, <3>3, PassedStage
      <4> QED BY <1>1, <3>2, <4>1
    <3>4. ASSUME \A i \in 1..Len(output) : diff(i) <= T PROVE ~Above(Linf(output, reference), T)
      <4>1. Linf(output, reference) = 0 \/ \E i \in 1..Len(output) : Linf(output, reference) = diff(i)
        BY <1>3, LinfBounds
      <4>2. Linf(output, reference) \in Nat /\ Linf(output, reference) <= T
        BY <1>1, <3>2, <3>4, <4>1
      <4> QED BY <1>1, <4>2 DEF Above
    <3> QED BY <3>3, <3>4
  <2> QED BY <1>3, <2>1, <2>2, <2>3 DEF Verified, Close
<1> QED BY <1>2, <1>3

\* compare_stage
SoundStage(s, limit) ==
  s.pass => \A i \in DOMAIN s.actual :
              LET d == Diff(s.actual[i], s.expected[i]) IN d = NaN \/ (Finite(d) /\ d <= limit)

LEMMA StagesAreSound ==
  ASSUME NEW a \in Seq(Number), NEW dump \in Seq(Number), NEW limit \in Nat
  PROVE  LET c == CompareStage(a, dump, limit)
         IN  c = << >> \/ \E s : c = <<s>> /\ SoundStage(s, limit)
<1> DEFINE e == SubSeq(dump, 1, Len(a))
           s == [actual |-> a, expected |-> e, pass |-> ~Above(Linf(a, e), limit)]
<1>1. CASE Len(dump) < Len(a)
  BY <1>1 DEF CompareStage
<1>2. CASE ~(Len(dump) < Len(a))
  <2>1. CompareStage(a, dump, limit) = <<s>>
    BY <1>2 DEF CompareStage
  <2>2. e \in Seq(Number) /\ Len(e) = Len(a)
    BY <1>2
  <2>3. s.pass => \A i \in DOMAIN a : Diff(a[i], e[i]) = NaN \/ (Finite(Diff(a[i], e[i])) /\ Diff(a[i], e[i]) <= limit)
    <3> HIDE DEF e
    <3> QED BY <2>2, PassedStage
  <2>4. SoundStage(s, limit)
    <3> HIDE DEF e
    <3> QED BY <2>3 DEF SoundStage
  <2> HIDE DEF s
  <2> QED BY <2>1, <2>4
<1> QED BY <1>1, <1>2

LEMMA JoinedStages ==
  ASSUME NEW x, NEW y, NEW P,
         x = << >> \/ \E s \in P : x = <<s>>,
         y = << >> \/ \E s \in P : y = <<s>>
  PROVE  Range(x \o y) \subseteq P
<1>1. \A z : (z = << >> \/ \E s \in P : z = <<s>>) => z \in Seq(P)
  <2>1. << >> \in Seq(P) /\ \A s \in P : <<s>> \in Seq(P)
    OBVIOUS
  <2> QED BY <2>1
<1>2. x \o y \in Seq(P)
  BY <1>1
<1> QED BY <1>2 DEF Range

LEMMA OutputsAreNumbers ==
  /\ \A n \in Nat : OutputsOf(n) \subseteq Seq(Number)
  /\ Absent \in Seq(Number)
<1>1. ASSUME NEW n \in Nat PROVE OutputsOf(n) \subseteq Seq(Number)
  BY Numbers DEF OutputsOf
<1> QED BY <1>1 DEF Absent

LEMMA RunEvalIsSound == ASSUME RunEval PROVE VerdictsAreSound'
<1>1. PICK encoded \in OutputsOf(2), projector \in {Absent} \union OutputsOf(1) \union OutputsOf(2),
           predicted \in OutputsOf(1), predproj \in {Absent} \union OutputsOf(1), limit \in Tolerances :
        LET compared(actual, dump) == IF dump = Absent THEN << >> ELSE CompareStage(actual, dump, limit)
            failed(actual, dump) == dump # Absent /\ compared(actual, dump) = << >>
            stages == compared(encoded, projector) \o compared(predicted, predproj)
        IN  verdict' = IF failed(encoded, projector) \/ failed(predicted, predproj) THEN [at |-> "error"]
                       ELSE [at |-> "report", stages |-> stages, tolerance |-> limit, pass |-> ReportPasses(stages)]
  BY DEF RunEval
<1> DEFINE c1 == IF projector = Absent THEN << >> ELSE CompareStage(encoded, projector, limit)
           c2 == IF predproj = Absent THEN << >> ELSE CompareStage(predicted, predproj, limit)
           stages == c1 \o c2
<1>2. \/ verdict' = [at |-> "error"]
      \/ verdict' = [at |-> "report", stages |-> stages, tolerance |-> limit, pass |-> ReportPasses(stages)]
  BY <1>1
<1>3. CASE verdict' = [at |-> "error"]
  BY <1>3 DEF VerdictsAreSound, PassMeansComparedAndClose, SelectionIsVerified, BenchIsOfTheEpisodes
<1>4. CASE verdict' = [at |-> "report", stages |-> stages, tolerance |-> limit, pass |-> ReportPasses(stages)]
  <2>1. /\ encoded \in Seq(Number) /\ predicted \in Seq(Number) /\ limit \in Nat
        /\ projector \in Seq(Number) /\ predproj \in Seq(Number)
    BY OutputsAreNumbers, Numbers
  <2> DEFINE P == {s \in Range(stages) : SoundStage(s, limit)} \union
                  {s \in Range(c1) \union Range(c2) : SoundStage(s, limit)}
  <2>2. c1 = << >> \/ \E s \in P : c1 = <<s>>
    <3>1. CASE projector = Absent
      BY <3>1
    <3>2. CASE projector # Absent
      <4>1. c1 = << >> \/ \E s : c1 = <<s>> /\ SoundStage(s, limit)
        BY <2>1, <3>2, StagesAreSound
      <4>2. \A s : c1 = <<s>> => s \in Range(c1)
        BY DEF Range
      <4> HIDE DEF c1, c2
      <4> QED BY <4>1, <4>2
    <3> QED BY <3>1, <3>2
  <2>3. c2 = << >> \/ \E s \in P : c2 = <<s>>
    <3>1. CASE predproj = Absent
      BY <3>1
    <3>2. CASE predproj # Absent
      <4>1. c2 = << >> \/ \E s : c2 = <<s>> /\ SoundStage(s, limit)
        BY <2>1, <3>2, StagesAreSound
      <4>2. \A s : c2 = <<s>> => s \in Range(c2)
        BY DEF Range
      <4> HIDE DEF c1, c2
      <4> QED BY <4>1, <4>2
    <3> QED BY <3>1, <3>2
  <2> HIDE DEF c1, c2
  <2>4. \A s \in Range(stages) : SoundStage(s, limit)
    <3>1. Range(stages) \subseteq P
      <4> HIDE DEF P
      <4> QED BY <2>2, <2>3, JoinedStages
    <3> QED BY <3>1
  <2> HIDE DEF stages, P
  <2>5. verdict'.at = "report" /\ verdict'.stages = stages /\ verdict'.tolerance = limit /\ verdict'.pass = ReportPasses(stages)
    BY <1>4
  <2>6. ReportPasses(stages) => stages # << >> /\ \A s \in Range(stages) : s.pass
    BY DEF ReportPasses
  <2>7. ReportPasses(stages) => \A s \in Range(stages) : \A i \in DOMAIN s.actual :
             LET d == Diff(s.actual[i], s.expected[i]) IN d = NaN \/ (Finite(d) /\ d <= limit)
    BY <2>4, <2>6 DEF SoundStage
  <2>8. PassMeansComparedAndClose'
    BY <2>5, <2>6, <2>7 DEF PassMeansComparedAndClose
  <2> QED BY <2>5, <2>8 DEF VerdictsAreSound, SelectionIsVerified, BenchIsOfTheEpisodes
<1> QED BY <1>2, <1>3, <1>4

LEMMA LeastOfSome ==
  ASSUME NEW S \in SUBSET Nat, S # {}
  PROVE  Min(S) \in S /\ \A x \in S : Min(S) <= x
BY LeastNumber DEF Min

LEMMA PickStrategyIsSound == ASSUME PickStrategy PROVE VerdictsAreSound'
<1>1. PICK reference \in OutputsOf(1), outputs \in [Strategies -> {Absent} \union OutputsOf(1)], adr \in BOOLEAN,
           order \in {<<"onnx", "nnef", "burn-direct">>, <<"burn-direct", "onnx">>} :
        LET blocked(s) == s = "burn-direct" /\ ~adr
            passing == {k \in DOMAIN order : ~blocked(order[k]) /\ Verified(reference, outputs[order[k]])}
        IN  verdict' = IF passing = {} THEN [at |-> "exhausted"]
                       ELSE [at |-> "decision", selected |-> order[Min(passing)], reference |-> reference,
                             outputs |-> outputs, adr |-> adr, tried |-> SubSeq(order, 1, Min(passing) - 1)]
  BY DEF PickStrategy
<1> DEFINE passing == {k \in DOMAIN order : ~(order[k] = "burn-direct" /\ ~adr) /\ Verified(reference, outputs[order[k]])}
           m == Min(passing)
           tried == SubSeq(order, 1, m - 1)
<1>2. CASE passing = {}
  <2>1. verdict' = [at |-> "exhausted"]
    BY <1>1, <1>2
  <2> QED BY <2>1 DEF VerdictsAreSound, PassMeansComparedAndClose, SelectionIsVerified, BenchIsOfTheEpisodes
<1>3. CASE passing # {}
  <2>1. verdict' = [at |-> "decision", selected |-> order[m], reference |-> reference, outputs |-> outputs, adr |-> adr,
                    tried |-> tried]
    BY <1>1, <1>3
  <2>2. order \in Seq(Strategies)
    <3>1. CASE order = <<"onnx", "nnef", "burn-direct">>
      BY <3>1 DEF Strategies
    <3>2. CASE order = <<"burn-direct", "onnx">>
      BY <3>2 DEF Strategies
    <3> QED BY <3>1, <3>2
  <2>3. m \in passing /\ \A k \in passing : m <= k
    <3>1. passing \in SUBSET Nat
      BY <2>2
    <3> HIDE DEF passing
    <3> QED BY <1>3, <3>1, LeastOfSome
  <2>4. m \in 1..Len(order) /\ Len(order) \in Nat
    BY <2>2, <2>3
  <2>5. ASSUME NEW s \in Strategies
        PROVE  Verified(reference, outputs[s]) <=>
                 Len(outputs[s]) = Len(reference) /\ Close(outputs[s], reference, ExportTolerance)
    <3>1. reference \in Seq(Number) /\ outputs[s] \in Seq(Number)
      BY OutputsAreNumbers
    <3> QED BY <3>1, VerifiedMeansClose
  <2>6. \A k \in 1..Len(order) : order[k] \in Strategies
    BY <2>2
  <2>7. Verified(reference, outputs[order[m]]) /\ (order[m] = "burn-direct" => adr)
    BY <2>3
  <2> HIDE DEF m
  <2>8. ASSUME NEW s \in Range(tried)
        PROVE  s \in Strategies /\ (Verified(reference, outputs[s]) => s = "burn-direct" /\ ~adr)
    <3>1. PICK k \in 1..(m - 1) : s = order[k]
      BY <2>2, <2>4 DEF Range
    <3>2. k \in 1..Len(order) /\ ~(m <= k)
      BY <2>4, <3>1
    <3>3. k \notin passing
      <4> HIDE DEF passing
      <4> QED BY <2>3, <3>2
    <3>4. k \in DOMAIN order
      BY <2>2, <3>2
    <3>5. Verified(reference, outputs[order[k]]) => order[k] = "burn-direct" /\ ~adr
      BY <3>3, <3>4
    <3> QED BY <2>6, <3>1, <3>2, <3>5
  <2> HIDE DEF passing, tried
  <2>9. /\ verdict'.at = "decision" /\ verdict'.selected = order[m] /\ verdict'.reference = reference
        /\ verdict'.outputs = outputs /\ verdict'.adr = adr /\ verdict'.tried = tried
    BY <2>1
  <2>10. SelectionIsVerified'
    BY <2>4, <2>5, <2>6, <2>7, <2>8, <2>9 DEF SelectionIsVerified, Close
  <2> QED BY <2>9, <2>10 DEF VerdictsAreSound, PassMeansComparedAndClose, BenchIsOfTheEpisodes
<1> QED BY <1>2, <1>3

LEMMA RunBenchIsSound == ASSUME RunBench PROVE VerdictsAreSound'
<1>1. PICK warmup \in 0..2, episodes \in 1..3 : \E took \in [1..(warmup + episodes) -> Latencies] :
        LET latencies == [k \in {k \in DOMAIN took : Measured(warmup, k)} |-> took[k]]
            places == SortedIndexes(latencies)
            sorted == [place \in DOMAIN places |-> latencies[places[place]]]
        IN  verdict' = [at |-> "bench", took |-> took, warmup |-> warmup, p50 |-> Percentile(sorted, 50),
                        p95 |-> Percentile(sorted, 95), max |-> sorted[Len(sorted)]]
  BY DEF RunBench
<1>2. PICK took \in [1..(warmup + episodes) -> Latencies] :
        LET latencies == [k \in {k \in DOMAIN took : Measured(warmup, k)} |-> took[k]]
            places == SortedIndexes(latencies)
            sorted == [place \in DOMAIN places |-> latencies[places[place]]]
        IN  verdict' = [at |-> "bench", took |-> took, warmup |-> warmup, p50 |-> Percentile(sorted, 50),
                        p95 |-> Percentile(sorted, 95), max |-> sorted[Len(sorted)]]
  BY <1>1
<1> DEFINE S == {k \in DOMAIN took : Measured(warmup, k)}
           latencies == [k \in S |-> took[k]]
           places == SortedIndexes(latencies)
           n == Cardinality(S)
           sorted == [place \in DOMAIN places |-> latencies[places[place]]]
           upTo(t) == {k \in S : took[k] <= t}
           p50 == Percentile(sorted, 50)
           p95 == Percentile(sorted, 95)
           max == sorted[Len(sorted)]
<1>3. verdict' = [at |-> "bench", took |-> took, warmup |-> warmup, p50 |-> p50, p95 |-> p95, max |-> max]
  BY <1>2
<1>4. S = (warmup + 1)..(warmup + episodes) /\ S \in SUBSET Nat /\ IsFiniteSet(S) /\ n = episodes /\ Len(took) = warmup + episodes
  <2>1. S = (warmup + 1)..(warmup + episodes) /\ S \in SUBSET Nat /\ Len(took) = warmup + episodes
    BY DEF Measured
  <2>2. warmup + 1 \in Int /\ warmup + episodes \in Int /\ ~(warmup + 1 > warmup + episodes)
        /\ (warmup + episodes) - (warmup + 1) + 1 = episodes
    OBVIOUS
  <2>3. IsFiniteSet((warmup + 1)..(warmup + episodes)) /\ Cardinality((warmup + 1)..(warmup + episodes)) = episodes
    BY <2>2, FS_Interval
  <2> QED BY <2>1, <2>3
<1>5. latencies \in [S -> Int] /\ \A k \in S : latencies[k] = took[k] /\ took[k] \in Int
  BY InferenceAssumption
<1> HIDE DEF S, latencies
<1>6. /\ n \in Nat /\ places \in [1..n -> S]
      /\ \A k \in 1..n : Place(latencies, places[k]) = k
      /\ \A i \in S : Place(latencies, i) \in 1..n /\ places[Place(latencies, i)] = i
      /\ \A k, l \in 1..n : k < l => Precedes(latencies, places[k], places[l])
  <2>1. InOrder(latencies, places, n, S)
    BY <1>4, <1>5, Sorted
  <2> HIDE DEF places, n
  <2> QED BY <2>1 DEF InOrder
<1> HIDE DEF places
<1>7. /\ sorted \in [1..n -> Int] /\ Len(sorted) = n
      /\ \A k \in 1..n : sorted[k] = took[places[k]] /\ places[k] \in S
  <2>1. DOMAIN sorted = 1..n /\ \A k \in 1..n : sorted[k] = took[places[k]] /\ places[k] \in S /\ sorted[k] \in Int
    BY <1>5, <1>6
  <2>2. sorted = [k \in 1..n |-> sorted[k]]
    BY <2>1
  <2> HIDE DEF sorted
  <2>3. Len(sorted) = n
    BY <2>1, <2>2, <1>6, AsSeq
  <2> QED BY <2>1, <2>2, <2>3
<1> HIDE DEF sorted
<1>8. ASSUME NEW k \in 1..n, NEW l \in 1..n, k <= l PROVE took[places[k]] <= took[places[l]]
  <2>1. places[k] \in S /\ places[l] \in S
    BY <1>6
  <2>2. CASE k = l
    BY <2>1, <2>2, <1>5
  <2>3. CASE k < l
    <3>1. Precedes(latencies, places[k], places[l])
      BY <2>3, <1>6
    <3> QED BY <2>1, <3>1, <1>5 DEF Precedes
  <2> QED BY <2>2, <2>3, <1>8
<1> DEFINE mid == ((n - 1) * 50) \div 100 + 1
           high == ((n - 1) * 95) \div 100 + 1
<1> HIDE DEF n
<1>9. n \in 1..3 /\ mid \in 1..n /\ high \in 1..n /\ 2 * mid >= n
  <2>1. n \in 1..3
    BY <1>4 DEF n
  <2>2. CASE n = 1
    BY <2>2
  <2>3. CASE n = 2
    BY <2>3
  <2>4. CASE n = 3
    BY <2>4
  <2> QED BY <2>1, <2>2, <2>3, <2>4
<1>10. p50 = took[places[mid]] /\ p95 = took[places[high]] /\ max = took[places[n]]
  <2>1. sorted[mid] = took[places[mid]] /\ sorted[high] = took[places[high]] /\ sorted[n] = took[places[n]]
    <3>1. n \in 1..n
      BY <1>9
    <3> HIDE DEF mid, high
    <3> QED BY <1>7, <1>9, <3>1
  <2> QED BY <1>7, <2>1 DEF Percentile
<1> HIDE DEF mid, high, p50, p95, max
<1>11. {p50, p95, max} \subseteq {took[k] : k \in S}
  BY <1>7, <1>9, <1>10
<1>12. upTo(max) = S
  <2>1. ASSUME NEW i \in S PROVE took[i] <= max
    <3>1. PICK k \in 1..n : places[k] = i
      BY <1>6
    <3>2. n \in 1..n /\ k <= n
      BY <1>9
    <3> QED BY <3>1, <3>2, <1>8, <1>10
  <2> QED BY <2>1
<1>13. 2 * Cardinality(upTo(p50)) >= Cardinality(S)
  <2> DEFINE f == [k \in 1..mid |-> places[k]]
             U == upTo(p50)
  <2>1. U \in SUBSET S
    OBVIOUS
  <2>2. IsFiniteSet(U)
    <3> HIDE DEF U
    <3> QED BY <2>1, <1>4, FS_Subset
  <2>3. f \in Injection(1..mid, U)
    <3>1. ASSUME NEW k \in 1..mid PROVE f[k] \in U
      <4>1. k \in 1..n /\ k <= mid
        BY <1>9
      <4>2. places[k] \in S /\ took[places[k]] <= p50
        BY <4>1, <1>7, <1>8, <1>9, <1>10
      <4> QED BY <4>2
    <3>2. ASSUME NEW k \in 1..mid, NEW l \in 1..mid, f[k] = f[l] PROVE k = l
      <4>1. k \in 1..n /\ l \in 1..n /\ places[k] = places[l]
        BY <1>9, <3>2
      <4> QED BY <4>1, <1>6
    <3> HIDE DEF U
    <3>3. f \in [1..mid -> U]
      BY <3>1
    <3> HIDE DEF f
    <3> QED BY <3>2, <3>3 DEF Injection, IsInjective
  <2>4. Cardinality(1..mid) <= Cardinality(U)
    <3> HIDE DEF f, U
    <3> QED BY <2>2, <2>3, FS_Injection
  <2>5. Cardinality(1..mid) = mid
    <3>1. mid \in Int /\ ~(1 > mid) /\ mid - 1 + 1 = mid
      BY <1>9
    <3> QED BY <3>1, FS_Interval
  <2>6. Cardinality(U) \in Nat
    <3> HIDE DEF U
    <3> QED BY <2>2, FS_CardinalityType
  <2> HIDE DEF U
  <2>7. 2 * Cardinality(U) >= n
    BY <2>4, <2>5, <2>6, <1>9
  <2> QED BY <2>7 DEF n, U
<1>14. /\ verdict'.at = "bench" /\ verdict'.took = took /\ verdict'.warmup = warmup
       /\ verdict'.p50 = p50 /\ verdict'.p95 = p95 /\ verdict'.max = max
  BY <1>3
<1>15. (warmup + 1)..Len(took) = S
  BY <1>4
<1>16. BenchIsOfTheEpisodes'
  <2> DEFINE first == verdict'.warmup + 1
             timed == verdict'.took
  <2>1. first..Len(timed) = S /\ timed = took
    BY <1>14, <1>15
  <2>2. {verdict'.p50, verdict'.p95, verdict'.max} \subseteq {timed[k] : k \in first..Len(timed)}
    <3>1. {timed[k] : k \in first..Len(timed)} = {took[k] : k \in S}
      <4> HIDE DEF first, timed
      <4> QED BY <2>1
    <3>2. {verdict'.p50, verdict'.p95, verdict'.max} = {p50, p95, max}
      BY <1>14
    <3> HIDE DEF first, timed
    <3> QED BY <1>11, <3>1, <3>2
  <2>3. {k \in first..Len(timed) : timed[k] <= verdict'.max} = first..Len(timed)
    <3> HIDE DEF first, timed
    <3> QED BY <1>12, <1>14, <2>1
  <2>4. 2 * Cardinality({k \in first..Len(timed) : timed[k] <= verdict'.p50}) >= Cardinality(first..Len(timed))
    <3> HIDE DEF first, timed
    <3> QED BY <1>13, <1>14, <2>1
  <2> QED BY <2>2, <2>3, <2>4 DEF BenchIsOfTheEpisodes
<1> QED BY <1>14, <1>16 DEF VerdictsAreSound, PassMeansComparedAndClose, SelectionIsVerified

LEMMA VerdictStays ==
  ASSUME VerdictsAreSound, verdict' = verdict
  PROVE  VerdictsAreSound'
BY DEF VerdictsAreSound, PassMeansComparedAndClose, SelectionIsVerified, BenchIsOfTheEpisodes, Close

(* Whatever values are compared: an evaluation that passes compared something and
   found every difference it could tell within the tolerance; the strategy that
   is chosen computes finite values close to the reference, which the ones tried
   before it do not unless they lack their ADR; and the figures of a benchmark are of its episodes, the
   median being no less than half of them (eval.rs: run_parity_eval; verifier.rs:
   pick_export_strategy; lewm-infer.rs: run_bench). *)
THEOREM VerdictsStaySound == InferenceSpec => []VerdictsAreSound
<1>1. InferenceInit => VerdictsAreSound
  BY DEF InferenceInit, Nothing, VerdictsAreSound, PassMeansComparedAndClose, SelectionIsVerified, BenchIsOfTheEpisodes
<1>2. ASSUME VerdictsAreSound, [InferenceNext]_inferenceVars PROVE VerdictsAreSound'
  <2>1. CASE CompareNext
    BY <2>1, RunEvalIsSound, PickStrategyIsSound, RunBenchIsSound DEF CompareNext
  <2>2. CASE ~CompareNext
    <3>1. verdict' = verdict
      BY <1>2, <2>2 DEF InferenceNext, FilesNext, BeginExport, WriteExport, StopExport, ReplaceWeights, LoadGraphs,
           LoadPredictor, LoadBurn, ServeNext, Accept, ReadRequest, WriteResponse, Connect, Send, HangUp, Reset, inferenceVars
    <3> QED BY <1>2, <3>1, VerdictStays
  <2> QED BY <2>1, <2>2
<1> QED BY <1>1, <1>2, PTL DEF InferenceSpec

-----------------------------------------------------------------------------
(* Sums, lists of lists, ranks and the correlation of ranks.                *)

Running(n, v, f) == f[0] = 0 /\ \A i \in 1..n : f[i] = f[i - 1] + v[i]
Adds(n, v, f) == f \in [0..n -> Int] /\ Running(n, v, f)

LEMMA OneRunningSum ==
  ASSUME NEW n \in Nat, NEW v, NEW f, NEW g, Running(n, v, f), Running(n, v, g)
  PROVE  \A i \in 0..n : f[i] = g[i]
<1>1. \A i \in 1..n : f[i - 1] = g[i - 1] => f[i] = g[i]
  <2>1. ASSUME NEW i \in 1..n, f[i - 1] = g[i - 1] PROVE f[i] = g[i]
    <3>1. f[i] = f[i - 1] + v[i] /\ g[i] = g[i - 1] + v[i]
      BY DEF Running
    <3> QED BY <2>1, <3>1, Zenon
  <2> QED BY <2>1
<1> QED BY <1>1, RecursionIsUnique DEF Running

LEMMA SumIsRunning ==
  ASSUME NEW n \in Nat, NEW v \in [1..n -> Int]
  PROVE  \E f : Adds(n, v, f) /\ SumOf(v) = f[n]
<1> DEFINE step == [i \in 1..n |-> [x \in Int |-> x + v[i]]]
           Rec(g) == g = [i \in 0..n |-> IF i = 0 THEN 0 ELSE g[i - 1] + v[i]]
           sum == CHOOSE g : Rec(g)
<1>1. Len(v) = n
  OBVIOUS
<1>2. step \in [1..n -> [Int -> Int]]
  OBVIOUS
<1>3. PICK f : Iterates(Int, n, 0, step, f)
  <2>1. 0 \in Int
    OBVIOUS
  <2> HIDE DEF step
  <2> QED BY <1>2, <2>1, Recursion, Zenon
<1>4. Adds(n, v, f)
  <2>1. ASSUME NEW i \in 1..n PROVE f[i] = f[i - 1] + v[i]
    <3>1. i - 1 \in 0..n
      OBVIOUS
    <3>2. f[i - 1] \in Int /\ f[i] = step[i][f[i - 1]]
      BY <3>1, <1>3 DEF Iterates
    <3> QED BY <3>2
  <2> QED BY <2>1, <1>3 DEF Iterates, Adds, Running
<1>5. Rec(f)
  <2>1. f = [i \in 0..n |-> f[i]]
    BY <1>4 DEF Adds, Running
  <2>2. \A i \in 0..n : f[i] = IF i = 0 THEN 0 ELSE f[i - 1] + v[i]
    BY <1>4 DEF Adds, Running
  <2> QED BY <2>1, <2>2
<1>6. Rec(sum)
  <2> HIDE DEF Rec
  <2> QED BY <1>5
<1>7. SumOf(v) = sum[n]
  BY <1>1 DEF SumOf
<1> HIDE DEF sum
<1>8. \A i \in 0..n : sum[i] = f[i]
  <2>1. Running(n, v, sum)
    BY <1>6 DEF Running
  <2> QED BY <2>1, <1>4, OneRunningSum DEF Adds
<1>9. n \in 0..n
  OBVIOUS
<1> QED BY <1>4, <1>7, <1>8, <1>9

LEMMA SumOfIntegers ==
  ASSUME NEW n \in Nat, NEW v \in [1..n -> Int]
  PROVE  SumOf(v) \in Int
<1>1. PICK f : Adds(n, v, f) /\ SumOf(v) = f[n]
  BY SumIsRunning
<1> QED BY <1>1 DEF Adds, Running

\* A sum is between as often the least value and as often the greatest.
LEMMA SumBetween ==
  ASSUME NEW n \in Nat, NEW v \in [1..n -> Int], NEW low \in Int, NEW high \in Int,
         \A i \in 1..n : low <= v[i] /\ v[i] <= high
  PROVE  n * low <= SumOf(v) /\ SumOf(v) <= n * high
<1>1. PICK f : Adds(n, v, f) /\ SumOf(v) = f[n]
  BY SumIsRunning
<1> DEFINE S == {k \in 0..n : k * low <= f[k] /\ f[k] <= k * high}
<1>2. 0 \in S
  <2>1. 0 * low = 0 /\ 0 * high = 0 /\ f[0] = 0
    BY <1>1 DEF Adds, Running
  <2> QED BY <2>1
<1>3. ASSUME NEW k \in 1..n, k - 1 \in S PROVE k \in S
  <2>1. f[k] = f[k - 1] + v[k] /\ f[k - 1] \in Int /\ f[k] \in Int /\ v[k] \in Int
    <3>1. k - 1 \in 0..n /\ k \in 0..n
      OBVIOUS
    <3> QED BY <3>1, <1>1 DEF Adds, Running
  <2>2. (k - 1) * low <= f[k - 1] /\ f[k - 1] <= (k - 1) * high /\ low <= v[k] /\ v[k] <= high
    BY <1>3
  <2>3. k * low = (k - 1) * low + low /\ k * high = (k - 1) * high + high
        /\ (k - 1) * low \in Int /\ (k - 1) * high \in Int
    OBVIOUS
  <2>4. k * low <= f[k] /\ f[k] <= k * high
    BY <2>1, <2>2, <2>3
  <2> QED BY <2>4
<1>4. n \in S
  <2>1. n \in 0..n
    OBVIOUS
  <2> HIDE DEF S
  <2> QED BY <1>2, <1>3, <2>1, Induction
<1> QED BY <1>1, <1>4

LEMMA OneMoreSquare ==
  ASSUME NEW k \in Nat, NEW s \in Int, NEW q \in Int, NEW x \in Int, k * q >= s * s, k = 0 => q = 0
  PROVE  (k + 1) * (q + x * x) >= (s + x) * (s + x)
<1> DEFINE rest == q + k * (x * x) - 2 * (s * x)
<1>1. (k + 1) * (q + x * x) - (s + x) * (s + x) = (k * q - s * s) + rest
  OBVIOUS
<1>2. rest >= 0
  <2>1. CASE k = 0
    <3>1. k * q = 0 /\ q = 0
      BY <2>1
    <3>2. s * s <= 0
      BY <3>1
    <3>3. s = 0
      BY <3>2
    <3> QED BY <2>1, <3>1, <3>3
  <2>2. CASE k # 0
    <3>1. k * rest = (k * q - s * s) + (s - k * x) * (s - k * x)
      OBVIOUS
    <3>2. (s - k * x) * (s - k * x) >= 0
      <4>1. \A y \in Int : y * y >= 0
        OBVIOUS
      <4>2. s - k * x \in Int
        OBVIOUS
      <4> QED BY <4>1, <4>2
    <3>3. k * rest >= 0
      <4>1. k * q \in Int /\ s * s \in Int /\ (s - k * x) * (s - k * x) \in Int
        OBVIOUS
      <4> QED BY <3>1, <3>2, <4>1
    <3>4. rest \in Int
      OBVIOUS
    <3> HIDE DEF rest
    <3> QED BY <2>2, <3>3, <3>4
  <2> QED BY <2>1, <2>2
<1>3. /\ rest \in Int /\ k * q \in Int /\ s * s \in Int
      /\ (k + 1) * (q + x * x) \in Int /\ (s + x) * (s + x) \in Int
  OBVIOUS
<1> HIDE DEF rest
<1> QED BY <1>1, <1>2, <1>3

\* The variance of any numbers is no less than zero.
LEMMA NoNegativeVariance ==
  ASSUME NEW n \in Nat, NEW v \in [1..n -> Int]
  PROVE  LET squares == [i \in 1..n |-> v[i] * v[i]]
         IN  n * SumOf(squares) - SumOf(v) * SumOf(v) >= 0
<1> DEFINE w == [i \in 1..n |-> v[i] * v[i]]
<1>1. w \in [1..n -> Int]
  OBVIOUS
<1>2. PICK f : Adds(n, v, f) /\ SumOf(v) = f[n]
  BY SumIsRunning
<1>3. PICK g : Adds(n, w, g) /\ SumOf(w) = g[n]
  <2> HIDE DEF w
  <2> QED BY <1>1, SumIsRunning
<1> DEFINE S == {k \in 0..n : k * g[k] >= f[k] * f[k] /\ (k = 0 => g[k] = 0)}
<1>4. 0 \in S
  <2>1. f[0] = 0 /\ g[0] = 0
    BY <1>2, <1>3 DEF Adds, Running
  <2> QED BY <2>1
<1>5. ASSUME NEW k \in 1..n, k - 1 \in S PROVE k \in S
  <2>1. k - 1 \in 0..n /\ k \in 0..n /\ k - 1 \in Nat /\ v[k] \in Int /\ w[k] = v[k] * v[k]
    OBVIOUS
  <2>2. /\ f[k] = f[k - 1] + v[k] /\ g[k] = g[k - 1] + v[k] * v[k]
        /\ f[k - 1] \in Int /\ g[k - 1] \in Int
    <3> HIDE DEF w
    <3> QED BY <2>1, <1>2, <1>3 DEF Adds, Running
  <2>3. (k - 1) * g[k - 1] >= f[k - 1] * f[k - 1] /\ (k - 1 = 0 => g[k - 1] = 0)
    BY <1>5
  <2>4. ((k - 1) + 1) * (g[k - 1] + v[k] * v[k]) >= (f[k - 1] + v[k]) * (f[k - 1] + v[k])
    BY <2>1, <2>2, <2>3, OneMoreSquare
  <2>5. (k - 1) + 1 = k
    OBVIOUS
  <2>6. k * g[k] >= f[k] * f[k]
    BY <2>2, <2>4, <2>5
  <2> QED BY <2>1, <2>6
<1>6. n \in S
  <2>1. n \in 0..n
    OBVIOUS
  <2> HIDE DEF S
  <2> QED BY <1>4, <1>5, <2>1, Induction
<1>7. n * g[n] >= f[n] * f[n] /\ f[n] \in Int /\ g[n] \in Int
  BY <1>2, <1>3, <1>6 DEF Adds, Running
<1> HIDE DEF w
<1>8. n * SumOf(w) - SumOf(v) * SumOf(v) >= 0
  <2>1. n * g[n] \in Int /\ f[n] * f[n] \in Int
    BY <1>7
  <2> QED BY <1>2, <1>3, <1>7, <2>1
<1> QED BY <1>8 DEF w

LEMMA DistancesAreIntegers ==
  ASSUME NEW latents \in Seq(Int), latents # << >>
  PROVE  Distances(latents) \in Seq(Int)
<1> DEFINE abs(x) == IF x < 0 THEN -x ELSE x
           n == Len(latents) - 1
           row(i) == [j \in 1..(Len(latents) - i) |-> abs(latents[i] - latents[i + j])]
           rows == [i \in 1..n |-> row(i)]
<1>1. n \in Nat
  OBVIOUS
<1>2. ASSUME NEW i \in 1..n PROVE row(i) \in Seq(Int)
  <2>1. Len(latents) - i \in Nat
    OBVIOUS
  <2>2. ASSUME NEW j \in 1..(Len(latents) - i) PROVE row(i)[j] \in Int
    <3>1. i \in 1..Len(latents) /\ i + j \in 1..Len(latents)
      OBVIOUS
    <3> QED BY <3>1
  <2>3. row(i) \in [1..(Len(latents) - i) -> Int]
    BY <2>2
  <2> HIDE DEF row
  <2> QED BY <2>1, <2>3
<1>3. rows \in [1..n -> Seq(Int)]
  BY <1>2
<1>4. Distances(latents) = FlattenSeq(rows)
  BY DEF Distances
<1> HIDE DEF rows, n
<1> QED BY <1>1, <1>3, <1>4, FlattenType

\* Of equal values those of smaller index come before.
LEMMA PlaceAmongEquals ==
  ASSUME NEW n \in Nat, NEW values \in [1..n -> Int], NEW i \in 1..n
  PROVE  LET less == {j \in 1..n : values[j] < values[i]}
             sooner == {j \in 1..n : values[j] = values[i] /\ j < i}
         IN  Place(values, i) = Cardinality(less) + Cardinality(sooner) + 1
<1> DEFINE less == {j \in 1..n : values[j] < values[i]}
           sooner == {j \in 1..n : values[j] = values[i] /\ j < i}
<1>1. Before(values, i) = less \union sooner /\ less \intersect sooner = {}
  BY DEF Before, Precedes
<1>2. IsFiniteSet(less) /\ IsFiniteSet(sooner)
  <2>1. IsFiniteSet(1..n)
    BY FS_Interval
  <2>2. less \in SUBSET (1..n) /\ sooner \in SUBSET (1..n)
    OBVIOUS
  <2> HIDE DEF less, sooner
  <2> QED BY <2>1, <2>2, FS_Subset
<1> HIDE DEF less, sooner
<1>3. Cardinality(less \intersect sooner) = 0
  BY <1>1, FS_EmptySet
<1>4. Cardinality(less) \in Nat /\ Cardinality(sooner) \in Nat
  BY <1>2, FS_CardinalityType
<1>5. Cardinality(less \union sooner) = Cardinality(less) + Cardinality(sooner) - Cardinality(less \intersect sooner)
  BY <1>2, FS_Union
<1>6. Place(values, i) = Cardinality(less) + Cardinality(sooner) + 1
  BY <1>1, <1>3, <1>4, <1>5 DEF Place
<1> QED BY <1>6 DEF less, sooner

\* The rank of a value, doubled.
RankOf(n, values, i) ==
  2 * Cardinality({j \in 1..n : values[j] < values[i]}) + Cardinality({j \in 1..n : values[j] = values[i]}) + 1

LEMMA RanksAre ==
  ASSUME NEW n \in Nat, NEW values \in [1..n -> Int], NEW i \in 1..n
  PROVE  AverageRanks(values)[i] = RankOf(n, values, i) /\ RankOf(n, values, i) \in Int
<1> DEFINE p == SortedIndexes(values)
           less == {j \in 1..n : values[j] < values[i]}
           equal == {j \in 1..n : values[j] = values[i]}
           sooner(k) == {j \in 1..n : values[j] = values[k] /\ j < k}
           L == Cardinality(less)
           E == Cardinality(equal)
           run == {k \in 1..n : values[p[k]] = values[i]}
<1>1. IsFiniteSet(1..n) /\ Cardinality(1..n) = n /\ 1..n \in SUBSET Nat
  <2>1. IsFiniteSet(1..n) /\ Cardinality(1..n) = IF 1 > n THEN 0 ELSE n - 1 + 1
    BY FS_Interval
  <2> QED BY <2>1
<1>2. InOrder(values, p, n, 1..n)
  <2> HIDE DEF p
  <2> QED BY <1>1, Sorted DEF p
<1>3. /\ p \in [1..n -> 1..n]
      /\ \A k \in 1..n : Place(values, p[k]) = k
      /\ \A k \in 1..n : Place(values, k) \in 1..n /\ p[Place(values, k)] = k
  <2> HIDE DEF p
  <2> QED BY <1>2 DEF InOrder
<1>4. IsFiniteSet(less) /\ IsFiniteSet(equal)
  <2>1. less \in SUBSET (1..n) /\ equal \in SUBSET (1..n)
    OBVIOUS
  <2> HIDE DEF less, equal
  <2> QED BY <2>1, <1>1, FS_Subset
<1>5. L \in Nat /\ E \in Nat
  <2> HIDE DEF less, equal
  <2> QED BY <1>4, FS_CardinalityType
<1>6. ASSUME NEW k \in equal
      PROVE  /\ Place(values, k) = L + Cardinality(sooner(k)) + 1
             /\ sooner(k) \in SUBSET equal /\ k \notin sooner(k)
  <2>1. k \in 1..n /\ values[k] = values[i]
    OBVIOUS
  <2>2. less = {j \in 1..n : values[j] < values[k]}
    BY <2>1
  <2>3. Place(values, k) = Cardinality({j \in 1..n : values[j] < values[k]}) + Cardinality(sooner(k)) + 1
    BY <2>1, PlaceAmongEquals
  <2>4. sooner(k) \in SUBSET equal /\ k \notin sooner(k)
    BY <2>1
  <2> HIDE DEF less, sooner
  <2> QED BY <2>2, <2>3, <2>4
<1>7. ASSUME NEW k \in equal
      PROVE  Cardinality(sooner(k)) \in 0..(E - 1) /\ Place(values, k) \in (L + 1)..(L + E)
  <2>1. sooner(k) \in SUBSET (equal \ {k})
    BY <1>6
  <2>2. IsFiniteSet(equal \ {k}) /\ Cardinality(equal \ {k}) = E - 1
    <3> HIDE DEF equal
    <3> QED BY <1>4, FS_RemoveElement
  <2>3. IsFiniteSet(sooner(k)) /\ Cardinality(sooner(k)) <= E - 1
    <3> HIDE DEF equal, sooner
    <3> QED BY <2>1, <2>2, FS_Subset
  <2>4. Cardinality(sooner(k)) \in Nat
    <3> HIDE DEF sooner
    <3> QED BY <2>3, FS_CardinalityType
  <2>5. Place(values, k) = L + Cardinality(sooner(k)) + 1
    BY <1>6
  <2> HIDE DEF L, E, sooner
  <2> QED BY <1>5, <2>3, <2>4, <2>5
<1>8. i \in equal
  OBVIOUS
<1>9. \A k \in run : k \in (L + 1)..(L + E)
  <2>1. ASSUME NEW k \in run PROVE k \in (L + 1)..(L + E)
    <3>1. p[k] \in equal /\ Place(values, p[k]) = k
      <4> HIDE DEF p
      <4> QED BY <1>3
    <3> HIDE DEF p, equal, L, E
    <3> QED BY <3>1, <1>7
  <2> QED BY <2>1
<1>10. \A k \in equal : Place(values, k) \in run
  <2> HIDE DEF p
  <2> QED BY <1>3
<1>11. L + 1 \in run
  <2>1. PICK m \in equal : \A k \in equal : m <= k
    <3>1. equal \in SUBSET Nat /\ equal # {}
      BY <1>8
    <3> HIDE DEF equal
    <3> QED BY <3>1, LeastNumber
  <2>2. sooner(m) = {}
    <3>1. \A k \in sooner(m) : k \in equal /\ k < m /\ k \in Nat /\ m \in Nat
      BY <2>1
    <3> HIDE DEF equal, sooner
    <3> QED BY <2>1, <3>1
  <2>3. Place(values, m) = L + 0 + 1
    <3>1. Cardinality(sooner(m)) = 0
      <4> HIDE DEF sooner
      <4> QED BY <2>2, FS_EmptySet
    <3> HIDE DEF L, sooner, equal
    <3> QED BY <3>1, <1>6
  <2> HIDE DEF equal, run, L
  <2> QED BY <1>5, <1>10, <2>3
<1>12. L + E \in run
  <2>1. PICK m \in equal : \A k \in equal : k <= m
    <3>1. equal \in SUBSET (1..n) /\ equal # {}
      BY <1>8
    <3> HIDE DEF equal
    <3>2. Max(equal) \in equal /\ \A k \in equal : k <= Max(equal)
      BY <3>1, MaxOfSome
    <3> QED BY <3>2
  <2>2. sooner(m) = equal \ {m}
    BY <2>1
  <2>3. Cardinality(equal \ {m}) = E - 1
    <3> HIDE DEF equal
    <3> QED BY <1>4, <2>1, FS_RemoveElement
  <2>4. Place(values, m) = L + (E - 1) + 1
    <3> HIDE DEF L, E, sooner, equal
    <3> QED BY <1>6, <2>1, <2>2, <2>3
  <2>5. L + (E - 1) + 1 = L + E
    BY <1>5
  <2> HIDE DEF equal, run, L, E
  <2> QED BY <1>10, <2>1, <2>4, <2>5
<1>13. Min(run) = L + 1 /\ Max(run) = L + E
  <2>1. run \in SUBSET (1..n) /\ run \in SUBSET Nat /\ run # {}
    BY <1>11
  <2> HIDE DEF run, L, E
  <2>2. Min(run) \in run /\ \A k \in run : Min(run) <= k
    <3>1. \E m \in run : \A k \in run : m <= k
      BY <2>1, LeastNumber
    <3> QED BY <3>1 DEF Min
  <2>3. Max(run) \in run /\ \A k \in run : k <= Max(run)
    BY <2>1, MaxOfSome
  <2>4. Min(run) <= L + 1 /\ L + E <= Max(run) /\ Min(run) \in (L + 1)..(L + E) /\ Max(run) \in (L + 1)..(L + E)
    BY <1>9, <1>11, <1>12, <2>2, <2>3
  <2> QED BY <1>5, <2>4
<1>14. AverageRanks(values)[i] = Min(run) + Max(run)
  <2> DEFINE runOf(v) == {k \in DOMAIN p : values[p[k]] = v}
  <2>1. AverageRanks(values) = [j \in DOMAIN values |-> Min(runOf(values[j])) + Max(runOf(values[j]))]
    BY DEF AverageRanks
  <2> HIDE DEF p
  <2>2. runOf(values[i]) = run
    BY <1>3
  <2> HIDE DEF runOf, run
  <2>3. AverageRanks(values)[i] = Min(runOf(values[i])) + Max(runOf(values[i]))
    BY <2>1
  <2> QED BY <2>2, <2>3
<1>15. RankOf(n, values, i) = 2 * L + E + 1
  BY DEF RankOf
<1> HIDE DEF L, E, run
<1> QED BY <1>5, <1>13, <1>14, <1>15

LEMMA RanksAreIntegers ==
  ASSUME NEW values \in Seq(Int)
  PROVE  AverageRanks(values) \in [1..Len(values) -> Int]
<1> DEFINE n == Len(values)
<1>1. n \in Nat /\ values \in [1..n -> Int]
  OBVIOUS
<1>2. \A i \in 1..n : AverageRanks(values)[i] \in Int
  <2> HIDE DEF n
  <2> QED BY <1>1, RanksAre
<1>3. AverageRanks(values) = [i \in 1..n |-> AverageRanks(values)[i]]
  BY DEF AverageRanks
<1> HIDE DEF n
<1> QED BY <1>2, <1>3 DEF n

\* A sequence is correlated with itself as closely as can be.
LEMMA WithItself ==
  ASSUME NEW r \in Seq(Int), Pearson(r, r).left * Pearson(r, r).right # 0
  PROVE  Percents(Pearson(r, r)) = 100
<1> DEFINE n == Len(r)
           squares == [i \in 1..n |-> r[i] * r[i]]
           c == n * SumOf(squares) - SumOf(r) * SumOf(r)
           rho == [num |-> c, left |-> c, right |-> c]
<1>1. n \in Nat /\ r \in [1..n -> Int] /\ DOMAIN r = 1..n
  OBVIOUS
<1>2. Pearson(r, r) = rho
  BY <1>1 DEF Pearson
<1>3. c >= 0 /\ c \in Int
  <2>1. c >= 0
    <3> HIDE DEF n
    <3> QED BY <1>1, NoNegativeVariance
  <2>2. SumOf(r) \in Int /\ SumOf(squares) \in Int
    <3>1. squares \in [1..n -> Int]
      BY <1>1
    <3> HIDE DEF squares, n
    <3> QED BY <1>1, <3>1, SumOfIntegers
  <2> HIDE DEF squares, n
  <2> QED BY <1>1, <2>1, <2>2
<1> HIDE DEF c
<1>4. c * c # 0
  BY <1>2
<1> DEFINE atLeast(p) == IF p >= 0 THEN rho.num >= 0 /\ 10000 * rho.num * rho.num >= p * p * rho.left * rho.right
                         ELSE rho.num >= 0 \/ 10000 * rho.num * rho.num <= p * p * rho.left * rho.right
           reached == {p \in -100..100 : atLeast(p)}
<1>5. Percents(rho) = Max(reached)
  BY DEF Percents
<1>6. 100 \in reached
  <2>1. 10000 * c * c >= 100 * 100 * c * c
    BY <1>3
  <2> QED BY <1>3, <2>1
<1>7. reached \subseteq -100..100
  OBVIOUS
<1> HIDE DEF reached
<1>8. \A y \in reached : 100 >= y /\ y \in Int
  BY <1>7
<1>9. Max(reached) = 100
  <2>1. Max(reached) \in reached /\ \A y \in reached : Max(reached) >= y
    BY <1>6, <1>8 DEF Max
  <2> QED BY <2>1, <1>6, <1>8
<1> QED BY <1>2, <1>5, <1>9

LEMMA MeanOfAll ==
  ASSUME NEW n \in Nat \ {0}, NEW m \in Int
  PROVE  SumOf([k \in 1..n |-> m]) \div n = m
<1> DEFINE v == [k \in 1..n |-> m]
<1>1. v \in [1..n -> Int] /\ \A k \in 1..n : m <= v[k] /\ v[k] <= m
  OBVIOUS
<1> HIDE DEF v
<1>2. n * m <= SumOf(v) /\ SumOf(v) <= n * m /\ SumOf(v) \in Int
  BY <1>1, SumBetween, SumOfIntegers
<1>3. n * m \in Int
  OBVIOUS
<1>4. SumOf(v) = n * m
  BY <1>2, <1>3
<1>5. (n * m) \div n = m
  OBVIOUS
<1> QED BY <1>4, <1>5 DEF v

-----------------------------------------------------------------------------
(* The evaluation of rollouts.                                              *)

\* The predictions that the recorded model gives for an episode id.
Recorded(input, id) == input[Max({k \in DOMAIN input : input[k].id = id})].predictions

\* A rollout is a function of the file and of the history size.
RolledOut(input, size, k) ==
  LET e == input[k]
      predicted == SubSeq(Recorded(input, e.id), 1, Len(e.targets) - size)
      targets == TargetsOf(e, size)
  IN  [predicted |-> predicted, targets |-> targets, spearman |-> Percents(Spearman(predicted, targets))]

\* What an episode must have to get a rollout.
CanBeRolled(input, size, k) ==
  LET e == input[k]
      r == RolledOut(input, size, k)
      rho == Spearman(r.predicted, r.targets)
  IN  /\ ~EpisodeRefused(e, size) /\ Len(e.targets) - size <= Len(Recorded(input, e.id))
      /\ Len(r.targets) >= 3 /\ rho.left * rho.right # 0

EvalTypes ==
  eval # NoEval =>
    /\ DOMAIN eval = {"at", "run", "input", "size", "floor", "cursor", "history", "predicted", "rollouts",
                      "outcome", "file", "whole"}
    /\ eval.at \in {"begin", "rollout", "write"} /\ eval.input \in Inputs /\ eval.input # << >>
    /\ eval.size \in Nat /\ eval.size # 0 /\ eval.floor \in 0..100

\* The episodes before the current one have their rollouts.
RolloutsSoFar ==
  eval # NoEval =>
    LET n == Len(eval.rollouts)
    IN  /\ n \in 0..Len(eval.input) /\ eval.rollouts = [k \in 1..n |-> RolledOut(eval.input, eval.size, k)]
        /\ \A k \in 1..n : CanBeRolled(eval.input, eval.size, k)

\* The predictions so far are the first of those recorded for the episode.
RollingOut ==
  eval.at = "rollout" =>
    LET k == Len(eval.rollouts) + 1
        e == eval.input[k]
        recorded == Recorded(eval.input, e.id)
    IN  /\ k <= Len(eval.input) /\ ~EpisodeRefused(e, eval.size)
        /\ eval.cursor \in 0..(Len(e.targets) - eval.size) /\ eval.cursor <= Len(recorded)
        /\ eval.predicted = SubSeq(recorded, 1, eval.cursor)

MeanOf(rollouts) == SumOf([k \in 1..Len(rollouts) |-> rollouts[k].spearman]) \div Len(rollouts)

Decided ==
  eval.at = "write" =>
    Len(eval.rollouts) = Len(eval.input) /\ eval.outcome = Outcome(MeanOf(eval.rollouts), eval.floor)

\* The files before the current one are of this run, or the report was torn anew.
FilesSoFar ==
  /\ evals \in Nat /\ DOMAIN outDir = {"results", "report", "traces"}
  /\ \A name \in DOMAIN outDir : outDir[name].run \in 0..evals
  /\ eval # NoEval => eval.run = evals /\ eval.file \in 1..3 /\ eval.whole \in BOOLEAN
  /\ eval # NoEval /\ eval.at # "write" => eval.file = 1
  /\ eval.at = "write" /\ eval.file >= 2 => outDir["results"].run = evals
  /\ eval.at = "write" /\ eval.file = 3 => outDir["report"].run \in {0, evals}

EvalInv == EvalTypes /\ RolloutsSoFar /\ RollingOut /\ Decided /\ FilesSoFar /\ TracesComeLast

LEMMA ElementOf ==
  ASSUME NEW X, NEW s \in Seq(X), NEW i \in 1..Len(s)
  PROVE  s[i] \in X
OBVIOUS

LEMMA RecordedIsOfTheId ==
  ASSUME NEW input \in Inputs, NEW k \in 1..Len(input)
  PROVE  /\ input \in Seq([id : Int, targets : Seq(Int), actions : Seq(Int), predictions : Seq(Int)])
         /\ Recorded(input, input[k].id) \in Seq(Int)
         /\ (\A l \in 1..Len(input) : input[l].id = input[k].id => l = k)
              => Recorded(input, input[k].id) = input[k].predictions
<1> DEFINE same == {l \in DOMAIN input : input[l].id = input[k].id}
<1>1. input \in Seq([id : Int, targets : Seq(Int), actions : Seq(Int), predictions : Seq(Int)])
  BY PlanningAssumption
<1>2. same \in SUBSET (1..Len(input)) /\ k \in same /\ Len(input) \in Nat
  BY <1>1
<1>3. Recorded(input, input[k].id) = input[Max(same)].predictions
  BY DEF Recorded
<1>4. ASSUME \A l \in 1..Len(input) : input[l].id = input[k].id => l = k PROVE same = {k}
  <2>1. \A l \in same : l \in 1..Len(input) /\ input[l].id = input[k].id
    BY <1>1
  <2> HIDE DEF same
  <2> QED BY <1>2, <1>4, <2>1
<1> HIDE DEF same
<1>5. Max(same) \in same /\ Max(same) \in 1..Len(input)
  BY <1>2, MaxOfSome
<1>6. input[Max(same)] \in [id : Int, targets : Seq(Int), actions : Seq(Int), predictions : Seq(Int)]
  BY <1>1, <1>5, ElementOf
<1>7. Recorded(input, input[k].id) \in Seq(Int)
  BY <1>3, <1>6
<1>8. ASSUME \A l \in 1..Len(input) : input[l].id = input[k].id => l = k
      PROVE  Recorded(input, input[k].id) = input[k].predictions
  <2>1. Max(same) = k
    BY <1>4, <1>5, <1>8
  <2> QED BY <1>3, <2>1
<1> QED BY <1>1, <1>7, <1>8

LEMMA RolledOutIs ==
  ASSUME NEW input \in Inputs, NEW size \in Nat, NEW k \in 1..Len(input), CanBeRolled(input, size, k)
  PROVE  LET e == input[k]
             r == RolledOut(input, size, k)
             steps == Len(e.targets) - size
         IN  /\ steps \in Nat /\ steps >= 3
             /\ r.predicted \in Seq(Int) /\ Len(r.predicted) = steps
             /\ \A s \in 1..steps : r.predicted[s] = Recorded(input, e.id)[s]
             /\ r.targets \in Seq(Int) /\ Len(r.targets) = steps
             /\ \A s \in 1..steps : r.targets[s] = e.targets[s + size]
             /\ r.spearman = Percents(Spearman(r.predicted, r.targets))
             /\ Spearman(r.predicted, r.targets).left * Spearman(r.predicted, r.targets).right # 0
<1> DEFINE e == input[k]
           recorded == Recorded(input, e.id)
           r == RolledOut(input, size, k)
           steps == Len(e.targets) - size
<1>1. recorded \in Seq(Int) /\ e.targets \in Seq(Int)
  <2>1. input \in Seq([id : Int, targets : Seq(Int), actions : Seq(Int), predictions : Seq(Int)])
        /\ recorded \in Seq(Int)
    BY RecordedIsOfTheId
  <2>2. e \in [id : Int, targets : Seq(Int), actions : Seq(Int), predictions : Seq(Int)]
    BY <2>1, ElementOf
  <2> QED BY <2>1, <2>2
<1>2. ~(Len(e.targets) <= size) /\ steps <= Len(recorded)
  BY DEF CanBeRolled, EpisodeRefused
<1>3. r = [predicted |-> SubSeq(recorded, 1, steps), targets |-> SubSeq(e.targets, size + 1, Len(e.targets)),
           spearman |-> Percents(Spearman(SubSeq(recorded, 1, steps), SubSeq(e.targets, size + 1, Len(e.targets))))]
  BY DEF RolledOut, TargetsOf
<1>4. Len(r.targets) >= 3 /\ Spearman(r.predicted, r.targets).left * Spearman(r.predicted, r.targets).right # 0
  BY DEF CanBeRolled
<1>5. r.spearman = Percents(Spearman(r.predicted, r.targets)) /\ r.predicted = SubSeq(recorded, 1, steps)
      /\ r.targets = SubSeq(e.targets, size + 1, Len(e.targets))
  BY <1>3
<1> HIDE DEF recorded, r
<1>6. steps \in Nat /\ steps <= Len(recorded)
  BY <1>1, <1>2
<1>7. /\ r.targets \in Seq(Int) /\ Len(r.targets) = steps
      /\ \A s \in 1..steps : r.targets[s] = e.targets[s + size]
  <2> DEFINE t == e.targets
  <2>1. t \in Seq(Int) /\ size < Len(t)
    BY <1>1, <1>2
  <2> HIDE DEF t
  <2>2. /\ SubSeq(t, size + 1, Len(t)) \in Seq(Int) /\ Len(SubSeq(t, size + 1, Len(t))) = Len(t) - size
        /\ \A s \in 1..(Len(t) - size) : SubSeq(t, size + 1, Len(t))[s] = t[s + size]
    BY <2>1
  <2> QED BY <1>5, <2>2 DEF t
<1>8. /\ r.predicted \in Seq(Int) /\ Len(r.predicted) = steps
      /\ \A s \in 1..steps : r.predicted[s] = recorded[s]
  <2> HIDE DEF steps
  <2> QED BY <1>1, <1>5, <1>6
<1> QED BY <1>4, <1>5, <1>6, <1>7, <1>8 DEF recorded, r

LEMMA InputLen ==
  ASSUME NEW input \in Inputs
  PROVE  Len(input) \in Nat /\ DOMAIN input = 1..Len(input)
BY PlanningAssumption

\* What the invariant says of a rollout that is kept.
LEMMA KeptRollouts ==
  ASSUME EvalTypes, RolloutsSoFar, eval.at \in {"begin", "write"}
  PROVE  /\ eval.input \in Inputs /\ eval.size \in Nat /\ eval # NoEval
         /\ DOMAIN eval.rollouts = 1..Len(eval.rollouts) /\ Len(eval.rollouts) \in 0..Len(eval.input)
         /\ Len(eval.input) \in Nat
         /\ \A k \in DOMAIN eval.rollouts :
              /\ k \in 1..Len(eval.input) /\ eval.rollouts[k] = RolledOut(eval.input, eval.size, k)
              /\ CanBeRolled(eval.input, eval.size, k)
<1>1. eval # NoEval
  BY DEF NoEval
<1>2. eval.input \in Inputs /\ eval.size \in Nat
  BY <1>1 DEF EvalTypes
<1> DEFINE n == Len(eval.rollouts)
<1>3. /\ n \in 0..Len(eval.input) /\ eval.rollouts = [k \in 1..n |-> RolledOut(eval.input, eval.size, k)]
      /\ \A k \in 1..n : CanBeRolled(eval.input, eval.size, k)
  BY <1>1 DEF RolloutsSoFar
<1>4. Len(eval.input) \in Nat
  BY <1>2, InputLen
<1> HIDE DEF n
<1>5. \A k \in 1..n : k \in 1..Len(eval.input)
  BY <1>3, <1>4
<1>6. DOMAIN eval.rollouts = 1..n /\ \A k \in 1..n : eval.rollouts[k] = RolledOut(eval.input, eval.size, k)
  BY <1>3
<1> QED BY <1>1, <1>2, <1>3, <1>4, <1>5, <1>6 DEF n

LEMMA IdsAreDistinct ==
  ASSUME NEW input \in Inputs, IsInjective([k \in DOMAIN input |-> input[k].id]), NEW k \in 1..Len(input)
  PROVE  Recorded(input, input[k].id) = input[k].predictions
<1>1. DOMAIN input = 1..Len(input)
  BY InputLen
<1>2. \A l \in 1..Len(input) : input[l].id = input[k].id => l = k
  <2> DEFINE ids == [j \in DOMAIN input |-> input[j].id]
  <2>1. \A l \in 1..Len(input) : l \in DOMAIN ids /\ ids[l] = input[l].id
    BY <1>1
  <2> HIDE DEF ids
  <2>2. \A a, b \in DOMAIN ids : ids[a] = ids[b] => a = b
    BY DEF IsInjective, ids
  <2> QED BY <2>1, <2>2
<1> QED BY <1>2, RecordedIsOfTheId

LEMMA RolloutsAreOwned ==
  ASSUME EvalTypes, RolloutsSoFar
  PROVE  RolloutsAreTheirOwn
<1> SUFFICES ASSUME eval.at \in {"begin", "write"}, NEW k \in DOMAIN eval.rollouts
             PROVE  LET e == eval.input[k]
                        rollout == eval.rollouts[k]
                    IN  /\ Len(rollout.predicted) = Len(e.targets) - eval.size
                        /\ \A s \in DOMAIN rollout.predicted :
                             /\ DistinctIds => rollout.predicted[s] = e.predictions[s]
                             /\ rollout.targets[s] = e.targets[s + eval.size]
  BY DEF RolloutsAreTheirOwn
<1> DEFINE e == eval.input[k]
           r == RolledOut(eval.input, eval.size, k)
           steps == Len(e.targets) - eval.size
<1>1. /\ eval.input \in Inputs /\ eval.size \in Nat /\ k \in 1..Len(eval.input)
      /\ eval.rollouts[k] = r /\ CanBeRolled(eval.input, eval.size, k)
  BY KeptRollouts
<1>2. /\ r.predicted \in Seq(Int) /\ Len(r.predicted) = steps
      /\ \A s \in 1..steps : r.predicted[s] = Recorded(eval.input, e.id)[s] /\ r.targets[s] = e.targets[s + eval.size]
  BY <1>1, RolledOutIs
<1>3. DistinctIds => Recorded(eval.input, e.id) = e.predictions
  BY <1>1, IdsAreDistinct DEF DistinctIds
<1> HIDE DEF r
<1>4. DOMAIN r.predicted = 1..steps
  BY <1>2
<1> QED BY <1>1, <1>2, <1>3, <1>4

LEMMA RanksAreRight ==
  ASSUME EvalTypes, RolloutsSoFar
  PROVE  RanksAreAverages
<1> SUFFICES ASSUME eval.at \in {"begin", "write"}, NEW k \in DOMAIN eval.rollouts
             PROVE  LET d == Distances(eval.rollouts[k].targets)
                    IN  \A i \in DOMAIN d :
                          AverageRanks(d)[i] = 2 * Cardinality({j \in DOMAIN d : d[j] < d[i]})
                                                 + Cardinality({j \in DOMAIN d : d[j] = d[i]}) + 1
  BY DEF RanksAreAverages
<1> DEFINE t == eval.rollouts[k].targets
           d == Distances(t)
<1>1. t \in Seq(Int) /\ Len(t) >= 3
  <2>1. /\ eval.input \in Inputs /\ eval.size \in Nat /\ k \in 1..Len(eval.input)
        /\ eval.rollouts[k] = RolledOut(eval.input, eval.size, k) /\ CanBeRolled(eval.input, eval.size, k)
    BY KeptRollouts
  <2> QED BY <2>1, RolledOutIs
<1>2. d \in Seq(Int)
  <2> HIDE DEF t
  <2>1. t # << >>
    BY <1>1
  <2> QED BY <1>1, <2>1, DistancesAreIntegers
<1> HIDE DEF d
<1>3. Len(d) \in Nat /\ d \in [1..Len(d) -> Int] /\ DOMAIN d = 1..Len(d)
  BY <1>2
<1>4. \A i \in DOMAIN d : AverageRanks(d)[i] = RankOf(Len(d), d, i)
  BY <1>3, RanksAre
<1> QED BY <1>3, <1>4 DEF d, RankOf

LEMMA SameSequence ==
  ASSUME NEW n \in Nat, NEW s \in Seq(Int), NEW t \in Seq(Int), Len(s) = n, Len(t) = n, \A i \in 1..n : s[i] = t[i]
  PROVE  s = t
OBVIOUS

LEMMA PerfectRollout ==
  ASSUME NEW input \in Inputs, NEW size \in Nat, NEW k \in 1..Len(input), CanBeRolled(input, size, k),
         Recorded(input, input[k].id) = SubSeq(input[k].targets, size + 1, Len(input[k].targets))
  PROVE  RolledOut(input, size, k).spearman = 100
<1> DEFINE e == input[k]
           r == RolledOut(input, size, k)
           steps == Len(e.targets) - size
           t == r.targets
           ranks == AverageRanks(Distances(t))
<1>1. /\ steps \in Nat /\ steps >= 3
      /\ r.predicted \in Seq(Int) /\ Len(r.predicted) = steps
      /\ \A s \in 1..steps : r.predicted[s] = Recorded(input, e.id)[s]
      /\ t \in Seq(Int) /\ Len(t) = steps
      /\ r.spearman = Percents(Spearman(r.predicted, t))
      /\ Spearman(r.predicted, t).left * Spearman(r.predicted, t).right # 0
  BY RolledOutIs
<1>2. t = Recorded(input, e.id)
  BY DEF RolledOut, TargetsOf
<1> HIDE DEF r, t
<1>3. r.predicted = t
  <2> HIDE DEF steps
  <2>1. \A s \in 1..steps : r.predicted[s] = t[s]
    BY <1>1, <1>2
  <2> QED BY <1>1, <2>1, SameSequence
<1>4. ranks \in Seq(Int)
  <2>1. t # << >>
    BY <1>1
  <2>2. Distances(t) \in Seq(Int)
    BY <1>1, <2>1, DistancesAreIntegers
  <2>3. ranks \in [1..Len(Distances(t)) -> Int]
    BY <2>2, RanksAreIntegers
  <2>4. Len(Distances(t)) \in Nat
    BY <2>2
  <2> HIDE DEF ranks
  <2> QED BY <2>3, <2>4
<1>5. Spearman(r.predicted, t) = Pearson(ranks, ranks)
  BY <1>3 DEF Spearman
<1> HIDE DEF ranks
<1>6. Percents(Pearson(ranks, ranks)) = 100
  BY <1>1, <1>4, <1>5, WithItself
<1> QED BY <1>1, <1>5, <1>6 DEF r

LEMMA PerfectRunsPass ==
  ASSUME EvalTypes, RolloutsSoFar, Decided
  PROVE  PerfectRolloutsPass
<1> SUFFICES ASSUME eval.at = "write",
                    \A k \in DOMAIN eval.input :
                      LET e == eval.input[k]
                      IN  e.predictions = SubSeq(e.targets, eval.size + 1, Len(e.targets)) /\ DistinctIds
             PROVE  eval.outcome = "pass"
  BY DEF PerfectRolloutsPass
<1> DEFINE n == Len(eval.input)
<1>1. /\ eval.input \in Inputs /\ eval.size \in Nat /\ eval # NoEval
      /\ DOMAIN eval.rollouts = 1..Len(eval.rollouts)
      /\ \A k \in DOMAIN eval.rollouts :
           /\ k \in 1..n /\ eval.rollouts[k] = RolledOut(eval.input, eval.size, k)
           /\ CanBeRolled(eval.input, eval.size, k)
  BY KeptRollouts
<1>2. Len(eval.rollouts) = n /\ eval.outcome = Outcome(MeanOf(eval.rollouts), eval.floor)
  BY DEF Decided
<1>3. n \in Nat \ {0} /\ DOMAIN eval.input = 1..n /\ eval.floor \in 0..100
  <2>1. eval.input # << >> /\ eval.floor \in 0..100
    BY <1>1 DEF EvalTypes
  <2>2. eval.input \in Seq([id : Int, targets : Seq(Int), actions : Seq(Int), predictions : Seq(Int)])
    BY <1>1, PlanningAssumption
  <2>3. \A X : \A s \in Seq(X) : s # << >> => Len(s) \in Nat \ {0} /\ DOMAIN s = 1..Len(s)
    OBVIOUS
  <2> QED BY <2>1, <2>2, <2>3
<1> HIDE DEF n
<1>4. ASSUME NEW k \in 1..n PROVE eval.rollouts[k].spearman = 100
  <2>1. DistinctIds /\ eval.input[k].predictions = SubSeq(eval.input[k].targets, eval.size + 1, Len(eval.input[k].targets))
    BY <1>3
  <2>2. k \in 1..Len(eval.input) /\ eval.rollouts[k] = RolledOut(eval.input, eval.size, k)
        /\ CanBeRolled(eval.input, eval.size, k)
    BY <1>1, <1>2 DEF n
  <2>3. Recorded(eval.input, eval.input[k].id) = eval.input[k].predictions
    BY <1>1, <2>1, <2>2, IdsAreDistinct DEF DistinctIds
  <2>4. Recorded(eval.input, eval.input[k].id)
          = SubSeq(eval.input[k].targets, eval.size + 1, Len(eval.input[k].targets))
    BY <2>1, <2>3
  <2>5. RolledOut(eval.input, eval.size, k).spearman = 100
    BY <1>1, <2>2, <2>4, PerfectRollout
  <2> QED BY <2>2, <2>5
<1>5. MeanOf(eval.rollouts) = 100
  <2>1. [k \in 1..n |-> eval.rollouts[k].spearman] = [k \in 1..n |-> 100]
    BY <1>4
  <2>2. MeanOf(eval.rollouts) = SumOf([k \in 1..n |-> 100]) \div n
    BY <1>2, <2>1 DEF MeanOf
  <2>3. \A m \in Int : SumOf([k \in 1..n |-> m]) \div n = m
    BY <1>3, MeanOfAll
  <2>4. SumOf([k \in 1..n |-> 100]) \div n = 100
    BY <2>3
  <2> QED BY <2>2, <2>4
<1>6. Outcome(100, eval.floor) = "pass"
  <2>1. \A floor \in 0..100 : 100 >= floor
    OBVIOUS
  <2>2. 100 >= eval.floor
    BY <1>3, <2>1
  <2> QED BY <2>2 DEF Outcome
<1> QED BY <1>2, <1>5, <1>6

LEMMA EvalInvSuffices == EvalInv => RolloutsAreJudged
BY RolloutsAreOwned, RanksAreRight, PerfectRunsPass DEF EvalInv, RolloutsAreJudged

-----------------------------------------------------------------------------
(* Each step keeps the invariant.                                           *)

JudgeInv == EvalTypes /\ RolloutsSoFar /\ RollingOut /\ Decided
FilesInv == FilesSoFar /\ TracesComeLast

EvalFields == {"at", "run", "input", "size", "floor", "cursor", "history", "predicted", "rollouts",
               "outcome", "file", "whole"}

LEMMA NoEvalIsJudged == ASSUME eval' = NoEval PROVE JudgeInv'
BY DEF JudgeInv, EvalTypes, RolloutsSoFar, RollingOut, Decided, NoEval

LEMMA NoEvalIsFiled == ASSUME FilesInv, eval' = NoEval, outDir' = outDir, evals' = evals PROVE FilesInv'
BY DEF FilesInv, FilesSoFar, TracesComeLast, OutputFiles, NoEval

\* A step of a rollout leaves the files alone.
LEMMA RollingIsFiled ==
  ASSUME FilesInv, eval # NoEval, eval.at # "write", eval'.run = eval.run, eval'.file = eval.file, eval'.whole = eval.whole,
         outDir' = outDir, evals' = evals
  PROVE  FilesInv'
<1>1. eval.file = 1 /\ eval'.run = evals /\ eval'.file = 1 /\ eval'.whole \in BOOLEAN
  BY DEF FilesInv, FilesSoFar
<1>2. FilesSoFar'
  BY <1>1 DEF FilesInv, FilesSoFar
<1>3. TracesComeLast'
  BY DEF FilesInv, TracesComeLast, OutputFiles
<1> QED BY <1>2, <1>3 DEF FilesInv

LEMMA StartKeeps == ASSUME JudgeInv, FilesInv, StartEval PROVE JudgeInv' /\ FilesInv'
<1>1. PICK input \in Inputs, size \in HistorySizes, floor \in Floors, reserved \in BOOLEAN :
        eval' = IF reserved \/ input = << >> \/ size = 0 \/ floor \notin 0..100 THEN NoEval
                ELSE [at |-> "begin", run |-> evals', input |-> input, size |-> size, floor |-> floor,
                      cursor |-> 0, history |-> << >>, predicted |-> << >>, rollouts |-> << >>,
                      outcome |-> "none", file |-> 1, whole |-> TRUE]
  BY DEF StartEval
<1>2. evals' = evals + 1 /\ outDir' = outDir /\ evals \in Nat
  BY DEF StartEval, FilesInv, FilesSoFar
<1>3. TracesComeLast'
  BY <1>2 DEF FilesInv, TracesComeLast, OutputFiles
<1>4. /\ evals' \in Nat /\ DOMAIN outDir' = {"results", "report", "traces"}
      /\ \A name \in DOMAIN outDir' : outDir'[name].run \in 0..evals'
  <2>1. \A r : r \in 0..evals => r \in 0..evals'
    BY <1>2
  <2>2. DOMAIN outDir = {"results", "report", "traces"} /\ \A name \in DOMAIN outDir : outDir[name].run \in 0..evals
    BY DEF FilesInv, FilesSoFar
  <2> QED BY <1>2, <2>1, <2>2
<1>5. CASE eval' = NoEval
  <2>1. FilesSoFar'
    BY <1>4, <1>5 DEF FilesSoFar, NoEval
  <2> QED BY <1>3, <1>5, <2>1, NoEvalIsJudged DEF FilesInv
<1>6. CASE eval' # NoEval
  <2>1. /\ DOMAIN eval' = EvalFields /\ eval'.at = "begin" /\ eval'.run = evals' /\ eval'.input = input
        /\ eval'.size = size /\ eval'.floor = floor /\ eval'.rollouts = << >> /\ eval'.file = 1 /\ eval'.whole = TRUE
    BY <1>1, <1>6 DEF EvalFields
  <2>2. input # << >> /\ size # 0 /\ floor \in 0..100 /\ size \in Nat
    BY <1>1, <1>6, PlanningAssumption
  <2>3. EvalTypes'
    BY <2>1, <2>2 DEF EvalTypes, EvalFields
  <2>4. RolloutsSoFar'
    <3>1. Len(input) \in Nat
      BY InputLen
    <3>2. Len(<< >>) = 0 /\ 0 \in 0..Len(input) /\ 1..0 = {}
      BY <3>1
    <3>3. \A F : << >> = [k \in 1..0 |-> F[k]]
      OBVIOUS
    <3> DEFINE F == [k \in 1..0 |-> RolledOut(input, size, k)]
    <3>4. F = << >>
      BY <3>2
    <3>5. eval'.rollouts = [k \in 1..Len(eval'.rollouts) |-> RolledOut(eval'.input, eval'.size, k)]
      BY <2>1, <3>2, <3>4
    <3> QED BY <2>1, <3>2, <3>5 DEF RolloutsSoFar
  <2>5. RollingOut' /\ Decided'
    BY <2>1 DEF RollingOut, Decided
  <2>6. FilesSoFar'
    <3>1. eval'.run = evals' /\ eval'.file \in 1..3 /\ eval'.whole \in BOOLEAN /\ eval'.at # "write" /\ eval'.file = 1
      <4>1. eval'.whole \in BOOLEAN
        BY <2>1, Zenon
      <4>2. eval'.run = evals' /\ eval'.file \in 1..3 /\ eval'.at # "write" /\ eval'.file = 1
        BY <2>1
      <4> QED BY <4>1, <4>2, Zenon
    <3> QED BY <1>4, <3>1 DEF FilesSoFar
  <2> QED BY <1>3, <2>3, <2>4, <2>5, <2>6 DEF FilesInv, JudgeInv
<1> QED BY <1>5, <1>6

\* What holds of a run that is under way, field by field.
LEMMA UnderWay ==
  ASSUME JudgeInv, eval.at \in {"begin", "rollout", "write"}
  PROVE  /\ eval # NoEval /\ DOMAIN eval = EvalFields
         /\ eval.input \in Inputs /\ eval.input # << >> /\ eval.size \in Nat /\ eval.size # 0 /\ eval.floor \in 0..100
         /\ Len(eval.input) \in Nat /\ Len(eval.rollouts) \in 0..Len(eval.input)
         /\ eval.rollouts = [k \in 1..Len(eval.rollouts) |-> RolledOut(eval.input, eval.size, k)]
         /\ \A k \in 1..Len(eval.rollouts) : CanBeRolled(eval.input, eval.size, k)
<1>1. eval # NoEval
  BY DEF NoEval
<1> QED BY <1>1, InputLen DEF JudgeInv, EvalTypes, RolloutsSoFar, EvalFields

\* A step within an episode.
LEMMA SameRollouts ==
  ASSUME JudgeInv, eval.at \in {"begin", "rollout", "write"}, eval' # NoEval, DOMAIN eval' = EvalFields,
         eval'.at \in {"begin", "rollout", "write"}, eval'.input = eval.input, eval'.size = eval.size,
         eval'.floor = eval.floor, eval'.rollouts = eval.rollouts
  PROVE  EvalTypes' /\ RolloutsSoFar'
<1>1. EvalTypes'
  BY UnderWay DEF EvalTypes, EvalFields
<1>2. RolloutsSoFar'
  BY UnderWay DEF RolloutsSoFar
<1> QED BY <1>1, <1>2

LEMMA BeginKeeps == ASSUME JudgeInv, FilesInv, BeginEpisode PROVE JudgeInv' /\ FilesInv'
<1>1. /\ eval.at = "begin" /\ Len(eval.rollouts) < Len(eval.input) /\ ~EpisodeRefused(Current, eval.size)
      /\ eval' = [eval EXCEPT !.at = "rollout", !.cursor = 0, !.predicted = << >>,
                              !.history = [h \in 1..eval.size |-> Current.targets[1]]]
      /\ outDir' = outDir /\ evals' = evals
  BY DEF BeginEpisode, Begun
<1>2. eval # NoEval /\ DOMAIN eval = EvalFields /\ eval.input \in Inputs /\ eval.size \in Nat
      /\ Len(eval.input) \in Nat /\ Len(eval.rollouts) \in 0..Len(eval.input)
  BY <1>1, UnderWay
<1>3. /\ DOMAIN eval' = EvalFields /\ eval'.at = "rollout" /\ eval'.run = eval.run /\ eval'.input = eval.input
      /\ eval'.size = eval.size /\ eval'.floor = eval.floor /\ eval'.cursor = 0 /\ eval'.predicted = << >>
      /\ eval'.rollouts = eval.rollouts /\ eval'.file = eval.file /\ eval'.whole = eval.whole /\ eval' # NoEval
  BY <1>1, <1>2 DEF EvalFields, NoEval
<1>4. EvalTypes' /\ RolloutsSoFar'
  BY <1>1, <1>3, SameRollouts
<1> DEFINE k == Len(eval.rollouts) + 1
           e == eval.input[k]
           recorded == Recorded(eval.input, e.id)
<1>5. k \in 1..Len(eval.input)
  BY <1>1, <1>2
<1>6. recorded \in Seq(Int) /\ e.targets \in Seq(Int)
  <2>1. eval.input \in Seq([id : Int, targets : Seq(Int), actions : Seq(Int), predictions : Seq(Int)])
        /\ recorded \in Seq(Int)
    BY <1>2, <1>5, RecordedIsOfTheId
  <2>2. e \in [id : Int, targets : Seq(Int), actions : Seq(Int), predictions : Seq(Int)]
    BY <1>5, <2>1, ElementOf
  <2> QED BY <2>1, <2>2
<1>7. ~EpisodeRefused(e, eval.size) /\ ~(Len(e.targets) <= eval.size)
  BY <1>1 DEF Current, EpisodeRefused
<1>8. RollingOut'
  <2>1. 0 \in 0..(Len(e.targets) - eval.size)
    <3> DEFINE t == e.targets
    <3>1. Len(t) \in Nat
      BY <1>6
    <3> HIDE DEF t
    <3>2. 0 \in 0..(Len(t) - eval.size)
      BY <1>2, <1>7, <3>1 DEF t
    <3> QED BY <3>2 DEF t
  <2>2. 0 <= Len(recorded) /\ SubSeq(recorded, 1, 0) = << >>
    <3> HIDE DEF recorded
    <3> QED BY <1>6
  <2>3. k <= Len(eval.input)
    BY <1>1, <1>2
  <2> QED BY <1>3, <1>7, <2>1, <2>2, <2>3 DEF RollingOut
<1>9. Decided'
  BY <1>3 DEF Decided
<1>10. FilesInv'
  BY <1>1, <1>2, <1>3, RollingIsFiled
<1> QED BY <1>4, <1>8, <1>9, <1>10 DEF JudgeInv

LEMMA PredictKeeps == ASSUME JudgeInv, FilesInv, PredictNext PROVE JudgeInv' /\ FilesInv'
<1> DEFINE k == Len(eval.rollouts) + 1
           e == eval.input[k]
           recorded == Recorded(eval.input, e.id)
           at == eval.cursor + 1
<1>1. /\ eval.at = "rollout" /\ Len(eval.predicted) < Len(e.targets) - eval.size
      /\ eval' = IF at > Len(recorded) THEN NoEval
                 ELSE [eval EXCEPT !.cursor = at, !.predicted = Append(@, recorded[at]),
                                   !.history = Shift(@, recorded[at])]
      /\ outDir' = outDir /\ evals' = evals
  BY DEF PredictNext, Current, RecordedFor, Recorded
<1>2. eval # NoEval /\ DOMAIN eval = EvalFields /\ eval.input \in Inputs /\ eval.size \in Nat
      /\ Len(eval.input) \in Nat /\ Len(eval.rollouts) \in 0..Len(eval.input)
  BY <1>1, UnderWay
<1>3. /\ k <= Len(eval.input) /\ ~EpisodeRefused(e, eval.size)
      /\ eval.cursor \in 0..(Len(e.targets) - eval.size) /\ eval.cursor <= Len(recorded)
      /\ eval.predicted = SubSeq(recorded, 1, eval.cursor)
  BY <1>1 DEF JudgeInv, RollingOut
<1>4. k \in 1..Len(eval.input)
  BY <1>2, <1>3
<1>5. recorded \in Seq(Int) /\ e.targets \in Seq(Int)
  <2>1. eval.input \in Seq([id : Int, targets : Seq(Int), actions : Seq(Int), predictions : Seq(Int)])
        /\ recorded \in Seq(Int)
    BY <1>2, <1>4, RecordedIsOfTheId
  <2>2. e \in [id : Int, targets : Seq(Int), actions : Seq(Int), predictions : Seq(Int)]
    BY <1>4, <2>1, ElementOf
  <2> QED BY <2>1, <2>2
<1>6. CASE at > Len(recorded)
  <2>1. eval' = NoEval
    BY <1>1, <1>6
  <2> QED BY <1>1, <2>1, NoEvalIsJudged, NoEvalIsFiled
<1>7. CASE ~(at > Len(recorded))
  <2>1. eval' = [eval EXCEPT !.cursor = at, !.predicted = Append(@, recorded[at]), !.history = Shift(@, recorded[at])]
    BY <1>1, <1>7
  <2> HIDE DEF recorded
  <2>2. /\ DOMAIN eval' = EvalFields /\ eval'.at = "rollout" /\ eval'.run = eval.run /\ eval'.input = eval.input
        /\ eval'.size = eval.size /\ eval'.floor = eval.floor /\ eval'.cursor = at
        /\ eval'.predicted = Append(eval.predicted, recorded[at])
        /\ eval'.rollouts = eval.rollouts /\ eval'.file = eval.file /\ eval'.whole = eval.whole /\ eval' # NoEval
    <3> HIDE DEF at
    <3> QED BY <1>1, <1>2, <2>1 DEF EvalFields, NoEval
  <2>3. EvalTypes' /\ RolloutsSoFar'
    BY <1>1, <2>2, SameRollouts
  <2> DEFINE steps == Len(e.targets) - eval.size
             c == eval.cursor
  <2>4. Len(recorded) \in Nat /\ steps \in Int /\ c \in 0..steps /\ c <= Len(recorded) /\ c + 1 <= Len(recorded)
    <3>1. Len(recorded) \in Nat
      BY <1>5
    <3>2. steps \in Int
      <4> DEFINE t == e.targets
      <4>1. Len(t) \in Nat
        BY <1>5
      <4> HIDE DEF t
      <4>2. Len(t) - eval.size \in Int
        BY <1>2, <4>1
      <4> QED BY <4>2 DEF t
    <3>3. c \in 0..steps /\ c <= Len(recorded)
      BY <1>3
    <3> HIDE DEF steps
    <3>4. c \in Int
      BY <3>2, <3>3
    <3> QED BY <1>7, <3>1, <3>2, <3>3, <3>4
  <2>5. Len(eval.predicted) = c
    <3> HIDE DEF c, steps
    <3>1. eval.predicted = SubSeq(recorded, 1, c) /\ c \in Nat /\ c <= Len(recorded)
      BY <1>3, <2>4 DEF c
    <3> QED BY <1>5, <3>1
  <2>6. c + 1 \in 0..steps
    BY <1>1, <2>4, <2>5
  <2>7. Append(SubSeq(recorded, 1, c), recorded[c + 1]) = SubSeq(recorded, 1, c + 1)
    <3> HIDE DEF c, steps
    <3>1. c \in Nat
      BY <2>4
    <3> QED BY <1>5, <2>4, <3>1
  <2>8. RollingOut'
    <3>1. eval'.predicted = SubSeq(recorded, 1, at) /\ at \in 0..steps /\ at <= Len(recorded)
      BY <1>3, <2>2, <2>4, <2>6, <2>7
    <3> HIDE DEF at
    <3> QED BY <1>3, <2>2, <3>1 DEF RollingOut, recorded
  <2>9. Decided'
    BY <2>2 DEF Decided
  <2>10. FilesInv'
    BY <1>1, <1>2, <2>2, RollingIsFiled
  <2> QED BY <2>3, <2>8, <2>9, <2>10 DEF JudgeInv
<1> QED BY <1>6, <1>7

LEMMA EndKeeps == ASSUME JudgeInv, FilesInv, EndEpisode PROVE JudgeInv' /\ FilesInv'
<1> DEFINE n == Len(eval.rollouts)
           k == n + 1
           e == eval.input[k]
           recorded == Recorded(eval.input, e.id)
           targets == TargetsOf(e, eval.size)
           rho == Spearman(eval.predicted, targets)
           rollout == [predicted |-> eval.predicted, targets |-> targets, spearman |-> Percents(rho)]
<1>1. /\ eval.at = "rollout" /\ Len(eval.predicted) = Len(e.targets) - eval.size
      /\ eval' = IF Len(targets) < 3 \/ rho.left * rho.right = 0 THEN NoEval
                 ELSE [eval EXCEPT !.at = "begin", !.rollouts = Append(@, rollout)]
      /\ outDir' = outDir /\ evals' = evals
  BY DEF EndEpisode, Current
<1>2. eval # NoEval /\ DOMAIN eval = EvalFields /\ eval.input \in Inputs /\ eval.size \in Nat
      /\ Len(eval.input) \in Nat /\ n \in 0..Len(eval.input)
      /\ eval.rollouts = [j \in 1..n |-> RolledOut(eval.input, eval.size, j)]
      /\ \A j \in 1..n : CanBeRolled(eval.input, eval.size, j)
  BY <1>1, UnderWay
<1>3. /\ k <= Len(eval.input) /\ ~EpisodeRefused(e, eval.size)
      /\ eval.cursor \in 0..(Len(e.targets) - eval.size) /\ eval.cursor <= Len(recorded)
      /\ eval.predicted = SubSeq(recorded, 1, eval.cursor)
  BY <1>1 DEF JudgeInv, RollingOut
<1>4. k \in 1..Len(eval.input)
  BY <1>2, <1>3
<1>5. recorded \in Seq(Int) /\ e.targets \in Seq(Int)
  <2>1. eval.input \in Seq([id : Int, targets : Seq(Int), actions : Seq(Int), predictions : Seq(Int)])
        /\ recorded \in Seq(Int)
    BY <1>2, <1>4, RecordedIsOfTheId
  <2>2. e \in [id : Int, targets : Seq(Int), actions : Seq(Int), predictions : Seq(Int)]
    BY <1>4, <2>1, ElementOf
  <2> QED BY <2>1, <2>2
<1>6. CASE Len(targets) < 3 \/ rho.left * rho.right = 0
  <2>1. eval' = NoEval
    BY <1>1, <1>6
  <2> QED BY <1>1, <2>1, NoEvalIsJudged, NoEvalIsFiled
<1>7. CASE ~(Len(targets) < 3 \/ rho.left * rho.right = 0)
  <2>1. eval' = [eval EXCEPT !.at = "begin", !.rollouts = Append(@, rollout)]
    BY <1>1, <1>7
  <2>2. eval.cursor = Len(e.targets) - eval.size
    <3> DEFINE t == e.targets
               c == eval.cursor
    <3>1. Len(t) \in Nat /\ c \in 0..(Len(t) - eval.size) /\ c <= Len(recorded)
          /\ eval.predicted = SubSeq(recorded, 1, c)
      BY <1>3, <1>5
    <3> HIDE DEF t, c, recorded
    <3>2. c \in Nat
      BY <1>2, <3>1
    <3>3. Len(eval.predicted) = c
      BY <1>5, <3>1, <3>2
    <3> QED BY <1>1, <3>3 DEF t, c
  <2>3. rollout = RolledOut(eval.input, eval.size, k)
    BY <1>3, <2>2 DEF RolledOut
  <2>4. CanBeRolled(eval.input, eval.size, k)
    <3>1. rollout.predicted = eval.predicted /\ rollout.targets = targets
      OBVIOUS
    <3>2. Len(targets) \in Int
      <4> DEFINE t == e.targets
      <4>1. t \in Seq(Int) /\ ~(Len(t) <= eval.size)
        BY <1>3, <1>5 DEF EpisodeRefused
      <4> HIDE DEF t
      <4>2. Len(SubSeq(t, eval.size + 1, Len(t))) \in Int
        BY <1>2, <4>1
      <4> QED BY <4>2 DEF TargetsOf, t
    <3> HIDE DEF targets
    <3>3. Len(targets) >= 3 /\ rho.left * rho.right # 0
      BY <1>7, <3>2
    <3>4. Len(e.targets) - eval.size <= Len(recorded)
      BY <1>3, <2>2
    <3> HIDE DEF rollout, rho
    <3>5. rho = Spearman(rollout.predicted, rollout.targets)
      BY <3>1 DEF rho
    <3> QED BY <1>3, <2>3, <3>1, <3>3, <3>4, <3>5 DEF CanBeRolled
  <2> HIDE DEF rollout
  <2>5. /\ DOMAIN eval' = EvalFields /\ eval'.at = "begin" /\ eval'.run = eval.run /\ eval'.input = eval.input
        /\ eval'.size = eval.size /\ eval'.floor = eval.floor /\ eval'.rollouts = Append(eval.rollouts, rollout)
        /\ eval'.file = eval.file /\ eval'.whole = eval.whole /\ eval' # NoEval
    BY <1>2, <2>1 DEF EvalFields, NoEval
  <2>6. EvalTypes'
    BY <1>1, <2>5, UnderWay DEF EvalTypes, EvalFields
  <2>7. RolloutsSoFar'
    <3> DEFINE R == [j \in 1..k |-> RolledOut(eval.input, eval.size, j)]
    <3>1. Append(eval.rollouts, rollout) = R /\ Len(R) = k
      <4> DEFINE Q == {RolledOut(eval.input, eval.size, j) : j \in 1..k}
                 s == eval.rollouts
                 F(j) == RolledOut(eval.input, eval.size, j)
      <4>1. n \in Nat /\ k = n + 1
        BY <1>2
      <4>2. s = [j \in 1..n |-> F(j)] /\ rollout = F(k) /\ R = [j \in 1..k |-> F(j)]
            /\ \A j \in 1..k : F(j) \in Q
        BY <1>2, <2>3
      <4> HIDE DEF s, F, R, Q, k
      <4>3. s \in [1..n -> Q] /\ rollout \in Q
        BY <4>1, <4>2
      <4>4. s \in Seq(Q) /\ Len(s) = n
        BY <4>1, <4>3
      <4>5. R \in Seq(Q) /\ Len(R) = k
        BY <4>1, <4>2
      <4>6. Append(s, rollout) \in Seq(Q) /\ Len(Append(s, rollout)) = k
        BY <4>1, <4>3, <4>4
      <4>7. \A j \in 1..k : Append(s, rollout)[j] = R[j]
        BY <4>1, <4>2, <4>4
      <4>8. Append(s, rollout) = R
        BY <4>1, <4>5, <4>6, <4>7
      <4> QED BY <4>5, <4>8 DEF s
    <3>2. Len(eval'.rollouts) = k /\ eval'.rollouts = [j \in 1..k |-> RolledOut(eval'.input, eval'.size, j)]
      BY <2>5, <3>1
    <3>3. k \in 0..Len(eval.input) /\ \A j \in 1..k : j \in 1..n \/ j = k
      BY <1>2, <1>4
    <3> HIDE DEF k, n
    <3>4. \A j \in 1..k : CanBeRolled(eval.input, eval.size, j)
      BY <1>2, <2>4, <3>3
    <3> QED BY <2>5, <3>2, <3>3, <3>4 DEF RolloutsSoFar
  <2>8. RollingOut' /\ Decided'
    BY <2>5 DEF RollingOut, Decided
  <2>9. FilesInv'
    BY <1>1, <1>2, <2>5, RollingIsFiled
  <2> QED BY <2>6, <2>7, <2>8, <2>9 DEF JudgeInv
<1> QED BY <1>6, <1>7

LEMMA DecideKeeps == ASSUME JudgeInv, FilesInv, DecideOutcome PROVE JudgeInv' /\ FilesInv'
<1> DEFINE rollouts == eval.rollouts
           outcome == Outcome(MeanOf(rollouts), eval.floor)
<1>1. /\ eval.at = "begin" /\ Len(rollouts) = Len(eval.input)
      /\ eval' = [eval EXCEPT !.at = "write", !.outcome = outcome]
      /\ outDir' = outDir /\ evals' = evals
  BY DEF DecideOutcome, MeanOf
<1> HIDE DEF outcome
<1>2. eval # NoEval /\ DOMAIN eval = EvalFields
  BY <1>1, UnderWay
<1>3. /\ DOMAIN eval' = EvalFields /\ eval'.at = "write" /\ eval'.run = eval.run /\ eval'.input = eval.input
      /\ eval'.size = eval.size /\ eval'.floor = eval.floor /\ eval'.rollouts = rollouts /\ eval'.outcome = outcome
      /\ eval'.file = eval.file /\ eval'.whole = eval.whole /\ eval' # NoEval
  BY <1>1, <1>2 DEF EvalFields, NoEval
<1>4. EvalTypes' /\ RolloutsSoFar'
  BY <1>1, <1>3, SameRollouts
<1>5. RollingOut' /\ Decided'
  BY <1>1, <1>3 DEF RollingOut, Decided, outcome
<1>6. eval'.run = evals /\ eval'.file = 1 /\ eval'.whole \in BOOLEAN
  BY <1>1, <1>2, <1>3 DEF FilesInv, FilesSoFar
<1>7. FilesSoFar'
  BY <1>1, <1>6 DEF FilesInv, FilesSoFar
<1>8. TracesComeLast'
  BY <1>1 DEF FilesInv, TracesComeLast, OutputFiles
<1> QED BY <1>4, <1>5, <1>7, <1>8 DEF FilesInv, JudgeInv

\* The order of the files, pair by pair.
InRunOrder(dir) ==
  /\ dir["results"].run > 0 => dir["report"].run <= dir["results"].run /\ dir["traces"].run <= dir["results"].run
  /\ dir["report"].run > 0 => dir["traces"].run <= dir["report"].run

LEMMA PairsOfFiles ==
  ASSUME NEW dir
  PROVE  (\A i, j \in DOMAIN OutputFiles :
            LET before == dir[<<"results", "report", "traces">>[i]]
                after == dir[<<"results", "report", "traces">>[j]]
            IN  i < j /\ before.run > 0 => after.run <= before.run) <=> InRunOrder(dir)
<1> DEFINE names == <<"results", "report", "traces">>
           inOrder(i, j) == dir[names[i]].run > 0 => dir[names[j]].run <= dir[names[i]].run
<1>1. (\A i, j \in DOMAIN OutputFiles :
         LET before == dir[<<"results", "report", "traces">>[i]]
             after == dir[<<"results", "report", "traces">>[j]]
         IN  i < j /\ before.run > 0 => after.run <= before.run) <=> \A i, j \in 1..3 : i < j => inOrder(i, j)
  BY DEF OutputFiles
<1>2. names[1] = "results" /\ names[2] = "report" /\ names[3] = "traces"
  OBVIOUS
<1>3. (\A i, j \in 1..3 : i < j => inOrder(i, j)) <=> inOrder(1, 2) /\ inOrder(1, 3) /\ inOrder(2, 3)
  <2> HIDE DEF inOrder
  <2> QED OBVIOUS
<1> HIDE DEF names
<1> QED BY <1>1, <1>2, <1>3 DEF InRunOrder

LEMMA TracesAfter == (TracesComeLast <=> InRunOrder(outDir)) /\ (TracesComeLast' <=> InRunOrder(outDir'))
BY PairsOfFiles DEF TracesComeLast, OutputFiles

LEMMA WriteKeeps == ASSUME JudgeInv, FilesInv, WriteOutput PROVE JudgeInv' /\ FilesInv'
<1> DEFINE name == OutputFiles[eval.file]
           mine == [run |-> eval.run, outcome |-> eval.outcome]
<1>1. /\ eval.at = "write" /\ evals' = evals
      /\ IF eval.whole
         THEN outDir' = [outDir EXCEPT ![name] = TornOutput] /\ eval' = [eval EXCEPT !.whole = FALSE]
         ELSE /\ outDir' = [outDir EXCEPT ![name] = mine]
              /\ eval' = IF eval.file = 3 THEN NoEval ELSE [eval EXCEPT !.whole = TRUE, !.file = @ + 1]
  BY DEF WriteOutput, OutputFiles
<1>2. eval # NoEval /\ DOMAIN eval = EvalFields
  BY <1>1, UnderWay
<1>3. /\ evals \in Nat /\ DOMAIN outDir = {"results", "report", "traces"}
      /\ \A f \in DOMAIN outDir : outDir[f].run \in 0..evals
      /\ eval.run = evals /\ eval.file \in 1..3
      /\ eval.file >= 2 => outDir["results"].run = evals
      /\ eval.file = 3 => outDir["report"].run \in {0, evals}
  BY <1>1, <1>2 DEF FilesInv, FilesSoFar
<1>4. name = IF eval.file = 1 THEN "results" ELSE IF eval.file = 2 THEN "report" ELSE "traces"
  BY <1>3 DEF OutputFiles
<1> HIDE DEF name
<1>5. /\ outDir["results"].run > 0 => outDir["report"].run <= outDir["results"].run
                                      /\ outDir["traces"].run <= outDir["results"].run
      /\ outDir["report"].run > 0 => outDir["traces"].run <= outDir["report"].run
  BY TracesAfter DEF FilesInv, InRunOrder
<1>6. eval' # NoEval =>
        /\ DOMAIN eval' = EvalFields /\ eval'.at = "write" /\ eval'.run = eval.run /\ eval'.input = eval.input
        /\ eval'.size = eval.size /\ eval'.floor = eval.floor /\ eval'.rollouts = eval.rollouts
        /\ eval'.outcome = eval.outcome /\ eval'.whole \in BOOLEAN
  BY <1>1, <1>2 DEF EvalFields
<1>7. JudgeInv'
  <2>1. CASE eval' = NoEval
    BY <2>1, NoEvalIsJudged
  <2>2. CASE eval' # NoEval
    <3>1. EvalTypes' /\ RolloutsSoFar'
      BY <1>1, <1>6, <2>2, SameRollouts
    <3>2. RollingOut' /\ Decided'
      BY <1>1, <1>6, <2>2 DEF RollingOut, Decided, JudgeInv
    <3> QED BY <3>1, <3>2 DEF JudgeInv
  <2> QED BY <2>1, <2>2
<1>8. CASE eval.whole
  <2>1. /\ outDir' = [outDir EXCEPT ![name] = TornOutput] /\ TornOutput.run = 0
        /\ eval' = [eval EXCEPT !.whole = FALSE]
    BY <1>1, <1>8 DEF TornOutput
  <2>2. eval'.file = eval.file /\ eval'.at = "write" /\ eval'.run = eval.run
    BY <1>1, <1>2, <2>1 DEF EvalFields
  <2>3. eval' # NoEval /\ eval'.whole \in BOOLEAN
    BY <1>6, <2>2 DEF NoEval
  <2> HIDE DEF TornOutput
  <2>4. \A f \in DOMAIN outDir : outDir'[f] = IF f = name THEN TornOutput ELSE outDir[f]
    BY <2>1
  <2>5. DOMAIN outDir' = DOMAIN outDir /\ \A f \in DOMAIN outDir : outDir'[f].run = IF f = name THEN 0 ELSE outDir[f].run
    BY <2>1, <2>4
  <2>6. FilesSoFar'
    BY <1>1, <1>3, <1>4, <2>2, <2>3, <2>5 DEF FilesSoFar
  <2>7. TracesComeLast'
    <3>1. /\ outDir'["results"].run > 0 => outDir'["report"].run <= outDir'["results"].run
                                            /\ outDir'["traces"].run <= outDir'["results"].run
          /\ outDir'["report"].run > 0 => outDir'["traces"].run <= outDir'["report"].run
      BY <1>3, <1>4, <1>5, <2>5
    <3> QED BY <3>1, TracesAfter DEF InRunOrder
  <2> QED BY <1>7, <2>6, <2>7 DEF FilesInv
<1>9. CASE ~eval.whole
  <2>1. /\ outDir' = [outDir EXCEPT ![name] = mine] /\ mine.run = evals
        /\ eval' = IF eval.file = 3 THEN NoEval ELSE [eval EXCEPT !.whole = TRUE, !.file = @ + 1]
    BY <1>1, <1>3, <1>9
  <2> HIDE DEF mine
  <2>2. eval' # NoEval => eval.file # 3 /\ eval'.file = eval.file + 1 /\ eval'.at = "write" /\ eval'.run = evals
                          /\ eval'.whole \in BOOLEAN
    BY <1>2, <1>3, <1>6, <2>1 DEF EvalFields
  <2>3. \A f \in DOMAIN outDir : outDir'[f] = IF f = name THEN mine ELSE outDir[f]
    BY <2>1
  <2>4. DOMAIN outDir' = DOMAIN outDir
        /\ \A f \in DOMAIN outDir : outDir'[f].run = IF f = name THEN evals ELSE outDir[f].run
    BY <2>1, <2>3
  <2>5. /\ outDir'["results"].run = IF eval.file = 1 THEN evals ELSE outDir["results"].run
        /\ outDir'["report"].run = IF eval.file = 2 THEN evals ELSE outDir["report"].run
        /\ outDir'["traces"].run = IF eval.file = 3 THEN evals ELSE outDir["traces"].run
    BY <1>3, <1>4, <2>4
  <2>6. FilesSoFar'
    <3>1. \A f \in DOMAIN outDir' : outDir'[f].run \in 0..evals
      BY <1>3, <2>4
    <3>2. CASE eval' = NoEval
      BY <1>1, <1>3, <2>4, <3>1, <3>2 DEF FilesSoFar, NoEval
    <3>3. CASE eval' # NoEval
      <4>1. eval'.file \in 1..3 /\ (eval'.file >= 2 => outDir'["results"].run = evals)
            /\ (eval'.file = 3 => outDir'["report"].run \in {0, evals})
        BY <1>3, <2>2, <2>5, <3>3
      <4> QED BY <1>1, <1>3, <2>2, <2>4, <3>1, <3>3, <4>1 DEF FilesSoFar
    <3> QED BY <3>2, <3>3
  <2>7. TracesComeLast'
    <3>1. /\ outDir["results"].run \in 0..evals /\ outDir["report"].run \in 0..evals /\ outDir["traces"].run \in 0..evals
      BY <1>3
    <3>2. /\ outDir'["results"].run > 0 => outDir'["report"].run <= outDir'["results"].run
                                            /\ outDir'["traces"].run <= outDir'["results"].run
          /\ outDir'["report"].run > 0 => outDir'["traces"].run <= outDir'["report"].run
      BY <1>3, <1>5, <2>5, <3>1
    <3> QED BY <3>2, TracesAfter DEF InRunOrder
  <2> QED BY <1>7, <2>6, <2>7 DEF FilesInv
<1> QED BY <1>8, <1>9

LEMMA RenderKeeps == ASSUME JudgeInv, FilesInv, RenderReport PROVE JudgeInv' /\ FilesInv'
<1>1. /\ outDir["results"].run > 0 /\ eval' = eval /\ evals' = evals
      /\ \E report \in {outDir["results"], TornOutput} : outDir' = [outDir EXCEPT !["report"] = report]
  BY DEF RenderReport
<1>2. PICK report \in {outDir["results"], TornOutput} : outDir' = [outDir EXCEPT !["report"] = report]
  BY <1>1
<1>3. JudgeInv'
  BY <1>1 DEF JudgeInv, EvalTypes, RolloutsSoFar, RollingOut, Decided
<1>4. report.run \in {0, outDir["results"].run}
  BY DEF TornOutput
<1>5. /\ evals \in Nat /\ DOMAIN outDir = {"results", "report", "traces"}
      /\ \A f \in DOMAIN outDir : outDir[f].run \in 0..evals
      /\ eval # NoEval => eval.run = evals /\ eval.file \in 1..3 /\ eval.whole \in BOOLEAN
      /\ eval # NoEval /\ eval.at # "write" => eval.file = 1
      /\ eval.at = "write" /\ eval.file >= 2 => outDir["results"].run = evals
  BY DEF FilesInv, FilesSoFar
<1>6. /\ DOMAIN outDir' = DOMAIN outDir /\ outDir'["report"].run = report.run
      /\ outDir'["results"].run = outDir["results"].run /\ outDir'["traces"].run = outDir["traces"].run
  BY <1>2, <1>5
<1>7. FilesSoFar'
  <2>1. \A f \in DOMAIN outDir' : outDir'[f].run \in 0..evals
    BY <1>4, <1>5, <1>6
  <2>2. eval.at = "write" /\ eval.file = 3 => outDir'["report"].run \in {0, evals}
    BY <1>4, <1>5, <1>6
  <2> QED BY <1>1, <1>5, <1>6, <2>1, <2>2 DEF FilesSoFar
<1>8. TracesComeLast'
  <2>1. /\ outDir["results"].run > 0 => outDir["report"].run <= outDir["results"].run
                                        /\ outDir["traces"].run <= outDir["results"].run
        /\ outDir["results"].run \in Nat /\ outDir["traces"].run \in Nat
    BY <1>5, TracesAfter DEF FilesInv, InRunOrder
  <2>2. /\ outDir'["results"].run > 0 => outDir'["report"].run <= outDir'["results"].run
                                          /\ outDir'["traces"].run <= outDir'["results"].run
        /\ outDir'["report"].run > 0 => outDir'["traces"].run <= outDir'["report"].run
    BY <1>1, <1>4, <1>6, <2>1
  <2> QED BY <2>2, TracesAfter DEF InRunOrder
<1> QED BY <1>3, <1>7, <1>8 DEF FilesInv

(* Whatever the episodes, the predictions recorded for them, the history size and
   the floor: with an id of its own an episode is scored by its own predictions;
   ranks are the averages of their runs; predictions that are the targets pass at
   any floor; and however runs are killed, no file of a run lies after one of an
   earlier run (so100_eval.rs, and lewm-eval's output files). *)
THEOREM RolloutsStayJudged == PlanningSpec => []RolloutsAreJudged
<1>1. PlanningInit => JudgeInv /\ FilesInv
  <2> SUFFICES ASSUME PlanningInit PROVE JudgeInv /\ FilesInv
    OBVIOUS
  <2>1. eval = NoEval /\ evals = 0 /\ outDir = [name \in Range(OutputFiles) |-> [run |-> 0, outcome |-> "missing"]]
    BY DEF PlanningInit
  <2>2. Range(OutputFiles) = {"results", "report", "traces"}
    BY DEF Range, OutputFiles
  <2>3. DOMAIN outDir = {"results", "report", "traces"} /\ \A name \in DOMAIN outDir : outDir[name].run = 0
    BY <2>1, <2>2
  <2>4. JudgeInv
    BY <2>1 DEF JudgeInv, EvalTypes, RolloutsSoFar, RollingOut, Decided, NoEval
  <2>5. FilesSoFar
    BY <2>1, <2>3 DEF FilesSoFar, NoEval
  <2>6. TracesComeLast
    BY <2>3, TracesAfter DEF InRunOrder
  <2> QED BY <2>4, <2>5, <2>6 DEF FilesInv
<1>2. JudgeInv /\ FilesInv /\ [PlanningNext]_planningVars => JudgeInv' /\ FilesInv'
  <2> SUFFICES ASSUME JudgeInv, FilesInv, [PlanningNext]_planningVars PROVE JudgeInv' /\ FilesInv'
    OBVIOUS
  <2>1. CASE EvalNext
    <3>1. CASE FailEval
      BY <3>1, NoEvalIsJudged, NoEvalIsFiled DEF FailEval
    <3>2. CASE ~FailEval
      BY <2>1, <3>2, StartKeeps, BeginKeeps, PredictKeeps, EndKeeps, DecideKeeps, WriteKeeps, RenderKeeps
         DEF EvalNext, RefuseEpisode, DieEvaluating
    <3> QED BY <3>1, <3>2
  <2>2. CASE ~EvalNext
    <3>1. eval' = eval /\ outDir' = outDir /\ evals' = evals
      BY <2>2 DEF PlanningNext, PlanNext, AskForPlan, CemIterate, CpuIterate, planningVars
    <3>2. JudgeInv'
      BY <3>1 DEF JudgeInv, EvalTypes, RolloutsSoFar, RollingOut, Decided
    <3>3. FilesInv'
      BY <3>1 DEF FilesInv, FilesSoFar, TracesComeLast
    <3> QED BY <3>2, <3>3
  <2> QED BY <2>1, <2>2
<1>3. JudgeInv /\ FilesInv => RolloutsAreJudged
  BY EvalInvSuffices DEF JudgeInv, FilesInv, EvalInv
<1> QED BY <1>1, <1>2, <1>3, PTL DEF PlanningSpec

-----------------------------------------------------------------------------
(* The planners.                                                            *)

\* Some value is the greatest, and some the least.
LEMMA Extremes ==
  ASSUME NEW n \in Nat \ {0}, NEW v \in [1..n -> Int]
  PROVE  \E l, m \in 1..n : \A i \in 1..n : v[l] <= v[i] /\ v[i] <= v[m]
<1> DEFINE Bounded(k) == \E l, m \in 1..k : \A i \in 1..k : v[l] <= v[i] /\ v[i] <= v[m]
           S == {k \in 0..n : k = 0 \/ Bounded(k)}
<1>1. 0 \in S
  OBVIOUS
<1>2. ASSUME NEW k \in 1..n, k - 1 \in S PROVE k \in S
  <2>1. CASE k = 1
    <3>1. 1 \in 1..k /\ \A i \in 1..k : v[1] <= v[i] /\ v[i] <= v[1]
      BY <2>1
    <3>2. k \in 0..n /\ Bounded(k)
      BY <2>1, <3>1
    <3> HIDE DEF Bounded
    <3> QED BY <3>2
  <2>2. CASE k # 1
    <3>1. PICK l \in 1..(k - 1), m \in 1..(k - 1) : \A i \in 1..(k - 1) : v[l] <= v[i] /\ v[i] <= v[m]
      BY <1>2, <2>2
    <3>2. l \in 1..k /\ m \in 1..k /\ k \in 1..k /\ \A i \in 1..k : i = k \/ i \in 1..(k - 1)
      OBVIOUS
    <3>3. v[l] \in Int /\ v[m] \in Int /\ v[k] \in Int /\ \A i \in 1..k : v[i] \in Int
      OBVIOUS
    <3>4. PICK a \in 1..k : \A i \in 1..k : v[a] <= v[i]
      <4>1. CASE v[l] <= v[k]
        BY <3>1, <3>2, <4>1
      <4>2. CASE ~(v[l] <= v[k])
        <5>1. \A i \in 1..k : v[k] <= v[i]
          BY <3>1, <3>2, <3>3, <4>2
        <5> QED BY <3>2, <5>1
      <4> QED BY <4>1, <4>2
    <3>5. PICK b \in 1..k : \A i \in 1..k : v[i] <= v[b]
      <4>1. CASE v[k] <= v[m]
        BY <3>1, <3>2, <4>1
      <4>2. CASE ~(v[k] <= v[m])
        <5>1. \A i \in 1..k : v[i] <= v[k]
          BY <3>1, <3>2, <3>3, <4>2
        <5> QED BY <3>2, <5>1
      <4> QED BY <4>1, <4>2
    <3>6. \E x, y \in 1..k : \A i \in 1..k : v[x] <= v[i] /\ v[i] <= v[y]
      BY <3>4, <3>5
    <3>7. k \in 0..n
      OBVIOUS
    <3>8. Bounded(k)
      BY <3>6, Zenon
    <3> HIDE DEF Bounded
    <3> QED BY <3>7, <3>8
  <2> QED BY <2>1, <2>2
<1>3. n \in S
  <2>1. n \in 0..n
    OBVIOUS
  <2> HIDE DEF S
  <2> QED BY <1>1, <1>2, <2>1, Induction
<1>4. Bounded(n)
  <2> HIDE DEF Bounded
  <2> QED BY <1>3
<1> QED BY <1>4

\* The sum of some values lies between as often the least and as often the greatest.
LEMMA SumOfSome ==
  ASSUME NEW n \in Nat \ {0}, NEW v \in [1..n -> Int]
  PROVE  LET values == {v[i] : i \in 1..n}
         IN  n * Min(values) <= SumOf(v) /\ SumOf(v) <= n * Max(values)
<1> DEFINE values == {v[i] : i \in 1..n}
<1>1. PICK l \in 1..n, m \in 1..n : \A i \in 1..n : v[l] <= v[i] /\ v[i] <= v[m]
  BY Extremes
<1>2. v[l] \in values /\ v[m] \in values /\ \A x \in values : v[l] <= x /\ x <= v[m] /\ x \in Int
  BY <1>1
<1>3. \A i \in 1..n : v[i] \in values
  OBVIOUS
<1> HIDE DEF values
<1>4. Min(values) \in values /\ \A x \in values : Min(values) <= x
  BY <1>2 DEF Min
<1>5. Max(values) \in values /\ \A x \in values : Max(values) >= x
  BY <1>2 DEF Max
<1>6. Min(values) \in Int /\ Max(values) \in Int /\ \A i \in 1..n : Min(values) <= v[i] /\ v[i] <= Max(values)
  BY <1>2, <1>3, <1>4, <1>5
<1>7. n * Min(values) <= SumOf(v) /\ SumOf(v) <= n * Max(values)
  BY <1>6, SumBetween
<1> QED BY <1>7 DEF values

LEMMA SpreadStays ==
  ASSUME NEW sum \in Int, NEW square \in Int, NEW n \in Nat, NEW floor \in Int
  PROVE  LET s == Spread(sum, square, n, floor) IN s.num >= floor * floor * s.den
<1> DEFINE num == n * square - sum * sum
<1>1. num \in Int /\ floor * floor \in Int /\ floor * floor * n * n \in Int
      /\ floor * floor * n * n = floor * floor * (n * n)
  OBVIOUS
<1>2. CASE num < floor * floor * n * n
  <2>1. Spread(sum, square, n, floor) = [num |-> floor * floor, den |-> 1]
    BY <1>2 DEF Spread
  <2>2. floor * floor >= floor * floor * 1
    BY <1>1
  <2> QED BY <2>1, <2>2
<1>3. CASE ~(num < floor * floor * n * n)
  <2>1. Spread(sum, square, n, floor) = [num |-> num, den |-> n * n]
    BY <1>3 DEF Spread
  <2> HIDE DEF num
  <2>2. num >= floor * floor * (n * n)
    BY <1>1, <1>3
  <2> QED BY <2>1, <2>2
<1> QED BY <1>2, <1>3

\* The candidates of one sample.
SamplesOf(c) == [1..c.n_cand -> [1..c.horizon -> SampledActions]]

\* At one step of the sequence, a proposal q that the elites give is alive.
AliveAt(q, c, candidates, elites, step) ==
  LET chosen == {candidates[elites[e]][step] : e \in DOMAIN elites}
  IN  /\ q.spread.num >= c.sigma_min * c.sigma_min * q.spread.den
      /\ q.n * Min(chosen) <= q.sum /\ q.sum <= q.n * Max(chosen)

LEMMA ProposalIsAlive ==
  ASSUME NEW c, c.n_cand \in Nat, c.horizon \in Nat, c.sigma_min \in Int,
         NEW n \in Nat \ {0}, NEW p, p.config = c, NEW candidates \in SamplesOf(c),
         NEW elites \in [1..n -> 1..c.n_cand], NEW step \in 1..c.horizon
  PROVE  AliveAt(UpdateProposal(p, candidates, elites)[step], c, candidates, elites, step)
<1> DEFINE taken == [e \in 1..n |-> candidates[elites[e]][step]]
           squares == [e \in 1..n |-> taken[e] * taken[e]]
           chosen == {candidates[elites[e]][step] : e \in DOMAIN elites}
           q == UpdateProposal(p, candidates, elites)[step]
<1>1. Len(elites) = n /\ DOMAIN elites = 1..n
  OBVIOUS
<1>2. q = [sum |-> SumOf(taken), n |-> n, spread |-> Spread(SumOf(taken), SumOf(squares), n, c.sigma_min)]
  BY <1>1 DEF UpdateProposal
<1>3. taken \in [1..n -> Int]
  <2>1. ASSUME NEW e \in 1..n PROVE taken[e] \in Int
    <3>1. elites[e] \in 1..c.n_cand
      OBVIOUS
    <3>2. candidates[elites[e]] \in [1..c.horizon -> SampledActions]
      BY <3>1 DEF SamplesOf
    <3>3. candidates[elites[e]][step] \in SampledActions
      BY <3>2
    <3> QED BY <3>3, PlanningAssumption
  <2> QED BY <2>1
<1>4. squares \in [1..n -> Int]
  <2>1. \A e \in 1..n : taken[e] \in Int
    BY <1>3
  <2> HIDE DEF taken
  <2>2. \A e \in 1..n : taken[e] * taken[e] \in Int
    BY <2>1
  <2> QED BY <2>2
<1>5. chosen = {taken[e] : e \in 1..n}
  BY <1>1
<1> HIDE DEF taken, squares, chosen, q
<1>6. SumOf(taken) \in Int /\ SumOf(squares) \in Int
  BY <1>3, <1>4, SumOfIntegers
<1>7. n * Min(chosen) <= SumOf(taken) /\ SumOf(taken) <= n * Max(chosen)
  BY <1>3, <1>5, SumOfSome
<1>8. LET s == Spread(SumOf(taken), SumOf(squares), n, c.sigma_min) IN s.num >= c.sigma_min * c.sigma_min * s.den
  BY <1>6, SpreadStays
<1>9. /\ q.spread = Spread(SumOf(taken), SumOf(squares), n, c.sigma_min) /\ q.n = n /\ q.sum = SumOf(taken)
  BY <1>2
<1>10. q.spread.num >= c.sigma_min * c.sigma_min * q.spread.den
  BY <1>8, <1>9
<1>11. q.n * Min(chosen) <= q.sum /\ q.sum <= q.n * Max(chosen)
  BY <1>7, <1>9
<1> QED BY <1>10, <1>11 DEF q, chosen, AliveAt

\* What is ranked first costs no more than any other.
LEMMA FirstIsCheapest ==
  ASSUME NEW n \in Nat \ {0}, NEW costs, DOMAIN costs = 1..n, \A i \in 1..n : costs[i][1] \in Int
  PROVE  /\ Ranked(costs) \in [1..n -> 1..n]
         /\ \A i \in 1..n : costs[Ranked(costs)[1]][1] <= costs[i][1]
<1> DEFINE values == [i \in 1..n |-> costs[i][1]]
           p == SortedIndexes(values)
<1>1. Ranked(costs) = p
  BY DEF Ranked
<1>2. values \in [1..n -> Int]
  OBVIOUS
<1>3. IsFiniteSet(1..n) /\ Cardinality(1..n) = n /\ 1..n \in SUBSET Nat
  <2>1. IsFiniteSet(1..n) /\ Cardinality(1..n) = IF 1 > n THEN 0 ELSE n - 1 + 1
    BY FS_Interval
  <2> QED BY <2>1
<1> HIDE DEF values
<1>4. InOrder(values, p, n, 1..n)
  <2>1. InOrder(values, SortedIndexes(values), Cardinality(1..n), 1..n)
    BY <1>2, <1>3, Sorted
  <2> QED BY <1>3, <2>1
<1> HIDE DEF p
<1>5. /\ p \in [1..n -> 1..n]
      /\ \A i \in 1..n : Place(values, i) \in 1..n /\ p[Place(values, i)] = i
      /\ \A k, l \in 1..n : k < l => Precedes(values, p[k], p[l])
  BY <1>4 DEF InOrder
<1>6. ASSUME NEW i \in 1..n PROVE values[p[1]] <= values[i]
  <2>1. PICK k \in 1..n : p[k] = i
    BY <1>5
  <2>2. p[1] \in 1..n /\ values[p[1]] \in Int /\ values[i] \in Int /\ 1 \in 1..n
    BY <1>2, <1>5
  <2>3. CASE k = 1
    BY <2>1, <2>2, <2>3
  <2>4. CASE k # 1
    <3>1. 1 < k
      BY <2>1, <2>4
    <3>2. Precedes(values, p[1], p[k])
      BY <1>5, <2>2, <3>1
    <3> QED BY <2>1, <2>2, <3>2 DEF Precedes
  <2> QED BY <2>3, <2>4
<1>7. p[1] \in 1..n
  BY <1>5
<1> QED BY <1>1, <1>5, <1>6, <1>7 DEF values

\* Where the k-th chunk of n values ends.
CutAt(n, size, k) == IF k * size < n THEN k * size ELSE n

\* m chunks are as many as n values fill.
Covers(n, size, m) == m \in Nat /\ m * size >= n /\ \A k \in 1..m : (k - 1) * size < n

ChunksOf(whole, n, size, m) == [k \in 1..m |-> SubSeq(whole, (k - 1) * size + 1, CutAt(n, size, k))]

LEMMA ChunksReachTheEnd ==
  ASSUME NEW n \in Nat \ {0}, NEW size \in Nat \ {0}
  PROVE  Covers(n, size, (n + size - 1) \div size)
<1> DEFINE a == n + size - 1
           m == a \div size
<1>1. a \in Nat
  OBVIOUS
<1>2. m \in Nat /\ m * size <= a /\ a < m * size + size
  <2> HIDE DEF a
  <2> QED BY <1>1
<1>3. m * size >= n
  <2> HIDE DEF m
  <2>1. m * size \in Int
    BY <1>2
  <2> QED BY <1>2, <2>1
<1>4. ASSUME NEW k \in 1..m PROVE (k - 1) * size < n
  <2> HIDE DEF m
  <2>1. k \in Int /\ k <= m
    BY <1>2
  <2>2. k * size <= m * size
    BY <1>2, <2>1
  <2>3. (k - 1) * size = k * size - size /\ k * size \in Int /\ m * size \in Int
    BY <1>2, <2>1
  <2> QED BY <1>2, <2>2, <2>3
<1> QED BY <1>2, <1>3, <1>4 DEF Covers

LEMMA CutsAdvance ==
  ASSUME NEW n \in Nat, NEW size \in Nat, NEW k \in Nat \ {0}, (k - 1) * size < n
  PROVE  /\ CutAt(n, size, k - 1) = (k - 1) * size /\ CutAt(n, size, k - 1) \in 0..n
         /\ CutAt(n, size, k) \in 0..n /\ CutAt(n, size, k - 1) <= CutAt(n, size, k)
<1> DEFINE b == (k - 1) * size
<1>1. k * size = b + size /\ b \in Nat
  OBVIOUS
<1> HIDE DEF b
<1>2. k * size \in Nat /\ b < n
  BY <1>1 DEF b
<1>3. CutAt(n, size, k - 1) = b
  BY DEF CutAt, b
<1> QED BY <1>1, <1>2, <1>3 DEF CutAt, b

LEMMA PartsOfAWhole ==
  ASSUME NEW X, NEW s \in Seq(X), NEW a \in Nat, NEW b \in Nat, a <= b, b <= Len(s)
  PROVE  SubSeq(s, 1, a) \o SubSeq(s, a + 1, b) = SubSeq(s, 1, b)
OBVIOUS

LEMMA ChunksJoin ==
  ASSUME NEW X, NEW n \in Nat \ {0}, NEW size \in Nat \ {0}, NEW m, Covers(n, size, m),
         NEW whole \in Seq(X), Len(whole) = n
  PROVE  FlattenSeq(ChunksOf(whole, n, size, m)) = whole
<1> USE DEF Covers
<1> DEFINE chunks == [k \in 1..m |-> SubSeq(whole, (k - 1) * size + 1, CutAt(n, size, k))]
<1>1. ASSUME NEW k \in 1..m
      PROVE  /\ CutAt(n, size, k - 1) = (k - 1) * size /\ CutAt(n, size, k - 1) \in 0..n
             /\ CutAt(n, size, k) \in 0..n /\ CutAt(n, size, k - 1) <= CutAt(n, size, k)
  <2>1. k \in Nat \ {0} /\ (k - 1) * size < n /\ n \in Nat /\ size \in Nat
    OBVIOUS
  <2> QED BY <2>1, CutsAdvance
<1>2. chunks \in [1..m -> Seq(X)]
  <2>1. ASSUME NEW k \in 1..m PROVE chunks[k] \in Seq(X)
    <3> DEFINE a == CutAt(n, size, k - 1)
               b == CutAt(n, size, k)
    <3>1. a \in 0..n /\ b \in 0..n /\ a = (k - 1) * size /\ chunks[k] = SubSeq(whole, (k - 1) * size + 1, b)
      BY <1>1
    <3> HIDE DEF a, b
    <3>2. SubSeq(whole, a + 1, b) \in Seq(X)
      BY <3>1
    <3> QED BY <3>1, <3>2
  <2> QED BY <2>1
<1>3. PICK f : Joins(X, m, chunks, f) /\ FlattenSeq(chunks) = f[m]
  <2> HIDE DEF chunks
  <2> QED BY <1>2, FlattenJoins
<1> DEFINE S == {k \in 0..m : f[k] = SubSeq(whole, 1, CutAt(n, size, k))}
<1>4. 0 \in S
  <2>1. f[0] = << >>
    BY <1>3 DEF Joins, JoinsOf
  <2>2. CutAt(n, size, 0) = 0
    BY DEF CutAt
  <2>3. SubSeq(whole, 1, 0) = << >>
    OBVIOUS
  <2>4. 0 \in 0..m
    OBVIOUS
  <2> QED BY <2>1, <2>2, <2>3, <2>4
<1>5. ASSUME NEW k \in 1..m, k - 1 \in S PROVE k \in S
  <2> DEFINE a == CutAt(n, size, k - 1)
             b == CutAt(n, size, k)
  <2>1. a \in 0..n /\ b \in 0..n /\ a <= b /\ a = (k - 1) * size
    BY <1>1
  <2>2. f[k - 1] = SubSeq(whole, 1, a) /\ k \in 0..m
    BY <1>5
  <2>3. f[k] = f[k - 1] \o chunks[k]
    <3> HIDE DEF chunks
    <3> QED BY <1>3 DEF Joins, JoinsOf
  <2>4. chunks[k] = SubSeq(whole, a + 1, b)
    BY <2>1
  <2> HIDE DEF chunks, a, b
  <2>5. SubSeq(whole, 1, a) \o SubSeq(whole, a + 1, b) = SubSeq(whole, 1, b)
    BY <2>1, PartsOfAWhole
  <2>6. f[k] = SubSeq(whole, 1, b)
    BY <2>2, <2>3, <2>4, <2>5
  <2> QED BY <2>2, <2>6 DEF b
<1>6. m \in S
  <2>1. m \in 0..m
    OBVIOUS
  <2> HIDE DEF S
  <2> QED BY <1>4, <1>5, <2>1, Induction
<1>7. CutAt(n, size, m) = n
  <2>1. ~(m * size < n)
    <3>1. m * size \in Int
      OBVIOUS
    <3> QED BY <3>1
  <2> QED BY <2>1 DEF CutAt
<1>8. SubSeq(whole, 1, n) = whole
  OBVIOUS
<1> HIDE DEF chunks
<1>9. f[m] = whole
  BY <1>6, <1>7, <1>8
<1> QED BY <1>3, <1>9 DEF chunks, ChunksOf

\* In one request or in chunks, a candidate gets the same cost.
LEMMA ChunksCostTheSame ==
  ASSUME NEW p, p.config.n_cand \in Nat \ {0}, p.config.chunk_size \in Nat \ {0},
         NEW C, NEW candidates \in [1..p.config.n_cand -> C]
  PROVE  EvaluateCosts(p, candidates) = CostsOf(p, candidates)
<1> DEFINE n == p.config.n_cand
           size == p.config.chunk_size
           m == (n + size - 1) \div size
           cost(x) == CandidateCost(p, x)
           X == {cost(x) : x \in C}
           whole == CostsOf(p, candidates)
           part(k) == CostsOf(p, SubSeq(candidates, (k - 1) * size + 1, CutAt(n, size, k)))
<1>1. EvaluateCosts(p, candidates) = whole \/ EvaluateCosts(p, candidates) = FlattenSeq([k \in 1..m |-> part(k)])
  BY DEF EvaluateCosts, CutAt
<1>2. n \in Nat \ {0} /\ size \in Nat \ {0} /\ candidates \in [1..n -> C]
  OBVIOUS
<1> HIDE DEF n, size
<1>3. Covers(n, size, m)
  BY <1>2, ChunksReachTheEnd
<1> HIDE DEF m
<1>4. candidates \in Seq(C) /\ Len(candidates) = n
  BY <1>2
<1>5. whole = [i \in 1..n |-> cost(candidates[i])]
  BY <1>2 DEF CostsOf
<1>6. whole \in Seq(X) /\ Len(whole) = n
  <2> HIDE DEF cost
  <2>1. \A i \in 1..n : whole[i] \in X
    BY <1>2, <1>5
  <2>2. whole = [i \in 1..n |-> whole[i]]
    BY <1>5
  <2> HIDE DEF whole, X
  <2> QED BY <1>2, <2>1, <2>2, AsSeq
<1>7. ASSUME NEW k \in 1..m PROVE part(k) = SubSeq(whole, (k - 1) * size + 1, CutAt(n, size, k))
  <2> DEFINE a == CutAt(n, size, k - 1)
             b == CutAt(n, size, k)
             some == SubSeq(candidates, a + 1, b)
  <2>1. a \in 0..n /\ b \in 0..n /\ a <= b /\ a = (k - 1) * size
    <3>1. k \in Nat \ {0} /\ (k - 1) * size < n /\ n \in Nat /\ size \in Nat
      BY <1>2, <1>3 DEF Covers
    <3> QED BY <3>1, CutsAdvance
  <2>2. part(k) = [i \in DOMAIN some |-> cost(some[i])]
    BY <2>1 DEF CostsOf
  <2> HIDE DEF a, b, part
  <2>3. DOMAIN some = 1..(b - a) /\ \A i \in 1..(b - a) : some[i] = candidates[a + i]
    BY <1>2, <1>4, <2>1
  <2>4. SubSeq(whole, a + 1, b) = [i \in 1..(b - a) |-> whole[a + i]]
    <3> HIDE DEF whole, X
    <3> QED BY <1>2, <1>6, <2>1
  <2>5. \A i \in 1..(b - a) : whole[a + i] = cost(candidates[a + i])
    <3>1. \A i \in 1..(b - a) : a + i \in 1..n
      BY <1>2, <2>1
    <3> HIDE DEF cost, whole
    <3> QED BY <1>5, <3>1
  <2> HIDE DEF some, whole, cost
  <2>6. [i \in DOMAIN some |-> cost(some[i])] = [i \in 1..(b - a) |-> whole[a + i]]
    BY <2>3, <2>5
  <2> QED BY <2>1, <2>2, <2>4, <2>6 DEF b
<1> HIDE DEF part, whole, X
<1>8. FlattenSeq(ChunksOf(whole, n, size, m)) = whole
  BY <1>2, <1>3, <1>6, ChunksJoin
<1>9. [k \in 1..m |-> part(k)] = ChunksOf(whole, n, size, m)
  BY <1>7 DEF ChunksOf
<1> QED BY <1>1, <1>8, <1>9 DEF whole

\* One step of a rollout.
NextWindow(w, a) == IF w = << >> \/ NextLatent(w, a) \notin Int THEN << >> ELSE Shift(w, NextLatent(w, a))

LEMMA WindowsAreLatents ==
  ASSUME NEW w \in Seq(Int), NEW a
  PROVE  NextWindow(w, a) \in Seq(Int)
<1>1. CASE w = << >> \/ NextLatent(w, a) \notin Int
  BY <1>1 DEF NextWindow
<1>2. CASE ~(w = << >> \/ NextLatent(w, a) \notin Int)
  <2> DEFINE next == NextLatent(w, a)
  <2>1. next \in Int /\ w # << >> /\ NextWindow(w, a) = Append(Tail(w), next)
    BY <1>2 DEF NextWindow, Shift
  <2> HIDE DEF next
  <2> QED BY <2>1
<1> QED BY <1>1, <1>2

Windows(n, history, c, f) ==
  f \in [0..n -> Seq(Int)] /\ f[0] = history /\ \A i \in 1..n : f[i] = NextWindow(f[i - 1], c[i])

LEMMA RolloutIsStepwise ==
  ASSUME NEW n \in Nat, NEW A, NEW c \in [1..n -> A], NEW history \in Seq(Int)
  PROVE  \E f : Windows(n, history, c, f) /\ Rollout(history, c) = f[n]
<1> DEFINE step == [i \in 1..n |-> [w \in Seq(Int) |-> NextWindow(w, c[i])]]
           Rec(g) == g = [s \in SUBSET (DOMAIN c) |-> IF s = {} THEN history ELSE NextWindow(g[s \ {Max(s)}], c[Max(s)])]
           iter == CHOOSE g : Rec(g)
<1>1. n \in Nat /\ DOMAIN c = 1..n
  OBVIOUS
<1>2. step \in [1..n -> [Seq(Int) -> Seq(Int)]]
  BY WindowsAreLatents
<1>3. PICK f : Iterates(Seq(Int), n, history, step, f)
  <2> HIDE DEF step
  <2> QED BY <1>2, Recursion
<1>4. PICK g : Folds(Seq(Int), n, history, step, g)
  <2> HIDE DEF step
  <2> QED BY <1>2, FoldExists
<1>5. Windows(n, history, c, f)
  <2>1. ASSUME NEW i \in 1..n PROVE f[i] = NextWindow(f[i - 1], c[i])
    <3>1. i - 1 \in 0..n
      OBVIOUS
    <3>2. f[i - 1] \in Seq(Int) /\ f[i] = step[i][f[i - 1]]
      BY <3>1, <1>3 DEF Iterates
    <3> QED BY <3>2
  <2> QED BY <2>1, <1>3 DEF Iterates, Windows
<1>6. Rec(g)
  <2>1. g = [s \in SUBSET (1..n) |-> g[s]]
    BY <1>4 DEF Folds
  <2>2. ASSUME NEW s \in SUBSET (1..n)
        PROVE  g[s] = IF s = {} THEN history ELSE NextWindow(g[s \ {Max(s)}], c[Max(s)])
    <3>1. CASE s = {}
      BY <3>1, <1>4 DEF Folds
    <3>2. CASE s # {}
      <4>1. Max(s) \in 1..n
        BY <3>2, MaxOfSome
      <4>2. s \ {Max(s)} \in SUBSET (1..n)
        OBVIOUS
      <4>3. g[s \ {Max(s)}] \in Seq(Int) /\ g[s] = step[Max(s)][g[s \ {Max(s)}]]
        BY <3>2, <4>2, <1>4 DEF Folds
      <4> QED BY <3>2, <4>1, <4>3
    <3> QED BY <3>1, <3>2
  <2> QED BY <1>1, <2>1, <2>2
<1>7. Rec(iter)
  <2> HIDE DEF Rec
  <2> QED BY <1>6
<1>8. Rollout(history, c) = iter[DOMAIN c]
  BY DEF Rollout, FoldLeft, MapThenFoldSet, NextWindow
<1> HIDE DEF iter
<1>9. \A s \in SUBSET (1..n) : iter[s] = IF s = {} THEN history ELSE NextWindow(iter[s \ {Max(s)}], c[Max(s)])
  BY <1>1, <1>7
<1> DEFINE S == {k \in 0..n : iter[1..k] = f[k]}
<1>10. 0 \in S
  <2>1. 1..0 = {} /\ 0 \in 0..n
    OBVIOUS
  <2>2. iter[1..0] = history
    BY <2>1, <1>9
  <2> QED BY <2>1, <2>2, <1>5 DEF Windows
<1>11. ASSUME NEW k \in 1..n, k - 1 \in S PROVE k \in S
  <2>1. k \in Nat /\ k # 0 /\ 1..k \in SUBSET (1..n) /\ k \in 0..n
    OBVIOUS
  <2>2. Max(1..k) = k /\ (1..k) \ {k} = 1..(k - 1) /\ 1..k # {}
    BY <2>1, FirstAndLast
  <2>3. iter[1..k] = NextWindow(iter[1..(k - 1)], c[k])
    BY <2>1, <2>2, <1>9
  <2>4. iter[1..(k - 1)] = f[k - 1]
    BY <1>11
  <2>5. f[k] = NextWindow(f[k - 1], c[k])
    BY <1>5 DEF Windows
  <2> QED BY <2>1, <2>3, <2>4, <2>5
<1>12. n \in S
  <2>1. n \in 0..n
    OBVIOUS
  <2> HIDE DEF S
  <2> QED BY <1>10, <1>11, <2>1, Induction
<1> QED BY <1>1, <1>5, <1>8, <1>12

\* A rollout that ends well has gone well, and each window is full.
LEMMA WindowsStayFull ==
  ASSUME NEW n \in Nat, NEW c, NEW history \in Seq(Int), NEW f, Windows(n, history, c, f), f[n] # << >>
  PROVE  \A k \in 0..n : f[k] # << >> /\ Len(f[k]) = Len(history)
<1>1. ASSUME NEW i \in 1..n PROVE f[i - 1] = << >> => f[i] = << >>
  <2>1. f[i] = NextWindow(f[i - 1], c[i])
    BY DEF Windows
  <2> QED BY <2>1 DEF NextWindow
<1>2. \A k \in 0..n : f[k] # << >>
  <2> DEFINE S == {j \in 0..n : f[n - j] # << >>}
  <2>1. 0 \in S
    <3>1. n - 0 = n
      OBVIOUS
    <3> QED BY <3>1
  <2>2. ASSUME NEW j \in 1..n, j - 1 \in S PROVE j \in S
    <3>1. n - (j - 1) \in 1..n /\ (n - (j - 1)) - 1 = n - j /\ j \in 0..n
      OBVIOUS
    <3>2. f[n - (j - 1)] # << >>
      BY <2>2
    <3>3. f[n - j] # << >>
      BY <1>1, <3>1, <3>2
    <3> QED BY <3>1, <3>3
  <2>3. 0..n \subseteq S
    <3> HIDE DEF S
    <3> QED BY <2>1, <2>2, Induction
  <2>4. ASSUME NEW k \in 0..n PROVE f[k] # << >>
    <3>1. n - k \in 0..n /\ n - (n - k) = k
      OBVIOUS
    <3> QED BY <2>3, <3>1
  <2> QED BY <2>4
<1> DEFINE S == {k \in 0..n : Len(f[k]) = Len(history)}
<1>3. 0 \in S
  BY DEF Windows
<1>4. ASSUME NEW i \in 1..n, i - 1 \in S PROVE i \in S
  <2> DEFINE w == f[i - 1]
             next == NextLatent(w, c[i])
  <2>1. i - 1 \in 0..n /\ i \in 0..n
    OBVIOUS
  <2>2. w \in Seq(Int) /\ w # << >> /\ f[i] = NextWindow(w, c[i]) /\ f[i] # << >>
    BY <1>2, <2>1 DEF Windows
  <2>3. next \in Int /\ f[i] = Append(Tail(w), next)
    BY <2>2 DEF NextWindow, Shift
  <2>4. Len(w) = Len(history)
    BY <1>4
  <2> HIDE DEF w, next
  <2>5. Len(f[i]) = Len(w)
    BY <2>2, <2>3
  <2> QED BY <2>1, <2>4, <2>5
<1>5. 0..n \subseteq S
  <2> HIDE DEF S
  <2> QED BY <1>3, <1>4, Induction
<1> QED BY <1>2, <1>5

\* The windows of a rollout, seen as the places of one sequence of latents.
LatentsOf(n, history, f) ==
  [i \in 1..(Len(history) + n) |-> IF i <= Len(history) THEN history[i] ELSE f[i - Len(history)][Len(history)]]

\* As many latents as a window holds, after the k-th.
WindowAfter(latents, size, k) == [h \in 1..size |-> latents[k + h]]

WindowsFollow(n, c, history, f) ==
  LET latents == LatentsOf(n, history, f)
  IN  /\ \A k \in 0..n : f[k] = WindowAfter(latents, Len(history), k)
      /\ \A k \in 1..n : latents[k + Len(history)] = NextLatent(f[k - 1], c[k])

LEMMA WindowsOfLatents ==
  ASSUME NEW n \in Nat, NEW c, NEW history \in Seq(Int), history # << >>,
         NEW f, Windows(n, history, c, f), f[n] # << >>
  PROVE  WindowsFollow(n, c, history, f)
<1> DEFINE H == Len(history)
           L == LatentsOf(n, history, f)
<1>1. H \in Nat /\ H >= 1
  OBVIOUS
<1>2. \A k \in 0..n : f[k] \in Seq(Int) /\ f[k] # << >> /\ Len(f[k]) = H
  <2>1. \A k \in 0..n : f[k] # << >> /\ Len(f[k]) = Len(history)
    BY WindowsStayFull
  <2>2. \A k \in 0..n : f[k] \in Seq(Int)
    BY DEF Windows
  <2> QED BY <2>1, <2>2
<1>3. \A i \in 1..(H + n) : L[i] = IF i <= H THEN history[i] ELSE f[i - H][H]
  BY DEF LatentsOf
<1>4. f[0] = history /\ \A k \in 1..n : f[k] = NextWindow(f[k - 1], c[k])
  BY DEF Windows
<1>5. history \in Seq(Int) /\ Len(history) = H
  OBVIOUS
<1> HIDE DEF H, L
<1>6. ASSUME NEW k \in 1..n
      PROVE  /\ NextLatent(f[k - 1], c[k]) = f[k][H]
             /\ \A h \in 1..H : h # H => f[k][h] = f[k - 1][h + 1]
  <2> DEFINE w == f[k - 1]
             next == NextLatent(w, c[k])
  <2>1. k - 1 \in 0..n /\ k \in 0..n
    OBVIOUS
  <2>2. w \in Seq(Int) /\ w # << >> /\ Len(w) = H /\ f[k] = NextWindow(w, c[k]) /\ f[k] # << >>
    BY <1>2, <1>4, <2>1
  <2>3. next \in Int /\ f[k] = Append(Tail(w), next)
    BY <2>2 DEF NextWindow, Shift
  <2> HIDE DEF w, next
  <2>4. Tail(w) \in Seq(Int) /\ Len(Tail(w)) = H - 1 /\ \A h \in 1..(H - 1) : Tail(w)[h] = w[h + 1]
    BY <2>2
  <2>5. f[k][H] = next /\ \A h \in 1..(H - 1) : f[k][h] = Tail(w)[h]
    BY <1>1, <2>3, <2>4
  <2>6. \A h \in 1..H : h # H => h \in 1..(H - 1)
    BY <1>1
  <2> QED BY <2>4, <2>5, <2>6 DEF w, next
<1> DEFINE S == {k \in 0..n : \A h \in 1..H : f[k][h] = L[k + h]}
<1>7. 0 \in S
  <2>1. ASSUME NEW h \in 1..H PROVE f[0][h] = L[0 + h]
    <3>1. 0 + h \in 1..(H + n) /\ 0 + h <= H /\ 0 + h = h
      BY <1>1
    <3> QED BY <1>3, <1>4, <3>1
  <2>2. 0 \in 0..n
    OBVIOUS
  <2> QED BY <2>1, <2>2
<1>8. ASSUME NEW k \in 1..n, k - 1 \in S PROVE k \in S
  <2>1. ASSUME NEW h \in 1..H PROVE f[k][h] = L[k + h]
    <3>1. CASE h = H
      <4>1. k + h \in 1..(H + n) /\ ~(k + h <= H) /\ k + h - H = k
        BY <1>1, <3>1
      <4> QED BY <1>3, <3>1, <4>1
    <3>2. CASE h # H
      <4>1. h + 1 \in 1..H /\ (k - 1) + (h + 1) = k + h
        BY <1>1, <3>2
      <4>2. f[k - 1][h + 1] = L[(k - 1) + (h + 1)]
        BY <1>8, <4>1
      <4> QED BY <1>6, <3>2, <4>1, <4>2
    <3> QED BY <3>1, <3>2
  <2>2. k \in 0..n
    OBVIOUS
  <2> QED BY <2>1, <2>2
<1>9. 0..n \subseteq S
  <2> HIDE DEF S
  <2> QED BY <1>7, <1>8, Induction
<1>10. ASSUME NEW k \in 0..n PROVE f[k] = [h \in 1..H |-> L[k + h]]
  <2>1. f[k] \in Seq(Int) /\ Len(f[k]) = H /\ \A h \in 1..H : f[k][h] = L[k + h]
    BY <1>2, <1>9
  <2>2. f[k] = [h \in 1..H |-> f[k][h]]
    BY <2>1
  <2> QED BY <2>1, <2>2
<1>11. ASSUME NEW k \in 1..n PROVE L[k + H] = NextLatent(f[k - 1], c[k])
  <2>1. k + H \in 1..(H + n) /\ ~(k + H <= H) /\ (k + H) - H = k
    BY <1>1
  <2>2. L[k + H] = f[k][H]
    BY <1>3, <2>1
  <2> QED BY <1>6, <2>2
<1> QED BY <1>10, <1>11 DEF H, L, WindowAfter, WindowsFollow

LEMMA LastIsTheLatent ==
  ASSUME NEW n \in Nat, NEW c, NEW history \in Seq(Int), history # << >>,
         NEW f, Windows(n, history, c, f), f[n] # << >>
  PROVE  Last(f[n]) = LatentAfter(history, c, n) /\ Last(f[n]) \in Int
<1> DEFINE H == Len(history)
           N == H + n
           L == LatentsOf(n, history, f)
           Rec(g) == g = [i \in 1..N |-> IF i <= H THEN history[i]
                                         ELSE NextLatent([h \in 1..H |-> g[i - H - 1 + h]], c[i - H])]
           latent == CHOOSE g : Rec(g)
<1>1. H \in Nat /\ H >= 1 /\ N \in Nat
  OBVIOUS
<1>2. /\ \A k \in 0..n : f[k] = [h \in 1..H |-> L[k + h]]
      /\ \A k \in 1..n : L[k + H] = NextLatent(f[k - 1], c[k])
  <2>1. /\ \A k \in 0..n : f[k] = WindowAfter(L, H, k)
        /\ \A k \in 1..n : L[k + H] = NextLatent(f[k - 1], c[k])
    <3>1. WindowsFollow(n, c, history, f)
      BY WindowsOfLatents
    <3> QED BY <3>1 DEF WindowsFollow
  <2> HIDE DEF L, H
  <2> QED BY <2>1 DEF WindowAfter
<1>3. L = [i \in 1..N |-> L[i]] /\ \A i \in 1..N : i <= H => L[i] = history[i]
  BY DEF LatentsOf
<1>4. LatentAfter(history, c, n) = latent[N]
  BY DEF LatentAfter
<1>5. f[n] \in Seq(Int) /\ Len(f[n]) = H
  <2>1. n \in 0..n
    OBVIOUS
  <2>2. Len(f[n]) = Len(history)
    BY <2>1, WindowsStayFull
  <2>3. f[n] \in Seq(Int)
    BY <2>1 DEF Windows
  <2> QED BY <2>2, <2>3
<1> HIDE DEF H, N, L
<1>6. ASSUME NEW i \in 1..N, ~(i <= H) PROVE L[i] = NextLatent([h \in 1..H |-> L[i - H - 1 + h]], c[i - H])
  <2> DEFINE k == i - H
  <2>1. k \in 1..n /\ k + H = i /\ k - 1 \in 0..n /\ k - 1 = i - H - 1
    BY <1>1, <1>6 DEF N
  <2> HIDE DEF k
  <2>2. f[k - 1] = [h \in 1..H |-> L[k - 1 + h]] /\ L[k + H] = NextLatent(f[k - 1], c[k])
    BY <1>2, <2>1
  <2>3. L[i] = NextLatent([h \in 1..H |-> L[k - 1 + h]], c[k])
    BY <2>1, <2>2
  <2> QED BY <2>1, <2>3 DEF k
<1>7. Rec(L)
  <2>1. \A i \in 1..N : L[i] = IF i <= H THEN history[i] ELSE NextLatent([h \in 1..H |-> L[i - H - 1 + h]], c[i - H])
    BY <1>3, <1>6
  <2> QED BY <1>3, <2>1
<1>8. Rec(latent)
  <2> HIDE DEF Rec
  <2> QED BY <1>7
<1> HIDE DEF latent
<1> DEFINE S == {k \in 0..N : \A j \in 1..k : latent[j] = L[j]}
<1>9. 0 \in S
  BY <1>1
<1>10. ASSUME NEW k \in 1..N, k - 1 \in S PROVE k \in S
  <2>1. latent[k] = L[k]
    <3>1. CASE k <= H
      <4>1. latent[k] = history[k]
        BY <1>8, <3>1
      <4> QED BY <1>3, <3>1, <4>1
    <3>2. CASE ~(k <= H)
      <4>1. \A h \in 1..H : k - H - 1 + h \in 1..(k - 1)
        BY <1>1, <3>2
      <4>2. \A h \in 1..H : latent[k - H - 1 + h] = L[k - H - 1 + h]
        BY <1>10, <4>1
      <4>3. [h \in 1..H |-> latent[k - H - 1 + h]] = [h \in 1..H |-> L[k - H - 1 + h]]
        BY <4>2
      <4>4. latent[k] = NextLatent([h \in 1..H |-> latent[k - H - 1 + h]], c[k - H])
        BY <1>8, <3>2
      <4>5. L[k] = NextLatent([h \in 1..H |-> L[k - H - 1 + h]], c[k - H])
        BY <1>6, <3>2
      <4> QED BY <4>3, <4>4, <4>5
    <3> QED BY <3>1, <3>2
  <2>2. k \in 0..N /\ \A j \in 1..k : j = k \/ j \in 1..(k - 1)
    BY <1>1
  <2>3. \A j \in 1..k : latent[j] = L[j]
    BY <1>10, <2>1, <2>2
  <2> QED BY <2>2, <2>3
<1>11. N \in S
  <2>1. N \in 0..N
    BY <1>1
  <2> HIDE DEF S
  <2> QED BY <1>1, <1>9, <1>10, <2>1, Induction
<1>12. N \in 1..N
  BY <1>1 DEF N
<1>13. latent[N] = L[N]
  BY <1>11, <1>12
<1>14. f[n][H] = L[N]
  <2>1. n \in 0..n /\ H \in 1..H /\ n + H = N
    BY <1>1 DEF N
  <2> QED BY <1>2, <2>1
<1>15. Last(f[n]) = f[n][H] /\ f[n][H] \in Int
  BY <1>1, <1>5 DEF Last
<1> QED BY <1>4, <1>13, <1>14, <1>15

LEMMA CostIsOfTheLatent ==
  ASSUME NEW p, p.history \in Seq(Int), p.history # << >>, p.goal \in Int,
         NEW n \in Nat, NEW A, NEW c \in [1..n -> A]
  PROVE  LET off == LatentAfter(p.history, c, n) - p.goal
         IN  \/ CandidateCost(p, c) = << >>
             \/ /\ CandidateCost(p, c) = <<IF off * off > MaxFiniteCost THEN Infinite ELSE off * off>>
                /\ CandidateCost(p, c)[1] \in Int /\ CandidateCost(p, c)[1] <= Infinite
<1> DEFINE window == Rollout(p.history, c)
           off == LatentAfter(p.history, c, n) - p.goal
<1>1. PICK f : Windows(n, p.history, c, f) /\ window = f[n]
  <2>1. \A history \in Seq(Int) : \E f : Windows(n, history, c, f) /\ Rollout(history, c) = f[n]
    BY RolloutIsStepwise
  <2> QED BY <2>1
<1>2. CASE window = << >>
  BY <1>2 DEF CandidateCost
<1>3. CASE window # << >>
  <2>1. Last(window) = LatentAfter(p.history, c, n) /\ Last(window) \in Int
    BY <1>1, <1>3, LastIsTheLatent
  <2>2. CandidateCost(p, c) = <<IF off * off > MaxFiniteCost THEN Infinite ELSE off * off>>
    BY <1>3, <2>1 DEF CandidateCost
  <2>3. off \in Int
    BY <2>1
  <2> HIDE DEF off
  <2>4. off * off \in Int /\ MaxFiniteCost \in Nat
    BY <2>3, PlanningAssumption
  <2>5. CandidateCost(p, c)[1] = IF off * off > MaxFiniteCost THEN Infinite ELSE off * off
    BY <2>2
  <2>6. CandidateCost(p, c)[1] \in Int /\ CandidateCost(p, c)[1] <= Infinite
    BY <2>4, <2>5 DEF Infinite
  <2> QED BY <2>2, <2>6 DEF off
<1> QED BY <1>2, <1>3

PlanFields == {"at", "planner", "config", "iter", "history", "goal", "candidates", "costs", "elites", "proposal", "best"}

\* A request that was not refused.
Accepted ==
  /\ DOMAIN plan = PlanFields /\ plan.planner \in {"cem", "cpu"} /\ plan.config \in CemConfigs
  /\ plan.history \in Seq(Int) /\ plan.history # << >> /\ plan.goal \in Int
  /\ plan.config.n_cand # 0 /\ plan.config.n_elite # 0 /\ plan.config.n_elite <= plan.config.n_cand
  /\ plan.planner = "cem" => plan.config.chunk_size # 0

\* The last sample, what its candidates cost, and the proposal that follows.
Refitted ==
  /\ plan.candidates \in SamplesOf(plan.config) /\ plan.costs = CostsOf(plan, plan.candidates)
  /\ << >> \notin Range(plan.costs) /\ (plan.planner = "cem" => <<Infinite>> \notin Range(plan.costs))
  /\ plan.elites = SubSeq(Ranked(plan.costs), 1, plan.config.n_elite)
  /\ plan.proposal = UpdateProposal(plan, plan.candidates, plan.elites)
  /\ plan.best = Ranked(plan.costs)[1]

PlanInv == plan.at \in {"idle", "refused"} \/ (plan.at = "planning" /\ Accepted) \/ (plan.at = "iterated" /\ Accepted /\ Refitted)

LEMMA ConfigTypes ==
  ASSUME NEW c \in CemConfigs
  PROVE  /\ c.n_iter \in Nat /\ c.n_cand \in Nat /\ c.n_elite \in Nat /\ c.horizon \in Nat
         /\ c.sigma_init \in Int /\ c.sigma_min \in Int /\ c.chunk_size \in Nat /\ c.max_batch \in Nat
BY PlanningAssumption

\* What the costs of a sample that was not refused are.
LEMMA CostsAreNumbers ==
  ASSUME NEW p, p.config \in CemConfigs, p.history \in Seq(Int), p.history # << >>, p.goal \in Int,
         NEW candidates \in SamplesOf(p.config), NEW costs, costs = CostsOf(p, candidates), << >> \notin Range(costs)
  PROVE  /\ costs \in Seq(Seq(Int)) /\ Len(costs) = p.config.n_cand /\ DOMAIN costs = 1..p.config.n_cand
         /\ \A i \in 1..p.config.n_cand :
              LET off == LatentAfter(p.history, candidates[i], p.config.horizon) - p.goal
              IN  /\ costs[i] = <<IF off * off > MaxFiniteCost THEN Infinite ELSE off * off>>
                  /\ costs[i][1] \in Int /\ costs[i][1] <= Infinite
<1> DEFINE n == p.config.n_cand
           h == p.config.horizon
           A == [1..h -> SampledActions]
<1>1. n \in Nat /\ h \in Nat
  BY ConfigTypes
<1>2. candidates \in [1..n -> A]
  BY DEF SamplesOf
<1> HIDE DEF n
<1>3. costs = [i \in 1..n |-> CandidateCost(p, candidates[i])]
  BY <1>2 DEF CostsOf
<1>4. DOMAIN costs = 1..n /\ \A i \in 1..n : costs[i] = CandidateCost(p, candidates[i]) /\ costs[i] # << >>
  BY <1>3 DEF Range
<1>5. ASSUME NEW i \in 1..n
      PROVE  LET off == LatentAfter(p.history, candidates[i], h) - p.goal
             IN  /\ costs[i] = <<IF off * off > MaxFiniteCost THEN Infinite ELSE off * off>>
                 /\ costs[i][1] \in Int /\ costs[i][1] <= Infinite
  <2> DEFINE c == candidates[i]
  <2>1. c \in [1..h -> SampledActions]
    BY <1>2
  <2> HIDE DEF c, h
  <2>2. \/ CandidateCost(p, c) = << >>
        \/ LET off == LatentAfter(p.history, c, h) - p.goal
           IN  /\ CandidateCost(p, c) = <<IF off * off > MaxFiniteCost THEN Infinite ELSE off * off>>
               /\ CandidateCost(p, c)[1] \in Int /\ CandidateCost(p, c)[1] <= Infinite
    BY <1>1, <2>1, CostIsOfTheLatent
  <2>3. costs[i] = CandidateCost(p, c) /\ CandidateCost(p, c) # << >>
    BY <1>4 DEF c
  <2> QED BY <2>2, <2>3 DEF c
<1>6. costs \in Seq(Seq(Int)) /\ Len(costs) = n
  <2>1. \A i \in 1..n : costs[i] \in Seq(Int)
    <3>1. ASSUME NEW i \in 1..n PROVE costs[i] \in Seq(Int)
      <4>1. \A x : x = costs[i][1] /\ costs[i] = <<x>> /\ x \in Int => costs[i] \in Seq(Int)
        OBVIOUS
      <4> DEFINE x == IF (LatentAfter(p.history, candidates[i], h) - p.goal) * (LatentAfter(p.history, candidates[i], h) - p.goal)
                           > MaxFiniteCost THEN Infinite
                      ELSE (LatentAfter(p.history, candidates[i], h) - p.goal) * (LatentAfter(p.history, candidates[i], h) - p.goal)
      <4>2. costs[i] = <<x>> /\ costs[i][1] \in Int
        BY <1>5
      <4> HIDE DEF x
      <4> QED BY <4>1, <4>2
    <3> QED BY <3>1
  <2>2. costs = [i \in 1..n |-> costs[i]]
    BY <1>3
  <2> QED BY <1>1, <2>1, <2>2, AsSeq
<1> QED BY <1>4, <1>5, <1>6 DEF n

\* The ranking of such costs, and the elites it gives.
LEMMA ElitesAreCandidates ==
  ASSUME NEW c \in CemConfigs, c.n_cand # 0, c.n_elite # 0, c.n_elite <= c.n_cand,
         NEW costs, DOMAIN costs = 1..c.n_cand, \A i \in 1..c.n_cand : costs[i][1] \in Int
  PROVE  /\ SubSeq(Ranked(costs), 1, c.n_elite) \in [1..c.n_elite -> 1..c.n_cand]
         /\ Ranked(costs)[1] \in 1..c.n_cand
         /\ \A i \in 1..c.n_cand : costs[Ranked(costs)[1]][1] <= costs[i][1]
<1> DEFINE n == c.n_cand
           m == c.n_elite
           r == Ranked(costs)
<1>1. n \in Nat \ {0} /\ m \in Nat \ {0} /\ m <= n
  BY ConfigTypes
<1>2. r \in [1..n -> 1..n] /\ \A i \in 1..n : costs[r[1]][1] <= costs[i][1]
  <2> HIDE DEF n
  <2>1. DOMAIN costs = 1..n /\ \A i \in 1..n : costs[i][1] \in Int
    BY DEF n
  <2> QED BY <1>1, <2>1, FirstIsCheapest
<1> HIDE DEF n, m, r
<1>3. SubSeq(r, 1, m) \in [1..m -> 1..n]
  <2>1. r \in Seq(1..n) /\ Len(r) = n
    BY <1>1, <1>2
  <2>2. SubSeq(r, 1, m) \in Seq(1..n) /\ Len(SubSeq(r, 1, m)) = m
    BY <1>1, <2>1
  <2>3. \A s \in Seq(1..n) : s \in [1..Len(s) -> 1..n]
    BY LenProperties
  <2>4. SubSeq(r, 1, m) \in [1..Len(SubSeq(r, 1, m)) -> 1..n]
    BY <2>2, <2>3
  <2> QED BY <2>2, <2>4
<1>4. r[1] \in 1..n
  BY <1>1, <1>2
<1> QED BY <1>2, <1>3, <1>4 DEF n, m, r

LEMMA PlanInvSuffices == PlanInv => PlansAreSound
<1> SUFFICES ASSUME PlanInv PROVE PlansAreSound
  OBVIOUS
<1>1. CASE plan.at # "iterated"
  BY <1>1 DEF PlansAreSound, CostsAreOfTheirCandidates, ProposalStaysAlive, PlanIsTheCheapest
<1>2. CASE plan.at = "iterated"
  <2> DEFINE c == plan.config
             n == plan.config.n_cand
             costs == plan.costs
  <2>1. Accepted /\ Refitted
    BY <1>2 DEF PlanInv
  <2>2. /\ c \in CemConfigs /\ plan.history \in Seq(Int) /\ plan.history # << >> /\ plan.goal \in Int
        /\ c.n_cand # 0 /\ c.n_elite # 0 /\ c.n_elite <= c.n_cand /\ plan.planner \in {"cem", "cpu"}
    BY <2>1 DEF Accepted
  <2>3. /\ plan.candidates \in SamplesOf(c) /\ costs = CostsOf(plan, plan.candidates) /\ << >> \notin Range(costs)
        /\ plan.planner = "cem" => <<Infinite>> \notin Range(costs)
        /\ plan.elites = SubSeq(Ranked(costs), 1, c.n_elite)
        /\ plan.proposal = UpdateProposal(plan, plan.candidates, plan.elites) /\ plan.best = Ranked(costs)[1]
    BY <2>1 DEF Refitted
  <2>4. /\ Len(costs) = n /\ DOMAIN costs = 1..n
        /\ \A i \in 1..n :
             LET off == LatentAfter(plan.history, plan.candidates[i], c.horizon) - plan.goal
             IN  /\ costs[i] = <<IF off * off > MaxFiniteCost THEN Infinite ELSE off * off>>
                 /\ costs[i][1] \in Int /\ costs[i][1] <= Infinite
    <3> HIDE DEF costs
    <3> QED BY <2>2, <2>3, CostsAreNumbers
  <2>5. CostsAreOfTheirCandidates
    BY <2>4 DEF CostsAreOfTheirCandidates
  <2>6. \A i \in 1..n : costs[i][1] \in Int /\ costs[i][1] <= Infinite /\ costs[i] = <<costs[i][1]>>
    <3>1. ASSUME NEW i \in 1..n PROVE costs[i] = <<costs[i][1]>>
      <4> DEFINE off == LatentAfter(plan.history, plan.candidates[i], c.horizon) - plan.goal
                 x == IF off * off > MaxFiniteCost THEN Infinite ELSE off * off
      <4>1. costs[i] = <<x>>
        BY <2>4
      <4> HIDE DEF x, costs
      <4> QED BY <4>1
    <3> HIDE DEF costs
    <3> QED BY <2>4, <3>1
  <2> HIDE DEF costs
  <2>7. /\ SubSeq(Ranked(costs), 1, c.n_elite) \in [1..c.n_elite -> 1..n]
        /\ Ranked(costs)[1] \in 1..n
        /\ \A i \in 1..n : costs[Ranked(costs)[1]][1] <= costs[i][1]
    BY <2>2, <2>4, <2>6, ElitesAreCandidates
  <2>8. PlanIsTheCheapest
    <3>1. plan.best \in 1..n /\ \A i \in DOMAIN costs : costs[plan.best][1] <= costs[i][1]
      BY <2>3, <2>4, <2>7
    <3>2. ASSUME costs[plan.best] = <<Infinite>>
          PROVE  plan.planner = "cpu" /\ \A i \in DOMAIN costs : costs[i] = <<Infinite>>
      <4>1. plan.planner # "cem"
        <5>1. <<Infinite>> \in Range(costs)
          BY <2>4, <3>1, <3>2 DEF Range
        <5> QED BY <2>3, <5>1
      <4>2. costs[plan.best][1] = Infinite
        BY <3>2
      <4>3. ASSUME NEW i \in DOMAIN costs PROVE costs[i] = <<Infinite>>
        <5>1. costs[i][1] \in Int /\ costs[i][1] <= Infinite /\ costs[i] = <<costs[i][1]>> /\ Infinite <= costs[i][1]
          BY <2>4, <2>6, <3>1, <4>2
        <5>2. Infinite \in Int
          BY PlanningAssumption DEF Infinite
        <5>3. costs[i][1] = Infinite
          BY <5>1, <5>2
        <5> QED BY <5>1, <5>3
      <4> QED BY <2>2, <4>1, <4>3
    <3> QED BY <3>1, <3>2 DEF PlanIsTheCheapest, costs
  <2>9. ProposalStaysAlive
    <3> SUFFICES ASSUME NEW step \in 1..plan.config.horizon
                 PROVE  LET p == plan.proposal[step]
                            chosen == {plan.candidates[plan.elites[e]][step] : e \in DOMAIN plan.elites}
                        IN  /\ p.spread.num >= plan.config.sigma_min * plan.config.sigma_min * p.spread.den
                            /\ p.n * Min(chosen) <= p.sum /\ p.sum <= p.n * Max(chosen)
      BY DEF ProposalStaysAlive
    <3>1. c.n_elite \in Nat \ {0} /\ n \in Nat /\ c.horizon \in Nat /\ c.sigma_min \in Int
      BY <2>2, ConfigTypes
    <3>2. plan.elites \in [1..c.n_elite -> 1..n]
      BY <2>3, <2>7
    <3>3. AliveAt(UpdateProposal(plan, plan.candidates, plan.elites)[step], c, plan.candidates, plan.elites, step)
      BY <2>3, <3>1, <3>2, ProposalIsAlive
    <3> QED BY <2>3, <3>3 DEF AliveAt
  <2> QED BY <2>5, <2>8, <2>9 DEF PlansAreSound
<1> QED BY <1>1, <1>2

LEMMA FiniteLatents ==
  ASSUME NEW history \in Seq(Int \cup {NotFiniteLatent}), NotFiniteLatent \notin Range(history)
  PROVE  history \in Seq(Int)
<1>1. Len(history) \in Nat /\ history \in [1..Len(history) -> Int \cup {NotFiniteLatent}] /\ DOMAIN history = 1..Len(history)
  BY LenProperties
<1>2. \A i \in 1..Len(history) : history[i] \in Int
  BY <1>1 DEF Range
<1>3. history = [i \in 1..Len(history) |-> history[i]]
  BY <1>1
<1> QED BY <1>1, <1>2, <1>3, AsSeq

LEMMA AskKeeps == ASSUME AskForPlan PROVE PlanInv'
<1>1. PICK planner \in {"cem", "cpu"}, config \in CemConfigs, request \in Requests :
        LET p == [at |-> "planning", planner |-> planner, config |-> config, iter |-> 0,
                  history |-> request.history, goal |-> request.goal, candidates |-> << >>, costs |-> << >>,
                  elites |-> << >>, proposal |-> << >>, best |-> 0]
        IN  plan' = IF PlanRefused(p) THEN [at |-> "refused"] ELSE p
  BY DEF AskForPlan
<1> DEFINE p == [at |-> "planning", planner |-> planner, config |-> config, iter |-> 0,
                 history |-> request.history, goal |-> request.goal, candidates |-> << >>, costs |-> << >>,
                 elites |-> << >>, proposal |-> << >>, best |-> 0]
<1>2. CASE PlanRefused(p)
  <2>1. plan' = [at |-> "refused"]
    BY <1>1, <1>2
  <2> QED BY <2>1 DEF PlanInv
<1>3. CASE ~PlanRefused(p)
  <2>1. plan' = p
    BY <1>1, <1>3
  <2>2. /\ p.planner = planner /\ p.config = config /\ p.history = request.history /\ p.goal = request.goal
        /\ p.at = "planning" /\ DOMAIN p = PlanFields
    BY DEF PlanFields
  <2>3. request.history \in Seq(Int \cup {NotFiniteLatent}) /\ request.goal \in Int \cup {NotFiniteLatent}
    BY PlanningAssumption
  <2> HIDE DEF p
  <2>4. ~CemInputRefused(p)
    BY <1>3 DEF PlanRefused, CpuRefused
  <2>5. p.history # << >> /\ NotFiniteLatent \notin Range(p.history) /\ p.goal # NotFiniteLatent
    BY <2>4 DEF CemInputRefused
  <2>6. p.history \in Seq(Int) /\ p.goal \in Int
    <3>1. p.history \in Seq(Int)
      BY <2>2, <2>3, <2>5, FiniteLatents
    <3> QED BY <2>2, <2>3, <2>5, <3>1
  <2>7. /\ config.n_cand # 0 /\ config.n_elite # 0 /\ ~(config.n_elite > config.n_cand)
        /\ planner = "cem" => config.chunk_size # 0
    BY <1>3, <2>2 DEF PlanRefused, CpuRefused, CemConfigRefused
  <2>8. config.n_elite <= config.n_cand
    BY <2>7, ConfigTypes
  <2>9. Accepted'
    BY <2>1, <2>2, <2>5, <2>6, <2>7, <2>8 DEF Accepted
  <2> QED BY <2>1, <2>2, <2>9 DEF PlanInv
<1> QED BY <1>2, <1>3

LEMMA RefitKeeps ==
  ASSUME Accepted, NEW candidates \in SamplesOf(plan.config), NEW costs, costs = CostsOf(plan, candidates),
         << >> \notin Range(costs), plan.planner = "cem" => <<Infinite>> \notin Range(costs),
         Refit(candidates, costs)
  PROVE  PlanInv'
<1> DEFINE elites == SubSeq(Ranked(costs), 1, plan.config.n_elite)
           proposal == UpdateProposal(plan, candidates, elites)
           best == Ranked(costs)[1]
<1>1. plan' = [plan EXCEPT !.at = "iterated", !.iter = @ + 1, !.candidates = candidates, !.costs = costs,
                           !.elites = elites, !.proposal = proposal, !.best = best]
  BY DEF Refit
<1>2. DOMAIN plan = PlanFields
  BY DEF Accepted
<1> HIDE DEF elites, proposal, best
<1>3. /\ DOMAIN plan' = PlanFields /\ plan'.at = "iterated" /\ plan'.planner = plan.planner /\ plan'.config = plan.config
      /\ plan'.history = plan.history /\ plan'.goal = plan.goal /\ plan'.candidates = candidates
      /\ plan'.costs = costs /\ plan'.elites = elites /\ plan'.proposal = proposal /\ plan'.best = best
  BY <1>1, <1>2 DEF PlanFields
<1>4. Accepted'
  BY <1>3 DEF Accepted
<1>5. CostsOf(plan', candidates) = costs
  BY <1>3 DEF CostsOf, CandidateCost
<1>6. UpdateProposal(plan', candidates, elites) = proposal
  BY <1>3 DEF UpdateProposal, proposal
<1>7. Refitted'
  BY <1>3, <1>5, <1>6 DEF Refitted, elites, best
<1> QED BY <1>3, <1>4, <1>7 DEF PlanInv

LEMMA IterateKeeps == ASSUME PlanInv, CemIterate \/ CpuIterate PROVE PlanInv'
<1>1. Accepted
  BY DEF PlanInv, CemIterate, CpuIterate, MorePlanning
<1>2. Samples = SamplesOf(plan.config)
  BY DEF Samples, SamplesOf
<1>3. CASE CemIterate
  <2>1. plan.planner = "cem"
    BY <1>3 DEF CemIterate, MorePlanning
  <2>2. PICK candidates \in SamplesOf(plan.config) :
          IF CostsRefused(EvaluateCosts(plan, candidates)) THEN plan' = [at |-> "refused"]
          ELSE Refit(candidates, EvaluateCosts(plan, candidates))
    BY <1>2, <1>3 DEF CemIterate
  <2>3. EvaluateCosts(plan, candidates) = CostsOf(plan, candidates)
    <3>1. plan.config \in CemConfigs /\ plan.config.n_cand # 0 /\ plan.config.chunk_size # 0
      BY <1>1, <2>1 DEF Accepted
    <3>2. plan.config.n_cand \in Nat \ {0} /\ plan.config.chunk_size \in Nat \ {0}
      BY <3>1, ConfigTypes
    <3>3. candidates \in [1..plan.config.n_cand -> [1..plan.config.horizon -> SampledActions]]
      BY DEF SamplesOf
    <3> QED BY <3>2, <3>3, ChunksCostTheSame
  <2>4. CASE CostsRefused(CostsOf(plan, candidates))
    <3>1. plan' = [at |-> "refused"]
      BY <2>2, <2>3, <2>4
    <3> QED BY <3>1 DEF PlanInv
  <2>5. CASE ~CostsRefused(CostsOf(plan, candidates))
    <3>1. Refit(candidates, CostsOf(plan, candidates))
      BY <2>2, <2>3, <2>5
    <3>2. << >> \notin Range(CostsOf(plan, candidates)) /\ <<Infinite>> \notin Range(CostsOf(plan, candidates))
      BY <2>5 DEF CostsRefused
    <3> QED BY <1>1, <3>1, <3>2, RefitKeeps
  <2> QED BY <2>4, <2>5
<1>4. CASE CpuIterate
  <2>1. plan.planner = "cpu"
    BY <1>4 DEF CpuIterate, MorePlanning
  <2>2. PICK candidates \in SamplesOf(plan.config) :
          IF << >> \in Range(CostsOf(plan, candidates)) THEN plan' = [at |-> "refused"]
          ELSE Refit(candidates, CostsOf(plan, candidates))
    BY <1>2, <1>4 DEF CpuIterate
  <2>3. CASE << >> \in Range(CostsOf(plan, candidates))
    <3>1. plan' = [at |-> "refused"]
      BY <2>2, <2>3
    <3> QED BY <3>1 DEF PlanInv
  <2>4. CASE << >> \notin Range(CostsOf(plan, candidates))
    BY <1>1, <2>1, <2>2, <2>4, RefitKeeps
  <2> QED BY <2>3, <2>4
<1> QED BY <1>3, <1>4

LEMMA PlanInvStays == ASSUME PlanInv, plan' = plan PROVE PlanInv'
BY DEF PlanInv, Accepted, Refitted, UpdateProposal, CostsOf, CandidateCost

(* Whatever the predictor is, and whatever is sampled: the cost of a candidate is
   that of the latent its own actions lead to, in chunks as in one request; the
   proposal keeps its deviation and its mean stays among the elites; and no
   candidate of the last sample is cheaper than the plan (cem.rs, plan.rs). *)
THEOREM PlansStaySound == PlanningSpec => []PlansAreSound
<1>1. PlanningInit => PlanInv
  BY DEF PlanningInit, NoPlan, PlanInv
<1>2. PlanInv /\ [PlanningNext]_planningVars => PlanInv'
  <2> SUFFICES ASSUME PlanInv, [PlanningNext]_planningVars PROVE PlanInv'
    OBVIOUS
  <2>1. CASE PlanNext
    BY <2>1, AskKeeps, IterateKeeps DEF PlanNext
  <2>2. CASE ~PlanNext
    <3>1. plan' = plan
      BY <2>2 DEF PlanningNext, EvalNext, StartEval, BeginEpisode, RefuseEpisode, PredictNext, EndEpisode, DecideOutcome,
           WriteOutput, RenderReport, DieEvaluating, FailEval, planningVars
    <3> QED BY <3>1, PlanInvStays
  <2> QED BY <2>1, <2>2
<1> QED BY <1>1, <1>2, PlanInvSuffices, PTL DEF PlanningSpec

-----------------------------------------------------------------------------
(* The conversion. *)

ConverterTypes ==
  /\ weightsFile \in Checkpoints
  /\ converter \in [at : {"idle", "prepared", "mapped", "helper", "recording", "converted"},
                    sha : Checkpoints \union {"none", "skipped"}, steady : BOOLEAN, recordToo : BOOLEAN,
                    holds : Checkpoints \union {"none"}]

\* Whose hash was not skipped, and who saw no replacement, has the locked weights.
OfTheLocked(sha, steady, file) == sha # "skipped" /\ steady => file = "locked"

\* What the conversion under way has, stage by stage.
ConverterHolds ==
  /\ converter.at = "prepared" => OfTheLocked(converter.sha, converter.steady, weightsFile)
  /\ converter.at = "mapped" => OfTheLocked(converter.sha, converter.steady, converter.holds)
  /\ converter.at \in {"helper", "recording", "converted"} => OfTheLocked(converter.sha, converter.steady, mirrorFile)
  /\ converter.at = "converted" /\ converter.recordToo => recordFile = mirrorFile

\* What the metadata says, whatever has become of the files since.
MetaHolds ==
  metaFile = NoMeta \/ /\ metaFile.record \in {"none", metaFile.mirror}
                       /\ OfTheLocked(metaFile.sha, metaFile.steady, metaFile.mirror)

ConversionInv == ConverterTypes /\ ConverterHolds /\ MetaHolds /\ VerifiedIsOneConversion

LEMMA IdleConverter ==
  /\ Idle.at = "idle" /\ Idle.steady
  /\ Idle \in [at : {"idle", "prepared", "mapped", "helper", "recording", "converted"},
               sha : Checkpoints \union {"none", "skipped"}, steady : BOOLEAN, recordToo : BOOLEAN,
               holds : Checkpoints \union {"none"}]
BY DEF Idle, Checkpoints, Sound

LEMMA ConversionStarts == ConversionInit => ConversionInv
<1> SUFFICES ASSUME ConversionInit PROVE ConversionInv
  OBVIOUS
<1>1. ConverterTypes /\ ConverterHolds
  BY IdleConverter DEF ConversionInit, ConverterTypes, ConverterHolds
<1>2. reading.did # "verify"
  BY DEF ConversionInit, NoReading
<1> QED BY <1>1, <1>2 DEF ConversionInit, ConversionInv, MetaHolds, VerifiedIsOneConversion

\* The converter goes on: the results of commands stay as they are.
LEMMA ConverterSteps ==
  ASSUME ConversionInv, StartConversion \/ LoadStateDict \/ WriteMirror \/ BeginRecord \/ EndRecord \/ WriteMeta \/ Die \/ ReplaceReference
  PROVE  ConversionInv'
<1> USE DEF ConversionInv
<1>1. VerifiedIsOneConversion'
  BY DEF VerifiedIsOneConversion, StartConversion, LoadStateDict, WriteMirror, BeginRecord, EndRecord, WriteMeta, Die, ReplaceReference
<1>2. CASE StartConversion
  <2>1. PICK skip \in BOOLEAN, recordToo \in BOOLEAN :
          IF ~skip /\ weightsFile # "locked" THEN converter' = Idle
          ELSE converter' = [Idle EXCEPT !.at = "prepared", !.recordToo = recordToo, !.sha = IF skip THEN "skipped" ELSE weightsFile]
    BY <1>2 DEF StartConversion
  <2>2. UNCHANGED <<weightsFile, mirrorFile, recordFile, metaFile>>
    BY <1>2 DEF StartConversion
  <2>3. CASE ~skip /\ weightsFile # "locked"
    BY <1>1, <2>1, <2>2, <2>3, IdleConverter DEF ConverterTypes, ConverterHolds, MetaHolds
  <2>4. CASE skip \/ weightsFile = "locked"
    <3>1. converter' = [Idle EXCEPT !.at = "prepared", !.recordToo = recordToo, !.sha = IF skip THEN "skipped" ELSE weightsFile]
      BY <2>1, <2>4
    <3>2. ConverterTypes'
      BY <2>2, <3>1, IdleConverter DEF ConverterTypes
    <3>3. converter'.at = "prepared" /\ converter'.sha = (IF skip THEN "skipped" ELSE weightsFile)
      BY <3>1 DEF Idle
    <3>4. ConverterHolds'
      BY <2>2, <2>4, <3>3 DEF ConverterHolds, OfTheLocked
    <3> QED BY <1>1, <2>2, <3>2, <3>4 DEF MetaHolds
  <2> QED BY <2>3, <2>4
<1>3. CASE LoadStateDict
  BY <1>1, <1>3, IdleConverter DEF LoadStateDict, ConverterTypes, ConverterHolds, MetaHolds, OfTheLocked
<1>4. CASE WriteMirror
  BY <1>1, <1>4 DEF WriteMirror, ConverterTypes, ConverterHolds, MetaHolds, OfTheLocked
<1>5. CASE BeginRecord
  BY <1>1, <1>5, IdleConverter DEF BeginRecord, ConverterTypes, ConverterHolds, MetaHolds, OfTheLocked
<1>6. CASE EndRecord
  BY <1>1, <1>6 DEF EndRecord, ConverterTypes, ConverterHolds, MetaHolds, OfTheLocked
<1>7. CASE WriteMeta
  <2>1. ConverterTypes' /\ ConverterHolds'
    BY <1>7, IdleConverter DEF WriteMeta, ConverterTypes, ConverterHolds
  <2>2. OfTheLocked(converter.sha, converter.steady, mirrorFile) /\ (converter.recordToo => recordFile = mirrorFile)
    BY <1>7 DEF WriteMeta, ConverterHolds
  <2>3. MetaHolds'
    BY <1>7, <2>2 DEF WriteMeta, MetaHolds, OfTheLocked
  <2> QED BY <1>1, <2>1, <2>3
<1>8. CASE Die
  BY <1>1, <1>8, IdleConverter DEF Die, ConverterTypes, ConverterHolds, MetaHolds
<1>9. CASE ReplaceReference
  <2>1. /\ converter' = [converter EXCEPT !.steady = converter.at # "prepared" /\ @] /\ weightsFile' \in Checkpoints
        /\ UNCHANGED <<mirrorFile, recordFile, metaFile>>
    BY <1>9 DEF ReplaceReference
  <2>2. ConverterTypes'
    BY <2>1 DEF ConverterTypes
  <2>3. /\ converter'.at = converter.at /\ converter'.sha = converter.sha /\ converter'.holds = converter.holds
        /\ converter'.recordToo = converter.recordToo /\ converter'.steady = (converter.at # "prepared" /\ converter.steady)
    BY <2>1 DEF ConverterTypes
  <2>4. ConverterHolds'
    BY <2>1, <2>3 DEF ConverterTypes, ConverterHolds, OfTheLocked
  <2> QED BY <1>1, <2>1, <2>2, <2>4 DEF MetaHolds
<1> QED BY <1>2, <1>3, <1>4, <1>5, <1>6, <1>7, <1>8, <1>9

\* Reading changes nothing else, and what agrees with the metadata is of one conversion.
LEMMA ReadersStay ==
  ASSUME ConversionInv, VerifyConversion \/ LoadJepa \/ ExportGraphs \/ NextCommand
  PROVE  ConversionInv'
<1>1. UNCHANGED <<weightsFile, mirrorFile, recordFile, metaFile, converter>>
  BY DEF VerifyConversion, LoadJepa, ExportGraphs, NextCommand, Read
<1>2. ConverterTypes' /\ ConverterHolds' /\ MetaHolds'
  BY <1>1 DEF ConversionInv, ConverterTypes, ConverterHolds, MetaHolds
<1>3. CASE VerifyConversion
  <2>1. reading' = [did |-> "verify", ok |-> HashesAgree(metaFile, mirrorFile, recordFile) /\ RecordMatches(mirrorFile, recordFile),
                    sha |-> metaFile.sha, steady |-> metaFile.steady, mirror |-> mirrorFile, record |-> recordFile]
    BY <1>3 DEF VerifyConversion, Read
  <2>2. ASSUME HashesAgree(metaFile, mirrorFile, recordFile)
        PROVE  recordFile = mirrorFile /\ OfTheLocked(metaFile.sha, metaFile.steady, mirrorFile)
    BY <2>2 DEF HashesAgree, ConversionInv, MetaHolds
  <2>3. VerifiedIsOneConversion'
    BY <2>1, <2>2 DEF VerifiedIsOneConversion, OfTheLocked
  <2> QED BY <1>2, <2>3 DEF ConversionInv
<1>4. CASE LoadJepa \/ ExportGraphs \/ NextCommand
  <2>1. reading'.did # "verify"
    BY <1>4 DEF LoadJepa, ExportGraphs, NextCommand, Read, NoReading
  <2> QED BY <1>2, <2>1 DEF ConversionInv, VerifiedIsOneConversion
<1> QED BY <1>3, <1>4

LEMMA ConversionRests == ASSUME ConversionInv, UNCHANGED conversionVars PROVE ConversionInv'
BY DEF ConversionInv, conversionVars, ConverterTypes, ConverterHolds, MetaHolds, VerifiedIsOneConversion

(* Whatever the checkpoints, the loader and the verifier find in the tensors: files
   that verify_conversion.py accepts are of one conversion, with any number of
   conversions and deaths in between, and are the locked weights when the
   metadata names their hash and weights.pt was not replaced between its hash
   and its load (convert_reference.py, verify_conversion.py). *)
THEOREM VerifiedStaysOneConversion == ConversionSpec => []VerifiedIsOneConversion
<1>1. ConversionInv /\ [ConversionNext]_conversionVars => ConversionInv'
  BY ConverterSteps, ReadersStay, ConversionRests DEF ConversionNext
<1>2. ConversionInv => VerifiedIsOneConversion
  BY DEF ConversionInv
<1> QED BY ConversionStarts, <1>1, <1>2, PTL DEF ConversionSpec

-----------------------------------------------------------------------------
(* The write that files go through: for any number of calls, the path is never torn, *)
(* acknowledged bytes survive, and the five statements implement the register.        *)

LEMMA VersionsAreNat == Versions \subseteq Nat /\ 0 \in Versions /\ Torn \notin Versions
  BY MaxWritesAssumption DEF Versions, Torn

LEMMA InitIInv == Init => IInv
  <1> SUFFICES ASSUME Init PROVE IInv
    OBVIOUS
  <1>1. TypeOK
    BY VersionsAreNat DEF Init, TypeOK
  <1>2. NeverTorn /\ AckedSurvives /\ Staged
    BY DEF Init, NeverTorn, AckedSurvives, Staged, Torn
  <1>3. QED
    BY <1>1, <1>2 DEF IInv

LEMMA NextTypeOK == IInv /\ [Next]_vars => TypeOK'
  <1> SUFFICES ASSUME IInv, [Next]_vars PROVE TypeOK'
    OBVIOUS
  <1> USE VersionsAreNat DEF IInv, TypeOK, Staged
  <1>1. CASE OpenTmp
    <2>1. version + 1 \in Versions
      BY <1>1, MaxWritesAssumption DEF OpenTmp, Versions
    <2>2. QED
      BY <1>1, <2>1 DEF OpenTmp
  <1>2. CASE WriteAll
    BY <1>2 DEF WriteAll
  <1>3. CASE SyncAll
    BY <1>3 DEF SyncAll
  <1>4. CASE Rename
    BY <1>4 DEF Rename
  <1>5. CASE SyncParentDir
    BY <1>5 DEF SyncParentDir
  <1>6. CASE Interrupt
    BY <1>6 DEF Interrupt
  <1>7. CASE PowerFailure
    BY <1>7 DEF PowerFailure
  <1>8. CASE UNCHANGED vars
    BY <1>8 DEF vars
  <1>9. QED
    BY <1>1, <1>2, <1>3, <1>4, <1>5, <1>6, <1>7, <1>8 DEF Next

LEMMA NextSafe == IInv /\ [Next]_vars => (NeverTorn /\ AckedSurvives /\ Staged)'
  <1> SUFFICES ASSUME IInv, [Next]_vars
               PROVE  (NeverTorn /\ AckedSurvives /\ Staged)'
    OBVIOUS
  <1> USE VersionsAreNat DEF IInv, TypeOK, NeverTorn, AckedSurvives, Staged
  <1>1. CASE OpenTmp
    BY <1>1 DEF OpenTmp
  <1>2. CASE WriteAll
    BY <1>2 DEF WriteAll
  <1>3. CASE SyncAll
    BY <1>3 DEF SyncAll
  <1>4. CASE Rename
    BY <1>4 DEF Rename
  <1>5. CASE SyncParentDir
    BY <1>5 DEF SyncParentDir
  <1>6. CASE Interrupt
    BY <1>6 DEF Interrupt
  <1>7. CASE PowerFailure
    BY <1>7 DEF PowerFailure
  <1>8. CASE UNCHANGED vars
    BY <1>8 DEF vars
  <1>9. QED
    BY <1>1, <1>2, <1>3, <1>4, <1>5, <1>6, <1>7, <1>8 DEF Next

LEMMA NextIInv == IInv /\ [Next]_vars => IInv'
  BY NextTypeOK, NextSafe DEF IInv

THEOREM InductiveInvariant == Spec => []IInv
  BY InitIInv, NextIInv, PTL DEF Spec

(***************************************************************************)
(* A reader never finds a torn checkpoint file, whatever write of          *)
(* write_atomic_bytes was interrupted and however.                         *)
(***************************************************************************)
THEOREM ReadersNeverSeeTornFile == Spec => []NeverTorn
  <1>1. IInv => NeverTorn
    BY DEF IInv
  <1>2. QED
    BY <1>1, InductiveInvariant, PTL

(***************************************************************************)
(* A version whose write returned Ok is never lost, neither to a killed    *)
(* process nor to a power failure.                                         *)
(***************************************************************************)
THEOREM AcknowledgedBytesSurvive == Spec => []AckedSurvives
  <1>1. IInv => AckedSurvives
    BY DEF IInv
  <1>2. QED
    BY <1>1, InductiveInvariant, PTL

LEMMA InitRegister == Init => Register!Init
  BY DEF Init, Register!Init

LEMMA NextRegister ==
  IInv /\ [Next]_vars => [Register!Next]_<<path, acked>>
  <1> SUFFICES ASSUME IInv, [Next]_vars
               PROVE  [Register!Next]_<<path, acked>>
    OBVIOUS
  <1> USE MaxWritesAssumption
      DEF IInv, TypeOK, NeverTorn, AckedSurvives, Staged, Versions, Torn,
          Register!Versions
  <1>1. CASE OpenTmp \/ WriteAll \/ SyncAll \/ Interrupt \/ UNCHANGED vars
    BY <1>1 DEF OpenTmp, WriteAll, SyncAll, Interrupt, vars
  <1>2. CASE Rename
    BY <1>2 DEF Rename, Register!Next, Register!Publish
  <1>3. CASE SyncParentDir
    BY <1>3 DEF SyncParentDir, Register!Next, Register!Acknowledge
  <1>4. CASE PowerFailure
    BY <1>4 DEF PowerFailure, Register!Next, Register!Revert
  <1>5. QED
    BY <1>1, <1>2, <1>3, <1>4 DEF Next

(***************************************************************************)
(* write_atomic_bytes implements the abstract durable register.            *)
(***************************************************************************)
THEOREM FileImplementsRegister == Spec => ImplementsRegister
  BY InitRegister, NextRegister, InductiveInvariant, PTL
     DEF Spec, ImplementsRegister, Register!Spec

=============================================================================
