---------------------------- MODULE TrainRunProof ----------------------------
(***************************************************************************)
(* Proofs about TrainRun, for every MaxStep, Keep, set of modes and set of *)
(* smoke steps, and about SavedState: whatever the parameters, the streams *)
(* and the lengths of their words, the state of a checkpoint is that of    *)
(* the job that wrote it.                                                  *)
(***************************************************************************)
EXTENDS TrainRun, SavedState, DataLemmas, FiniteSetTheorems, WellFoundedInduction, TLAPS

-----------------------------------------------------------------------------
(* Lemmas about the operators. *)

\* The order files are written in visits every extension, the sidecar last.
LEMMA OrderIsExts ==
  /\ \A i \in 1..4 : FileOrder[i] \in Exts
  /\ \A i \in 1..4 : FileOrder[i] = "sidecar" <=> i = 4
  /\ \A e \in Exts : \E i \in 1..4 : FileOrder[i] = e
  /\ \A i, j \in 1..4 : FileOrder[i] = FileOrder[j] => i = j
  /\ FileOrder[1] = "model_burn" /\ FileOrder[4] = "sidecar"
BY SMT DEF FileOrder, Exts

LEMMA StepsAreNat == Steps \subseteq Nat \ {0} /\ Steps \subseteq Int
BY MaxStepAssumption DEF Steps

LEMMA ModelsFacts ==
  /\ NoModel \in Models
  /\ \A k \in Kinds \union {Smoke} : Initialised(k) \in Models
  /\ \A k \in Kinds \union {Smoke} : Initialised(k).run = k /\ Initialised(k).step = 0
  /\ NoModel.run = None
  /\ \A k \in Runs, n \in Steps :
       /\ [run |-> k, step |-> n, totals |-> {n}] \in Models
       /\ [run |-> k, step |-> n, totals |-> {n}].run = k
BY MaxStepAssumption DEF NoModel, Models, Initialised, Steps, Runs

\* Replacing one file changes that file and no other.
LEMMA ReplaceFile ==
  ASSUME NEW f \in [Exts -> [Steps -> Models]], NEW e \in Exts, NEW n \in Steps,
         NEW m \in Models, NEW g, g = [f EXCEPT ![e][n] = m]
  PROVE  /\ g \in [Exts -> [Steps -> Models]]
         /\ g[e][n] = m
         /\ \A d \in Exts, k \in Steps : (d # e \/ k # n) => g[d][k] = f[d][k]
<1>1. [f[e] EXCEPT ![n] = m] \in [Steps -> Models]
  OBVIOUS
<1>2. g = [f EXCEPT ![e] = [f[e] EXCEPT ![n] = m]]
  OBVIOUS
<1> QED BY <1>1, <1>2

\* Retention never takes the newest checkpoint.
LEMMA NewestIsKept ==
  ASSUME NEW S \in SUBSET Steps, NEW c \in S, \A m \in S : m <= c
  PROVE  c \notin Beyond(S)
<1>1. {m \in S : m > c} = {}
  <2>1. \A m \in S : m \in Int /\ c \in Int /\ m <= c
    BY StepsAreNat
  <2>2. \A m \in S : ~(m > c)
    BY <2>1
  <2> QED BY <2>2
<1>2. Cardinality({m \in S : m > c}) = 0
  BY <1>1, FS_EmptySet
<1> QED BY <1>2, KeepAssumption DEF Beyond

-----------------------------------------------------------------------------
(* Type correctness. *)

\* What a job of this build resumes, it labels as its own.
LEMMA LabelsAreRuns == \A k \in Kinds : k \in Labels(k) /\ Labels(k) \subseteq Runs
BY DEF Labels, Runs

\* The job and the flags are the same whatever the directory holds.
LEMMA InitJob ==
  ASSUME Init
  PROVE  ModelOfJob /\ SavedSoFar
BY DEF Init, ModelOfJob, SavedSoFar

LEMMA InitTypeOK ==
  ASSUME Init, files \in [Exts -> [Steps -> Models]], runId \in Runs \union {None, TornId},
         losses \subseteq Steps, report \in [step : 0..MaxStep, complete : BOOLEAN]
  PROVE  TypeOK
<1>1. job \in [run : Kinds \union {Smoke}, target : Steps, start : 0..MaxStep]
  BY MaxStepAssumption DEF Init, Steps
<1>2. model \in Models
  BY ModelsFacts DEF Init
<1>3. lossesTorn \in BOOLEAN
  BY DEF Init
<1>4. prior \subseteq Steps /\ victims \subseteq Steps /\ at \in 1..4
  BY DEF Init
<1>5. pc = "idle" /\ exit = "none"
  BY DEF Init
<1> QED BY <1>1, <1>2, <1>3, <1>4, <1>5 DEF TypeOK

LEMMA InitIInv == Init => IInv
<1> SUFFICES ASSUME Init PROVE IInv
  OBVIOUS
<1>1. /\ "sidecar" \in Exts /\ "model_burn" \in Exts
      /\ NoModel.run = None /\ None \notin Runs /\ pc = "idle"
  BY ModelsFacts, KindsAssumption DEF Exts, Runs, Init
<1>2. CASE EmptyDirectory
  <2>1. \A e \in Exts, n \in Steps : files[e][n] = NoModel
    BY <1>2 DEF EmptyDirectory
  <2>2. TypeOK
    <3>1. files \in [Exts -> [Steps -> Models]]
      BY <1>2, ModelsFacts DEF EmptyDirectory
    <3>2. report \in [step : 0..MaxStep, complete : BOOLEAN]
      BY <1>2, MaxStepAssumption DEF EmptyDirectory, NoReport
    <3>3. runId \in Runs \union {None, TornId} /\ losses \subseteq Steps
      BY <1>2 DEF EmptyDirectory
    <3> QED BY <3>1, <3>2, <3>3, InitTypeOK
  <2>3. TopIsComplete
    <3>1. SidecarSteps = {}
      BY <1>1, <2>1 DEF SidecarSteps, Exists
    <3> QED BY <3>1 DEF TopIsComplete
  <2>4. RunIdFirst /\ OneGeneration
    BY <1>1, <2>1 DEF RunIdFirst, OneGeneration
  <2>5. ReportIsBacked
    BY <1>2 DEF EmptyDirectory, ReportIsBacked, NoReport
  <2> QED BY <2>2, <2>3, <2>4, <2>5, InitJob DEF IInv
<1>3. CASE LegacyDirectory
  <2>1. PICK k \in Legacy, t \in Steps :
          /\ runId = k
          /\ files = [e \in Exts |-> [n \in Steps |->
                 IF n = t THEN [run |-> k, step |-> t, totals |-> {t}] ELSE NoModel]]
          /\ losses = {n \in Steps : n <= t}
          /\ report = [step |-> t, complete |-> TRUE]
    BY <1>3 DEF LegacyDirectory
  <2>2. PICK m \in Models : m = [run |-> k, step |-> t, totals |-> {t}] /\ m.run = k
    BY ModelsFacts DEF Runs
  <2>3. \A e \in Exts, n \in Steps : files[e][n] = IF n = t THEN m ELSE NoModel
    BY <2>1, <2>2
  <2>4. k \in Runs /\ k # None /\ m # NoModel
    BY <1>1, <2>2 DEF Runs
  <2>5. TypeOK
    <3>1. files \in [Exts -> [Steps -> Models]]
      <4>1. files = [e \in Exts |-> [n \in Steps |-> IF n = t THEN m ELSE NoModel]]
        BY <2>1, <2>2
      <4> QED BY <4>1, ModelsFacts
    <3>2. report \in [step : 0..MaxStep, complete : BOOLEAN]
      BY <2>1, MaxStepAssumption DEF Steps
    <3>3. runId \in Runs \union {None, TornId} /\ losses \subseteq Steps
      BY <2>1, <2>4
    <3> QED BY <3>1, <3>2, <3>3, InitTypeOK
  <2>6. Complete(t) /\ NewestSidecar(t) /\ t <= t
    <3>1. \A n \in SidecarSteps : n = t
      BY <1>1, <2>3 DEF SidecarSteps, Exists
    <3>2. t <= t
      BY StepsAreNat
    <3> QED BY <1>1, <2>3, <2>4, <3>1, <3>2 DEF Complete, NewestSidecar, SidecarSteps, Exists
  <2>7. TopIsComplete
    BY <1>1, <2>6 DEF TopIsComplete
  <2>8. RunIdFirst /\ OneGeneration
    <3>1. \A n \in Steps : files["model_burn"][n].run \in Runs => n = t
      BY <1>1, <2>3
    <3>2. OneGeneration
      BY <1>1, <2>3, <3>1 DEF OneGeneration
    <3>3. RunIdFirst
      BY <1>1, <2>1, <2>4 DEF RunIdFirst
    <3> QED BY <3>2, <3>3
  <2>9. ReportIsBacked
    BY <2>1, <2>6 DEF ReportIsBacked, CompleteSteps
  <2> QED BY <2>5, <2>7, <2>8, <2>9, InitJob DEF IInv
<1> QED BY <1>2, <1>3 DEF Init

\* The step a job saves at is a step of the directory.
LEMMA SaveStepInSteps ==
  ASSUME TypeOK, ModelOfJob
  PROVE  /\ pc = "save" => model.step \in Steps /\ model.step = job.target
         /\ pc = "train" => model.step + 1 \in Steps /\ model.step \in Int /\ job.target \in Int
<1>1. job.target \in Steps /\ model.step \in 0..MaxStep
  BY DEF TypeOK, Models
<1>2. pc = "save" => model.step \in Steps /\ model.step = job.target
  BY <1>1 DEF ModelOfJob
<1>3. ASSUME pc = "train"
      PROVE  model.step + 1 \in Steps /\ model.step \in Int /\ job.target \in Int
  BY <1>1, <1>3, MaxStepAssumption DEF ModelOfJob, Steps
<1> QED BY <1>2, <1>3

\* What saving a file does to the directory.
LEMMA SaveEffect ==
  ASSUME TypeOK, ModelOfJob, SaveFile \/ SaveSidecar
  PROVE  /\ files' \in [Exts -> [Steps -> Models]]
         /\ FileOrder[at] \in Exts /\ model.step \in Steps
         /\ files'[FileOrder[at]][model.step] = model
         /\ \A d \in Exts, k \in Steps :
              (d # FileOrder[at] \/ k # model.step) => files'[d][k] = files[d][k]
<1>1. model.step \in Steps
  BY SaveStepInSteps DEF SaveFile, SaveSidecar
<1>2. FileOrder[at] \in Exts
  BY OrderIsExts DEF TypeOK
<1>3. files' = [files EXCEPT ![FileOrder[at]][model.step] = model]
  BY DEF SaveFile, SaveSidecar
<1> HIDE DEF FileOrder
<1>4. files \in [Exts -> [Steps -> Models]] /\ model \in Models
  BY DEF TypeOK
<1> QED BY <1>1, <1>2, <1>3, <1>4, ReplaceFile

\* What pruning a file of victim n does to the directory.
LEMMA PruneEffect ==
  ASSUME TypeOK, NEW n \in victims,
         files' = [files EXCEPT ![FileOrder[at]][n] = NoModel]
  PROVE  /\ files' \in [Exts -> [Steps -> Models]]
         /\ FileOrder[at] \in Exts /\ n \in Steps
         /\ files'[FileOrder[at]][n] = NoModel
         /\ \A d \in Exts, k \in Steps :
              (d # FileOrder[at] \/ k # n) => files'[d][k] = files[d][k]
<1>1. n \in Steps /\ FileOrder[at] \in Exts
  BY OrderIsExts DEF TypeOK
<1>2. files \in [Exts -> [Steps -> Models]] /\ NoModel \in Models
  BY ModelsFacts DEF TypeOK
<1> QED BY <1>1, <1>2, ReplaceFile

LEMMA NextTypeOK == IInv /\ [Next]_vars => TypeOK'
<1> SUFFICES ASSUME IInv, [Next]_vars PROVE TypeOK'
  OBVIOUS
<1> USE DEF IInv, process, directory
<1>1. ASSUME NEW k \in Kinds, NEW t \in Steps, StartFresh(k, t)
      PROVE  TypeOK'
  <2>1. job' \in [run : Kinds \union {Smoke}, target : Steps, start : 0..MaxStep]
    BY <1>1, MaxStepAssumption DEF StartFresh, Run
  <2>2. model' \in Models
    BY <1>1, ModelsFacts DEF StartFresh, Run
  <2> QED BY <1>1, <2>1, <2>2 DEF StartFresh, Run, TypeOK
<1>2. ASSUME NEW k \in Kinds, NEW t \in Steps, NEW n \in Steps, StartResume(k, t, n)
      PROVE  TypeOK'
  <2>1. job' \in [run : Kinds \union {Smoke}, target : Steps, start : 0..MaxStep]
    BY <1>2, MaxStepAssumption DEF StartResume, Run, Steps
  <2>2. model' \in Models
    <3>1. files["model_burn"][n] \in Models
      BY DEF TypeOK, Exts
    <3> QED BY <1>2, <3>1 DEF StartResume, Run, Models, Runs
  <2> QED BY <1>2, <2>1, <2>2 DEF StartResume, Run, TypeOK
<1>3. ASSUME NEW n \in SmokeSteps, StartSmoke(n)
      PROVE  TypeOK'
  <2>1. n \in Steps
    BY SmokeStepsAssumption
  <2>2. job' \in [run : Kinds \union {Smoke}, target : Steps, start : 0..MaxStep]
    BY <1>3, <2>1, MaxStepAssumption DEF StartSmoke, Run
  <2>3. n \in 0..MaxStep
    BY <2>1, MaxStepAssumption DEF Steps
  <2>4. model' \in Models
    BY <1>3, <2>1, <2>3 DEF StartSmoke, Run, Models
  <2> QED BY <1>3, <2>2, <2>4 DEF StartSmoke, Run, TypeOK
<1>4. CASE StartRejected
  BY <1>4 DEF StartRejected, TypeOK
<1>5. CASE WriteRunId
  <2>1. job.run \in Kinds
    BY <1>5 DEF WriteRunId, ModelOfJob
  <2> QED BY <1>5, <2>1 DEF WriteRunId, TypeOK, Runs
<1>6. CASE TrainStep
  <2>1. model.step + 1 \in 0..MaxStep
    BY <1>6, SaveStepInSteps, MaxStepAssumption DEF TrainStep, Steps
  <2>2. model' \in Models
    BY <1>6, <2>1 DEF TrainStep, TypeOK, Models
  <2> QED BY <1>6, <2>2 DEF TrainStep, TypeOK
<1>7. CASE GuardRejects
  BY <1>7 DEF GuardRejects, TypeOK
<1>8. CASE SaveFile
  <2>1. at' \in 1..4
    BY <1>8 DEF SaveFile, TypeOK
  <2> QED BY <1>8, <2>1, SaveEffect DEF SaveFile, TypeOK
<1>9. CASE SaveSidecar
  <2>1. victims' \subseteq Steps
    BY <1>9 DEF SaveSidecar, Beyond, CompleteSteps
  <2> QED BY <1>9, <2>1, SaveEffect DEF SaveSidecar, TypeOK
<1>10. CASE PruneFile
  <2>1. files' \in [Exts -> [Steps -> Models]]
    BY <1>10, PruneEffect DEF PruneFile
  <2>2. victims' \subseteq Steps /\ at' \in 1..4
    BY <1>10 DEF PruneFile, TypeOK
  <2> QED BY <1>10, <2>1, <2>2 DEF PruneFile, TypeOK
<1>11. CASE FinishSave
  BY <1>11 DEF FinishSave, TypeOK
<1>12. CASE TruncateLosses
  BY <1>12 DEF TruncateLosses, TypeOK
<1>13. CASE WriteLosses
  BY <1>13 DEF WriteLosses, AllLosses, TypeOK
<1>14. CASE WriteReport
  <2>1. report' \in [step : 0..MaxStep, complete : BOOLEAN]
    <3>1. job.target \in 0..MaxStep
      BY MaxStepAssumption DEF TypeOK, Steps
    <3>2. Complete(job.target) \in BOOLEAN
      BY DEF Complete
    <3> QED BY <1>14, <3>1, <3>2 DEF WriteReport
  <2> QED BY <1>14, <2>1 DEF WriteReport, TypeOK
<1>15. CASE Interrupt
  <2>1. runId' \in Runs \union {None, TornId}
    BY <1>15 DEF Interrupt, TypeOK, ModelOfJob, Runs
  <2>2. losses' \subseteq Steps /\ lossesTorn' \in BOOLEAN
    BY <1>15 DEF Interrupt, TypeOK, AllLosses
  <2>3. report' \in [step : 0..MaxStep, complete : BOOLEAN]
    <3>1. NoReport \in [step : 0..MaxStep, complete : BOOLEAN]
      BY MaxStepAssumption DEF NoReport
    <3>2. report' = report \/ report' = NoReport
      BY <1>15 DEF Interrupt
    <3> QED BY <3>1, <3>2 DEF TypeOK
  <2> QED BY <1>15, <2>1, <2>2, <2>3 DEF Interrupt, TypeOK
<1>16. CASE UNCHANGED vars
  BY <1>16 DEF vars, TypeOK
<1> QED
  BY <1>1, <1>2, <1>3, <1>4, <1>5, <1>6, <1>7, <1>8, <1>9, <1>10, <1>11, <1>12,
     <1>13, <1>14, <1>15, <1>16 DEF Next

-----------------------------------------------------------------------------
(* The parts of the inductive invariant that say what the job holds. *)

LEMMA NextModelOfJob == IInv /\ [Next]_vars => ModelOfJob'
<1> SUFFICES ASSUME IInv, [Next]_vars PROVE ModelOfJob'
  OBVIOUS
<1> USE DEF IInv, ModelOfJob, process, directory
<1>1. ASSUME NEW k \in Kinds, NEW t \in Steps, StartFresh(k, t)
      PROVE  ModelOfJob'
  BY <1>1, ModelsFacts DEF StartFresh, Run
<1>2. ASSUME NEW k \in Kinds, NEW t \in Steps, NEW n \in Steps, StartResume(k, t, n)
      PROVE  ModelOfJob'
  <2>1. n <= t /\ files["model_burn"][n].step = n /\ files["model_burn"][n] \in Models
    BY <1>2 DEF StartResume, Accepts, RecordAgrees, TypeOK, Exts
  <2>3. model'.run = k /\ model'.step = n
    BY <1>2, <2>1 DEF StartResume, Run, Models
  <2>2. n # t => n < t
    BY <2>1, StepsAreNat
  <2> QED BY <1>2, <2>1, <2>2, <2>3 DEF StartResume, Run
<1>3. ASSUME NEW n \in SmokeSteps, StartSmoke(n)
      PROVE  ModelOfJob'
  BY <1>3 DEF StartSmoke, Run
<1>4. CASE StartRejected
  BY <1>4 DEF StartRejected
<1>5. CASE WriteRunId
  <2>1. 0 < job.target
    <3>1. job.target \in Steps
      BY DEF TypeOK
    <3>2. \A n \in Steps : 0 < n
      BY StepsAreNat
    <3> QED BY <3>1, <3>2
  <2> QED BY <1>5, <2>1 DEF WriteRunId
<1>6. CASE TrainStep
  <2>1. model'.run = model.run /\ model'.step = model.step + 1
    BY <1>6 DEF TrainStep, TypeOK, Models
  <2>2. model.step + 1 # job.target => model.step + 1 < job.target
    BY <1>6, SaveStepInSteps DEF TrainStep
  <2> QED BY <1>6, <2>1, <2>2 DEF TrainStep
<1>7. CASE GuardRejects \/ TruncateLosses \/ WriteLosses \/ WriteReport \/ Interrupt
  BY <1>7 DEF GuardRejects, TruncateLosses, WriteLosses, WriteReport, Interrupt
<1>8. CASE SaveFile
  BY <1>8 DEF SaveFile
<1>10. CASE SaveSidecar \/ PruneFile
  BY <1>10 DEF SaveSidecar, PruneFile
<1>11. CASE FinishSave
  BY <1>11 DEF FinishSave
<1>9. CASE UNCHANGED vars
  BY <1>9 DEF vars
<1> QED BY <1>1, <1>2, <1>3, <1>4, <1>5, <1>6, <1>7, <1>8, <1>9, <1>10, <1>11 DEF Next

LEMMA NextSavedSoFar == IInv /\ [Next]_vars => SavedSoFar'
<1> SUFFICES ASSUME IInv, [Next]_vars PROVE SavedSoFar'
  OBVIOUS
<1> USE DEF IInv, SavedSoFar, process, directory
<1>a. at \in 1..4
  BY DEF TypeOK
<1>1. ASSUME NEW k \in Kinds, NEW t \in Steps, StartFresh(k, t)
      PROVE  SavedSoFar'
  BY <1>1 DEF StartFresh
<1>2. ASSUME NEW k \in Kinds, NEW t \in Steps, NEW n \in Steps, StartResume(k, t, n)
      PROVE  SavedSoFar'
  BY <1>2 DEF StartResume
<1>3. ASSUME NEW n \in SmokeSteps, StartSmoke(n)
      PROVE  SavedSoFar'
  BY <1>3 DEF StartSmoke, Run
<1>4. CASE StartRejected
  BY <1>4 DEF StartRejected
<1>5. CASE WriteRunId
  BY <1>5 DEF WriteRunId
<1>6. CASE TrainStep
  BY <1>6 DEF TrainStep, ModelOfJob
<1>7. CASE GuardRejects \/ TruncateLosses \/ WriteLosses \/ WriteReport \/ Interrupt
  BY <1>7 DEF GuardRejects, TruncateLosses, WriteLosses, WriteReport, Interrupt
<1>8. CASE SaveFile
  <2>1. pc' = "save" /\ at' = at + 1 /\ model' = model
    BY <1>8 DEF SaveFile
  <2>2. ASSUME NEW i \in 1..4, i < at'
        PROVE  files'[FileOrder[i]][model.step] = model
    <3>1. CASE i = at
      BY <1>8, <3>1, SaveEffect
    <3>2. CASE i < at
      <4>1. files[FileOrder[i]][model.step] = model
        BY <1>8, <3>2 DEF SaveFile
      <4>2. FileOrder[i] # FileOrder[at] /\ FileOrder[i] \in Exts
        BY <1>a, <3>2, OrderIsExts
      <4> QED BY <1>8, <4>1, <4>2, SaveEffect
    <3> QED BY <1>a, <2>1, <2>2, <3>1, <3>2
  <2> QED BY <2>1, <2>2
<1>9. CASE SaveSidecar
  BY <1>9 DEF SaveSidecar
<1>10. CASE PruneFile
  <2>1. PICK n \in victims :
          /\ \A m \in victims : n <= m
          /\ files' = [files EXCEPT ![FileOrder[at]][n] = NoModel]
          /\ at' = IF at = 4 THEN 1 ELSE at + 1
          /\ victims' = IF at = 4 THEN victims \ {n} ELSE victims
    BY <1>10 DEF PruneFile
  <2>2. pc = "prune" /\ pc' = "prune"
    BY <1>10 DEF PruneFile
  <2>3. ASSUME at' > 1, NEW k \in victims', \A m \in victims' : k <= m
        PROVE  files'["model_burn"][k] = NoModel
    <3>1. at # 4 /\ victims' = victims
      BY <2>1, <2>3
    <3>2. k = n
      <4>1. k \in Int /\ n \in Int /\ n <= k /\ k <= n
        BY <2>1, <2>3, <3>1, StepsAreNat DEF TypeOK
      <4> QED BY <4>1
    <3>3. CASE at = 1
      BY <2>1, <3>2, <3>3, PruneEffect, OrderIsExts
    <3>4. CASE at > 1
      <4>1. files["model_burn"][n] = NoModel
        BY <2>1, <2>2, <3>4 DEF Exists
      <4>2. FileOrder[at] # "model_burn" /\ "model_burn" \in Exts /\ n \in Steps
        BY <1>a, <3>4, OrderIsExts, <2>1 DEF TypeOK, Exts
      <4> QED BY <2>1, <3>2, <4>1, <4>2, PruneEffect
    <3> QED BY <1>a, <3>3, <3>4
  <2> QED BY <2>2, <2>3 DEF Exists
<1>11. CASE FinishSave
  BY <1>11 DEF FinishSave
<1>12. CASE UNCHANGED vars
  BY <1>12 DEF vars, Exists
<1> QED BY <1>1, <1>2, <1>3, <1>4, <1>5, <1>6, <1>7, <1>8, <1>9, <1>10, <1>11, <1>12 DEF Next

-----------------------------------------------------------------------------
(* Completeness of checkpoints across saving and pruning. *)

\* A file of the save in progress never counts as absent.
LEMMA SavedModelIsThere ==
  ASSUME IInv, pc = "save"
  PROVE  model # NoModel
<1>1. model.run = job.run /\ job.run \in Kinds \union {Smoke}
  BY DEF IInv, ModelOfJob, TypeOK
<1> QED BY <1>1, ModelsFacts, KindsAssumption

\* Saving removes nothing.
LEMMA SaveKeepsFiles ==
  ASSUME IInv, SaveFile \/ SaveSidecar
  PROVE  /\ \A e \in Exts, n \in Steps : Exists(e, n) => Exists(e, n)'
         /\ \A n \in Steps : Complete(n) => Complete(n)'
<1>1. pc = "save"
  BY DEF SaveFile, SaveSidecar
<1>2. model # NoModel
  BY <1>1, SavedModelIsThere
<1>3. ASSUME NEW e \in Exts, NEW n \in Steps, Exists(e, n)
      PROVE  Exists(e, n)'
  <2>1. CASE e = FileOrder[at] /\ n = model.step
    BY <1>2, <2>1, SaveEffect DEF IInv, Exists
  <2>2. CASE e # FileOrder[at] \/ n # model.step
    <3>1. files'[e][n] = files[e][n]
      BY <2>2, SaveEffect DEF IInv
    <3> QED BY <1>3, <3>1 DEF Exists
  <2> QED BY <2>1, <2>2
<1> QED BY <1>3 DEF Complete

\* The sidecar completes the checkpoint.
LEMMA SidecarCompletes ==
  ASSUME IInv, SaveSidecar, NEW n \in Steps, n = model.step
  PROVE  /\ \A e \in Exts : files'[e][n] = model
         /\ Complete(n)'
<1>1. pc = "save" /\ at = 4
  BY DEF SaveSidecar
<1>2. ASSUME NEW e \in Exts
      PROVE  files'[e][n] = model
  <2>1. PICK i \in 1..4 : FileOrder[i] = e
    BY OrderIsExts
  <2>2. CASE i = 4
    BY <1>1, <2>1, <2>2, SaveEffect DEF IInv
  <2>3. CASE i # 4
    <3>1. files[e][n] = model
      BY <1>1, <2>1, <2>3 DEF IInv, SavedSoFar
    <3>2. e # FileOrder[at]
      BY <1>1, <2>1, <2>3, OrderIsExts
    <3> QED BY <3>1, <3>2, SaveEffect DEF IInv
  <2> QED BY <2>2, <2>3
<1> QED BY <1>1, <1>2, SavedModelIsThere DEF Complete, Exists

LEMMA NextTopIsComplete == IInv /\ [Next]_vars => TopIsComplete'
<1> SUFFICES ASSUME IInv, [Next]_vars, SidecarSteps' # {}
             PROVE  \E c \in Steps : /\ NewestSidecar(c)' /\ Complete(c)'
                                     /\ pc' = "prune" => c \notin victims'
  BY DEF TopIsComplete
<1> USE DEF process, directory
<1>1. ASSUME UNCHANGED files, pc' # "prune" \/ (pc = "prune" /\ UNCHANGED victims)
      PROVE  \E c \in Steps : /\ NewestSidecar(c)' /\ Complete(c)'
                              /\ pc' = "prune" => c \notin victims'
  <2>1. SidecarSteps' = SidecarSteps
    BY <1>1 DEF SidecarSteps, Exists
  <2>2. PICK c \in Steps : /\ NewestSidecar(c) /\ Complete(c)
                           /\ pc = "prune" => c \notin victims
    BY <2>1 DEF IInv, TopIsComplete
  <2>3. NewestSidecar(c)'
    BY <2>1, <2>2 DEF NewestSidecar
  <2>4. Complete(c)'
    BY <1>1, <2>2 DEF Complete, Exists
  <2> QED BY <1>1, <2>2, <2>3, <2>4
<1>2. CASE \E k \in Kinds, t \in Steps : StartFresh(k, t)
  BY <1>1, <1>2 DEF StartFresh
<1>3. CASE \E k \in Kinds, t \in Steps, n \in Steps : StartResume(k, t, n)
  BY <1>1, <1>3 DEF StartResume
<1>4. CASE \E n \in SmokeSteps : StartSmoke(n)
  BY <1>1, <1>4 DEF StartSmoke
<1>5. CASE StartRejected \/ WriteRunId \/ TrainStep \/ GuardRejects
  BY <1>1, <1>5 DEF StartRejected, WriteRunId, TrainStep, GuardRejects
<1>6. CASE FinishSave \/ TruncateLosses \/ WriteLosses \/ WriteReport \/ Interrupt
  BY <1>1, <1>6 DEF FinishSave, TruncateLosses, WriteLosses, WriteReport, Interrupt
<1>7. CASE SaveFile
  <2>1. "sidecar" \in Exts /\ FileOrder[at] # "sidecar"
    BY <1>7, OrderIsExts DEF SaveFile, IInv, TypeOK, Exts
  <2>2. \A n \in Steps : files'["sidecar"][n] = files["sidecar"][n]
    BY <1>7, <2>1, SaveEffect DEF IInv
  <2>3. SidecarSteps' = SidecarSteps
    BY <2>2 DEF SidecarSteps, Exists
  <2>4. PICK c \in Steps : NewestSidecar(c) /\ Complete(c)
    BY <2>3 DEF IInv, TopIsComplete
  <2>5. NewestSidecar(c)' /\ Complete(c)'
    BY <1>7, <2>3, <2>4, SaveKeepsFiles DEF NewestSidecar
  <2> QED BY <1>7, <2>5 DEF SaveFile
<1>8. CASE SaveSidecar
  <2>0. PICK n \in Steps : n = model.step
    BY <1>8, SaveEffect DEF IInv
  <2>1. Complete(n)'
    BY <1>8, <2>0, SidecarCompletes
  <2>2. "sidecar" \in Exts /\ FileOrder[at] = "sidecar"
    BY <1>8, OrderIsExts DEF SaveSidecar, Exts
  <2>3. SidecarSteps' = SidecarSteps \union {n}
    <3>1. \A k \in Steps : k # n => files'["sidecar"][k] = files["sidecar"][k]
      BY <1>8, <2>0, <2>2, SaveEffect DEF IInv
    <3>2. files'["sidecar"][n] # NoModel
      BY <2>1, <2>2 DEF Complete, Exists
    <3> QED BY <2>1, <3>1, <3>2 DEF SidecarSteps, Exists
  <2>4. PICK c \in Steps : NewestSidecar(c)' /\ Complete(c)'
    <3>1. CASE SidecarSteps = {}
      <4>1. NewestSidecar(n)'
        BY <2>1, <2>3, <3>1, StepsAreNat DEF NewestSidecar
      <4> QED BY <2>1, <4>1
    <3>2. CASE SidecarSteps # {}
      <4>1. PICK d \in Steps : NewestSidecar(d) /\ Complete(d)
        BY <3>2 DEF IInv, TopIsComplete
      <4>2. CASE n <= d
        <5>1. NewestSidecar(d)'
          BY <2>3, <4>1, <4>2 DEF NewestSidecar
        <5> QED BY <1>8, <4>1, <5>1, SaveKeepsFiles
      <4>3. CASE ~(n <= d)
        <5>1. \A m \in SidecarSteps : m \in Int /\ m <= d
          BY <4>1, StepsAreNat DEF NewestSidecar, SidecarSteps
        <5>2. d \in Int /\ n \in Int
          BY <2>1, StepsAreNat
        <5>3. \A m \in SidecarSteps : m <= n
          BY <4>3, <5>1, <5>2
        <5>4. NewestSidecar(n)'
          BY <2>3, <5>2, <5>3 DEF NewestSidecar
        <5> QED BY <2>1, <5>4
      <4> QED BY <4>2, <4>3
    <3> QED BY <3>1, <3>2
  <2>5. c \notin victims'
    <3>1. CompleteSteps' \subseteq SidecarSteps' /\ CompleteSteps' \in SUBSET Steps
      BY DEF CompleteSteps, SidecarSteps, Complete, Exts
    <3>2. c \in CompleteSteps' /\ \A m \in CompleteSteps' : m <= c
      BY <2>4, <3>1 DEF NewestSidecar, CompleteSteps
    <3>3. c \notin Beyond(CompleteSteps')
      BY <3>1, <3>2, NewestIsKept
    <3> QED BY <1>8, <3>3 DEF SaveSidecar, Beyond
  <2> QED BY <2>4, <2>5
<1>9. CASE PruneFile
  <2>1. PICK n \in victims :
          /\ files' = [files EXCEPT ![FileOrder[at]][n] = NoModel]
          /\ victims' = IF at = 4 THEN victims \ {n} ELSE victims
    BY <1>9 DEF PruneFile
  <2>2. \A e \in Exts, k \in Steps : Exists(e, k)' => Exists(e, k)
    BY <2>1, PruneEffect DEF IInv, Exists
  <2>3. \A e \in Exts, k \in Steps : (k # n /\ Exists(e, k)) => Exists(e, k)'
    BY <2>1, PruneEffect DEF IInv, Exists
  <2>4. SidecarSteps' \subseteq SidecarSteps
    BY <2>2 DEF SidecarSteps, Exts
  <2>5. PICK c \in Steps : NewestSidecar(c) /\ Complete(c) /\ c \notin victims
    BY <1>9, <2>4 DEF PruneFile, IInv, TopIsComplete
  <2>6. Complete(c)'
    BY <2>1, <2>3, <2>5 DEF Complete
  <2>7. NewestSidecar(c)'
    BY <2>4, <2>5, <2>6 DEF NewestSidecar, SidecarSteps, Complete, Exts
  <2>8. c \notin victims'
    BY <2>1, <2>5
  <2> QED BY <2>6, <2>7, <2>8
<1>10. CASE UNCHANGED vars
  BY <1>1, <1>10 DEF vars
<1> QED BY <1>2, <1>3, <1>4, <1>5, <1>6, <1>7, <1>8, <1>9, <1>10 DEF Next

-----------------------------------------------------------------------------
(* Whose files a step of the directory can hold. *)

LEMMA NextRunIdFirst == IInv /\ [Next]_vars => RunIdFirst'
<1> SUFFICES ASSUME IInv, [Next]_vars PROVE RunIdFirst'
  OBVIOUS
<1> USE DEF IInv, process, directory
<1>a. /\ "sidecar" \in Exts /\ None \notin Runs /\ Smoke \notin Runs /\ NoModel.run = None
      /\ Kinds \subseteq Runs
  BY KindsAssumption, ModelsFacts DEF Exts, Runs
<1>1. ASSUME NEW k \in Kinds, NEW t \in Steps, StartFresh(k, t)
      PROVE  RunIdFirst'
  BY <1>1 DEF StartFresh, Run, RunIdFirst
<1>2. ASSUME NEW k \in Kinds, NEW t \in Steps, NEW n \in Steps, StartResume(k, t, n)
      PROVE  RunIdFirst'
  <2>1. runId \in Labels(k) /\ NewestSidecar(n) /\ n <= t
    BY <1>2 DEF StartResume, Accepts, Detects
  <2>4. runId # None
    BY <1>a, <2>1, LabelsAreRuns
  <2>2. n # t => t \notin SidecarSteps
    BY <2>1, StepsAreNat DEF NewestSidecar
  <2>3. n # t => files["sidecar"][t].run \notin Runs
    BY <1>a, <2>2 DEF SidecarSteps, Exists
  <2> QED BY <1>2, <1>a, <2>1, <2>3, <2>4 DEF StartResume, Run, RunIdFirst
<1>3. ASSUME NEW n \in SmokeSteps, StartSmoke(n)
      PROVE  RunIdFirst'
  BY <1>3, <1>a DEF StartSmoke, Run, RunIdFirst
<1>4. CASE StartRejected
  BY <1>4 DEF StartRejected, RunIdFirst
<1>5. CASE WriteRunId
  BY <1>5, <1>a, LabelsAreRuns DEF WriteRunId, RunIdFirst, ModelOfJob
<1>6. CASE TrainStep
  BY <1>6 DEF TrainStep, RunIdFirst
<1>7. CASE GuardRejects \/ TruncateLosses \/ WriteLosses \/ WriteReport \/ FinishSave
  BY <1>7 DEF GuardRejects, TruncateLosses, WriteLosses, WriteReport, FinishSave, RunIdFirst
<1>8. CASE Interrupt
  BY <1>8 DEF Interrupt, RunIdFirst
<1>9. CASE SaveFile
  <2>1. FileOrder[at] # "sidecar"
    BY <1>9, OrderIsExts DEF SaveFile, TypeOK
  <2>2. \A n \in Steps : files'["sidecar"][n] = files["sidecar"][n]
    BY <1>9, <1>a, <2>1, SaveEffect
  <2>3. job.target \in Steps
    BY DEF TypeOK
  <2> QED BY <1>9, <2>2, <2>3 DEF SaveFile, RunIdFirst
<1>10. CASE SaveSidecar
  <2>1. ASSUME runId = None
        PROVE  model.run \notin Runs
    <3>1. job.run \notin Kinds
      BY <1>10, <1>a, <2>1, LabelsAreRuns DEF SaveSidecar, RunIdFirst
    <3>2. job.run = Smoke
      BY <3>1 DEF TypeOK
    <3> QED BY <1>10, <1>a, <3>2 DEF SaveSidecar, ModelOfJob
  <2>2. FileOrder[at] = "sidecar"
    BY <1>10, OrderIsExts DEF SaveSidecar
  <2>3. \A n \in Steps : files'["sidecar"][n] = files["sidecar"][n] \/ files'["sidecar"][n] = model
    BY <1>10, <1>a, <2>2, SaveEffect
  <2> QED BY <1>10, <2>1, <2>3 DEF SaveSidecar, RunIdFirst
<1>11. CASE PruneFile
  <2>1. \A n \in Steps : files'["sidecar"][n] = files["sidecar"][n] \/ files'["sidecar"][n] = NoModel
    BY <1>11, <1>a, PruneEffect DEF PruneFile
  <2> QED BY <1>11, <1>a, <2>1 DEF PruneFile, RunIdFirst
<1>12. CASE UNCHANGED vars
  BY <1>12 DEF vars, RunIdFirst
<1> QED BY <1>1, <1>2, <1>3, <1>4, <1>5, <1>6, <1>7, <1>8, <1>9, <1>10, <1>11, <1>12 DEF Next

LEMMA NextOneGeneration == IInv /\ [Next]_vars => OneGeneration'
<1> SUFFICES ASSUME IInv, [Next]_vars PROVE OneGeneration'
  OBVIOUS
<1> USE DEF IInv, process, directory
<1>a. /\ "sidecar" \in Exts /\ "model_burn" \in Exts
      /\ None \notin Runs /\ Smoke \notin Runs /\ NoModel.run = None
  BY KindsAssumption, ModelsFacts DEF Exts, Runs
<1>1. CASE UNCHANGED files
  BY <1>1 DEF OneGeneration
<1>2. CASE SaveFile
  <2>1. pc = "save" /\ at \in 1..4 /\ at # 4
    BY <1>2 DEF SaveFile, TypeOK
  <2>2. FileOrder[at] # "sidecar"
    BY <2>1, OrderIsExts
  <2>3. PICK n \in Steps : n = model.step
    BY <1>2, SaveEffect
  <2>4. ASSUME job.run \in Kinds
        PROVE  files'["sidecar"][n].run \notin Runs
    BY <1>2, <1>a, <2>1, <2>2, <2>3, <2>4, SaveEffect DEF RunIdFirst, ModelOfJob
  <2>5. ASSUME job.run \notin Runs
        PROVE  files'["model_burn"][n].run \notin Runs
    <3>1. model.run \notin Runs
      BY <2>1, <2>5 DEF ModelOfJob
    <3>2. CASE at = 1
      BY <1>2, <2>3, <3>1, <3>2, OrderIsExts, SaveEffect
    <3>3. CASE at # 1
      <4>1. files["model_burn"][n] = model
        <5>1. 1 \in 1..4 /\ 1 < at
          BY <2>1, <3>3
        <5> QED BY <2>1, <2>3, <5>1, OrderIsExts DEF SavedSoFar
      <4>2. FileOrder[at] # "model_burn"
        BY <2>1, <3>3, OrderIsExts
      <4> QED BY <1>2, <1>a, <3>1, <4>1, <4>2, SaveEffect
    <3> QED BY <3>2, <3>3
  <2>6. \A e \in Exts, k \in Steps : k # n => files'[e][k] = files[e][k]
    BY <1>2, <2>3, SaveEffect
  <2>7. job.run \in Kinds \/ job.run \notin Runs
    BY <1>a DEF TypeOK
  <2> QED BY <1>a, <2>4, <2>5, <2>6, <2>7 DEF OneGeneration
<1>3. CASE SaveSidecar
  <2>1. PICK n \in Steps : n = model.step
    BY <1>3, SaveEffect
  <2>2. \A e \in Exts : files'[e][n] = model
    BY <1>3, <2>1, SidecarCompletes
  <2>3. \A e \in Exts, k \in Steps : k # n => files'[e][k] = files[e][k]
    BY <1>3, <2>1, SaveEffect
  <2> QED BY <1>a, <2>2, <2>3 DEF OneGeneration
<1>4. CASE PruneFile
  <2>1. PICK n \in victims :
          /\ \A m \in victims : n <= m
          /\ files' = [files EXCEPT ![FileOrder[at]][n] = NoModel]
    BY <1>4 DEF PruneFile
  <2>2. files'["model_burn"][n] = NoModel
    <3>1. CASE at = 1
      BY <2>1, <3>1, OrderIsExts, PruneEffect
    <3>2. CASE at # 1
      <4>1. at > 1 /\ at \in 1..4
        BY <3>2 DEF TypeOK
      <4>2. files["model_burn"][n] = NoModel
        BY <1>4, <2>1, <4>1 DEF PruneFile, SavedSoFar, Exists
      <4>3. FileOrder[at] # "model_burn" /\ n \in Steps
        BY <2>1, <4>1, OrderIsExts DEF TypeOK
      <4> QED BY <1>a, <2>1, <4>2, <4>3, PruneEffect
    <3> QED BY <3>1, <3>2
  <2>3. \A e \in Exts, k \in Steps : k # n => files'[e][k] = files[e][k]
    BY <2>1, PruneEffect
  <2> QED BY <1>a, <2>2, <2>3 DEF OneGeneration
<1> QED
  BY <1>1, <1>2, <1>3, <1>4
  DEF Next, StartFresh, StartResume, StartSmoke, StartRejected, WriteRunId, TrainStep,
      GuardRejects, FinishSave, TruncateLosses, WriteLosses, WriteReport, Interrupt, vars

-----------------------------------------------------------------------------
(* The newest complete checkpoint never gets older. *)

LEMMA NewestStays ==
  IInv /\ [Next]_vars => \A n \in CompleteSteps : \E m \in CompleteSteps' : n <= m
<1> SUFFICES ASSUME IInv, [Next]_vars, NEW n \in Steps, Complete(n)
             PROVE  \E m \in CompleteSteps' : n <= m
  BY DEF CompleteSteps
<1> USE DEF process, directory
<1>a. n <= n
  BY StepsAreNat
<1>1. CASE UNCHANGED files
  <2>1. Complete(n)'
    BY <1>1 DEF Complete, Exists
  <2> QED BY <1>a, <2>1 DEF CompleteSteps
<1>2. CASE SaveFile \/ SaveSidecar
  <2>1. Complete(n)'
    BY <1>2, SaveKeepsFiles
  <2> QED BY <1>a, <2>1 DEF CompleteSteps
<1>3. CASE PruneFile
  <2>1. PICK v \in victims : files' = [files EXCEPT ![FileOrder[at]][v] = NoModel]
    BY <1>3 DEF PruneFile
  <2>2. n \in SidecarSteps
    BY DEF SidecarSteps, Complete, Exts
  <2>3. PICK c \in Steps : NewestSidecar(c) /\ Complete(c) /\ c \notin victims
    BY <1>3, <2>2 DEF PruneFile, IInv, TopIsComplete
  <2>4. n <= c
    BY <2>2, <2>3 DEF NewestSidecar
  <2>5. \A e \in Exts : Exists(e, c)'
    BY <2>1, <2>3, PruneEffect DEF IInv, Exists, Complete
  <2> QED BY <2>3, <2>4, <2>5 DEF CompleteSteps, Complete
<1> QED
  BY <1>1, <1>2, <1>3
  DEF Next, StartFresh, StartResume, StartSmoke, StartRejected, WriteRunId, TrainStep,
      GuardRejects, FinishSave, TruncateLosses, WriteLosses, WriteReport, Interrupt, vars

LEMMA NextReportIsBacked == IInv /\ [Next]_vars => ReportIsBacked'
<1> SUFFICES ASSUME IInv, [Next]_vars, report'.complete
             PROVE  \E m \in CompleteSteps' : report'.step <= m
  BY DEF ReportIsBacked
<1> USE DEF process, directory
<1>1. CASE UNCHANGED report
  <2>1. PICK n \in CompleteSteps : report.step <= n
    BY <1>1 DEF IInv, ReportIsBacked
  <2>2. PICK m \in CompleteSteps' : n <= m
    BY <2>1, NewestStays
  <2>3. report.step \in Int /\ n \in Int /\ m \in Int
    BY <2>1, <2>2, StepsAreNat, MaxStepAssumption DEF IInv, TypeOK, CompleteSteps
  <2> QED BY <1>1, <2>1, <2>2, <2>3
<1>2. CASE WriteReport
  <2>1. report'.step = job.target /\ Complete(job.target)
    BY <1>2 DEF WriteReport
  <2>2. job.target \in CompleteSteps'
    BY <1>2, <2>1 DEF WriteReport, IInv, TypeOK, CompleteSteps, Complete, Exists
  <2>3. job.target \in Int
    BY StepsAreNat DEF IInv, TypeOK
  <2> QED BY <2>1, <2>2, <2>3
<1>3. CASE Interrupt
  <2>1. report' = report \/ report' = NoReport
    BY <1>3 DEF Interrupt
  <2> QED BY <1>1, <2>1 DEF NoReport
<1> QED
  BY <1>1, <1>2, <1>3
  DEF Next, StartFresh, StartResume, StartSmoke, StartRejected, WriteRunId, TrainStep,
      GuardRejects, SaveFile, SaveSidecar, PruneFile, FinishSave, TruncateLosses,
      WriteLosses, vars

-----------------------------------------------------------------------------
(* Retention. *)

\* A set of steps that is not empty has a least member.
LEMMA LeastStep ==
  ASSUME NEW S \in SUBSET Steps, S # {}
  PROVE  \E n \in S : \A m \in S : n <= m
<1> DEFINE R == OpToRel(<, Nat)
<1>1. IsWellFoundedOn(R, Nat)
  BY NatLessThanWellFounded
<1>2. S \subseteq Nat
  BY StepsAreNat
<1>3. PICK n \in S : \A m \in S : ~(<<m, n>> \in R)
  BY <1>1, <1>2, WFMin
<1>4. \A m \in S : ~(m < n)
  BY <1>2, <1>3 DEF OpToRel
<1> QED BY <1>2, <1>4

LEMMA StepsAreFinite == \A S \in SUBSET Steps : IsFiniteSet(S) /\ Cardinality(S) \in Nat
<1>1. IsFiniteSet(Steps)
  BY FS_Interval, MaxStepAssumption DEF Steps
<1>2. \A S \in SUBSET Steps : IsFiniteSet(S)
  BY <1>1, FS_Subset
<1> QED BY <1>2, FS_CardinalityType

\* Retention leaves at most Keep: the least one it leaves has fewer than Keep
\* above it, and all the others are above it.
LEMMA KeepRemain ==
  ASSUME NEW S \in SUBSET Steps
  PROVE  Cardinality(S \ Beyond(S)) <= Keep
<1> DEFINE T == S \ Beyond(S)
<1>0. T \in SUBSET Steps /\ Keep \in Nat /\ Keep > 0
  BY KeepAssumption
<1>1. CASE T = {}
  BY <1>0, <1>1, FS_EmptySet
<1>2. CASE T # {}
  <2>1. PICK n \in T : \A m \in T : n <= m
    BY <1>0, <1>2, LeastStep
  <2> DEFINE above == {m \in S : m > n}
  <2>2. above \in SUBSET Steps /\ IsFiniteSet(above) /\ Cardinality(above) \in Nat
    BY StepsAreFinite
  <2>3. Cardinality(above) < Keep
    BY <1>0, <2>1, <2>2 DEF Beyond
  <2>4. T \ {n} \in SUBSET above
    <3>1. \A m \in T \ {n} : m \in Int /\ n \in Int /\ n <= m /\ m # n
      BY <1>0, <2>1, StepsAreNat
    <3> QED BY <3>1
  <2>5. Cardinality(T \ {n}) <= Cardinality(above)
    BY <2>2, <2>4, FS_Subset
  <2>6. IsFiniteSet(T) /\ Cardinality(T) \in Nat
    BY <1>0, StepsAreFinite
  <2>7. Cardinality(T \ {n}) = Cardinality(T) - 1
    BY <2>1, <2>6, FS_RemoveElement
  <2> QED BY <1>0, <2>2, <2>3, <2>5, <2>6, <2>7
<1> QED BY <1>1, <1>2

\* While a prune runs, what it will leave fits.
RetentionInv == pc = "prune" => Cardinality(CompleteSteps \ victims) <= Keep

LEMMA NextRetention == IInv /\ RetentionInv /\ [Next]_vars => RetentionInv'
<1> SUFFICES ASSUME IInv, RetentionInv, [Next]_vars, pc' = "prune"
             PROVE  Cardinality(CompleteSteps' \ victims') <= Keep
  BY DEF RetentionInv
<1> USE DEF process, directory
<1>1. CASE SaveSidecar
  <2>1. CompleteSteps' \in SUBSET Steps
    BY DEF CompleteSteps
  <2>2. victims' = Beyond(CompleteSteps')
    BY <1>1 DEF SaveSidecar
  <2> QED BY <2>1, <2>2, KeepRemain
<1>2. CASE PruneFile
  <2>1. PICK n \in victims :
          /\ \A m \in victims : n <= m
          /\ files' = [files EXCEPT ![FileOrder[at]][n] = NoModel]
          /\ at' = IF at = 4 THEN 1 ELSE at + 1
          /\ victims' = IF at = 4 THEN victims \ {n} ELSE victims
    BY <1>2 DEF PruneFile
  <2>2. TypeOK /\ pc = "prune" /\ at \in 1..4 /\ n \in Steps
    BY <1>2, <2>1 DEF IInv, TypeOK, PruneFile
  <2>3. \A d \in Exts, k \in Steps : k # n => files'[d][k] = files[d][k]
    BY <2>1, <2>2, PruneEffect
  <2>4. ~Complete(n)'
    <3>1. FileOrder[at] \in Exts /\ files'[FileOrder[at]][n] = NoModel
      BY <2>1, <2>2, PruneEffect
    <3> QED BY <3>1 DEF Complete, Exists
  <2>5. CompleteSteps' \ victims' \in SUBSET (CompleteSteps \ victims)
    <3>1. ASSUME NEW k \in Steps, Complete(k)', k \notin victims'
          PROVE  Complete(k) /\ k \notin victims
      <4>1. k # n
        BY <2>4, <3>1
      <4>2. Complete(k)
        BY <2>3, <3>1, <4>1 DEF Complete, Exists
      <4> QED BY <2>1, <3>1, <4>1, <4>2
    <3> QED BY <3>1 DEF CompleteSteps
  <2>6. CompleteSteps \ victims \in SUBSET Steps
    BY DEF CompleteSteps
  <2>7. /\ IsFiniteSet(CompleteSteps \ victims) /\ Cardinality(CompleteSteps \ victims) \in Nat
        /\ Cardinality(CompleteSteps' \ victims') \in Nat
    BY <2>5, <2>6, StepsAreFinite
  <2>8. Cardinality(CompleteSteps' \ victims') <= Cardinality(CompleteSteps \ victims)
    BY <2>5, <2>7, FS_Subset
  <2> QED BY <2>2, <2>7, <2>8, KeepAssumption DEF RetentionInv
<1>3. CASE UNCHANGED vars
  <2>1. CompleteSteps' = CompleteSteps /\ victims' = victims /\ pc = "prune"
    BY <1>3 DEF vars, CompleteSteps, Complete, Exists
  <2> QED BY <2>1 DEF RetentionInv
<1> QED
  BY <1>1, <1>2, <1>3 DEF Next, StartFresh, StartResume, StartSmoke, StartRejected, WriteRunId,
     TrainStep, GuardRejects, SaveFile, FinishSave, TruncateLosses, WriteLosses, WriteReport,
     Interrupt

LEMMA RetentionIsEnough == RetentionInv => RetentionRestored
<1> SUFFICES ASSUME RetentionInv, pc = "prune", victims = {}
             PROVE  Cardinality(CompleteSteps) <= Keep
  BY DEF RetentionRestored
<1>1. CompleteSteps \ victims = CompleteSteps
  OBVIOUS
<1> QED BY <1>1 DEF RetentionInv

-----------------------------------------------------------------------------
(* Resumability, in directories of one build without smoke jobs.           *)

OneBuild == SmokeSteps = {} /\ Legacy = {}

\* A file is a training model of its own step.
FilesOfTraining ==
  \A e \in Exts, n \in Steps :
    Exists(e, n) => files[e][n].run \in Kinds /\ files[e][n].step = n

\* The job goes on from where its directory ends.
JobGoesOn ==
  pc # "idle" =>
    /\ job.run \in Kinds /\ job.start <= job.target
    /\ prior = {} \/ (job.start \in prior /\ \A m \in prior : m <= job.start)
    /\ pc \in {"run_id", "train", "save"} =>
         job.start < job.target /\ \A n \in SidecarSteps : n <= job.target

\* From the save on, its checkpoint is the newest and is of this run.
JobSaved ==
  /\ pc \in {"prune", "truncate", "losses", "report"} =>
       /\ NewestSidecar(job.target)
       /\ files["sidecar"][job.target].run = runId
       /\ runId = job.run
  /\ pc \in {"losses", "report"} => ~lossesTorn
  /\ pc = "report" => losses = AllLosses

ResumeInv == FilesOfTraining /\ JobGoesOn /\ JobSaved /\ SuccessIsResumable

LEMMA StepsOrder ==
  \A n \in Steps : n \in Int /\ n <= n /\ {m \in Steps : n < m /\ m <= n} = {}
<1> TAKE n \in Steps
<1>1. n \in Int /\ \A m \in Steps : m \in Int
  BY StepsAreNat
<1>2. n <= n
  BY <1>1
<1>3. ASSUME NEW m \in Steps, n < m, m <= n PROVE FALSE
  BY <1>1, <1>3
<1>4. {m \in Steps : n < m /\ m <= n} = {}
  BY <1>3
<1> QED BY <1>1, <1>2, <1>4

LEMMA OneBuildLabels ==
  ASSUME OneBuild
  PROVE  Runs = Kinds /\ \A k \in Kinds : Labels(k) = {k}
BY DEF OneBuild, Runs, Labels

LEMMA InitResumeInv == ASSUME OneBuild, Init PROVE ResumeInv
<1>1. EmptyDirectory
  BY DEF Init, LegacyDirectory, OneBuild
<1>2. FilesOfTraining
  BY <1>1 DEF EmptyDirectory, FilesOfTraining, Exists
<1> QED BY <1>2 DEF Init, ResumeInv, JobGoesOn, JobSaved, SuccessIsResumable

\* What makes the checkpoint of a finished job acceptable to the next.
LEMMA AcceptsItsOwn ==
  ASSUME OneBuild, IInv, ResumeInv, pc = "report", job.run \in Resumable
  PROVE  Accepts(job.run, job.target, job.target)
<1> DEFINE t == job.target
           k == job.run
<1>0. /\ TypeOK /\ t \in Steps /\ t \in Int /\ t <= t /\ k \in Kinds /\ Labels(k) = {k} /\ Runs = Kinds
  <2>1. TypeOK /\ job.run \in Kinds
    BY DEF IInv, ResumeInv, JobGoesOn
  <2>2. t \in Steps
    BY <2>1 DEF TypeOK
  <2>3. t \in Int /\ t <= t
    BY <2>2, StepsOrder
  <2>4. Runs = Kinds /\ Labels(k) = {k}
    BY <2>1, OneBuildLabels
  <2> QED BY <2>1, <2>2, <2>3, <2>4
<1>1. NewestSidecar(t) /\ files["sidecar"][t].run = runId /\ runId = k
  BY DEF ResumeInv, JobSaved
<1>2. Complete(t)
  <2>1. PICK c \in Steps : NewestSidecar(c) /\ Complete(c)
    BY <1>1 DEF IInv, TopIsComplete, NewestSidecar
  <2>2. c <= t /\ t <= c
    BY <1>1, <2>1 DEF NewestSidecar
  <2>3. c = t
    BY <1>0, <2>2, StepsAreNat
  <2> QED BY <2>1, <2>3
<1>3. "sidecar" \in Exts /\ "model_burn" \in Exts /\ "model_safetensors" \in Exts
  BY DEF Exts
<1>4. Exists("model_burn", t) /\ Exists("sidecar", t)
  BY <1>2, <1>3 DEF Complete
<1>5. /\ files["model_burn"][t].run \in Kinds /\ files["model_burn"][t].step = t
      /\ files["sidecar"][t].run \in Kinds
  BY <1>0, <1>3, <1>4 DEF ResumeInv, FilesOfTraining
<1>6. \A e \in Exts : files[e][t] = files["sidecar"][t]
  BY <1>0, <1>5 DEF IInv, OneGeneration
<1>7. RecordAgrees(k, t) /\ MirrorAgrees(t) /\ Detects(t)
  BY <1>0, <1>1, <1>3, <1>4, <1>5, <1>6 DEF RecordAgrees, MirrorAgrees, Detects
<1>8. LossesAgree(t)
  <2>1. /\ ~lossesTorn /\ losses = AllLosses
        /\ job.start <= t /\ job.start \in Int
        /\ prior = {} \/ (job.start \in prior /\ \A m \in prior : m <= job.start)
        /\ prior \subseteq Steps
    BY <1>0, MaxStepAssumption DEF ResumeInv, JobSaved, JobGoesOn, TypeOK
  <2>2. ASSUME NEW m \in losses PROVE m <= t
    BY <1>0, <2>1, StepsAreNat DEF AllLosses
  <2>3. losses = {} \/ t \in losses
    <3>1. CASE job.start < t
      BY <1>0, <2>1, <3>1 DEF AllLosses
    <3>2. CASE job.start = t
      <4>1. {n \in Steps : job.start < n /\ n <= job.target} = {}
        BY <3>2, <1>0, StepsOrder
      <4>2. AllLosses = prior
        BY <4>1 DEF AllLosses
      <4> QED BY <2>1, <3>2, <4>2
    <3> QED BY <1>0, <2>1, <3>1, <3>2
  <2> QED BY <2>1, <2>2, <2>3 DEF LossesAgree
<1> QED BY <1>0, <1>1, <1>2, <1>7, <1>8 DEF Accepts

LEMMA NextFilesOfTraining ==
  ASSUME OneBuild, IInv, ResumeInv, [Next]_vars PROVE FilesOfTraining'
<1> USE DEF process, directory
<1>1. CASE UNCHANGED files
  BY <1>1 DEF ResumeInv, FilesOfTraining, Exists
<1>2. CASE SaveFile \/ SaveSidecar
  <2>1. pc = "save" /\ TypeOK /\ ModelOfJob
    BY <1>2 DEF SaveFile, SaveSidecar, IInv
  <2>2. model.run \in Kinds
    BY <2>1 DEF ModelOfJob, ResumeInv, JobGoesOn
  <2> QED BY <1>2, <2>1, <2>2, SaveEffect DEF ResumeInv, FilesOfTraining, Exists
<1>3. CASE PruneFile
  <2>1. PICK n \in victims : files' = [files EXCEPT ![FileOrder[at]][n] = NoModel]
    BY <1>3 DEF PruneFile
  <2>2. TypeOK
    BY DEF IInv
  <2> QED BY <2>1, <2>2, PruneEffect DEF ResumeInv, FilesOfTraining, Exists
<1> QED
  BY <1>1, <1>2, <1>3 DEF Next, StartFresh, StartResume, StartSmoke, StartRejected, WriteRunId,
     TrainStep, GuardRejects, FinishSave, TruncateLosses, WriteLosses, WriteReport, Interrupt, vars

LEMMA NextJobGoesOn ==
  ASSUME OneBuild, IInv, ResumeInv, [Next]_vars PROVE JobGoesOn'
<1> USE DEF process, directory
<1>0. "sidecar" \in Exts /\ TypeOK
  BY DEF Exts, IInv
<1>1. ASSUME NEW k \in Kinds, NEW t \in Steps, StartFresh(k, t)
      PROVE  JobGoesOn'
  <2>1. SidecarSteps' = {}
    <3>1. \A n \in Steps : files["sidecar"][n].run \notin Kinds
      BY <1>1, OneBuildLabels DEF StartFresh, IInv, RunIdFirst
    <3>2. \A n \in Steps : ~Exists("sidecar", n)
      BY <1>0, <3>1 DEF ResumeInv, FilesOfTraining
    <3> QED BY <1>1, <3>2 DEF SidecarSteps, Exists, StartFresh
  <2>2. job'.run = k /\ job'.start = 0 /\ job'.target = t /\ prior' = {} /\ 0 < t
    BY <1>1, StepsAreNat DEF StartFresh, Run
  <2> QED BY <2>1, <2>2, StepsAreNat DEF JobGoesOn
<1>2. ASSUME NEW k \in Kinds, NEW t \in Steps, NEW n \in Steps, StartResume(k, t, n)
      PROVE  JobGoesOn'
  <2>1. NewestSidecar(n) /\ LossesAgree(n) /\ n <= t
    BY <1>2 DEF StartResume, Accepts, Detects
  <2>2. /\ job'.run = k /\ job'.start = n /\ job'.target = t /\ prior' = losses
        /\ pc' \in {"run_id", "train", "save"} => n # t
    BY <1>2 DEF StartResume, Run
  <2>3. /\ SidecarSteps' = SidecarSteps
    BY <1>2 DEF SidecarSteps, Exists, StartResume
  <2>4. \A m \in SidecarSteps : m <= t
    <3>1. \A m \in SidecarSteps : m <= n /\ m \in Int
      BY <2>1, StepsAreNat DEF NewestSidecar, SidecarSteps
    <3> QED BY <2>1, <3>1, StepsAreNat
  <2>5. n # t => n < t
    BY <2>1, StepsAreNat
  <2>6. prior' = {} \/ (n \in prior' /\ \A m \in prior' : m <= n)
    BY <2>1, <2>2 DEF LossesAgree
  <2> QED BY <2>1, <2>2, <2>3, <2>4, <2>5, <2>6 DEF JobGoesOn
<1>3. CASE \E n \in SmokeSteps : StartSmoke(n)
  BY <1>3 DEF OneBuild
<1>4. ASSUME UNCHANGED <<files, job, prior>>, pc # "idle",
             pc' \in {"run_id", "train", "save"} => pc \in {"run_id", "train", "save"}
      PROVE  JobGoesOn'
  BY <1>4 DEF ResumeInv, JobGoesOn, SidecarSteps, Exists
<1>5. CASE WriteRunId \/ TrainStep \/ FinishSave \/ TruncateLosses \/ WriteLosses
  BY <1>4, <1>5 DEF WriteRunId, TrainStep, FinishSave, TruncateLosses, WriteLosses
<1>6. CASE StartRejected \/ GuardRejects \/ WriteReport \/ Interrupt
  BY <1>6 DEF StartRejected, GuardRejects, WriteReport, Interrupt, JobGoesOn
<1>9. CASE UNCHANGED vars
  <2>1. UNCHANGED <<files, job, prior, pc>>
    BY <1>9 DEF vars
  <2>2. SidecarSteps' = SidecarSteps
    BY <2>1 DEF SidecarSteps, Exists
  <2> QED BY <2>1, <2>2 DEF ResumeInv, JobGoesOn
<1>7. CASE SaveFile
  <2>1. pc = "save" /\ pc' = "save" /\ UNCHANGED <<job, prior>> /\ at # 4
    BY <1>0, <1>7 DEF SaveFile, TypeOK
  <2>2. FileOrder[at] # "sidecar"
    BY <1>0, <2>1, OrderIsExts DEF TypeOK
  <2>3. \A n \in Steps : files'["sidecar"][n] = files["sidecar"][n]
    BY <1>0, <1>7, <2>2, SaveEffect DEF IInv
  <2>4. SidecarSteps' = SidecarSteps
    BY <2>3 DEF SidecarSteps, Exists
  <2> QED BY <2>1, <2>4 DEF ResumeInv, JobGoesOn
<1>8. CASE SaveSidecar \/ PruneFile
  BY <1>8 DEF SaveSidecar, PruneFile, ResumeInv, JobGoesOn
<1> QED BY <1>1, <1>2, <1>3, <1>5, <1>6, <1>7, <1>8, <1>9 DEF Next

LEMMA NextJobSaved ==
  ASSUME OneBuild, IInv, ResumeInv, [Next]_vars PROVE JobSaved'
<1> USE DEF process, directory
<1>0. "sidecar" \in Exts /\ TypeOK
  BY DEF Exts, IInv
<1>1. ASSUME NEW k \in Kinds, NEW t \in Steps, NEW n \in Steps, StartResume(k, t, n)
      PROVE  JobSaved'
  <2>1. CASE n = t
    <3>1. /\ NewestSidecar(t) /\ files["sidecar"][t].run = runId /\ runId = k
      BY <1>1, <2>1, OneBuildLabels DEF StartResume, Accepts, Detects
    <3>2. /\ job'.run = k /\ job'.target = t /\ UNCHANGED <<files, runId>>
          /\ pc' = "truncate"
      BY <1>1, <2>1 DEF StartResume, Run
    <3>3. NewestSidecar(t)'
      BY <3>1, <3>2 DEF NewestSidecar, SidecarSteps, Exists
    <3>4. NewestSidecar(job.target)'
      BY <3>2, <3>3 DEF NewestSidecar
    <3> QED BY <3>1, <3>2, <3>4 DEF JobSaved
  <2>2. CASE n # t
    BY <1>1, <2>2 DEF StartResume, JobSaved
  <2> QED BY <2>1, <2>2
<1>2. CASE \E k \in Kinds, t \in Steps : StartFresh(k, t)
  BY <1>2 DEF StartFresh, JobSaved
<1>3. CASE \E n \in SmokeSteps : StartSmoke(n)
  BY <1>3 DEF OneBuild
<1>4. CASE StartRejected \/ WriteRunId \/ TrainStep \/ GuardRejects \/ SaveFile \/ WriteReport \/ Interrupt
  BY <1>4 DEF StartRejected, WriteRunId, TrainStep, GuardRejects, SaveFile, WriteReport,
     Interrupt, JobSaved, ResumeInv, NewestSidecar, SidecarSteps, Exists
<1>5. CASE SaveSidecar
  <2> DEFINE t == model.step
  <2>1. /\ pc = "save" /\ at = 4 /\ pc' = "prune" /\ UNCHANGED <<job, runId>>
        /\ t = job.target /\ t \in Steps /\ model.run = job.run /\ job.run \in Kinds
    BY <1>0, <1>5, SaveStepInSteps DEF SaveSidecar, IInv, ModelOfJob, ResumeInv, JobGoesOn
  <2>2. runId = job.run
    BY <2>1, OneBuildLabels DEF IInv, RunIdFirst
  <2>3. files'["sidecar"][t] = model /\ \A n \in Steps : n # t => files'["sidecar"][n] = files["sidecar"][n]
    BY <1>0, <1>5, <2>1, OrderIsExts, SaveEffect DEF IInv
  <2>4. model # NoModel
    BY <2>1, SavedModelIsThere
  <2>5. t \in SidecarSteps' /\ \A n \in SidecarSteps' : n <= t
    <3>1. \A n \in SidecarSteps : n <= t
      BY <2>1 DEF ResumeInv, JobGoesOn
    <3>2. t <= t
      BY <2>1, StepsOrder
    <3>3. t \in SidecarSteps'
      BY <2>1, <2>3, <2>4 DEF SidecarSteps, Exists
    <3>4. \A n \in SidecarSteps' : n = t \/ n \in SidecarSteps
      BY <2>3 DEF SidecarSteps, Exists
    <3> QED BY <2>1, <3>1, <3>2, <3>3, <3>4
  <2>6. NewestSidecar(job.target)'
    BY <2>1, <2>5 DEF NewestSidecar
  <2> QED BY <2>1, <2>2, <2>3, <2>6 DEF JobSaved
<1>6. CASE PruneFile
  <2> DEFINE t == job.target
  <2>1. PICK n \in victims : files' = [files EXCEPT ![FileOrder[at]][n] = NoModel]
    BY <1>6 DEF PruneFile
  <2>2. /\ pc = "prune" /\ pc' = "prune" /\ UNCHANGED <<job, runId>> /\ n \in Steps
        /\ NewestSidecar(t) /\ files["sidecar"][t].run = runId /\ runId = job.run
    BY <1>0, <1>6, <2>1 DEF PruneFile, ResumeInv, JobSaved, TypeOK
  <2>3. n # t
    <3>1. PICK c \in Steps : NewestSidecar(c) /\ c \notin victims
      BY <2>2 DEF IInv, TopIsComplete, NewestSidecar
    <3>2. c <= t /\ t <= c /\ t \in Int /\ c \in Int
      BY <2>2, <3>1, StepsAreNat DEF NewestSidecar, SidecarSteps
    <3>3. c = t
      BY <3>2
    <3> QED BY <3>1, <3>3
  <2>4. /\ \A d \in Exts, k \in Steps : k # n => files'[d][k] = files[d][k]
        /\ \A k \in Steps : files'["sidecar"][k] = files["sidecar"][k] \/ files'["sidecar"][k] = NoModel
    BY <1>0, <2>1, PruneEffect
  <2>5. t \in SidecarSteps' /\ \A m \in SidecarSteps' : m <= t
    BY <1>0, <2>2, <2>3, <2>4 DEF NewestSidecar, SidecarSteps, Exists
  <2>6. NewestSidecar(job.target)'
    BY <2>2, <2>5 DEF NewestSidecar
  <2>7. files'["sidecar"][t] = files["sidecar"][t]
    BY <1>0, <2>2, <2>3, <2>4 DEF NewestSidecar, SidecarSteps
  <2> QED BY <2>2, <2>6, <2>7 DEF JobSaved
<1>7. CASE FinishSave
  <2>1. /\ pc = "prune" /\ UNCHANGED <<job, files, runId>> /\ pc' \in {"idle", "truncate"}
    BY <1>7 DEF FinishSave
  <2> QED BY <2>1 DEF ResumeInv, JobSaved, NewestSidecar, SidecarSteps, Exists
<1>8. CASE TruncateLosses
  BY <1>8 DEF TruncateLosses, ResumeInv, JobSaved, NewestSidecar, SidecarSteps, Exists
<1>9. CASE WriteLosses
  <2>1. /\ pc = "losses" /\ pc' = "report" /\ UNCHANGED <<job, files, runId, lossesTorn, prior>>
        /\ losses' = AllLosses
    BY <1>9 DEF WriteLosses
  <2>2. AllLosses' = AllLosses
    BY <2>1 DEF AllLosses
  <2> QED BY <2>1, <2>2 DEF ResumeInv, JobSaved, NewestSidecar, SidecarSteps, Exists
<1>10. CASE UNCHANGED vars
  BY <1>10 DEF vars, ResumeInv, JobSaved, NewestSidecar, SidecarSteps, Exists, AllLosses
<1> QED BY <1>1, <1>2, <1>3, <1>4, <1>5, <1>6, <1>7, <1>8, <1>9, <1>10 DEF Next

LEMMA AcceptsStays ==
  ASSUME UNCHANGED <<runId, files, losses, lossesTorn, job>>,
         Accepts(job.run, job.target, job.target)
  PROVE  Accepts(job.run, job.target, job.target)'
BY DEF Accepts, Detects, NewestSidecar, SidecarSteps, Exists, Complete, LossesAgree, RecordAgrees,
   MirrorAgrees

LEMMA NextResumable ==
  ASSUME OneBuild, IInv, ResumeInv, [Next]_vars PROVE SuccessIsResumable'
<1> USE DEF process, directory
<1>1. CASE WriteReport
  <2>1. /\ pc = "report" /\ UNCHANGED <<runId, files, losses, lossesTorn, job>>
    BY <1>1 DEF WriteReport
  <2>2. job.run \in Resumable => Accepts(job.run, job.target, job.target)
    BY <2>1, AcceptsItsOwn
  <2> QED BY <2>1, <2>2, AcceptsStays DEF SuccessIsResumable
<1>2. CASE FinishSave
  BY <1>2, KindsAssumption DEF FinishSave, SuccessIsResumable
<1>3. CASE UNCHANGED vars
  <2>1. UNCHANGED <<runId, files, losses, lossesTorn, job, pc, exit>>
    BY <1>3 DEF vars
  <2> QED BY <2>1, AcceptsStays DEF ResumeInv, SuccessIsResumable
<1> QED
  BY <1>1, <1>2, <1>3 DEF Next, StartFresh, StartResume, StartSmoke, StartRejected, WriteRunId,
     TrainStep, GuardRejects, SaveFile, SaveSidecar, PruneFile, TruncateLosses, WriteLosses, Interrupt,
     Run, ResumeInv, SuccessIsResumable

-----------------------------------------------------------------------------
(* The theorems. *)

\* IInv holds after every step of every job, crash and restart.
THEOREM InductiveInvariant == Spec => []IInv
<1>1. IInv /\ [Next]_vars => IInv'
  BY NextTypeOK, NextModelOfJob, NextSavedSoFar, NextTopIsComplete, NextRunIdFirst,
     NextOneGeneration, NextReportIsBacked DEF IInv
<1> QED BY InitIInv, <1>1, PTL DEF Spec

\* Every variable keeps its type.
THEOREM TypeCorrect == Spec => []TypeOK
<1>1. IInv => TypeOK
  BY DEF IInv
<1> QED BY InductiveInvariant, <1>1, PTL

\* The checkpoint a resume picks by its sidecar's name is complete, for every
\* number of retained checkpoints and also with smoke jobs in the directory.
THEOREM NewestIsComplete == Spec => []NewestSidecarComplete
<1>1. IInv => NewestSidecarComplete
  <2> SUFFICES ASSUME IInv, NEW n \in Steps, NewestSidecar(n)
               PROVE  Complete(n)
    BY DEF NewestSidecarComplete
  <2>1. PICK c \in Steps : NewestSidecar(c) /\ Complete(c)
    BY DEF IInv, TopIsComplete, NewestSidecar
  <2>2. c <= n /\ n <= c
    BY <2>1 DEF NewestSidecar
  <2>3. c = n
    BY <2>2, StepsAreNat
  <2> QED BY <2>1, <2>3
<1> QED BY InductiveInvariant, <1>1, PTL

\* A resume that is accepted loads the files of one save.
THEOREM ResumeIsOfOneSave == Spec => []ResumeLoadsOneGeneration
<1>1. IInv => ResumeLoadsOneGeneration
  <2> SUFFICES ASSUME IInv, NEW k \in Kinds, NEW t \in Steps, NEW n \in Steps,
                      Accepts(k, t, n), NEW e \in Exts
               PROVE  files[e][n] = files["sidecar"][n]
    BY DEF ResumeLoadsOneGeneration
  <2>1. files["sidecar"][n].run \in Runs /\ files["model_burn"][n].run \in Runs
    BY LabelsAreRuns DEF Accepts, Detects, RecordAgrees
  <2> QED BY <2>1 DEF IInv, OneGeneration
<1> QED BY InductiveInvariant, <1>1, PTL

\* Nothing takes the newest complete checkpoint of a directory back.
THEOREM ProgressIsKept == Spec => NewestNeverRegresses
<1>1. IInv /\ [Next]_vars => [\A n \in CompleteSteps : \E m \in CompleteSteps' : n <= m]_vars
  BY NewestStays
<1> QED BY InductiveInvariant, <1>1, PTL DEF Spec, NewestNeverRegresses

\* A report of a complete checkpoint stays true under all later jobs.
THEOREM ReportsStayTrue == Spec => []ReportIsBacked
<1>1. IInv => ReportIsBacked
  BY DEF IInv
<1> QED BY InductiveInvariant, <1>1, PTL

\* When save_checkpoint returns, at most DEFAULT_RETAINED_CHECKPOINTS are
\* complete, for every number of them and whatever crashed prunes left behind.
THEOREM RetentionIsRestored == Spec => []RetentionRestored
<1>1. Init => RetentionInv
  BY DEF Init, RetentionInv
<1> QED BY InductiveInvariant, NextRetention, RetentionIsEnough, <1>1, PTL DEF Spec

\* In a directory of this build alone and without smoke jobs, a job that ended
\* with success left what the next job resumes from: run_id.txt, the newest
\* sidecar, the four files and the end of train_losses.jsonl agree, whatever
\* crashed before it.
THEOREM SuccessesResume == OneBuild => (Spec => []SuccessIsResumable)
<1> SUFFICES ASSUME OneBuild PROVE Spec => []SuccessIsResumable
  OBVIOUS
<1>1. Init => ResumeInv
  BY InitResumeInv
<1>2. IInv /\ ResumeInv /\ [Next]_vars => ResumeInv'
  BY NextFilesOfTraining, NextJobGoesOn, NextJobSaved, NextResumable DEF ResumeInv
<1>3. ResumeInv => SuccessIsResumable
  BY DEF ResumeInv
<1> QED BY InductiveInvariant, <1>1, <1>2, <1>3, PTL DEF Spec
-----------------------------------------------------------------------------
\* A run directory of one build without smoke jobs implements CheckpointHistory,
\* for every MaxStep, Keep and set of modes: whatever is killed and started
\* again, the complete checkpoints are the retained end of one line of training.

\* The schedule totals the checkpoint of step n was trained under.
Totals(n) == files["sidecar"][n].totals
Lineage == UNION {Totals(n) : n \in CompleteSteps}

\* The totals of a checkpoint end at its step and continue those of the older ones.
OneLine ==
  \A n \in SidecarSteps :
    /\ n \in Totals(n) /\ \A t \in Totals(n) : t <= n
    /\ \A m \in SidecarSteps : m <= n => Totals(m) \subseteq Totals(n)

\* The job in memory continues the line.
JobContinues ==
  pc \in {"run_id", "train", "save"} =>
    /\ \A n \in SidecarSteps : Totals(n) \subseteq model.totals \union {job.target}
    /\ model.totals \subseteq Lineage \union {job.target}
    /\ pc = "save" => job.target \in model.totals

\* A prune takes the old end, and Keep checkpoints stay above each victim.
OldEndGoes ==
  pc = "prune" =>
    \A v \in victims :
      /\ \A m \in CompleteSteps \ victims : v < m
      /\ Cardinality({m \in CompleteSteps : m > v}) >= Keep

HistoryInv == OneLine /\ JobContinues /\ OldEndGoes

-----------------------------------------------------------------------------

\* All four files of a checkpoint make it complete, its sidecar among them.
LEMMA CompleteHasSidecar ==
  /\ "sidecar" \in Exts /\ "model_burn" \in Exts
  /\ CompleteSteps \subseteq SidecarSteps /\ SidecarSteps \subseteq Steps
BY DEF Exts, CompleteSteps, Complete, SidecarSteps

\* Where the files stay, so does the history.
LEMMA SameFilesSameHistory ==
  ASSUME UNCHANGED files
  PROVE  /\ CompleteSteps' = CompleteSteps /\ SidecarSteps' = SidecarSteps
         /\ Lineage' = Lineage /\ OneLine' = OneLine
         /\ \A n : Totals(n)' = Totals(n)
<1>1. CompleteSteps' = CompleteSteps /\ SidecarSteps' = SidecarSteps /\ \A n : Totals(n)' = Totals(n)
  BY DEF CompleteSteps, SidecarSteps, Complete, Exists, Totals
<1> QED BY <1>1 DEF Lineage, OneLine

LEMMA TargetIsStep == ASSUME IInv PROVE job.target \in Steps
BY DEF IInv, TypeOK

\* What the two kinds of save leave of the files.
LEMMA SavedHistory ==
  ASSUME OneBuild, IInv, ResumeInv, SaveFile \/ SaveSidecar, NEW t \in Steps, t = job.target
  PROVE  /\ model.step = t
         /\ \A n \in SidecarSteps : n < t
         /\ t \notin SidecarSteps
         /\ \A n \in Steps : n # t => /\ (Complete(n)' <=> Complete(n))
                                      /\ (Exists("sidecar", n)' <=> Exists("sidecar", n))
                                      /\ Totals(n)' = Totals(n)
<1>1. pc = "save" /\ TypeOK /\ ModelOfJob
  BY DEF SaveFile, SaveSidecar, IInv
<1>2. model.step = t
  BY <1>1, SaveStepInSteps
<1>3. ASSUME NEW n \in Steps, n \in SidecarSteps PROVE n < t /\ n # t
  <2>1. n <= t /\ job.run \in Kinds
    BY <1>1, <1>3 DEF ResumeInv, JobGoesOn
  <2>2. files["sidecar"][t].run \notin Runs
    BY <1>1, <2>1 DEF IInv, RunIdFirst
  <2>3. n # t
    BY <1>3, <2>2, CompleteHasSidecar DEF SidecarSteps, ResumeInv, FilesOfTraining, Runs
  <2>4. n \in Int /\ t \in Int
    BY StepsAreNat
  <2> QED BY <2>1, <2>3, <2>4
<1>4. \A n \in SidecarSteps : n < t /\ n # t
  BY <1>3 DEF SidecarSteps
<1>5. ASSUME NEW n \in Steps, n # t
      PROVE  \A e \in Exts : files'[e][n] = files[e][n]
  BY <1>1, <1>2, <1>5, SaveEffect
<1>6. ASSUME NEW n \in Steps, n # t
      PROVE  /\ (Complete(n)' <=> Complete(n))
             /\ (Exists("sidecar", n)' <=> Exists("sidecar", n))
             /\ Totals(n)' = Totals(n)
  BY <1>5, <1>6, CompleteHasSidecar DEF Complete, Exists, Totals
<1> QED BY <1>2, <1>4, <1>6

\* The three files before the sidecar leave the history as it is.
LEMMA SaveFileHistory ==
  ASSUME OneBuild, IInv, ResumeInv, SaveFile
  PROVE  /\ CompleteSteps' = CompleteSteps /\ SidecarSteps' = SidecarSteps
         /\ \A n \in SidecarSteps : Totals(n)' = Totals(n)
         /\ Lineage' = Lineage
<1>0. PICK t \in Steps : t = job.target
  BY TargetIsStep
<1>1. TypeOK /\ ModelOfJob /\ at \in 1..4 /\ at # 4 /\ model.step = t
  BY <1>0, SavedHistory DEF IInv, TypeOK, SaveFile
<1>2. FileOrder[at] # "sidecar"
  BY <1>1, OrderIsExts
<1>3. files'["sidecar"][t] = files["sidecar"][t]
  BY <1>1, <1>2, SaveEffect, CompleteHasSidecar
<1>4. ~Exists("sidecar", t)
  BY <1>0, SavedHistory DEF SidecarSteps
<1>5. ~Exists("sidecar", t)' /\ ~Complete(t) /\ ~Complete(t)'
  BY <1>3, <1>4, CompleteHasSidecar DEF Exists, Complete
<1>6. Totals(t)' = Totals(t)
  BY <1>3 DEF Totals
<1>7. ASSUME NEW n \in Steps
      PROVE  /\ (Complete(n)' <=> Complete(n))
             /\ (Exists("sidecar", n)' <=> Exists("sidecar", n))
             /\ Totals(n)' = Totals(n)
  <2>1. CASE n = t
    BY <1>4, <1>5, <1>6, <2>1
  <2>2. CASE n # t
    BY <1>0, <2>2, SavedHistory
  <2> QED BY <2>1, <2>2
<1>8. CompleteSteps' = CompleteSteps /\ SidecarSteps' = SidecarSteps
  BY <1>7 DEF CompleteSteps, SidecarSteps
<1>9. Lineage' = Lineage
  BY <1>7, <1>8, CompleteHasSidecar DEF Lineage, CompleteSteps
<1> QED BY <1>7, <1>8, <1>9, CompleteHasSidecar

\* The sidecar appends its checkpoint to the history.
LEMMA SaveSidecarHistory ==
  ASSUME OneBuild, IInv, ResumeInv, SaveSidecar, NEW t \in Steps, t = job.target
  PROVE  /\ CompleteSteps' = CompleteSteps \union {t}
         /\ SidecarSteps' = SidecarSteps \union {t}
         /\ Totals(t)' = model.totals
         /\ \A n \in SidecarSteps : Totals(n)' = Totals(n)
         /\ Lineage' = Lineage \union model.totals
<1>1. model.step = t
  BY SavedHistory
<1>2. Complete(t)' /\ files'["sidecar"][t] = model
  BY <1>1, SidecarCompletes, CompleteHasSidecar
<1>3. Totals(t)' = model.totals /\ Exists("sidecar", t)'
  BY <1>2, CompleteHasSidecar DEF Totals, Complete
<1>4. CompleteSteps' = CompleteSteps \union {t}
  BY <1>2, SavedHistory DEF CompleteSteps
<1>5. SidecarSteps' = SidecarSteps \union {t}
  BY <1>3, SavedHistory DEF SidecarSteps
<1>6. ASSUME NEW n \in SidecarSteps PROVE Totals(n)' = Totals(n)
  <2>1. n \in Steps /\ n # t
    BY SavedHistory, CompleteHasSidecar
  <2> QED BY <2>1, SavedHistory
<1>7. Lineage' = Lineage \union model.totals
  <2>1. \A n \in CompleteSteps : Totals(n)' = Totals(n)
    BY <1>6, CompleteHasSidecar
  <2>2. \A u : u \in Lineage' <=> \E n \in CompleteSteps' : u \in Totals(n)'
    BY Zenon DEF Lineage
  <2>3. \A u : u \in Lineage <=> \E n \in CompleteSteps : u \in Totals(n)
    BY Zenon DEF Lineage
  <2>4. \A u : u \in Lineage' <=> (u \in Totals(t)' \/ \E n \in CompleteSteps : u \in Totals(n)')
    BY <1>4, <2>2, Zenon
  <2>5. \A u : u \in Lineage' <=> (u \in model.totals \/ u \in Lineage)
    BY <1>3, <2>1, <2>3, <2>4, Zenon
  <2> QED BY <2>5
<1> QED BY <1>3, <1>4, <1>5, <1>6, <1>7

-----------------------------------------------------------------------------
(* A prune. *)

\* The first file takes the oldest victim out, the others nothing.
LEMMA PruneHistory ==
  ASSUME IInv, HistoryInv, PruneFile
  PROVE  \E n \in victims :
           /\ n \in Steps /\ \A m \in victims : n <= m
           /\ CompleteSteps' = CompleteSteps \ {n}
           /\ SidecarSteps' \subseteq SidecarSteps
           /\ \A m \in SidecarSteps' : Totals(m)' = Totals(m)
           /\ victims' = victims \/ victims' = victims \ {n}
<1>1. PICK n \in victims :
        /\ \A m \in victims : n <= m
        /\ files' = [files EXCEPT ![FileOrder[at]][n] = NoModel]
        /\ victims' = IF at = 4 THEN victims \ {n} ELSE victims
  BY DEF PruneFile
<1>2. TypeOK
  BY DEF IInv
<1>3. /\ n \in Steps /\ FileOrder[at] \in Exts /\ files'[FileOrder[at]][n] = NoModel
      /\ \A d \in Exts, k \in Steps :
           (d # FileOrder[at] \/ k # n) => files'[d][k] = files[d][k]
  BY <1>1, <1>2, PruneEffect
<1>4. ~Complete(n)'
  BY <1>3 DEF Complete, Exists
<1>5. \A k \in Steps : k # n => (Complete(k)' <=> Complete(k))
  BY <1>3 DEF Complete, Exists
<1>6. CompleteSteps' = CompleteSteps \ {n}
  BY <1>3, <1>4, <1>5 DEF CompleteSteps
<1>7. \A k \in SidecarSteps' : files'["sidecar"][k] = files["sidecar"][k]
  <2> SUFFICES ASSUME NEW k \in Steps, Exists("sidecar", k)'
               PROVE  files'["sidecar"][k] = files["sidecar"][k]
    BY DEF SidecarSteps
  <2>1. "sidecar" # FileOrder[at] \/ k # n
    BY <1>3 DEF Exists
  <2> QED BY <1>3, <2>1, CompleteHasSidecar
<1>8. SidecarSteps' \subseteq SidecarSteps /\ \A m \in SidecarSteps' : Totals(m)' = Totals(m)
  BY <1>7 DEF SidecarSteps, Exists, Totals
<1> QED BY <1>1, <1>3, <1>6, <1>8

\* A newer checkpoint stays, with all the totals of the one that goes.
LEMMA PruneKeepsLineage ==
  ASSUME IInv, HistoryInv, PruneFile
  PROVE  Lineage' = Lineage
<1>1. PICK n \in victims :
        /\ n \in Steps /\ CompleteSteps' = CompleteSteps \ {n}
        /\ SidecarSteps' \subseteq SidecarSteps
        /\ \A m \in SidecarSteps' : Totals(m)' = Totals(m)
  BY PruneHistory
<1>2. CompleteSteps' \subseteq SidecarSteps'
  BY DEF CompleteSteps, SidecarSteps, Complete, Exists, Exts
<1>3. Lineage' = UNION {Totals(m) : m \in CompleteSteps \ {n}}
  BY <1>1, <1>2 DEF Lineage
<1>4. CASE n \notin CompleteSteps
  BY <1>3, <1>4 DEF Lineage
<1>5. CASE n \in CompleteSteps
  <2> DEFINE above == {m \in CompleteSteps : m > n}
  <2>1. Cardinality(above) >= Keep
    BY DEF PruneFile, HistoryInv, OldEndGoes
  <2>2. above # {}
    BY <2>1, FS_EmptySet, KeepAssumption
  <2>3. PICK m \in CompleteSteps : m > n
    BY <2>2
  <2>4. m # n /\ n <= m
    BY <2>3, <1>1, StepsAreNat, CompleteHasSidecar
  <2>5. Totals(n) \subseteq Totals(m)
    BY <1>5, <2>4, CompleteHasSidecar DEF HistoryInv, OneLine
  <2> QED BY <1>3, <1>5, <2>4, <2>5 DEF Lineage
<1> QED BY <1>4, <1>5

-----------------------------------------------------------------------------
(* The invariant. *)

LEMMA InitHistoryInv == ASSUME OneBuild, Init PROVE HistoryInv /\ CompleteSteps = {} /\ Lineage = {}
<1>1. EmptyDirectory /\ pc = "idle"
  BY DEF Init, LegacyDirectory, OneBuild
<1>2. SidecarSteps = {}
  BY <1>1, CompleteHasSidecar DEF EmptyDirectory, SidecarSteps, Exists
<1>3. CompleteSteps = {}
  BY <1>2, CompleteHasSidecar
<1>4. Lineage = {}
  BY <1>3 DEF Lineage
<1> QED BY <1>1, <1>2, <1>3, <1>4 DEF HistoryInv, OneLine, JobContinues, OldEndGoes

LEMMA NextOneLine ==
  ASSUME OneBuild, IInv, ResumeInv, HistoryInv, [Next]_vars PROVE OneLine'
<1> USE DEF process, directory
<1>1. CASE UNCHANGED files
  BY <1>1, SameFilesSameHistory DEF HistoryInv
<1>2. CASE SaveFile
  BY <1>2, SaveFileHistory DEF HistoryInv, OneLine
<1>3. CASE SaveSidecar
  <2>0. PICK t \in Steps : t = job.target
    BY TargetIsStep
  <2>1. /\ \A n \in SidecarSteps : n < t
        /\ SidecarSteps' = SidecarSteps \union {t} /\ Totals(t)' = model.totals
        /\ \A n \in SidecarSteps : Totals(n)' = Totals(n)
    BY <1>3, <2>0, SavedHistory, SaveSidecarHistory
  <2>2. /\ t \in model.totals /\ model.totals \subseteq Lineage \union {t}
        /\ \A n \in SidecarSteps : Totals(n) \subseteq model.totals
    BY <1>3, <2>0 DEF SaveSidecar, HistoryInv, JobContinues
  <2>3. \A u \in Lineage : u <= t
    <3> SUFFICES ASSUME NEW n \in SidecarSteps, NEW u \in Totals(n) PROVE u <= t
      BY CompleteHasSidecar DEF Lineage
    <3>1. u <= n /\ n \in Totals(n) /\ n < t
      BY <2>1 DEF HistoryInv, OneLine
    <3>2. u \in Int /\ n \in Int /\ t \in Int
      <4>1. files["sidecar"][n] \in Models
        BY CompleteHasSidecar DEF IInv, TypeOK
      <4>2. Totals(n) \subseteq Steps
        BY <4>1 DEF Models, Totals
      <4> QED BY <4>2, StepsAreNat, CompleteHasSidecar
    <3> QED BY <3>1, <3>2
  <2>4. ASSUME NEW n \in SidecarSteps'
        PROVE  n \in Totals(n)' /\ \A u \in Totals(n)' : u <= n
    <3>1. CASE n = t
      <4>1. t <= t
        BY StepsAreNat
      <4> QED BY <2>1, <2>2, <2>3, <3>1, <4>1
    <3>2. CASE n \in SidecarSteps
      BY <2>1, <3>2 DEF HistoryInv, OneLine
    <3> QED BY <2>1, <2>4, <3>1, <3>2
  <2>5. ASSUME NEW n \in SidecarSteps', NEW m \in SidecarSteps', m <= n
        PROVE  Totals(m)' \subseteq Totals(n)'
    <3>1. CASE n = t
      BY <2>1, <2>2, <2>5, <3>1
    <3>2. CASE n \in SidecarSteps
      <4>1. m # t
        <5>1. n < t /\ n \in Int /\ t \in Int
          BY <2>1, <3>2, StepsAreNat, CompleteHasSidecar
        <5> QED BY <2>5, <5>1
      <4>2. m \in SidecarSteps
        BY <2>1, <2>5, <4>1
      <4> QED BY <2>1, <2>5, <3>2, <4>2 DEF HistoryInv, OneLine
    <3> QED BY <2>1, <2>5, <3>1, <3>2
  <2> QED BY <2>4, <2>5 DEF OneLine
<1>4. CASE PruneFile
  <2>1. /\ SidecarSteps' \subseteq SidecarSteps
        /\ \A m \in SidecarSteps' : Totals(m)' = Totals(m)
    BY <1>4, PruneHistory
  <2> QED BY <2>1 DEF HistoryInv, OneLine
<1> QED
  BY <1>1, <1>2, <1>3, <1>4 DEF Next, StartFresh, StartResume, StartSmoke, StartRejected, WriteRunId,
     TrainStep, GuardRejects, FinishSave, TruncateLosses, WriteLosses, WriteReport, Interrupt, vars

\* A job starts from an empty line or from its newest checkpoint, and adds its
\* own target.
LEMMA NextJobContinues ==
  ASSUME OneBuild, IInv, ResumeInv, HistoryInv, [Next]_vars PROVE JobContinues'
<1> USE DEF process, directory
<1>1. ASSUME NEW k \in Kinds, NEW t \in Steps, StartFresh(k, t)
      PROVE  JobContinues'
  <2>1. /\ UNCHANGED files /\ pc' = "run_id" /\ model' = Initialised(k)
    BY <1>1 DEF StartFresh, Run
  <2>2. SidecarSteps = {}
    <3>1. \A n \in Steps : files["sidecar"][n].run \notin Runs
      BY <1>1 DEF StartFresh, IInv, RunIdFirst
    <3> QED BY <3>1, CompleteHasSidecar DEF SidecarSteps, ResumeInv, FilesOfTraining, Runs
  <2> QED BY <2>1, <2>2, SameFilesSameHistory DEF JobContinues, Initialised
<1>2. ASSUME NEW k \in Kinds, NEW t \in Steps, NEW n \in Steps, StartResume(k, t, n)
      PROVE  JobContinues'
  <2>1. /\ UNCHANGED files /\ pc' # "save"
        /\ model' = [files["model_burn"][n] EXCEPT !.run = k]
        /\ NewestSidecar(n) /\ Complete(n) /\ files["sidecar"][n].run = runId
        /\ runId \in Runs /\ files["model_burn"][n].run \in Runs
    BY <1>2, LabelsAreRuns DEF StartResume, Run, Accepts, Detects, RecordAgrees
  <2>2. files["model_burn"][n] = files["sidecar"][n]
    BY <2>1, CompleteHasSidecar DEF IInv, OneGeneration
  <2>3. files["model_burn"][n] \in Models
    BY CompleteHasSidecar DEF IInv, TypeOK
  <2>4. model'.totals = Totals(n)
    BY <2>1, <2>2, <2>3 DEF Totals, Models
  <2>5. \A m \in SidecarSteps : Totals(m) \subseteq Totals(n)
    BY <2>1 DEF NewestSidecar, HistoryInv, OneLine
  <2>6. Totals(n) \subseteq Lineage
    BY <2>1 DEF Lineage, CompleteSteps
  <2> QED BY <2>1, <2>4, <2>5, <2>6, SameFilesSameHistory DEF JobContinues
<1>3. CASE \E n \in SmokeSteps : StartSmoke(n)
  BY <1>3 DEF OneBuild
<1>4. CASE WriteRunId
  <2>1. UNCHANGED <<files, model, job>> /\ pc = "run_id" /\ pc' = "train"
    BY <1>4 DEF WriteRunId
  <2> QED BY <2>1, SameFilesSameHistory DEF JobContinues, HistoryInv
<1>5. CASE TrainStep
  <2>1. /\ UNCHANGED <<files, job>> /\ pc = "train"
        /\ model' = [model EXCEPT !.step = @ + 1, !.totals = @ \union {job.target}]
    BY <1>5 DEF TrainStep
  <2>2. model \in Models
    BY DEF IInv, TypeOK
  <2>3. model'.totals = model.totals \union {job.target}
    BY <2>1, <2>2 DEF Models
  <2> QED BY <2>1, <2>3, SameFilesSameHistory DEF JobContinues, HistoryInv
<1>6. CASE SaveFile
  <2>1. UNCHANGED <<model, job>> /\ pc = "save" /\ pc' = "save"
    BY <1>6 DEF SaveFile
  <2> QED BY <1>6, <2>1, SaveFileHistory DEF JobContinues, HistoryInv
<1>7. CASE UNCHANGED vars
  <2>1. UNCHANGED <<files, model, job, pc>>
    BY <1>7 DEF vars
  <2> QED BY <2>1, SameFilesSameHistory DEF JobContinues, HistoryInv
<1>8. CASE ~(pc' \in {"run_id", "train", "save"})
  BY <1>8 DEF JobContinues
<1>9. (StartRejected \/ GuardRejects \/ SaveSidecar \/ PruneFile \/ FinishSave \/ TruncateLosses
         \/ WriteLosses \/ WriteReport \/ Interrupt) => ~(pc' \in {"run_id", "train", "save"})
  BY DEF StartRejected, GuardRejects, SaveSidecar, PruneFile, FinishSave, TruncateLosses,
     WriteLosses, WriteReport, Interrupt
<1> QED BY <1>1, <1>2, <1>3, <1>4, <1>5, <1>6, <1>7, <1>8, <1>9 DEF Next

\* Retention picks the old end.
LEMMA BeyondIsOldEnd ==
  ASSUME NEW S \in SUBSET Steps, NEW v \in Beyond(S), NEW m \in S \ Beyond(S)
  PROVE  v < m
<1>1. v \in S /\ v \in Int /\ m \in Int
  BY StepsAreNat DEF Beyond
<1> SUFFICES ASSUME m <= v PROVE FALSE
  BY <1>1
<1> DEFINE above(n) == {k \in S : k > n}
<1>2. above(v) \subseteq above(m)
  <2>1. \A k \in S : k \in Int /\ (k > v => k > m)
    BY <1>1, StepsAreNat
  <2> QED BY <2>1
<1>3. IsFiniteSet(above(m)) /\ Cardinality(above(m)) \in Nat /\ Cardinality(above(v)) \in Nat
  BY StepsAreFinite
<1>4. Cardinality(above(v)) <= Cardinality(above(m))
  BY <1>2, <1>3, FS_Subset
<1>5. Cardinality(above(v)) >= Keep /\ ~(Cardinality(above(m)) >= Keep)
  BY DEF Beyond
<1> QED BY <1>3, <1>4, <1>5, KeepAssumption

LEMMA NextOldEndGoes ==
  ASSUME OneBuild, IInv, ResumeInv, HistoryInv, [Next]_vars PROVE OldEndGoes'
<1> USE DEF process, directory
<1>1. CASE SaveSidecar
  <2>1. CompleteSteps' \in SUBSET Steps /\ victims' = Beyond(CompleteSteps')
    BY <1>1 DEF SaveSidecar, CompleteSteps
  <2>2. \A v \in victims' : \A m \in CompleteSteps' \ victims' : v < m
    BY <2>1, BeyondIsOldEnd
  <2>3. \A v \in victims' : Cardinality({m \in CompleteSteps' : m > v}) >= Keep
    BY <2>1 DEF Beyond
  <2> QED BY <2>2, <2>3 DEF OldEndGoes
<1>2. CASE PruneFile
  <2>1. PICK n \in victims :
          /\ n \in Steps /\ \A m \in victims : n <= m
          /\ CompleteSteps' = CompleteSteps \ {n}
          /\ victims' = victims \/ victims' = victims \ {n}
    BY <1>2, PruneHistory
  <2>2. OldEndGoes /\ pc = "prune" /\ victims \subseteq Steps
    BY <1>2 DEF HistoryInv, PruneFile, IInv, TypeOK
  <2>3. ASSUME NEW v \in victims'
        PROVE  /\ \A m \in CompleteSteps' \ victims' : v < m
               /\ Cardinality({m \in CompleteSteps' : m > v}) >= Keep
    <3>1. v \in victims /\ n <= v /\ v \in Int /\ n \in Int
      BY <2>1, <2>2, <2>3, StepsAreNat
    <3>2. CompleteSteps' \ victims' \subseteq CompleteSteps \ victims
      BY <2>1
    <3>3. {m \in CompleteSteps' : m > v} = {m \in CompleteSteps : m > v}
      <4>1. ~(n > v)
        BY <3>1
      <4> QED BY <2>1, <4>1
    <3> QED BY <2>2, <3>1, <3>2, <3>3 DEF OldEndGoes
  <2> QED BY <2>3 DEF OldEndGoes
<1>3. CASE UNCHANGED vars
  <2>1. CompleteSteps' = CompleteSteps /\ UNCHANGED <<pc, victims>>
    BY <1>3, SameFilesSameHistory DEF vars
  <2> QED BY <2>1 DEF OldEndGoes, HistoryInv
<1>4. CASE pc' # "prune"
  BY <1>4 DEF OldEndGoes
<1> QED
  BY <1>1, <1>2, <1>3, <1>4 DEF Next, StartFresh, StartResume, StartSmoke, StartRejected, WriteRunId,
     TrainStep, GuardRejects, SaveFile, FinishSave, TruncateLosses, WriteLosses, WriteReport,
     Interrupt

-----------------------------------------------------------------------------
(* The refinement. *)

LEMMA HistoryIsMapped ==
  /\ History!Init <=> (Lineage = {} /\ CompleteSteps = {})
  /\ \A n : History!Save(n) <=>
       /\ \A m \in Lineage : m < n
       /\ Lineage' = Lineage \union {n} /\ CompleteSteps' = CompleteSteps \union {n}
  /\ \A n : History!Discard(n) <=>
       /\ n \in CompleteSteps /\ \A m \in CompleteSteps : n <= m
       /\ Cardinality(CompleteSteps) > Keep
       /\ CompleteSteps' = CompleteSteps \ {n} /\ Lineage' = Lineage
<1>1. History!Init <=> (Lineage = {} /\ CompleteSteps = {})
  BY DEF History!Init, Lineage, Totals
<1>2. ASSUME NEW n
      PROVE  History!Save(n) <=>
               /\ \A m \in Lineage : m < n
               /\ Lineage' = Lineage \union {n} /\ CompleteSteps' = CompleteSteps \union {n}
  BY DEF History!Save, Lineage, Totals
<1>3. \A S : History!Cardinality(S) = Cardinality(S)
  BY DEF History!Cardinality, Cardinality
<1>4. ASSUME NEW n
      PROVE  History!Discard(n) <=>
               /\ n \in CompleteSteps /\ \A m \in CompleteSteps : n <= m
               /\ Cardinality(CompleteSteps) > Keep
               /\ CompleteSteps' = CompleteSteps \ {n} /\ Lineage' = Lineage
  BY <1>3 DEF History!Discard, Lineage, Totals
<1> QED BY <1>1, <1>2, <1>4, Zenon

\* The sidecar of a save publishes it at the end of the line.
LEMMA SaveIsSave ==
  ASSUME OneBuild, IInv, ResumeInv, HistoryInv, SaveSidecar
  PROVE  \E t \in Steps : History!Save(t)
<1>0. PICK t \in Steps : t = job.target
  BY TargetIsStep
<1>1. /\ \A n \in SidecarSteps : n < t
      /\ CompleteSteps' = CompleteSteps \union {t} /\ Lineage' = Lineage \union model.totals
  BY <1>0, SavedHistory, SaveSidecarHistory
<1>2. t \in model.totals /\ model.totals \subseteq Lineage \union {t}
  BY <1>0 DEF SaveSidecar, HistoryInv, JobContinues
<1>3. ASSUME NEW n \in SidecarSteps, NEW u \in Totals(n) PROVE u < t
  <2>1. u <= n /\ n < t
    BY <1>1, <1>3 DEF HistoryInv, OneLine
  <2>2. Totals(n) \subseteq Steps
    <3>1. files["sidecar"][n] \in Models
      BY CompleteHasSidecar DEF IInv, TypeOK
    <3> QED BY <3>1 DEF Models, Totals
  <2>3. u \in Int /\ n \in Int /\ t \in Int
    BY <2>2, StepsAreNat, CompleteHasSidecar
  <2> QED BY <2>1, <2>3
<1>4. \A u \in Lineage : u < t
  BY <1>3, CompleteHasSidecar DEF Lineage
<1>5. Lineage' = Lineage \union {t}
  BY <1>1, <1>2
<1> QED BY <1>1, <1>4, <1>5, HistoryIsMapped

\* The first file of a victim discards the oldest checkpoint.
LEMMA PruneIsDiscard ==
  ASSUME IInv, HistoryInv, PruneFile, CompleteSteps' # CompleteSteps
  PROVE  \E n \in Steps : History!Discard(n)
<1>1. PICK n \in victims :
        /\ n \in Steps /\ \A m \in victims : n <= m
        /\ CompleteSteps' = CompleteSteps \ {n}
  BY PruneHistory
<1>2. n \in CompleteSteps
  BY <1>1
<1>3. /\ \A m \in CompleteSteps \ victims : n < m
      /\ Cardinality({m \in CompleteSteps : m > n}) >= Keep
  BY DEF PruneFile, HistoryInv, OldEndGoes
<1>4. \A m \in CompleteSteps : n <= m
  BY <1>1, <1>3, StepsAreNat, CompleteHasSidecar
<1>5. Cardinality(CompleteSteps) > Keep
  <2> DEFINE above == {m \in CompleteSteps : m > n}
  <2>1. above \in SUBSET (CompleteSteps \ {n})
    <3>1. ~(n > n)
      BY <1>1, StepsAreNat
    <3> QED BY <3>1
  <2>2. CompleteSteps \in SUBSET Steps
    BY CompleteHasSidecar
  <2>3. /\ IsFiniteSet(CompleteSteps) /\ Cardinality(CompleteSteps) \in Nat
        /\ IsFiniteSet(CompleteSteps \ {n}) /\ Cardinality(above) \in Nat
    BY <2>1, <2>2, StepsAreFinite
  <2>4. Cardinality(CompleteSteps \ {n}) = Cardinality(CompleteSteps) - 1
    BY <1>2, <2>3, FS_RemoveElement
  <2>5. Cardinality(above) <= Cardinality(CompleteSteps \ {n})
    BY <2>1, <2>3, FS_Subset
  <2> QED BY <1>3, <2>3, <2>4, <2>5, KeepAssumption
<1>6. Lineage' = Lineage
  BY PruneKeepsLineage
<1> QED BY <1>1, <1>2, <1>4, <1>5, <1>6, HistoryIsMapped

LEMMA NextHistory ==
  ASSUME OneBuild, IInv, ResumeInv, HistoryInv, [Next]_vars
  PROVE  (\E n \in Steps : History!Save(n) \/ History!Discard(n)) \/ UNCHANGED <<Lineage, CompleteSteps>>
<1> USE DEF process, directory
<1>1. CASE SaveSidecar
  BY <1>1, SaveIsSave
<1>2. CASE PruneFile
  BY <1>2, PruneIsDiscard, PruneKeepsLineage
<1>3. CASE SaveFile
  BY <1>3, SaveFileHistory
<1>4. CASE UNCHANGED files
  BY <1>4, SameFilesSameHistory
<1> QED
  BY <1>1, <1>2, <1>3, <1>4 DEF Next, StartFresh, StartResume, StartSmoke, StartRejected, WriteRunId,
     TrainStep, GuardRejects, FinishSave, TruncateLosses, WriteLosses, WriteReport, Interrupt, vars

\* In a directory of this build alone and without smoke jobs, the complete
\* checkpoints are the retained end of one line of training that grows at its end
\* and loses its oldest, whatever is killed, rejected and started again.
THEOREM DirectoryImplementsHistory == OneBuild => (Spec => ImplementsHistory)
<1> SUFFICES ASSUME OneBuild PROVE Spec => ImplementsHistory
  OBVIOUS
<1>1. Init => ResumeInv /\ HistoryInv /\ History!Init
  BY InitResumeInv, InitHistoryInv, HistoryIsMapped
<1>2. IInv /\ ResumeInv /\ [Next]_vars => ResumeInv'
  BY NextFilesOfTraining, NextJobGoesOn, NextJobSaved, NextResumable DEF ResumeInv
<1>3. IInv /\ ResumeInv /\ HistoryInv /\ [Next]_vars => HistoryInv'
  BY NextOneLine, NextJobContinues, NextOldEndGoes DEF HistoryInv
<1>4. IInv /\ ResumeInv /\ HistoryInv /\ [Next]_vars =>
        [History!Next]_<<UNION {files["sidecar"][n].totals : n \in CompleteSteps}, CompleteSteps>>
  BY NextHistory DEF History!Next, Lineage, Totals
<1> QED BY InductiveInvariant, <1>1, <1>2, <1>3, <1>4, PTL DEF Spec, ImplementsHistory, History!Spec

-----------------------------------------------------------------------------
(* Texts and bytes. *)

LEMMA CharsOfSextets ==
  ASSUME NEW n \in 0..63
  PROVE  EncodeChar(n) \in 43..122 /\ EncodeChar(n) # Pad /\ DecodeChar(EncodeChar(n)) = n
<1>1. CASE n < 26
  BY <1>1 DEF EncodeChar, DecodeChar, Pad
<1>2. CASE n >= 26 /\ n < 52
  BY <1>2 DEF EncodeChar, DecodeChar, Pad
<1>3. CASE n >= 52 /\ n < 62
  BY <1>3 DEF EncodeChar, DecodeChar, Pad
<1>4. CASE n >= 62
  BY <1>4 DEF EncodeChar, DecodeChar, Pad
<1> QED BY <1>1, <1>2, <1>3, <1>4

LEMMA SextetsOfChars ==
  ASSUME NEW c, DecodeChar(c) # -1
  PROVE  DecodeChar(c) \in 0..63 /\ EncodeChar(DecodeChar(c)) = c
<1>1. CASE c \in 65..90
  BY <1>1 DEF EncodeChar, DecodeChar
<1>2. CASE c \in 97..122
  BY <1>2 DEF EncodeChar, DecodeChar
<1>3. CASE c \in 48..57
  BY <1>3 DEF EncodeChar, DecodeChar
<1>4. CASE c = 43 \/ c = 47
  BY <1>4 DEF EncodeChar, DecodeChar
<1> QED BY <1>1, <1>2, <1>3, <1>4 DEF DecodeChar

\* The four sextets of three bytes.
Sextet(b1, b2, b3, q) ==
  IF q = 1 THEN b1 \div 4
  ELSE IF q = 2 THEN (b1 % 4) * 16 + (b2 \div 16)
  ELSE IF q = 3 THEN (b2 % 16) * 4 + (b3 \div 64)
  ELSE b3 % 64

LEMMA SextetsOfBytes ==
  ASSUME NEW b1 \in 0..255, NEW b2 \in 0..255, NEW b3 \in 0..255
  PROVE  /\ \A q \in 1..4 : Sextet(b1, b2, b3, q) \in 0..63
         /\ b1 = Sextet(b1, b2, b3, 1) * 4 + (Sextet(b1, b2, b3, 2) \div 16)
         /\ b2 = ((Sextet(b1, b2, b3, 2) % 16) * 16) + (Sextet(b1, b2, b3, 3) \div 4)
         /\ b3 = ((Sextet(b1, b2, b3, 3) % 4) * 64) + Sextet(b1, b2, b3, 4)
<1>1. Sextet(b1, b2, b3, 1) = b1 \div 4 /\ Sextet(b1, b2, b3, 2) = (b1 % 4) * 16 + (b2 \div 16)
  BY DEF Sextet
<1>2. Sextet(b1, b2, b3, 3) = (b2 % 16) * 4 + (b3 \div 64) /\ Sextet(b1, b2, b3, 4) = b3 % 64
  BY DEF Sextet
<1>3. b1 \div 4 \in 0..63 /\ (b1 % 4) * 16 + (b2 \div 16) \in 0..63
  OBVIOUS
<1>4. (b2 % 16) * 4 + (b3 \div 64) \in 0..63 /\ b3 % 64 \in 0..63
  OBVIOUS
<1>5. \A q \in 1..4 : q = 1 \/ q = 2 \/ q = 3 \/ q = 4
  OBVIOUS
<1>6. \A q \in 1..4 : Sextet(b1, b2, b3, q) \in 0..63
  BY <1>1, <1>2, <1>3, <1>4, <1>5
<1>7. ((b1 % 4) * 16 + (b2 \div 16)) \div 16 = b1 % 4 /\ ((b1 % 4) * 16 + (b2 \div 16)) % 16 = b2 \div 16
  OBVIOUS
<1>8. ((b2 % 16) * 4 + (b3 \div 64)) \div 4 = b2 % 16 /\ ((b2 % 16) * 4 + (b3 \div 64)) % 4 = b3 \div 64
  OBVIOUS
<1>9. b1 = (b1 \div 4) * 4 + (b1 % 4) /\ b2 = (b2 \div 16) * 16 + (b2 % 16) /\ b3 = (b3 \div 64) * 64 + (b3 % 64)
  OBVIOUS
<1> QED BY <1>1, <1>2, <1>6, <1>7, <1>8, <1>9

\* A chunk of three bytes as characters.
LEMMA ChunkOfBytes ==
  ASSUME NEW b1 \in 0..255, NEW b2 \in 0..255, NEW b3 \in 0..255, NEW n \in Nat, n >= 3
  PROVE  LET c(q) == ChunkChar(b1, b2, b3, n, q) IN
         /\ \A q \in 1..4 : c(q) \in 43..122 /\ c(q) # Pad
         /\ ~ChunkRefused(c(1), c(2), c(3), c(4))
         /\ ChunkBytes(c(1), c(2), c(3), c(4)) = <<b1, b2, b3>>
<1> DEFINE s(q) == Sextet(b1, b2, b3, q)
           c(q) == ChunkChar(b1, b2, b3, n, q)
<1>1. \A q \in 1..4 : c(q) = EncodeChar(s(q))
  BY DEF ChunkChar, Sextet
<1>2. /\ \A q \in 1..4 : s(q) \in 0..63
      /\ b1 = s(1) * 4 + (s(2) \div 16) /\ b2 = ((s(2) % 16) * 16) + (s(3) \div 4) /\ b3 = ((s(3) % 4) * 64) + s(4)
  <2>1. /\ \A q \in 1..4 : Sextet(b1, b2, b3, q) \in 0..63
        /\ b1 = Sextet(b1, b2, b3, 1) * 4 + (Sextet(b1, b2, b3, 2) \div 16)
        /\ b2 = ((Sextet(b1, b2, b3, 2) % 16) * 16) + (Sextet(b1, b2, b3, 3) \div 4)
        /\ b3 = ((Sextet(b1, b2, b3, 3) % 4) * 64) + Sextet(b1, b2, b3, 4)
    <3> HIDE DEF s, c
    <3> QED BY SextetsOfBytes, Zenon
  <2> QED BY ONLY <2>1
<1> HIDE DEF s, c
<1>3. \A q \in 1..4 : c(q) \in 43..122 /\ c(q) # Pad /\ DecodeChar(c(q)) = s(q)
  BY <1>1, <1>2, CharsOfSextets
<1>4. DecodeChar(c(1)) = s(1) /\ DecodeChar(c(2)) = s(2) /\ DecodeChar(c(3)) = s(3) /\ DecodeChar(c(4)) = s(4)
  BY <1>3
<1>5. c(3) # Pad /\ c(4) # Pad /\ s(1) # -1 /\ s(2) # -1 /\ s(3) # -1 /\ s(4) # -1
  BY <1>2, <1>3
<1>6. ~ChunkRefused(c(1), c(2), c(3), c(4))
  BY <1>4, <1>5 DEF ChunkRefused
<1>7. ChunkBytes(c(1), c(2), c(3), c(4)) = <<b1, b2, b3>>
  BY <1>2, <1>4, <1>5 DEF ChunkBytes
<1> QED BY <1>3, <1>6, <1>7 DEF c

\* Six bits each of four characters.
\* The characters of three bytes that a text goes on behind.
Spells(b1, b2, b3, c1, c2, c3, c4) ==
  \A n \in Nat : n >= 3 => /\ ChunkChar(b1, b2, b3, n, 1) = c1 /\ ChunkChar(b1, b2, b3, n, 2) = c2
                           /\ ChunkChar(b1, b2, b3, n, 3) = c3 /\ ChunkChar(b1, b2, b3, n, 4) = c4

LEMMA BytesOfChunk ==
  ASSUME NEW c1, NEW c2, NEW c3, NEW c4, c3 # Pad, c4 # Pad, ~ChunkRefused(c1, c2, c3, c4)
  PROVE  \E b1 \in 0..255, b2 \in 0..255, b3 \in 0..255 :
           ChunkBytes(c1, c2, c3, c4) = <<b1, b2, b3>> /\ Spells(b1, b2, b3, c1, c2, c3, c4)
<1> DEFINE s1 == DecodeChar(c1) s2 == DecodeChar(c2) s3 == DecodeChar(c3) s4 == DecodeChar(c4)
           b1 == s1 * 4 + (s2 \div 16)
           b2 == ((s2 % 16) * 16) + (s3 \div 4)
           b3 == ((s3 % 4) * 64) + s4
<1>1. s1 # -1 /\ s2 # -1 /\ s3 # -1 /\ s4 # -1
  BY DEF ChunkRefused
<1>2. /\ s1 \in 0..63 /\ EncodeChar(s1) = c1 /\ s2 \in 0..63 /\ EncodeChar(s2) = c2
      /\ s3 \in 0..63 /\ EncodeChar(s3) = c3 /\ s4 \in 0..63 /\ EncodeChar(s4) = c4
  BY <1>1, SextetsOfChars
<1>3. ChunkBytes(c1, c2, c3, c4) = <<b1, b2, b3>>
  BY DEF ChunkBytes
<1>6. b1 = s1 * 4 + (s2 \div 16) /\ b2 = ((s2 % 16) * 16) + (s3 \div 4) /\ b3 = ((s3 % 4) * 64) + s4
  OBVIOUS
<1> HIDE DEF s1, s2, s3, s4, b1, b2, b3
<1>4. /\ b1 \in 0..255 /\ b2 \in 0..255 /\ b3 \in 0..255
      /\ b1 \div 4 = s1 /\ (b1 % 4) * 16 + (b2 \div 16) = s2
      /\ (b2 % 16) * 4 + (b3 \div 64) = s3 /\ b3 % 64 = s4
  <2>1. b1 \in 0..255 /\ b1 \div 4 = s1 /\ b1 % 4 = s2 \div 16
    BY <1>2, <1>6
  <2>2. b2 \in 0..255 /\ b2 \div 16 = s2 % 16 /\ b2 % 16 = s3 \div 4
    BY <1>2, <1>6
  <2>3. b3 \in 0..255 /\ b3 \div 64 = s3 % 4 /\ b3 % 64 = s4
    BY <1>2, <1>6
  <2>4. s2 = (s2 \div 16) * 16 + (s2 % 16) /\ s3 = (s3 \div 4) * 4 + (s3 % 4)
    BY <1>2
  <2> QED BY <2>1, <2>2, <2>3, <2>4
<1>5. ASSUME NEW n \in Nat, n >= 3
      PROVE  /\ ChunkChar(b1, b2, b3, n, 1) = c1 /\ ChunkChar(b1, b2, b3, n, 2) = c2
             /\ ChunkChar(b1, b2, b3, n, 3) = c3 /\ ChunkChar(b1, b2, b3, n, 4) = c4
  BY <1>2, <1>4, <1>5 DEF ChunkChar
<1>7. Spells(b1, b2, b3, c1, c2, c3, c4)
  BY <1>5 DEF Spells
<1> QED BY <1>3, <1>4, <1>7

-----------------------------------------------------------------------------
(* Lists one after the other, each behind the offset where it begins. *)

Offsets(n, seqs, off) == off[0] = 0 /\ \A i \in 1..n : off[i] = off[i - 1] + Len(seqs[i])
Behind(n, seqs, off, q) == \A k \in 1..n : \A r \in 1..Len(seqs[k]) : q[off[k - 1] + r] = seqs[k][r]

LEMMA FlattenByPlace ==
  ASSUME NEW X, NEW n \in Nat, NEW seqs \in [1..n -> Seq(X)], NEW off, Offsets(n, seqs, off)
  PROVE  /\ FlattenSeq(seqs) \in Seq(X) /\ Len(FlattenSeq(seqs)) = off[n]
         /\ Behind(n, seqs, off, FlattenSeq(seqs))
         /\ \A i \in 0..n : off[i] \in Nat
<1> USE DEF Offsets
<1>1. PICK f : Joins(X, n, seqs, f) /\ FlattenSeq(seqs) = f[n]
  BY FlattenJoins
<1>2. f[0] = << >> /\ f \in [0..n -> Seq(X)] /\ \A i \in 1..n : f[i] = f[i - 1] \o seqs[i]
  BY <1>1 DEF Joins, JoinsOf
<1> DEFINE Placed(i) == \A k \in 1..i : \A r \in 1..Len(seqs[k]) :
                          off[k - 1] \in Nat /\ off[k - 1] + r <= off[i] /\ f[i][off[k - 1] + r] = seqs[k][r]
           S == {i \in 0..n : off[i] \in Nat /\ Len(f[i]) = off[i] /\ Placed(i)}
<1>3. 0 \in S
  BY <1>2
<1>4. ASSUME NEW i \in 1..n, i - 1 \in S PROVE i \in S
  <2>1. off[i - 1] \in Nat /\ Len(f[i - 1]) = off[i - 1] /\ Placed(i - 1) /\ i - 1 \in 0..n
    BY <1>4
  <2>2. f[i - 1] \in Seq(X) /\ seqs[i] \in Seq(X) /\ f[i] = f[i - 1] \o seqs[i]
    BY <1>2, <2>1
  <2>3. /\ Len(f[i]) = Len(f[i - 1]) + Len(seqs[i])
        /\ \A p \in 1..Len(f[i - 1]) : f[i][p] = f[i - 1][p]
        /\ \A r \in 1..Len(seqs[i]) : f[i][Len(f[i - 1]) + r] = seqs[i][r]
    BY <2>2, ConcatAt
  <2>4. Len(seqs[i]) \in Nat /\ off[i] = off[i - 1] + Len(seqs[i])
    BY <2>2
  <2>5. off[i] \in Nat /\ Len(f[i]) = off[i]
    BY <2>1, <2>3, <2>4
  <2>6. ASSUME NEW k \in 1..i, NEW r \in 1..Len(seqs[k])
        PROVE  off[k - 1] \in Nat /\ off[k - 1] + r <= off[i] /\ f[i][off[k - 1] + r] = seqs[k][r]
    <3>1. CASE k = i
      <4>1. f[i][off[i - 1] + r] = seqs[i][r] /\ r \in 1..Len(seqs[i])
        BY <2>1, <2>3, <2>6, <3>1
      <4> QED BY <2>1, <2>4, <3>1, <4>1
    <3>2. CASE k # i
      <4>1. k \in 1..(i - 1)
        BY <3>2
      <4>2. off[k - 1] \in Nat /\ off[k - 1] + r <= off[i - 1] /\ f[i - 1][off[k - 1] + r] = seqs[k][r]
        BY <2>1, <4>1
      <4>3. off[k - 1] + r \in 1..Len(f[i - 1]) /\ r \in Nat
        <5>1. seqs[k] \in Seq(X)
          OBVIOUS
        <5>2. r \in Nat /\ r >= 1
          BY <5>1
        <5> QED BY <2>1, <4>2, <5>2
      <4>4. off[k - 1] + r <= off[i]
        <5>1. off[i - 1] \in Nat /\ off[k - 1] \in Nat /\ r \in Nat /\ off[k - 1] + r <= off[i - 1]
          BY <2>1, <4>2, <4>3
        <5> QED BY ONLY <2>4, <5>1
      <4> QED BY <2>3, <4>2, <4>3, <4>4
    <3> QED BY <3>1, <3>2
  <2>7. Placed(i)
    BY <2>6
  <2> HIDE DEF Placed
  <2> QED BY <2>5, <2>7
<1> HIDE DEF S, Placed
<1>5. 0..n \subseteq S
  BY <1>3, <1>4, Induction
<1>6. n \in S
  BY <1>5
<1>7. FlattenSeq(seqs) \in Seq(X) /\ Len(f[n]) = off[n] /\ Placed(n)
  BY <1>1, <1>2, <1>6 DEF S
<1>8. \A i \in 0..n : off[i] \in Nat
  BY <1>5 DEF S
<1> QED BY <1>1, <1>7, <1>8 DEF Placed, Behind

\* All of the same length.
InRows(n, w, seqs, q) == \A k \in 1..n : \A r \in 1..w : q[w * (k - 1) + r] = seqs[k][r]

LEMMA FlattenRows ==
  ASSUME NEW X, NEW n \in Nat, NEW w \in Nat, NEW seqs \in [1..n -> Seq(X)], \A i \in 1..n : Len(seqs[i]) = w
  PROVE  /\ FlattenSeq(seqs) \in Seq(X) /\ Len(FlattenSeq(seqs)) = w * n
         /\ InRows(n, w, seqs, FlattenSeq(seqs))
<1> DEFINE off == [i \in 0..n |-> w * i]
<1>1. off[0] = 0 /\ off[n] = w * n /\ \A k \in 1..n : off[k - 1] = w * (k - 1) /\ off[k] = w * k
  OBVIOUS
<1>2. ASSUME NEW i \in 1..n PROVE off[i] = off[i - 1] + Len(seqs[i])
  <2>1. w * i = w * (i - 1) + w
    OBVIOUS
  <2> QED BY <1>1, <2>1
<1> HIDE DEF off
<1>3. /\ FlattenSeq(seqs) \in Seq(X) /\ Len(FlattenSeq(seqs)) = off[n]
      /\ \A k \in 1..n : \A r \in 1..Len(seqs[k]) : FlattenSeq(seqs)[off[k - 1] + r] = seqs[k][r]
  <2>1. Offsets(n, seqs, off)
    BY <1>1, <1>2 DEF Offsets
  <2>2. FlattenSeq(seqs) \in Seq(X) /\ Len(FlattenSeq(seqs)) = off[n] /\ Behind(n, seqs, off, FlattenSeq(seqs))
    BY <2>1, FlattenByPlace, Zenon
  <2> QED BY <2>2 DEF Behind
<1> QED BY <1>1, <1>3 DEF InRows

\* What the k-th chunk of a text stands for.
ChunkIs(text, k, bytes) ==
  /\ ~ChunkRefused(text[4 * k - 3], text[4 * k - 2], text[4 * k - 1], text[4 * k])
  /\ ChunkBytes(text[4 * k - 3], text[4 * k - 2], text[4 * k - 1], text[4 * k]) = bytes

LEMMA DecodedByChunk ==
  ASSUME NEW text, NEW m \in Nat, Len(text) = 4 * m, NEW pieces, pieces = [k \in 1..m |-> pieces[k]],
         \A k \in 1..m : ChunkIs(text, k, pieces[k])
  PROVE  Base64Decode(text) = FlattenSeq(pieces)
<1> DEFINE refused(k) == ChunkRefused(text[4 * k - 3], text[4 * k - 2], text[4 * k - 1], text[4 * k])
           piece(k) == ChunkBytes(text[4 * k - 3], text[4 * k - 2], text[4 * k - 1], text[4 * k])
<1>1. Len(text) % 4 = 0 /\ Len(text) \div 4 = m
  OBVIOUS
<1>2. \A k \in 1..m : ~refused(k) /\ piece(k) = pieces[k]
  BY DEF ChunkIs
<1>3. Base64Decode(text) = IF Len(text) % 4 # 0 \/ \E k \in 1..(Len(text) \div 4) : refused(k) THEN NoAnswer
                           ELSE FlattenSeq([k \in 1..(Len(text) \div 4) |-> piece(k)])
  BY DEF Base64Decode
<1> HIDE DEF refused, piece
<1>4. [k \in 1..m |-> piece(k)] = pieces
  BY <1>2
<1> QED BY <1>1, <1>2, <1>3, <1>4

LEMMA EncodedByChunk ==
  ASSUME NEW bytes \in Seq(0..255), NEW m \in Nat, Len(bytes) = 3 * m
  PROVE  /\ Base64Encode(bytes) = [p \in 1..(4 * m) |-> Base64Encode(bytes)[p]]
         /\ \A k \in 1..m : LET left == 3 * m - 3 * (k - 1) IN
              /\ Base64Encode(bytes)[4 * k - 3] = ChunkChar(bytes[3 * k - 2], bytes[3 * k - 1], bytes[3 * k], left, 1)
              /\ Base64Encode(bytes)[4 * k - 2] = ChunkChar(bytes[3 * k - 2], bytes[3 * k - 1], bytes[3 * k], left, 2)
              /\ Base64Encode(bytes)[4 * k - 1] = ChunkChar(bytes[3 * k - 2], bytes[3 * k - 1], bytes[3 * k], left, 3)
              /\ Base64Encode(bytes)[4 * k] = ChunkChar(bytes[3 * k - 2], bytes[3 * k - 1], bytes[3 * k], left, 4)
<1> DEFINE byteAt(i) == IF i <= Len(bytes) THEN bytes[i] ELSE 0
           done(p) == 3 * ((p - 1) \div 4)
           char(p) == ChunkChar(byteAt(done(p) + 1), byteAt(done(p) + 2), byteAt(done(p) + 3), Len(bytes) - done(p), ((p - 1) % 4) + 1)
<1>1. Base64Encode(bytes) = [p \in 1..(4 * ((Len(bytes) + 2) \div 3)) |-> char(p)]
  BY DEF Base64Encode
<1>2. (Len(bytes) + 2) \div 3 = m
  OBVIOUS
<1>3. Base64Encode(bytes) = [p \in 1..(4 * m) |-> char(p)]
  BY <1>1, <1>2
<1>4. ASSUME NEW k \in 1..m, NEW q \in 1..4
      PROVE  char((4 * k - 4) + q) = ChunkChar(bytes[3 * k - 2], bytes[3 * k - 1], bytes[3 * k], 3 * m - 3 * (k - 1), q)
  <2>1. (((4 * k - 4) + q) - 1) \div 4 = k - 1 /\ (((4 * k - 4) + q) - 1) % 4 = q - 1
    OBVIOUS
  <2>2. done((4 * k - 4) + q) = 3 * (k - 1)
    BY <2>1
  <2>3. 3 * (k - 1) + 1 = 3 * k - 2 /\ 3 * (k - 1) + 2 = 3 * k - 1 /\ 3 * (k - 1) + 3 = 3 * k /\ (q - 1) + 1 = q
    OBVIOUS
  <2>4. 3 * k - 2 <= Len(bytes) /\ 3 * k - 1 <= Len(bytes) /\ 3 * k <= Len(bytes)
    OBVIOUS
  <2>5. byteAt(3 * k - 2) = bytes[3 * k - 2] /\ byteAt(3 * k - 1) = bytes[3 * k - 1] /\ byteAt(3 * k) = bytes[3 * k]
    BY <2>4
  <2> HIDE DEF byteAt, done
  <2> QED BY <2>1, <2>2, <2>3, <2>5
<1> HIDE DEF char
<1>5. ASSUME NEW k \in 1..m
      PROVE  /\ 4 * k - 3 \in 1..(4 * m) /\ 4 * k - 2 \in 1..(4 * m) /\ 4 * k - 1 \in 1..(4 * m) /\ 4 * k \in 1..(4 * m)
             /\ (4 * k - 4) + 1 = 4 * k - 3 /\ (4 * k - 4) + 2 = 4 * k - 2 /\ (4 * k - 4) + 3 = 4 * k - 1
             /\ (4 * k - 4) + 4 = 4 * k
  OBVIOUS
<1>6. ASSUME NEW k \in 1..m
      PROVE  LET left == 3 * m - 3 * (k - 1) IN
              /\ Base64Encode(bytes)[4 * k - 3] = ChunkChar(bytes[3 * k - 2], bytes[3 * k - 1], bytes[3 * k], left, 1)
              /\ Base64Encode(bytes)[4 * k - 2] = ChunkChar(bytes[3 * k - 2], bytes[3 * k - 1], bytes[3 * k], left, 2)
              /\ Base64Encode(bytes)[4 * k - 1] = ChunkChar(bytes[3 * k - 2], bytes[3 * k - 1], bytes[3 * k], left, 3)
              /\ Base64Encode(bytes)[4 * k] = ChunkChar(bytes[3 * k - 2], bytes[3 * k - 1], bytes[3 * k], left, 4)
  <2> DEFINE left == 3 * m - 3 * (k - 1)
             c(q) == ChunkChar(bytes[3 * k - 2], bytes[3 * k - 1], bytes[3 * k], left, q)
  <2>1. char((4 * k - 4) + 1) = c(1) /\ char((4 * k - 4) + 2) = c(2) /\ char((4 * k - 4) + 3) = c(3) /\ char((4 * k - 4) + 4) = c(4)
    <3>1. 1 \in 1..4 /\ 2 \in 1..4 /\ 3 \in 1..4 /\ 4 \in 1..4
      OBVIOUS
    <3> QED BY <1>4, <3>1
  <2> HIDE DEF c
  <2>2. char(4 * k - 3) = c(1) /\ char(4 * k - 2) = c(2) /\ char(4 * k - 1) = c(3) /\ char(4 * k) = c(4)
    BY <2>1, <1>5
  <2>3. /\ Base64Encode(bytes)[4 * k - 3] = c(1) /\ Base64Encode(bytes)[4 * k - 2] = c(2)
        /\ Base64Encode(bytes)[4 * k - 1] = c(3) /\ Base64Encode(bytes)[4 * k] = c(4)
    BY <1>3, <1>5, <2>2
  <2> QED BY <2>3 DEF c
<1>7. Base64Encode(bytes) = [p \in 1..(4 * m) |-> Base64Encode(bytes)[p]]
  BY <1>3
<1> QED BY <1>6, <1>7

\* Every place of m rows of three is in one of them.
LEMMA InThrees ==
  ASSUME NEW m \in Nat, NEW p \in 1..(3 * m)
  PROVE  \E k \in 1..m, r \in 1..3 : p = 3 * (k - 1) + r
<1>1. ((p - 1) \div 3) + 1 \in 1..m /\ ((p - 1) % 3) + 1 \in 1..3
  OBVIOUS
<1>2. p = 3 * ((((p - 1) \div 3) + 1) - 1) + (((p - 1) % 3) + 1)
  OBVIOUS
<1> QED BY <1>1, <1>2

LEMMA InFours ==
  ASSUME NEW m \in Nat, NEW p \in 1..(4 * m)
  PROVE  \E k \in 1..m : p = 4 * k - 3 \/ p = 4 * k - 2 \/ p = 4 * k - 1 \/ p = 4 * k
<1>1. ((p - 1) \div 4) + 1 \in 1..m
  OBVIOUS
<1>2. LET k == ((p - 1) \div 4) + 1 IN p = 4 * k - 3 \/ p = 4 * k - 2 \/ p = 4 * k - 1 \/ p = 4 * k
  OBVIOUS
<1> QED BY <1>1, <1>2

LEMMA ElementsIn ==
  ASSUME NEW X, NEW s \in Seq(X), NEW n, Len(s) = n
  PROVE  \A i \in 1..n : s[i] \in X
OBVIOUS

LEMMA ListSeq ==
  ASSUME NEW X, NEW n \in Nat, NEW f \in [1..n -> X]
  PROVE  f \in Seq(X) /\ Len(f) = n
<1>1. f \in Seq(X)
  BY SeqDef
<1> QED BY <1>1

LEMMA SameSeq ==
  ASSUME NEW X, NEW s \in Seq(X), NEW t \in Seq(X), Len(s) = Len(t), \A p \in 1..Len(s) : s[p] = t[p]
  PROVE  s = t
OBVIOUS

\* What was encoded is decoded, and has no "=".
LEMMA Base64RoundTrip ==
  ASSUME NEW bytes \in Seq(0..255), NEW m \in Nat, Len(bytes) = 3 * m
  PROVE  /\ Base64Encode(bytes) \in Seq(0..255) /\ Len(Base64Encode(bytes)) = 4 * m
         /\ \A p \in 1..(4 * m) : Base64Encode(bytes)[p] # Pad
         /\ Base64Decode(Base64Encode(bytes)) = bytes
<1> DEFINE text == Base64Encode(bytes)
           piece(k) == <<bytes[3 * k - 2], bytes[3 * k - 1], bytes[3 * k]>>
           pieces == [k \in 1..m |-> piece(k)]
<1>1. text = [p \in 1..(4 * m) |-> text[p]] /\ DOMAIN text = 1..(4 * m)
  BY EncodedByChunk
<1>2. ASSUME NEW k \in 1..m
      PROVE  /\ bytes[3 * k - 2] \in 0..255 /\ bytes[3 * k - 1] \in 0..255 /\ bytes[3 * k] \in 0..255
             /\ 3 * m - 3 * (k - 1) \in Nat /\ 3 * m - 3 * (k - 1) >= 3
  <2>1. /\ 3 * k - 2 \in 1..(3 * m) /\ 3 * k - 1 \in 1..(3 * m) /\ 3 * k \in 1..(3 * m)
        /\ 3 * m - 3 * (k - 1) \in Nat /\ 3 * m - 3 * (k - 1) >= 3
    OBVIOUS
  <2>2. \A i \in 1..(3 * m) : bytes[i] \in 0..255
    <3> HIDE DEF text, pieces
    <3> QED BY ElementsIn, Zenon
  <2> QED BY <2>1, <2>2
<1>3. ASSUME NEW k \in 1..m
      PROVE  /\ ChunkIs(text, k, piece(k))
             /\ text[4 * k - 3] \in 43..122 /\ text[4 * k - 2] \in 43..122 /\ text[4 * k - 1] \in 43..122 /\ text[4 * k] \in 43..122
             /\ text[4 * k - 3] # Pad /\ text[4 * k - 2] # Pad /\ text[4 * k - 1] # Pad /\ text[4 * k] # Pad
  <2> DEFINE left == 3 * m - 3 * (k - 1)
             c(q) == ChunkChar(bytes[3 * k - 2], bytes[3 * k - 1], bytes[3 * k], left, q)
  <2>1. text[4 * k - 3] = c(1) /\ text[4 * k - 2] = c(2) /\ text[4 * k - 1] = c(3) /\ text[4 * k] = c(4)
    BY EncodedByChunk
  <2>2. /\ \A q \in 1..4 : c(q) \in 43..122 /\ c(q) # Pad
        /\ ~ChunkRefused(c(1), c(2), c(3), c(4))
        /\ ChunkBytes(c(1), c(2), c(3), c(4)) = piece(k)
    BY <1>2, ChunkOfBytes
  <2> HIDE DEF c, text
  <2>3. c(1) \in 43..122 /\ c(2) \in 43..122 /\ c(3) \in 43..122 /\ c(4) \in 43..122
        /\ c(1) # Pad /\ c(2) # Pad /\ c(3) # Pad /\ c(4) # Pad
    BY <2>2
  <2>4. ChunkIs(text, k, piece(k))
    BY <2>1, <2>2 DEF ChunkIs
  <2> QED BY <2>1, <2>3, <2>4
<1>4. pieces = [k \in 1..m |-> pieces[k]] /\ \A k \in 1..m : pieces[k] = piece(k)
  OBVIOUS
<1> HIDE DEF text
<1>5. ASSUME NEW p \in 1..(4 * m) PROVE text[p] \in 43..122 /\ text[p] # Pad
  <2>1. PICK k \in 1..m : p = 4 * k - 3 \/ p = 4 * k - 2 \/ p = 4 * k - 1 \/ p = 4 * k
    BY InFours
  <2> QED BY <1>3, <2>1
<1>6. text \in Seq(0..255) /\ Len(text) = 4 * m
  <2>1. \A p \in 1..(4 * m) : text[p] \in 0..255
    BY <1>5
  <2>2. 4 * m \in Nat
    OBVIOUS
  <2>3. text \in [1..(4 * m) -> 0..255]
    BY <1>1, <2>1, Zenon
  <2>4. PICK n : n = 4 * m
    OBVIOUS
  <2>5. n \in Nat /\ text \in [1..n -> 0..255]
    BY <2>2, <2>3, <2>4
  <2>6. text \in Seq(0..255) /\ Len(text) = n
    BY <2>5, ListSeq
  <2> QED BY <2>4, <2>6
<1>7. Base64Decode(text) = FlattenSeq(pieces)
  <2>1. \A k \in 1..m : ChunkIs(text, k, pieces[k])
    BY <1>3, <1>4
  <2> HIDE DEF pieces
  <2> QED BY <1>4, <1>6, <2>1, DecodedByChunk
<1>8. pieces \in [1..m -> Seq(0..255)] /\ \A k \in 1..m : Len(pieces[k]) = 3
  <2>1. \A k \in 1..m : piece(k) \in Seq(0..255) /\ Len(piece(k)) = 3
    BY <1>2
  <2> HIDE DEF piece
  <2> QED BY <2>1
<1> HIDE DEF pieces
<1>9. /\ FlattenSeq(pieces) \in Seq(0..255) /\ Len(FlattenSeq(pieces)) = 3 * m
      /\ \A k \in 1..m : \A r \in 1..3 : FlattenSeq(pieces)[3 * (k - 1) + r] = pieces[k][r]
  <2>1. 3 \in Nat
    OBVIOUS
  <2>2. FlattenSeq(pieces) \in Seq(0..255) /\ Len(FlattenSeq(pieces)) = 3 * m /\ InRows(m, 3, pieces, FlattenSeq(pieces))
    BY <1>8, <2>1, FlattenRows, Zenon
  <2> QED BY <2>2 DEF InRows
<1>10. ASSUME NEW p \in 1..(3 * m) PROVE FlattenSeq(pieces)[p] = bytes[p]
  <2>1. PICK k \in 1..m, r \in 1..3 : p = 3 * (k - 1) + r
    BY InThrees
  <2>2. FlattenSeq(pieces)[p] = piece(k)[r]
    BY <1>4, <1>9, <2>1
  <2>3. piece(k)[r] = bytes[3 * (k - 1) + r]
    <3>1. 3 * (k - 1) + 1 = 3 * k - 2 /\ 3 * (k - 1) + 2 = 3 * k - 1 /\ 3 * (k - 1) + 3 = 3 * k
      OBVIOUS
    <3>2. r = 1 \/ r = 2 \/ r = 3
      OBVIOUS
    <3> QED BY <3>1, <3>2
  <2> QED BY <2>1, <2>2, <2>3
<1>11. FlattenSeq(pieces) = bytes
  BY <1>9, <1>10, SameSeq
<1> QED BY <1>5, <1>6, <1>7, <1>11 DEF text

\* A text without "=" that is accepted is the encoding of what it decodes to.
LEMMA Base64Canonical ==
  ASSUME NEW text, NEW len \in Nat, text = [p \in 1..len |-> text[p]],
         \A p \in 1..len : text[p] # Pad, Base64Decode(text) # NoAnswer
  PROVE  /\ Base64Decode(text) \in Seq(0..255)
         /\ Base64Encode(Base64Decode(text)) = text
<1> DEFINE m == len \div 4
           c(k) == <<text[4 * k - 3], text[4 * k - 2], text[4 * k - 1], text[4 * k]>>
           piece(k) == ChunkBytes(text[4 * k - 3], text[4 * k - 2], text[4 * k - 1], text[4 * k])
           refused(k) == ChunkRefused(text[4 * k - 3], text[4 * k - 2], text[4 * k - 1], text[4 * k])
           pieces == [k \in 1..m |-> piece(k)]
<1>1. Len(text) = len /\ DOMAIN text = 1..len
  OBVIOUS
<1>2. len % 4 = 0 /\ \A k \in 1..m : ~refused(k)
  <2>1. ~(Len(text) % 4 # 0 \/ \E k \in 1..(Len(text) \div 4) : refused(k))
    BY DEF Base64Decode
  <2> QED BY <1>1, <2>1
<1>3. m \in Nat /\ len = 4 * m
  BY <1>2
<1>4. ASSUME NEW k \in 1..m
      PROVE  /\ piece(k) \in Seq(0..255) /\ Len(piece(k)) = 3 /\ ~refused(k)
             /\ Spells(piece(k)[1], piece(k)[2], piece(k)[3], text[4 * k - 3], text[4 * k - 2], text[4 * k - 1], text[4 * k])
  <2>1. 4 * k - 1 \in 1..len /\ 4 * k \in 1..len
    BY <1>3
  <2>2. text[4 * k - 1] # Pad /\ text[4 * k] # Pad
    BY <2>1
  <2>3. PICK b1 \in 0..255, b2 \in 0..255, b3 \in 0..255 :
           piece(k) = <<b1, b2, b3>> /\ Spells(b1, b2, b3, text[4 * k - 3], text[4 * k - 2], text[4 * k - 1], text[4 * k])
    BY <1>2, <2>2, BytesOfChunk
  <2> HIDE DEF piece, refused
  <2>4. piece(k) \in Seq(0..255) /\ Len(piece(k)) = 3
    BY <2>3
  <2>5. piece(k)[1] = b1 /\ piece(k)[2] = b2 /\ piece(k)[3] = b3
    BY <2>3
  <2> QED BY <1>2, <2>3, <2>4, <2>5
<1>5. pieces = [k \in 1..m |-> pieces[k]] /\ \A k \in 1..m : pieces[k] = piece(k)
  OBVIOUS
<1>6. \A k \in 1..m : ChunkIs(text, k, pieces[k])
  BY <1>2, <1>5 DEF ChunkIs
<1> HIDE DEF piece, refused, m
<1>7. pieces \in [1..m -> Seq(0..255)] /\ \A k \in 1..m : Len(pieces[k]) = 3
  BY <1>4
<1> HIDE DEF pieces
<1>8. Base64Decode(text) = FlattenSeq(pieces)
  BY <1>1, <1>3, <1>5, <1>6, DecodedByChunk
<1> DEFINE bytes == FlattenSeq(pieces)
<1>9. /\ bytes \in Seq(0..255) /\ Len(bytes) = 3 * m
      /\ \A k \in 1..m : \A r \in 1..3 : bytes[3 * (k - 1) + r] = pieces[k][r]
  <2>1. 3 \in Nat
    OBVIOUS
  <2>2. bytes \in Seq(0..255) /\ Len(bytes) = 3 * m /\ InRows(m, 3, pieces, bytes)
    BY <1>3, <1>7, <2>1, FlattenRows, Zenon
  <2> QED BY <2>2 DEF InRows
<1> HIDE DEF bytes
<1> DEFINE again == Base64Encode(bytes)
<1>10. again = [p \in 1..(4 * m) |-> again[p]]
  BY <1>3, <1>9, EncodedByChunk
<1>11. ASSUME NEW k \in 1..m
       PROVE  /\ again[4 * k - 3] = text[4 * k - 3] /\ again[4 * k - 2] = text[4 * k - 2]
              /\ again[4 * k - 1] = text[4 * k - 1] /\ again[4 * k] = text[4 * k]
  <2> DEFINE left == 3 * m - 3 * (k - 1)
  <2>1. left \in Nat /\ left >= 3
    BY <1>3
  <2>2. 3 * (k - 1) + 1 = 3 * k - 2 /\ 3 * (k - 1) + 2 = 3 * k - 1 /\ 3 * (k - 1) + 3 = 3 * k /\ {1, 2, 3} \subseteq 1..3
    BY <1>3
  <2>3. bytes[3 * (k - 1) + 1] = pieces[k][1] /\ bytes[3 * (k - 1) + 2] = pieces[k][2] /\ bytes[3 * (k - 1) + 3] = pieces[k][3]
    BY <1>9, <2>2
  <2>4. bytes[3 * k - 2] = piece(k)[1] /\ bytes[3 * k - 1] = piece(k)[2] /\ bytes[3 * k] = piece(k)[3]
    BY <1>5, <2>2, <2>3
  <2>5. /\ again[4 * k - 3] = ChunkChar(bytes[3 * k - 2], bytes[3 * k - 1], bytes[3 * k], left, 1)
        /\ again[4 * k - 2] = ChunkChar(bytes[3 * k - 2], bytes[3 * k - 1], bytes[3 * k], left, 2)
        /\ again[4 * k - 1] = ChunkChar(bytes[3 * k - 2], bytes[3 * k - 1], bytes[3 * k], left, 3)
        /\ again[4 * k] = ChunkChar(bytes[3 * k - 2], bytes[3 * k - 1], bytes[3 * k], left, 4)
    BY <1>3, <1>9, EncodedByChunk
  <2> HIDE DEF left, again
  <2> QED BY <1>4, <2>1, <2>4, <2>5 DEF Spells
<1> HIDE DEF again
<1>12. ASSUME NEW p \in 1..len PROVE again[p] = text[p]
  <2>1. PICK k \in 1..m : p = 4 * k - 3 \/ p = 4 * k - 2 \/ p = 4 * k - 1 \/ p = 4 * k
    BY <1>3, InFours
  <2> QED BY <1>11, <2>1
<1>13. again = text
  BY <1>3, <1>10, <1>12
<1> QED BY <1>8, <1>9, <1>13 DEF again, bytes

-----------------------------------------------------------------------------
(* Words as bytes. *)

Powers(n, f) == f[0] = 1 /\ \A i \in 1..n : f[i] = 256 * f[i - 1]
Quotients(n, v, f) == f[0] = v /\ \A i \in 1..n : f[i] = f[i - 1] \div 256
Sums(n, bytes, f) == f[0] = 0 /\ \A i \in 1..n : f[i] = bytes[(n + 1) - i] + 256 * f[i - 1]

LEMMA Pow256Is ==
  ASSUME NEW n \in Nat
  PROVE  \E f : Powers(n, f) /\ Pow256(n) = f[n]
<1> DEFINE step == [i \in 1..n |-> [x \in Nat |-> 256 * x]]
           Rec(g) == g = [i \in 0..n |-> IF i = 0 THEN 1 ELSE 256 * g[i - 1]]
           pow == CHOOSE g : Rec(g)
<1>1. PICK f : Iterates(Nat, n, 1, step, f)
  <2>1. 1 \in Nat /\ step \in [1..n -> [Nat -> Nat]]
    OBVIOUS
  <2> HIDE DEF step
  <2> QED BY <2>1, Recursion, Zenon
<1>2. Rec(f)
  <2>1. ASSUME NEW i \in 1..n PROVE f[i] = 256 * f[i - 1]
    <3>1. i - 1 \in 0..n
      OBVIOUS
    <3>2. f[i - 1] \in Nat /\ f[i] = step[i][f[i - 1]]
      BY <3>1, <1>1 DEF Iterates
    <3> QED BY <3>2
  <2>2. f = [i \in 0..n |-> f[i]] /\ f[0] = 1
    BY <1>1 DEF Iterates
  <2>3. ASSUME NEW i \in 0..n PROVE f[i] = IF i = 0 THEN 1 ELSE 256 * f[i - 1]
    <3>1. i = 0 \/ i \in 1..n
      OBVIOUS
    <3> QED BY <2>1, <2>2, <3>1
  <2> QED BY <2>2, <2>3
<1>3. Rec(pow)
  <2> HIDE DEF Rec
  <2> QED BY <1>2
<1>4. Pow256(n) = pow[n]
  BY DEF Pow256
<1> HIDE DEF pow
<1>5. Powers(n, pow)
  BY <1>3 DEF Powers
<1> QED BY <1>4, <1>5

LEMMA Pow256Next ==
  ASSUME NEW n \in Nat
  PROVE  Pow256(n) \in Nat \ {0} /\ Pow256(0) = 1 /\ Pow256(n + 1) = 256 * Pow256(n)
<1>1. PICK f : Powers(n, f) /\ Pow256(n) = f[n]
  BY Pow256Is
<1>2. PICK g : Powers(n + 1, g) /\ Pow256(n + 1) = g[n + 1]
  <2>1. n + 1 \in Nat
    OBVIOUS
  <2> QED BY <2>1, Pow256Is
<1>3. \A i \in 0..n : f[i] = g[i]
  <2>1. f[0] = g[0]
    BY <1>1, <1>2 DEF Powers
  <2>2. ASSUME NEW i \in 1..n, f[i - 1] = g[i - 1] PROVE f[i] = g[i]
    <3>1. i \in 1..(n + 1)
      OBVIOUS
    <3> QED BY <1>1, <1>2, <2>2, <3>1 DEF Powers
  <2> QED BY <2>1, <2>2, RecursionIsUnique
<1>4. Pow256(n + 1) = 256 * Pow256(n)
  <2>1. n + 1 \in 1..(n + 1) /\ (n + 1) - 1 = n /\ n \in 0..n
    OBVIOUS
  <2>2. g[n + 1] = 256 * g[(n + 1) - 1]
    BY <1>2, <2>1 DEF Powers
  <2> QED BY <1>1, <1>2, <1>3, <2>1, <2>2
<1> DEFINE S == {i \in 0..n : f[i] \in Nat \ {0}}
<1>5. 0..n \subseteq S
  <2>1. 0 \in S
    BY <1>1 DEF Powers
  <2>2. ASSUME NEW i \in 1..n, i - 1 \in S PROVE i \in S
    <3>1. f[i] = 256 * f[i - 1] /\ f[i - 1] \in Nat \ {0}
      BY <1>1, <2>2 DEF Powers
    <3> QED BY <3>1
  <2> HIDE DEF S
  <2> QED BY <2>1, <2>2, Induction
<1>6. Pow256(n) \in Nat \ {0}
  BY <1>1, <1>5
<1>7. Pow256(0) = 1
  <2>1. PICK h : Powers(0, h) /\ Pow256(0) = h[0]
    BY Pow256Is
  <2> QED BY <2>1 DEF Powers
<1> QED BY <1>4, <1>6, <1>7

Divides(v, len, f) ==
  Quotients(len, v, f) /\ f \in [0..len -> Nat] /\ Word256(v, len) = [i \in 1..len |-> f[i - 1] % 256]

LEMMA Word256Is == ASSUME NEW v \in Nat, NEW len \in Nat PROVE \E f : Divides(v, len, f)
<1> DEFINE step == [i \in 1..len |-> [x \in Nat |-> x \div 256]]
           Rec(g) == g = [i \in 0..len |-> IF i = 0 THEN v ELSE g[i - 1] \div 256]
           rest == CHOOSE g : Rec(g)
<1>1. PICK f : Iterates(Nat, len, v, step, f)
  <2>1. step \in [1..len -> [Nat -> Nat]]
    OBVIOUS
  <2> HIDE DEF step
  <2> QED BY <2>1, Recursion, Zenon
<1>2. Rec(f)
  <2>1. ASSUME NEW i \in 1..len PROVE f[i] = f[i - 1] \div 256
    <3>1. i - 1 \in 0..len
      OBVIOUS
    <3>2. f[i - 1] \in Nat /\ f[i] = step[i][f[i - 1]]
      BY <3>1, <1>1 DEF Iterates
    <3> QED BY <3>2
  <2>2. f = [i \in 0..len |-> f[i]] /\ f[0] = v
    BY <1>1 DEF Iterates
  <2>3. ASSUME NEW i \in 0..len PROVE f[i] = IF i = 0 THEN v ELSE f[i - 1] \div 256
    <3>1. i = 0 \/ i \in 1..len
      OBVIOUS
    <3> QED BY <2>1, <2>2, <3>1
  <2> QED BY <2>2, <2>3
<1>3. Rec(rest)
  <2> HIDE DEF Rec
  <2> QED BY <1>2
<1>4. Word256(v, len) = [i \in 1..len |-> rest[i - 1] % 256]
  BY DEF Word256
<1> HIDE DEF rest
<1>5. Quotients(len, v, rest)
  BY <1>3 DEF Quotients
<1>6. rest = [i \in 0..len |-> rest[i]]
  BY <1>3
<1> DEFINE S == {i \in 0..len : rest[i] \in Nat}
<1>7. 0..len \subseteq S
  <2>1. 0 \in S
    BY <1>5 DEF Quotients
  <2>2. ASSUME NEW i \in 1..len, i - 1 \in S PROVE i \in S
    <3>1. rest[i] = rest[i - 1] \div 256 /\ rest[i - 1] \in Nat
      BY <1>5, <2>2 DEF Quotients
    <3> QED BY <3>1
  <2> HIDE DEF S
  <2> QED BY <2>1, <2>2, Induction
<1>8. rest \in [0..len -> Nat]
  BY <1>6, <1>7
<1> QED BY <1>4, <1>5, <1>8 DEF Divides

LEMMA WordType ==
  ASSUME NEW v \in Nat, NEW len \in Nat
  PROVE  Word256(v, len) \in [1..len -> 0..255] /\ Word256(v, len) \in Seq(0..255) /\ Len(Word256(v, len)) = len
<1>1. PICK f : Divides(v, len, f)
  BY Word256Is
<1> DEFINE byte(i) == f[i - 1] % 256
<1>2. ASSUME NEW i \in 1..len PROVE byte(i) \in 0..255
  <2>1. i - 1 \in 0..len
    OBVIOUS
  <2>2. f[i - 1] \in Nat
    BY <1>1, <2>1 DEF Divides
  <2> QED BY <2>2
<1>3. Word256(v, len) = [i \in 1..len |-> byte(i)]
  BY <1>1 DEF Divides
<1> HIDE DEF byte
<1>4. Word256(v, len) \in [1..len -> 0..255]
  BY <1>2, <1>3
<1> QED BY <1>4, ListSeq

LEMMA ByteIsNat == ASSUME NEW b \in 0..255 PROVE b \in Nat
OBVIOUS

FromBehind(n, bytes, i) == bytes[n + 1 - i]

LEMMA ByteFromBehind ==
  ASSUME NEW n \in Nat, NEW bytes \in [1..n -> 0..255], NEW i \in 1..n
  PROVE  FromBehind(n, bytes, i) \in Nat /\ FromBehind(n, bytes, i) = bytes[(n + 1) - i]
<1>1. PICK k \in 1..n : k = (n + 1) - i /\ k = n + 1 - i
  OBVIOUS
<1>2. bytes[k] \in 0..255
  OBVIOUS
<1>3. FromBehind(n, bytes, i) = bytes[k] /\ bytes[(n + 1) - i] = bytes[k]
  BY <1>1, Zenon DEF FromBehind
<1>4. bytes[k] \in Nat
  BY <1>2, ByteIsNat, Zenon
<1> QED BY <1>3, <1>4, Zenon

LEMMA OfWord256Is ==
  ASSUME NEW n \in Nat, NEW bytes \in [1..n -> 0..255]
  PROVE  \E f : Sums(n, bytes, f) /\ f \in [0..n -> Nat] /\ OfWord256(bytes) = f[n]
<1> DEFINE step == [i \in 1..n |-> [x \in Nat |-> FromBehind(n, bytes, i) + 256 * x]]
           Rec(g) == g = [i \in 0..n |-> IF i = 0 THEN 0 ELSE FromBehind(n, bytes, i) + 256 * g[i - 1]]
           above == CHOOSE g : Rec(g)
<1>0. Len(bytes) = n /\ \A i \in 1..n : FromBehind(n, bytes, i) \in Nat /\ FromBehind(n, bytes, i) = bytes[(n + 1) - i]
  <2>1. Len(bytes) = n
    OBVIOUS
  <2> HIDE DEF step, above, Rec
  <2> QED BY <2>1, ByteFromBehind
<1>9. Rec(above) => OfWord256(bytes) = above[n]
  BY <1>0 DEF OfWord256, FromBehind
<1>1. PICK f : Iterates(Nat, n, 0, step, f)
  <2>1. 0 \in Nat /\ step \in [1..n -> [Nat -> Nat]]
    BY <1>0
  <2> HIDE DEF step
  <2> QED BY <2>1, Recursion, Zenon
<1>2. Rec(f)
  <2>1. ASSUME NEW i \in 1..n PROVE f[i] = FromBehind(n, bytes, i) + 256 * f[i - 1]
    <3>1. i - 1 \in 0..n
      OBVIOUS
    <3>2. f[i - 1] \in Nat /\ f[i] = step[i][f[i - 1]]
      BY <3>1, <1>1 DEF Iterates
    <3> QED BY <3>2, <1>0
  <2>2. f = [i \in 0..n |-> f[i]] /\ f[0] = 0
    BY <1>1 DEF Iterates
  <2>3. ASSUME NEW i \in 0..n PROVE f[i] = IF i = 0 THEN 0 ELSE FromBehind(n, bytes, i) + 256 * f[i - 1]
    <3>1. i = 0 \/ i \in 1..n
      OBVIOUS
    <3> QED BY <2>1, <2>2, <3>1
  <2> DEFINE g == [i \in 0..n |-> IF i = 0 THEN 0 ELSE FromBehind(n, bytes, i) + 256 * f[i - 1]]
  <2>4. g = [i \in 0..n |-> g[i]] /\ \A i \in 0..n : g[i] = IF i = 0 THEN 0 ELSE FromBehind(n, bytes, i) + 256 * f[i - 1]
    OBVIOUS
  <2> HIDE DEF g
  <2>6. \A i \in 0..n : f[i] = g[i]
    BY <2>3, <2>4, Zenon
  <2>7. f \in [0..n -> Nat]
    BY <1>1 DEF Iterates
  <2>8. g \in [0..n -> Nat]
    <3>1. \A i \in 0..n : g[i] \in Nat
      BY <2>6, <2>7
    <3> QED BY <2>4, <3>1, Zenon
  <2>5. f = g
    BY <2>6, <2>7, <2>8
  <2> QED BY <2>5 DEF g
<1>3. Rec(above)
  <2> HIDE DEF Rec
  <2> QED BY <1>2
<1>4. OfWord256(bytes) = above[n]
  BY <1>3, <1>9
<1> HIDE DEF above
<1>5. Sums(n, bytes, above)
  BY <1>0, <1>3 DEF Sums
<1>6. above = [i \in 0..n |-> above[i]]
  BY <1>3
<1> DEFINE S == {i \in 0..n : above[i] \in Nat}
<1>7. 0..n \subseteq S
  <2>1. 0 \in S
    BY <1>5 DEF Sums
  <2>2. ASSUME NEW i \in 1..n, i - 1 \in S PROVE i \in S
    <3>1. above[i] = bytes[(n + 1) - i] + 256 * above[i - 1] /\ above[i - 1] \in Nat /\ bytes[(n + 1) - i] \in Nat
      BY <1>0, <1>5, <2>2 DEF Sums
    <3> QED BY <3>1
  <2> HIDE DEF S
  <2> QED BY <2>1, <2>2, Induction
<1>8. above \in [0..n -> Nat]
  BY <1>6, <1>7
<1> QED BY <1>4, <1>5, <1>8

\* A word that fits is read as it was written.
LEMMA WordRoundTrip ==
  ASSUME NEW len \in Nat, NEW v \in 0..(Pow256(len) - 1)
  PROVE  OfWord256(Word256(v, len)) = v
<1>0. Pow256(len) \in Nat /\ v \in Nat /\ v < Pow256(len)
  BY Pow256Next
<1>1. PICK rest : Divides(v, len, rest)
  BY <1>0, Word256Is
<1> USE DEF Divides
<1>2. PICK above : Sums(len, Word256(v, len), above) /\ above \in [0..len -> Nat] /\ OfWord256(Word256(v, len)) = above[len]
  BY <1>0, WordType, OfWord256Is
<1>3. rest[len] = 0
  <2> DEFINE S == {i \in 0..len : rest[i] < Pow256(len - i)}
  <2>1. 0 \in S
    BY <1>0, <1>1 DEF Quotients
  <2>2. ASSUME NEW i \in 1..len, i - 1 \in S PROVE i \in S
    <3>1. len - i \in Nat /\ len - (i - 1) = (len - i) + 1
      OBVIOUS
    <3>2. Pow256(len - i) \in Nat /\ Pow256((len - i) + 1) = 256 * Pow256(len - i)
      BY <3>1, Pow256Next
    <3>3. rest[i - 1] < 256 * Pow256(len - i) /\ rest[i] = rest[i - 1] \div 256 /\ rest[i - 1] \in Nat
      <4>1. i - 1 \in 0..len /\ rest[i - 1] < Pow256(len - (i - 1))
        BY <2>2
      <4>2. rest[i] = rest[i - 1] \div 256 /\ rest[i - 1] \in Nat
        BY <1>1, <4>1 DEF Quotients
      <4> QED BY <3>1, <3>2, <4>1, <4>2
    <3>4. rest[i] < Pow256(len - i)
      <4> DEFINE p == Pow256(len - i)
                 r == rest[i - 1]
                 d == rest[i]
      <4>1. p \in Nat /\ r \in Nat /\ r < 256 * p /\ d = r \div 256
        BY <3>2, <3>3
      <4> HIDE DEF p, r, d
      <4>2. d < p
        BY ONLY <4>1
      <4> QED BY <4>2 DEF p, d
    <3> QED BY <3>4
  <2> HIDE DEF S
  <2>3. 0..len \subseteq S
    BY <2>1, <2>2, Induction
  <2>4. rest[len] < Pow256(len - len) /\ len - len = 0 /\ rest[len] \in Nat
    BY <1>1, <2>3 DEF S
  <2> QED BY <2>4, Pow256Next
<1> DEFINE T == {i \in 0..len : above[i] = rest[len - i]}
<1>4. 0 \in T
  BY <1>2, <1>3 DEF Sums
<1>5. ASSUME NEW i \in 1..len, i - 1 \in T PROVE i \in T
  <2>1. (len + 1) - i \in 1..len /\ ((len + 1) - i) - 1 = len - i /\ len - i \in 0..len /\ len - (i - 1) = (len + 1) - i
    OBVIOUS
  <2>2. above[i] = (rest[len - i] % 256) + 256 * above[i - 1]
    <3>1. Word256(v, len)[(len + 1) - i] = rest[len - i] % 256
      BY <1>1, <2>1
    <3>2. above[i] = Word256(v, len)[(len + 1) - i] + 256 * above[i - 1]
      BY <1>2 DEF Sums
    <3> QED BY <3>1, <3>2
  <2>3. above[i - 1] = rest[(len + 1) - i]
    BY <1>5, <2>1
  <2>4. rest[(len + 1) - i] = rest[len - i] \div 256 /\ rest[len - i] \in Nat
    BY <1>1, <2>1 DEF Quotients
  <2> DEFINE r == rest[len - i]
             a == above[i]
  <2>5. r \in Nat /\ a = (r % 256) + 256 * (r \div 256)
    BY <2>2, <2>3, <2>4
  <2> HIDE DEF r, a
  <2>6. a = r
    BY ONLY <2>5
  <2> QED BY <2>6 DEF r, a
<1> HIDE DEF T
<1>6. 0..len \subseteq T
  BY <1>4, <1>5, Induction
<1>7. above[len] = rest[len - len] /\ len - len = 0
  BY <1>6 DEF T
<1> QED BY <1>1, <1>2, <1>7 DEF Quotients

\* A word read is written with the same bytes.
LEMMA BytesRoundTrip ==
  ASSUME NEW len \in Nat, NEW bytes \in [1..len -> 0..255]
  PROVE  OfWord256(bytes) \in Nat /\ Word256(OfWord256(bytes), len) = bytes
<1>1. PICK above : Sums(len, bytes, above) /\ above \in [0..len -> Nat] /\ OfWord256(bytes) = above[len]
  BY OfWord256Is
<1>2. OfWord256(bytes) \in Nat
  BY <1>1
<1>3. PICK rest : Divides(OfWord256(bytes), len, rest)
  BY <1>2, Word256Is
<1> USE DEF Divides
<1>4. ASSUME NEW i \in 1..len
      PROVE  /\ above[(len + 1) - i] = bytes[i] + 256 * above[len - i]
             /\ bytes[i] \in 0..255 /\ above[len - i] \in Nat
             /\ above[(len + 1) - i] \div 256 = above[len - i] /\ above[(len + 1) - i] % 256 = bytes[i]
  <2>1. (len + 1) - i \in 1..len /\ (len + 1) - ((len + 1) - i) = i /\ ((len + 1) - i) - 1 = len - i /\ len - i \in 0..len
    OBVIOUS
  <2>2. above[(len + 1) - i] = bytes[(len + 1) - ((len + 1) - i)] + 256 * above[((len + 1) - i) - 1]
    BY <1>1, <2>1 DEF Sums
  <2>3. above[(len + 1) - i] = bytes[i] + 256 * above[len - i] /\ bytes[i] \in 0..255 /\ above[len - i] \in Nat
    BY <1>1, <2>1, <2>2
  <2> DEFINE a == above[(len + 1) - i]
             b == bytes[i]
             c == above[len - i]
  <2>4. a = b + 256 * c /\ b \in 0..255 /\ c \in Nat
    BY <2>3
  <2> HIDE DEF a, b, c
  <2>5. a \div 256 = c /\ a % 256 = b
    BY ONLY <2>4
  <2> QED BY <2>3, <2>5 DEF a, b, c
<1> DEFINE T == {i \in 0..len : rest[i] = above[len - i]}
<1>5. 0 \in T
  BY <1>1, <1>3 DEF Quotients
<1>6. ASSUME NEW i \in 1..len, i - 1 \in T PROVE i \in T
  <2>1. rest[i] = rest[i - 1] \div 256
    BY <1>3 DEF Quotients
  <2>2. rest[i - 1] = above[(len + 1) - i]
    <3>1. len - (i - 1) = (len + 1) - i
      OBVIOUS
    <3> QED BY <1>6, <3>1
  <2>3. rest[i] = above[len - i]
    BY <1>4, <2>1, <2>2
  <2> QED BY <2>3
<1> HIDE DEF T
<1>7. 0..len \subseteq T
  BY <1>5, <1>6, Induction
<1>8. ASSUME NEW i \in 1..len PROVE rest[i - 1] % 256 = bytes[i]
  <2>1. i - 1 \in 0..len /\ len - (i - 1) = (len + 1) - i
    OBVIOUS
  <2>2. rest[i - 1] = above[(len + 1) - i]
    BY <1>7, <2>1 DEF T
  <2> QED BY <1>4, <2>2
<1>9. bytes = [i \in 1..len |-> bytes[i]]
  OBVIOUS
<1> QED BY <1>2, <1>3, <1>8, <1>9

-----------------------------------------------------------------------------
(* Streams as texts. *)

\* The n places of a list behind the m-th.
Slice(X, s, m, n, t) == t \in Seq(X) /\ t \in [1..n -> X] /\ Len(t) = n /\ \A i \in 1..n : t[i] = s[m + i]

LEMMA SliceIs ==
  ASSUME NEW X, NEW s \in Seq(X), NEW m \in Nat, NEW n \in Nat, m + n <= Len(s)
  PROVE  Slice(X, s, m, n, SubSeq(s, m + 1, m + n))
<1> DEFINE t == SubSeq(s, m + 1, m + n)
<1>1. \A i \in (m + 1)..(m + n) : s[i] \in X
  <2>1. \A i \in (m + 1)..(m + n) : i \in 1..Len(s)
    OBVIOUS
  <2>2. \A i \in 1..Len(s) : s[i] \in X
    BY ElementsIn, Zenon
  <2> QED BY <2>1, <2>2, Zenon
<1>2. m + 1 \in Int /\ m + n \in Int
  OBVIOUS
<1>3. /\ t \in Seq(X) /\ Len(t) = IF m + 1 <= m + n THEN (m + n) - (m + 1) + 1 ELSE 0
      /\ \A i \in 1..((m + n) - (m + 1) + 1) : t[i] = s[(m + 1) + i - 1]
  BY <1>1, <1>2, SubSeqProperties
<1> HIDE DEF t
<1>4. Len(t) = n
  BY <1>3
<1>5. ASSUME NEW i \in 1..n PROVE t[i] = s[m + i]
  <2>1. i \in 1..((m + n) - (m + 1) + 1) /\ (m + 1) + i - 1 = m + i
    OBVIOUS
  <2> QED BY <1>3, <2>1
<1>6. t \in [1..n -> X]
  BY <1>3, <1>4
<1> QED BY <1>3, <1>4, <1>5, <1>6 DEF Slice, t

\* A list of n places behind one of m.
BehindOf(X, a, m, b, n, c) ==
  /\ c \in Seq(X) /\ Len(c) = m + n
  /\ \A i \in 1..m : c[i] = a[i]
  /\ \A i \in 1..n : c[m + i] = b[i]

LEMMA ConcatIs ==
  ASSUME NEW X, NEW a \in Seq(X), NEW b \in Seq(X), NEW m, NEW n, Len(a) = m, Len(b) = n
  PROVE  BehindOf(X, a, m, b, n, a \o b)
BY DEF BehindOf

LEMMA Lengths ==
  /\ SeedLen \in Nat \ {0} /\ PosLen \in Nat \ {0} /\ F32Len \in Nat \ {0} /\ Ulps \in Nat \ {0}
  /\ \E m \in Nat : SeedLen + PosLen = 3 * m
  /\ WordPeriod \in Nat \ {0} /\ WordPeriod <= Pow256(PosLen)
<1>1. SeedLen \in Nat \ {0} /\ PosLen \in Nat \ {0} /\ F32Len \in Nat \ {0} /\ Ulps \in Nat \ {0}
  BY SavedStateAssumption
<1>2. (SeedLen + PosLen) % 3 = 0 /\ WordPeriod \in 1..Pow256(PosLen)
  BY SavedStateAssumption
<1>3. SeedLen + PosLen = 3 * ((SeedLen + PosLen) \div 3) /\ (SeedLen + PosLen) \div 3 \in Nat
  BY <1>1, <1>2
<1>4. Pow256(PosLen) \in Nat
  BY <1>1, Pow256Next
<1> QED BY <1>1, <1>2, <1>3, <1>4

\* A generator that can be told from its seed and position.
IsStream(rng) ==
  /\ rng = [seed |-> rng.seed, pos |-> rng.pos]
  /\ rng.seed \in [1..SeedLen -> 0..255] /\ rng.pos \in 0..(WordPeriod - 1)

LEMMA SerializedRng ==
  ASSUME NEW rng, IsStream(rng)
  PROVE  /\ SerializeRng(rng) \in Seq(0..255) /\ Len(SerializeRng(rng)) = SeedLen + PosLen
         /\ DeserializeRng(SerializeRng(rng)) = rng
<1> DEFINE bytes == SerializeRng(rng)
           word == Word256(rng.pos, PosLen)
           seed == SubSeq(bytes, 1, SeedLen)
           rest == SubSeq(bytes, SeedLen + 1, SeedLen + PosLen)
<1>1. rng.pos \in Nat /\ rng.pos < WordPeriod /\ rng.pos \in 0..(Pow256(PosLen) - 1)
  <2>1. rng.pos \in 0..(WordPeriod - 1)
    BY DEF IsStream
  <2>2. Pow256(PosLen) \in Nat
    BY Lengths, Pow256Next
  <2> QED BY <2>1, <2>2, Lengths
<1>2. rng.seed \in Seq(0..255) /\ Len(rng.seed) = SeedLen /\ rng.seed \in [1..SeedLen -> 0..255]
  BY Lengths, ListSeq DEF IsStream
<1>3. word \in Seq(0..255) /\ Len(word) = PosLen /\ word \in [1..PosLen -> 0..255]
  BY <1>1, Lengths, WordType
<1>4. bytes = rng.seed \o word
  BY DEF SerializeRng
<1> HIDE DEF word, bytes
<1>5. /\ bytes \in Seq(0..255) /\ Len(bytes) = SeedLen + PosLen
      /\ \A i \in 1..SeedLen : bytes[i] = rng.seed[i]
      /\ \A i \in 1..PosLen : bytes[SeedLen + i] = word[i]
  <2>1. BehindOf(0..255, rng.seed, SeedLen, word, PosLen, rng.seed \o word)
    BY <1>2, <1>3, ConcatIs
  <2> QED BY <1>4, <2>1 DEF BehindOf
<1>6. Slice(0..255, bytes, 0, SeedLen, seed)
  <2>1. 0 + 1 = 1 /\ 0 + SeedLen = SeedLen /\ 0 + SeedLen <= Len(bytes) /\ 0 \in Nat /\ SeedLen \in Nat
    BY <1>5, Lengths
  <2>2. Slice(0..255, bytes, 0, SeedLen, SubSeq(bytes, 0 + 1, 0 + SeedLen))
    BY <1>5, <2>1, SliceIs, Zenon
  <2> QED BY <2>1, <2>2
<1>7. Slice(0..255, bytes, SeedLen, PosLen, rest)
  <2>1. SeedLen + PosLen <= Len(bytes) /\ PosLen \in Nat /\ SeedLen \in Nat
    BY <1>5, Lengths
  <2> QED BY <1>5, <2>1, SliceIs, Zenon
<1> HIDE DEF seed, rest
<1>8. seed = rng.seed
  <2>1. ASSUME NEW i \in 1..SeedLen PROVE seed[i] = rng.seed[i]
    <3>1. 0 + i = i
      OBVIOUS
    <3> QED BY <1>5, <1>6, <3>1 DEF Slice
  <2>2. seed \in [1..SeedLen -> 0..255]
    BY <1>6 DEF Slice
  <2> QED BY <1>2, <2>1, <2>2
<1>9. rest = word
  <2>1. rest \in [1..PosLen -> 0..255] /\ \A i \in 1..PosLen : rest[i] = word[i]
    BY <1>5, <1>7 DEF Slice
  <2> QED BY <1>3, <2>1
<1>10. OfWord256(rest) = rng.pos
  BY <1>1, <1>9, Lengths, WordRoundTrip DEF word
<1>11. rng.pos % WordPeriod = rng.pos
  BY <1>1, Lengths
<1>12. DeserializeRng(bytes) = [seed |-> seed, pos |-> OfWord256(rest) % WordPeriod]
  BY <1>5 DEF DeserializeRng, NamedPosition, seed, rest
<1>13. DeserializeRng(bytes) = rng
  BY <1>8, <1>10, <1>11, <1>12 DEF IsStream
<1> QED BY <1>5, <1>13 DEF bytes

LEMMA RngRoundTrip ==
  ASSUME NEW rng, IsStream(rng)
  PROVE  /\ EncodeRng(rng) \in Seq(0..255) /\ Len(EncodeRng(rng)) >= 4
         /\ \A p \in DOMAIN EncodeRng(rng) : EncodeRng(rng)[p] # Pad
         /\ DecodeRng(EncodeRng(rng)) = rng /\ rng # RefusedStream
<1>1. PICK m \in Nat : SeedLen + PosLen = 3 * m
  BY Lengths
<1> DEFINE bytes == SerializeRng(rng)
           text == Base64Encode(bytes)
<1>2. bytes \in Seq(0..255) /\ Len(bytes) = 3 * m /\ DeserializeRng(bytes) = rng
  BY <1>1, SerializedRng
<1> HIDE DEF bytes
<1>3. /\ text \in Seq(0..255) /\ Len(text) = 4 * m
      /\ \A p \in 1..(4 * m) : text[p] # Pad
      /\ Base64Decode(text) = bytes
  BY <1>2, Base64RoundTrip
<1> HIDE DEF text
<1>4. text = EncodeRng(rng)
  BY DEF text, bytes, EncodeRng
<1>5. DOMAIN text = 1..(4 * m) /\ 4 * m >= 4
  <2>1. m # 0
    BY <1>1, Lengths
  <2> QED BY <1>3, <2>1
<1>6. bytes # NoAnswer
  <2>1. Len(NoAnswer) = 1
    BY DEF NoAnswer
  <2>2. 3 * m # 1
    OBVIOUS
  <2> QED BY <1>2, <2>1, <2>2
<1>7. DecodeRng(text) = rng
  BY <1>2, <1>3, <1>6 DEF DecodeRng
<1>8. rng # RefusedStream
  <2>1. rng.pos # -1
    BY Lengths DEF IsStream
  <2> QED BY <2>1 DEF RefusedStream
<1> QED BY <1>3, <1>4, <1>5, <1>7, <1>8

\* The canonical text of a state is the one that is written.
LEMMA CanonicalIsWritten ==
  ASSUME NEW text, text \in Seq(0..255), Canonical(text), DecodeRng(text) # RefusedStream
  PROVE  text = EncodeRng(DecodeRng(text))
<1> DEFINE bytes == Base64Decode(text)
           rng == DecodeRng(text)
           seed == SubSeq(bytes, 1, SeedLen)
           rest == SubSeq(bytes, SeedLen + 1, SeedLen + PosLen)
<1>1. bytes # NoAnswer
  BY DEF DecodeRng
<1>2. \A p \in DOMAIN text : text[p] # Pad
  BY DEF Canonical
<1>3. OfWord256(rest) < WordPeriod
  BY DEF Canonical, NamedPosition
<1>4. bytes \in Seq(0..255) /\ Base64Encode(bytes) = text
  <2>1. text = [p \in 1..Len(text) |-> text[p]] /\ Len(text) \in Nat /\ DOMAIN text = 1..Len(text)
    OBVIOUS
  <2>2. \A p \in 1..Len(text) : text[p] # Pad
    BY <1>2, <2>1
  <2> HIDE DEF rng, seed, rest
  <2> QED BY <1>1, <2>1, <2>2, Base64Canonical
<1>5. rng = DeserializeRng(bytes)
  BY <1>1 DEF DecodeRng
<1> HIDE DEF bytes, rng
<1>6. Len(bytes) = SeedLen + PosLen
  BY <1>5 DEF DeserializeRng, rng
<1>7. rng = [seed |-> seed, pos |-> OfWord256(rest) % WordPeriod]
  BY <1>5, <1>6 DEF DeserializeRng, NamedPosition
<1>8. Slice(0..255, bytes, 0, SeedLen, seed)
  <2>1. 0 + 1 = 1 /\ 0 + SeedLen = SeedLen /\ 0 + SeedLen <= Len(bytes) /\ 0 \in Nat /\ SeedLen \in Nat
    BY <1>6, Lengths
  <2>2. Slice(0..255, bytes, 0, SeedLen, SubSeq(bytes, 0 + 1, 0 + SeedLen))
    BY <1>4, <2>1, SliceIs, Zenon
  <2> QED BY <2>1, <2>2
<1>9. Slice(0..255, bytes, SeedLen, PosLen, rest)
  <2>1. SeedLen + PosLen <= Len(bytes) /\ PosLen \in Nat /\ SeedLen \in Nat
    BY <1>6, Lengths
  <2> QED BY <1>4, <2>1, SliceIs, Zenon
<1> HIDE DEF seed, rest
<1>10. OfWord256(rest) \in Nat /\ Word256(OfWord256(rest), PosLen) = rest
  <2>1. rest \in [1..PosLen -> 0..255] /\ PosLen \in Nat
    BY <1>9, Lengths DEF Slice
  <2> QED BY <2>1, BytesRoundTrip
<1>11. rng.pos = OfWord256(rest) /\ rng.seed = seed
  <2>1. OfWord256(rest) % WordPeriod = OfWord256(rest)
    <3> DEFINE x == OfWord256(rest)
    <3>1. x \in Nat /\ x < WordPeriod /\ WordPeriod \in Nat \ {0}
      BY <1>3, <1>10, Lengths
    <3> HIDE DEF x
    <3>2. x % WordPeriod = x
      BY ONLY <3>1
    <3> QED BY <3>2 DEF x
  <2> QED BY <1>7, <2>1
<1>12. SerializeRng(rng) = seed \o rest
  BY <1>10, <1>11 DEF SerializeRng
<1>13. seed \o rest = bytes
  <2>1. seed \in Seq(0..255) /\ rest \in Seq(0..255) /\ Len(seed) = SeedLen /\ Len(rest) = PosLen
    BY <1>8, <1>9 DEF Slice
  <2>2. /\ seed \o rest \in Seq(0..255) /\ Len(seed \o rest) = SeedLen + PosLen
        /\ \A i \in 1..SeedLen : (seed \o rest)[i] = seed[i]
        /\ \A i \in 1..PosLen : (seed \o rest)[SeedLen + i] = rest[i]
    <3>1. BehindOf(0..255, seed, SeedLen, rest, PosLen, seed \o rest)
      BY <2>1, ConcatIs
    <3> QED BY <3>1 DEF BehindOf
  <2>3. ASSUME NEW p \in 1..(SeedLen + PosLen) PROVE (seed \o rest)[p] = bytes[p]
    <3>1. CASE p <= SeedLen
      <4>1. p \in 1..SeedLen /\ 0 + p = p
        BY <3>1, Lengths
      <4>2. seed[p] = bytes[0 + p]
        BY <1>8, <4>1 DEF Slice
      <4> QED BY <2>2, <4>1, <4>2
    <3>2. CASE ~(p <= SeedLen)
      <4>1. PICK i \in 1..PosLen : p = SeedLen + i
        <5>1. p - SeedLen \in 1..PosLen /\ p = SeedLen + (p - SeedLen)
          BY <3>2, Lengths
        <5> QED BY <5>1
      <4>2. rest[i] = bytes[SeedLen + i]
        BY <1>9 DEF Slice
      <4> QED BY <2>2, <4>1, <4>2
    <3> QED BY <3>1, <3>2
  <2> QED BY <1>4, <1>6, <2>2, <2>3, SameSeq
<1>14. EncodeRng(rng) = text
  BY <1>4, <1>12, <1>13 DEF EncodeRng
<1> QED BY <1>14 DEF rng

-----------------------------------------------------------------------------
(* Parameters by their places. *)

LEMMA ProductIsNat == ASSUME NEW a \in Nat, NEW b \in Nat PROVE a * b \in Nat
OBVIOUS

LEMMA CheckedCountIsNat ==
  ASSUME NEW shape \in Seq(Nat)
  PROVE  CheckedCount(shape) \in Nat
<1> DEFINE n == Len(shape)
           step == [k \in 1..n |-> [x \in Nat |-> x * shape[k]]]
           Rec(g) == g = [k \in 0..n |-> IF k = 0 THEN 1 ELSE g[k - 1] * shape[k]]
           count == CHOOSE g : Rec(g)
<1>1. n \in Nat /\ \A k \in 1..n : shape[k] \in Nat
  OBVIOUS
<1>2. CheckedCount(shape) = count[n]
  BY DEF CheckedCount
<1> HIDE DEF n
<1>3. PICK f : Iterates(Nat, n, 1, step, f)
  <2>1. 1 \in Nat /\ step \in [1..n -> [Nat -> Nat]]
    BY <1>1, ProductIsNat
  <2> HIDE DEF step
  <2> QED BY <1>1, <2>1, Recursion, Zenon
<1>4. Rec(f)
  <2>1. ASSUME NEW k \in 1..n PROVE f[k] = f[k - 1] * shape[k]
    <3>1. k - 1 \in 0..n
      BY <1>1
    <3>2. f[k - 1] \in Nat /\ f[k] = step[k][f[k - 1]]
      BY <3>1, <1>3 DEF Iterates
    <3> QED BY <3>2
  <2>2. f = [k \in 0..n |-> f[k]] /\ f[0] = 1
    BY <1>3 DEF Iterates
  <2>3. ASSUME NEW k \in 0..n PROVE f[k] = IF k = 0 THEN 1 ELSE f[k - 1] * shape[k]
    <3>1. k = 0 \/ k \in 1..n
      BY <1>1
    <3> QED BY <2>1, <2>2, <3>1
  <2> QED BY <2>2, <2>3, Zenon
<1>5. Rec(count)
  <2> HIDE DEF Rec
  <2> QED BY <1>4
<1> HIDE DEF count
<1>6. count[0] = 1 /\ \A k \in 1..n : count[k] = count[k - 1] * shape[k]
  BY <1>1, <1>5
<1> DEFINE S == {k \in 0..n : count[k] \in Nat}
<1>7. 0..n \subseteq S
  <2>1. 0 \in S
    BY <1>1, <1>6
  <2>2. ASSUME NEW k \in 1..n, k - 1 \in S PROVE k \in S
    <3>1. count[k] = count[k - 1] * shape[k] /\ count[k - 1] \in Nat /\ shape[k] \in Nat
      BY <1>1, <1>6, <2>2
    <3> QED BY <3>1, ProductIsNat
  <2> HIDE DEF S
  <2> QED BY <1>1, <2>1, <2>2, Induction
<1> QED BY <1>1, <1>2, <1>7

\* Where the parameters of a list begin.
Begun(specs, n, off) ==
  /\ n \in Nat /\ n = Len(specs) /\ DOMAIN specs = 1..n
  /\ off \in [0..n -> Nat] /\ off[0] = 0
  /\ \A i \in 1..n : off[i] = off[i - 1] + CheckedCount(specs[i].shape)
  /\ \A i \in 1..n : CheckedCount(specs[i].shape) \in Nat /\ OffsetOf(specs, i) = off[i - 1]
  /\ ValueCount(specs) = off[n]

LEMMA OffsetsBegin ==
  ASSUME NEW specs, AreSpecs(specs)
  PROVE  \E off : Begun(specs, Len(specs), off)
<1> DEFINE n == Len(specs)
           size(k) == CheckedCount(specs[k].shape)
           step == [k \in 1..n |-> [x \in Nat |-> x + size(k)]]
           Rec(g) == g = [k \in 0..n |-> IF k = 0 THEN 0 ELSE g[k - 1] + size(k)]
           start == CHOOSE g : Rec(g)
<1>1. n \in Nat /\ DOMAIN specs = 1..n
  BY DEF AreSpecs
<1>2. ASSUME NEW k \in 1..n PROVE size(k) \in Nat
  <2>1. specs[k] \in [name : STRING, shape : Seq(Nat)]
    <3>1. specs \in Seq([name : STRING, shape : Seq(Nat)])
      BY DEF AreSpecs
    <3> HIDE DEF size, step, Rec, start
    <3> QED BY <3>1, ElementsIn, Zenon
  <2> QED BY <2>1, CheckedCountIsNat
<1>3. \A i \in 1..(n + 1) : OffsetOf(specs, i) = start[i - 1]
  BY DEF OffsetOf
<1>4. ValueCount(specs) = start[n]
  <2>1. n + 1 \in 1..(n + 1) /\ (n + 1) - 1 = n
    BY <1>1
  <2> QED BY <1>3, <2>1 DEF ValueCount
<1> HIDE DEF n, size
<1>5. PICK f : Iterates(Nat, n, 0, step, f)
  <2>1. 0 \in Nat /\ step \in [1..n -> [Nat -> Nat]]
    BY <1>2
  <2> HIDE DEF step
  <2> QED BY <1>1, <2>1, Recursion, Zenon
<1>6. Rec(f)
  <2>1. ASSUME NEW k \in 1..n PROVE f[k] = f[k - 1] + size(k)
    <3>1. k - 1 \in 0..n
      BY <1>1
    <3>2. f[k - 1] \in Nat /\ f[k] = step[k][f[k - 1]]
      BY <3>1, <1>5 DEF Iterates
    <3> QED BY <3>2
  <2>2. f = [k \in 0..n |-> f[k]] /\ f[0] = 0
    BY <1>5 DEF Iterates
  <2>3. ASSUME NEW k \in 0..n PROVE f[k] = IF k = 0 THEN 0 ELSE f[k - 1] + size(k)
    <3>1. k = 0 \/ k \in 1..n
      BY <1>1
    <3> QED BY <2>1, <2>2, <3>1
  <2> QED BY <2>2, <2>3, Zenon
<1>7. Rec(start)
  <2> HIDE DEF Rec
  <2> QED BY <1>6
<1> HIDE DEF start
<1>8. start = [k \in 0..n |-> start[k]] /\ start[0] = 0 /\ \A k \in 1..n : start[k] = start[k - 1] + size(k)
  BY <1>1, <1>7
<1> DEFINE S == {k \in 0..n : start[k] \in Nat}
<1>9. 0..n \subseteq S
  <2>1. 0 \in S
    BY <1>1, <1>8
  <2>2. ASSUME NEW k \in 1..n, k - 1 \in S PROVE k \in S
    <3>1. start[k] = start[k - 1] + size(k) /\ start[k - 1] \in Nat /\ size(k) \in Nat
      BY <1>2, <1>8, <2>2
    <3> QED BY <3>1
  <2> HIDE DEF S
  <2> QED BY <1>1, <2>1, <2>2, Induction
<1>10. start \in [0..n -> Nat]
  BY <1>8, <1>9
<1>11. \A i \in 1..n : OffsetOf(specs, i) = start[i - 1]
  BY <1>1, <1>3
<1> QED BY <1>1, <1>2, <1>4, <1>8, <1>10, <1>11 DEF Begun, n, size

\* A parameter ends before the end, and every place is in one of them.
LEMMA PlacesCover ==
  ASSUME NEW specs, NEW n, NEW off, Begun(specs, n, off)
  PROVE  /\ \A i \in 1..n : off[i - 1] + CheckedCount(specs[i].shape) <= off[n]
         /\ \A p \in 1..off[n] : \E i \in 1..n : \E r \in 1..CheckedCount(specs[i].shape) : p = off[i - 1] + r
<1> DEFINE size(k) == CheckedCount(specs[k].shape)
<1>1. /\ n \in Nat /\ off \in [0..n -> Nat] /\ off[0] = 0
      /\ \A i \in 1..n : off[i] = off[i - 1] + size(i) /\ size(i) \in Nat
  BY DEF Begun
<1> HIDE DEF size
<1> DEFINE Within(m) == \A i \in 1..m : off[i - 1] + size(i) <= off[m]
           Covered(m) == \A p \in 1..off[m] : \E i \in 1..m : \E r \in 1..size(i) : p = off[i - 1] + r
           S == {m \in 0..n : Within(m) /\ Covered(m)}
<1>2. 0 \in S
  BY <1>1
<1>3. ASSUME NEW m \in 1..n, m - 1 \in S PROVE m \in S
  <2>1. /\ m - 1 \in 0..n /\ off[m] = off[m - 1] + size(m) /\ off[m - 1] \in Nat /\ off[m] \in Nat /\ size(m) \in Nat
    BY <1>1
  <2>2. Within(m - 1) /\ Covered(m - 1)
    BY <1>3
  <2>3. ASSUME NEW i \in 1..m PROVE off[i - 1] + size(i) <= off[m]
    <3>1. CASE i = m
      BY <2>1, <3>1
    <3>2. CASE i # m
      <4>1. i \in 1..(m - 1) /\ i - 1 \in 0..n /\ i \in 1..n
        BY <1>1, <3>2
      <4>2. off[i - 1] + size(i) <= off[m - 1] /\ off[i - 1] \in Nat /\ size(i) \in Nat
        BY <1>1, <2>2, <4>1
      <4> QED BY <2>1, <4>2
    <3> QED BY <3>1, <3>2
  <2>4. ASSUME NEW p \in 1..off[m] PROVE \E i \in 1..m : \E r \in 1..size(i) : p = off[i - 1] + r
    <3>1. CASE p <= off[m - 1]
      <4>1. p \in 1..off[m - 1]
        BY <2>1, <3>1
      <4>2. PICK i \in 1..(m - 1) : \E r \in 1..size(i) : p = off[i - 1] + r
        BY <2>2, <4>1
      <4>3. i \in 1..m
        OBVIOUS
      <4> QED BY <4>2, <4>3
    <3>2. CASE ~(p <= off[m - 1])
      <4>1. p - off[m - 1] \in 1..size(m) /\ p = off[m - 1] + (p - off[m - 1]) /\ m \in 1..m
        BY <2>1, <3>2
      <4> QED BY <4>1
    <3> QED BY <3>1, <3>2
  <2>5. Within(m) /\ Covered(m)
    BY <2>3, <2>4
  <2> HIDE DEF Within, Covered
  <2> QED BY <2>5
<1> HIDE DEF S
<1>4. n \in S
  <2>1. 0..n \subseteq S
    BY <1>1, <1>2, <1>3, Induction
  <2> QED BY <1>1, <2>1
<1> QED BY <1>4 DEF S, size

LEMMA ParameterIs ==
  ASSUME NEW X, NEW specs, NEW n, NEW off, Begun(specs, n, off), NEW weights \in [1..off[n] -> X], NEW i \in 1..n
  PROVE  Slice(X, weights, off[i - 1], CheckedCount(specs[i].shape), ParameterValues(specs, weights, i))
<1> DEFINE size == CheckedCount(specs[i].shape)
           from == off[i - 1]
<1>1. n \in Nat /\ from \in Nat /\ size \in Nat /\ OffsetOf(specs, i) = from /\ off[n] \in Nat
  <2>1. n \in Nat /\ i - 1 \in 0..n /\ n \in 0..n
    BY DEF Begun
  <2> QED BY <2>1 DEF Begun
<1>2. from + size <= off[n]
  BY PlacesCover
<1>3. ParameterValues(specs, weights, i) = SubSeq(weights, from + 1, from + size)
  BY <1>1 DEF ParameterValues
<1>4. weights \in Seq(X) /\ Len(weights) = off[n]
  BY <1>1, ListSeq
<1> HIDE DEF size, from
<1>5. Slice(X, weights, from, size, SubSeq(weights, from + 1, from + size))
  BY <1>1, <1>2, <1>4, SliceIs
<1> QED BY <1>3, <1>5 DEF size, from

-----------------------------------------------------------------------------
(* Parameters as f32 of the mirror. *)

LEMMA F32IsInt == ASSUME NEW v \in Int PROVE F32(v) \in Int
<1>1. v \div Ulps \in Int /\ 2 * (v % Ulps) \in Int
  BY Lengths
<1> QED BY <1>1 DEF F32

\* The list w is the f32 of the list v.
AsF32(n, v, w) == w = [i \in 1..n |-> w[i]] /\ \A i \in 1..n : w[i] = F32(v[i])

LEMMA F32sAre ==
  ASSUME NEW X, NEW n \in Nat, NEW v \in [1..n -> X]
  PROVE  AsF32(n, v, F32s(v))
<1>1. DOMAIN v = 1..n
  OBVIOUS
<1>2. F32s(v) = [i \in 1..n |-> F32(v[i])]
  BY <1>1 DEF F32s
<1> QED BY <1>2 DEF AsF32

BytesOf(values) == FlattenSeq([i \in DOMAIN values |-> Word256(values[i], F32Len)])

LEMMA F32Back ==
  ASSUME NEW n \in Nat, NEW w, w = [i \in 1..n |-> w[i]], \A i \in 1..n : IsF32(w[i])
  PROVE  Len(BytesOf(w)) = F32Len * n /\ F32Values(BytesOf(w)) = w
<1> DEFINE words == [i \in 1..n |-> Word256(w[i], F32Len)]
           bytes == BytesOf(w)
<1>1. F32Len \in Nat \ {0} /\ Pow256(F32Len) \in Nat
  BY Lengths, Pow256Next
<1>2. ASSUME NEW i \in 1..n
      PROVE  /\ Word256(w[i], F32Len) \in Seq(0..255) /\ Len(Word256(w[i], F32Len)) = F32Len
             /\ OfWord256(Word256(w[i], F32Len)) = w[i]
             /\ Word256(w[i], F32Len) \in [1..F32Len -> 0..255]
  <2>1. w[i] \in 0..(Pow256(F32Len) - 1) /\ w[i] \in Nat /\ F32Len \in Nat
    BY <1>1 DEF IsF32
  <2> QED BY <2>1, WordType, WordRoundTrip
<1>3. bytes = FlattenSeq(words)
  <2>1. DOMAIN w = 1..n
    OBVIOUS
  <2> QED BY <2>1 DEF BytesOf
<1>4. words \in [1..n -> Seq(0..255)] /\ \A i \in 1..n : words[i] = Word256(w[i], F32Len) /\ Len(words[i]) = F32Len
  BY <1>2
<1> HIDE DEF words, bytes
<1>5. bytes \in Seq(0..255) /\ Len(bytes) = F32Len * n /\ InRows(n, F32Len, words, bytes)
  <2>1. F32Len \in Nat /\ \A i \in 1..n : Len(words[i]) = F32Len
    BY <1>1, <1>4
  <2>2. /\ FlattenSeq(words) \in Seq(0..255) /\ Len(FlattenSeq(words)) = F32Len * n
        /\ InRows(n, F32Len, words, FlattenSeq(words))
    BY <1>4, <2>1, FlattenRows
  <2> QED BY <1>3, <2>2
<1>6. Len(bytes) \div F32Len = n
  <2> DEFINE l == Len(bytes)
  <2>1. l = n * F32Len + 0 /\ l \in Int /\ 0 \in Int /\ 0 <= 0 /\ 0 < F32Len /\ n \in Int
    BY <1>1, <1>5
  <2> HIDE DEF l
  <2>2. l \div F32Len = n
    BY <1>1, <2>1, DivMod
  <2> QED BY <2>2 DEF l
<1>7. ASSUME NEW k \in 1..n PROVE OfWord256(SubSeq(bytes, F32Len * (k - 1) + 1, F32Len * k)) = w[k]
  <2> DEFINE m == F32Len * (k - 1)
  <2>1. m \in Nat /\ m + F32Len = F32Len * k /\ m + F32Len <= Len(bytes)
    <3>1. k - 1 \in Nat /\ k \in Nat /\ k <= n
      OBVIOUS
    <3>2. F32Len * (k - 1) \in Nat /\ F32Len * (k - 1) + F32Len = F32Len * k
      BY <1>1, <3>1, ProductIsNat
    <3>3. F32Len * k <= F32Len * n
      BY <1>1, <3>1
    <3> QED BY <1>5, <3>2, <3>3
  <2> DEFINE t == SubSeq(bytes, m + 1, m + F32Len)
  <2>2. Slice(0..255, bytes, m, F32Len, t)
    <3> HIDE DEF m
    <3> QED BY <1>1, <1>5, <2>1, SliceIs
  <2>3. t = SubSeq(bytes, F32Len * (k - 1) + 1, F32Len * k)
    BY <2>1
  <2>4. \A r \in 1..F32Len : bytes[m + r] = words[k][r]
    BY <1>5 DEF InRows
  <2> HIDE DEF t, m
  <2>5. t \in [1..F32Len -> 0..255] /\ \A r \in 1..F32Len : t[r] = words[k][r]
    BY <2>2, <2>4 DEF Slice
  <2>6. t = Word256(w[k], F32Len)
    <3> DEFINE u == words[k]
    <3>1. u \in Seq(0..255) /\ Len(u) = F32Len /\ u = Word256(w[k], F32Len)
      BY <1>2, <1>4
    <3>4. t \in Seq(0..255) /\ Len(t) = F32Len
      BY <2>2 DEF Slice
    <3>2. \A r \in 1..F32Len : t[r] = u[r]
      BY <2>5
    <3> HIDE DEF u
    <3>3. t = u
      BY <3>1, <3>2, <3>4, SameSeq
    <3> QED BY <3>1, <3>3
  <2> QED BY <1>2, <2>3, <2>6
<1>8. F32Values(bytes) = [k \in 1..n |-> OfWord256(SubSeq(bytes, F32Len * (k - 1) + 1, F32Len * k))]
  BY <1>6 DEF F32Values
<1>9. F32Values(bytes) = w
  BY <1>7, <1>8
<1> QED BY <1>5, <1>9 DEF bytes

\* Each value keeps within f32.
Storable(X) == \A v \in X : F32(v) \in Int /\ IsF32(F32(v))

\* What is written of a parameter.
LEMMA MirrorTensor ==
  ASSUME NEW X, Storable(X), NEW off, Begun(Specs, Len(Specs), off), NEW weights \in [1..off[Len(Specs)] -> X],
         NEW i \in 1..Len(Specs)
  PROVE  LET mirror == SerializeParameters(Tensors(weights))
             values == F32s(ParameterValues(Specs, weights, i))
         IN  /\ Specs[i].name \in DOMAIN mirror
             /\ mirror[Specs[i].name] = [shape |-> Specs[i].shape, bytes |-> BytesOf(values)]
             /\ AsF32(CheckedCount(Specs[i].shape), ParameterValues(Specs, weights, i), values)
             /\ Len(BytesOf(values)) = F32Len * CheckedCount(Specs[i].shape)
             /\ F32Values(BytesOf(values)) = values
<1> DEFINE n == Len(Specs)
           tensors == Tensors(weights)
           mirror == SerializeParameters(tensors)
           params == ParameterValues(Specs, weights, i)
           values == F32s(params)
           size == CheckedCount(Specs[i].shape)
           named(name) == CHOOSE t \in Range(tensors) : t.name = name
           stored(t) == [shape |-> t.shape, bytes |-> FlattenSeq([k \in DOMAIN t.values |-> Word256(t.values[k], F32Len)])]
<1>1. DOMAIN Specs = 1..n /\ size \in Nat
  BY DEF Begun
<1>2. tensors = [j \in 1..n |-> ParameterTensor(weights, j)]
  BY <1>1 DEF Tensors
<1>3. \A j \in 1..n : /\ tensors[j].name = Specs[j].name /\ tensors[j].shape = Specs[j].shape
                       /\ tensors[j].values = F32s(ParameterValues(Specs, weights, j))
  <2>1. ASSUME NEW j \in 1..n
        PROVE  /\ ParameterTensor(weights, j).name = Specs[j].name /\ ParameterTensor(weights, j).shape = Specs[j].shape
               /\ ParameterTensor(weights, j).values = F32s(ParameterValues(Specs, weights, j))
    BY DEF ParameterTensor
  <2> QED BY <1>2, <2>1
<1>4. Range(tensors) = {tensors[j] : j \in 1..n}
  BY <1>2 DEF Range
<1>5. \A j, k \in 1..n : Specs[j].name = Specs[k].name => j = k
  BY <1>1, SavedStateAssumption DEF AreSpecs
<1>6. mirror = [name \in {t.name : t \in Range(tensors)} |-> stored(named(name))]
  BY DEF SerializeParameters
<1> HIDE DEF tensors, mirror, stored
<1>7. named(Specs[i].name) = tensors[i]
  <2>1. tensors[i] \in Range(tensors) /\ tensors[i].name = Specs[i].name
    BY <1>3, <1>4
  <2>2. ASSUME NEW t \in Range(tensors), t.name = Specs[i].name PROVE t = tensors[i]
    <3>1. PICK j \in 1..n : t = tensors[j]
      BY <1>4
    <3>2. Specs[j].name = Specs[i].name
      BY <1>3, <2>2, <3>1
    <3> QED BY <1>5, <3>1, <3>2
  <2> QED BY <2>1, <2>2
<1> HIDE DEF named
<1>8. Specs[i].name \in {t.name : t \in Range(tensors)}
  BY <1>3, <1>4
<1>9. Specs[i].name \in DOMAIN mirror /\ mirror[Specs[i].name] = stored(tensors[i])
  BY <1>6, <1>7, <1>8
<1>10. stored(tensors[i]) = [shape |-> Specs[i].shape, bytes |-> BytesOf(values)]
  BY <1>3 DEF stored, BytesOf
<1>11. Slice(X, weights, off[i - 1], size, params)
  BY ParameterIs
<1> HIDE DEF size, params
<1>12. params \in [1..size -> X]
  BY <1>11 DEF Slice
<1>13. AsF32(size, params, values)
  BY <1>1, <1>12, F32sAre
<1> HIDE DEF values
<1>14. values = [k \in 1..size |-> values[k]] /\ \A k \in 1..size : IsF32(values[k])
  <2>1. \A k \in 1..size : IsF32(F32(params[k]))
    BY <1>12 DEF Storable
  <2> QED BY <1>13, <2>1 DEF AsF32
<1>15. Len(BytesOf(values)) = F32Len * size /\ F32Values(BytesOf(values)) = values
  BY <1>1, <1>14, F32Back
<1> QED BY <1>9, <1>10, <1>13, <1>15 DEF mirror, tensors, values, params, size

\* Two models whose parameters are of the same f32.
F32Alike(len, a, b) == \A p \in 1..len : F32(a[p]) = F32(b[p])

LEMMA AlikeIsEqual ==
  ASSUME NEW X, NEW len \in Nat, NEW a \in [1..len -> X], NEW b \in [1..len -> X]
  PROVE  F32s(a) = F32s(b) <=> F32Alike(len, a, b)
<1>1. AsF32(len, a, F32s(a)) /\ AsF32(len, b, F32s(b))
  BY F32sAre
<1> QED BY <1>1 DEF AsF32, F32Alike

EachAlike(a, b) ==
  \A i \in 1..Len(Specs) : F32s(ParameterValues(Specs, a, i)) = F32s(ParameterValues(Specs, b, i))

LEMMA AlikeByParameter ==
  ASSUME NEW X, NEW off, Begun(Specs, Len(Specs), off),
         NEW a \in [1..off[Len(Specs)] -> X], NEW b \in [1..off[Len(Specs)] -> X]
  PROVE  F32s(a) = F32s(b) <=> EachAlike(a, b)
<1> DEFINE n == Len(Specs)
           len == off[n]
           size(i) == CheckedCount(Specs[i].shape)
<1>1. n \in Nat /\ len \in Nat /\ \A i \in 1..n : size(i) \in Nat /\ off[i - 1] \in Nat /\ off[i - 1] + size(i) <= len
  <2>1. n \in Nat /\ off \in [0..n -> Nat]
    BY DEF Begun
  <2>2. \A i \in 1..n : i - 1 \in 0..n
    BY <2>1
  <2>3. \A i \in 1..n : off[i - 1] + size(i) <= len
    BY PlacesCover
  <2>4. \A i \in 1..n : size(i) \in Nat
    BY DEF Begun
  <2>5. n \in 0..n
    BY <2>1
  <2> HIDE DEF size
  <2> QED BY <2>1, <2>2, <2>3, <2>4, <2>5
<1>2. F32s(a) = F32s(b) <=> F32Alike(len, a, b)
  BY <1>1, AlikeIsEqual
<1>3. ASSUME NEW i \in 1..n
      PROVE  /\ F32s(ParameterValues(Specs, a, i)) = F32s(ParameterValues(Specs, b, i))
                  <=> F32Alike(size(i), ParameterValues(Specs, a, i), ParameterValues(Specs, b, i))
             /\ \A r \in 1..size(i) : /\ ParameterValues(Specs, a, i)[r] = a[off[i - 1] + r]
                                      /\ ParameterValues(Specs, b, i)[r] = b[off[i - 1] + r]
  <2>1. /\ Slice(X, a, off[i - 1], size(i), ParameterValues(Specs, a, i))
        /\ Slice(X, b, off[i - 1], size(i), ParameterValues(Specs, b, i))
    BY ParameterIs
  <2>2. /\ ParameterValues(Specs, a, i) \in [1..size(i) -> X] /\ ParameterValues(Specs, b, i) \in [1..size(i) -> X]
        /\ size(i) \in Nat
    BY <1>1, <2>1 DEF Slice
  <2>3. F32s(ParameterValues(Specs, a, i)) = F32s(ParameterValues(Specs, b, i))
           <=> F32Alike(size(i), ParameterValues(Specs, a, i), ParameterValues(Specs, b, i))
    <3> HIDE DEF size
    <3> QED BY <2>2, AlikeIsEqual
  <2> QED BY <2>1, <2>3 DEF Slice
<1>4. ASSUME F32Alike(len, a, b), NEW i \in 1..n
      PROVE  F32Alike(size(i), ParameterValues(Specs, a, i), ParameterValues(Specs, b, i))
  <2>1. \A r \in 1..size(i) : off[i - 1] + r \in 1..len
    <3> HIDE DEF size, len
    <3>1. size(i) \in Nat /\ off[i - 1] \in Nat /\ off[i - 1] + size(i) <= len /\ len \in Nat
      BY <1>1
    <3> QED BY <3>1
  <2> QED BY <1>3, <1>4, <2>1 DEF F32Alike
<1>5. ASSUME \A i \in 1..n : F32Alike(size(i), ParameterValues(Specs, a, i), ParameterValues(Specs, b, i)),
             NEW p \in 1..len
      PROVE  F32(a[p]) = F32(b[p])
  <2>1. PICK i \in 1..n : \E r \in 1..size(i) : p = off[i - 1] + r
    BY PlacesCover
  <2>2. PICK r \in 1..size(i) : p = off[i - 1] + r
    BY <2>1
  <2>3. F32(ParameterValues(Specs, a, i)[r]) = F32(ParameterValues(Specs, b, i)[r])
    BY <1>5 DEF F32Alike
  <2> QED BY <1>3, <2>2, <2>3
<1>6. (\A i \in 1..n : F32Alike(size(i), ParameterValues(Specs, a, i), ParameterValues(Specs, b, i))) <=> F32Alike(len, a, b)
  BY <1>4, <1>5 DEF F32Alike
<1> QED BY <1>2, <1>3, <1>6 DEF EachAlike

\* What was written is read, and agrees with the models of the same f32.
LEMMA MirrorReads ==
  ASSUME NEW X, Storable(X), NEW off, Begun(Specs, Len(Specs), off),
         NEW weights \in [1..off[Len(Specs)] -> X], NEW other \in [1..off[Len(Specs)] -> X]
  PROVE  LET mirror == SerializeParameters(Tensors(weights))
         IN  Readable(mirror) /\ (SameMirror(other, mirror) <=> F32s(other) = F32s(weights))
<1> DEFINE n == Len(Specs)
           mirror == SerializeParameters(Tensors(weights))
           params(i) == ParameterValues(Specs, weights, i)
<1>1. DOMAIN Specs = 1..n
  BY DEF Begun
<1>2. ASSUME NEW i \in 1..n
      PROVE  /\ Specs[i].name \in DOMAIN mirror
             /\ mirror[Specs[i].name].shape = Specs[i].shape
             /\ Len(mirror[Specs[i].name].bytes) = F32Len * CheckedCount(mirror[Specs[i].name].shape)
             /\ F32Values(mirror[Specs[i].name].bytes) = F32s(params(i))
  <2>1. /\ Specs[i].name \in DOMAIN mirror
        /\ mirror[Specs[i].name] = [shape |-> Specs[i].shape, bytes |-> BytesOf(F32s(params(i)))]
        /\ Len(BytesOf(F32s(params(i)))) = F32Len * CheckedCount(Specs[i].shape)
        /\ F32Values(BytesOf(F32s(params(i)))) = F32s(params(i))
    BY MirrorTensor
  <2> HIDE DEF params, mirror
  <2>2. mirror[Specs[i].name].shape = Specs[i].shape /\ mirror[Specs[i].name].bytes = BytesOf(F32s(params(i)))
    BY <2>1
  <2> QED BY <2>1, <2>2
<1>3. ASSUME NEW name \in DOMAIN mirror PROVE \E i \in 1..n : name = Specs[i].name
  <2>1. DOMAIN mirror = {t.name : t \in Range(Tensors(weights))}
    BY DEF SerializeParameters
  <2>2. PICK t \in Range(Tensors(weights)) : name = t.name
    BY <2>1
  <2>3. PICK i \in 1..n : t = ParameterTensor(weights, i)
    BY <1>1 DEF Range, Tensors
  <2>4. t.name = Specs[i].name
    BY <2>3 DEF ParameterTensor
  <2> QED BY <2>2, <2>4
<1> HIDE DEF mirror
<1>4. Readable(mirror)
  BY <1>2, <1>3 DEF Readable
<1>5. SameMirror(other, mirror) <=> \A i \in 1..n : F32s(params(i)) = F32s(ParameterValues(Specs, other, i))
  <2> HIDE DEF params
  <2> QED BY <1>1, <1>2 DEF SameMirror
<1>6. F32s(weights) = F32s(other) <=> \A i \in 1..n : F32s(params(i)) = F32s(ParameterValues(Specs, other, i))
  <2>1. F32s(weights) = F32s(other) <=> EachAlike(weights, other)
    BY AlikeByParameter
  <2> QED BY <2>1 DEF EachAlike
<1> QED BY <1>4, <1>5, <1>6 DEF mirror

-----------------------------------------------------------------------------
(* Parameters by their names. *)

\* A parameter by its name, as f32.
HasParameter(specs, weights, i, state) ==
  /\ state[specs[i].name].shape = specs[i].shape
  /\ state[specs[i].name].values = F32s(ParameterValues(specs, weights, i))
  /\ AsF32(CheckedCount(specs[i].shape), ParameterValues(specs, weights, i), state[specs[i].name].values)

LEMMA NamedTrainState ==
  ASSUME NEW X, NEW specs, AreSpecs(specs), NEW off, Begun(specs, Len(specs), off),
         NEW weights \in [1..off[Len(specs)] -> X], NEW i \in 1..Len(specs)
  PROVE  HasParameter(specs, weights, i, TrainState(specs, weights))
<1> DEFINE n == Len(specs)
           state == TrainState(specs, weights)
           named(name) == CHOOSE j \in DOMAIN specs : specs[j].name = name
           params == ParameterValues(specs, weights, i)
           size == CheckedCount(specs[i].shape)
<1>1. DOMAIN specs = 1..n /\ size \in Nat
  BY DEF Begun
<1>3. state = [name \in {specs[j].name : j \in DOMAIN specs} |->
                 [shape |-> specs[named(name)].shape, values |-> F32s(ParameterValues(specs, weights, named(name)))]]
  BY DEF TrainState
<1>4. named(specs[i].name) = i
  <2>1. \A j \in 1..n : specs[j].name = specs[i].name => j = i
    BY <1>1 DEF AreSpecs
  <2> QED BY <1>1, <2>1
<1>5. specs[i].name \in {specs[j].name : j \in DOMAIN specs}
  BY <1>1
<1> HIDE DEF named, state
<1>6. state[specs[i].name] = [shape |-> specs[i].shape, values |-> F32s(params)]
  BY <1>3, <1>4, <1>5
<1>7. Slice(X, weights, off[i - 1], size, params)
  BY ParameterIs
<1> HIDE DEF params, size
<1>8. AsF32(size, params, F32s(params))
  BY <1>1, <1>7, F32sAre DEF Slice
<1>9. state[specs[i].name].shape = specs[i].shape /\ state[specs[i].name].values = F32s(params)
  BY <1>6
<1> QED BY <1>8, <1>9 DEF HasParameter, state, params, size

\* What reading f32 back makes of the models a job may start from.
Rounded == UNION {Range(F32s(m)) : m \in {InitialModel} \union SourceModels}

LEMMA GivenIs ==
  /\ ParamValues \subseteq Given /\ Range(InitialModel) \subseteq Given
  /\ \A w \in Rounded : Ulps * w \in Given
BY DEF Given, Rounded

LEMMA RoundedHas ==
  ASSUME NEW m \in {InitialModel} \union SourceModels, NEW X, NEW len \in Nat, m \in [1..len -> X], NEW p \in 1..len
  PROVE  F32(m[p]) \in Rounded
<1>1. AsF32(len, m, F32s(m))
  BY F32sAre
<1>2. F32s(m)[p] = F32(m[p]) /\ p \in DOMAIN F32s(m)
  <2>1. DOMAIN F32s(m) = DOMAIN m /\ DOMAIN m = 1..len
    BY DEF F32s
  <2> QED BY <1>1, <2>1 DEF AsF32
<1>3. F32(m[p]) \in Range(F32s(m))
  BY <1>2 DEF Range
<1> QED BY <1>3 DEF Rounded

\* Parameter values taken from a place of a model.
TakenFrom(m, size, params) ==
  /\ m \in {InitialModel} \union SourceModels
  /\ params = [r \in 1..size |-> params[r]] /\ \A r \in 1..size : F32(params[r]) \in Rounded

LEMMA TakenFromModel ==
  ASSUME NEW m \in {InitialModel} \union SourceModels, NEW specs, NEW n, NEW off, Begun(specs, n, off),
         m \in [1..off[n] -> Int], NEW i \in 1..n
  PROVE  TakenFrom(m, CheckedCount(specs[i].shape), ParameterValues(specs, m, i))
<1> DEFINE size == CheckedCount(specs[i].shape)
           params == ParameterValues(specs, m, i)
           from == off[i - 1]
           len == off[n]
<1>1. Slice(Int, m, from, size, params)
  BY ParameterIs
<1>2. from + size <= len /\ from \in Nat /\ size \in Nat /\ len \in Nat
  <2>1. n \in Nat /\ off \in [0..n -> Nat]
    BY DEF Begun
  <2>2. i - 1 \in 0..n /\ n \in 0..n
    BY <2>1
  <2>3. size \in Nat
    BY DEF Begun
  <2>4. from + size <= len
    BY PlacesCover
  <2> HIDE DEF size
  <2> QED BY <2>1, <2>2, <2>3, <2>4
<1> HIDE DEF size, params, from, len
<1>3. ASSUME NEW r \in 1..size PROVE F32(params[r]) \in Rounded
  <2>1. from + r \in 1..len /\ params[r] = m[from + r]
    BY <1>1, <1>2 DEF Slice
  <2>2. m \in [1..len -> Int]
    BY DEF len
  <2>3. F32(m[from + r]) \in Rounded
    BY <1>2, <2>1, <2>2, RoundedHas
  <2> QED BY <2>1, <2>3
<1>4. params = [r \in 1..size |-> params[r]]
  BY <1>1 DEF Slice
<1> QED BY <1>3, <1>4 DEF TakenFrom, size, params

\* What a warm start from this source leaves.
Moved(from, weights) ==
  \A i \in DOMAIN Specs :
    LET expected == {ParameterValues(SourceSpecs, from, j) :
                       j \in {j \in DOMAIN SourceSpecs : SourceSpecs[j].name = Specs[i].name}}
        own == ParameterValues(Specs, InitialModel, i)
        took == ParameterValues(Specs, weights, i)
    IN  IF Specs[i].name \in TransferNames
        THEN \A values \in expected : [k \in DOMAIN values |-> Ulps * F32(values[k])] = took
        ELSE [k \in DOMAIN own |-> Ulps * F32(own[k])] = took

LEMMA WarmMoves ==
  ASSUME NEW from \in SourceModels, ApplyTrainState(WarmStarted(from)) # NoAnswer
  PROVE  LET weights == ApplyTrainState(WarmStarted(from))
         IN  weights \in [1..ModelLen -> Given] /\ Moved(from, weights)
<1> DEFINE n == Len(Specs)
           theirs == TrainState(SourceSpecs, from)
           own == TrainState(Specs, InitialModel)
           state == WarmStarted(from)
           weights == ApplyTrainState(state)
           size(i) == CheckedCount(Specs[i].shape)
           lists == [i \in 1..n |-> state[Specs[i].name].values]
           values == FlattenSeq(lists)
           params(i) == IF Specs[i].name \in TransferNames
                        THEN ParameterValues(SourceSpecs, from, CHOOSE j \in 1..Len(SourceSpecs) : SourceSpecs[j].name = Specs[i].name)
                        ELSE ParameterValues(Specs, InitialModel, i)
<1>1. AreSpecs(Specs) /\ AreSpecs(SourceSpecs)
      /\ TransferNames \subseteq {SourceSpecs[j].name : j \in DOMAIN SourceSpecs}
      /\ InitialModel \in [1..ModelLen -> Int] /\ from \in [1..ValueCount(SourceSpecs) -> Int]
  BY SavedStateAssumption
<1>2. PICK off : Begun(Specs, n, off)
  BY <1>1, OffsetsBegin
<1>3. PICK offs : Begun(SourceSpecs, Len(SourceSpecs), offs)
  BY <1>1, OffsetsBegin
<1>4. /\ DOMAIN Specs = 1..n /\ DOMAIN SourceSpecs = 1..Len(SourceSpecs) /\ n \in Nat
      /\ ModelLen = off[n] /\ InitialModel \in [1..off[n] -> Int] /\ from \in [1..offs[Len(SourceSpecs)] -> Int]
      /\ off \in [0..n -> Nat] /\ \A i \in 1..n : size(i) \in Nat
  BY <1>1, <1>2, <1>3 DEF Begun, ModelLen
<1>5. DOMAIN own = {Specs[j].name : j \in 1..n} /\ DOMAIN theirs = {SourceSpecs[j].name : j \in 1..Len(SourceSpecs)}
  BY <1>4 DEF TrainState
<1>6. state = [name \in DOMAIN own \union TransferNames |-> IF name \in TransferNames THEN theirs[name] ELSE own[name]]
  BY DEF WarmStarted
<1>7. ASSUME NEW i \in 1..n
      PROVE  state[Specs[i].name] = IF Specs[i].name \in TransferNames THEN theirs[Specs[i].name] ELSE own[Specs[i].name]
  <2>1. Specs[i].name \in DOMAIN own
    BY <1>5
  <2> HIDE DEF own, theirs
  <2> QED BY <1>6, <2>1
<1>17. weights # NoAnswer
  OBVIOUS
<1> HIDE DEF state
<1>8. /\ \A i \in 1..n : state[Specs[i].name].shape = Specs[i].shape
      /\ weights = [k \in DOMAIN values |-> Ulps * values[k]]
  <2> DEFINE misfit(i) == Specs[i].name \notin DOMAIN state \/ state[Specs[i].name].shape # Specs[i].shape
             answer == [k \in DOMAIN values |-> Ulps * values[k]]
  <2>1. weights = IF \E i \in 1..n : misfit(i) THEN NoAnswer ELSE IF Len(values) # ModelLen THEN NoAnswer ELSE answer
    <3>1. weights = IF \E i \in DOMAIN Specs : misfit(i) THEN NoAnswer
                  ELSE LET all == FlattenSeq([i \in DOMAIN Specs |-> state[Specs[i].name].values])
                       IN  IF Len(all) # ModelLen THEN NoAnswer ELSE [k \in DOMAIN all |-> Ulps * all[k]]
      BY DEF ApplyTrainState
    <3> HIDE DEF weights, misfit
    <3>2. DOMAIN Specs = 1..n
      BY <1>4
    <3> HIDE DEF n
    <3> QED BY <3>1, <3>2
  <2> HIDE DEF weights, values, answer
  <2>2. weights = answer /\ \A i \in 1..n : ~misfit(i)
    <3> HIDE DEF misfit
    <3> QED BY <1>17, <2>1
  <2> QED BY <2>2 DEF answer
<1> HIDE DEF weights
<1>9. ASSUME NEW i \in 1..n
      PROVE  /\ AsF32(size(i), params(i), state[Specs[i].name].values)
             /\ \E m : TakenFrom(m, size(i), params(i))
             /\ Specs[i].name \in TransferNames =>
                  \A j \in 1..Len(SourceSpecs) : SourceSpecs[j].name = Specs[i].name => params(i) = ParameterValues(SourceSpecs, from, j)
             /\ Specs[i].name \notin TransferNames => params(i) = ParameterValues(Specs, InitialModel, i)
  <2>1. CASE Specs[i].name \in TransferNames
    <3>1. PICK j \in 1..Len(SourceSpecs) : SourceSpecs[j].name = Specs[i].name /\ params(i) = ParameterValues(SourceSpecs, from, j)
      <4> DEFINE l == CHOOSE j \in 1..Len(SourceSpecs) : SourceSpecs[j].name = Specs[i].name
      <4>1. l \in 1..Len(SourceSpecs) /\ SourceSpecs[l].name = Specs[i].name
        BY <1>1, <1>4, <2>1
      <4>2. params(i) = ParameterValues(SourceSpecs, from, l)
        BY <2>1
      <4> HIDE DEF l, params
      <4> QED BY <4>1, <4>2
    <3>2. params(i) = ParameterValues(SourceSpecs, from, j)
      BY <3>1
    <3>3. \A l \in 1..Len(SourceSpecs) : SourceSpecs[l].name = Specs[i].name => l = j
      BY <1>1, <1>4, <3>1 DEF AreSpecs
    <3> HIDE DEF params
    <3>4. /\ theirs[SourceSpecs[j].name].shape = SourceSpecs[j].shape
          /\ AsF32(CheckedCount(SourceSpecs[j].shape), ParameterValues(SourceSpecs, from, j), theirs[SourceSpecs[j].name].values)
      <4>1. from \in [1..offs[Len(SourceSpecs)] -> Int] /\ AreSpecs(SourceSpecs) /\ Begun(SourceSpecs, Len(SourceSpecs), offs)
        BY <1>1, <1>3, <1>4
      <4> HIDE DEF own, size, lists, values, n
      <4>2. HasParameter(SourceSpecs, from, j, TrainState(SourceSpecs, from))
        BY ONLY <4>1, NamedTrainState
      <4> QED BY <4>2 DEF HasParameter
    <3>5. TakenFrom(from, CheckedCount(SourceSpecs[j].shape), ParameterValues(SourceSpecs, from, j))
      BY <1>3, <1>4, <3>1, TakenFromModel
    <3> HIDE DEF theirs
    <3>6. CheckedCount(SourceSpecs[j].shape) = size(i) /\ state[Specs[i].name] = theirs[SourceSpecs[j].name]
      <4>1. state[Specs[i].name] = theirs[SourceSpecs[j].name]
        BY <1>7, <2>1, <3>1
      <4>2. SourceSpecs[j].shape = Specs[i].shape
        BY <1>8, <3>4, <4>1
      <4> QED BY <4>1, <4>2
    <3> HIDE DEF size
    <3> QED BY <2>1, <3>2, <3>3, <3>4, <3>5, <3>6
  <2>2. CASE Specs[i].name \notin TransferNames
    <3>1. params(i) = ParameterValues(Specs, InitialModel, i)
      BY <2>2
    <3> HIDE DEF params
    <3>2. AsF32(size(i), ParameterValues(Specs, InitialModel, i), own[Specs[i].name].values)
      BY <1>1, <1>2, <1>4, NamedTrainState DEF HasParameter
    <3>3. TakenFrom(InitialModel, size(i), ParameterValues(Specs, InitialModel, i))
      BY <1>2, <1>4, TakenFromModel
    <3> HIDE DEF own, size
    <3>4. state[Specs[i].name] = own[Specs[i].name]
      BY <1>7, <2>2
    <3> QED BY <2>2, <3>1, <3>2, <3>3, <3>4
  <2> QED BY <2>1, <2>2
<1> HIDE DEF params, size, own, theirs
<1>10. ASSUME NEW i \in 1..n PROVE lists[i] \in Seq(Rounded) /\ Len(lists[i]) = size(i)
  <2> DEFINE w == state[Specs[i].name].values
  <2>1. w = [r \in 1..size(i) |-> w[r]] /\ \A r \in 1..size(i) : w[r] \in Rounded
    BY <1>9 DEF AsF32, TakenFrom
  <2>2. w \in [1..size(i) -> Rounded] /\ size(i) \in Nat
    <3> HIDE DEF w
    <3> QED BY <1>4, <2>1
  <2>3. lists[i] = w
    OBVIOUS
  <2> HIDE DEF w, lists
  <2>4. w \in Seq(Rounded) /\ Len(w) = size(i)
    <3>1. PICK l : l = size(i)
      OBVIOUS
    <3>2. l \in Nat /\ w \in [1..l -> Rounded]
      BY <2>2, <3>1
    <3> QED BY <3>1, <3>2, ListSeq
  <2> QED BY <2>3, <2>4
<1>11. lists \in [1..n -> Seq(Rounded)] /\ \A i \in 1..n : lists[i] = state[Specs[i].name].values
  BY <1>10
<1> HIDE DEF lists
<1>12. Offsets(n, lists, off)
  BY <1>2, <1>10 DEF Begun, Offsets, size
<1>13. values \in Seq(Rounded) /\ Len(values) = off[n] /\ Behind(n, lists, off, values)
  <2> HIDE DEF n
  <2>1. FlattenSeq(lists) \in Seq(Rounded) /\ Len(FlattenSeq(lists)) = off[n] /\ Behind(n, lists, off, FlattenSeq(lists))
    BY <1>4, <1>11, <1>12, FlattenByPlace
  <2> QED BY <2>1
<1> HIDE DEF values
<1>14. weights \in [1..off[n] -> Given] /\ \A p \in 1..off[n] : weights[p] = Ulps * values[p]
  <2>1. DOMAIN values = 1..off[n] /\ \A p \in 1..off[n] : values[p] \in Rounded
    <3>1. PICK l : l = off[n]
      OBVIOUS
    <3>2. Len(values) = l
      BY <1>13, <3>1
    <3>3. DOMAIN values = 1..l /\ \A p \in 1..l : values[p] \in Rounded
      BY <1>13, <3>2
    <3> QED BY <3>1, <3>3
  <2>2. \A p \in 1..off[n] : Ulps * values[p] \in Given
    BY <2>1, GivenIs
  <2> QED BY <1>8, <2>1, <2>2
<1>15. ASSUME NEW i \in 1..n
       PROVE  [k \in DOMAIN params(i) |-> Ulps * F32(params(i)[k])] = ParameterValues(Specs, weights, i)
  <2> DEFINE took == ParameterValues(Specs, weights, i)
  <2>1. Slice(Given, weights, off[i - 1], size(i), took)
    BY <1>2, <1>14, ParameterIs DEF size
  <2> HIDE DEF took
  <2>2. DOMAIN params(i) = 1..size(i)
    BY <1>9 DEF TakenFrom
  <2>3. took = [r \in 1..size(i) |-> took[r]]
    BY <2>1 DEF Slice
  <2>4. ASSUME NEW r \in 1..size(i) PROVE took[r] = Ulps * F32(params(i)[r])
    <3>1. took[r] = weights[off[i - 1] + r]
      BY <2>1 DEF Slice
    <3>2. off[i - 1] + r \in 1..off[n]
      <4>1. off[i - 1] + size(i) <= off[n]
        BY <1>2, PlacesCover DEF size
      <4>2. off[i - 1] \in Nat /\ size(i) \in Nat /\ off[n] \in Nat
        <5>1. i - 1 \in 0..n /\ n \in 0..n
          BY <1>4
        <5> QED BY <1>4, <5>1
      <4> QED BY <4>1, <4>2
    <3>3. values[off[i - 1] + r] = lists[i][r]
      BY <1>10, <1>13 DEF Behind
    <3>4. lists[i][r] = F32(params(i)[r])
      BY <1>9, <1>11 DEF AsF32
    <3> QED BY <1>14, <3>1, <3>2, <3>3, <3>4
  <2>5. took = [k \in DOMAIN params(i) |-> Ulps * F32(params(i)[k])]
    BY <2>2, <2>3, <2>4
  <2> QED BY <2>5 DEF took
<1>16. Moved(from, weights)
  <2> SUFFICES ASSUME NEW i \in DOMAIN Specs
               PROVE  IF Specs[i].name \in TransferNames
                      THEN \A j \in DOMAIN SourceSpecs : SourceSpecs[j].name = Specs[i].name =>
                             LET v == ParameterValues(SourceSpecs, from, j)
                             IN  [k \in DOMAIN v |-> Ulps * F32(v[k])] = ParameterValues(Specs, weights, i)
                      ELSE LET v == ParameterValues(Specs, InitialModel, i)
                           IN  [k \in DOMAIN v |-> Ulps * F32(v[k])] = ParameterValues(Specs, weights, i)
    BY DEF Moved
  <2>1. i \in 1..n
    BY <1>4
  <2>2. [k \in DOMAIN params(i) |-> Ulps * F32(params(i)[k])] = ParameterValues(Specs, weights, i)
    BY <1>15, <2>1
  <2>3. CASE Specs[i].name \in TransferNames
    <3> SUFFICES ASSUME NEW j \in DOMAIN SourceSpecs, SourceSpecs[j].name = Specs[i].name
                 PROVE  LET v == ParameterValues(SourceSpecs, from, j)
                        IN  [k \in DOMAIN v |-> Ulps * F32(v[k])] = ParameterValues(Specs, weights, i)
      BY <2>3
    <3>1. params(i) = ParameterValues(SourceSpecs, from, j)
      BY <1>4, <1>9, <2>1, <2>3
    <3> QED BY <2>2, <3>1, Zenon
  <2>4. CASE Specs[i].name \notin TransferNames
    <3>1. params(i) = ParameterValues(Specs, InitialModel, i)
      BY <1>9, <2>1, <2>4
    <3>2. LET v == ParameterValues(Specs, InitialModel, i) IN [k \in DOMAIN v |-> Ulps * F32(v[k])] = ParameterValues(Specs, weights, i)
      BY <2>2, <3>1, Zenon
    <3> QED BY <2>4, <3>2
  <2> QED BY <2>3, <2>4
<1> QED BY <1>4, <1>14, <1>16 DEF weights, state

-----------------------------------------------------------------------------
(* Jobs and checkpoints. *)

LEMMA ChunkIsBytes ==
  ASSUME NEW c1, NEW c2, NEW c3, NEW c4, ~ChunkRefused(c1, c2, c3, c4)
  PROVE  ChunkBytes(c1, c2, c3, c4) \in Seq(0..255)
<1> DEFINE s1 == DecodeChar(c1) s2 == DecodeChar(c2) s3 == DecodeChar(c3) s4 == DecodeChar(c4)
           b1 == s1 * 4 + (s2 \div 16)
           b2 == (s2 % 16) * 16 + (s3 \div 4)
           b3 == (s3 % 4) * 64 + s4
<1>1. s1 # -1 /\ s2 # -1 /\ (c3 # Pad => s3 # -1) /\ (c4 # Pad => s4 # -1)
  BY DEF ChunkRefused
<1>2. s1 \in 0..63 /\ s2 \in 0..63 /\ (c3 # Pad => s3 \in 0..63) /\ (c4 # Pad => s4 \in 0..63)
  BY <1>1, SextetsOfChars
<1>3. ChunkBytes(c1, c2, c3, c4) = IF c3 = Pad THEN <<b1>> ELSE IF c4 = Pad THEN <<b1, b2>> ELSE <<b1, b2, b3>>
  BY DEF ChunkBytes
<1> HIDE DEF s1, s2, s3, s4
<1>4. b1 \in 0..255 /\ (c3 # Pad => b2 \in 0..255) /\ (c3 # Pad /\ c4 # Pad => b3 \in 0..255)
  BY <1>2
<1> HIDE DEF b1, b2, b3
<1>5. CASE c3 = Pad
  BY <1>3, <1>4, <1>5
<1>6. CASE c3 # Pad /\ c4 = Pad
  BY <1>3, <1>4, <1>6
<1>7. CASE c3 # Pad /\ c4 # Pad
  BY <1>3, <1>4, <1>7
<1> QED BY <1>5, <1>6, <1>7

LEMMA DecodedAreBytes ==
  ASSUME NEW text \in Seq(0..255), Base64Decode(text) # NoAnswer
  PROVE  Base64Decode(text) \in Seq(0..255)
<1> DEFINE m == Len(text) \div 4
           refused(k) == ChunkRefused(text[4 * k - 3], text[4 * k - 2], text[4 * k - 1], text[4 * k])
           piece(k) == ChunkBytes(text[4 * k - 3], text[4 * k - 2], text[4 * k - 1], text[4 * k])
           pieces == [k \in 1..m |-> piece(k)]
<1>1. Base64Decode(text) = FlattenSeq(pieces) /\ \A k \in 1..m : ~refused(k)
  BY DEF Base64Decode
<1>2. m \in Nat
  OBVIOUS
<1>3. ASSUME NEW k \in 1..m PROVE piece(k) \in Seq(0..255)
  BY <1>1, ChunkIsBytes
<1>4. pieces \in [1..m -> Seq(0..255)]
  <2> HIDE DEF m, piece
  <2> QED BY <1>3
<1> HIDE DEF m, pieces
<1> QED BY <1>1, <1>2, <1>4, FlattenType

LEMMA DecodedIsStream ==
  ASSUME NEW text \in Seq(0..255), DecodeRng(text) # RefusedStream
  PROVE  IsStream(DecodeRng(text))
<1> DEFINE bytes == Base64Decode(text)
           seed == SubSeq(bytes, 1, SeedLen)
           rest == SubSeq(bytes, SeedLen + 1, SeedLen + PosLen)
<1>1. bytes # NoAnswer /\ DecodeRng(text) = DeserializeRng(bytes)
  BY DEF DecodeRng
<1>2. bytes \in Seq(0..255)
  BY <1>1, DecodedAreBytes
<1> HIDE DEF bytes
<1>3. Len(bytes) = SeedLen + PosLen
  BY <1>1 DEF DeserializeRng
<1>4. DecodeRng(text) = [seed |-> seed, pos |-> OfWord256(rest) % WordPeriod]
  BY <1>1, <1>3 DEF DeserializeRng, NamedPosition
<1>5. seed \in [1..SeedLen -> 0..255]
  <2>1. 0 + 1 = 1 /\ 0 + SeedLen = SeedLen /\ 0 + SeedLen <= Len(bytes) /\ 0 \in Nat /\ SeedLen \in Nat
    BY <1>3, Lengths
  <2>2. Slice(0..255, bytes, 0, SeedLen, SubSeq(bytes, 0 + 1, 0 + SeedLen))
    BY <1>2, <2>1, SliceIs, Zenon
  <2> QED BY <2>1, <2>2 DEF Slice
<1>6. rest \in [1..PosLen -> 0..255]
  <2>1. SeedLen + PosLen <= Len(bytes) /\ PosLen \in Nat /\ SeedLen \in Nat
    BY <1>3, Lengths
  <2>2. Slice(0..255, bytes, SeedLen, PosLen, rest)
    BY <1>2, <2>1, SliceIs, Zenon
  <2> QED BY <2>2 DEF Slice
<1> HIDE DEF seed, rest
<1>7. OfWord256(rest) \in Nat
  BY <1>6, Lengths, BytesRoundTrip
<1>8. OfWord256(rest) % WordPeriod \in 0..(WordPeriod - 1)
  <2> DEFINE x == OfWord256(rest)
  <2>1. x \in Nat /\ WordPeriod \in Nat \ {0}
    BY <1>7, Lengths
  <2> HIDE DEF x
  <2>2. x % WordPeriod \in 0..(WordPeriod - 1)
    BY ONLY <2>1
  <2> QED BY <2>2 DEF x
<1> QED BY <1>4, <1>5, <1>8 DEF IsStream

LEMMA GivenAreInts == Given \subseteq Int
<1>1. Ulps \in Nat \ {0} /\ ParamValues \subseteq Int
  BY SavedStateAssumption
<1>2. ASSUME NEW m \in {InitialModel} \union SourceModels PROVE Range(F32s(m)) \subseteq Int /\ Range(m) \subseteq Int
  <2>1. \A i \in DOMAIN m : m[i] \in Int
    <3>1. InitialModel \in [1..ModelLen -> Int] /\ SourceModels \subseteq [1..ValueCount(SourceSpecs) -> Int]
      BY SavedStateAssumption
    <3>2. PICK l : m \in [1..l -> Int]
      BY <3>1
    <3> QED BY <3>2
  <2>2. \A i \in DOMAIN m : F32(m[i]) \in Int
    BY <2>1, F32IsInt
  <2>3. DOMAIN F32s(m) = DOMAIN m /\ \A i \in DOMAIN m : F32s(m)[i] = F32(m[i])
    BY DEF F32s
  <2> QED BY <2>1, <2>2, <2>3 DEF Range
<1>3. Rounded \subseteq Int
  BY <1>2 DEF Rounded
<1>4. \A w \in Rounded : Ulps * w \in Int
  BY <1>1, <1>3
<1> QED BY <1>1, <1>2, <1>4 DEF Given, Rounded

LEMMA DriftsGrow ==
  ASSUME NEW n \in Nat
  PROVE  /\ DriftsOf(n) \subseteq Int /\ Given \subseteq DriftsOf(n) /\ DriftsOf(n) \subseteq DriftsOf(n + 1)
         /\ \A v \in DriftsOf(n) : \A d \in {-1, 0, 1} : v + d \in DriftsOf(n + 1)
         /\ n <= MaxJobs => Storable(DriftsOf(n))
<1>1. DriftsOf(n) \subseteq Int
  BY GivenAreInts DEF DriftsOf
<1>2. ASSUME NEW v \in Given PROVE v \in DriftsOf(n)
  <2>1. 0 \in -n..n /\ v + 0 = v
    BY GivenAreInts
  <2> QED BY <2>1 DEF DriftsOf
<1>3. ASSUME NEW v \in DriftsOf(n), NEW e \in {-1, 0, 1} PROVE v + e \in DriftsOf(n + 1)
  <2>1. PICK u \in Given, d \in -n..n : v = u + d
    BY DEF DriftsOf
  <2>2. d + e \in -(n + 1)..(n + 1) /\ v + e = u + (d + e)
    BY <2>1, GivenAreInts
  <2> QED BY <2>2 DEF DriftsOf
<1>4. ASSUME NEW v \in DriftsOf(n) PROVE v \in DriftsOf(n + 1)
  <2>1. v + 0 = v /\ 0 \in {-1, 0, 1}
    BY <1>1
  <2>2. v + 0 \in DriftsOf(n + 1)
    BY <1>3, <2>1
  <2> QED BY <2>1, <2>2
<1>5. ASSUME n <= MaxJobs, NEW v \in DriftsOf(n) PROVE F32(v) \in Int /\ IsF32(F32(v))
  <2>1. v \in DriftsOf(MaxJobs)
    <3>1. PICK u \in Given, d \in -n..n : v = u + d
      BY DEF DriftsOf
    <3>2. MaxJobs \in Nat
      BY SavedStateAssumption
    <3>3. d \in -MaxJobs..MaxJobs
      BY <1>5, <3>2
    <3> QED BY <3>1, <3>3 DEF DriftsOf
  <2>2. IsF32(F32(v))
    BY <2>1, SavedStateAssumption
  <2> QED BY <1>1, <2>2, F32IsInt
<1> QED BY <1>1, <1>2, <1>3, <1>4, <1>5 DEF Storable

IsJob(t, n) ==
  /\ t = [runId |-> t.runId, step |-> t.step, model |-> t.model, streams |-> t.streams,
          samples |-> t.samples, explosions |-> t.explosions]
  /\ t.runId \in {"bounded", "so100", "smoke"} /\ t.step \in Nat \ {0}
  /\ t.model \in [1..ModelLen -> DriftsOf(n)]
  /\ t.streams = [name \in StreamNames |-> t.streams[name]] /\ \A name \in StreamNames : IsStream(t.streams[name])
  /\ t.samples \in Nat /\ t.explosions \in Nat

\* What a checkpoint holds of the job that wrote it.
KeptTexts ==
  LET texts == shelf.sidecar.texts IN
  /\ texts = [name \in StreamNames |-> texts[name]] /\ \A name \in StreamNames : texts[name] \in Seq(0..255)
  /\ "text" \notin edits /\ writer.runId # "smoke" => texts = CheckpointRngState(writer.streams)

KeptMetrics ==
  LET metrics == shelf.sidecar.metrics IN
  /\ metrics = [samples |-> metrics.samples, explosions |-> metrics.explosions]
  /\ \/ metrics.explosions = StepAsF64(writer.explosions)
     \/ "metric" \in edits /\ metrics.explosions = NotWhole

KeptMirror == "mirror" \notin edits => shelf.mirror = SerializeParameters(Tensors(writer.model))

Kept ==
  /\ shelf = [runId |-> writer.runId, sidecar |-> shelf.sidecar,
              record |-> [params |-> writer.model, samples |-> writer.samples], mirror |-> shelf.mirror]
  /\ shelf.sidecar = [runId |-> writer.runId, texts |-> shelf.sidecar.texts, metrics |-> shelf.sidecar.metrics]
  /\ KeptTexts /\ KeptMetrics /\ KeptMirror

SavedInv ==
  /\ jobs \in 0..MaxJobs
  /\ trainer = NoTrainer \/ IsJob(trainer, jobs)
  /\ shelf = NoShelf \/ (IsJob(writer, jobs) /\ Kept)
  /\ trainer = NoTrainer => origin.kind \notin {"resumed", "warm"}
  /\ StateComesBack

LEMMA JobsAreJobs ==
  ASSUME NEW t, NEW n \in Nat, IsJob(t, n)
  PROVE  IsJob(t, n + 1) /\ t # NoTrainer
<1>1. t # NoTrainer
  BY DEF IsJob, NoTrainer
<1>2. t.model \in [1..ModelLen -> DriftsOf(n + 1)]
  <2>1. t.model \in [1..ModelLen -> DriftsOf(n)] /\ DriftsOf(n) \subseteq DriftsOf(n + 1)
    BY DriftsGrow DEF IsJob
  <2> QED BY <2>1
<1> QED BY <1>1, <1>2 DEF IsJob

LEMMA FreshAreStreams ==
  FreshStreams = [name \in StreamNames |-> FreshStreams[name]] /\ \A name \in StreamNames : IsStream(FreshStreams[name])
<1>1. ASSUME NEW name \in StreamNames PROVE IsStream(FreshStreams[name])
  <2>1. FreshStreams[name] = [seed |-> StreamSeed[name], pos |-> 0]
    BY DEF FreshStreams
  <2>2. StreamSeed[name] \in [1..SeedLen -> 0..255]
    BY SavedStateAssumption
  <2>3. 0 \in 0..(WordPeriod - 1)
    BY Lengths
  <2> QED BY <2>1, <2>2, <2>3 DEF IsStream
<1> QED BY <1>1 DEF FreshStreams

LEMMA ModelLenIs == \E off : Begun(Specs, Len(Specs), off) /\ ModelLen = off[Len(Specs)] /\ ModelLen \in Nat
<1>1. PICK off : Begun(Specs, Len(Specs), off)
  BY SavedStateAssumption, OffsetsBegin
<1>2. ModelLen = off[Len(Specs)]
  BY <1>1 DEF Begun, ModelLen
<1>3. off[Len(Specs)] \in Nat
  <2>1. Len(Specs) \in Nat /\ off \in [0..Len(Specs) -> Nat]
    BY <1>1 DEF Begun
  <2>2. Len(Specs) \in 0..Len(Specs)
    BY <2>1
  <2> QED BY <2>1, <2>2
<1> QED BY <1>1, <1>2, <1>3

LEMMA SavedInits == SavedInit => SavedInv
<1> SUFFICES ASSUME SavedInit PROVE SavedInv
  OBVIOUS
<1>1. jobs = 0 /\ trainer = NoTrainer /\ shelf = NoShelf /\ origin.kind = "none"
  BY DEF SavedInit
<1>2. jobs \in 0..MaxJobs
  BY <1>1, SavedStateAssumption
<1>3. StateComesBack
  BY <1>1 DEF StateComesBack, ResumedIsWhatWasSaved, UneditedIsAccepted, MovedByName
<1> QED BY <1>1, <1>2, <1>3 DEF SavedInv

\* Nothing is said of a job that neither resumed nor starts warm nor is refused.
LEMMA OtherOrigins ==
  ASSUME origin'.kind \notin {"resumed", "refused", "warm"}
  PROVE  StateComesBack'
BY DEF StateComesBack, ResumedIsWhatWasSaved, UneditedIsAccepted, MovedByName

LEMMA BeginsIsJob ==
  ASSUME SavedInv, NEW asked \in {"bounded", "so100", "smoke"}, NEW weights \in [1..ModelLen -> Given], NEW from,
         Begins(asked, weights, from)
  PROVE  /\ IsJob(trainer, jobs)' /\ trainer'.model = weights /\ origin' = from
         /\ (jobs \in 0..MaxJobs)' /\ (trainer # NoTrainer)'
         /\ (shelf = NoShelf \/ (IsJob(writer, jobs) /\ Kept))'
<1>1. /\ shelf = NoShelf /\ shelf' = shelf /\ origin' = from /\ jobs' = jobs + 1 /\ jobs < MaxJobs
      /\ trainer' = [runId |-> asked, step |-> 1, model |-> weights, streams |-> FreshStreams, samples |-> 0, explosions |-> 0]
  BY DEF Begins
<1>2. jobs \in Nat /\ jobs + 1 \in Nat /\ jobs + 1 \in 0..MaxJobs
  BY <1>1, SavedStateAssumption DEF SavedInv
<1>3. weights \in [1..ModelLen -> DriftsOf(jobs + 1)]
  <2>1. Given \subseteq DriftsOf(jobs + 1)
    BY <1>2, DriftsGrow
  <2> QED BY <2>1
<1>4. IsJob([runId |-> asked, step |-> 1, model |-> weights, streams |-> FreshStreams, samples |-> 0, explosions |-> 0], jobs + 1)
  BY <1>3, FreshAreStreams DEF IsJob
<1>5. IsJob(trainer', jobs')
  BY <1>1, <1>4, Zenon
<1>6. trainer' # NoTrainer
  BY <1>1 DEF NoTrainer
<1> QED BY <1>1, <1>2, <1>5, <1>6 DEF IsJob

LEMMA StartJobStep ==
  ASSUME SavedInv, NEW asked \in {"bounded", "so100", "smoke"}, StartJob(asked)
  PROVE  SavedInv'
<1>1. Begins(asked, InitialModel, [kind |-> "fresh"])
  BY DEF StartJob
<1>2. InitialModel \in [1..ModelLen -> Given]
  <2>1. InitialModel \in [1..ModelLen -> Int] /\ Range(InitialModel) \subseteq Given
    BY SavedStateAssumption, GivenIs
  <2>2. \A p \in 1..ModelLen : InitialModel[p] \in Given
    BY <2>1 DEF Range
  <2> QED BY <2>1, <2>2
<1>3. /\ IsJob(trainer, jobs)' /\ origin' = [kind |-> "fresh"] /\ (jobs \in 0..MaxJobs)' /\ (trainer # NoTrainer)'
      /\ (shelf = NoShelf \/ (IsJob(writer, jobs) /\ Kept))'
  BY <1>1, <1>2, BeginsIsJob
<1>4. StateComesBack'
  BY <1>3, OtherOrigins
<1> QED BY <1>3, <1>4 DEF SavedInv

LEMMA WarmStartStep ==
  ASSUME SavedInv, NEW from \in SourceModels, WarmStart(from)
  PROVE  SavedInv'
<1> DEFINE weights == ApplyTrainState(WarmStarted(from))
<1>1. Begins("so100", weights, [kind |-> "warm", source |-> from])
  BY DEF WarmStart
<1>2. weights # NoAnswer
  BY <1>1 DEF Begins
<1>3. weights \in [1..ModelLen -> Given] /\ Moved(from, weights)
  BY <1>2, WarmMoves
<1> HIDE DEF weights
<1>4. /\ IsJob(trainer, jobs)' /\ trainer'.model = weights /\ origin' = [kind |-> "warm", source |-> from]
      /\ (jobs \in 0..MaxJobs)' /\ (trainer # NoTrainer)'
      /\ (shelf = NoShelf \/ (IsJob(writer, jobs) /\ Kept))'
  BY <1>1, <1>3, BeginsIsJob
<1>5. Moved(origin'.source, trainer'.model)
  BY <1>3, <1>4
<1>6. MovedByName'
  BY <1>5 DEF MovedByName, Moved
<1>7. StateComesBack'
  BY <1>4, <1>6 DEF StateComesBack, ResumedIsWhatWasSaved, UneditedIsAccepted
<1> QED BY <1>4, <1>7 DEF SavedInv

LEMMA StepOnStep ==
  ASSUME SavedInv, NEW i \in 1..ModelLen, NEW v \in ParamValues, NEW exploded \in BOOLEAN, StepOn(i, v, exploded)
  PROVE  SavedInv'
<1> DEFINE drawn == IF trainer.runId = "smoke" THEN 0 ELSE Drawn
           stream == trainer.streams["data_shuffle"]
           moved == [seed |-> stream.seed, pos |-> (stream.pos + drawn) % WordPeriod]
           streams == [name \in StreamNames |-> IF name = "data_shuffle" THEN moved ELSE trainer.streams[name]]
           weights == [p \in 1..ModelLen |-> IF p = i THEN v ELSE trainer.model[p]]
           more == IF exploded THEN 1 ELSE 0
<1>1. trainer # NoTrainer /\ IsJob(trainer, jobs) /\ jobs \in Nat
  BY SavedStateAssumption DEF StepOn, SavedInv
<1>2. Drawn \in Nat /\ WordPeriod \in Nat \ {0}
  BY SavedStateAssumption, Lengths
<1>3. trainer' = [runId |-> trainer.runId, step |-> trainer.step + 1, model |-> weights, streams |-> streams,
                  samples |-> trainer.samples + Drawn, explosions |-> trainer.explosions + more]
  <2>1. trainer' = [trainer EXCEPT
          !.step = @ + 1, !.model[i] = v, !.samples = @ + Drawn,
          !.streams["data_shuffle"].pos = (@ + drawn) % WordPeriod,
          !.explosions = @ + more]
    BY DEF StepOn
  <2>2. [trainer.model EXCEPT ![i] = v] = weights
    BY <1>1 DEF IsJob
  <2>3. [trainer.streams EXCEPT !["data_shuffle"].pos = (@ + drawn) % WordPeriod] = streams
    <3>1. stream = [seed |-> stream.seed, pos |-> stream.pos]
      BY <1>1 DEF IsJob, IsStream, StreamNames
    <3>2. [stream EXCEPT !.pos = (@ + drawn) % WordPeriod] = moved
      <4> HIDE DEF drawn
      <4> QED BY <3>1
    <3>3. trainer.streams = [name \in StreamNames |-> trainer.streams[name]]
      BY <1>1 DEF IsJob
    <3> HIDE DEF moved, drawn
    <3> QED BY <3>2, <3>3
  <2> HIDE DEF streams, weights, more, drawn
  <2>4. trainer' = [runId |-> trainer.runId, step |-> trainer.step + 1, model |-> [trainer.model EXCEPT ![i] = v],
                    streams |-> [trainer.streams EXCEPT !["data_shuffle"].pos = (@ + drawn) % WordPeriod],
                    samples |-> trainer.samples + Drawn, explosions |-> trainer.explosions + more]
    BY <1>1, <2>1 DEF IsJob
  <2> QED BY <2>2, <2>3, <2>4
<1>4. weights \in [1..ModelLen -> DriftsOf(jobs)]
  <2>1. v \in DriftsOf(jobs) /\ trainer.model \in [1..ModelLen -> DriftsOf(jobs)]
    BY <1>1, GivenIs, DriftsGrow DEF IsJob
  <2> QED BY <2>1
<1>5. streams = [name \in StreamNames |-> streams[name]] /\ \A name \in StreamNames : IsStream(streams[name])
  <2>1. stream.seed \in [1..SeedLen -> 0..255] /\ stream.pos \in Nat /\ \A name \in StreamNames : IsStream(trainer.streams[name])
    <3>1. \A name \in StreamNames : IsStream(trainer.streams[name])
      BY <1>1 DEF IsJob
    <3>2. "data_shuffle" \in StreamNames
      BY DEF StreamNames
    <3>3. IsStream(stream)
      BY <3>1, <3>2
    <3> HIDE DEF stream
    <3>4. stream.seed \in [1..SeedLen -> 0..255] /\ stream.pos \in 0..(WordPeriod - 1)
      BY <3>3 DEF IsStream
    <3> QED BY <3>1, <3>4
  <2>2. drawn \in Nat
    BY <1>2
  <2>3. (stream.pos + drawn) % WordPeriod \in 0..(WordPeriod - 1)
    <3> DEFINE x == stream.pos + drawn
    <3>1. x \in Nat /\ WordPeriod \in Nat \ {0}
      BY <1>2, <2>1, <2>2
    <3> HIDE DEF x
    <3>2. x % WordPeriod \in 0..(WordPeriod - 1)
      BY ONLY <3>1
    <3> QED BY <3>2 DEF x
  <2>4. IsStream(moved)
    <3> HIDE DEF drawn, stream
    <3> QED BY <2>1, <2>3 DEF IsStream
  <2> HIDE DEF moved
  <2> QED BY <2>1, <2>4
<1>6. trainer.step + 1 \in Nat \ {0} /\ trainer.samples + Drawn \in Nat /\ trainer.explosions + more \in Nat
  BY <1>1, <1>2 DEF IsJob
<1> HIDE DEF streams, weights, more
<1>7. IsJob(trainer', jobs)
  <2>1. trainer'.runId = trainer.runId /\ trainer'.step = trainer.step + 1 /\ trainer'.model = weights /\ trainer'.streams = streams
        /\ trainer'.samples = trainer.samples + Drawn /\ trainer'.explosions = trainer.explosions + more
    BY <1>3
  <2>2. trainer.runId \in {"bounded", "so100", "smoke"}
    BY <1>1 DEF IsJob
  <2> QED BY <1>3, <1>4, <1>5, <1>6, <2>1, <2>2 DEF IsJob
<1>8. shelf' = shelf /\ writer' = writer /\ edits' = edits /\ jobs' = jobs /\ origin' = [kind |-> "stepped"]
  BY DEF StepOn
<1>9. StateComesBack'
  BY <1>8, OtherOrigins
<1>10. (trainer = NoTrainer \/ IsJob(trainer, jobs))' /\ (trainer # NoTrainer)'
  BY <1>1, <1>7, <1>8, JobsAreJobs DEF IsJob
<1>11. (shelf = NoShelf \/ (IsJob(writer, jobs) /\ Kept))'
  BY <1>8 DEF SavedInv, IsJob, Kept, KeptTexts, KeptMetrics, KeptMirror
<1> QED BY <1>8, <1>9, <1>10, <1>11 DEF SavedInv

\* The files of a checkpoint that a job writes, with these texts.
FilesOf(t, texts) ==
  [runId |-> t.runId,
   sidecar |-> [runId |-> t.runId, texts |-> texts, metrics |-> CheckpointMetrics(t)],
   record |-> [params |-> t.model, samples |-> t.samples],
   mirror |-> SerializeParameters(Tensors(t.model))]

LEMMA SavedIsKept ==
  ASSUME SavedInv, trainer # NoTrainer, NEW texts,
         texts = [name \in StreamNames |-> texts[name]], \A name \in StreamNames : texts[name] \in Seq(0..255),
         trainer.runId # "smoke" => texts = CheckpointRngState(trainer.streams),
         shelf' = FilesOf(trainer, texts), writer' = trainer, trainer' = NoTrainer,
         origin' = [kind |-> "none"], edits' = {}, jobs' = jobs
  PROVE  SavedInv'
<1>1. IsJob(trainer, jobs)
  BY DEF SavedInv
<1>2. IsJob(writer, jobs)'
  BY <1>1 DEF IsJob
<1>3. /\ shelf'.runId = trainer.runId /\ shelf'.mirror = SerializeParameters(Tensors(trainer.model))
      /\ shelf'.record = [params |-> trainer.model, samples |-> trainer.samples]
      /\ shelf'.sidecar = [runId |-> trainer.runId, texts |-> texts, metrics |-> CheckpointMetrics(trainer)]
      /\ shelf' = [runId |-> shelf'.runId, sidecar |-> shelf'.sidecar, record |-> shelf'.record, mirror |-> shelf'.mirror]
  BY DEF FilesOf
<1>4. shelf'.sidecar.texts = texts /\ shelf'.sidecar.metrics = CheckpointMetrics(trainer) /\ shelf'.sidecar.runId = trainer.runId
  BY <1>3
<1>5. KeptTexts'
  BY <1>4 DEF KeptTexts
<1>6. KeptMetrics'
  BY <1>4 DEF KeptMetrics, CheckpointMetrics
<1>7. KeptMirror'
  BY <1>3 DEF KeptMirror
<1>8. Kept'
  BY <1>3, <1>4, <1>5, <1>6, <1>7 DEF Kept
<1>9. StateComesBack'
  BY OtherOrigins
<1> QED BY <1>2, <1>8, <1>9 DEF SavedInv

LEMMA SaveJobStep ==
  ASSUME SavedInv, SaveJob
  PROVE  SavedInv'
<1> DEFINE texts == CheckpointRngState(trainer.streams)
<1>1. IsJob(trainer, jobs) /\ trainer # NoTrainer
  BY DEF SavedInv, SaveJob
<1>2. texts = [name \in StreamNames |-> texts[name]] /\ \A name \in StreamNames : texts[name] \in Seq(0..255)
  <2>1. \A name \in StreamNames : EncodeRng(trainer.streams[name]) \in Seq(0..255)
    BY <1>1, RngRoundTrip DEF IsJob
  <2> QED BY <2>1 DEF CheckpointRngState
<1>3. shelf' = FilesOf(trainer, texts)
  BY DEF SaveJob, SaveCheckpoint, WriteRequest, SidecarFromRequest, FilesOf
<1> HIDE DEF texts
<1>4. writer' = trainer /\ trainer' = NoTrainer /\ origin' = [kind |-> "none"] /\ edits' = {} /\ jobs' = jobs
  BY DEF SaveJob
<1>5. trainer.runId # "smoke" => texts = CheckpointRngState(trainer.streams)
  BY DEF texts
<1> QED BY <1>1, <1>2, <1>3, <1>4, <1>5, SavedIsKept

LEMMA SaveSmokeStep ==
  ASSUME SavedInv, SaveSmoke
  PROVE  SavedInv'
<1> DEFINE texts == [name \in StreamNames |-> SmokePlaceholder]
<1>1. IsJob(trainer, jobs) /\ trainer # NoTrainer /\ trainer.runId = "smoke"
  BY DEF SavedInv, SaveSmoke
<1>2. texts = [name \in StreamNames |-> texts[name]] /\ \A name \in StreamNames : texts[name] \in Seq(0..255)
  <2>1. SmokePlaceholder \in Seq(0..255)
    BY DEF SmokePlaceholder
  <2> QED BY <2>1
<1>3. shelf' = FilesOf(trainer, texts)
  <2>1. [WriteRequest(trainer) EXCEPT !.texts = texts] =
          [runId |-> trainer.runId, texts |-> texts, metrics |-> CheckpointMetrics(trainer),
           record |-> [params |-> trainer.model, samples |-> trainer.samples], tensors |-> Tensors(trainer.model)]
    BY DEF WriteRequest
  <2>2. SaveCheckpoint([WriteRequest(trainer) EXCEPT !.texts = texts])
    BY DEF SaveSmoke
  <2> HIDE DEF texts
  <2> QED BY <2>1, <2>2 DEF SaveCheckpoint, SidecarFromRequest, FilesOf
<1> HIDE DEF texts
<1>4. writer' = trainer /\ trainer' = NoTrainer /\ origin' = [kind |-> "none"] /\ edits' = {} /\ jobs' = jobs
  BY DEF SaveSmoke
<1> QED BY <1>1, <1>2, <1>3, <1>4, SavedIsKept

\* An edit leaves what it does not name.
LEMMA EditStep ==
  ASSUME SavedInv, Editable, NEW kind, NEW edited, Edits(kind, edited), (KeptTexts /\ KeptMetrics /\ KeptMirror)',
         edited = [runId |-> shelf.runId, sidecar |-> edited.sidecar, record |-> shelf.record, mirror |-> edited.mirror],
         edited.sidecar = [runId |-> shelf.sidecar.runId, texts |-> edited.sidecar.texts, metrics |-> edited.sidecar.metrics]
  PROVE  SavedInv'
<1>1. trainer = NoTrainer /\ shelf # NoShelf
  BY DEF Editable
<1>2. shelf' = edited /\ edits' = edits \union {kind} /\ trainer' = trainer /\ writer' = writer /\ origin' = origin /\ jobs' = jobs
  BY DEF Edits
<1>3. IsJob(writer, jobs) /\ Kept /\ origin.kind \notin {"resumed", "warm"} /\ jobs \in 0..MaxJobs
  BY <1>1 DEF SavedInv
<1>4. IsJob(writer, jobs)'
  BY <1>2, <1>3 DEF IsJob
<1>5. shelf.runId = writer.runId /\ shelf.record = [params |-> writer.model, samples |-> writer.samples]
      /\ shelf.sidecar.runId = writer.runId
  BY <1>3 DEF Kept
<1>6. Kept'
  BY <1>2, <1>5 DEF Kept
<1>7. StateComesBack'
  <2>1. edits' # {}
    BY <1>2
  <2> QED BY <1>2, <1>3, <2>1 DEF StateComesBack, ResumedIsWhatWasSaved, UneditedIsAccepted, MovedByName
<1> QED BY <1>1, <1>2, <1>3, <1>4, <1>6, <1>7 DEF SavedInv

LEMMA ShelfIs ==
  ASSUME SavedInv, Editable
  PROVE  /\ IsJob(writer, jobs) /\ Kept
         /\ shelf = [runId |-> shelf.runId, sidecar |-> shelf.sidecar, record |-> shelf.record, mirror |-> shelf.mirror]
         /\ shelf.sidecar = [runId |-> shelf.sidecar.runId, texts |-> shelf.sidecar.texts, metrics |-> shelf.sidecar.metrics]
<1>1. IsJob(writer, jobs) /\ Kept
  BY DEF SavedInv, Editable
<1> QED BY <1>1 DEF Kept

LEMMA EditTextStep ==
  ASSUME SavedInv, NEW name \in EditedStreams, EditText(name)
  PROVE  SavedInv'
<1> DEFINE texts == shelf.sidecar.texts
           text == texts[name]
           with(t) == [shelf EXCEPT !.sidecar.texts[name] = t]
           becomes(t) == Edits("text", with(t))
<1>1. Editable /\ Len(text) >= 4
  BY DEF EditText
<1>2. \/ becomes(Front(text)) \/ becomes(SubSeq(text, 1, Len(text) - 4)) \/ becomes(text \o SubSeq(text, 1, 4))
      \/ \E k \in DOMAIN text, c \in EditedChars : becomes([text EXCEPT ![k] = c])
  BY DEF EditText
<1> HIDE DEF with, becomes, texts, text
<1>3. /\ IsJob(writer, jobs) /\ Kept
      /\ shelf = [runId |-> shelf.runId, sidecar |-> shelf.sidecar, record |-> shelf.record, mirror |-> shelf.mirror]
      /\ shelf.sidecar = [runId |-> shelf.sidecar.runId, texts |-> shelf.sidecar.texts, metrics |-> shelf.sidecar.metrics]
  BY <1>1, ShelfIs
<1>4. name \in StreamNames /\ texts = [n \in StreamNames |-> texts[n]] /\ \A n \in StreamNames : texts[n] \in Seq(0..255)
  <2>1. name \in StreamNames
    BY SavedStateAssumption
  <2>2. KeptTexts
    BY <1>3 DEF Kept
  <2> QED BY <2>1, <2>2 DEF KeptTexts, texts
<1>5. PICK t \in Seq(0..255) : Edits("text", with(t))
  <2>1. text \in Seq(0..255) /\ Len(text) >= 4 /\ Len(text) \in Nat
    <3>1. text \in Seq(0..255)
      BY <1>4 DEF text
    <3> QED BY <1>1, <3>1
  <2>2. Front(text) \in Seq(0..255) /\ SubSeq(text, 1, Len(text) - 4) \in Seq(0..255) /\ SubSeq(text, 1, 4) \in Seq(0..255)
    <3>1. \A p \in 1..Len(text) : text[p] \in 0..255
      <4>1. PICK len : len = Len(text)
        OBVIOUS
      <4>2. \A p \in 1..len : text[p] \in 0..255
        BY <2>1, <4>1, ElementsIn
      <4> QED BY <4>1, <4>2
    <3>2. ASSUME NEW last \in 0..Len(text) PROVE SubSeq(text, 1, last) \in Seq(0..255)
      <4>1. \A p \in 1..last : text[p] \in 0..255
        BY <2>1, <3>1
      <4>2. 1 \in Int /\ last \in Int
        BY <2>1
      <4> QED BY <4>1, <4>2, SubSeqProperties
    <3>3. Len(text) - 1 \in 0..Len(text) /\ Len(text) - 4 \in 0..Len(text) /\ 4 \in 0..Len(text)
      BY <2>1
    <3> QED BY <3>2, <3>3 DEF Front
  <2>3. text \o SubSeq(text, 1, 4) \in Seq(0..255)
    BY <2>1, <2>2, ConcatAt
  <2>4. \A k \in DOMAIN text : \A c \in EditedChars : [text EXCEPT ![k] = c] \in Seq(0..255)
    <3>1. EditedChars \subseteq 0..255
      BY SavedStateAssumption
    <3> QED BY <2>1, <3>1
  <2>5. \E t \in Seq(0..255) : becomes(t)
    BY <1>2, <2>2, <2>3, <2>4, Zenon
  <2> QED BY <2>5 DEF becomes
<1> DEFINE edited == with(t)
           changed == [texts EXCEPT ![name] = t]
<1>6. /\ edited = [runId |-> shelf.runId, sidecar |-> edited.sidecar, record |-> shelf.record, mirror |-> edited.mirror]
      /\ edited.sidecar = [runId |-> shelf.sidecar.runId, texts |-> changed, metrics |-> shelf.sidecar.metrics]
      /\ edited.mirror = shelf.mirror
  <2>1. edited = [shelf EXCEPT !.sidecar = [shelf.sidecar EXCEPT !.texts = changed]]
    BY DEF with, texts
  <2>2. [shelf.sidecar EXCEPT !.texts = changed] = [runId |-> shelf.sidecar.runId, texts |-> changed, metrics |-> shelf.sidecar.metrics]
    <3> HIDE DEF changed
    <3> QED BY <1>3
  <2> HIDE DEF edited, changed
  <2> QED BY <1>3, <2>1, <2>2
<1>7. changed = [n \in StreamNames |-> changed[n]] /\ \A n \in StreamNames : changed[n] \in Seq(0..255)
  <2>1. texts \in [StreamNames -> Seq(0..255)]
    BY <1>4
  <2>2. changed \in [StreamNames -> Seq(0..255)]
    <3> HIDE DEF edited
    <3> QED BY <1>5, <2>1
  <2> HIDE DEF changed
  <2> QED BY <2>2
<1> HIDE DEF edited, changed
<1>8. shelf' = edited /\ edits' = edits \union {"text"} /\ writer' = writer
  <2>1. Edits("text", edited)
    BY <1>5 DEF edited
  <2> QED BY <2>1 DEF Edits
<1>9. shelf'.sidecar.texts = changed /\ shelf'.sidecar.metrics = shelf.sidecar.metrics /\ shelf'.mirror = shelf.mirror
      /\ edited.sidecar.texts = changed /\ edited.sidecar.metrics = shelf.sidecar.metrics
  BY <1>6, <1>8
<1>10. KeptTexts'
  BY <1>7, <1>8, <1>9 DEF KeptTexts
<1>11. KeptMetrics' /\ KeptMirror'
  BY <1>3, <1>8, <1>9 DEF Kept, KeptMetrics, KeptMirror
<1>12. Edits("text", edited)
  BY <1>5 DEF edited
<1> QED BY <1>1, <1>6, <1>9, <1>10, <1>11, <1>12, EditStep

LEMMA EditMirrorStep ==
  ASSUME SavedInv, NEW name, NEW k, EditMirror(name, k)
  PROVE  SavedInv'
<1>1. Editable
  BY DEF EditMirror
<1>2. PICK mirror : Edits("mirror", [shelf EXCEPT !.mirror = mirror])
  <2>1. CASE Edits("mirror", [shelf EXCEPT !.mirror[name].bytes[k] = (@ + 1) % 256])
    <3> DEFINE byte == (shelf.mirror[name].bytes[k] + 1) % 256
               mirror == [shelf.mirror EXCEPT ![name].bytes[k] = byte]
    <3>1. [shelf EXCEPT !.mirror[name].bytes[k] = (@ + 1) % 256] = [shelf EXCEPT !.mirror = mirror]
      OBVIOUS
    <3> HIDE DEF mirror
    <3> QED BY <2>1, <3>1
  <2>2. CASE Edits("mirror", [shelf EXCEPT !.mirror[name].bytes = Front(@)])
    <3> DEFINE mirror == [shelf.mirror EXCEPT ![name].bytes = Front(@)]
    <3>1. [shelf EXCEPT !.mirror[name].bytes = Front(@)] = [shelf EXCEPT !.mirror = mirror]
      OBVIOUS
    <3> HIDE DEF mirror
    <3> QED BY <2>2, <3>1
  <2> QED BY <2>1, <2>2 DEF EditMirror
<1> DEFINE edited == [shelf EXCEPT !.mirror = mirror]
<1>3. /\ Kept /\ shelf = [runId |-> shelf.runId, sidecar |-> shelf.sidecar, record |-> shelf.record, mirror |-> shelf.mirror]
      /\ shelf.sidecar = [runId |-> shelf.sidecar.runId, texts |-> shelf.sidecar.texts, metrics |-> shelf.sidecar.metrics]
  BY <1>1, ShelfIs
<1>4. edited = [runId |-> shelf.runId, sidecar |-> shelf.sidecar, record |-> shelf.record, mirror |-> mirror]
  BY <1>3
<1>5. Edits("mirror", edited)
  BY <1>2
<1> HIDE DEF edited
<1>6. shelf' = edited /\ edits' = edits \union {"mirror"} /\ writer' = writer /\ edited.sidecar = shelf.sidecar
  BY <1>4, <1>5 DEF Edits
<1>7. KeptTexts' /\ KeptMetrics' /\ KeptMirror'
  BY <1>3, <1>6 DEF Kept, KeptTexts, KeptMetrics, KeptMirror
<1>8. edited = [runId |-> shelf.runId, sidecar |-> edited.sidecar, record |-> shelf.record, mirror |-> edited.mirror]
  BY <1>4
<1> QED BY <1>1, <1>3, <1>5, <1>6, <1>7, <1>8, EditStep

LEMMA EditMetricStep ==
  ASSUME SavedInv, EditMetric
  PROVE  SavedInv'
<1> DEFINE edited == [shelf EXCEPT !.sidecar.metrics.explosions = NotWhole]
           changed == [shelf.sidecar.metrics EXCEPT !.explosions = NotWhole]
<1>1. Editable /\ Edits("metric", edited)
  BY DEF EditMetric
<1>2. /\ Kept /\ shelf = [runId |-> shelf.runId, sidecar |-> shelf.sidecar, record |-> shelf.record, mirror |-> shelf.mirror]
      /\ shelf.sidecar = [runId |-> shelf.sidecar.runId, texts |-> shelf.sidecar.texts, metrics |-> shelf.sidecar.metrics]
  BY <1>1, ShelfIs
<1>3. changed = [samples |-> shelf.sidecar.metrics.samples, explosions |-> NotWhole]
  BY <1>2 DEF Kept, KeptMetrics
<1>4. /\ edited = [runId |-> shelf.runId, sidecar |-> edited.sidecar, record |-> shelf.record, mirror |-> edited.mirror]
      /\ edited.sidecar = [runId |-> shelf.sidecar.runId, texts |-> shelf.sidecar.texts, metrics |-> changed]
      /\ edited.mirror = shelf.mirror
  <2>1. edited = [shelf EXCEPT !.sidecar = [shelf.sidecar EXCEPT !.metrics = changed]]
    OBVIOUS
  <2>2. [shelf.sidecar EXCEPT !.metrics = changed] = [runId |-> shelf.sidecar.runId, texts |-> shelf.sidecar.texts, metrics |-> changed]
    <3> HIDE DEF changed
    <3> QED BY <1>2
  <2> HIDE DEF edited, changed
  <2> QED BY <1>2, <2>1, <2>2
<1> HIDE DEF edited, changed
<1>5. shelf' = edited /\ edits' = edits \union {"metric"} /\ writer' = writer
  BY <1>1 DEF Edits
<1>6. /\ shelf'.sidecar.texts = shelf.sidecar.texts /\ shelf'.sidecar.metrics = changed /\ shelf'.mirror = shelf.mirror
      /\ edited.sidecar.texts = shelf.sidecar.texts /\ edited.sidecar.metrics = changed
  BY <1>4, <1>5
<1>7. KeptTexts' /\ KeptMirror'
  BY <1>2, <1>5, <1>6 DEF Kept, KeptTexts, KeptMirror
<1>8. KeptMetrics'
  BY <1>3, <1>5, <1>6 DEF KeptMetrics
<1> QED BY <1>1, <1>4, <1>6, <1>7, <1>8, EditStep

LEMMA ReadBack ==
  ASSUME SavedInv, shelf # NoShelf, jobs < MaxJobs, NEW drift \in Drifts
  PROVE  LET weights == Read(shelf.record, drift) IN
         /\ jobs \in Nat /\ jobs + 1 \in Nat /\ jobs + 1 \in 0..MaxJobs
         /\ weights \in [1..ModelLen -> DriftsOf(jobs + 1)] /\ Len(weights) = ModelLen
         /\ IsJob(writer, jobs) /\ IsJob(writer, jobs + 1) /\ Kept
         /\ \A i \in 1..ModelLen : /\ weights[i] = writer.model[i] + drift[i] /\ drift[i] \in {-1, 0, 1}
                                   /\ writer.model[i] \in Int
         /\ "mirror" \notin edits =>
              Readable(shelf.mirror) /\ (SameMirror(weights, shelf.mirror) <=> F32s(weights) = F32s(writer.model))
<1> DEFINE weights == Read(shelf.record, drift)
<1>1. IsJob(writer, jobs) /\ Kept /\ jobs \in 0..MaxJobs
  BY DEF SavedInv
<1>2. jobs \in Nat /\ jobs + 1 \in Nat /\ jobs + 1 \in 0..MaxJobs /\ jobs + 1 <= MaxJobs
  BY <1>1, SavedStateAssumption
<1>3. IsJob(writer, jobs + 1)
  BY <1>1, <1>2, JobsAreJobs
<1>4. shelf.record.params = writer.model
  BY <1>1 DEF Kept
<1>5. drift \in [1..ModelLen -> {-1, 0, 1}]
  BY DEF Drifts
<1>6. writer.model \in [1..ModelLen -> DriftsOf(jobs)] /\ writer.model \in [1..ModelLen -> DriftsOf(jobs + 1)]
  BY <1>1, <1>3 DEF IsJob
<1>7. weights = [i \in 1..ModelLen |-> writer.model[i] + drift[i]]
  BY <1>4, <1>6 DEF Read
<1>8. ASSUME NEW i \in 1..ModelLen
      PROVE  writer.model[i] + drift[i] \in DriftsOf(jobs + 1) /\ drift[i] \in {-1, 0, 1} /\ writer.model[i] \in Int
  <2>1. writer.model[i] \in DriftsOf(jobs) /\ drift[i] \in {-1, 0, 1}
    BY <1>5, <1>6
  <2>2. DriftsOf(jobs) \subseteq Int /\ \A v \in DriftsOf(jobs) : \A d \in {-1, 0, 1} : v + d \in DriftsOf(jobs + 1)
    BY <1>2, DriftsGrow
  <2> QED BY <2>1, <2>2
<1> HIDE DEF weights
<1>9. weights \in [1..ModelLen -> DriftsOf(jobs + 1)]
  BY <1>7, <1>8
<1>10. PICK off : Begun(Specs, Len(Specs), off) /\ ModelLen = off[Len(Specs)] /\ ModelLen \in Nat
  BY ModelLenIs
<1>11. Len(weights) = ModelLen
  BY <1>9, <1>10, ListSeq
<1>12. ASSUME "mirror" \notin edits
       PROVE  Readable(shelf.mirror) /\ (SameMirror(weights, shelf.mirror) <=> F32s(weights) = F32s(writer.model))
  <2>1. shelf.mirror = SerializeParameters(Tensors(writer.model))
    BY <1>1, <1>12 DEF Kept, KeptMirror
  <2>2. Storable(DriftsOf(jobs + 1))
    BY <1>2, DriftsGrow
  <2> DEFINE X == DriftsOf(jobs + 1)
             stored == writer.model
  <2>3. weights \in [1..off[Len(Specs)] -> X] /\ stored \in [1..off[Len(Specs)] -> X] /\ Storable(X)
    BY <1>6, <1>9, <1>10, <2>2
  <2> HIDE DEF X, stored
  <2>4. Readable(SerializeParameters(Tensors(stored)))
        /\ (SameMirror(weights, SerializeParameters(Tensors(stored))) <=> F32s(weights) = F32s(stored))
    BY <1>10, <2>3, MirrorReads
  <2> QED BY <2>1, <2>4 DEF stored
<1>13. \A i \in 1..ModelLen : weights[i] = writer.model[i] + drift[i]
  BY <1>7
<1> QED BY <1>1, <1>2, <1>3, <1>8, <1>9, <1>11, <1>12, <1>13 DEF weights

\* A counter that a metric holds, or none.
LEMMA ExplosionsBack ==
  ASSUME IsJob(writer, jobs), KeptMetrics
  PROVE  LET back == MetricU64(shelf.sidecar.metrics.explosions) IN
         /\ back \in Nat /\ back \in {0, writer.explosions}
         /\ "metric" \notin edits /\ writer.explosions <= CounterMax => back = writer.explosions
<1>1. writer.explosions \in Nat /\ CounterMax \in Nat
  BY SavedStateAssumption DEF IsJob
<1>2. CASE shelf.sidecar.metrics.explosions = StepAsF64(writer.explosions)
  <2>1. CASE writer.explosions <= CounterMax
    BY <1>1, <1>2, <2>1 DEF StepAsF64, MetricU64, NotWhole
  <2>2. CASE ~(writer.explosions <= CounterMax)
    BY <1>1, <1>2, <2>2 DEF StepAsF64, MetricU64, NotWhole
  <2> QED BY <2>1, <2>2
<1>3. CASE "metric" \in edits /\ shelf.sidecar.metrics.explosions = NotWhole
  BY <1>1, <1>3 DEF MetricU64, NotWhole
<1> QED BY <1>2, <1>3 DEF KeptMetrics

LEMMA ResumeJobStep ==
  ASSUME SavedInv, NEW asked \in {"bounded", "so100"}, NEW drift \in Drifts, ResumeJob(asked, drift)
  PROVE  SavedInv'
<1> DEFINE weights == Read(shelf.record, drift)
           texts == shelf.sidecar.texts
           streams == RestoreStreams(texts)
           accepted == shelf.runId = asked /\ Loadable(weights, streams)
           explosions == MetricU64(shelf.sidecar.metrics.explosions)
           resumed == [runId |-> asked, step |-> writer.step, model |-> weights, streams |-> streams,
                       samples |-> shelf.record.samples, explosions |-> explosions]
           alike == F32s(weights) = F32s(writer.model)
<1>1. /\ trainer = NoTrainer /\ shelf # NoShelf /\ jobs < MaxJobs
      /\ trainer' = IF accepted THEN resumed ELSE NoTrainer
      /\ origin' = [kind |-> IF accepted THEN "resumed" ELSE "refused", drift |-> drift, runId |-> asked]
      /\ jobs' = jobs + 1 /\ shelf' = shelf /\ writer' = writer /\ edits' = edits
  BY DEF ResumeJob
<1>2. /\ jobs \in Nat /\ jobs + 1 \in Nat /\ jobs + 1 \in 0..MaxJobs
      /\ weights \in [1..ModelLen -> DriftsOf(jobs + 1)] /\ Len(weights) = ModelLen
      /\ IsJob(writer, jobs) /\ IsJob(writer, jobs + 1) /\ Kept
      /\ \A i \in 1..ModelLen : /\ weights[i] = writer.model[i] + drift[i] /\ drift[i] \in {-1, 0, 1}
                                /\ writer.model[i] \in Int
      /\ "mirror" \notin edits => Readable(shelf.mirror) /\ (SameMirror(weights, shelf.mirror) <=> alike)
  BY <1>1, ReadBack
<1>3. /\ texts = [name \in StreamNames |-> texts[name]] /\ \A name \in StreamNames : texts[name] \in Seq(0..255)
      /\ "text" \notin edits /\ writer.runId # "smoke" => texts = CheckpointRngState(writer.streams)
  BY <1>2 DEF Kept, KeptTexts
<1>4. shelf.runId = writer.runId /\ shelf.record.samples = writer.samples
  BY <1>2 DEF Kept
<1>5. streams = [name \in StreamNames |-> streams[name]] /\ \A name \in StreamNames : streams[name] = DecodeRng(texts[name])
  BY DEF RestoreStreams
<1>6. /\ explosions \in Nat /\ explosions \in {0, writer.explosions}
      /\ "metric" \notin edits /\ writer.explosions <= CounterMax => explosions = writer.explosions
  BY <1>2, ExplosionsBack DEF Kept
<1>7. ASSUME NEW name \in StreamNames
      PROVE  IsStream(writer.streams[name]) /\ DecodeRng(EncodeRng(writer.streams[name])) = writer.streams[name]
             /\ writer.streams[name] # RefusedStream
  <2>1. IsStream(writer.streams[name])
    BY <1>2 DEF IsJob
  <2> QED BY <2>1, RngRoundTrip
<1> HIDE DEF weights, streams, texts, explosions, alike
<1>8. (shelf = NoShelf \/ (IsJob(writer, jobs) /\ Kept))'
  <2>1. IsJob(writer', jobs')
    <3>1. writer' = writer /\ jobs' = jobs + 1
      BY <1>1
    <3> QED BY <1>2, <3>1, Zenon
  <2>2. Kept'
    BY <1>1, <1>2 DEF Kept, KeptTexts, KeptMetrics, KeptMirror
  <2> QED BY <2>1, <2>2 DEF IsJob
<1>9. CASE accepted
  <2> HIDE DEF resumed
  <2>1. trainer' = resumed /\ origin'.kind = "resumed"
    BY <1>1, <1>9
  <2>2. /\ resumed.runId = asked /\ resumed.step = writer.step /\ resumed.model = weights /\ resumed.streams = streams
        /\ resumed.samples = writer.samples /\ resumed.explosions = explosions
        /\ resumed = [runId |-> resumed.runId, step |-> resumed.step, model |-> resumed.model,
                      streams |-> resumed.streams, samples |-> resumed.samples, explosions |-> resumed.explosions]
    BY <1>4 DEF resumed
  <2>3. ASSUME NEW name \in StreamNames PROVE streams[name] # RefusedStream /\ IsStream(streams[name])
    <3>1. streams[name] # RefusedStream /\ streams[name] = DecodeRng(texts[name]) /\ texts[name] \in Seq(0..255)
      BY <1>3, <1>5, <1>9 DEF Loadable
    <3> QED BY <3>1, DecodedIsStream
  <2>4. IsJob(resumed, jobs + 1)
    <3>1. asked \in {"bounded", "so100", "smoke"} /\ writer.step \in Nat \ {0} /\ writer.samples \in Nat
      BY <1>2 DEF IsJob
    <3> QED BY <1>2, <1>5, <1>6, <2>2, <2>3, <3>1 DEF IsJob
  <2>5. IsJob(trainer', jobs')
    BY <1>1, <2>1, <2>4, Zenon
  <2>6. ASSUME NEW name \in StreamNames
        PROVE  LET text == texts[name] written == EncodeRng(writer.streams[name])
               IN  /\ text = written => streams[name] = writer.streams[name]
                   /\ streams[name] = writer.streams[name] /\ Canonical(text) => text = written
    <3>1. streams[name] = DecodeRng(texts[name]) /\ texts[name] \in Seq(0..255) /\ streams[name] # RefusedStream
      BY <1>3, <1>5, <2>3
    <3>2. ASSUME texts[name] = EncodeRng(writer.streams[name]) PROVE streams[name] = writer.streams[name]
      BY <1>7, <3>1, <3>2
    <3>3. ASSUME streams[name] = writer.streams[name], Canonical(texts[name]) PROVE texts[name] = EncodeRng(writer.streams[name])
      <4>1. texts[name] = EncodeRng(DecodeRng(texts[name]))
        BY <3>1, <3>3, CanonicalIsWritten
      <4> QED BY <3>1, <3>3, <4>1
    <3> QED BY <3>2, <3>3
  <2>7. \A i \in 1..ModelLen : weights[i] - writer.model[i] \in {-1, 0, 1}
    BY <1>2
  <2>8. "mirror" \notin edits => alike
    BY <1>2, <1>9 DEF Loadable
  <2>9. ResumedIsWhatWasSaved'
    <3>1. trainer'.runId = writer'.runId
      BY <1>1, <1>4, <1>9, <2>1, <2>2
    <3>2. \A name \in StreamNames :
            LET text == shelf'.sidecar.texts[name] written == EncodeRng(writer'.streams[name])
            IN  /\ text = written => trainer'.streams[name] = writer'.streams[name]
                /\ trainer'.streams[name] = writer'.streams[name] /\ Canonical(text) => text = written
      BY <1>1, <2>1, <2>2, <2>6 DEF texts
    <3>3. \A i \in 1..ModelLen : trainer'.model[i] - writer'.model[i] \in {-1, 0, 1}
      BY <1>1, <2>1, <2>2, <2>7
    <3>4. "mirror" \notin edits' => F32s(trainer'.model) = F32s(writer'.model)
      BY <1>1, <2>1, <2>2, <2>8 DEF alike
    <3>5. trainer'.samples = writer'.samples /\ trainer'.explosions \in {0, writer'.explosions}
          /\ ("metric" \notin edits' /\ writer'.explosions <= CounterMax => trainer'.explosions = writer'.explosions)
      BY <1>1, <1>6, <2>1, <2>2
    <3> QED BY <3>1, <3>2, <3>3, <3>4, <3>5 DEF ResumedIsWhatWasSaved
  <2>10. StateComesBack'
    BY <2>1, <2>9 DEF StateComesBack, UneditedIsAccepted, MovedByName
  <2>11. trainer' # NoTrainer
    BY <2>1, <2>4, <1>2, JobsAreJobs
  <2> QED BY <1>1, <1>2, <1>8, <2>5, <2>10, <2>11 DEF SavedInv
<1>10. CASE ~accepted
  <2>1. trainer' = NoTrainer /\ origin'.kind = "refused" /\ origin'.drift = drift /\ origin'.runId = asked
    BY <1>1, <1>10
  <2>2. ASSUME edits = {}, writer.runId = asked, \A i \in 1..ModelLen : F32(writer.model[i] + drift[i]) = F32(writer.model[i])
        PROVE  FALSE
    <3>1. ASSUME NEW name \in StreamNames PROVE streams[name] # RefusedStream
      <4>1. texts[name] = EncodeRng(writer.streams[name])
        BY <1>3, <2>2 DEF CheckpointRngState
      <4> QED BY <1>5, <1>7, <4>1
    <3>2. alike
      <4>1. F32Alike(ModelLen, weights, writer.model)
        BY <1>2, <2>2 DEF F32Alike
      <4>2. writer.model \in [1..ModelLen -> DriftsOf(jobs + 1)] /\ ModelLen \in Nat
        BY <1>2, ModelLenIs DEF IsJob
      <4>3. weights \in [1..ModelLen -> DriftsOf(jobs + 1)]
        BY <1>2
      <4>4. F32s(weights) = F32s(writer.model)
        <5> DEFINE X == DriftsOf(jobs + 1)
                   stored == writer.model
                   len == ModelLen
        <5>1. weights \in [1..len -> X] /\ stored \in [1..len -> X] /\ len \in Nat /\ F32Alike(len, weights, stored)
          BY <4>1, <4>2, <4>3
        <5> HIDE DEF X, stored, len, weights
        <5>2. F32s(weights) = F32s(stored)
          BY <5>1, AlikeIsEqual
        <5> USE DEF stored
        <5> QED BY <5>2
      <4> QED BY <4>4 DEF alike
    <3>3. Loadable(weights, streams)
      BY <1>2, <2>2, <3>1, <3>2 DEF Loadable
    <3> QED BY <1>4, <1>10, <2>2, <3>3
  <2>3. UneditedIsAccepted'
    BY <1>1, <2>1, <2>2 DEF UneditedIsAccepted
  <2>4. StateComesBack'
    BY <2>1, <2>3 DEF StateComesBack, ResumedIsWhatWasSaved, MovedByName
  <2> QED BY <1>1, <1>2, <1>8, <2>1, <2>4 DEF SavedInv
<1> QED BY <1>9, <1>10

\* Whatever a checkpoint or a warm start hands on arrives in its place, for every
\* length of the seeds and words, every list of parameters, every source of a warm
\* start and every edit of the files, along SavedInv: what the files hold of the
\* job that wrote them.  (restore_rng_streams, save_checkpoint, restore_*_start
\* and load_warmstart)
THEOREM StateAlwaysComesBack == SavedSpec => []StateComesBack
<1>1. SavedInit => SavedInv
  BY SavedInits
<1>2. SavedInv /\ [SavedNext]_savedVars => SavedInv'
  <2> SUFFICES ASSUME SavedInv, [SavedNext]_savedVars PROVE SavedInv'
    OBVIOUS
  <2>1. ASSUME NEW id \in {"bounded", "so100", "smoke"}, StartJob(id) PROVE SavedInv'
    BY <2>1, StartJobStep
  <2>2. ASSUME NEW from \in SourceModels, WarmStart(from) PROVE SavedInv'
    BY <2>2, WarmStartStep
  <2>3. ASSUME NEW i \in 1..ModelLen, NEW v \in ParamValues, NEW e \in BOOLEAN, StepOn(i, v, e) PROVE SavedInv'
    BY <2>3, StepOnStep
  <2>4. CASE SaveJob
    BY <2>4, SaveJobStep
  <2>5. CASE SaveSmoke
    BY <2>5, SaveSmokeStep
  <2>6. ASSUME NEW name \in EditedStreams, EditText(name) PROVE SavedInv'
    BY <2>6, EditTextStep
  <2>7. ASSUME NEW i \in DOMAIN Specs, EditMirror(Specs[i].name, 1) PROVE SavedInv'
    BY <2>7, EditMirrorStep
  <2>8. CASE EditMetric
    BY <2>8, EditMetricStep
  <2>9. ASSUME NEW id \in {"bounded", "so100"}, NEW drift \in Drifts, ResumeJob(id, drift) PROVE SavedInv'
    BY <2>9, ResumeJobStep
  <2>10. CASE UNCHANGED savedVars
    BY <2>10 DEF savedVars, SavedInv, IsJob, Kept, KeptTexts, KeptMetrics, KeptMirror, StateComesBack,
                 ResumedIsWhatWasSaved, UneditedIsAccepted, MovedByName
  <2> QED BY <2>1, <2>2, <2>3, <2>4, <2>5, <2>6, <2>7, <2>8, <2>9, <2>10, Zenon DEF SavedNext
<1>3. SavedInv => StateComesBack
  BY DEF SavedInv
<1> QED BY <1>1, <1>2, <1>3, PTL DEF SavedSpec
=============================================================================
