---------------------------- MODULE EvaluationMC ----------------------------
(***************************************************************************)
(* Model-checking instance of what is done with a trained model, and of    *)
(* the write its files go through: planning and the evaluation of          *)
(* rollouts, export and inference, the conversion of the reference, and    *)
(* write_atomic_bytes.  They share no state, so that a behaviour is one of *)
(* one of them: subject says which, and the others rest in one of their    *)
(* initial states.                                                         *)
(***************************************************************************)
EXTENDS Planning, Inference, ConvertedModel, AtomicFile

VARIABLE subject

McPredict(window, a) == IF window[1] > 50 THEN NotFiniteLatent ELSE 3 * window[1] - Last(window) + 2 * a
McConfig(iters, cand, elite, init, min, chunk, batch) ==
  [n_iter |-> iters, n_cand |-> cand, n_elite |-> elite, horizon |-> 2, sigma_init |-> init,
   sigma_min |-> min, chunk_size |-> chunk, max_batch |-> batch]
McConfigs == {McConfig(2, 3, 2, 2, 1, 2, 5), McConfig(1, 3, 3, 1, 2, 1, 100), McConfig(1, 2, 3, 1, 1, 1, 1), McConfig(1, 3, 1, 1, 1, 5, 1)}
McRequests == {[history |-> <<1, 2>>, goal |-> 3], [history |-> <<0, 5>>, goal |-> -2],
               [history |-> <<60>>, goal |-> 0], [history |-> <<20>>, goal |-> 0]}
Episode(id, targets, actions, predictions) ==
  [id |-> id, targets |-> targets, actions |-> actions, predictions |-> predictions]
Good == Episode(1, <<0, 1, 3, 7>>, <<1, 1, 1>>, <<1, 3, 7>>)
Off == Episode(2, <<0, 1, 3, 4, 9>>, <<1, 1, 1, 1>>, <<5, 1, 7, 2>>)
Short == Episode(3, <<0, 1, 3>>, <<1, 1>>, <<1, 3>>)
Flat == Episode(4, <<2, 2, 2, 2, 2>>, <<1, 1, 1, 1>>, <<2, 2, 2, 2>>)
Long == [Off EXCEPT !.predictions = <<5, 1, 7, 2, 8, 6, 0, 4>>]
Tied == [Off EXCEPT !.targets = <<0, 1, 2, 3, 5>>]
McInputs == {<< >>, <<Good>>, <<Good, Off>>, <<Off, [Good EXCEPT !.id = 2]>>, <<Good, Short>>, <<Flat>>,
             <<Off, [Off EXCEPT !.id = 5, !.predictions = <<1, 3>>]>>, <<[Off EXCEPT !.actions = << >>]>>,
             <<[Off EXCEPT !.predictions = <<1, 3, 4, 9>>], Good>>, <<Good, Long>>, <<Tied>>}
McActions == {-1, 2}
McFloors == {-1, 30, 60, 100}

-----------------------------------------------------------------------------
evaluationVars == <<subject, planningVars, inferenceVars, conversionVars, vars>>

EvaluationInit ==
  /\ subject \in {"plan", "rollouts", "files", "burn", "compare", "serve", "convert", "write"}
  /\ PlanningInit /\ InferenceInit /\ ConversionInit /\ Init
  /\ subject # "burn" => checkpoint = [weights |-> FALSE, reference |-> FALSE, steps |-> {}]
  /\ subject # "files" => \A f \in DOMAIN files : files[f] = Missing
  /\ subject # "convert" => weightsFile = "locked"

EvaluationNext ==
  /\ UNCHANGED subject
  /\ \/ /\ (subject = "plan" /\ PlanNext) \/ (subject = "rollouts" /\ EvalNext)
        /\ UNCHANGED <<inferenceVars, conversionVars, vars>>
     \/ /\ \/ subject = "files" /\ FilesNext
           \/ subject = "burn" /\ LoadBurn
           \/ subject = "compare" /\ CompareNext
           \/ subject = "serve" /\ ServeNext
        /\ UNCHANGED <<planningVars, conversionVars, vars>>
     \/ subject = "convert" /\ ConversionNext /\ UNCHANGED <<planningVars, inferenceVars, vars>>
     \/ subject = "write" /\ Next /\ UNCHANGED <<planningVars, inferenceVars, conversionVars>>

EvaluationSpec == EvaluationInit /\ [][EvaluationNext]_evaluationVars /\ ServeFairness
=============================================================================
