---------------------------- MODULE OperationsMC ----------------------------
(***************************************************************************)
(* Model-checking instance of the records a run leaves for its operators:  *)
(* the metrics, the collapse alarms and the cost ledger.  They share no    *)
(* state, so that a behaviour is one of one of them: part says which, and  *)
(* the others rest in their initial states.                                *)
(***************************************************************************)
EXTENDS Telemetry, CollapseDetector, CostLedger

VARIABLE part

\* One of the rows is null, two are opposite, one is large.
McRows == {<<0, 0>>, <<1, 0>>, <<0, 1>>, <<-1, 0>>, <<12, 0>>}
McPercent == [mean_abs |-> 500, variance |-> 5, cosine |-> 85]
McJobs == <<"a", "b">>
McWall == [a |-> 59, b |-> 61]   \* 9 and 17 cents; the first rounds up to a minute

partVars == <<part, vars, detectorVars, ledgerVars>>

PartsInit ==
  /\ part \in {"telemetry", "detector", "ledger"}
  /\ Init /\ (part # "telemetry" => order = <<"trackio", "tensorboard">>)
  /\ DetectorInit /\ LedgerInit

PartsNext ==
  /\ UNCHANGED part
  /\ \/ part = "telemetry" /\ Next /\ UNCHANGED <<detectorVars, ledgerVars>>
     \/ part = "detector" /\ DetectorNext /\ UNCHANGED <<vars, ledgerVars>>
     \/ part = "ledger" /\ LedgerNext /\ UNCHANGED <<vars, detectorVars>>

PartsSpec ==
  /\ PartsInit /\ [][PartsNext]_partVars
  /\ WF_partVars(part = "ledger" /\ Rewrite /\ UNCHANGED <<part, vars, detectorVars>>)
  /\ \A j \in Jobs : SF_partVars(part = "ledger" /\ Import(j) /\ UNCHANGED <<part, vars, detectorVars>>)
=============================================================================
