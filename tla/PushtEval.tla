------------------------------ MODULE PushtEval ------------------------------
(***************************************************************************)
(* The PushT evaluation (lewm-plan/src/pusht_eval.rs): PushtEvaluator::run *)
(* drives a simulator process, python/pusht_runner.py, by JSON lines over  *)
(* two pipes through SubprocessPushtRpc.                                   *)
(*                                                                         *)
(* The libraries of the simulator may print to the same pipe, the          *)
(* simulator may fail a request, send a frame that does not decode, or     *)
(* die; run may be called again on the same evaluator.                     *)
(***************************************************************************)
EXTENDS Integers, Sequences

CONSTANTS
  Episodes,   \* length of episode_ids, whose members are distinct
  MaxSteps,   \* max_steps_per_episode
  MaxRuns,    \* bound on the calls of run
  MaxNoise    \* bound on the lines the simulator's libraries print

ASSUME EvalAssumption ==
  /\ Episodes \in Nat \ {0} /\ MaxSteps \in Nat \ {0}
  /\ MaxRuns \in Nat /\ MaxNoise \in Nat

Episode == 1..Episodes
Methods == {"reset", "step", "close"}

VARIABLES
  \* PushtEvaluator
  phase,         \* what run does next; "wait" inside request
  at,            \* the episode run_episode is on
  steps,         \* steps_taken
  outcomes,      \* per_episode
  trajectories,
  result,        \* how the last run ended
  runs,
  \* SubprocessPushtRpc
  nextId,
  pending,       \* the request waited for
  \* the pipes
  stdin, stdout,
  \* pusht_runner.py
  alive,
  sim,           \* the backend's episode and step_count
  noise          \* lines printed so far

evaluator == <<phase, at, steps, outcomes, trajectories, result, runs>>
client == <<nextId, pending>>
sidecar == <<alive, sim, noise>>
vars == <<evaluator, client, stdin, stdout, sidecar>>

Request == [id : Nat, method : Methods, episode : Episode]

\* What the simulator shows: the episode and the step it is at, and its flags.
Observation == [episode : 0..Episodes, step : Nat, success : BOOLEAN, done : BOOLEAN]

\* Lines of the sidecar's stdout: an answer, a refusal, or what something else
\* printed: "noise" is not JSON, "value" is a JSON value without id and ok.
Line == [id : Nat, kind : {"answer", "refusal", "noise", "value"}, obs : Observation]

TypeOK ==
  /\ phase \in {"idle", "reset", "plan", "close", "wait", "dropped"}
  /\ at \in Episode
  /\ steps \in 0..MaxSteps
  /\ outcomes \in Seq([episode : Episode, steps : 0..MaxSteps, success : BOOLEAN])
  /\ trajectories \in Seq([episode : Episode, index : 0..(MaxSteps - 1), obs : Observation])
  /\ result \in {"none", "ok", "error"}
  /\ runs \in 0..MaxRuns
  /\ nextId \in Nat \ {0}
  /\ pending \in Request
  /\ stdin \in Seq(Request)
  /\ stdout \in Seq(Line)
  /\ alive \in BOOLEAN
  /\ sim \in [episode : 0..Episodes, step : Nat]
  /\ noise \in 0..MaxNoise

Shows(success, done) ==
  [episode |-> sim.episode, step |-> sim.step, success |-> success, done |-> done]

Nothing == [episode |-> 0, step |-> 0, success |-> FALSE, done |-> FALSE]
Printed(kind) == [id |-> 0, kind |-> kind, obs |-> Nothing]

\* The sidecar has been spawned; importing the simulator may have printed.
Init ==
  /\ phase = "idle" /\ at = 1 /\ steps = 0
  /\ outcomes = << >> /\ trajectories = << >>
  /\ result = "none" /\ runs = 0
  /\ nextId = 1
  /\ pending = [id |-> 0, method |-> "close", episode |-> 1]
  /\ stdin = << >>
  /\ alive = TRUE
  /\ sim = [episode |-> 0, step |-> 0]
  /\ \/ noise = 0 /\ stdout = << >>
     \/ /\ MaxNoise > 0 /\ noise = 1
        /\ \E kind \in {"noise", "value"} : stdout = <<Printed(kind)>>

-----------------------------------------------------------------------------
(* Deviations the properties must catch; no specification uses them.       *)

\* The id of the answer is not compared.
AnswersWhateverId(line) == line.kind \in {"value", "answer"}

\* An episode that the simulator ended is stepped on.
OverUnlessDone(obs) == obs.success \/ steps + 1 = MaxSteps

\* The sidecar swallows what a request raised instead of answering it.
RefuseSilently(request) == UNCHANGED stdout

-----------------------------------------------------------------------------
(* PushtEvaluator. *)

\* run starts from nothing: what an earlier run collected was its own.
Run ==
  /\ phase = "idle" /\ runs < MaxRuns
  /\ runs' = runs + 1
  /\ phase' = "reset" /\ at' = 1 /\ steps' = 0
  /\ outcomes' = << >> /\ trajectories' = << >>
  /\ result' = "none"
  /\ UNCHANGED <<client, stdin, stdout, sidecar>>

\* An error leaves run through `?`.
Fail ==
  /\ phase' = "idle"
  /\ result' = "error"
  /\ UNCHANGED <<at, steps, outcomes, trajectories, runs>>

\* An episode is over.
EndEpisode(taken, success) ==
  /\ outcomes' = Append(outcomes, [episode |-> at, steps |-> taken, success |-> success])
  /\ IF at < Episodes
     THEN at' = at + 1 /\ steps' = 0 /\ phase' = "reset"
     ELSE phase' = "close" /\ UNCHANGED <<at, steps>>
  /\ UNCHANGED <<result, runs>>

\* The observation of reset: nothing to plan when it is a success already.
Started(obs) ==
  /\ IF obs.success
     THEN EndEpisode(0, TRUE)
     ELSE phase' = "plan" /\ steps' = 0 /\ UNCHANGED <<at, outcomes, result, runs>>
  /\ UNCHANGED trajectories

\* Whether a step is the last of its episode.
Over(obs) == obs.success \/ obs.done \/ steps + 1 = MaxSteps

Stepped(obs) ==
  /\ trajectories' = Append(trajectories, [episode |-> at, index |-> steps, obs |-> obs])
  /\ IF Over(obs)
     THEN EndEpisode(steps + 1, obs.success)
     ELSE phase' = "plan" /\ steps' = steps + 1 /\ UNCHANGED <<at, outcomes, result, runs>>

\* rpc.close succeeded: the report is returned.
Closed ==
  /\ phase' = "idle"
  /\ result' = "ok"
  /\ UNCHANGED <<at, steps, outcomes, trajectories, runs>>

\* The planner fails, or its action or cost is rejected.
PlanFails ==
  /\ phase = "plan"
  /\ Fail
  /\ UNCHANGED <<client, stdin, stdout, sidecar>>

\* lewm-eval returns and drops the evaluator, which kills the sidecar.
DropEvaluator ==
  /\ phase = "idle"
  /\ phase' = "dropped"
  /\ alive' = FALSE
  /\ UNCHANGED <<at, steps, outcomes, trajectories, result, runs, client, stdin, stdout, sim, noise>>

-----------------------------------------------------------------------------
(* SubprocessPushtRpc. *)

MethodOf == [reset |-> "reset", plan |-> "step", close |-> "close"]

\* The id is used up even when the pipe is broken.
Send ==
  /\ phase \in {"reset", "plan", "close"}
  /\ LET request == [id |-> nextId, method |-> MethodOf[phase], episode |-> at]
     IN  IF alive
         THEN /\ stdin' = Append(stdin, request)
              /\ pending' = request
              /\ phase' = "wait"
              /\ UNCHANGED <<at, steps, outcomes, trajectories, result, runs>>
         ELSE Fail /\ UNCHANGED <<pending, stdin>>
  /\ nextId' = nextId + 1
  /\ UNCHANGED <<stdout, sidecar>>

\* A line is the answer when it does not carry another id; it may lack one.
Answers(line) == line.kind = "value" \/ (line.kind = "answer" /\ line.id = pending.id)

\* read_line returns a line.  An observation may not decode into a frame, and
\* close takes any value for its answer.
Receive ==
  /\ phase = "wait" /\ stdout # << >>
  /\ LET line == Head(stdout)
     IN  \/ Answers(line) /\ pending.method = "close" /\ Closed
         \/ Answers(line) /\ line.kind = "answer" /\ pending.method = "reset" /\ Started(line.obs)
         \/ Answers(line) /\ line.kind = "answer" /\ pending.method = "step" /\ Stepped(line.obs)
         \/ ~(Answers(line) /\ pending.method = "close") /\ Fail
  /\ stdout' = Tail(stdout)
  /\ UNCHANGED <<client, stdin, sidecar>>

\* read_line returns nothing: the sidecar is gone.
ReceiveNothing ==
  /\ phase = "wait" /\ stdout = << >> /\ ~alive
  /\ Fail
  /\ UNCHANGED <<client, stdin, stdout, sidecar>>

-----------------------------------------------------------------------------
(* pusht_runner.py *)

Answer(request, obs) ==
  stdout' = Append(stdout, [id |-> request.id, kind |-> "answer", obs |-> obs])

Refuse(request) ==
  stdout' = Append(stdout, [id |-> request.id, kind |-> "refusal", obs |-> Nothing])

\* What the backend does with a request; it may raise before or after.
Effect(request) ==
  IF request.method = "reset" THEN [episode |-> request.episode, step |-> 0]
  ELSE IF request.method = "step" THEN [sim EXCEPT !.step = @ + 1]
  ELSE sim

Serve ==
  /\ alive /\ stdin # << >>
  /\ LET request == Head(stdin)
     IN  \/ /\ sim' = Effect(request)
            /\ \E success, done \in BOOLEAN :
                 /\ done => request.method = "step"
                 /\ Answer(request, Shows(success, done)')
            /\ alive' = (request.method # "close")
         \/ /\ request.method # "close"
            /\ sim' \in {sim, Effect(request)}
            /\ Refuse(request)
            /\ UNCHANGED alive
  /\ stdin' = Tail(stdin)
  /\ UNCHANGED <<evaluator, client, noise>>

\* A library prints a line while the simulator works on a request.
Chatter ==
  /\ alive /\ stdin # << >> /\ noise < MaxNoise
  /\ noise' = noise + 1
  /\ \E kind \in {"noise", "value"} : stdout' = Append(stdout, Printed(kind))
  /\ UNCHANGED <<evaluator, client, stdin, alive, sim>>

\* The process dies, perhaps within a line.
Die ==
  /\ alive
  /\ alive' = FALSE
  /\ stdout' \in {stdout, Append(stdout, Printed("noise"))}
  /\ UNCHANGED <<evaluator, client, stdin, sim, noise>>

-----------------------------------------------------------------------------

Evaluator == PlanFails \/ Send \/ Receive \/ ReceiveNothing

Finished == phase = "dropped" /\ UNCHANGED vars

Next == Run \/ DropEvaluator \/ Evaluator \/ Serve \/ Chatter \/ Die \/ Finished

Spec == Init /\ [][Next]_vars

\* The evaluator's thread runs.
EvaluatorSpec == Spec /\ WF_vars(Evaluator)

\* So does the simulator: every request it reads is answered.
LiveSpec == EvaluatorSpec /\ WF_vars(Serve)

-----------------------------------------------------------------------------
(* Properties. *)

\* Each recorded step is what the simulator did for that step of that episode,
\* whatever was printed, refused or left in the pipe by an earlier run.
StepsAreSimulated ==
  \A i \in 1..Len(trajectories) :
    /\ trajectories[i].obs.episode = trajectories[i].episode
    /\ trajectories[i].obs.step = trajectories[i].index + 1

\* Rows of trajectories that belong to an episode.
RowsOf(e) == {i \in 1..Len(trajectories) : trajectories[i].episode = e}

\* A report has one outcome per episode in order, and its rows agree with it: as
\* many as steps were taken, only the last one final, success the last one's.
ReportIsWhole ==
  result = "ok" =>
    /\ Len(outcomes) = Episodes
    /\ \A e \in Episode :
         LET rows == RowsOf(e)
             last == {i \in rows : trajectories[i].index = outcomes[e].steps - 1}
         IN  /\ outcomes[e].episode = e
             /\ {trajectories[i].index : i \in rows} = 0..(outcomes[e].steps - 1)
             /\ \A i, j \in rows : i < j => trajectories[i].index < trajectories[j].index
             /\ \A i \in last : trajectories[i].obs.success = outcomes[e].success
             /\ \A i \in rows \ last : ~trajectories[i].obs.success /\ ~trajectories[i].obs.done
             /\ outcomes[e].steps < MaxSteps =>
                  outcomes[e].success \/ \E i \in last : trajectories[i].obs.done

\* run returns: every request is answered, refused, or the pipe ends.
RunReturns == phase \in {"reset", "plan", "close", "wait"} ~> phase \in {"idle", "dropped"}
=============================================================================
