--------------------------- MODULE PushtEvalProof ---------------------------
(***************************************************************************)
(* Proofs about PushtEval: for any number of episodes, steps, runs and     *)
(* printed lines, each recorded step is the simulator's own.               *)
(***************************************************************************)
EXTENDS PushtEval, TLAPS

-----------------------------------------------------------------------------
(* The inductive invariant. *)

\* No request and no line carries an id that has not been used up.
IdsUsed ==
  /\ \A k \in 1..Len(stdin) : stdin[k].id < nextId
  /\ \A i \in 1..Len(stdout) : stdout[i].id < nextId

IsAnswer(i) == stdout[i].kind = "answer" /\ stdout[i].id = pending.id

\* The request waited for is still in the pipe, behind those of earlier runs;
\* a step has nothing before it, and finds the simulator where the run left it.
Queued ==
  /\ Len(stdin) > 0 /\ stdin[Len(stdin)] = pending
  /\ \A k \in 1..(Len(stdin) - 1) : stdin[k].id # pending.id
  /\ \A i \in 1..Len(stdout) : ~IsAnswer(i)
  /\ pending.method = "step" =>
       Len(stdin) = 1 /\ sim.episode = at /\ sim.step = steps

\* Where the simulator is after the request waited for.
Target == IF pending.method = "step" THEN steps + 1 ELSE 0

\* It has been read: the pipe is empty, and an answer shows the simulator.
Served ==
  /\ stdin = << >>
  /\ pending.method # "close" =>
       \A i \in 1..Len(stdout) : IsAnswer(i) =>
         /\ sim.episode = at /\ sim.step = Target
         /\ stdout[i].obs.episode = at /\ stdout[i].obs.step = Target

InStep ==
  /\ phase = "plan" =>
       stdin = << >> /\ sim.episode = at /\ sim.step = steps /\ steps < MaxSteps
  /\ phase = "wait" =>
       /\ pending.id = nextId - 1 /\ pending.id > 0 /\ pending.episode = at
       /\ pending.method = "step" => steps < MaxSteps
       /\ Queued \/ Served

IInv == TypeOK /\ IdsUsed /\ InStep /\ StepsAreSimulated

-----------------------------------------------------------------------------

LEMMA Numbers ==
  /\ Episodes \in Nat /\ Episodes >= 1 /\ MaxSteps \in Nat /\ MaxSteps >= 1
  /\ MaxRuns \in Nat /\ MaxNoise \in Nat
BY EvalAssumption

\* What a pipe holds after a line is written and after one is read.
LEMMA Appended ==
  ASSUME NEW S, NEW q \in Seq(S), NEW x \in S
  PROVE  /\ Append(q, x) \in Seq(S) /\ Len(Append(q, x)) = Len(q) + 1 /\ Len(q) \in Nat
         /\ \A i \in 1..(Len(q) + 1) : Append(q, x)[i] = IF i <= Len(q) THEN q[i] ELSE x
OBVIOUS

LEMMA Taken ==
  ASSUME NEW S, NEW q \in Seq(S), q # << >>
  PROVE  /\ Tail(q) \in Seq(S) /\ Len(Tail(q)) = Len(q) - 1 /\ Len(q) \in Nat /\ Len(q) >= 1
         /\ Head(q) = q[1] /\ Head(q) \in S
         /\ \A i \in 1..(Len(q) - 1) : Tail(q)[i] = q[i + 1]
OBVIOUS

LEMMA Members ==
  ASSUME NEW S, NEW q \in Seq(S)
  PROVE  Len(q) \in Nat /\ \A i \in 1..Len(q) : q[i] \in S
OBVIOUS

LEMMA PrintedIsALine ==
  ASSUME NEW kind \in {"noise", "value"}
  PROVE  /\ Printed(kind) \in Line /\ Printed(kind).id = 0 /\ Printed(kind).kind # "answer"
BY Numbers DEF Printed, Line, Observation, Nothing

\* Requests and lines have ids, used up ones.
LEMMA Ids ==
  ASSUME TypeOK, IdsUsed
  PROVE  /\ nextId \in Nat /\ Len(stdin) \in Nat /\ Len(stdout) \in Nat
         /\ \A k \in 1..Len(stdin) : stdin[k] \in Request /\ stdin[k].id \in Nat /\ stdin[k].id < nextId
         /\ \A i \in 1..Len(stdout) : stdout[i] \in Line /\ stdout[i].id \in Nat /\ stdout[i].id < nextId
<1>1. /\ stdin \in Seq(Request) /\ stdout \in Seq(Line) /\ nextId \in Nat
  BY DEF TypeOK
<1>2. /\ Len(stdin) \in Nat /\ \A k \in 1..Len(stdin) : stdin[k] \in Request
      /\ Len(stdout) \in Nat /\ \A i \in 1..Len(stdout) : stdout[i] \in Line
  BY <1>1, Members
<1>3. (\A r \in Request : r.id \in Nat) /\ (\A l \in Line : l.id \in Nat)
  BY DEF Request, Line
<1> QED BY <1>1, <1>2, <1>3 DEF IdsUsed

LEMMA InitIInv == Init => IInv
<1> SUFFICES ASSUME Init PROVE IInv
  OBVIOUS
<1>1. /\ phase = "idle" /\ at = 1 /\ steps = 0 /\ outcomes = << >> /\ trajectories = << >>
      /\ stdin = << >> /\ nextId = 1
  BY DEF Init
<1>2. /\ stdout \in Seq(Line) /\ noise \in 0..MaxNoise
      /\ \A i \in 1..Len(stdout) : stdout[i].id = 0
  <2>1. CASE noise = 0 /\ stdout = << >>
    BY <2>1, Numbers
  <2>2. ASSUME NEW kind \in {"noise", "value"}, MaxNoise > 0, noise = 1, stdout = <<Printed(kind)>>
        PROVE  /\ stdout \in Seq(Line) /\ noise \in 0..MaxNoise
               /\ \A i \in 1..Len(stdout) : stdout[i].id = 0
    BY <2>2, PrintedIsALine, Numbers
  <2> QED BY <2>1, <2>2 DEF Init
<1>3. pending \in Request /\ sim \in [episode : 0..Episodes, step : Nat]
  BY Numbers DEF Init, Request, Methods, Episode
<1>4. TypeOK
  BY <1>1, <1>2, <1>3, Numbers DEF Init, TypeOK, Episode
<1>5. IdsUsed /\ InStep /\ StepsAreSimulated
  BY <1>1, <1>2 DEF IdsUsed, InStep, StepsAreSimulated
<1> QED BY <1>4, <1>5 DEF IInv

\* A step that leaves both pipes, the client and the rows alone and ends outside
\* "plan" and "wait" keeps the invariant.
LEMMA FailKeeps ==
  ASSUME IInv, Fail,
         UNCHANGED <<client, sidecar>>, stdin' \in Seq(Request), stdout' \in Seq(Line),
         IdsUsed'
  PROVE  IInv'
<1>1. TypeOK'
  BY DEF IInv, TypeOK, Fail, client, sidecar
<1>2. InStep' /\ StepsAreSimulated'
  BY DEF IInv, InStep, StepsAreSimulated, Fail
<1> QED BY <1>1, <1>2 DEF IInv

LEMMA RunKeeps == ASSUME IInv, Run PROVE IInv'
<1>1. TypeOK'
  BY Numbers DEF IInv, TypeOK, Run, client, sidecar, Episode
<1>2. IdsUsed' /\ InStep' /\ StepsAreSimulated'
  BY DEF IInv, IdsUsed, InStep, StepsAreSimulated, Run, client
<1> QED BY <1>1, <1>2 DEF IInv

LEMMA DropKeeps == ASSUME IInv, DropEvaluator PROVE IInv'
<1>1. TypeOK'
  BY DEF IInv, TypeOK, DropEvaluator, client
<1>2. IdsUsed' /\ InStep' /\ StepsAreSimulated'
  BY DEF IInv, IdsUsed, InStep, StepsAreSimulated, DropEvaluator, client
<1> QED BY <1>1, <1>2 DEF IInv

LEMMA PlanFailsKeeps == ASSUME IInv, PlanFails PROVE IInv'
<1>1. stdin' \in Seq(Request) /\ stdout' \in Seq(Line) /\ IdsUsed'
  BY DEF PlanFails, IInv, TypeOK, IdsUsed, client
<1> QED BY <1>1, FailKeeps DEF PlanFails

LEMMA SendKeeps == ASSUME IInv, Send PROVE IInv'
<1> DEFINE request == [id |-> nextId, method |-> MethodOf[phase], episode |-> at]
<1>0. /\ nextId \in Nat /\ nextId' = nextId + 1 /\ stdin \in Seq(Request)
      /\ UNCHANGED <<stdout, sidecar>>
  BY DEF Send, IInv, TypeOK
<1>1. /\ request \in Request /\ request.id = nextId
      /\ request.method = "step" <=> phase = "plan"
  BY DEF Send, MethodOf, Request, Methods, IInv, TypeOK
<1>2. CASE ~alive
  <2>1. Fail /\ UNCHANGED <<pending, stdin>>
    BY <1>2 DEF Send
  <2>2. TypeOK'
    BY <1>0, <2>1 DEF IInv, TypeOK, Fail, sidecar
  <2>3. IdsUsed'
    BY <1>0, <2>1, Ids DEF IInv, IdsUsed
  <2>4. InStep' /\ StepsAreSimulated'
    BY <2>1 DEF IInv, InStep, StepsAreSimulated, Fail
  <2> QED BY <2>2, <2>3, <2>4 DEF IInv
<1>3. CASE alive
  <2>1. /\ stdin' = Append(stdin, request) /\ pending' = request /\ phase' = "wait"
        /\ UNCHANGED <<at, steps, outcomes, trajectories, result, runs>>
    BY <1>3 DEF Send
  <2>2. /\ stdin' \in Seq(Request) /\ Len(stdin') = Len(stdin) + 1 /\ Len(stdin) \in Nat
        /\ \A k \in 1..(Len(stdin) + 1) : stdin'[k] = IF k <= Len(stdin) THEN stdin[k] ELSE request
    BY <1>0, <1>1, <2>1, Appended
  <2>3. TypeOK'
    BY <1>0, <1>1, <2>1, <2>2 DEF IInv, TypeOK, sidecar
  <2>4. \A k \in 1..Len(stdin) : stdin[k].id < nextId /\ stdin[k].id \in Nat
    BY Ids DEF IInv
  <2>5. \A i \in 1..Len(stdout) : stdout[i].id < nextId /\ stdout[i].id \in Nat
    BY Ids DEF IInv
  <2>6. IdsUsed'
    <3>1. ASSUME NEW k \in 1..Len(stdin') PROVE stdin'[k].id < nextId'
      BY <1>0, <1>1, <2>2, <2>4
    <3>2. ASSUME NEW i \in 1..Len(stdout') PROVE stdout'[i].id < nextId'
      BY <1>0, <2>5
    <3> QED BY <3>1, <3>2 DEF IdsUsed
  <2>7. Queued'
    <3>1. Len(stdin') > 0 /\ stdin'[Len(stdin')] = pending'
      BY <2>1, <2>2
    <3>2. \A k \in 1..(Len(stdin') - 1) : stdin'[k].id # pending'.id
      BY <1>0, <1>1, <2>1, <2>2, <2>4
    <3>3. \A i \in 1..Len(stdout') : ~IsAnswer(i)'
      BY <1>0, <1>1, <2>1, <2>5 DEF IsAnswer
    <3>4. pending'.method = "step" => Len(stdin') = 1 /\ sim'.episode = at' /\ sim'.step = steps'
      BY <1>0, <1>1, <2>1, <2>2 DEF IInv, InStep, sidecar
    <3> QED BY <3>1, <3>2, <3>3, <3>4 DEF Queued
  <2>8. pending'.id = nextId' - 1 /\ pending'.id > 0 /\ pending'.episode = at'
    BY <1>0, <1>1, <2>1 DEF IInv, TypeOK
  <2>9. pending'.method = "step" => steps' < MaxSteps
    BY <1>1, <2>1 DEF IInv, InStep
  <2>10. InStep'
    BY <2>1, <2>7, <2>8, <2>9 DEF InStep
  <2>11. StepsAreSimulated'
    BY <2>1 DEF IInv, StepsAreSimulated
  <2> QED BY <2>3, <2>6, <2>10, <2>11 DEF IInv
<1> QED BY <1>2, <1>3

\* EndEpisode leaves "plan" and "wait".
LEMMA EndKeepsType ==
  ASSUME TypeOK, NEW taken \in 0..MaxSteps, NEW success \in BOOLEAN, EndEpisode(taken, success)
  PROVE  /\ phase' \in {"reset", "close"} /\ at' \in Episode /\ steps' \in 0..MaxSteps
         /\ outcomes' \in Seq([episode : Episode, steps : 0..MaxSteps, success : BOOLEAN])
         /\ UNCHANGED <<result, runs>>
<1>1. [episode |-> at, steps |-> taken, success |-> success]
        \in [episode : Episode, steps : 0..MaxSteps, success : BOOLEAN]
  BY DEF TypeOK
<1>2. outcomes' \in Seq([episode : Episode, steps : 0..MaxSteps, success : BOOLEAN])
  BY <1>1, Appended DEF TypeOK, EndEpisode
<1> QED BY <1>2, Numbers DEF TypeOK, EndEpisode, Episode

LEMMA ReceiveKeeps == ASSUME IInv, Receive PROVE IInv'
<1> DEFINE line == Head(stdout)
<1>0. /\ phase = "wait" /\ stdout # << >> /\ stdout' = Tail(stdout)
      /\ UNCHANGED <<client, stdin, sidecar>>
  BY DEF Receive
<1>1. /\ stdout \in Seq(Line) /\ stdout' \in Seq(Line) /\ Len(stdout') = Len(stdout) - 1
      /\ Len(stdout) \in Nat /\ Len(stdout) >= 1
      /\ line = stdout[1] /\ line \in Line /\ line.obs \in Observation
      /\ \A i \in 1..(Len(stdout) - 1) : stdout'[i] = stdout[i + 1]
  <2>1. stdout \in Seq(Line)
    BY DEF IInv, TypeOK
  <2>2. \A l \in Line : l.obs \in Observation
    BY DEF Line
  <2> QED BY <1>0, <2>1, <2>2, Taken
<1>2. IdsUsed'
  <2>1. nextId' = nextId /\ stdin' = stdin
    BY <1>0 DEF client
  <2> QED BY <1>1, <2>1 DEF IInv, IdsUsed
<1>3. /\ pending' = pending /\ nextId' = nextId /\ stdin' = stdin
      /\ alive' = alive /\ sim' = sim /\ noise' = noise
  BY <1>0 DEF client, sidecar
\* The answer of a request that is not close shows the simulator at its target.
<1>4. ASSUME Answers(line), line.kind = "answer", pending.method # "close"
      PROVE  /\ stdin = << >> /\ sim.episode = at /\ sim.step = Target
             /\ line.obs.episode = at /\ line.obs.step = Target
  <2>1. 1 \in 1..Len(stdout) /\ IsAnswer(1)
    BY <1>1, <1>4 DEF Answers, IsAnswer
  <2>2. Served
    BY <1>0, <2>1 DEF IInv, InStep, Queued
  <2> QED BY <1>1, <1>4, <2>1, <2>2 DEF Served
<1>5. CASE Fail
  BY <1>0, <1>1, <1>2, <1>3, <1>5, FailKeeps DEF IInv, TypeOK
<1>6. CASE Closed
  <2>1. TypeOK'
    BY <1>1, <1>3, <1>6 DEF IInv, TypeOK, Closed
  <2>2. InStep' /\ StepsAreSimulated'
    BY <1>6 DEF IInv, InStep, StepsAreSimulated, Closed
  <2> QED BY <1>2, <2>1, <2>2 DEF IInv
<1>7. CASE Answers(line) /\ line.kind = "answer" /\ pending.method = "reset" /\ Started(line.obs)
  <2>1. stdin = << >> /\ sim.episode = at /\ sim.step = 0
    BY <1>4, <1>7 DEF Target
  <2>2. trajectories' = trajectories
    BY <1>7 DEF Started
  <2>3. CASE line.obs.success
    <3>1. EndEpisode(0, TRUE)
      BY <1>7, <2>3 DEF Started
    <3>0. 0 \in 0..MaxSteps
      BY Numbers
    <3>2. TypeOK'
      BY <1>1, <1>3, <2>2, <3>0, <3>1, EndKeepsType DEF IInv, TypeOK
    <3>3. InStep' /\ StepsAreSimulated'
      BY <2>2, <3>0, <3>1, EndKeepsType DEF IInv, InStep, StepsAreSimulated
    <3> QED BY <1>2, <3>2, <3>3 DEF IInv
  <2>4. CASE ~line.obs.success
    <3>1. phase' = "plan" /\ steps' = 0 /\ UNCHANGED <<at, outcomes, result, runs>>
      BY <1>7, <2>4 DEF Started
    <3>2. TypeOK'
      BY <1>1, <1>3, <2>2, <3>1, Numbers DEF IInv, TypeOK
    <3>3. InStep' /\ StepsAreSimulated'
      BY <1>3, <2>1, <2>2, <3>1, Numbers DEF IInv, InStep, StepsAreSimulated
    <3> QED BY <1>2, <3>2, <3>3 DEF IInv
  <2> QED BY <2>3, <2>4
<1>8. CASE Answers(line) /\ line.kind = "answer" /\ pending.method = "step" /\ Stepped(line.obs)
  <2> DEFINE row == [episode |-> at, index |-> steps, obs |-> line.obs]
             Rows == [episode : Episode, index : 0..(MaxSteps - 1), obs : Observation]
  <2>1. /\ stdin = << >> /\ sim.episode = at /\ sim.step = steps + 1
        /\ line.obs.episode = at /\ line.obs.step = steps + 1
    BY <1>4, <1>8 DEF Target
  <2>2. steps < MaxSteps /\ steps \in Nat
    BY <1>0, <1>8 DEF IInv, TypeOK, InStep
  <2>3. row \in Rows
    BY <1>1, <2>2, Numbers DEF IInv, TypeOK
  <2>4. /\ trajectories' = Append(trajectories, row) /\ trajectories \in Seq(Rows)
    BY <1>8 DEF Stepped, IInv, TypeOK
  <2>5. /\ trajectories' \in Seq(Rows) /\ Len(trajectories') = Len(trajectories) + 1
        /\ Len(trajectories) \in Nat
        /\ \A i \in 1..(Len(trajectories) + 1) :
             trajectories'[i] = IF i <= Len(trajectories) THEN trajectories[i] ELSE row
    BY <2>3, <2>4, Appended
  <2>6. StepsAreSimulated'
    BY <2>1, <2>5 DEF IInv, StepsAreSimulated
  <2>7. CASE Over(line.obs)
    <3>1. EndEpisode(steps + 1, line.obs.success) /\ steps + 1 \in 0..MaxSteps
          /\ line.obs.success \in BOOLEAN
      BY <1>1, <1>8, <2>2, <2>7, Numbers DEF Stepped, Observation
    <3>2. TypeOK'
      BY <1>1, <1>3, <2>5, <3>1, EndKeepsType DEF IInv, TypeOK
    <3>3. InStep'
      BY <3>1, EndKeepsType DEF IInv, InStep
    <3> QED BY <1>2, <2>6, <3>2, <3>3 DEF IInv
  <2>8. CASE ~Over(line.obs)
    <3>1. phase' = "plan" /\ steps' = steps + 1 /\ UNCHANGED <<at, outcomes, result, runs>>
      BY <1>8, <2>8 DEF Stepped
    <3>2. steps + 1 < MaxSteps
      BY <2>2, <2>8, Numbers DEF Over
    <3>5. steps' \in 0..MaxSteps /\ phase' = "plan"
      BY <2>2, <3>1, <3>2, Numbers
    <3>6. /\ at' \in Episode /\ result' \in {"none", "ok", "error"} /\ runs' \in 0..MaxRuns
          /\ outcomes' \in Seq([episode : Episode, steps : 0..MaxSteps, success : BOOLEAN])
      BY <3>1 DEF IInv, TypeOK
    <3>7. /\ nextId' \in Nat \ {0} /\ pending' \in Request /\ stdin' \in Seq(Request)
          /\ alive' \in BOOLEAN /\ sim' \in [episode : 0..Episodes, step : Nat]
          /\ noise' \in 0..MaxNoise
      BY <1>3 DEF IInv, TypeOK
    <3>3. TypeOK'
      BY <1>1, <2>5, <3>5, <3>6, <3>7 DEF TypeOK
    <3>4. InStep'
      BY <1>3, <2>1, <3>1, <3>2 DEF InStep
    <3> QED BY <1>2, <2>6, <3>3, <3>4 DEF IInv
  <2> QED BY <2>7, <2>8
<1> QED BY <1>5, <1>6, <1>7, <1>8 DEF Receive

LEMMA ReceiveNothingKeeps == ASSUME IInv, ReceiveNothing PROVE IInv'
<1>1. stdin' \in Seq(Request) /\ stdout' \in Seq(Line) /\ IdsUsed'
  BY DEF ReceiveNothing, IInv, TypeOK, IdsUsed, client
<1> QED BY <1>1, FailKeeps DEF ReceiveNothing

\* A printed line answers nothing.
LEMMA PrintKeeps ==
  ASSUME IInv, NEW kind \in {"noise", "value"}, stdout' = Append(stdout, Printed(kind)),
         UNCHANGED <<evaluator, client, stdin, sim>>, alive' \in BOOLEAN, noise' \in 0..MaxNoise
  PROVE  IInv'
<1>1. /\ stdout' \in Seq(Line) /\ Len(stdout') = Len(stdout) + 1 /\ Len(stdout) \in Nat
      /\ \A i \in 1..(Len(stdout) + 1) :
           stdout'[i] = IF i <= Len(stdout) THEN stdout[i] ELSE Printed(kind)
  BY PrintedIsALine, Appended DEF IInv, TypeOK
<1>2. /\ UNCHANGED <<phase, at, steps, outcomes, trajectories, result, runs, nextId, pending>>
      /\ UNCHANGED <<stdin, sim>>
  BY DEF evaluator, client
<1>3. TypeOK'
  BY <1>1, <1>2 DEF IInv, TypeOK
<1>4. IdsUsed'
  <2>1. \A i \in 1..Len(stdout') : stdout'[i].id < nextId
    BY <1>1, PrintedIsALine DEF IInv, TypeOK, IdsUsed
  <2> QED BY <1>2, <2>1 DEF IInv, IdsUsed
<1>5. \A i \in 1..Len(stdout') : IsAnswer(i)' => i \in 1..Len(stdout) /\ stdout'[i] = stdout[i] /\ IsAnswer(i)
  BY <1>1, <1>2, PrintedIsALine DEF IsAnswer
<1>6. Queued => Queued'
  BY <1>2, <1>5 DEF Queued
<1>7. Served => Served'
  BY <1>2, <1>5 DEF Served, Target
<1>8. InStep' /\ StepsAreSimulated'
  BY <1>2, <1>6, <1>7 DEF IInv, InStep, StepsAreSimulated
<1> QED BY <1>3, <1>4, <1>8 DEF IInv

LEMMA ChatterKeeps == ASSUME IInv, Chatter PROVE IInv'
<1>1. noise' \in 0..MaxNoise
  BY Numbers DEF Chatter, IInv, TypeOK
<1> QED BY <1>1, PrintKeeps DEF Chatter, IInv, TypeOK

LEMMA DieKeeps == ASSUME IInv, Die PROVE IInv'
<1>0. /\ UNCHANGED <<phase, at, steps, outcomes, trajectories, result, runs, nextId, pending>>
      /\ UNCHANGED <<stdin, sim, noise>> /\ alive' = FALSE
  BY DEF Die, evaluator, client
<1>1. CASE stdout' = Append(stdout, Printed("noise"))
  BY <1>1, PrintKeeps DEF Die, IInv, TypeOK
<1>2. CASE stdout' = stdout
  <2>1. TypeOK'
    BY <1>0, <1>2 DEF IInv, TypeOK
  <2>2. IdsUsed' /\ StepsAreSimulated'
    BY <1>0, <1>2 DEF IInv, IdsUsed, StepsAreSimulated
  <2>3. (Queued => Queued') /\ (Served => Served')
    BY <1>0, <1>2 DEF Queued, Served, Target, IsAnswer
  <2>4. InStep'
    BY <1>0, <2>3 DEF IInv, InStep
  <2> QED BY <2>1, <2>2, <2>4 DEF IInv
<1> QED BY <1>1, <1>2 DEF Die

\* The sidecar reads the first request: the one waited for, or one of an earlier
\* run, which it answers under that one's id.
LEMMA ServeKeeps == ASSUME IInv, Serve PROVE IInv'
<1> DEFINE request == Head(stdin)
<1>0. /\ UNCHANGED <<phase, at, steps, outcomes, trajectories, result, runs, nextId, pending>>
      /\ noise' = noise /\ stdin # << >> /\ stdin' = Tail(stdin)
  BY DEF Serve, evaluator, client
<1>1. /\ stdin' \in Seq(Request) /\ Len(stdin') = Len(stdin) - 1
      /\ Len(stdin) \in Nat /\ Len(stdin) >= 1 /\ request = stdin[1] /\ request \in Request
      /\ \A k \in 1..(Len(stdin) - 1) : stdin'[k] = stdin[k + 1]
  <2>1. stdin \in Seq(Request)
    BY DEF IInv, TypeOK
  <2> QED BY <1>0, <2>1, Taken
<1>2. /\ request.id \in Nat /\ request.id < nextId
      /\ Effect(request) \in [episode : 0..Episodes, step : Nat]
  <2>1. request.id \in Nat /\ request.id < nextId
    <3>1. 1 \in 1..Len(stdin)
      BY <1>1
    <3> QED BY <1>1, <3>1, Ids DEF IInv
  <2>2. request.episode \in 0..Episodes
    BY <1>1, Numbers DEF Request, Episode
  <2>3. sim \in [episode : 0..Episodes, step : Nat]
    BY DEF IInv, TypeOK
  <2>4. [episode |-> request.episode, step |-> 0] \in [episode : 0..Episodes, step : Nat]
    BY <2>2
  <2>5. [sim EXCEPT !.step = @ + 1] \in [episode : 0..Episodes, step : Nat]
    BY <2>3
  <2> QED BY <2>1, <2>3, <2>4, <2>5 DEF Effect
<1>3. PICK reply : /\ reply \in Line /\ reply.id = request.id
                   /\ stdout' = Append(stdout, reply)
                   /\ sim' \in {sim, Effect(request)} /\ alive' \in BOOLEAN
                   /\ reply.kind = "answer" =>
                        /\ sim' = Effect(request)
                        /\ reply.obs.episode = sim'.episode /\ reply.obs.step = sim'.step
  <2>1. ASSUME NEW success \in BOOLEAN, NEW done \in BOOLEAN,
               sim' = Effect(request), Answer(request, Shows(success, done)'),
               alive' = (request.method # "close")
        PROVE  \E reply : /\ reply \in Line /\ reply.id = request.id
                          /\ stdout' = Append(stdout, reply)
                          /\ sim' \in {sim, Effect(request)} /\ alive' \in BOOLEAN
                          /\ reply.kind = "answer" =>
                               /\ sim' = Effect(request)
                               /\ reply.obs.episode = sim'.episode /\ reply.obs.step = sim'.step
    <3> DEFINE reply == [id |-> request.id, kind |-> "answer", obs |-> Shows(success, done)']
    <3>1. Shows(success, done)' \in Observation
      BY <1>2, <2>1 DEF Shows, Observation
    <3>2. reply \in Line
      BY <1>2, <3>1 DEF Line
    <3>3. /\ reply.obs.episode = sim'.episode /\ reply.obs.step = sim'.step
      BY DEF Shows
    <3> QED BY <2>1, <3>2, <3>3 DEF Answer
  <2>2. ASSUME sim' \in {sim, Effect(request)}, Refuse(request), UNCHANGED alive
        PROVE  \E reply : /\ reply \in Line /\ reply.id = request.id
                          /\ stdout' = Append(stdout, reply)
                          /\ sim' \in {sim, Effect(request)} /\ alive' \in BOOLEAN
                          /\ reply.kind = "answer" =>
                               /\ sim' = Effect(request)
                               /\ reply.obs.episode = sim'.episode /\ reply.obs.step = sim'.step
    <3> DEFINE reply == [id |-> request.id, kind |-> "refusal", obs |-> Nothing]
    <3>1. reply \in Line
      BY <1>2, Numbers DEF Line, Nothing, Observation
    <3>2. reply.id = request.id /\ reply.kind # "answer" /\ stdout' = Append(stdout, reply)
      BY <2>2 DEF Refuse
    <3>3. alive' \in BOOLEAN
      BY <2>2 DEF IInv, TypeOK
    <3> HIDE DEF reply
    <3> QED BY <2>2, <3>1, <3>2, <3>3
  <2> QED BY <2>1, <2>2 DEF Serve
<1>4. /\ stdout' \in Seq(Line) /\ Len(stdout') = Len(stdout) + 1 /\ Len(stdout) \in Nat
      /\ \A i \in 1..(Len(stdout) + 1) : stdout'[i] = IF i <= Len(stdout) THEN stdout[i] ELSE reply
  BY <1>3, Appended DEF IInv, TypeOK
<1>5. TypeOK'
  <2>1. sim' \in [episode : 0..Episodes, step : Nat]
    BY <1>2, <1>3 DEF IInv, TypeOK
  <2> QED BY <1>0, <1>1, <1>3, <1>4, <2>1 DEF IInv, TypeOK
<1>6. IdsUsed'
  <2>1. ASSUME NEW k \in 1..Len(stdin') PROVE stdin'[k].id < nextId'
    <3>1. k + 1 \in 1..Len(stdin) /\ stdin'[k] = stdin[k + 1]
      BY <1>1
    <3> QED BY <1>0, <3>1, Ids DEF IInv
  <2>2. ASSUME NEW i \in 1..Len(stdout') PROVE stdout'[i].id < nextId'
    BY <1>0, <1>2, <1>3, <1>4, Ids DEF IInv
  <2> QED BY <2>1, <2>2 DEF IdsUsed
<1>7. StepsAreSimulated'
  BY <1>0 DEF IInv, StepsAreSimulated
<1>8. phase # "plan"
  BY <1>0 DEF IInv, InStep
<1>9. ASSUME phase = "wait" PROVE Queued' \/ Served'
  <2>1. Queued /\ stdin[Len(stdin)] = pending
    BY <1>0, <1>9 DEF IInv, InStep, Queued, Served
  <2>2. CASE Len(stdin) > 1
    <3>1. request.id # pending.id
      BY <1>1, <2>1, <2>2 DEF Queued
    <3>2. \A i \in 1..Len(stdout') : ~IsAnswer(i)'
      BY <1>0, <1>3, <1>4, <2>1, <3>1 DEF Queued, IsAnswer
    <3>3. Len(stdin') > 0 /\ stdin'[Len(stdin')] = pending
      BY <1>1, <2>1, <2>2
    <3>4. \A k \in 1..(Len(stdin') - 1) : stdin'[k].id # pending.id
      BY <1>1, <2>1, <2>2 DEF Queued
    <3>5. pending.method # "step"
      BY <2>1, <2>2 DEF Queued
    <3> QED BY <1>0, <3>2, <3>3, <3>4, <3>5 DEF Queued
  <2>3. CASE Len(stdin) = 1
    <3>1. request = pending /\ stdin' = << >>
      BY <1>0, <1>1, <2>1, <2>3
    <3>2. \A i \in 1..Len(stdout') : IsAnswer(i)' => stdout'[i] = reply /\ reply.kind = "answer"
      BY <1>0, <1>4, <2>1 DEF Queued, IsAnswer
    <3>3. pending.method # "close" /\ reply.kind = "answer" =>
            /\ sim'.episode = at /\ sim'.step = Target
            /\ reply.obs.episode = at /\ reply.obs.step = Target
      <4>1. CASE pending.method = "reset"
        <5>1. pending.episode = at
          BY <1>9 DEF IInv, InStep
        <5> QED BY <1>3, <3>1, <4>1, <5>1 DEF Effect, Target
      <4>2. CASE pending.method = "step"
        <5>1. sim.episode = at /\ sim.step = steps
          BY <2>1, <4>2 DEF Queued
        <5>2. Effect(pending).episode = at /\ Effect(pending).step = steps + 1
          BY <4>2, <5>1 DEF Effect, IInv, TypeOK
        <5> QED BY <1>3, <3>1, <4>2, <5>2 DEF Target
      <4> QED BY <1>1, <3>1, <4>1, <4>2 DEF Request, Methods
    <3>4. Served'
      BY <1>0, <3>1, <3>2, <3>3 DEF Served, Target
    <3> QED BY <3>4
  <2> QED BY <1>1, <2>2, <2>3
<1>10. InStep'
  BY <1>0, <1>8, <1>9 DEF IInv, InStep
<1> QED BY <1>5, <1>6, <1>7, <1>10 DEF IInv

LEMMA NextIInv == IInv /\ [Next]_vars => IInv'
<1> SUFFICES ASSUME IInv, [Next]_vars PROVE IInv'
  OBVIOUS
<1>1. CASE UNCHANGED vars
  BY <1>1 DEF vars, evaluator, client, sidecar, IInv, TypeOK, IdsUsed, InStep, Queued,
     Served, Target, IsAnswer, StepsAreSimulated
<1>2. CASE Next
  BY <1>1, <1>2, RunKeeps, DropKeeps, PlanFailsKeeps, SendKeeps, ReceiveKeeps,
     ReceiveNothingKeeps, ServeKeeps, ChatterKeeps, DieKeeps
     DEF Next, Evaluator, Finished
<1> QED BY <1>1, <1>2

-----------------------------------------------------------------------------
(* What the report of a run will say.                                      *)

\* An episode of the report and its rows agree.
EpisodeWhole(e) ==
  LET rows == RowsOf(e)
      last == {i \in rows : trajectories[i].index = outcomes[e].steps - 1}
  IN  /\ outcomes[e].episode = e
      /\ {trajectories[i].index : i \in rows} = 0..(outcomes[e].steps - 1)
      /\ \A i, j \in rows : i < j => trajectories[i].index < trajectories[j].index
      /\ \A i \in last : trajectories[i].obs.success = outcomes[e].success
      /\ \A i \in rows \ last : ~trajectories[i].obs.success /\ ~trajectories[i].obs.done
      /\ outcomes[e].steps < MaxSteps =>
           outcomes[e].success \/ \E i \in last : trajectories[i].obs.done

\* run is in an episode, or past the last one.
InEpisode == phase \in {"reset", "plan"} \/ (phase = "wait" /\ pending.method # "close")
PastEpisodes == phase = "close" \/ (phase = "wait" /\ pending.method = "close") \/ result = "ok"

\* The rows of the episode run is in: one for each step taken, none final.
RowsSoFar ==
  /\ \A i \in RowsOf(at) : /\ trajectories[i].index \in 0..(steps - 1)
                           /\ ~trajectories[i].obs.success /\ ~trajectories[i].obs.done
  /\ \A k \in 0..(steps - 1) : \E i \in RowsOf(at) : trajectories[i].index = k
  /\ \A i, j \in RowsOf(at) : i < j => trajectories[i].index < trajectories[j].index

\* The report grows by whole episodes.
Progress ==
  /\ phase \in {"reset", "plan", "close", "wait"} => result # "ok"
  /\ InEpisode =>
       /\ Len(outcomes) = at - 1
       /\ \A e \in 1..(at - 1) : EpisodeWhole(e)
       /\ \A i \in 1..Len(trajectories) : trajectories[i].episode <= at
       /\ RowsSoFar
       /\ phase = "reset" \/ (phase = "wait" /\ pending.method = "reset") => steps = 0
  /\ PastEpisodes => Len(outcomes) = Episodes /\ \A e \in Episode : EpisodeWhole(e)

LEMMA ProgressIsEnough == Progress => ReportIsWhole
BY DEF Progress, PastEpisodes, ReportIsWhole, EpisodeWhole

\* A finished episode stays whole as rows and outcomes of others are added.
LEMMA WholeStays ==
  ASSUME NEW e, EpisodeWhole(e), RowsOf(e)' = RowsOf(e),
         \A i \in RowsOf(e) : trajectories'[i] = trajectories[i],
         outcomes'[e] = outcomes[e]
  PROVE  EpisodeWhole(e)'
<1>1. {trajectories'[i].index : i \in RowsOf(e)} = {trajectories[i].index : i \in RowsOf(e)}
  OBVIOUS
<1>2. {i \in RowsOf(e) : trajectories'[i].index = outcomes'[e].steps - 1}
        = {i \in RowsOf(e) : trajectories[i].index = outcomes[e].steps - 1}
  OBVIOUS
<1> QED BY <1>1, <1>2 DEF EpisodeWhole

LEMMA WholesStay ==
  ASSUME UNCHANGED <<outcomes, trajectories>>, NEW e, EpisodeWhole(e)
  PROVE  EpisodeWhole(e)'
BY DEF EpisodeWhole, RowsOf

\* Steps that leave the report alone.
LEMMA ProgressStays ==
  ASSUME Progress, UNCHANGED <<outcomes, trajectories, at>>,
         InEpisode' => InEpisode /\ steps' = steps /\ result' = result,
         InEpisode' /\ (phase' = "reset" \/ (phase' = "wait" /\ pending'.method = "reset")) =>
           phase = "reset" \/ (phase = "wait" /\ pending.method = "reset"),
         PastEpisodes' => PastEpisodes,
         phase' \in {"reset", "plan", "close", "wait"} => result' # "ok"
  PROVE  Progress'
<1>1. RowsOf(at)' = RowsOf(at)
  BY DEF RowsOf
<1>2. ASSUME InEpisode'
      PROVE  /\ Len(outcomes') = at' - 1 /\ \A e \in 1..(at' - 1) : EpisodeWhole(e)'
             /\ \A i \in 1..Len(trajectories') : trajectories'[i].episode <= at'
             /\ RowsSoFar'
             /\ phase' = "reset" \/ (phase' = "wait" /\ pending'.method = "reset") => steps' = 0
  <2>1. RowsSoFar'
    BY <1>1, <1>2 DEF Progress, RowsSoFar
  <2> QED BY <1>2, <2>1, WholesStay DEF Progress
<1>3. ASSUME PastEpisodes'
      PROVE  Len(outcomes') = Episodes /\ \A e \in Episode : EpisodeWhole(e)'
  BY <1>3, WholesStay DEF Progress
<1> QED BY <1>2, <1>3 DEF Progress

LEMMA RunProgress == ASSUME TypeOK, Run PROVE Progress'
<1>1. /\ phase' = "reset" /\ at' = 1 /\ steps' = 0 /\ result' = "none"
      /\ outcomes' = << >> /\ trajectories' = << >>
  BY DEF Run
<1>2. RowsOf(at)' = {}
  BY <1>1 DEF RowsOf
<1>3. RowsSoFar'
  BY <1>1, <1>2 DEF RowsSoFar
<1> QED BY <1>1, <1>3 DEF Progress, InEpisode, PastEpisodes

\* The episode ends with what was collected of it.
LEMMA EndProgress ==
  ASSUME TypeOK, TypeOK', Progress, InEpisode,
         NEW taken \in 0..MaxSteps, NEW success \in BOOLEAN, EndEpisode(taken, success),
         NEW ep, ep = at,
         \A e \in 1..(at - 1) : RowsOf(e)' = RowsOf(e),
         \A i \in 1..Len(trajectories) : trajectories'[i] = trajectories[i],
         \A i \in 1..Len(trajectories') : trajectories'[i].episode <= at,
         outcomes'[ep] = [episode |-> ep, steps |-> taken, success |-> success] => EpisodeWhole(ep)'
  PROVE  Progress'
<1> DEFINE Outcome == [episode : Episode, steps : 0..MaxSteps, success : BOOLEAN]
           outcome == [episode |-> at, steps |-> taken, success |-> success]
<1>1. /\ at \in Nat /\ at >= 1 /\ at <= Episodes /\ Episodes \in Nat /\ Len(outcomes) = at - 1
  BY Numbers DEF TypeOK, Episode, Progress
<1>2. /\ outcomes' = Append(outcomes, outcome) /\ outcomes \in Seq(Outcome) /\ outcome \in Outcome
  BY DEF EndEpisode, TypeOK
<1>3. /\ Len(outcomes') = at /\ outcomes'[at] = outcome
      /\ \A e \in 1..(at - 1) : outcomes'[e] = outcomes[e]
  BY <1>1, <1>2, Appended
<1>4. \A e \in 1..ep : EpisodeWhole(e)'
  <2>1. ASSUME NEW e \in 1..(at - 1) PROVE EpisodeWhole(e)'
    <3>1. EpisodeWhole(e)
      BY <2>1 DEF Progress
    <3>2. \A i \in RowsOf(e) : trajectories'[i] = trajectories[i]
      BY DEF RowsOf
    <3> QED BY <1>3, <2>1, <3>1, <3>2, WholeStays
  <2>2. EpisodeWhole(ep)'
    BY <1>3
  <2>3. \A e \in 1..ep : e \in 1..(at - 1) \/ e = ep
    BY <1>1
  <2> QED BY <2>1, <2>2, <2>3
<1>5. result' # "ok"
  BY DEF EndEpisode, Progress, InEpisode
<1>6. CASE at < Episodes
  <2>1. at' = at + 1 /\ steps' = 0 /\ phase' = "reset"
    BY <1>6 DEF EndEpisode
  <2>4. \A i \in 1..Len(trajectories') : trajectories'[i].episode <= at'
    <3>1. trajectories' \in Seq([episode : Episode, index : 0..(MaxSteps - 1), obs : Observation])
      BY DEF TypeOK
    <3>2. \A i \in 1..Len(trajectories') : trajectories'[i].episode \in Episode
      <4>1. \A i \in 1..Len(trajectories') :
              trajectories'[i] \in [episode : Episode, index : 0..(MaxSteps - 1), obs : Observation]
        BY <3>1, Members
      <4> QED BY <4>1
    <3>3. \A i \in 1..Len(trajectories') : trajectories'[i].episode \in Nat
      BY <3>2, Numbers DEF Episode
    <3> QED BY <1>1, <2>1, <3>3
  <2>2. RowsOf(at)' = {}
    <3>1. \A i \in 1..Len(trajectories') : trajectories'[i].episode # at + 1
      BY <1>1
    <3> QED BY <2>1, <3>1 DEF RowsOf
  <2>3. RowsSoFar'
    BY <2>1, <2>2 DEF RowsSoFar
  <2>5. ~PastEpisodes'
    BY <1>5, <2>1 DEF PastEpisodes
  <2>6. Len(outcomes') = at' - 1 /\ \A e \in 1..(at' - 1) : EpisodeWhole(e)'
    BY <1>1, <1>3, <1>4, <2>1
  <2> QED BY <1>5, <2>1, <2>3, <2>4, <2>5, <2>6 DEF Progress
<1>7. CASE ~(at < Episodes)
  <2>1. phase' = "close"
    BY <1>7 DEF EndEpisode
  <2>2. at = Episodes
    BY <1>1, <1>7
  <2> QED BY <1>3, <1>4, <1>5, <2>1, <2>2 DEF Progress, InEpisode, PastEpisodes, Episode
<1> QED BY <1>6, <1>7

LEMMA StartProgress ==
  ASSUME TypeOK, TypeOK', Progress, phase = "wait", pending.method = "reset",
         NEW obs \in Observation, Started(obs), UNCHANGED pending
  PROVE  Progress'
<1>1. /\ InEpisode /\ steps = 0 /\ trajectories' = trajectories
  BY DEF Progress, InEpisode, Started
<1>2. \A i \in 1..Len(trajectories) : trajectories[i].episode # at
  <2>1. RowsSoFar /\ 0..(steps - 1) = {}
    BY <1>1 DEF Progress
  <2>2. RowsOf(at) = {}
    BY <2>1 DEF RowsSoFar
  <2> QED BY <2>2 DEF RowsOf
<1>3. CASE obs.success
  <2>1. EndEpisode(0, TRUE)
    BY <1>3 DEF Started
  <2>0. 0 \in 0..MaxSteps
    BY Numbers
  <2>2. ASSUME NEW ep, ep = at, outcomes'[ep] = [episode |-> ep, steps |-> 0, success |-> TRUE]
        PROVE  EpisodeWhole(ep)'
    <3>1. RowsOf(ep)' = {}
      BY <1>1, <1>2, <2>2 DEF RowsOf
    <3>2. /\ outcomes'[ep].episode = ep /\ outcomes'[ep].steps = 0 /\ outcomes'[ep].success = TRUE
      BY <2>2
    <3>3. {trajectories'[i].index : i \in RowsOf(ep)'} = 0..(outcomes'[ep].steps - 1)
      BY <3>1, <3>2
    <3> QED BY <3>1, <3>2, <3>3 DEF EpisodeWhole
  <2>3. \A e \in 1..(at - 1) : RowsOf(e)' = RowsOf(e)
    BY <1>1 DEF RowsOf
  <2>4. \A i \in 1..Len(trajectories') : trajectories'[i].episode <= at
    BY <1>1 DEF Progress
  <2> QED BY <1>1, <2>0, <2>1, <2>2, <2>3, <2>4, EndProgress
<1>4. CASE ~obs.success
  <2>1. phase' = "plan" /\ steps' = 0 /\ UNCHANGED <<at, outcomes, result, runs>>
    BY <1>4 DEF Started
  <2> QED BY <1>1, <2>1, ProgressStays DEF InEpisode, PastEpisodes, Progress
<1> QED BY <1>3, <1>4

LEMMA StepProgress ==
  ASSUME TypeOK, TypeOK', Progress, phase = "wait", pending.method = "step", steps < MaxSteps,
         NEW obs \in Observation, Stepped(obs), UNCHANGED pending
  PROVE  Progress'
<1> DEFINE row == [episode |-> at, index |-> steps, obs |-> obs]
           Rows == [episode : Episode, index : 0..(MaxSteps - 1), obs : Observation]
           last == Len(trajectories) + 1
<1>0. /\ steps \in Nat /\ MaxSteps \in Nat /\ Episodes \in Nat /\ at \in Nat /\ at \in Episode
      /\ steps + 1 \in 0..MaxSteps /\ obs.success \in BOOLEAN /\ obs.done \in BOOLEAN
  BY Numbers DEF TypeOK, Episode, Observation
<1>1. row \in Rows /\ trajectories \in Seq(Rows) /\ trajectories' = Append(trajectories, row)
  BY <1>0 DEF TypeOK, Stepped
<1>2. /\ Len(trajectories') = last /\ Len(trajectories) \in Nat
      /\ \A i \in 1..last : trajectories'[i] = IF i <= Len(trajectories) THEN trajectories[i] ELSE row
  BY <1>1, Appended
<1>3. /\ \A i \in 1..Len(trajectories) : trajectories'[i] = trajectories[i]
      /\ trajectories'[last] = row /\ last \notin 1..Len(trajectories)
  BY <1>2
<1>4. /\ InEpisode /\ RowsSoFar
      /\ \A i \in 1..Len(trajectories) : trajectories[i].episode <= at
  BY DEF Progress, InEpisode
<1>5. \A i \in 1..Len(trajectories') : trajectories'[i].episode <= at
  BY <1>0, <1>2, <1>4
<1>6. ASSUME NEW e \in 1..(at - 1) PROVE RowsOf(e)' = RowsOf(e)
  BY <1>0, <1>2 DEF RowsOf
<1>7. ASSUME NEW e, e = at PROVE RowsOf(e)' = RowsOf(e) \cup {last}
  BY <1>2, <1>7 DEF RowsOf
<1>8. CASE Over(obs)
  <2>1. EndEpisode(steps + 1, obs.success)
    BY <1>8 DEF Stepped
  <2>2. ASSUME NEW ep, ep = at, outcomes'[ep] = [episode |-> ep, steps |-> steps + 1, success |-> obs.success]
        PROVE  EpisodeWhole(ep)'
    <3>1. RowsOf(ep)' = RowsOf(ep) \cup {last} /\ RowsOf(ep) \subseteq 1..Len(trajectories)
      BY <1>7, <2>2 DEF RowsOf
    <3>2. /\ outcomes'[ep].episode = ep /\ outcomes'[ep].steps = steps + 1
          /\ outcomes'[ep].success = obs.success
      BY <2>2
    <3>3. /\ trajectories'[last].index = steps /\ trajectories'[last].obs = obs
          /\ \A i \in RowsOf(ep) : /\ trajectories'[i] = trajectories[i]
                                   /\ trajectories[i].index \in 0..(steps - 1)
                                   /\ ~trajectories[i].obs.success /\ ~trajectories[i].obs.done
      BY <1>3, <1>4, <2>2, <3>1 DEF RowsSoFar
    <3>4. {trajectories'[i].index : i \in RowsOf(ep)'} = 0..(outcomes'[ep].steps - 1)
      <4>1. ASSUME NEW i \in RowsOf(ep)' PROVE trajectories'[i].index \in 0..(outcomes'[ep].steps - 1)
        BY <1>0, <3>1, <3>2, <3>3
      <4>2. ASSUME NEW k \in 0..(outcomes'[ep].steps - 1)
            PROVE  \E i \in RowsOf(ep)' : trajectories'[i].index = k
        <5>1. CASE k = steps
          BY <3>1, <3>3, <5>1
        <5>2. CASE k # steps
          <6>1. k \in 0..(steps - 1)
            BY <1>0, <3>2, <5>2
          <6>2. PICK i \in RowsOf(ep) : trajectories[i].index = k
            BY <1>4, <2>2, <6>1 DEF RowsSoFar
          <6> QED BY <3>1, <3>3, <6>2
        <5> QED BY <5>1, <5>2
      <4> QED BY <4>1, <4>2
    <3>5. \A i, j \in RowsOf(ep)' : i < j => trajectories'[i].index < trajectories'[j].index
      <4>1. ASSUME NEW i \in RowsOf(ep)', NEW j \in RowsOf(ep)', i < j
            PROVE  trajectories'[i].index < trajectories'[j].index
        <5>1. i \in RowsOf(ep)
          BY <1>2, <3>1, <4>1
        <5>2. CASE j = last
          BY <1>0, <3>3, <5>1, <5>2
        <5>3. CASE j # last
          BY <1>4, <2>2, <3>1, <3>3, <4>1, <5>1, <5>3 DEF RowsSoFar
        <5> QED BY <5>2, <5>3
      <4> QED BY <4>1
    <3>6. {i \in RowsOf(ep)' : trajectories'[i].index = outcomes'[ep].steps - 1} = {last}
      BY <1>0, <3>1, <3>2, <3>3
    <3>7. \A i \in {last} : trajectories'[i].obs.success = outcomes'[ep].success
      BY <3>2, <3>3
    <3>8. \A i \in RowsOf(ep)' \ {last} : ~trajectories'[i].obs.success /\ ~trajectories'[i].obs.done
      BY <3>1, <3>3
    <3>9. outcomes'[ep].steps < MaxSteps =>
            outcomes'[ep].success \/ \E i \in {last} : trajectories'[i].obs.done
      BY <1>0, <1>8, <3>2, <3>3 DEF Over
    <3> QED BY <3>2, <3>4, <3>5, <3>6, <3>7, <3>8, <3>9 DEF EpisodeWhole
  <2> QED BY <1>0, <1>3, <1>4, <1>5, <1>6, <2>1, <2>2, EndProgress
<1>9. CASE ~Over(obs)
  <2>1. phase' = "plan" /\ steps' = steps + 1 /\ UNCHANGED <<at, outcomes, result, runs>>
    BY <1>9 DEF Stepped
  <2>2. ~obs.success /\ ~obs.done
    BY <1>9 DEF Over
  <2>3. RowsOf(at)' = RowsOf(at) \cup {last} /\ RowsOf(at) \subseteq 1..Len(trajectories)
    BY <1>2, <2>1 DEF RowsOf
  <2>4. /\ trajectories'[last].index = steps /\ trajectories'[last].obs = obs
        /\ \A i \in RowsOf(at) : /\ trajectories'[i] = trajectories[i]
                                 /\ trajectories[i].index \in 0..(steps - 1)
                                 /\ ~trajectories[i].obs.success /\ ~trajectories[i].obs.done
    BY <1>3, <1>4, <2>3 DEF RowsSoFar
  <2>5. \A i \in RowsOf(at)' : /\ trajectories'[i].index \in 0..(steps' - 1)
                               /\ ~trajectories'[i].obs.success /\ ~trajectories'[i].obs.done
    BY <1>0, <2>1, <2>2, <2>3, <2>4
  <2>6. ASSUME NEW k \in 0..(steps' - 1) PROVE \E i \in RowsOf(at)' : trajectories'[i].index = k
    <3>1. CASE k = steps
      BY <2>3, <2>4, <3>1
    <3>2. CASE k # steps
      <4>1. k \in 0..(steps - 1)
        BY <1>0, <2>1, <3>2
      <4>2. PICK i \in RowsOf(at) : trajectories[i].index = k
        BY <1>4, <4>1 DEF RowsSoFar
      <4> QED BY <2>3, <2>4, <4>2
    <3> QED BY <3>1, <3>2
  <2>7. ASSUME NEW i \in RowsOf(at)', NEW j \in RowsOf(at)', i < j
        PROVE  trajectories'[i].index < trajectories'[j].index
    <3>1. i \in RowsOf(at)
      BY <1>2, <2>3, <2>7
    <3>2. CASE j = last
      BY <1>0, <2>4, <3>1, <3>2
    <3>3. CASE j # last
      BY <1>4, <2>3, <2>4, <2>7, <3>1, <3>3 DEF RowsSoFar
    <3> QED BY <3>2, <3>3
  <2>8. RowsSoFar'
    BY <2>5, <2>6, <2>7 DEF RowsSoFar
  <2>9. \A e \in 1..(at - 1) : EpisodeWhole(e)'
    <3>1. ASSUME NEW e \in 1..(at - 1) PROVE EpisodeWhole(e)'
      <4>1. EpisodeWhole(e)
        BY <1>4 DEF Progress
      <4>2. \A i \in RowsOf(e) : trajectories'[i] = trajectories[i]
        BY <1>3 DEF RowsOf
      <4> QED BY <1>6, <2>1, <4>1, <4>2, WholeStays
    <3> QED BY <3>1
  <2>10. result' # "ok" /\ Len(outcomes') = at' - 1
    BY <1>4, <2>1 DEF Progress, InEpisode
  <2> QED BY <1>5, <2>1, <2>8, <2>9, <2>10 DEF Progress, PastEpisodes
<1> QED BY <1>8, <1>9

LEMMA NextProgress == ASSUME IInv, IInv', Progress, [Next]_vars PROVE Progress'
<1>0. TypeOK /\ TypeOK'
  BY DEF IInv
<1>1. CASE Fail /\ pending' = pending
  BY <1>1, ProgressStays DEF Fail, InEpisode, PastEpisodes
<1>2. CASE UNCHANGED <<evaluator, client>>
  BY <1>2, ProgressStays DEF evaluator, client, InEpisode, PastEpisodes, Progress
<1>3. CASE Run
  BY <1>0, <1>3, RunProgress
<1>4. CASE DropEvaluator
  BY <1>4, ProgressStays DEF DropEvaluator, InEpisode, PastEpisodes
<1>5. CASE Send /\ ~Fail
  <2>1. /\ phase' = "wait" /\ UNCHANGED <<at, steps, outcomes, trajectories, result, runs>>
        /\ pending'.method = MethodOf[phase] /\ phase \in {"reset", "plan", "close"}
    BY <1>5 DEF Send
  <2>2. /\ pending'.method = "close" <=> phase = "close"
        /\ pending'.method = "reset" <=> phase = "reset"
    BY <2>1 DEF MethodOf
  <2> QED BY <2>1, <2>2, ProgressStays DEF InEpisode, PastEpisodes, Progress
<1>6. CASE Send /\ Fail
  <2>1. phase' = "idle" /\ result' = "error" /\ UNCHANGED <<at, outcomes, trajectories>>
    BY <1>6 DEF Fail
  <2> QED BY <2>1, ProgressStays DEF InEpisode, PastEpisodes
<1>7. CASE Receive
  <2> DEFINE line == Head(stdout)
  <2>1. phase = "wait" /\ stdout # << >> /\ pending' = pending
    BY <1>7 DEF Receive, client
  <2>2. line \in Line /\ line.obs \in Observation
    <3>1. stdout \in Seq(Line)
      BY <1>0 DEF TypeOK
    <3>2. \A l \in Line : l.obs \in Observation
      BY DEF Line
    <3> QED BY <2>1, <3>1, <3>2, Taken
  <2>3. CASE pending.method = "close" /\ Closed
    BY <2>1, <2>3, ProgressStays DEF Closed, InEpisode, PastEpisodes
  <2>4. CASE pending.method = "reset" /\ Started(line.obs)
    BY <1>0, <2>1, <2>2, <2>4, StartProgress
  <2>5. CASE pending.method = "step" /\ Stepped(line.obs)
    <3>1. steps < MaxSteps
      BY <2>1, <2>5 DEF IInv, InStep
    <3> QED BY <1>0, <2>1, <2>2, <2>5, <3>1, StepProgress
  <2> QED BY <1>1, <1>7, <2>1, <2>3, <2>4, <2>5 DEF Receive
<1> QED BY <1>1, <1>2, <1>3, <1>4, <1>5, <1>6, <1>7
     DEF Next, vars, Evaluator, PlanFails, ReceiveNothing, Serve, Chatter, Die, Finished, evaluator, client

LEMMA InitProgress == Init => Progress
BY DEF Init, Progress, InEpisode, PastEpisodes

-----------------------------------------------------------------------------

\* The inductive invariant: an answer that carries the id waited for was given to
\* that request, and shows the simulator where the run expects it.
THEOREM InductiveInvariant == Spec => []IInv
  BY InitIInv, NextIInv, PTL DEF Spec

\* Type correctness; no episode takes more than max_steps_per_episode steps.
THEOREM TypeCorrect == Spec => []TypeOK
  BY InductiveInvariant, PTL DEF IInv

\* run_episode records only what the simulator did in that step of that episode,
\* for any number of earlier failed runs and printed lines.
THEOREM RowsAreReal == Spec => []StepsAreSimulated
  BY InductiveInvariant, PTL DEF IInv

\* A report has one outcome per episode in order, and the rows of each episode
\* are its steps, once each and in order, only the last one final: for any number
\* of runs that failed before.
THEOREM ReportsAreWhole == Spec => []ReportIsWhole
<1>1. Init => Progress
  BY InitProgress
<1>2. IInv /\ IInv' /\ Progress /\ [Next]_vars => Progress'
  BY NextProgress
<1> QED BY InductiveInvariant, <1>1, <1>2, ProgressIsEnough, PTL DEF Spec
=============================================================================
