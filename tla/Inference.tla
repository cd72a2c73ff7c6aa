----------------------------- MODULE Inference -----------------------------
(***************************************************************************)
(* From a checkpoint to a served model: the export of the two ONNX graphs  *)
(* and their sidecar (python/export_onnx.py, lewm-infer/src/export), the   *)
(* loader that picks a runner for a directory, the two comparisons that    *)
(* approve an exported model, and the tools bench and serve of lewm-infer. *)
(*                                                                         *)
(* A file is the export it is of and the weights it holds; a value that a  *)
(* model computes is an integer, NaN or an infinity.                       *)
(***************************************************************************)
EXTENDS Integers, FiniteSets, SequencesExt, Sorting

CONSTANTS
  NaN, Infinity,     \* the values that are not finite
  Values,            \* of the outputs that are compared
  ExportTolerance,   \* DEFAULT_L_INF_TOLERANCE
  Tolerances,        \* what --tolerance gives
  Features,          \* the cargo features of the build
  StepFiles,         \* numbers of the step_N.safetensors there may be
  Latencies,         \* how long one planning request takes
  Clients,           \* of the loopback server
  MaxExports, MaxWeights  \* bounds on the exports and on the checkpoints

ASSUME InferenceAssumption ==
  /\ {MaxExports, MaxWeights, ExportTolerance} \cup StepFiles \cup Tolerances \cup Latencies \subseteq Nat
  /\ IsFiniteSet(StepFiles)
  /\ Features \subseteq {"onnx", "nnef", "burn-cpu"} /\ Values \subseteq Int \cup {NaN, Infinity}
  /\ NaN \notin Int /\ Infinity \notin Int /\ NaN # Infinity

VARIABLES
  weights,   \* the checkpoint file the exporter reads: which one it is
  files,     \* the graphs and sidecars, by directory and name
  exporter,  \* the export under way
  exports,   \* how many were begun, and which of them ended
  checkpoint,\* the Safetensors files of a checkpoint directory
  runner,    \* the runner a process of lewm-infer loads
  verdict,   \* the last comparison, or benchmark
  server, conn \* lewm-infer serve, and its clients

fileVars == <<weights, files, exporter, exports>>
serveVars == <<server, conn>>
inferenceVars == <<fileVars, checkpoint, runner, verdict, serveVars>>

Nothing == [at |-> "nothing"]

-----------------------------------------------------------------------------
\* The export

Dirs == {"flat", "onnxruntime", "tract-compat"}
Graphs == {"encoder.onnx", "predictor.onnx", "encoder.nnef", "predictor.nnef"}
Missing == [export |-> 0, whole |-> FALSE]
File(dir, name) == files[<<dir, name>>]
Exists(dir, name) == File(dir, name).export # 0

\* selected_variants: one variant keeps the flat layout, two have directories.
Selections == {<<"onnxruntime">>, <<"tract-compat">>, <<"onnxruntime", "tract-compat">>}
VariantDir(variants, k) == IF Len(variants) = 1 THEN "flat" ELSE variants[k]
DirsOf(variants) == {VariantDir(variants, k) : k \in DOMAIN variants}

\* The graphs of main's loop over the variants, and the sidecars after it.
GraphTargets(variants) ==
  [i \in 1..(2 * Len(variants)) |->
     <<VariantDir(variants, (i + 1) \div 2), IF i % 2 = 1 THEN "encoder.onnx" ELSE "predictor.onnx">>]
SidecarTargets(variants) ==
  <<<<"flat", "onnx_export.json">>>>
    \o (IF Len(variants) = 1 THEN << >> ELSE [k \in DOMAIN variants |-> <<variants[k], "onnx_export.json">>])

SidecarsFirst(variants) == SidecarTargets(variants) \o GraphTargets(variants)

\* The files of main, in the order they are written; export_onnx_pair writes
\* those of one variant.
ExportTargets(variants) == GraphTargets(variants) \o SidecarTargets(variants)

\* The checks before the first file: a checkpoint that lacks a parameter, or a
\* contract that does not hold, ends the export there.
BeginExport ==
  /\ exporter = Nothing /\ exports.begun < MaxExports
  /\ \E variants \in Selections, refused \in BOOLEAN :
       exporter' = IF refused THEN Nothing
                   ELSE [at |-> "writing", export |-> exports.begun + 1, weights |-> weights,
                         variants |-> variants, next |-> 1, open |-> FALSE]
  /\ exports' = [exports EXCEPT !.begun = @ + 1]
  /\ UNCHANGED <<weights, files, checkpoint, runner, verdict, serveVars>>

Written(target, file) == [files EXCEPT ![target] = file]

\* Each file is opened, which empties it, and then filled; the sidecar takes the
\* digest of the checkpoint as it is by then.
WriteExport ==
  /\ exporter.at = "writing"
  /\ LET targets == ExportTargets(exporter.variants)
         target == targets[exporter.next]
         file == [export |-> exporter.export, weights |-> exporter.weights, digest |-> weights,
                  names |-> DirsOf(exporter.variants), whole |-> exporter.open]
         last == exporter.next = Len(targets) /\ exporter.open
     IN  /\ files' = Written(target, file)
         /\ exporter' = IF last THEN Nothing
                        ELSE [exporter EXCEPT !.open = ~@, !.next = IF exporter.open THEN @ + 1 ELSE @]
         /\ exports' = IF last THEN [exports EXCEPT !.ended = @ \cup {exporter.export}] ELSE exports
  /\ UNCHANGED <<weights, checkpoint, runner, verdict, serveVars>>

\* The exporter dies, or a graph cannot be written.
StopExport ==
  /\ exporter # Nothing /\ exporter' = Nothing
  /\ UNCHANGED <<weights, files, exports, checkpoint, runner, verdict, serveVars>>

\* A later checkpoint takes the place of the one the exporter read.
ReplaceWeights ==
  /\ weights < MaxWeights /\ weights' = weights + 1
  /\ UNCHANGED <<files, exporter, exports, checkpoint, runner, verdict, serveVars>>

-----------------------------------------------------------------------------
\* The loader

\* detect_safetensors parses the number in the name.
LatestStep(steps) == Max(steps)

DetectSafetensors ==
  IF checkpoint.weights THEN <<"weights">>
  ELSE IF checkpoint.reference THEN <<"reference">>
  ELSE IF checkpoint.steps # {} THEN <<"step", LatestStep(checkpoint.steps)>>
  ELSE << >>

\* The names of a format's two graphs.
Encoder == [onnx |-> "encoder.onnx", nnef |-> "encoder.nnef"]
Predictor == [onnx |-> "predictor.onnx", nnef |-> "predictor.nnef"]
HasPair(dir, format) == Exists(dir, Encoder[format]) /\ Exists(dir, Predictor[format])

DetectFormat(dir) ==
  IF HasPair(dir, "onnx") THEN "onnx" ELSE IF HasPair(dir, "nnef") THEN "nnef" ELSE "none"

\* build_runner with a Tract backend, whose name does not choose the format.
LoadGraphs ==
  /\ runner = Nothing
  /\ \E dir \in Dirs : LET format == DetectFormat(dir) IN
       runner' = IF format \notin Features \/ ~File(dir, Encoder[format]).whole THEN [at |-> "refused"]
                 ELSE [at |-> "encoder", dir |-> dir, format |-> format,
                       encoder |-> File(dir, Encoder[format]), ended |-> exports.ended]
  /\ UNCHANGED <<fileVars, checkpoint, verdict, serveVars>>

\* The second graph of TractOnnxRunner::new or TractNnefRunner::new.
LoadPredictor ==
  /\ runner.at = "encoder"
  /\ LET predictor == File(runner.dir, Predictor[runner.format])
     IN  runner' = IF ~predictor.whole THEN [at |-> "refused"]
                   ELSE [at |-> "graphs", dir |-> runner.dir, format |-> runner.format,
                         encoder |-> runner.encoder, predictor |-> predictor, ended |-> runner.ended]
  /\ UNCHANGED <<fileVars, checkpoint, verdict, serveVars>>

\* load_with_backend: burn-cpu reads the file --safetensors names, or the one
\* detect_safetensors finds; with a Tract backend --safetensors is refused.
LoadBurn ==
  /\ runner = Nothing
  /\ \E backend \in {"tract", "burn-cpu", "other"}, given \in {<< >>, <<"given">>} :
       LET file == IF given # << >> THEN given ELSE DetectSafetensors
       IN  /\ backend = "tract" => given # << >>
           /\ runner' = IF backend # "burn-cpu" \/ "burn-cpu" \notin Features \/ file = << >>
                        THEN [at |-> "refused"] ELSE [at |-> "burn", file |-> file]
  /\ UNCHANGED <<fileVars, checkpoint, verdict, serveVars>>

-----------------------------------------------------------------------------
\* The comparisons

Finite(v) == v \notin {NaN, Infinity}

\* |a - b| in floating point: of two infinities it is a NaN.
Diff(a, b) ==
  IF NaN \in {a, b} \/ (a = Infinity /\ b = Infinity) THEN NaN
  ELSE IF Infinity \in {a, b} THEN Infinity
  ELSE IF a > b THEN a - b ELSE b - a

\* A comparison with a NaN is false.
Above(d, limit) == d = Infinity \/ (Finite(d) /\ Finite(limit) /\ d > limit)

\* compare_stage raises its maximum when a difference is above it.
Linf(actual, expected) ==
  FoldLeft(LAMBDA most, i : IF Above(Diff(actual[i], expected[i]), most) THEN Diff(actual[i], expected[i]) ELSE most,
           0, [i \in DOMAIN actual |-> i])

\* compare_stage over first_window: << >> when the dump is shorter.
CompareStage(actual, dump, tolerance) ==
  IF Len(dump) < Len(actual) THEN << >>
  ELSE LET linf == Linf(actual, SubSeq(dump, 1, Len(actual)))
       IN  <<[actual |-> actual, expected |-> SubSeq(dump, 1, Len(actual)), pass |-> ~Above(linf, tolerance)]>>

PassUnlessAStageFails(stages) == \A s \in Range(stages) : s.pass

\* run_parity_eval: no stage compared is no pass.
ReportPasses(stages) == stages # << >> /\ \A s \in Range(stages) : s.pass

OutputsOf(n) == [1..n -> Values]
Absent == << >>

\* run_eval and run_parity_eval: a dump that is not there is skipped, one that is
\* too short is an error.
RunEval ==
  /\ verdict = Nothing
  /\ \E encoded \in OutputsOf(2), projector \in {Absent} \cup OutputsOf(1) \cup OutputsOf(2),
        predicted \in OutputsOf(1), predproj \in {Absent} \cup OutputsOf(1), tolerance \in Tolerances :
       LET compared(actual, dump) == IF dump = Absent THEN << >> ELSE CompareStage(actual, dump, tolerance)
           failed(actual, dump) == dump # Absent /\ compared(actual, dump) = << >>
           stages == compared(encoded, projector) \o compared(predicted, predproj)
       IN  verdict' = IF failed(encoded, projector) \/ failed(predicted, predproj) THEN [at |-> "error"]
                      ELSE [at |-> "report", stages |-> stages, tolerance |-> tolerance,
                            pass |-> ReportPasses(stages)]
  /\ UNCHANGED <<fileVars, checkpoint, runner, serveVars>>

\* l_inf_distance refuses other lengths, and any value that is not finite.
Incomparable(reference, output) ==
  Len(output) # Len(reference) \/ \E v \in Range(reference) \cup Range(output) : ~Finite(v)

Verified(reference, output) ==
  ~Incomparable(reference, output) /\ ~Above(Linf(output, reference), ExportTolerance)

Strategies == {"onnx", "nnef", "burn-direct"}

\* pick_export_strategy: the first candidate that is not blocked and passes.
PickStrategy ==
  /\ verdict = Nothing
  /\ \E reference \in OutputsOf(1), outputs \in [Strategies -> {Absent} \cup OutputsOf(1)], adr \in BOOLEAN,
        order \in {<<"onnx", "nnef", "burn-direct">>, <<"burn-direct", "onnx">>} :
       LET blocked(s) == s = "burn-direct" /\ ~adr
           passing == {k \in DOMAIN order : ~blocked(order[k]) /\ Verified(reference, outputs[order[k]])}
       IN  verdict' = IF passing = {} THEN [at |-> "exhausted"]
                      ELSE [at |-> "decision", selected |-> order[Min(passing)], reference |-> reference,
                            outputs |-> outputs, adr |-> adr,
                            tried |-> SubSeq(order, 1, Min(passing) - 1)]
  /\ UNCHANGED <<fileVars, checkpoint, runner, serveVars>>

\* percentile of a sorted sequence
Percentile(sorted, p) == sorted[((Len(sorted) - 1) * p) \div 100 + 1]

Measured(warmup, k) == k > warmup

\* run_bench
RunBench ==
  /\ verdict = Nothing
  /\ \E warmup \in 0..2, episodes \in 1..3 : \E took \in [1..(warmup + episodes) -> Latencies] :
       LET latencies == [k \in {k \in DOMAIN took : Measured(warmup, k)} |-> took[k]]
           places == SortedIndexes(latencies)
           sorted == [place \in DOMAIN places |-> latencies[places[place]]]
       IN  verdict' = [at |-> "bench", took |-> took, warmup |-> warmup, p50 |-> Percentile(sorted, 50),
                       p95 |-> Percentile(sorted, 95), max |-> sorted[Len(sorted)]]
  /\ UNCHANGED <<fileVars, checkpoint, runner, serveVars>>

-----------------------------------------------------------------------------
\* The server: it accepts, reads once, answers and closes, one client at a time.

\* What a client has sent when the server reads: split, when the first read ends
\* before the path does, and nothing, when it has closed its sending side.
ClientRequests == {"health", "other", "split", "nothing"}

EmptyToo(c) == (conn[c].ended = "reset" /\ conn[c].sent = "silent") \/ conn[c].sent = "nothing"

\* read fails; what came before the reset may still be read.
ReadFails(c) == conn[c].ended = "reset" /\ conn[c].sent = "silent"

Answer(request) == IF request = "health" THEN "ok" ELSE "404"

Connect(c) ==
  /\ conn[c].at = "away" /\ server.at # "down"
  /\ server' = [server EXCEPT !.backlog = Append(@, c)]
  /\ conn' = [conn EXCEPT ![c].at = "queued"]
  /\ UNCHANGED <<fileVars, checkpoint, runner, verdict>>

Waiting(c) == conn[c].at \in {"queued", "accepted"} /\ conn[c].ended = "no"

Send(c) ==
  /\ Waiting(c) /\ conn[c].sent = "silent"
  /\ \E request \in ClientRequests : conn' = [conn EXCEPT ![c].sent = request]
  /\ UNCHANGED <<fileVars, checkpoint, runner, verdict, server>>

\* The client closes its socket, with nothing sent or without its answer: it will
\* reset the connection when something arrives.
HangUp(c) ==
  /\ Waiting(c)
  /\ conn' = [conn EXCEPT ![c].ended = "closed", ![c].sent = IF @ = "silent" THEN "nothing" ELSE @]
  /\ UNCHANGED <<fileVars, checkpoint, runner, verdict, server>>

\* It resets the connection at once; the server learns of it when the reset arrives.
Reset(c) ==
  /\ Waiting(c)
  /\ conn' = [conn EXCEPT ![c].ended = "reset"]
  /\ UNCHANGED <<fileVars, checkpoint, runner, verdict, server>>

\* The ? of run_serve: an error on one connection ends the server.
EndServer(c) ==
  /\ server' = [at |-> "down", backlog |-> << >>]
  /\ conn' = [conn EXCEPT ![c].at = "gone"]

\* accept takes a connection that was reset, or fails for it.
Accept ==
  /\ server.at = "listening" /\ server.backlog # << >>
  /\ LET c == Head(server.backlog)
     IN  \/ server' = [server EXCEPT !.at = "reading"] /\ conn' = [conn EXCEPT ![c].at = "accepted"]
         \/ conn[c].ended = "reset" /\ EndServer(c)
  /\ UNCHANGED <<fileVars, checkpoint, runner, verdict>>

\* handle_connection: read returns when there is something to read, or the end.
ReadRequest ==
  /\ server.at = "reading"
  /\ LET c == Head(server.backlog)
     IN  /\ conn[c].sent # "silent" \/ conn[c].ended # "no"
         /\ \/ ~ReadFails(c) /\ server' = [server EXCEPT !.at = "answering"] /\ UNCHANGED conn
            \/ (ReadFails(c) \/ conn[c].ended = "reset") /\ EndServer(c)
  /\ UNCHANGED <<fileVars, checkpoint, runner, verdict>>

\* write_http_response sends the head in pieces and then the body.  To a client that
\* has closed all of them may go out, or the first draws a reset and a later one fails.
WriteResponse ==
  /\ server.at = "answering"
  /\ LET c == Head(server.backlog)
     IN  \/ /\ server' = [at |-> "listening", backlog |-> Tail(server.backlog)]
            /\ conn' = [conn EXCEPT ![c].at = Answer(conn[c].sent)]
         \/ conn[c].ended # "no" /\ EndServer(c)
  /\ UNCHANGED <<fileVars, checkpoint, runner, verdict>>

-----------------------------------------------------------------------------
InferenceInit ==
  /\ weights = 1 /\ exporter = Nothing /\ exports = [begun |-> 0, ended |-> {}]
  /\ \E nnef \in SUBSET {"encoder.nnef", "predictor.nnef"} :
       files = [f \in Dirs \X (Graphs \cup {"onnx_export.json"}) |->
                  IF f[1] = "flat" /\ f[2] \in nnef THEN [export |-> -1, whole |-> TRUE] ELSE Missing]
  /\ checkpoint \in [weights : BOOLEAN, reference : BOOLEAN, steps : SUBSET StepFiles]
  /\ runner = Nothing /\ verdict = Nothing
  /\ server = [at |-> "listening", backlog |-> << >>] /\ conn = [c \in Clients |-> [at |-> "away", sent |-> "silent", ended |-> "no"]]

FilesNext == BeginExport \/ WriteExport \/ StopExport \/ ReplaceWeights \/ LoadGraphs \/ LoadPredictor
CompareNext == RunEval \/ PickStrategy \/ RunBench
ServeNext ==
  \/ Accept \/ ReadRequest \/ WriteResponse
  \/ \E c \in Clients : Connect(c) \/ Send(c) \/ HangUp(c) \/ Reset(c)
InferenceNext == FilesNext \/ LoadBurn \/ CompareNext \/ ServeNext
InferenceSpec == InferenceInit /\ [][InferenceNext]_inferenceVars
ServeFairness ==
  /\ WF_inferenceVars(Accept) /\ WF_inferenceVars(ReadRequest) /\ WF_inferenceVars(WriteResponse)
  /\ \A c \in Clients : WF_inferenceVars(Send(c))

-----------------------------------------------------------------------------
\* Properties

(* Wherever an export was stopped, a sidecar speaks of no graph older than
   itself, and of a pair the encoder is the newer: the sidecar is written last,
   so that one which names the export of both graphs vouches for them
   (export_onnx.py: main; onnx.rs: export_onnx_pair). *)
SidecarComesLast ==
  \A dir \in Dirs :
    LET sidecar == File(dir, "onnx_export.json")
    IN  /\ sidecar.whole => \A d \in sidecar.names :
             /\ File(d, "encoder.onnx").export >= sidecar.export
             /\ File(d, "predictor.onnx").export >= sidecar.export
             /\ sidecar.digest >= sidecar.weights
        /\ File(dir, "predictor.onnx").export <= File(dir, "encoder.onnx").export

(* The loader reads the graphs one after the other, and nothing beside them. It
   pairs graphs of two exports only if the later of the two had not ended when
   it began: an export that was stopped, or one that overlaps the load
   (loader.rs: load; tract_onnx_runner.rs: new). *)
MixedPairMeansUnfinishedExport ==
  runner.at = "graphs" /\ runner.encoder.export # runner.predictor.export
    => Max({runner.encoder.export, runner.predictor.export}) \notin runner.ended

(* Of the step files the one of the greatest number is read, not the one whose
   name sorts last: numbers need not have one width (detect_safetensors). *)
NewestStepIsLoaded ==
  runner.at = "burn" /\ runner.file[1] = "step" =>
    runner.file[2] \in checkpoint.steps /\ \A s \in checkpoint.steps : s <= runner.file[2]

Close(actual, expected, tolerance) ==
  \A i \in DOMAIN actual : Finite(actual[i]) /\ Finite(expected[i]) /\ Diff(actual[i], expected[i]) <= tolerance

(* An evaluation that passes has compared something, and every difference it
   could tell is within the tolerance; one with a NaN it could not tell, see
   PassMeansClose (eval.rs: run_parity_eval). *)
PassMeansComparedAndClose ==
  verdict.at = "report" /\ verdict.pass =>
    /\ verdict.stages # << >>
    /\ \A s \in Range(verdict.stages) : \A i \in DOMAIN s.actual :
         LET d == Diff(s.actual[i], s.expected[i]) IN d = NaN \/ (Finite(d) /\ d <= verdict.tolerance)

(* eval.rs:63 documents pass as "Whether the L-infinity is within tolerance" and
   linf as "max abs diff": an evaluation that passes is of close outputs. *)
PassMeansClose ==
  verdict.at = "report" /\ verdict.pass =>
    \A s \in Range(verdict.stages) : Close(s.actual, s.expected, verdict.tolerance)

(* The strategy that is chosen computes finite values close to the reference; the
   ones tried before it do not, or were blocked; and Burn is chosen only with an
   ADR (verifier.rs: pick_export_strategy). *)
SelectionIsVerified ==
  verdict.at = "decision" =>
    LET passes(s) == Len(verdict.outputs[s]) = Len(verdict.reference)
                       /\ Close(verdict.outputs[s], verdict.reference, ExportTolerance)
    IN  /\ passes(verdict.selected) /\ (verdict.selected = "burn-direct" => verdict.adr)
        /\ \A s \in Range(verdict.tried) : passes(s) => s = "burn-direct" /\ ~verdict.adr

(* The figures of a benchmark are of its episodes and never of the warm-up, and
   at least half of the episodes take no longer than the median it reports. *)
BenchIsOfTheEpisodes ==
  verdict.at = "bench" =>
    LET episodes == (verdict.warmup + 1)..Len(verdict.took)
        upTo(t) == {k \in episodes : verdict.took[k] <= t}
    IN  /\ {verdict.p50, verdict.p95, verdict.max} \subseteq {verdict.took[k] : k \in episodes}
        /\ upTo(verdict.max) = episodes /\ 2 * Cardinality(upTo(verdict.p50)) >= Cardinality(episodes)

(* What is loaded is of one export unless one was under way, what a sidecar
   names is there, and of several step files the newest is taken. *)
ExportsAreTold == SidecarComesLast /\ MixedPairMeansUnfinishedExport /\ NewestStepIsLoaded

(* The three comparisons of the crate: the evaluation, the choice of a strategy
   and the benchmark say nothing the compared values do not. *)
VerdictsAreSound == PassMeansComparedAndClose /\ SelectionIsVerified /\ BenchIsOfTheEpisodes

(* The backlog is served in order, and every client in it is answered, an unknown
   request, one cut in two and an empty one too, unless one of the clients closes
   or resets its connection before its answer is complete, which can end the
   server for all of them: that is what ends it, and nothing else does.  It
   assumes that each client says something or closes in the end: that is the
   fairness of Send, and not of the code, whose read has no timeout
   (lewm-infer.rs: run_serve, handle_connection, write_http_response). *)
ClientsAreAnswered ==
  \A c \in Clients :
    (conn[c].at = "queued") ~>
      \/ conn[c].at = Answer(conn[c].sent)
      \/ server.at = "down" /\ \E d \in Clients : conn[d].at = "gone" /\ conn[d].ended # "no"
=============================================================================
