--------------------------- MODULE CollapseDetector ---------------------------
(***************************************************************************)
(* The representation-collapse alarm: the probe of lewm-core (losses/      *)
(* collapse.rs) measures a batch of CLS embeddings and CollapseDetector    *)
(* (lewm-telemetry/src/collapse.rs) counts the collapsed batches in a row  *)
(* and writes an artifact for the one that completes the count.            *)
(*                                                                         *)
(* An embedding is an integer vector along one axis, whose norm is the sum *)
(* of its absolute values, so that every measure is an exact quotient.     *)
(***************************************************************************)
EXTENDS Integers, Sequences, FiniteSets

CONSTANTS
  Embeddings,           \* the embeddings a batch is made of
  NotFinite,      \* an embedding with a NaN or an infinity
  BatchFrames,    \* COLLAPSE_PROBE_BATCH_FRAMES
  Dim,
  TripsRequired,  \* trips_required
  Percent,        \* the thresholds in hundredths: mean_abs, variance, cosine
  MaxProbes       \* bound on the observations

ASSUME DetectorAssumption ==
  /\ NotFinite \notin Embeddings /\ BatchFrames \in Nat \ {0, 1} /\ Dim \in Nat \ {0}
  /\ TripsRequired \in Nat \ {0} /\ MaxProbes \in Nat
  /\ Percent \in [mean_abs : Nat, variance : Nat, cosine : -100..100]
  /\ \A v \in Embeddings : v \in [1..Dim -> Int] /\ \A i, j \in 1..Dim : v[i] # 0 /\ v[j] # 0 => i = j

VARIABLES
  trips,      \* trips_in_a_row
  artifacts,  \* the steps with a collapse_suspected file
  probes,     \* history: the answer to every observation
  unwritten   \* history: the steps whose artifact could not be written

detectorVars == <<trips, artifacts, probes, unwritten>>

Batch == UNION {[1..n -> Embeddings \cup {NotFinite}] : n \in {BatchFrames - 1, BatchFrames}}

DetectorInit == trips = 0 /\ artifacts = {} /\ probes = << >> /\ unwritten = {}

\* The sum of a sequence of numbers.
Sum(s) ==
  LET sum[i \in 0..Len(s)] == IF i = 0 THEN 0 ELSE sum[i - 1] + s[i] IN sum[Len(s)]
Abs(x) == IF x < 0 THEN -x ELSE x
Norm(v) == Sum([i \in 1..Dim |-> Abs(v[i])])

\* mean_abs_cls > ceiling
MeanAbsTrips(cls) ==
  100 * Sum([r \in 1..Len(cls) |-> Norm(cls[r])]) > Percent.mean_abs * Len(cls) * Dim

\* cls_variance_per_dim_mean < floor; the variance of each dimension is the
\* sample variance: (n * sum of squares - square of the sum) / (n * (n - 1)).
VarianceTrips(cls) ==
  LET n == Len(cls)
      spread(i) == LET s == Sum([r \in 1..n |-> cls[r][i]])
                   IN  n * Sum([r \in 1..n |-> cls[r][i] * cls[r][i]]) - s * s
  IN  100 * Sum([i \in 1..Dim |-> spread(i)]) < Percent.variance * n * (n - 1) * Dim

\* pairwise_cosine: two null embeddings are alike, a null one and another are not.
Cosine(v, w) ==
  IF Norm(v) = 0 /\ Norm(w) = 0 THEN 1
  ELSE IF Norm(v) = 0 \/ Norm(w) = 0 THEN 0
  ELSE Sum([i \in 1..Dim |-> v[i] * w[i]]) \div (Norm(v) * Norm(w))

\* mean_pairwise_cosine > ceiling, over the pairs of distinct rows
CosineTrips(cls) ==
  LET n == Len(cls)
      after(l) == Sum([r \in 1..n |-> IF l < r THEN Cosine(cls[l], cls[r]) ELSE 0])
  IN  100 * Sum([l \in 1..n |-> after(l)]) > Percent.cosine * ((n * (n - 1)) \div 2)

\* validate_cls, then the three thresholds: a batch trips by any of them.
Probe(cls) ==
  IF Len(cls) # BatchFrames \/ \E r \in DOMAIN cls : cls[r] = NotFinite THEN "error"
  ELSE IF MeanAbsTrips(cls) \/ VarianceTrips(cls) \/ CosineTrips(cls) THEN "collapsed"
  ELSE "healthy"

AlarmFromThen(n) == n >= TripsRequired
Alarm(n) == n = TripsRequired

CountAfter(answer) ==
  CASE answer = "collapsed" -> trips + 1 [] answer = "healthy" -> 0 [] answer = "error" -> trips

\* observe_cls: a batch of another size or with a value that is not finite is an
\* error and leaves the count alone.  The count moves before the artifact is
\* written, so that a write that fails is not tried again.
Observe(cls, canWrite) ==
  LET answer == Probe(cls)
      step == Len(probes) + 1
      count == CountAfter(answer)
      alarm == answer # "error" /\ Alarm(count)
  IN  /\ Len(probes) < MaxProbes
      /\ trips' = count
      /\ probes' = Append(probes, answer)
      /\ artifacts' = IF alarm /\ canWrite THEN artifacts \cup {step} ELSE artifacts
      /\ unwritten' = IF alarm /\ ~canWrite THEN unwritten \cup {step} ELSE unwritten

DetectorNext == \E cls \in Batch, canWrite \in BOOLEAN : Observe(cls, canWrite)

DetectorSpec == DetectorInit /\ [][DetectorNext]_detectorVars
-----------------------------------------------------------------------------
\* Properties

(* The alarms are those of the history, read without the errors: one for every
   run of collapsed batches that reaches the count, at the batch that completes
   it, however long the run then lasts; a failed write is the only reason for an
   artifact to be missing, and then the run has none (collapse.rs:121). *)
AlarmOncePerCollapse ==
  LET collapsed(i) == probes[i] = "collapsed"
      inRow(i) == Cardinality({j \in 1..i : /\ collapsed(j)
                                            /\ \A k \in j..i : probes[k] # "healthy"})
  IN  artifacts \cup unwritten = {i \in DOMAIN probes : collapsed(i) /\ inRow(i) = TripsRequired}

AnswersToConstants == {Probe([r \in 1..BatchFrames |-> v]) : v \in Embeddings}

(* A batch whose embeddings are all the same counts as collapsed, whatever they
   are and whatever came before it: the probe is blind to no constant encoder
   (losses/collapse.rs). *)
ConstantEncoderIsCaught == \A answer \in AnswersToConstants : CountAfter(answer) = trips + 1

(* A collapse is recognised and reported once (losses/collapse.rs, collapse.rs). *)
CollapseIsReported == AlarmOncePerCollapse /\ ConstantEncoderIsCaught
=============================================================================
