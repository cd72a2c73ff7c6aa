------------------------------ MODULE TensorOps ------------------------------
(***************************************************************************)
(* Pure tensor operations of lewm-core (tensor_ops.rs): the position       *)
(* embedding of a grid of patches, resampled bicubically to another grid,  *)
(* and the causal mask with its cache.                                     *)
(*                                                                         *)
(* Numbers are exact: a position between source patches has denominator    *)
(* 2 * target (or target - 1), and the four weights of one axis are        *)
(* counted in units of 1 / (4 * denominator^3), which makes both cubics    *)
(* polynomials with whole coefficients for CUBIC_COEFF = -3/4.             *)
(***************************************************************************)
EXTENDS Integers, Sequences

CONSTANTS
  PosEmbeddings, \* position embeddings: n_patch, dim and the flat values
  PatchCounts,   \* n_patch asked for
  SeqLens,       \* seq_len of the masks asked for
  Devices,
  MaxCalls       \* bound

VARIABLES
  resampled,    \* the last call of interpolate_pos_embed and its answer
  cache,        \* CAUSAL_MASK_CACHE: values by seq_len and device
  masked,       \* the last mask returned and what it was asked for
  calls
tensorVars == <<resampled, cache, masked, calls>>

Invalid == [invalid |-> TRUE]

-----------------------------------------------------------------------------
(* Grids. *)

\* square_side: 0 where the code refuses.
SquareSide(n) ==
  IF \E side \in 1..n : side * side = n THEN CHOOSE side \in 1..n : side * side = n ELSE 0

PositionEmbeddingLen(n, dim) == (n + 1) * dim

\* PositionEmbedding::from_values
FromValues(n, dim, values) ==
  IF SquareSide(n) = 0 \/ dim = 0 \/ Len(values) # PositionEmbeddingLen(n, dim) THEN Invalid
  ELSE [n_patch |-> n, dim |-> dim, values |-> values]

IsEmbedding(pos) ==
  {pos.n_patch, pos.dim} \subseteq Nat /\ pos.values \in Seq(Int) /\ pos = FromValues(pos.n_patch, pos.dim, pos.values)

ASSUME TensorAssumption ==
  PatchCounts \cup SeqLens \subseteq Nat /\ \A pos \in PosEmbeddings \ {Invalid} : IsEmbedding(pos)

-----------------------------------------------------------------------------
(* Bicubic interpolation. *)

\* A position on the source axis: a numerator and its denominator.
SourceIndex(input, output, index, corners) ==
  IF corners
  THEN IF output = 1 THEN [num |-> 0, den |-> 1]
       ELSE [num |-> index * (input - 1), den |-> output - 1]
  ELSE [num |-> (2 * index + 1) * input - output, den |-> 2 * output]

\* cubic_weight at distance d/den, times 4 * den^3.
CubicWeight(d, den) ==
  LET x == IF d < 0 THEN -d ELSE d
  IN  IF x <= den THEN 5 * x * x * x - 9 * x * x * den + 4 * den * den * den
      ELSE IF x < 2 * den
      THEN -3 * x * x * x + 15 * x * x * den - 24 * x * den * den + 12 * den * den * den
      ELSE 0

\* The weights of the patches before, at, after and two after the base.
CubicWeights(at) ==
  LET base == at.num \div at.den
  IN  [k \in 1..4 |-> CubicWeight(at.num - (base + k - 2) * at.den, at.den)]

\* Beyond its border a grid repeats the border; starting over is a deviation.
ClampIndexWraps(index, side) == index % side
ClampIndex(index, side) == IF index < 0 THEN 0 ELSE IF index < side THEN index ELSE side - 1

\* A line of source patches at a position, times 4 * den^3.
ResampleLine(at, side, line) ==
  LET base == at.num \div at.den
      weights == CubicWeights(at)
      near(k) == line[ClampIndex(base + k - 2, side)]
  IN  weights[1] * near(1) + weights[2] * near(2) + weights[3] * near(3) + weights[4] * near(4)

\* The value of a patch of a grid, and one of an output patch: sixteen source
\* patches by their weights, times (4 * den^3)^2.
PatchValue(pos, side, y, x, d) == pos.values[(y * side + x + 1) * pos.dim + d]
InterpolatePatch(pos, from, to, y, x, d, corners) ==
  ResampleLine(SourceIndex(from, to, y, corners), from,
    [row \in 0..from - 1 |->
       ResampleLine(SourceIndex(from, to, x, corners), from, [col \in 0..from - 1 |-> PatchValue(pos, from, row, col, d)])])

\* What a value of the answer is counted in.
Scale(from, to, corners) ==
  LET den == SourceIndex(from, to, 0, corners).den IN 16 * (den * den * den) * (den * den * den)

\* Where the p-th value of an embedding of side * side patches belongs: its class
\* token comes first.
PatchRow(pos, side, p) == (((p - 1) \div pos.dim) - 1) \div side
PatchColumn(pos, side, p) == (((p - 1) \div pos.dim) - 1) % side
Feature(pos, p) == ((p - 1) % pos.dim) + 1

\* Each value in units of the scale; the class token is copied.
InUnitsOf(scale, pos) ==
  IF pos = Invalid THEN Invalid ELSE [n_patch |-> pos.n_patch, dim |-> pos.dim, values |-> pos.values, scale |-> scale]
ResampledValues(pos, from, to, corners) ==
  [p \in 1..PositionEmbeddingLen(to * to, pos.dim) |->
     IF p <= pos.dim THEN pos.values[p] * Scale(from, to, corners)
     ELSE InterpolatePatch(pos, from, to, PatchRow(pos, to, p), PatchColumn(pos, to, p), Feature(pos, p), corners)]
InterpolatePosEmbed(pos, n, corners) ==
  IF SquareSide(n) = 0 THEN Invalid
  ELSE IF pos.n_patch = n THEN InUnitsOf(1, pos)
  ELSE LET from == SquareSide(pos.n_patch) to == SquareSide(n)
       IN  InUnitsOf(Scale(from, to, corners), FromValues(n, pos.dim, ResampledValues(pos, from, to, corners)))

Interpolate(pos, n, corners) ==
  /\ calls < MaxCalls /\ calls' = calls + 1
  /\ resampled' = [pos |-> pos, n |-> n, corners |-> corners, answer |-> InterpolatePosEmbed(pos, n, corners)]
  /\ UNCHANGED <<cache, masked>>

-----------------------------------------------------------------------------
(* The causal mask: TRUE is -inf. *)

BuildCausalMaskValues(len) ==
  [k \in 1..len * len |-> (k - 1) % len > (k - 1) \div len]

\* A mask is made once for each length and device; every call returns the cached one.
BuildCausalMask(len, device) ==
  /\ calls < MaxCalls /\ calls' = calls + 1
  /\ LET key == <<len, device>>
     IN  IF len = 0 THEN masked' = Invalid /\ UNCHANGED cache
         ELSE /\ cache' = [k \in DOMAIN cache \cup {key} |->
                              IF k \in DOMAIN cache THEN cache[k] ELSE BuildCausalMaskValues(len)]
              /\ masked' = [seq_len |-> len, device |-> device, values |-> cache'[key]]
  /\ UNCHANGED resampled

-----------------------------------------------------------------------------
TensorInit ==
  /\ resampled = Invalid /\ masked = Invalid
  /\ cache = << >> /\ calls = 0

TensorNext ==
  \/ \E pos \in PosEmbeddings, n \in PatchCounts, corners \in BOOLEAN :
       pos # Invalid /\ Interpolate(pos, n, corners)
  \/ \E len \in SeqLens, device \in Devices : BuildCausalMask(len, device)

TensorSpec == TensorInit /\ [][TensorNext]_tensorVars

-----------------------------------------------------------------------------
(* Properties. *)

\* The values of an embedding, changed.
Transposed(pos, side) ==
  [p \in DOMAIN pos.values |->
     IF p <= pos.dim THEN pos.values[p]
     ELSE PatchValue(pos, side, PatchColumn(pos, side, p), PatchRow(pos, side, p), Feature(pos, p))]
Mirrored(pos, side) ==
  [p \in DOMAIN pos.values |->
     IF p <= pos.dim THEN pos.values[p]
     ELSE PatchValue(pos, side, PatchRow(pos, side, p), side - 1 - PatchColumn(pos, side, p), Feature(pos, p))]
Raised(pos, by) == [p \in DOMAIN pos.values |-> pos.values[p] + by]
Touched(pos, patch) ==
  [p \in DOMAIN pos.values |-> pos.values[p] + (IF p = (patch + 1) * pos.dim + 1 THEN 1 ELSE 0)]

\* Along one axis the source patch lies two patches or more from the output patch.
TooFar(pos, source, n, patch, corners) ==
  LET from == SquareSide(pos.n_patch) to == SquareSide(n)
      apart(a, b) ==
        LET at == SourceIndex(from, to, b, corners) off == a * at.den - at.num
        IN  off >= 2 * at.den \/ -off >= 2 * at.den
  IN  apart(source \div from, patch \div to) \/ apart(source % from, patch % to)

\* The values of the answer if the embedding had other values.
Again(pos, values, n, corners) == InterpolatePosEmbed([pos EXCEPT !.values = values], n, corners).values

\* The class token is kept, and there is one vector for each patch asked for.
HasEveryPatch(pos, n, answer) ==
  /\ Len(answer.values) = (n + 1) * pos.dim
  /\ \A p \in 1..pos.dim : answer.values[p] = answer.scale * pos.values[p]

\* A transposed, mirrored or raised embedding gives the transposed, mirrored or
\* raised answer: the grid is treated alike in both directions and from both
\* sides, and the sixteen weights of a patch add up to one wherever the grid
\* ends. One patch with aligned corners is the first corner, mirrored or not.
TurnsWithTheGrid(pos, n, corners, answer) ==
  LET from == SquareSide(pos.n_patch) to == SquareSide(n)
  IN  /\ Again(pos, Transposed(pos, from), n, corners) = Transposed(answer, to)
      /\ (corners /\ to = 1) \/ Again(pos, Mirrored(pos, from), n, corners) = Mirrored(answer, to)
RisesWithTheGrid(pos, n, corners, answer) ==
  Again(pos, Raised(pos, 1), n, corners) = Raised(answer, answer.scale)

\* A source patch reaches no answer two patches away, around no border either.
StaysLocal(pos, n, corners, answer) ==
  \A source \in 0..pos.n_patch - 1, patch \in 0..n - 1 :
    SquareSide(pos.n_patch) # SquareSide(n) /\ TooFar(pos, source, n, patch, corners) =>
      Again(pos, Touched(pos, source), n, corners)[(patch + 1) * pos.dim + 1] = answer.values[(patch + 1) * pos.dim + 1]

\* The short cut for equal grids is what the sums would give.
ShortCutIsExact(pos, n, corners) ==
  LET side == SquareSide(n)
  IN  pos.n_patch = n =>
        \A y, x \in 0..side - 1, d \in 1..pos.dim :
          InterpolatePatch(pos, side, side, y, x, d, corners) = Scale(side, side, corners) * PatchValue(pos, side, y, x, d)

PositionsAreInterpolated ==
  resampled # Invalid /\ resampled.answer # Invalid =>
    LET pos == resampled.pos n == resampled.n corners == resampled.corners answer == resampled.answer
    IN  /\ HasEveryPatch(pos, n, answer) /\ TurnsWithTheGrid(pos, n, corners, answer)
        /\ RisesWithTheGrid(pos, n, corners, answer) /\ StaysLocal(pos, n, corners, answer)
        /\ ShortCutIsExact(pos, n, corners)

\* Whatever was asked before, a mask has the length asked for and hides from each
\* position exactly the later ones.
MasksAreCausal ==
  masked # Invalid =>
    \A row, col \in 0..masked.seq_len - 1 :
      /\ Len(masked.values) = masked.seq_len * masked.seq_len
      /\ masked.values[row * masked.seq_len + col + 1] = (col > row)

(* The two tensors built by index arithmetic have, at each index, the value that
   their definition by row and column gives (tensor_ops.rs:
   interpolate_pos_embed, build_causal_mask). *)
TensorsAreExact == PositionsAreInterpolated /\ MasksAreCausal
=============================================================================
