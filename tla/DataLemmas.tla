----------------------------- MODULE DataLemmas -----------------------------
(***************************************************************************)
(* What the proofs about data keep needing: the least number of a set and  *)
(* the greatest of a finite one, sequences by their places, recursive      *)
(* functions and folds of the library step by step, and lists of lists     *)
(* one after the other.                                                    *)
(***************************************************************************)
EXTENDS Integers, FiniteSets, SequencesExt, FiniteSetTheorems, SequenceTheorems, WellFoundedInduction, TLAPS

-----------------------------------------------------------------------------
(* Numbers and sequences. *)

LEMMA LeastNumber ==
  ASSUME NEW S, S \subseteq Nat, S # {}
  PROVE  \E m \in S : \A x \in S : m <= x
<1>1. PICK m \in S : \A x \in S : ~(<<x, m>> \in OpToRel(<, Nat))
  BY NatLessThanWellFounded, WFMin, Zenon
<1>2. \A x \in S : ~(x < m)
  BY <1>1 DEF OpToRel
<1> QED BY <1>2

LEMMA OneToN == ASSUME NEW n \in Nat PROVE IsFiniteSet(1..n) /\ Cardinality(1..n) = n
<1>1. IsFiniteSet(1..n) /\ Cardinality(1..n) = IF 1 > n THEN 0 ELSE n - 1 + 1
  BY FS_Interval
<1> QED BY <1>1

Greatest(S, m) == m \in S /\ \A x \in S : x <= m

\* By a smallest counterexample: without one of its elements a set has a greatest.
LEMMA FiniteSetsHaveAGreatest ==
  ASSUME NEW S \in SUBSET Nat, IsFiniteSet(S), S # {}
  PROVE  Greatest(S, Max(S))
<1> DEFINE Without == {n \in Nat : \E T \in SUBSET Nat : IsFiniteSet(T) /\ T # {} /\ Cardinality(T) = n
                                       /\ \A m \in T : ~Greatest(T, m)}
<1>1. Without = {}
  <2>1. SUFFICES ASSUME Without # {} PROVE FALSE
    OBVIOUS
  <2>2. PICK n \in Without : \A k \in Without : n <= k
    <3>1. Without \subseteq Nat
      OBVIOUS
    <3> HIDE DEF Without
    <3> QED BY <2>1, <3>1, LeastNumber
  <2>3. PICK T \in SUBSET Nat : IsFiniteSet(T) /\ T # {} /\ Cardinality(T) = n /\ \A m \in T : ~Greatest(T, m)
    BY <2>2
  <2>4. PICK x \in T : TRUE
    BY <2>3
  <2> DEFINE R == T \ {x}
  <2>5. IsFiniteSet(R) /\ Cardinality(R) = n - 1 /\ R \in SUBSET Nat
    BY <2>3, <2>4, FS_RemoveElement
  <2>6. n - 1 \notin Without /\ n - 1 \in Nat
    <3>1. n - 1 \in Nat
      BY <2>5, FS_CardinalityType
    <3>2. n \in Nat /\ ~(n <= n - 1)
      BY <3>1, <2>2
    <3> QED BY <2>2, <3>1, <3>2
  <2>7. CASE R = {}
    <3>1. T = {x} /\ x \in Nat
      BY <2>7, <2>4, <2>3
    <3>2. Greatest(T, x)
      BY <3>1 DEF Greatest
    <3> QED BY <3>2, <2>3, <2>4
  <2>8. CASE R # {}
    <3>1. PICK m \in R : Greatest(R, m)
      BY <2>5, <2>6, <2>8
    <3>2. m \in Nat /\ x \in Nat
      BY <3>1, <2>4, <2>5
    <3>3. CASE m <= x
      <4>1. Greatest(T, x)
        BY <3>1, <3>2, <3>3, <2>3, <2>4 DEF Greatest
      <4> QED BY <4>1, <2>3, <2>4
    <3>4. CASE ~(m <= x)
      <4>1. Greatest(T, m)
        BY <3>1, <3>2, <3>4, <2>3, <2>4 DEF Greatest
      <4> QED BY <4>1, <3>1, <2>3
    <3> QED BY <3>3, <3>4
  <2> QED BY <2>7, <2>8
<1>2. Cardinality(S) \in Nat
  BY FS_CardinalityType
<1>3. PICK m \in S : Greatest(S, m)
  BY <1>1, <1>2
<1>4. \E y \in S : \A x \in S : y >= x
  BY <1>3 DEF Greatest
<1>5. Max(S) \in S /\ \A x \in S : Max(S) >= x
  BY <1>4 DEF Max
<1> QED BY <1>5 DEF Greatest

LEMMA ConcatAt ==
  ASSUME NEW X, NEW a \in Seq(X), NEW b \in Seq(X)
  PROVE  /\ a \o b \in Seq(X) /\ Len(a \o b) = Len(a) + Len(b)
         /\ \A i \in 1..Len(a) : (a \o b)[i] = a[i]
         /\ \A i \in 1..Len(b) : (a \o b)[Len(a) + i] = b[i]
OBVIOUS

LEMMA AsSeq ==
  ASSUME NEW X, NEW n \in Nat, NEW f, f = [i \in 1..n |-> f[i]], \A i \in 1..n : f[i] \in X
  PROVE  f \in Seq(X) /\ Len(f) = n
<1>1. f \in [1..n -> X]
  OBVIOUS
<1>2. f \in Seq(X)
  BY <1>1, SeqDef
<1> QED BY <1>1, <1>2

-----------------------------------------------------------------------------
(* Division. *)

\* A number is one quotient and one remainder.
LEMMA DivMod ==
  ASSUME NEW n \in Nat \ {0}, NEW a \in Int, NEW q \in Int, NEW r \in Int, a = q * n + r, 0 <= r, r < n
  PROVE  a \div n = q /\ a % n = r
<1>1. a \div n \in Int /\ a % n \in 0..(n - 1) /\ a = n * (a \div n) + (a % n)
  OBVIOUS
<1> DEFINE d == a \div n
           m == a % n
<1>2. d \in Int /\ m \in Int /\ 0 <= m /\ m < n /\ n * d + m = q * n + r
  BY <1>1
<1> HIDE DEF d, m
<1>3. d = q
  <2>1. CASE d < q
    <3>1. d + 1 <= q
      BY <1>2, <2>1
    <3>2. n * (d + 1) <= n * q
      BY <1>2, <3>1
    <3>3. n * (d + 1) = n * d + n /\ n * q = q * n /\ n * d \in Int /\ q * n \in Int
      BY <1>2
    <3> QED BY <1>2, <3>2, <3>3
  <2>2. CASE d > q
    <3>1. q + 1 <= d
      BY <1>2, <2>2
    <3>2. n * (q + 1) <= n * d
      BY <1>2, <3>1
    <3>3. n * (q + 1) = q * n + n /\ n * d \in Int /\ q * n \in Int
      BY <1>2
    <3> QED BY <1>2, <3>2, <3>3
  <2> QED BY <1>2, <2>1, <2>2
<1>4. m = r
  <2>1. n * d = q * n /\ q * n \in Int
    BY <1>2, <1>3
  <2> QED BY <1>2, <2>1
<1> QED BY <1>3, <1>4 DEF d, m

LEMMA Divided ==
  ASSUME NEW n \in Nat \ {0}, NEW a \in Int
  PROVE  a \div n \in Int /\ a % n \in 0..(n - 1) /\ a = (a \div n) * n + (a % n)
OBVIOUS

\* In row q of rows of n, and no further than the last row.
LEMMA RowOf ==
  ASSUME NEW n \in Nat \ {0}, NEW m \in Int, NEW a \in Int, 0 <= a, a < m * n
  PROVE  a \div n \in Int /\ 0 <= a \div n /\ a \div n < m
<1>1. a \div n \in Int /\ a % n \in 0..(n - 1) /\ a = (a \div n) * n + (a % n)
  BY Divided
<1> DEFINE d == a \div n
           r == a % n
<1>2. d \in Int /\ r \in Int /\ 0 <= r /\ r < n /\ a = d * n + r
  BY <1>1
<1> HIDE DEF d, r
<1>3. 0 <= d
  <2> SUFFICES ASSUME d <= -1 PROVE FALSE
    BY <1>2
  <2>1. d * n <= (-1) * n
    BY <1>2
  <2>2. d * n \in Int /\ (-1) * n = -n
    BY <1>2
  <2> QED BY <1>2, <2>1, <2>2
<1>4. d < m
  <2> SUFFICES ASSUME m <= d PROVE FALSE
    BY <1>2
  <2>1. m * n <= d * n
    BY <1>2
  <2>2. d * n \in Int /\ m * n \in Int
    BY <1>2
  <2> QED BY <1>2, <2>1, <2>2
<1> QED BY <1>2, <1>3, <1>4 DEF d

-----------------------------------------------------------------------------
(* Recursion and folds.  A step is a function, where a model has an operator: *)
(* the lemmas are cited with the function that an operator is on the values   *)
(* that occur.                                                                *)

\* The values up to n, from b on, each the step from the one before.
Iterates(V, n, b, step, f) ==
  /\ f \in [0..n -> V] /\ f[0] = b
  /\ \A i \in 1..n : f[i] = step[i][f[i - 1]]

LEMMA Recursion ==
  ASSUME NEW V, NEW n \in Nat, NEW b \in V, NEW h \in [1..n -> [V -> V]]
  PROVE  \E f : Iterates(V, n, b, h, f)
<1> DEFINE Upto(m, f) == /\ f \in [0..m -> V] /\ f[0] = b
                         /\ \A i \in 1..m : f[i] = h[i][f[i - 1]]
           Bad == {m \in 0..n : ~\E f : Upto(m, f)}
<1>1. Bad = {}
  <2> SUFFICES ASSUME Bad # {} PROVE FALSE
    OBVIOUS
  <2>1. PICK m \in Bad : \A x \in Bad : m <= x
    <3>1. Bad \subseteq Nat
      OBVIOUS
    <3> HIDE DEF Bad
    <3> QED BY <3>1, LeastNumber
  <2>2. m \in 0..n /\ ~\E f : Upto(m, f)
    OBVIOUS
  <2>3. m # 0
    <3>1. Upto(0, [i \in 0..0 |-> b])
      OBVIOUS
    <3> QED BY <2>2, <3>1
  <2>4. m - 1 \in 0..n /\ m \in 1..n /\ m - 1 \notin Bad
    <3>1. m - 1 \in 0..n /\ m \in 1..n /\ ~(m <= m - 1)
      BY <2>2, <2>3
    <3> HIDE DEF Bad
    <3> QED BY <2>1, <3>1
  <2>5. PICK f : Upto(m - 1, f)
    <3>1. \E f : Upto(m - 1, f)
      <4> HIDE DEF Upto
      <4> QED BY <2>4
    <3> QED BY <3>1
  <2> DEFINE g == [i \in 0..m |-> IF i = m THEN h[m][f[m - 1]] ELSE f[i]]
  <2>6. f[m - 1] \in V /\ h[m] \in [V -> V]
    BY <2>4, <2>5
  <2>7. g \in [0..m -> V]
    <3>1. ASSUME NEW i \in 0..m PROVE g[i] \in V
      <4>1. i = m \/ i \in 0..(m - 1)
        BY <2>4
      <4> QED BY <2>5, <2>6, <4>1
    <3> QED BY <3>1
  <2>8. g[0] = b
    BY <2>3, <2>4, <2>5
  <2>9. ASSUME NEW i \in 1..m PROVE g[i] = h[i][g[i - 1]]
    <3>1. CASE i = m
      <4>1. m - 1 \in 0..m /\ m \in 0..m /\ m - 1 # m
        BY <2>4
      <4>2. g[m - 1] = f[m - 1] /\ g[m] = h[m][f[m - 1]]
        BY <4>1
      <4> QED BY <3>1, <4>2
    <3>2. CASE i # m
      <4>1. i \in 1..(m - 1) /\ i - 1 \in 0..m /\ i - 1 # m /\ i \in 0..m
        BY <2>4, <3>2
      <4>2. g[i - 1] = f[i - 1] /\ g[i] = f[i]
        BY <3>2, <4>1
      <4> QED BY <2>5, <4>1, <4>2
    <3> QED BY <3>1, <3>2
  <2>10. Upto(m, g)
    BY <2>7, <2>8, <2>9
  <2> QED BY <2>2, <2>10
<1>2. \E f : Upto(n, f)
  <2>1. n \in 0..n
    OBVIOUS
  <2> HIDE DEF Upto
  <2> QED BY <1>1, <2>1
<1> QED BY <1>2 DEF Iterates

\* Two such functions are one.
LEMMA RecursionIsUnique ==
  ASSUME NEW n \in Nat, NEW f, NEW g, f[0] = g[0],
         \A i \in 1..n : f[i - 1] = g[i - 1] => f[i] = g[i]
  PROVE  \A i \in 0..n : f[i] = g[i]
<1> DEFINE Bad == {i \in 0..n : f[i] # g[i]}
<1> SUFFICES ASSUME Bad # {} PROVE FALSE
  OBVIOUS
<1>1. PICK i \in Bad : \A x \in Bad : i <= x
  <2>1. Bad \subseteq Nat
    OBVIOUS
  <2> HIDE DEF Bad
  <2> QED BY <2>1, LeastNumber
<1>2. i \in 0..n /\ f[i] # g[i]
  OBVIOUS
<1>3. i # 0
  BY <1>2
<1>4. i - 1 \in 0..n /\ i \in 1..n /\ ~(i <= i - 1)
  BY <1>2, <1>3
<1>5. i - 1 \notin Bad
  <2> HIDE DEF Bad
  <2> QED BY <1>1, <1>4
<1> QED BY <1>2, <1>4, <1>5

\* What holds at first, and of a value if of the one before, holds of all.
LEMMA Induction ==
  ASSUME NEW n \in Nat, NEW S, 0 \in S, \A i \in 1..n : i - 1 \in S => i \in S
  PROVE  0..n \subseteq S
<1> DEFINE Bad == {i \in 0..n : i \notin S}
<1> SUFFICES ASSUME Bad # {} PROVE FALSE
  OBVIOUS
<1>1. PICK i \in Bad : \A x \in Bad : i <= x
  <2>1. Bad \subseteq Nat
    OBVIOUS
  <2> HIDE DEF Bad
  <2> QED BY <2>1, LeastNumber
<1>2. i \in 0..n /\ i \notin S
  OBVIOUS
<1>3. i - 1 \in 0..n /\ i \in 1..n /\ ~(i <= i - 1)
  BY <1>2
<1>4. i - 1 \notin Bad
  <2> HIDE DEF Bad
  <2> QED BY <1>1, <1>3
<1> QED BY <1>2, <1>3, <1>4

\* The greatest of the first numbers.
LEMMA MaxOfFirst ==
  ASSUME NEW k \in Nat, k # 0
  PROVE  Max(1..k) = k
<1>1. k \in 1..k /\ \A y \in 1..k : k >= y
  OBVIOUS
<1>2. Max(1..k) \in 1..k /\ \A y \in 1..k : Max(1..k) >= y
  BY <1>1 DEF Max
<1> QED BY <1>1, <1>2

\* The greatest of any of them.
LEMMA MaxOfSome ==
  ASSUME NEW n \in Nat, NEW s \in SUBSET (1..n), s # {}
  PROVE  Max(s) \in s /\ \A y \in s : y <= Max(s)
<1>1. s \in SUBSET Nat
  OBVIOUS
<1>2. IsFiniteSet(s)
  <2>1. IsFiniteSet(1..n)
    BY FS_Interval
  <2> QED BY <2>1, FS_Subset
<1> QED BY <1>1, <1>2, FiniteSetsHaveAGreatest DEF Greatest

LEMMA FirstAndLast ==
  ASSUME NEW k \in Nat, k # 0
  PROVE  Max(1..k) = k /\ (1..k) \ {k} = 1..(k - 1) /\ 1..k # {} /\ k - 1 \in Nat
<1>1. Max(1..k) = k
  BY MaxOfFirst
<1>2. (1..k) \ {k} = 1..(k - 1) /\ k \in 1..k /\ k - 1 \in Nat
  OBVIOUS
<1> QED BY <1>1, <1>2

\* The fold of the library is defined on all sets of places, so that the function
\* it chooses is this one only if one exists on all of them.
Folds(V, n, b, step, g) ==
  /\ g \in [SUBSET (1..n) -> V]
  /\ \A s \in SUBSET (1..n) : g[s] = IF s = {} THEN b ELSE step[Max(s)][g[s \ {Max(s)}]]

\* The values along all places, those of a set being taken and the others left out.
Along(V, n, b, step, s, f) ==
  /\ f \in [0..n -> V] /\ f[0] = b
  /\ \A i \in 1..n : f[i] = IF i \in s THEN step[i][f[i - 1]] ELSE f[i - 1]

LEMMA AlongExists ==
  ASSUME NEW V, NEW n \in Nat, NEW b \in V, NEW h \in [1..n -> [V -> V]], NEW s \in SUBSET (1..n)
  PROVE  \E f : Along(V, n, b, h, s, f)
<1> DEFINE step == [i \in 1..n |-> IF i \in s THEN h[i] ELSE [v \in V |-> v]]
<1>1. step \in [1..n -> [V -> V]]
  OBVIOUS
<1>2. PICK f : Iterates(V, n, b, step, f)
  <2> HIDE DEF step
  <2> QED BY <1>1, Recursion
<1>3. ASSUME NEW i \in 1..n PROVE f[i] = IF i \in s THEN h[i][f[i - 1]] ELSE f[i - 1]
  <2>1. i - 1 \in 0..n
    OBVIOUS
  <2>2. f[i - 1] \in V /\ f[i] = step[i][f[i - 1]]
    BY <2>1, <1>2 DEF Iterates
  <2> QED BY <2>2
<1> QED BY <1>2, <1>3 DEF Along, Iterates

LEMMA AlongRests ==
  ASSUME NEW V, NEW n \in Nat, NEW b, NEW h, NEW s, NEW f, Along(V, n, b, h, s, f),
         NEW k \in 0..n, \A i \in (k + 1)..n : i \notin s
  PROVE  f[n] = f[k]
<1> DEFINE S == {i \in 0..n : i < k \/ f[i] = f[k]}
<1>1. 0 \in S
  OBVIOUS
<1>2. ASSUME NEW i \in 1..n, i - 1 \in S PROVE i \in S
  <2>1. CASE i <= k
    BY <2>1
  <2>2. CASE i > k
    <3>1. i \in (k + 1)..n /\ ~(i - 1 < k)
      BY <2>2
    <3>2. i \notin s /\ f[i - 1] = f[k]
      BY <3>1, <1>2
    <3>3. f[i] = f[i - 1]
      BY <3>2 DEF Along
    <3> QED BY <3>2, <3>3
  <2> QED BY <2>1, <2>2
<1>3. 0..n \subseteq S
  <2> HIDE DEF S
  <2> QED BY <1>1, <1>2, Induction
<1>4. n \in 0..n /\ ~(n < k)
  OBVIOUS
<1> QED BY <1>3, <1>4

\* The greatest of the places is the last that is taken.
LEMMA AlongByOne ==
  ASSUME NEW V, NEW n \in Nat, NEW b, NEW h, NEW s \in SUBSET (1..n), NEW m \in s, \A y \in s : y <= m,
         NEW f, Along(V, n, b, h, s, f), NEW g, Along(V, n, b, h, s \ {m}, g)
  PROVE  f[n] = h[m][g[n]]
<1> DEFINE t == s \ {m}
<1>1. m \in 1..n /\ m \in 0..n /\ m - 1 \in 0..n /\ m - 1 \in Nat
  OBVIOUS
<1>2. f[n] = f[m]
  <2>1. \A i \in (m + 1)..n : i \notin s
    BY <1>1
  <2> QED BY <2>1, <1>1, AlongRests
<1>3. g[n] = g[m - 1]
  <2>1. \A i \in ((m - 1) + 1)..n : i \notin t
    BY <1>1
  <2> HIDE DEF t
  <2>2. Along(V, n, b, h, t, g)
    BY DEF t
  <2> QED BY <2>1, <2>2, <1>1, AlongRests
<1>4. f[m] = h[m][f[m - 1]]
  BY <1>1 DEF Along
<1>5. ASSUME NEW i \in 1..(m - 1), f[i - 1] = g[i - 1] PROVE f[i] = g[i]
  <2>1. i \in 1..n /\ (i \in s <=> i \in t)
    BY <1>1
  <2>2. /\ f[i] = IF i \in s THEN h[i][f[i - 1]] ELSE f[i - 1]
        /\ g[i] = IF i \in t THEN h[i][g[i - 1]] ELSE g[i - 1]
    BY <2>1 DEF Along
  <2> QED BY <2>1, <2>2, <1>5
<1>6. f[0] = g[0]
  BY DEF Along
<1>7. \A i \in 0..(m - 1) : f[i] = g[i]
  BY <1>1, <1>5, <1>6, RecursionIsUnique
<1>8. f[m - 1] = g[m - 1]
  BY <1>1, <1>7
<1> QED BY <1>2, <1>3, <1>4, <1>8

LEMMA FoldOfAlong ==
  ASSUME NEW V, NEW n \in Nat, NEW b, NEW h, NEW F, \A s \in SUBSET (1..n) : Along(V, n, b, h, s, F[s])
  PROVE  \E g : Folds(V, n, b, h, g)
<1> DEFINE P == SUBSET (1..n)
           g == [s \in P |-> F[s][n]]
<1>1. \A s \in P : Along(V, n, b, h, s, F[s])
  OBVIOUS
<1>2. \A s \in P : F[s][n] \in V
  <2>1. n \in 0..n
    OBVIOUS
  <2> QED BY <2>1, <1>1 DEF Along
<1>3. ASSUME NEW s \in P PROVE g[s] = IF s = {} THEN b ELSE h[Max(s)][g[s \ {Max(s)}]]
  <2>1. CASE s = {}
    <3>1. 0 \in 0..n /\ \A i \in (0 + 1)..n : i \notin s
      BY <2>1
    <3>2. Along(V, n, b, h, s, F[s])
      BY <1>1
    <3>3. F[s][n] = F[s][0]
      <4>1. \A f : Along(V, n, b, h, s, f) => f[n] = f[0]
        BY <3>1, AlongRests
      <4> QED BY <3>2, <4>1
    <3> QED BY <2>1, <3>2, <3>3 DEF Along
  <2>2. CASE s # {}
    <3> DEFINE m == Max(s)
    <3>1. m \in s /\ \A y \in s : y <= m
      BY <2>2, MaxOfSome
    <3> HIDE DEF m
    <3>2. s \ {m} \in P
      OBVIOUS
    <3>3. Along(V, n, b, h, s, F[s]) /\ Along(V, n, b, h, s \ {m}, F[s \ {m}])
      BY <3>2, <1>1
    <3>4. F[s][n] = h[m][F[s \ {m}][n]]
      <4>1. \A f, r : Along(V, n, b, h, s, f) /\ Along(V, n, b, h, s \ {m}, r) => f[n] = h[m][r[n]]
        BY <3>1, AlongByOne
      <4> QED BY <3>3, <4>1
    <3>5. g[s] = h[m][g[s \ {m}]]
      BY <3>2, <3>4
    <3> QED BY <2>2, <3>5 DEF m
  <2> QED BY <2>1, <2>2
<1>4. g \in [P -> V]
  BY <1>2
<1> HIDE DEF g
<1> QED BY <1>3, <1>4 DEF Folds

LEMMA FoldExists ==
  ASSUME NEW V, NEW n \in Nat, NEW b \in V, NEW h, h \in [1..n -> [V -> V]]
  PROVE  \E g : Folds(V, n, b, h, g)
<1> DEFINE F == [s \in SUBSET (1..n) |-> CHOOSE f : Along(V, n, b, h, s, f)]
<1>1. \A s \in SUBSET (1..n) : Along(V, n, b, h, s, F[s])
  BY AlongExists
<1> HIDE DEF F
<1> QED BY <1>1, FoldOfAlong

-----------------------------------------------------------------------------
(* Lists of lists. *)

\* The sequences of a sequence one after the other, up to each of them.
JoinsOf(n, seqs, f) == f[0] = << >> /\ \A i \in 1..n : f[i] = f[i - 1] \o seqs[i]
Joins(X, n, seqs, f) == f \in [0..n -> Seq(X)] /\ JoinsOf(n, seqs, f)

LEMMA OneJoin ==
  ASSUME NEW n \in Nat, NEW seqs, NEW f, NEW g, JoinsOf(n, seqs, f), JoinsOf(n, seqs, g)
  PROVE  \A i \in 0..n : f[i] = g[i]
<1>1. \A i \in 1..n : f[i - 1] = g[i - 1] => f[i] = g[i]
  <2>1. ASSUME NEW i \in 1..n, f[i - 1] = g[i - 1] PROVE f[i] = g[i]
    <3>1. f[i] = f[i - 1] \o seqs[i] /\ g[i] = g[i - 1] \o seqs[i]
      BY DEF JoinsOf
    <3> QED BY <2>1, <3>1, Zenon
  <2> QED BY <2>1
<1> QED BY <1>1, RecursionIsUnique DEF JoinsOf

LEMMA FlattenJoins ==
  ASSUME NEW X, NEW n \in Nat, NEW seqs \in [1..n -> Seq(X)]
  PROVE  \E f : Joins(X, n, seqs, f) /\ FlattenSeq(seqs) = f[n]
<1> DEFINE step == [i \in 1..n |-> [x \in Seq(X) |-> x \o seqs[i]]]
           Rec(g) == g = [i \in 1..n |-> IF i = 1 THEN seqs[i] ELSE g[i - 1] \o seqs[i]]
           flatten == CHOOSE g : Rec(g)
<1>1. Len(seqs) = n
  OBVIOUS
<1>2. step \in [1..n -> [Seq(X) -> Seq(X)]]
  OBVIOUS
<1>3. PICK f : Iterates(Seq(X), n, << >>, step, f)
  <2>1. << >> \in Seq(X)
    OBVIOUS
  <2> HIDE DEF step
  <2> QED BY <1>2, <2>1, Recursion, Zenon
<1>4. Joins(X, n, seqs, f)
  <2>1. ASSUME NEW i \in 1..n PROVE f[i] = f[i - 1] \o seqs[i]
    <3>1. i - 1 \in 0..n
      OBVIOUS
    <3>2. f[i - 1] \in Seq(X) /\ f[i] = step[i][f[i - 1]]
      BY <3>1, <1>3 DEF Iterates
    <3> QED BY <3>2
  <2> QED BY <2>1, <1>3 DEF Iterates, Joins, JoinsOf
<1>5. CASE n = 0
  <2>1. FlattenSeq(seqs) = << >>
    BY <1>1, <1>5 DEF FlattenSeq
  <2> QED BY <2>1, <1>4, <1>5 DEF Joins, JoinsOf
<1>6. CASE n # 0
  <2> DEFINE short == [i \in 1..n |-> f[i]]
  <2>1. \A i \in 1..n : f[i] = IF i = 1 THEN seqs[i] ELSE f[i - 1] \o seqs[i]
    <3>1. ASSUME NEW i \in 1..n PROVE f[i] = IF i = 1 THEN seqs[i] ELSE f[i - 1] \o seqs[i]
      <4>1. f[i] = f[i - 1] \o seqs[i] /\ f[0] = << >> /\ seqs[i] \in Seq(X)
        BY <1>4 DEF Joins, JoinsOf
      <4>2. CASE i = 1
        <5>1. i - 1 = 0
          BY <4>2
        <5> QED BY <4>1, <4>2, <5>1
      <4> QED BY <4>1, <4>2
    <3> QED BY <3>1
  <2>2. Rec(short)
    <3>1. \A i \in 1..n : short[i] = IF i = 1 THEN seqs[i] ELSE short[i - 1] \o seqs[i]
      <4>1. ASSUME NEW i \in 1..n PROVE short[i] = IF i = 1 THEN seqs[i] ELSE short[i - 1] \o seqs[i]
        <5>1. i # 1 => i - 1 \in 1..n
          OBVIOUS
        <5>2. short[i] = f[i] /\ (i # 1 => short[i - 1] = f[i - 1])
          BY <5>1
        <5> HIDE DEF short
        <5> QED BY <2>1, <5>2
      <4> QED BY <4>1
    <3>2. short = [i \in 1..n |-> short[i]]
      OBVIOUS
    <3> HIDE DEF short
    <3> QED BY <3>1, <3>2
  <2>3. Rec(flatten)
    <3> HIDE DEF Rec, short
    <3> QED BY <2>2
  <2>4. FlattenSeq(seqs) = flatten[n]
    BY <1>1, <1>6 DEF FlattenSeq
  <2> HIDE DEF flatten
  <2> DEFINE g == [i \in 0..n |-> IF i = 0 THEN << >> ELSE flatten[i]]
  <2>5. JoinsOf(n, seqs, g)
    <3>1. g[0] = << >>
      OBVIOUS
    <3>2. ASSUME NEW i \in 1..n PROVE g[i] = g[i - 1] \o seqs[i]
      <4>1. flatten[i] = IF i = 1 THEN seqs[i] ELSE flatten[i - 1] \o seqs[i]
        BY <2>3
      <4>2. seqs[i] \in Seq(X) /\ i - 1 \in 0..n /\ i \in 0..n /\ i # 0
        OBVIOUS
      <4>3. g[i] = flatten[i] /\ g[i - 1] = IF i = 1 THEN << >> ELSE flatten[i - 1]
        BY <4>2
      <4> HIDE DEF g
      <4>4. CASE i = 1
        <5>1. g[i - 1] \o seqs[i] = seqs[i] /\ g[i] = seqs[i]
          BY <4>1, <4>2, <4>3, <4>4
        <5> QED BY <5>1
      <4>5. CASE i # 1
        BY <4>1, <4>3, <4>5
      <4> QED BY <4>4, <4>5
    <3> HIDE DEF g
    <3> QED BY <3>1, <3>2 DEF JoinsOf
  <2>6. n \in 0..n /\ g[n] = flatten[n]
    BY <1>6
  <2>7. f[n] = g[n]
    <3> HIDE DEF g
    <3> QED BY <1>4, <2>5, <2>6, OneJoin DEF Joins
  <2> QED BY <1>4, <2>4, <2>6, <2>7
<1> QED BY <1>5, <1>6

LEMMA FlattenType ==
  ASSUME NEW X, NEW n \in Nat, NEW seqs \in [1..n -> Seq(X)]
  PROVE  FlattenSeq(seqs) \in Seq(X)
<1>1. PICK f : Joins(X, n, seqs, f) /\ FlattenSeq(seqs) = f[n]
  BY FlattenJoins
<1> QED BY <1>1 DEF Joins

-----------------------------------------------------------------------------
(* Where the elements of a flattened list come from. *)

\* The k-th of q is element b[k] of list a[k]; every element is there, and once.
LaidOut(seqs, n, q, a, b) ==
  /\ \A k \in 1..Len(q) : a[k] \in 1..n /\ b[k] \in 1..Len(seqs[a[k]]) /\ q[k] = seqs[a[k]][b[k]]
  /\ \A k, l \in 1..Len(q) : a[k] = a[l] /\ b[k] = b[l] => k = l
  /\ \A i \in 1..n : \A j \in 1..Len(seqs[i]) : \E k \in 1..Len(q) : a[k] = i /\ b[k] = j

\* One list more.
LEMMA OneMoreList ==
  ASSUME NEW X, NEW n \in Nat, NEW seqs \in [1..n -> Seq(X)], NEW m \in 1..n, NEW q \in Seq(X),
         NEW a, NEW b, LaidOut(seqs, m - 1, q, a, b)
  PROVE  \E c, d : LaidOut(seqs, m, q \o seqs[m], c, d)
<1> DEFINE len == Len(q)
           r == q \o seqs[m]
           c == [k \in 1..Len(r) |-> IF k <= len THEN a[k] ELSE m]
           d == [k \in 1..Len(r) |-> IF k <= len THEN b[k] ELSE k - len]
<1>1. seqs[m] \in Seq(X) /\ len \in Nat /\ Len(seqs[m]) \in Nat /\ Len(r) = len + Len(seqs[m])
  OBVIOUS
<1>2. (\A k \in 1..len : r[k] = q[k]) /\ \A k \in 1..Len(seqs[m]) : r[len + k] = seqs[m][k]
  BY <1>1, ConcatAt
<1>3. /\ \A k \in 1..len : k \in 1..Len(r) /\ c[k] = a[k] /\ d[k] = b[k]
      /\ \A k \in 1..Len(r) : ~(k <= len) => c[k] = m /\ d[k] = k - len /\ k - len \in 1..Len(seqs[m])
      /\ \A k \in 1..Len(r) : k <= len => k \in 1..len
  <2> HIDE DEF r
  <2> QED BY <1>1
<1>4. /\ \A k \in 1..len : a[k] \in 1..(m - 1) /\ b[k] \in 1..Len(seqs[a[k]]) /\ q[k] = seqs[a[k]][b[k]]
      /\ \A k, l \in 1..len : a[k] = a[l] /\ b[k] = b[l] => k = l
      /\ \A i \in 1..(m - 1) : \A j \in 1..Len(seqs[i]) : \E k \in 1..len : a[k] = i /\ b[k] = j
  BY DEF LaidOut
<1> HIDE DEF c, d, r, len
<1>5. ASSUME NEW k \in 1..Len(r)
      PROVE  c[k] \in 1..m /\ d[k] \in 1..Len(seqs[c[k]]) /\ r[k] = seqs[c[k]][d[k]]
  <2>1. CASE k <= len
    <3>1. k \in 1..len /\ c[k] = a[k] /\ d[k] = b[k] /\ r[k] = q[k]
      BY <1>2, <1>3, <2>1
    <3>2. a[k] \in 1..(m - 1) /\ b[k] \in 1..Len(seqs[a[k]]) /\ q[k] = seqs[a[k]][b[k]]
      BY <1>4, <3>1
    <3> QED BY <3>1, <3>2
  <2>2. CASE ~(k <= len)
    <3>1. c[k] = m /\ d[k] = k - len /\ k - len \in 1..Len(seqs[m])
      BY <1>3, <2>2
    <3>2. r[len + (k - len)] = seqs[m][k - len]
      BY <1>2, <3>1
    <3>3. len + (k - len) = k
      BY <1>1
    <3> QED BY <3>1, <3>2, <3>3
  <2> QED BY <2>1, <2>2
<1>6. ASSUME NEW k \in 1..Len(r), NEW l \in 1..Len(r), c[k] = c[l], d[k] = d[l] PROVE k = l
  <2>1. CASE k <= len /\ l <= len
    BY <1>3, <1>4, <1>6, <2>1
  <2>2. CASE k <= len /\ ~(l <= len)
    <3>1. c[k] \in 1..(m - 1) /\ c[l] = m
      BY <1>3, <1>4, <2>2
    <3> QED BY <1>6, <3>1
  <2>3. CASE ~(k <= len) /\ l <= len
    <3>1. c[l] \in 1..(m - 1) /\ c[k] = m
      BY <1>3, <1>4, <2>3
    <3> QED BY <1>6, <3>1
  <2>4. CASE ~(k <= len) /\ ~(l <= len)
    <3>1. k - len = l - len
      BY <1>3, <1>6, <2>4
    <3> QED BY <1>1, <3>1
  <2> QED BY <2>1, <2>2, <2>3, <2>4
<1>7. ASSUME NEW i \in 1..m, NEW j \in 1..Len(seqs[i]) PROVE \E k \in 1..Len(r) : c[k] = i /\ d[k] = j
  <2>1. CASE i = m
    <3>1. len + j \in 1..Len(r) /\ ~(len + j <= len) /\ (len + j) - len = j
      BY <1>1, <2>1
    <3>2. c[len + j] = m /\ d[len + j] = j
      BY <1>3, <3>1
    <3> QED BY <2>1, <3>1, <3>2
  <2>2. CASE i # m
    <3>1. i \in 1..(m - 1)
      BY <2>2
    <3>2. PICK k \in 1..len : a[k] = i /\ b[k] = j
      BY <1>4, <3>1
    <3> QED BY <1>3, <3>2
  <2> QED BY <2>1, <2>2
<1>8. LaidOut(seqs, m, r, c, d)
  BY <1>5, <1>6, <1>7 DEF LaidOut
<1> QED BY <1>8 DEF r

LEMMA FlattenedIsLaidOut ==
  ASSUME NEW X, NEW n \in Nat, NEW seqs \in [1..n -> Seq(X)]
  PROVE  /\ FlattenSeq(seqs) \in Seq(X)
         /\ \E a, b : LaidOut(seqs, n, FlattenSeq(seqs), a, b)
<1>1. PICK f : Joins(X, n, seqs, f) /\ FlattenSeq(seqs) = f[n]
  BY FlattenJoins
<1> DEFINE S == {m \in 0..n : \E a, b : LaidOut(seqs, m, f[m], a, b)}
<1>2. 0 \in S
  <2>1. f[0] = << >> /\ Len(f[0]) = 0
    BY <1>1 DEF Joins, JoinsOf
  <2>2. LaidOut(seqs, 0, f[0], << >>, << >>)
    BY <2>1 DEF LaidOut
  <2> QED BY <2>2
<1>3. ASSUME NEW m \in 1..n, m - 1 \in S PROVE m \in S
  <2>1. PICK a, b : LaidOut(seqs, m - 1, f[m - 1], a, b)
    BY <1>3
  <2>2. f[m - 1] \in Seq(X) /\ f[m] = f[m - 1] \o seqs[m] /\ m \in 0..n
    <3>1. m - 1 \in 0..n /\ m \in 0..n
      OBVIOUS
    <3>2. f \in [0..n -> Seq(X)] /\ \A i \in 1..n : f[i] = f[i - 1] \o seqs[i]
      BY <1>1 DEF Joins, JoinsOf
    <3> QED BY <3>1, <3>2
  <2>3. \E c, d : LaidOut(seqs, m, f[m - 1] \o seqs[m], c, d)
    BY <2>1, <2>2, OneMoreList
  <2> QED BY <2>2, <2>3
<1>4. n \in S
  <2>1. n \in 0..n
    OBVIOUS
  <2> HIDE DEF S
  <2> QED BY <1>2, <1>3, <2>1, Induction
<1> QED BY <1>1, <1>4 DEF Joins

=============================================================================
