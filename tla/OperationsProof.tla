--------------------------- MODULE OperationsProof ---------------------------
(***************************************************************************)
(* Proofs about the records a run leaves for its operators.  The metric    *)
(* sinks: what crashes, restarts and device faults may cost, for every     *)
(* flush policy, cadence and bound.  The collapse alarm: it is raised once *)
(* for every run of collapsed batches that reaches the count, and a        *)
(* constant encoder counts, for every batch size, dimension, set of        *)
(* embeddings and thresholds.  The cost ledger: where it adds up and what  *)
(* it holds, whatever writers overlap or die, for any jobs, prices, cap.   *)
(***************************************************************************)
EXTENDS Telemetry, CollapseDetector, CostLedger, FiniteSetTheorems, SequenceTheorems, WellFoundedInduction, TLAPS

-----------------------------------------------------------------------------
(* The records on their way through the sinks. *)

Tokens == [rec : 1..MaxRecords, whole : BOOLEAN]
Names == {MetricsFile} \union (0..MaxClock)
Modes == {"write", "part", "flush"}

WholeIn(q) == {q[i].rec : i \in {j \in DOMAIN q : q[j].whole}}
ReadableIn(q) == {q[i].rec : i \in {j \in DOMAIN q : q[j].whole /\ (j > 1 => q[j - 1].whole)}}
HalfEnd(q) == IF q # << >> /\ ~q[Len(q)].whole THEN 1 ELSE 0

\* The records a failed flush has left above a full buffer.
Overdue(since) == IF since < FlushRecords THEN 0 ELSE since - (FlushRecords - 1)

\* A state of the sinks: the variables, or what a batch has made of them so far.
Held(st, s) == st.file[FileOf(s)] \o st.writer[s].buf
Now == [writer |-> writer, file |-> file, took |-> took]

SinkTypes(st) ==
  /\ st.writer \in [Sinks -> [buf : Seq(Tokens), since : Nat, last : Nat]]
  /\ st.file \in [Names -> Seq(Tokens)]
  /\ st.took \in [Sinks -> SUBSET (1..MaxRecords)]

\* The records of metrics.jsonl that no reader will see, the one that half a line
\* at the end will take with it, and those overdue in the buffer.
Unread(st) ==
  Cardinality(st.took["trackio"] \ ReadableIn(Held(st, "trackio")))
    + HalfEnd(Held(st, "trackio")) + Overdue(st.writer["trackio"].since)

\* What a running process holds: no more is lost or at risk than the crashes and
\* faults paid for, the count covers the buffer, and what this life emitted is held.
Sound(st, paid) ==
  /\ Unread(st) <= paid
  /\ Cardinality(WholeIn(st.writer["trackio"].buf)) <= st.writer["trackio"].since
  /\ \A s \in Sinks : \A n \in st.took[s] : n > life => n \in WholeIn(Held(st, s))

Paid == crashes * FlushRecords + faults

MetricTypes ==
  /\ clock \in 0..MaxClock /\ up \in BOOLEAN
  /\ order \in {<<"trackio", "tensorboard">>, <<"tensorboard", "trackio">>}
  /\ SinkTypes(Now)
  /\ event \in 0..clock /\ \A t \in 0..MaxClock : t > event => file[t] = << >>
  /\ cadence \in [fast : {Never} \union 0..clock, disk : {Never} \union 0..clock]
  /\ sampled \in [fast : {Never} \union 0..clock, disk : {Never} \union 0..clock]
  /\ refused \in BOOLEAN
  /\ count \in 0..MaxRecords /\ life \in 0..count
  /\ \A s \in Sinks : took[s] \subseteq 1..count
  /\ crashes \in Nat /\ faults \in Nat

AtRest ==
  /\ Cardinality(took["trackio"] \ ReadableIn(file[MetricsFile])) + HalfEnd(file[MetricsFile]) <= Paid
  /\ closed = "ok" => \A s \in Sinks : \A n \in took[s] : n > life => n \in WholeIn(file[FileOf(s)])

MetricInv ==
  /\ MetricTypes
  /\ up => Sound(Now, Paid)
  /\ ~up => AtRest
  /\ MirroredByPrefix
  /\ ~refused => cadence.fast = sampled.fast
-----------------------------------------------------------------------------
\* What a reader finds after more tokens, and what it finds of fewer.

LEMMA WholeOfConcat ==
  ASSUME NEW q \in Seq(Tokens), NEW r \in Seq(Tokens)
  PROVE  /\ q \o r \in Seq(Tokens)
         /\ WholeIn(q \o r) = WholeIn(q) \union WholeIn(r)
<1>1. /\ Len(q) \in Nat /\ Len(r) \in Nat /\ Len(q \o r) = Len(q) + Len(r)
      /\ DOMAIN q = 1..Len(q) /\ DOMAIN r = 1..Len(r) /\ DOMAIN (q \o r) = 1..(Len(q) + Len(r))
      /\ \A i \in 1..Len(q) : (q \o r)[i] = q[i]
      /\ \A i \in 1..Len(r) : (q \o r)[Len(q) + i] = r[i]
  OBVIOUS
<1>2. \A i \in 1..(Len(q) + Len(r)) : i \in 1..Len(q) \/ (i - Len(q) \in 1..Len(r) /\ i = Len(q) + (i - Len(q)))
  BY <1>1
<1>3. WholeIn(q \o r) \subseteq WholeIn(q) \union WholeIn(r)
  <2> SUFFICES ASSUME NEW i \in 1..(Len(q) + Len(r)), (q \o r)[i].whole
               PROVE  (q \o r)[i].rec \in WholeIn(q) \union WholeIn(r)
    BY <1>1 DEF WholeIn
  <2>1. CASE i \in 1..Len(q)
    BY <1>1, <2>1 DEF WholeIn
  <2>2. CASE i - Len(q) \in 1..Len(r) /\ i = Len(q) + (i - Len(q))
    <3>1. (q \o r)[i] = r[i - Len(q)]
      BY <1>1, <2>2
    <3> QED BY <1>1, <2>2, <3>1 DEF WholeIn
  <2> QED BY <1>2, <2>1, <2>2
<1>4. WholeIn(q) \subseteq WholeIn(q \o r)
  BY <1>1 DEF WholeIn
<1>5. WholeIn(r) \subseteq WholeIn(q \o r)
  <2> SUFFICES ASSUME NEW i \in 1..Len(r), r[i].whole
               PROVE  r[i].rec \in WholeIn(q \o r)
    BY <1>1 DEF WholeIn
  <2>1. Len(q) + i \in 1..(Len(q) + Len(r)) /\ (q \o r)[Len(q) + i] = r[i]
    BY <1>1
  <2> QED BY <1>1, <2>1 DEF WholeIn
<1> QED BY <1>1, <1>3, <1>4, <1>5

\* Appending hides nothing that could be read, and adds whole records only.
LEMMA ReadableOfConcat ==
  ASSUME NEW q \in Seq(Tokens), NEW r \in Seq(Tokens)
  PROVE  /\ ReadableIn(q) \subseteq ReadableIn(q \o r)
         /\ ReadableIn(q \o r) \subseteq ReadableIn(q) \union WholeIn(r)
<1>1. /\ Len(q) \in Nat /\ Len(r) \in Nat
      /\ DOMAIN q = 1..Len(q) /\ DOMAIN r = 1..Len(r) /\ DOMAIN (q \o r) = 1..(Len(q) + Len(r))
      /\ \A i \in 1..Len(q) : (q \o r)[i] = q[i]
      /\ \A i \in 1..Len(r) : (q \o r)[Len(q) + i] = r[i]
  OBVIOUS
<1>2. ReadableIn(q) \subseteq ReadableIn(q \o r)
  <2> SUFFICES ASSUME NEW i \in 1..Len(q), q[i].whole, i > 1 => q[i - 1].whole
               PROVE  q[i].rec \in ReadableIn(q \o r)
    BY <1>1 DEF ReadableIn
  <2>1. i \in 1..(Len(q) + Len(r)) /\ (q \o r)[i] = q[i] /\ (i > 1 => (q \o r)[i - 1] = q[i - 1])
    BY <1>1
  <2> QED BY <1>1, <2>1 DEF ReadableIn
<1>3. ReadableIn(q \o r) \subseteq ReadableIn(q) \union WholeIn(r)
  <2> SUFFICES ASSUME NEW i \in 1..(Len(q) + Len(r)), (q \o r)[i].whole,
                      i > 1 => (q \o r)[i - 1].whole
               PROVE  (q \o r)[i].rec \in ReadableIn(q) \union WholeIn(r)
    BY <1>1 DEF ReadableIn
  <2>1. CASE i \in 1..Len(q)
    <3>1. (q \o r)[i] = q[i] /\ (i > 1 => (q \o r)[i - 1] = q[i - 1])
      BY <1>1, <2>1
    <3> QED BY <1>1, <2>1, <3>1 DEF ReadableIn
  <2>2. CASE i \notin 1..Len(q)
    <3>1. i - Len(q) \in 1..Len(r) /\ (q \o r)[i] = r[i - Len(q)]
      BY <1>1, <2>2
    <3> QED BY <1>1, <3>1 DEF WholeIn
  <2> QED BY <2>1, <2>2
<1> QED BY <1>2, <1>3

LEMMA OneMore ==
  ASSUME NEW q \in Seq(Tokens), NEW t \in Tokens
  PROVE  /\ Append(q, t) \in Seq(Tokens)
         /\ ReadableIn(q) \subseteq ReadableIn(Append(q, t))
         /\ t.whole /\ HalfEnd(q) = 0 => t.rec \in ReadableIn(Append(q, t))
         /\ WholeIn(Append(q, t)) = WholeIn(q) \union (IF t.whole THEN {t.rec} ELSE {})
         /\ HalfEnd(Append(q, t)) = IF t.whole THEN 0 ELSE 1
<1> DEFINE a == Append(q, t)
<1>1. /\ Len(q) \in Nat /\ a \in Seq(Tokens) /\ Len(a) = Len(q) + 1
      /\ DOMAIN q = 1..Len(q) /\ DOMAIN a = 1..(Len(q) + 1)
      /\ \A i \in 1..Len(q) : a[i] = q[i]
      /\ a[Len(q) + 1] = t
  OBVIOUS
<1> HIDE DEF a
<1>2. ReadableIn(q) \subseteq ReadableIn(a)
  <2> SUFFICES ASSUME NEW i \in 1..Len(q), q[i].whole, i > 1 => q[i - 1].whole
               PROVE  q[i].rec \in ReadableIn(a)
    BY <1>1 DEF ReadableIn
  <2>1. i \in 1..(Len(q) + 1) /\ a[i] = q[i] /\ (i > 1 => a[i - 1] = q[i - 1])
    BY <1>1
  <2> QED BY <1>1, <2>1 DEF ReadableIn
<1>3. ASSUME t.whole, HalfEnd(q) = 0 PROVE t.rec \in ReadableIn(a)
  <2> DEFINE n == Len(q) + 1
  <2>1. n \in DOMAIN a /\ a[n] = t
    BY <1>1
  <2>2. n > 1 => a[n - 1].whole
    BY <1>1, <1>3 DEF HalfEnd
  <2> HIDE DEF n
  <2> QED BY <1>3, <2>1, <2>2 DEF ReadableIn
<1>4. WholeIn(a) = WholeIn(q) \union (IF t.whole THEN {t.rec} ELSE {})
  <2>1. 1..(Len(q) + 1) = (1..Len(q)) \union {Len(q) + 1}
    BY <1>1
  <2> DEFINE D == 1..Len(q)
             n == Len(q) + 1
  <2>2. DOMAIN a = D \union {n} /\ DOMAIN q = D /\ a[n] = t /\ \A i \in D : a[i] = q[i]
    BY <1>1, <2>1
  <2> HIDE DEF D, n
  <2> QED BY <2>2 DEF WholeIn
<1>5. HalfEnd(a) = IF t.whole THEN 0 ELSE 1
  BY <1>1 DEF HalfEnd
<1> QED BY <1>1, <1>2, <1>3, <1>4, <1>5 DEF a

LEMMA RemainsTyped ==
  ASSUME NEW buf \in Seq(Tokens), NEW r \in Remains(buf)
  PROVE  r \in Seq(Tokens)
<1>1. ASSUME NEW k \in 0..Len(buf) PROVE SubSeq(buf, 1, k) \in Seq(Tokens)
  <2>1. \A i \in 1..k : buf[i] \in Tokens
    OBVIOUS
  <2>2. k = 0 \/ k \in 1..Len(buf)
    OBVIOUS
  <2> QED BY <2>1, <2>2, SubSeqProperties
<1>2. ASSUME NEW k \in 0..(Len(buf) - 1)
      PROVE  Append(SubSeq(buf, 1, k), Token(buf[k + 1].rec, FALSE)) \in Seq(Tokens)
  <2>1. k \in 0..Len(buf) /\ k + 1 \in 1..Len(buf)
    OBVIOUS
  <2>2. SubSeq(buf, 1, k) \in Seq(Tokens)
    BY <1>1, <2>1
  <2>3. buf[k + 1] \in Tokens
    BY <2>1
  <2>4. Token(buf[k + 1].rec, FALSE) \in Tokens
    BY <2>3 DEF Token, Tokens
  <2> HIDE DEF Tokens
  <2> QED BY <2>2, <2>4, AppendProperties
<1> QED BY <1>1, <1>2 DEF Remains

\* What a reader finds is among the whole records, which are among the records.
LEMMA ReadableIsWhole ==
  ASSUME NEW q \in Seq(Tokens)
  PROVE  /\ ReadableIn(q) \subseteq WholeIn(q) /\ WholeIn(q) \subseteq 1..MaxRecords
         /\ HalfEnd(q) \in {0, 1}
<1>1. \A i \in DOMAIN q : q[i].rec \in 1..MaxRecords
  <2>1. \A i \in DOMAIN q : q[i] \in Tokens
    OBVIOUS
  <2> QED BY <2>1 DEF Tokens
<1>2. ReadableIn(q) \subseteq WholeIn(q)
  BY DEF ReadableIn, WholeIn
<1>3. WholeIn(q) \subseteq 1..MaxRecords
  BY <1>1 DEF WholeIn
<1> QED BY <1>2, <1>3 DEF HalfEnd

LEMMA WholeIsFinite ==
  ASSUME NEW q \in Seq(Tokens)
  PROVE  IsFiniteSet(WholeIn(q)) /\ Cardinality(WholeIn(q)) \in Nat
<1>1. IsFiniteSet(1..MaxRecords)
  BY FS_Interval, TelemetryAssumption
<1> QED BY <1>1, ReadableIsWhole, FS_Subset, FS_CardinalityType

LEMMA WholeOfOneMore ==
  ASSUME NEW q \in Seq(Tokens), NEW n \in 1..MaxRecords
  PROVE  /\ Token(n, TRUE) \in Tokens /\ Token(n, FALSE) \in Tokens
         /\ WholeIn(Append(q, Token(n, TRUE))) = WholeIn(q) \union {n}
         /\ WholeIn(Append(q, Token(n, FALSE))) = WholeIn(q)
<1>1. /\ Token(n, TRUE) \in Tokens /\ Token(n, TRUE).whole /\ Token(n, TRUE).rec = n
      /\ Token(n, FALSE) \in Tokens /\ ~Token(n, FALSE).whole
  BY DEF Token, Tokens
<1>2. ASSUME NEW t \in Tokens
      PROVE  WholeIn(Append(q, t)) = WholeIn(q) \union (IF t.whole THEN {t.rec} ELSE {})
  BY OneMore
<1> QED BY <1>1, <1>2

-----------------------------------------------------------------------------
\* One record and one sink.

BatchStates ==
  [writer : [Sinks -> [buf : Seq(Tokens), since : Nat, last : Nat]], file : [Names -> Seq(Tokens)],
   took : [Sinks -> SUBSET (1..MaxRecords)], ok : BOOLEAN, done : Nat]

LEMMA FilesDiffer ==
  ASSUME MetricTypes
  PROVE  /\ \A s \in Sinks : FileOf(s) \in Names
         /\ \A s, x \in Sinks : s # x => FileOf(s) # FileOf(x)
         /\ FileOf("trackio") = MetricsFile /\ event \in 0..MaxClock /\ clock \in 0..MaxClock
         /\ Sinks = {"trackio", "tensorboard"} /\ MetricsFile \notin 0..MaxClock
  BY TelemetryAssumption DEF MetricTypes, Sinks, FileOf, Names, MetricsFile

LEMMA AppendHeld ==
  ASSUME NEW f \in Seq(Tokens), NEW b \in Seq(Tokens), NEW t \in Tokens
  PROVE  f \o Append(b, t) = Append(f \o b, t) /\ f \o << >> = f
  OBVIOUS

\* What an emission does to one sink: a record it takes goes to the buffer, or
\* with the buffer to the file; one it refuses leaves nothing, or half a record.
Effect(st, s, n, e) ==
  /\ e \in BatchStates /\ e.done = st.done
  /\ \A x \in Sinks \ {s} : e.writer[x] = st.writer[x] /\ e.took[x] = st.took[x]
  /\ \A x \in Names \ {FileOf(s)} : e.file[x] = st.file[x]
  /\ \/ /\ ~e.ok /\ e.took[s] = st.took[s] /\ e.writer[s] = st.writer[s]
        /\ e.file[FileOf(s)] = st.file[FileOf(s)]
     \/ /\ ~e.ok /\ e.took[s] = st.took[s] /\ e.file[FileOf(s)] = st.file[FileOf(s)]
        /\ e.writer[s].buf = Append(st.writer[s].buf, Token(n, FALSE))
        /\ e.writer[s].since = st.writer[s].since
     \/ /\ e.took[s] = st.took[s] \union {n} /\ e.file[FileOf(s)] = st.file[FileOf(s)]
        /\ e.writer[s].buf = Append(st.writer[s].buf, Token(n, TRUE))
        /\ e.writer[s].since = st.writer[s].since + 1
        /\ e.ok => st.writer[s].since + 1 < FlushRecords
     \/ /\ e.ok /\ e.took[s] = st.took[s] \union {n}
        /\ e.file[FileOf(s)] = st.file[FileOf(s)] \o Append(st.writer[s].buf, Token(n, TRUE))
        /\ e.writer[s].buf = << >> /\ e.writer[s].since = 0

LEMMA EmitEffect ==
  ASSUME MetricTypes, NEW st \in BatchStates, st.ok, NEW s \in Sinks, NEW n \in 1..MaxRecords,
         NEW fault \in [rec : Nat, sink : Sinks, how : Modes],
         NEW e, e = EmitTo(st, s, n, fault)
  PROVE  Effect(st, s, n, e) /\ (~e.ok => fault.rec = n)
<1> DEFINE here == fault.rec = n /\ fault.sink = s
           w == st.writer[s]
           with == [w EXCEPT !.buf = Append(@, Token(n, ~(here /\ fault.how = "part"))), !.since = @ + 1]
<1>1. /\ w \in [buf : Seq(Tokens), since : Nat, last : Nat] /\ FileOf(s) \in Names
      /\ st.file[FileOf(s)] \in Seq(Tokens) /\ st.took[s] \union {n} \in SUBSET (1..MaxRecords)
      /\ w.buf \in Seq(Tokens) /\ w.since \in Nat /\ st.took[s] \in SUBSET (1..MaxRecords)
  BY FilesDiffer DEF BatchStates
<1>2. Token(n, TRUE) \in Tokens /\ Token(n, FALSE) \in Tokens
  BY DEF Token, Tokens
<1>3. /\ Append(w.buf, Token(n, TRUE)) \in Seq(Tokens) /\ Append(w.buf, Token(n, FALSE)) \in Seq(Tokens)
      /\ st.file[FileOf(s)] \o Append(w.buf, Token(n, TRUE)) \in Seq(Tokens)
  BY <1>1, <1>2, AppendProperties, WholeOfConcat
<1> DEFINE Shape(ok, v, f, t) ==
             e = [writer |-> [st.writer EXCEPT ![s] = v], file |-> [st.file EXCEPT ![FileOf(s)] = f],
                  took |-> [st.took EXCEPT ![s] = t], ok |-> ok, done |-> st.done]
           Post(ok, v, f, t) ==
             /\ e \in BatchStates /\ e.done = st.done /\ e.ok = ok
             /\ \A x \in Sinks \ {s} : e.writer[x] = st.writer[x] /\ e.took[x] = st.took[x]
             /\ \A x \in Names \ {FileOf(s)} : e.file[x] = st.file[x]
             /\ e.writer[s] = v /\ e.took[s] = t /\ e.file[FileOf(s)] = f
<1>4. ASSUME NEW ok \in BOOLEAN, NEW v \in [buf : Seq(Tokens), since : Nat, last : Nat],
             NEW f \in Seq(Tokens), NEW t \in SUBSET (1..MaxRecords), Shape(ok, v, f, t)
      PROVE  Post(ok, v, f, t)
  <2>1. /\ [st.writer EXCEPT ![s] = v] \in [Sinks -> [buf : Seq(Tokens), since : Nat, last : Nat]]
        /\ [st.file EXCEPT ![FileOf(s)] = f] \in [Names -> Seq(Tokens)]
        /\ [st.took EXCEPT ![s] = t] \in [Sinks -> SUBSET (1..MaxRecords)]
        /\ st.done \in Nat
    BY <1>1, <1>4 DEF BatchStates
  <2>2. e \in BatchStates
    BY <1>4, <2>1 DEF BatchStates
  <2>3. e.writer = [st.writer EXCEPT ![s] = v] /\ e.file = [st.file EXCEPT ![FileOf(s)] = f]
        /\ e.took = [st.took EXCEPT ![s] = t] /\ e.ok = ok /\ e.done = st.done
    BY <1>4
  <2> QED BY <1>1, <2>2, <2>3 DEF BatchStates
<1>5. /\ st = [writer |-> st.writer, file |-> st.file, took |-> st.took, ok |-> TRUE, done |-> st.done]
      /\ st.writer = [st.writer EXCEPT ![s] = w] /\ st.file = [st.file EXCEPT ![FileOf(s)] = st.file[FileOf(s)]]
      /\ st.took = [st.took EXCEPT ![s] = st.took[s]]
  BY <1>1 DEF BatchStates
<1>6. CASE here /\ fault.how = "write"
  <2>1. e = [st EXCEPT !.ok = FALSE]
    BY <1>6 DEF EmitTo
  <2>2. e = [writer |-> [st.writer EXCEPT ![s] = w], file |-> [st.file EXCEPT ![FileOf(s)] = st.file[FileOf(s)]],
             took |-> [st.took EXCEPT ![s] = st.took[s]], ok |-> FALSE, done |-> st.done]
    BY <1>5, <2>1
  <2>3. Post(FALSE, w, st.file[FileOf(s)], st.took[s])
    <3> HIDE DEF Post, w
    <3> QED BY <1>1, <1>4, <2>2
  <2> QED BY <1>6, <2>3 DEF Effect
<1>7. CASE here /\ fault.how = "part"
  <2> DEFINE v == [w EXCEPT !.buf = Append(w.buf, Token(n, FALSE))]
  <2>1. e = [st EXCEPT !.ok = FALSE, !.writer[s].buf = Append(w.buf, Token(n, FALSE))]
    BY <1>7 DEF EmitTo
  <2>2. e = [writer |-> [st.writer EXCEPT ![s] = v], file |-> [st.file EXCEPT ![FileOf(s)] = st.file[FileOf(s)]],
             took |-> [st.took EXCEPT ![s] = st.took[s]], ok |-> FALSE, done |-> st.done]
    BY <1>5, <2>1
  <2>3. v \in [buf : Seq(Tokens), since : Nat, last : Nat] /\ v.buf = Append(w.buf, Token(n, FALSE))
        /\ v.since = w.since
    BY <1>1, <1>3
  <2> HIDE DEF v
  <2>4. Post(FALSE, v, st.file[FileOf(s)], st.took[s])
    <3> HIDE DEF Post
    <3> QED BY <1>1, <1>4, <2>2, <2>3
  <2> QED BY <1>7, <2>3, <2>4 DEF Effect
<1>8. CASE ~(here /\ fault.how \in {"write", "part"})
  <2> DEFINE whole == [w EXCEPT !.buf = Append(w.buf, Token(n, TRUE)), !.since = w.since + 1]
             more == st.took[s] \union {n}
  <2>1. /\ with = whole /\ whole \in [buf : Seq(Tokens), since : Nat, last : Nat]
        /\ whole.buf = Append(w.buf, Token(n, TRUE)) /\ whole.since = w.since + 1
    <3>1. ~(here /\ fault.how = "part")
      BY <1>8
    <3>2. (~(here /\ fault.how = "part")) = TRUE
      BY <3>1
    <3>3. with = whole
      BY <3>2
    <3>4. ASSUME NEW x \in Seq(Tokens), NEW y \in Nat
          PROVE  /\ [w EXCEPT !.buf = x, !.since = y] \in [buf : Seq(Tokens), since : Nat, last : Nat]
                 /\ [w EXCEPT !.buf = x, !.since = y].buf = x
                 /\ [w EXCEPT !.buf = x, !.since = y].since = y
      <4>1. w \in [buf : Seq(Tokens), since : Nat, last : Nat]
        BY <1>1
      <4> HIDE DEF w
      <4> QED BY <4>1
    <3>5. w.since + 1 \in Nat
      BY <1>1
    <3>6. Append(w.buf, Token(n, TRUE)) \in Seq(Tokens)
      BY <1>3
    <3> HIDE DEF w, with
    <3> QED BY <3>3, <3>4, <3>5, <3>6
  <2>2. e = IF ~FlushDue(whole) THEN [st EXCEPT !.writer[s] = whole, !.took[s] = more]
            ELSE IF here THEN [st EXCEPT !.ok = FALSE, !.writer[s] = whole, !.took[s] = more]
            ELSE [st EXCEPT !.writer[s] = Fresh, !.took[s] = more,
                            !.file[FileOf(s)] = @ \o whole.buf]
    <3>1. /\ ~(here /\ fault.how = "write") /\ ~(here /\ fault.how = "part")
      BY <1>8
    <3>2. e = IF ~FlushDue(with) THEN [st EXCEPT !.writer[s] = with, !.took[s] = @ \cup {n}]
              ELSE IF here THEN [st EXCEPT !.ok = FALSE, !.writer[s] = with, !.took[s] = @ \cup {n}]
              ELSE [st EXCEPT !.writer[s] = Fresh, !.took[s] = @ \cup {n},
                              !.file[FileOf(s)] = @ \o with.buf]
      BY <3>1 DEF EmitTo
    <3> HIDE DEF here, with, whole
    <3> QED BY <2>1, <3>2
  <2> HIDE DEF whole, with
  <2>3. CASE ~FlushDue(whole)
    <3>1. e = [writer |-> [st.writer EXCEPT ![s] = whole], file |-> [st.file EXCEPT ![FileOf(s)] = st.file[FileOf(s)]],
               took |-> [st.took EXCEPT ![s] = more], ok |-> TRUE, done |-> st.done]
      <4>1. e = [st EXCEPT !.writer[s] = whole, !.took[s] = more]
        <5> HIDE DEF here, more
        <5> QED BY <2>2, <2>3
      <4> HIDE DEF more
      <4> QED BY <1>5, <4>1
    <3>2. w.since + 1 < FlushRecords
      BY <1>1, <2>1, <2>3, TelemetryAssumption DEF FlushDue
    <3>3. Post(TRUE, whole, st.file[FileOf(s)], more)
      <4> HIDE DEF Post
      <4> QED BY <1>1, <1>4, <2>1, <3>1
    <3> QED BY <2>1, <3>2, <3>3 DEF Effect
  <2>4. CASE FlushDue(whole) /\ here
    <3>1. e = [writer |-> [st.writer EXCEPT ![s] = whole], file |-> [st.file EXCEPT ![FileOf(s)] = st.file[FileOf(s)]],
               took |-> [st.took EXCEPT ![s] = more], ok |-> FALSE, done |-> st.done]
      <4>1. e = [st EXCEPT !.ok = FALSE, !.writer[s] = whole, !.took[s] = more]
        <5> HIDE DEF here, more
        <5> QED BY <2>2, <2>4
      <4> HIDE DEF more
      <4> QED BY <1>5, <4>1
    <3>2. Post(FALSE, whole, st.file[FileOf(s)], more)
      <4> HIDE DEF Post
      <4> QED BY <1>1, <1>4, <2>1, <3>1
    <3> QED BY <2>1, <2>4, <3>2 DEF Effect
  <2>5. CASE FlushDue(whole) /\ ~here
    <3>1. e = [writer |-> [st.writer EXCEPT ![s] = Fresh],
               file |-> [st.file EXCEPT ![FileOf(s)] = st.file[FileOf(s)] \o whole.buf],
               took |-> [st.took EXCEPT ![s] = more], ok |-> TRUE, done |-> st.done]
      <4>1. e = [st EXCEPT !.writer[s] = Fresh, !.took[s] = more, !.file[FileOf(s)] = @ \o whole.buf]
        <5> HIDE DEF here, more
        <5> QED BY <2>2, <2>5
      <4> HIDE DEF more
      <4> QED BY <1>5, <4>1
    <3>2. Fresh \in [buf : Seq(Tokens), since : Nat, last : Nat] /\ Fresh.buf = << >> /\ Fresh.since = 0
      BY TelemetryAssumption DEF Fresh, MetricTypes
    <3>3. st.file[FileOf(s)] \o whole.buf \in Seq(Tokens)
      BY <1>3, <2>1
    <3>4. Post(TRUE, Fresh, st.file[FileOf(s)] \o whole.buf, more)
      <4> HIDE DEF Post
      <4> QED BY <1>1, <1>4, <3>1, <3>2, <3>3
    <3> QED BY <2>1, <3>2, <3>4 DEF Effect
  <2> QED BY <2>3, <2>4, <2>5
<1> QED BY <1>6, <1>7, <1>8

\* What a record appended to a file and its buffer costs the reader.
LEMMA SetsAreSmall ==
  ASSUME NEW T \in SUBSET (1..MaxRecords), NEW U
  PROVE  /\ IsFiniteSet(T \ U) /\ Cardinality(T \ U) \in Nat
         /\ \A V : V \subseteq T \ U => IsFiniteSet(V) /\ Cardinality(V) \in Nat /\ Cardinality(V) <= Cardinality(T \ U)
<1>1. IsFiniteSet(1..MaxRecords)
  BY FS_Interval, TelemetryAssumption
<1>2. IsFiniteSet(T \ U)
  BY <1>1, FS_Subset
<1> QED BY <1>2, FS_Subset, FS_CardinalityType

LEMMA ReadOn ==
  ASSUME NEW q \in Seq(Tokens), NEW T \in SUBSET (1..MaxRecords), NEW n \in 1..MaxRecords
  PROVE  LET full == Append(q, Token(n, TRUE))
             half == Append(q, Token(n, FALSE))
             cost(S, p) == Cardinality(S \ ReadableIn(p)) + HalfEnd(p)
         IN  /\ full \in Seq(Tokens) /\ half \in Seq(Tokens)
             /\ cost(T, q) \in Nat /\ cost(T \union {n}, full) \in Nat /\ cost(T, half) \in Nat
             /\ cost(T \union {n}, full) <= cost(T, q)
             /\ cost(T, half) <= cost(T, q) + 1
<1> DEFINE full == Append(q, Token(n, TRUE))
           half == Append(q, Token(n, FALSE))
           A == T \ ReadableIn(q)
           B == (T \union {n}) \ ReadableIn(full)
           C == T \ ReadableIn(half)
<1>1. /\ Token(n, TRUE) \in Tokens /\ Token(n, TRUE).whole /\ Token(n, TRUE).rec = n
      /\ Token(n, FALSE) \in Tokens /\ ~Token(n, FALSE).whole
  BY DEF Token, Tokens
<1>2. /\ full \in Seq(Tokens) /\ half \in Seq(Tokens)
      /\ ReadableIn(q) \subseteq ReadableIn(full) /\ ReadableIn(q) \subseteq ReadableIn(half)
      /\ HalfEnd(q) = 0 => n \in ReadableIn(full)
      /\ HalfEnd(full) = 0 /\ HalfEnd(half) = 1
  BY <1>1, OneMore
<1>3. HalfEnd(q) \in {0, 1}
  BY ReadableIsWhole
<1>4. /\ IsFiniteSet(A) /\ Cardinality(A) \in Nat /\ Cardinality(B) \in Nat /\ Cardinality(C) \in Nat
      /\ \A V : V \subseteq A => Cardinality(V) <= Cardinality(A)
  <2>1. T \union {n} \in SUBSET (1..MaxRecords)
    OBVIOUS
  <2> QED BY <2>1, SetsAreSmall
<1>5. Cardinality(C) <= Cardinality(A)
  <2>1. C \subseteq A
    BY <1>2
  <2> QED BY <1>4, <2>1
<1>6. Cardinality(B) <= Cardinality(A) + HalfEnd(q)
  <2>1. CASE HalfEnd(q) = 0
    <3>1. B \subseteq A
      BY <1>2, <2>1
    <3> HIDE DEF A, B
    <3> QED BY <1>4, <2>1, <3>1
  <2>2. CASE HalfEnd(q) = 1
    <3>1. B \subseteq A \union {n}
      BY <1>2
    <3>2. IsFiniteSet(A \union {n}) /\ Cardinality(A \union {n}) <= Cardinality(A) + 1
      <4> HIDE DEF A
      <4>1. IsFiniteSet(A) /\ Cardinality(A) \in Nat
        BY <1>4
      <4>2. /\ IsFiniteSet(A \union {n})
            /\ Cardinality(A \union {n}) = IF n \in A THEN Cardinality(A) ELSE Cardinality(A) + 1
        BY <4>1, FS_AddElement, Zenon
      <4> QED BY <4>1, <4>2
    <3>3. Cardinality(B) <= Cardinality(A \union {n})
      <4> HIDE DEF A, B
      <4> QED BY <3>1, <3>2, FS_Subset
    <3>4. Cardinality(A \union {n}) \in Nat
      BY <3>2, FS_CardinalityType
    <3> HIDE DEF A, B
    <3> QED BY <1>4, <2>2, <3>2, <3>3, <3>4
  <2> QED BY <1>3, <2>1, <2>2
<1> HIDE DEF full, half
<1>7. /\ Cardinality(A) + HalfEnd(q) \in Nat /\ Cardinality(B) + HalfEnd(full) \in Nat
      /\ Cardinality(C) + HalfEnd(half) \in Nat
      /\ Cardinality(B) + HalfEnd(full) <= Cardinality(A) + HalfEnd(q)
      /\ Cardinality(C) + HalfEnd(half) <= Cardinality(A) + HalfEnd(q) + 1
  <2> HIDE DEF A, B, C
  <2> QED BY <1>2, <1>3, <1>4, <1>5, <1>6
<1> QED BY <1>2, <1>7 DEF full, half

\* A sink that takes or refuses a record keeps what the process holds sound, and
\* pays for a refusal.
LEMMA EmitSound ==
  ASSUME MetricTypes, NEW st \in BatchStates, st.ok, NEW s \in Sinks, NEW n \in 1..MaxRecords,
         NEW fault \in [rec : Nat, sink : Sinks, how : Modes],
         NEW paid \in Nat, Sound(st, paid), NEW e, e = EmitTo(st, s, n, fault)
  PROVE  /\ Sound(e, IF e.ok THEN paid ELSE paid + 1)
         /\ \A x \in Names : ReadableIn(st.file[x]) \subseteq ReadableIn(e.file[x])
<1>1. /\ e \in BatchStates /\ e.done = st.done
      /\ \A x \in Sinks \ {s} : e.writer[x] = st.writer[x] /\ e.took[x] = st.took[x]
      /\ \A x \in Names \ {FileOf(s)} : e.file[x] = st.file[x]
      /\ \/ /\ ~e.ok /\ e.took[s] = st.took[s] /\ e.writer[s] = st.writer[s]
            /\ e.file[FileOf(s)] = st.file[FileOf(s)]
         \/ /\ ~e.ok /\ e.took[s] = st.took[s] /\ e.file[FileOf(s)] = st.file[FileOf(s)]
            /\ e.writer[s].buf = Append(st.writer[s].buf, Token(n, FALSE))
            /\ e.writer[s].since = st.writer[s].since
         \/ /\ e.took[s] = st.took[s] \union {n} /\ e.file[FileOf(s)] = st.file[FileOf(s)]
            /\ e.writer[s].buf = Append(st.writer[s].buf, Token(n, TRUE))
            /\ e.writer[s].since = st.writer[s].since + 1
            /\ e.ok => st.writer[s].since + 1 < FlushRecords
         \/ /\ e.ok /\ e.took[s] = st.took[s] \union {n}
            /\ e.file[FileOf(s)] = st.file[FileOf(s)] \o Append(st.writer[s].buf, Token(n, TRUE))
            /\ e.writer[s].buf = << >> /\ e.writer[s].since = 0
  <2>1. Effect(st, s, n, e)
    BY EmitEffect
  <2> QED BY <2>1 DEF Effect
<1> DEFINE full(q) == Append(q, Token(n, TRUE))
           half(q) == Append(q, Token(n, FALSE))
<1>2. /\ \A x \in Sinks : FileOf(x) \in Names
      /\ \A x, y \in Sinks : x # y => FileOf(x) # FileOf(y)
  BY FilesDiffer
<1>3. Token(n, TRUE) \in Tokens /\ Token(n, FALSE) \in Tokens /\ Token(n, TRUE).rec = n
      /\ Token(n, TRUE).whole /\ ~Token(n, FALSE).whole
  BY DEF Token, Tokens
<1>4. \A x \in Sinks :
        /\ st.writer[x].buf \in Seq(Tokens) /\ st.writer[x].since \in Nat
        /\ st.file[FileOf(x)] \in Seq(Tokens) /\ Held(st, x) \in Seq(Tokens)
        /\ st.took[x] \in SUBSET (1..MaxRecords)
  BY <1>2, WholeOfConcat DEF BatchStates, Held
<1>5. \A x \in Sinks \ {s} : Held(e, x) = Held(st, x)
  BY <1>1, <1>2 DEF Held
\* the four outcomes, in terms of the file with its buffer behind it
<1>6. \/ /\ ~e.ok /\ e.took[s] = st.took[s] /\ Held(e, s) = Held(st, s)
         /\ e.writer[s] = st.writer[s]
      \/ /\ ~e.ok /\ e.took[s] = st.took[s] /\ Held(e, s) = half(Held(st, s))
         /\ e.writer[s].buf = half(st.writer[s].buf) /\ e.writer[s].since = st.writer[s].since
      \/ /\ e.took[s] = st.took[s] \union {n} /\ Held(e, s) = full(Held(st, s))
         /\ \/ /\ e.writer[s].buf = full(st.writer[s].buf)
               /\ e.writer[s].since = st.writer[s].since + 1
               /\ e.ok => st.writer[s].since + 1 < FlushRecords
            \/ e.ok /\ e.writer[s].buf = << >> /\ e.writer[s].since = 0
  <2> DEFINE f == st.file[FileOf(s)]
             b == st.writer[s].buf
  <2>1. f \o full(b) = full(f \o b) /\ f \o half(b) = half(f \o b) /\ full(f \o b) \in Seq(Tokens)
    <3>1. f \in Seq(Tokens) /\ b \in Seq(Tokens) /\ f \o b \in Seq(Tokens)
      BY <1>4, WholeOfConcat
    <3> HIDE DEF f, b
    <3> QED BY <1>3, <3>1, AppendHeld, AppendProperties
  <2>2. full(f \o b) \o << >> = full(f \o b)
    <3> DEFINE g == full(f \o b)
    <3>1. g \in Seq(Tokens)
      BY <2>1
    <3> HIDE DEF g
    <3>2. g \o << >> = g
      BY <3>1
    <3> QED BY <3>2 DEF g
  <2>3. Held(st, s) = f \o b /\ Held(e, s) = e.file[FileOf(s)] \o e.writer[s].buf
    BY DEF Held
  <2> HIDE DEF f, b, full, half
  <2>4. \/ /\ ~e.ok /\ e.took[s] = st.took[s] /\ e.writer[s] = st.writer[s] /\ e.file[FileOf(s)] = f
        \/ /\ ~e.ok /\ e.took[s] = st.took[s] /\ e.file[FileOf(s)] = f
           /\ e.writer[s].buf = half(b) /\ e.writer[s].since = st.writer[s].since
        \/ /\ e.took[s] = st.took[s] \union {n} /\ e.file[FileOf(s)] = f
           /\ e.writer[s].buf = full(b) /\ e.writer[s].since = st.writer[s].since + 1
           /\ e.ok => st.writer[s].since + 1 < FlushRecords
        \/ /\ e.ok /\ e.took[s] = st.took[s] \union {n} /\ e.file[FileOf(s)] = f \o full(b)
           /\ e.writer[s].buf = << >> /\ e.writer[s].since = 0
    BY <1>1 DEF f, b, full, half
  <2>5. e.writer[s] = st.writer[s] => e.writer[s].buf = b
    BY DEF b
  <2> QED BY <2>1, <2>2, <2>3, <2>4, <2>5 DEF b
<1>7. Unread(e) <= IF e.ok THEN paid ELSE paid + 1
  <2> DEFINE q == Held(st, "trackio")
             T == st.took["trackio"]
             since == st.writer["trackio"].since
             cost(S, p) == Cardinality(S \ ReadableIn(p)) + HalfEnd(p)
  <2>1. /\ q \in Seq(Tokens) /\ T \in SUBSET (1..MaxRecords) /\ since \in Nat
    BY <1>4 DEF Sinks
  <2>2. /\ cost(T, q) \in Nat /\ cost(T \union {n}, full(q)) \in Nat /\ cost(T, half(q)) \in Nat
        /\ cost(T \union {n}, full(q)) <= cost(T, q)
        /\ cost(T, half(q)) <= cost(T, q) + 1
    BY <2>1, ReadOn
  <2>3. cost(T, q) + Overdue(since) <= paid
    BY DEF Sound, Unread
  <2>4. Unread(e) = cost(e.took["trackio"], Held(e, "trackio")) + Overdue(e.writer["trackio"].since)
    BY DEF Unread
  <2>5. /\ Overdue(since) \in Nat /\ Overdue(0) = 0 /\ Overdue(since + 1) <= Overdue(since) + 1
        /\ Overdue(since + 1) \in Nat /\ (since + 1 < FlushRecords => Overdue(since + 1) = 0)
    <3> HIDE DEF since
    <3> QED BY <2>1, TelemetryAssumption DEF Overdue
  <2>6. CASE s # "trackio"
    <3>1. Unread(e) = cost(T, q) + Overdue(since)
      BY <1>1, <1>5, <2>4, <2>6 DEF Sinks
    <3> HIDE DEF cost, q, T, since
    <3> QED BY <2>2, <2>3, <2>5, <3>1
  <2>7. CASE s = "trackio"
    <3>1. \/ /\ ~e.ok /\ Unread(e) = cost(T, q) + Overdue(since)
          \/ /\ ~e.ok /\ Unread(e) = cost(T, half(q)) + Overdue(since)
          \/ /\ Unread(e) = cost(T \union {n}, full(q)) + Overdue(since + 1)
             /\ e.ok => since + 1 < FlushRecords
          \/ /\ e.ok /\ Unread(e) = cost(T \union {n}, full(q)) + Overdue(0)
      <4> HIDE DEF cost, full, half
      <4> QED BY <1>6, <2>4, <2>7
    <3> HIDE DEF cost, q, T, since, full, half
    <3> QED BY <2>2, <2>3, <2>5, <3>1
  <2> QED BY <2>6, <2>7
<1>8. Cardinality(WholeIn(e.writer["trackio"].buf)) <= e.writer["trackio"].since
  <2> DEFINE b == st.writer["trackio"].buf
             since == st.writer["trackio"].since
  <2>1. b \in Seq(Tokens) /\ since \in Nat /\ Cardinality(WholeIn(b)) <= since
    BY <1>4 DEF Sound, Sinks
  <2>2. IsFiniteSet(WholeIn(b)) /\ Cardinality(WholeIn(b)) \in Nat
    BY <2>1, WholeIsFinite
  <2>3. WholeIn(full(b)) = WholeIn(b) \union {n} /\ WholeIn(half(b)) = WholeIn(b)
    BY <2>1, WholeOfOneMore
  <2>4. Cardinality(WholeIn(b) \union {n}) \in Nat /\ Cardinality(WholeIn(b) \union {n}) <= Cardinality(WholeIn(b)) + 1
    <3> DEFINE W == WholeIn(b)
    <3> HIDE DEF W
    <3>1. IsFiniteSet(W) /\ Cardinality(W) \in Nat
      BY <2>2 DEF W
    <3>2. Cardinality(W \union {n}) = IF n \in W THEN Cardinality(W) ELSE Cardinality(W) + 1
      BY <3>1, FS_AddElement, Zenon
    <3>3. Cardinality(W \union {n}) \in Nat /\ Cardinality(W \union {n}) <= Cardinality(W) + 1
      BY <3>1, <3>2
    <3> QED BY <3>3 DEF W
  <2>5. Cardinality(WholeIn(<< >>)) = 0
    <3>1. WholeIn(<< >>) = {}
      BY DEF WholeIn
    <3> QED BY <3>1, FS_EmptySet
  <2>6. CASE s # "trackio"
    BY <1>1, <2>1, <2>6 DEF Sinks
  <2>7. CASE s = "trackio"
    <3>1. \/ e.writer["trackio"] = st.writer["trackio"]
          \/ e.writer["trackio"].buf = half(b) /\ e.writer["trackio"].since = since
          \/ e.writer["trackio"].buf = full(b) /\ e.writer["trackio"].since = since + 1
          \/ e.writer["trackio"].buf = << >> /\ e.writer["trackio"].since = 0
      BY <1>6, <2>7
    <3>2. e.writer["trackio"] = st.writer["trackio"] => e.writer["trackio"].buf = b /\ e.writer["trackio"].since = since
      OBVIOUS
    <3> HIDE DEF b, since, full, half
    <3>3. CASE e.writer["trackio"] = st.writer["trackio"]
      BY <2>1, <3>2, <3>3
    <3>4. CASE e.writer["trackio"].buf = half(b) /\ e.writer["trackio"].since = since
      BY <2>1, <2>3, <3>4
    <3>5. CASE e.writer["trackio"].buf = full(b) /\ e.writer["trackio"].since = since + 1
      <4>1. WholeIn(e.writer["trackio"].buf) = WholeIn(b) \union {n}
        BY <2>3, <3>5
      <4> DEFINE c == Cardinality(WholeIn(b) \union {n})
                 d == Cardinality(WholeIn(b))
      <4>2. c \in Nat /\ d \in Nat /\ c <= d + 1 /\ d <= since /\ since \in Nat
        BY <2>1, <2>2, <2>4
      <4> HIDE DEF c, d
      <4>3. c <= since + 1
        BY <4>2
      <4> QED BY <3>5, <4>1, <4>3 DEF c
    <3>6. CASE e.writer["trackio"].buf = << >> /\ e.writer["trackio"].since = 0
      BY <2>5, <3>6
    <3> QED BY <3>1, <3>3, <3>4, <3>5, <3>6
  <2> QED BY <2>6, <2>7
<1>9. ASSUME NEW x \in Sinks, NEW m \in e.took[x], m > life
      PROVE  m \in WholeIn(Held(e, x))
  <2>1. \A k \in st.took[x] : k > life => k \in WholeIn(Held(st, x))
    BY DEF Sound
  <2>2. CASE x # s
    BY <1>1, <1>5, <1>9, <2>1, <2>2
  <2>3. CASE x = s
    <3>1. WholeIn(full(Held(st, s))) = WholeIn(Held(st, s)) \union {n}
          /\ WholeIn(half(Held(st, s))) = WholeIn(Held(st, s))
      BY <1>4, WholeOfOneMore
    <3> HIDE DEF full, half
    <3> QED BY <1>6, <1>9, <2>1, <2>3, <3>1
  <2> QED BY <2>2, <2>3
<1>10. ASSUME NEW x \in Names PROVE ReadableIn(st.file[x]) \subseteq ReadableIn(e.file[x])
  <2>1. CASE e.file[x] = st.file[x]
    BY <2>1
  <2>2. CASE x = FileOf(s) /\ e.file[x] = st.file[x] \o full(st.writer[s].buf)
    <3>1. full(st.writer[s].buf) \in Seq(Tokens)
      BY <1>3, <1>4, AppendProperties
    <3> HIDE DEF full
    <3> QED BY <1>4, <2>2, <3>1, ReadableOfConcat
  <2> QED BY <1>1, <2>1, <2>2
<1> QED BY <1>7, <1>8, <1>9, <1>10 DEF Sound

-----------------------------------------------------------------------------
\* One record through the fan-out, and a batch of records.

AllFaults == [rec : Nat, sink : Sinks, how : Modes]

Mirrored(st) == st.took[order[2]] \subseteq st.took[order[1]]

\* From st to e at most record n is added, and nothing becomes unreadable.
Follows(st, e, n) ==
  /\ e \in BatchStates /\ e.done = st.done
  /\ \A s \in Sinks : st.took[s] \subseteq e.took[s] /\ e.took[s] \subseteq st.took[s] \union {n}
  /\ \A x \in Names : ReadableIn(st.file[x]) \subseteq ReadableIn(e.file[x])
  /\ \A x \in Names \ {MetricsFile, event} : e.file[x] = st.file[x]

LEMMA EmitFollows ==
  ASSUME MetricTypes, NEW st \in BatchStates, st.ok, NEW s \in Sinks, NEW n \in 1..MaxRecords,
         NEW fault \in AllFaults, NEW paid \in Nat, Sound(st, paid), NEW e, e = EmitTo(st, s, n, fault)
  PROVE  /\ Follows(st, e, n) /\ Sound(e, IF e.ok THEN paid ELSE paid + 1)
         /\ (~e.ok => fault.rec = n) /\ (e.ok => n \in e.took[s])
         /\ \A x \in Sinks \ {s} : e.took[x] = st.took[x]
<1>1. fault \in [rec : Nat, sink : Sinks, how : Modes]
  BY DEF AllFaults
<1>2. Effect(st, s, n, e) /\ (~e.ok => fault.rec = n)
  BY <1>1, EmitEffect
<1>3. /\ Sound(e, IF e.ok THEN paid ELSE paid + 1)
      /\ \A x \in Names : ReadableIn(st.file[x]) \subseteq ReadableIn(e.file[x])
  BY <1>1, EmitSound
<1>4. FileOf(s) \in {MetricsFile, event}
  BY DEF FileOf
<1>5. Follows(st, e, n)
  BY <1>2, <1>3, <1>4 DEF Effect, Follows
<1> QED BY <1>2, <1>3, <1>5 DEF Effect

LEMMA FanoutFollows ==
  ASSUME MetricTypes, NEW st \in BatchStates, st.ok, Mirrored(st), NEW n \in 1..MaxRecords,
         NEW fault \in AllFaults, NEW paid \in Nat, Sound(st, paid), NEW e, e = Fanout(st, n, fault)
  PROVE  /\ Follows(st, e, n) /\ Sound(e, IF e.ok THEN paid ELSE paid + 1)
         /\ (~e.ok => fault.rec = n) /\ (e.ok => n \in e.took[order[2]])
         /\ Mirrored(e)
<1>1. /\ order[1] \in Sinks /\ order[2] \in Sinks /\ order[1] # order[2]
      /\ \A s \in Sinks : s # order[2] => s = order[1]
  BY DEF MetricTypes, Sinks
<1> DEFINE first == EmitTo(st, order[1], n, fault)
<1>2. /\ Follows(st, first, n) /\ Sound(first, IF first.ok THEN paid ELSE paid + 1)
      /\ (~first.ok => fault.rec = n) /\ (first.ok => n \in first.took[order[1]])
      /\ \A x \in Sinks \ {order[1]} : first.took[x] = st.took[x]
  BY <1>1, EmitFollows
<1>3. e = IF first.ok THEN EmitTo(first, order[2], n, fault) ELSE first
  BY DEF Fanout
<1> HIDE DEF first
<1>4. CASE ~first.ok
  BY <1>1, <1>2, <1>3, <1>4 DEF Mirrored, Follows
<1>5. CASE first.ok
  <2>1. first \in BatchStates /\ Sound(first, paid)
    BY <1>2, <1>5 DEF Follows
  <2>2. /\ Follows(first, e, n) /\ Sound(e, IF e.ok THEN paid ELSE paid + 1)
        /\ (~e.ok => fault.rec = n) /\ (e.ok => n \in e.took[order[2]])
        /\ \A x \in Sinks \ {order[2]} : e.took[x] = first.took[x]
    BY <1>1, <1>3, <1>5, <2>1, EmitFollows
  <2>3. Follows(st, e, n)
    BY <1>2, <2>2 DEF Follows
  <2>4. Mirrored(e)
    <3>1. e.took[order[2]] \subseteq first.took[order[2]] \union {n} /\ e.took[order[1]] = first.took[order[1]]
      BY <1>1, <2>2 DEF Follows
    <3>2. first.took[order[2]] = st.took[order[2]] /\ st.took[order[1]] \subseteq first.took[order[1]]
      BY <1>1, <1>2 DEF Follows
    <3> QED BY <1>2, <1>5, <3>1, <3>2 DEF Mirrored
  <2> QED BY <2>2, <2>3, <2>4
<1> QED BY <1>4, <1>5

\* The state of a batch after k attempts.
Progress(e, k, fault) ==
  /\ e \in BatchStates /\ Mirrored(e)
  /\ e.ok => e.done = k
  /\ ~e.ok => e.done < k /\ fault.rec = count + e.done + 1
  /\ Sound(e, IF e.ok THEN Paid ELSE Paid + 1)
  /\ \A s \in Sinks : /\ took[s] \subseteq e.took[s]
                       /\ e.took[s] \subseteq took[s] \union (count + 1)..(count + e.done + (IF e.ok THEN 0 ELSE 1))
  /\ (count + 1)..(count + e.done) \subseteq e.took[order[2]]
  /\ \A x \in Names : ReadableIn(file[x]) \subseteq ReadableIn(e.file[x])
  /\ \A x \in Names \ {MetricsFile, event} : e.file[x] = file[x]

LEMMA AttemptProgress ==
  ASSUME MetricTypes, NEW st, NEW k \in Nat, NEW fault \in AllFaults, Progress(st, k, fault),
         count + k + 1 <= MaxRecords, NEW e, e = Attempt(st, count + k + 1, fault)
  PROVE  Progress(e, k + 1, fault)
<1> DEFINE n == count + k + 1
           after == Fanout(st, n, fault)
<1>1. /\ st \in BatchStates /\ count \in Nat /\ n \in 1..MaxRecords /\ Paid \in Nat /\ st.done \in Nat
      /\ order[2] \in Sinks
  <2>1. st \in BatchStates
    BY DEF Progress
  <2>2. st.done \in Nat
    BY <2>1 DEF BatchStates
  <2>3. count \in Nat /\ n \in 1..MaxRecords
    BY TelemetryAssumption DEF MetricTypes
  <2>4. Paid \in Nat
    BY TelemetryAssumption DEF MetricTypes, Paid
  <2>5. order[2] \in Sinks
    BY DEF MetricTypes, Sinks
  <2> QED BY <2>1, <2>2, <2>3, <2>4, <2>5
<1>2. CASE ~st.ok
  BY <1>1, <1>2 DEF Attempt, Progress
<1>3. CASE st.ok
  <2>1. Mirrored(st) /\ Sound(st, Paid) /\ st.done = k
    BY <1>3 DEF Progress
  <2>2. /\ Follows(st, after, n) /\ Sound(after, IF after.ok THEN Paid ELSE Paid + 1)
        /\ (~after.ok => fault.rec = n) /\ (after.ok => n \in after.took[order[2]])
        /\ Mirrored(after)
    BY <1>1, <1>3, <2>1, FanoutFollows
  <2>3. e = IF after.ok THEN [after EXCEPT !.done = @ + 1] ELSE after
    BY <1>3 DEF Attempt
  <2> HIDE DEF after
  <2>4. after \in BatchStates /\ after.done = k
    BY <2>1, <2>2 DEF Follows
  <2>5. /\ e \in BatchStates /\ e.writer = after.writer /\ e.file = after.file /\ e.took = after.took
        /\ e.ok = after.ok /\ e.done = (IF after.ok THEN k + 1 ELSE k)
    <3>1. CASE ~after.ok
      BY <2>3, <2>4, <3>1
    <3>2. CASE after.ok
      <4>1. e = [after EXCEPT !.done = k + 1] /\ k + 1 \in Nat
        BY <2>3, <2>4, <3>2
      <4> QED BY <2>4, <3>2, <4>1 DEF BatchStates
    <3> QED BY <3>1, <3>2
  <2>6. Mirrored(e) /\ Sound(e, IF e.ok THEN Paid ELSE Paid + 1)
    BY <2>2, <2>5 DEF Mirrored, Sound, Unread, Held
  <2>7. /\ \A s \in Sinks : st.took[s] \subseteq e.took[s] /\ e.took[s] \subseteq st.took[s] \union {n}
        /\ \A x \in Names : ReadableIn(st.file[x]) \subseteq ReadableIn(e.file[x])
        /\ \A x \in Names \ {MetricsFile, event} : e.file[x] = st.file[x]
    BY <2>2, <2>5 DEF Follows
  <2>8. /\ \A s \in Sinks : took[s] \subseteq st.took[s] /\ st.took[s] \subseteq took[s] \union (count + 1)..(count + k)
        /\ (count + 1)..(count + k) \subseteq st.took[order[2]]
        /\ \A x \in Names : ReadableIn(file[x]) \subseteq ReadableIn(st.file[x])
        /\ \A x \in Names \ {MetricsFile, event} : st.file[x] = file[x]
    BY <1>1, <1>3, <2>1 DEF Progress
  <2>9. (count + 1)..(count + k + 1) = (count + 1)..(count + k) \union {n}
    BY <1>1
  <2>10. \A s \in Sinks : /\ took[s] \subseteq e.took[s]
                          /\ e.took[s] \subseteq took[s] \union (count + 1)..(count + e.done + (IF e.ok THEN 0 ELSE 1))
    <3>1. count + e.done + (IF e.ok THEN 0 ELSE 1) = count + k + 1
      BY <1>1, <2>5
    <3> HIDE DEF n
    <3> QED BY <2>7, <2>8, <2>9, <3>1
  <2>11. (count + 1)..(count + e.done) \subseteq e.took[order[2]]
    <3>1. CASE after.ok
      <4>1. count + e.done = count + k + 1 /\ n \in e.took[order[2]]
        BY <1>1, <2>2, <2>5, <3>1
      <4> HIDE DEF n
      <4> QED BY <1>1, <2>7, <2>8, <2>9, <4>1
    <3>2. CASE ~after.ok
      <4>1. count + e.done = count + k
        BY <1>1, <2>5, <3>2
      <4> QED BY <1>1, <2>7, <2>8, <4>1
    <3> QED BY <3>1, <3>2
  <2>12. (e.ok => e.done = k + 1) /\ (~e.ok => e.done < k + 1 /\ fault.rec = count + e.done + 1)
    BY <1>1, <2>2, <2>5
  <2>13. /\ \A x \in Names : ReadableIn(file[x]) \subseteq ReadableIn(e.file[x])
         /\ \A x \in Names \ {MetricsFile, event} : e.file[x] = file[x]
    BY <2>7, <2>8
  <2> HIDE DEF n
  <2> QED BY <2>5, <2>6, <2>10, <2>11, <2>12, <2>13 DEF Progress
<1> QED BY <1>2, <1>3

LEMMA BatchProgress ==
  ASSUME MetricInv, up, NEW size \in 1..3, count + size <= MaxRecords,
         NEW fault \in Batches(size)
  PROVE  /\ Progress(EmitBatch(size, fault), size, fault)
         /\ fault = NoFault => EmitBatch(size, fault).ok
<1> DEFINE none == [writer |-> writer, file |-> file, took |-> took, ok |-> TRUE, done |-> 0]
           one == Attempt(none, count + 1, fault)
           two == Attempt(one, count + 2, fault)
           three == Attempt(two, count + 3, fault)
           e == EmitBatch(size, fault)
<1>1. MetricTypes /\ count \in Nat /\ fault \in AllFaults
  BY DEF MetricInv, MetricTypes, Batches, Faults, NoFault, AllFaults, Modes, Sinks
<1>2. Progress(none, 0, fault)
  <2>1. none \in BatchStates
    BY <1>1 DEF MetricTypes, SinkTypes, Now, BatchStates
  <2>2. Sound(none, Paid)
    BY DEF MetricInv, Sound, Unread, Held, Now
  <2>3. (count + 1)..(count + 0) = {}
    BY <1>1
  <2>4. Mirrored(none)
    BY DEF MetricInv, MirroredByPrefix, Mirrored
  <2> QED BY <1>1, <2>1, <2>2, <2>3, <2>4 DEF Progress
<1>3. e = IF size = 1 THEN one ELSE IF size = 2 THEN two ELSE three
  BY DEF EmitBatch
<1>4. Progress(one, 1, fault)
  <2>1. count + 0 + 1 = count + 1 /\ count + 0 + 1 <= MaxRecords /\ 0 + 1 = 1
    BY <1>1, TelemetryAssumption
  <2> HIDE DEF none
  <2>2. one = Attempt(none, count + 0 + 1, fault)
    BY <2>1
  <2> HIDE DEF one
  <2>3. Progress(one, 0 + 1, fault)
    BY <1>1, <1>2, <2>1, <2>2, AttemptProgress
  <2> QED BY <2>1, <2>3
<1>5. size > 1 => Progress(two, 2, fault)
  <2> SUFFICES ASSUME size > 1 PROVE Progress(two, 2, fault)
    OBVIOUS
  <2>1. count + 1 + 1 = count + 2 /\ count + 1 + 1 <= MaxRecords /\ 1 + 1 = 2
    BY <1>1, TelemetryAssumption
  <2> HIDE DEF one
  <2>2. two = Attempt(one, count + 1 + 1, fault)
    BY <2>1
  <2> HIDE DEF two
  <2>3. Progress(two, 1 + 1, fault)
    BY <1>1, <1>4, <2>1, <2>2, AttemptProgress
  <2> QED BY <2>1, <2>3
<1>6. size > 2 => Progress(three, 3, fault)
  <2> SUFFICES ASSUME size > 2 PROVE Progress(three, 3, fault)
    OBVIOUS
  <2>1. count + 2 + 1 = count + 3 /\ count + 2 + 1 <= MaxRecords /\ 2 + 1 = 3
    BY <1>1, TelemetryAssumption
  <2> HIDE DEF two
  <2>2. three = Attempt(two, count + 2 + 1, fault)
    BY <2>1
  <2> HIDE DEF three
  <2>3. Progress(three, 2 + 1, fault)
    BY <1>1, <1>5, <2>1, <2>2, AttemptProgress
  <2> QED BY <2>1, <2>3
<1>7. Progress(e, size, fault)
  <2> HIDE DEF one, two, three, e
  <2>1. size = 1 \/ size = 2 \/ size = 3
    OBVIOUS
  <2> QED BY <1>3, <1>4, <1>5, <1>6, <2>1
<1>8. fault = NoFault => e.ok
  <2> HIDE DEF e
  <2>1. e \in BatchStates /\ (~e.ok => fault.rec = count + e.done + 1)
    BY <1>7 DEF Progress
  <2> QED BY <1>1, <2>1 DEF NoFault, BatchStates
<1> QED BY <1>7, <1>8

-----------------------------------------------------------------------------
\* The steps.

\* What reached a file can still be read.
StillReadable == \A x \in Names : ReadableIn(file[x]) \subseteq ReadableIn(file'[x])

LEMMA EmittedKeeps ==
  ASSUME MetricInv, up, NEW size \in 1..3, NEW fault \in Batches(size), Emitted(size, fault),
         UNCHANGED <<clock, up, order, event, life, closed, crashes>>
  PROVE  LET st == EmitBatch(size, fault)
         IN  /\ SinkTypes(Now)' /\ (\A t \in 0..MaxClock : t > event => file'[t] = << >>)
             /\ count' \in 0..MaxRecords /\ life \in 0..count' /\ faults' \in Nat
             /\ (\A s \in Sinks : took'[s] \subseteq 1..count')
             /\ Sound(Now, Paid)' /\ MirroredByPrefix' /\ StillReadable
             /\ st.ok \in BOOLEAN /\ st.done \in Nat
             /\ st.ok => st.done = size /\ count' = count + size
             /\ ~st.ok => st.done < size /\ count' = count + st.done + 1
<1> DEFINE st == EmitBatch(size, fault)
<1>1. /\ MetricTypes /\ count \in 0..MaxRecords /\ MaxRecords \in Nat /\ life \in 0..count
      /\ crashes \in Nat /\ faults \in Nat /\ Paid \in Nat /\ event \in 0..MaxClock
  <2>1. MetricTypes
    BY DEF MetricInv
  <2>2. /\ count \in 0..MaxRecords /\ life \in 0..count /\ crashes \in Nat /\ faults \in Nat
    BY <2>1 DEF MetricTypes
  <2>3. Paid \in Nat
    BY <2>2, TelemetryAssumption DEF Paid
  <2> QED BY <2>1, <2>2, <2>3, FilesDiffer, TelemetryAssumption
<1>2. /\ count + size <= MaxRecords
      /\ fault # NoFault => ~st.ok
      /\ writer' = st.writer /\ file' = st.file /\ took' = st.took
      /\ count' = count + (IF st.ok THEN size ELSE st.done + 1)
      /\ accepted' = accepted \union (count + 1)..(count + st.done)
      /\ faults' = IF fault = NoFault THEN faults ELSE faults + 1
  BY DEF Emitted
<1>3. Progress(st, size, fault) /\ (fault = NoFault => st.ok)
  BY <1>2, BatchProgress
<1> HIDE DEF st
<1>4. /\ st \in BatchStates /\ st.ok \in BOOLEAN /\ st.done \in Nat
      /\ (st.ok => st.done = size) /\ (~st.ok => st.done < size)
  BY <1>3 DEF Progress, BatchStates
<1>5. /\ st.ok => count' = count + size
      /\ ~st.ok => count' = count + st.done + 1
      /\ count' \in 0..MaxRecords /\ count <= count'
      /\ count + st.done + (IF st.ok THEN 0 ELSE 1) = count'
  BY <1>1, <1>2, <1>4
<1>6. SinkTypes(Now)'
  BY <1>2, <1>4 DEF SinkTypes, Now, BatchStates
<1>7. \A t \in 0..MaxClock : t > event => file'[t] = << >>
  <2>1. \A t \in 0..MaxClock : t > event => file[t] = << >> /\ t \in Names \ {MetricsFile, event}
    BY <1>1 DEF MetricTypes, Names, MetricsFile
  <2> QED BY <1>2, <1>3, <2>1 DEF Progress
<1>8. \A s \in Sinks : took'[s] \subseteq 1..count'
  <2>1. \A s \in Sinks : took[s] \subseteq 1..count
    BY <1>1 DEF MetricTypes
  <2>2. \A s \in Sinks : took'[s] \subseteq took[s] \union (count + 1)..count'
    BY <1>2, <1>3, <1>5 DEF Progress
  <2>3. (1..count) \union (count + 1)..count' \subseteq 1..count'
    BY <1>1, <1>5
  <2> QED BY <2>1, <2>2, <2>3
<1>9. faults' \in Nat /\ Paid' = IF st.ok THEN Paid ELSE Paid + 1
  <2>1. CASE fault = NoFault
    BY <1>1, <1>2, <1>3, <2>1 DEF Paid
  <2>2. CASE fault # NoFault
    <3>1. faults' = faults + 1 /\ ~st.ok
      BY <1>2, <2>2
    <3>2. crashes * FlushRecords \in Int
      BY <1>1, TelemetryAssumption
    <3> QED BY <1>1, <3>1, <3>2 DEF Paid
  <2> QED BY <2>1, <2>2
<1>10. Sound(Now, Paid)'
  <2>1. Sound(st, Paid')
    BY <1>3, <1>9 DEF Progress
  <2>2. \A s \in Sinks : Held(Now, s)' = Held(st, s)
    BY <1>2 DEF Held, Now, FileOf
  <2>3. Held(Now, "trackio")' = Held(st, "trackio")
    BY <2>2 DEF Sinks
  <2>4. Now' = [writer |-> st.writer, file |-> st.file, took |-> st.took]
    BY <1>2 DEF Now
  <2> QED BY <2>1, <2>2, <2>3, <2>4 DEF Sound, Unread
<1>11. MirroredByPrefix'
  <2>1. took'[order[2]] \subseteq took'[order[1]]
    BY <1>2, <1>3 DEF Progress, Mirrored
  <2>2. accepted \subseteq took'[order[2]]
    <3>1. accepted \subseteq took[order[2]] /\ order[2] \in Sinks
      BY <1>1 DEF MetricInv, MirroredByPrefix, MetricTypes, Sinks
    <3> QED BY <1>2, <1>3, <3>1 DEF Progress
  <2>3. (count + 1)..(count + st.done) \subseteq took'[order[2]]
    BY <1>2, <1>3 DEF Progress
  <2> QED BY <1>2, <2>1, <2>2, <2>3 DEF MirroredByPrefix
<1>12. StillReadable
  BY <1>2, <1>3 DEF Progress, StillReadable
<1>13. life \in 0..count'
  BY <1>1, <1>5
<1> QED BY <1>4, <1>5, <1>6, <1>7, <1>8, <1>9, <1>10, <1>11, <1>12, <1>13 DEF st

\* What the death of a process costs the reader of metrics.jsonl: a full buffer,
\* one record of which half a line may stand for.
LEMMA BufferLost ==
  ASSUME MetricTypes, Sound(Now, Paid), NEW a \in Seq(Tokens)
  PROVE  LET f == file[MetricsFile]
             cost(q) == Cardinality(took["trackio"] \ ReadableIn(q)) + HalfEnd(q)
         IN  /\ cost(f \o a) <= Paid + FlushRecords
             /\ cost(f \o writer["trackio"].buf) <= Paid
<1> DEFINE f == file[MetricsFile]
           b == writer["trackio"].buf
           since == writer["trackio"].since
           T == took["trackio"]
           lost(q) == T \ ReadableIn(q)
<1>1. /\ f \in Seq(Tokens) /\ b \in Seq(Tokens) /\ since \in Nat /\ T \in SUBSET (1..MaxRecords)
      /\ Held(Now, "trackio") = f \o b /\ MetricsFile \in Names
  <2>1. MetricsFile \in Names
    BY DEF Names
  <2> QED BY <2>1 DEF MetricTypes, SinkTypes, Now, Held, FileOf, Sinks
<1>2. /\ f \o a \in Seq(Tokens) /\ f \o b \in Seq(Tokens)
      /\ ReadableIn(f) \subseteq ReadableIn(f \o a)
      /\ ReadableIn(f \o b) \subseteq ReadableIn(f) \union WholeIn(b)
  BY <1>1, WholeOfConcat, ReadableOfConcat
<1>3. Cardinality(lost(f \o b)) + HalfEnd(f \o b) + Overdue(since) <= Paid
  BY <1>1 DEF Sound, Unread, Now
<1>4. IsFiniteSet(lost(f \o b)) /\ Cardinality(lost(f \o b)) \in Nat /\ Cardinality(lost(f \o a)) \in Nat
  BY <1>1, SetsAreSmall
<1>5. IsFiniteSet(WholeIn(b)) /\ Cardinality(WholeIn(b)) \in Nat /\ Cardinality(WholeIn(b)) <= since
  BY <1>1, WholeIsFinite DEF Sound, Now
<1>6. lost(f \o a) \subseteq lost(f \o b) \union WholeIn(b)
  BY <1>2
<1>7. Cardinality(lost(f \o a)) <= Cardinality(lost(f \o b)) + Cardinality(WholeIn(b))
  <2> DEFINE A == lost(f \o a)
             B == lost(f \o b)
             W == WholeIn(b)
  <2> HIDE DEF A, B, W
  <2>1. IsFiniteSet(B) /\ IsFiniteSet(W) /\ A \subseteq B \union W
    BY <1>4, <1>5, <1>6 DEF A, B, W
  <2>2. /\ IsFiniteSet(B \union W) /\ Cardinality(B \union W) = Cardinality(B) + Cardinality(W) - Cardinality(B \cap W)
        /\ IsFiniteSet(B \cap W)
    BY <2>1, FS_Union, FS_Intersection
  <2>3. Cardinality(A) <= Cardinality(B \union W)
    BY <2>1, <2>2, FS_Subset
  <2>4. Cardinality(B \cap W) \in Nat /\ Cardinality(B) \in Nat /\ Cardinality(W) \in Nat
        /\ Cardinality(A) \in Nat
    BY <2>1, <2>2, FS_Subset, FS_CardinalityType
  <2>5. Cardinality(A) <= Cardinality(B) + Cardinality(W)
    BY <2>2, <2>3, <2>4
  <2> QED BY <2>5 DEF A, B, W
<1>8. HalfEnd(f \o a) \in {0, 1} /\ HalfEnd(f \o b) \in {0, 1}
  BY <1>2, ReadableIsWhole
<1>9. Overdue(since) \in Nat /\ since + 1 <= FlushRecords + Overdue(since)
  <2> HIDE DEF since
  <2> QED BY <1>1, TelemetryAssumption DEF Overdue
<1>10. Paid \in Int /\ FlushRecords \in Nat
  <2>1. crashes \in Nat /\ faults \in Nat
    BY DEF MetricTypes
  <2> QED BY <2>1, TelemetryAssumption DEF Paid
<1> HIDE DEF lost, since
<1>11. /\ Cardinality(lost(f \o a)) + HalfEnd(f \o a) <= Paid + FlushRecords
       /\ Cardinality(lost(f \o b)) + HalfEnd(f \o b) <= Paid
  BY <1>1, <1>3, <1>4, <1>5, <1>7, <1>8, <1>9, <1>10
<1> QED BY <1>11 DEF lost

LEMMA InitMetric == Init => MetricInv
<1> SUFFICES ASSUME Init PROVE MetricInv
  OBVIOUS
<1>1. /\ writer = [s \in Sinks |-> [buf |-> << >>, since |-> 0, last |-> 0]]
      /\ file = [x \in Names |-> << >>] /\ took = [s \in Sinks |-> {}]
      /\ clock = 0 /\ up = TRUE /\ event = 0 /\ count = 0 /\ life = 0 /\ crashes = 0 /\ faults = 0
      /\ accepted = {} /\ refused = FALSE /\ cadence = sampled
      /\ cadence = [fast |-> Never, disk |-> Never]
      /\ order \in {<<"trackio", "tensorboard">>, <<"tensorboard", "trackio">>}
  BY DEF Init, Names
<1>2. << >> \in Seq(Tokens)
  OBVIOUS
<1>3. SinkTypes(Now)
  BY <1>1, <1>2 DEF SinkTypes, Now
<1>4. MetricTypes
  <2>1. /\ clock \in 0..MaxClock /\ up \in BOOLEAN /\ event \in 0..clock /\ count \in 0..MaxRecords
        /\ life \in 0..count /\ crashes \in Nat /\ faults \in Nat /\ refused \in BOOLEAN
    <3>1. MaxClock \in Nat /\ MaxRecords \in Nat
      BY TelemetryAssumption
    <3>2. 0 \in 0..MaxClock /\ 0 \in 0..0 /\ 0 \in 0..MaxRecords /\ 0 \in Nat
      BY <3>1
    <3> QED BY <1>1, <3>2
  <2>2. /\ cadence \in [fast : {Never} \union 0..clock, disk : {Never} \union 0..clock]
        /\ sampled \in [fast : {Never} \union 0..clock, disk : {Never} \union 0..clock]
    BY <1>1
  <2>3. /\ \A t \in 0..MaxClock : t > event => file[t] = << >>
        /\ \A s \in Sinks : took[s] \subseteq 1..count
    BY <1>1 DEF Names
  <2> QED BY <1>1, <1>3, <2>1, <2>2, <2>3 DEF MetricTypes
<1>5. \A s \in Sinks : FileOf(s) \in Names
  BY <1>4, FilesDiffer
<1>6. Sound(Now, Paid)
  <2>1. Held(Now, "trackio") = << >> \o << >> /\ Now.writer["trackio"].since = 0
        /\ Now.writer["trackio"].buf = << >> /\ Now.took["trackio"] = {}
    BY <1>1, <1>5 DEF Held, Now, Sinks
  <2>2. << >> \o << >> = << >>
    OBVIOUS
  <2>3. HalfEnd(<< >>) = 0 /\ WholeIn(<< >>) = {} /\ Overdue(0) = 0
    BY TelemetryAssumption DEF HalfEnd, WholeIn, Overdue
  <2>4. Cardinality({}) = 0
    BY FS_EmptySet
  <2>5. {} \ ReadableIn(<< >>) = {}
    OBVIOUS
  <2>6. Unread(Now) = 0
    BY <2>1, <2>2, <2>3, <2>4, <2>5 DEF Unread
  <2>7. Paid = 0
    BY <1>1, TelemetryAssumption DEF Paid
  <2>8. Cardinality(WholeIn(Now.writer["trackio"].buf)) <= Now.writer["trackio"].since
    <3>1. Cardinality(WholeIn(<< >>)) = 0
      BY <2>3, <2>4
    <3> QED BY <2>1, <3>1
  <2>9. \A s \in Sinks : Now.took[s] = {}
    BY <1>1 DEF Now
  <2> QED BY <2>6, <2>7, <2>8, <2>9 DEF Sound
<1>7. MirroredByPrefix
  BY <1>1 DEF MirroredByPrefix, Sinks
<1> QED BY <1>1, <1>4, <1>6, <1>7 DEF MetricInv

\* Neither the clock nor the sampler touches the sinks.
LEMMA SinksUntouched ==
  ASSUME MetricInv, UNCHANGED <<up, order, io, event, count, accepted, life, closed, crashes, faults>>
  PROVE  /\ SinkTypes(Now)' /\ (up => Sound(Now, Paid)') /\ (~up => AtRest') /\ MirroredByPrefix'
         /\ StillReadable
<1>1. /\ writer' = writer /\ file' = file /\ took' = took
  BY DEF io
<1>2. Now' = Now /\ Paid' = Paid
  BY <1>1 DEF Now, Paid
<1>3. \A s \in Sinks : Held(Now, s)' = Held(Now, s)
  BY <1>1 DEF Now, Held, FileOf
<1>4. up => Sound(Now, Paid)'
  <2>1. Held(Now, "trackio")' = Held(Now, "trackio")
    BY <1>3 DEF Sinks
  <2> QED BY <1>2, <1>3, <2>1 DEF Sound, Unread, MetricInv
<1>5. ~up => AtRest'
  BY <1>1, <1>2 DEF MetricInv, AtRest, FileOf
<1> QED BY <1>1, <1>2, <1>4, <1>5 DEF MetricInv, MetricTypes, SinkTypes, MirroredByPrefix, StillReadable

\* A process that dies or stops: its files end in a and b, what was in the buffers.
LEMMA StopKeeps ==
  ASSUME MetricInv, up, up' = FALSE,
         NEW a \in Seq(Tokens), NEW b \in Seq(Tokens), NEW orderly \in BOOLEAN,
         orderly => a = writer["trackio"].buf /\ b = writer["tensorboard"].buf,
         file' = [file EXCEPT ![MetricsFile] = @ \o a, ![event] = @ \o b],
         writer' \in [Sinks -> [buf : Seq(Tokens), since : Nat, last : Nat]],
         crashes' = IF orderly THEN crashes ELSE crashes + 1,
         closed' = "ok" => orderly,
         UNCHANGED <<clock, order, event, took, sampler, count, accepted, life, faults>>
  PROVE  MetricInv' /\ StillReadable
<1>1. MetricTypes /\ Sound(Now, Paid)
  BY DEF MetricInv
<1>2. /\ MetricsFile \in Names /\ event \in Names /\ MetricsFile # event /\ event \in 0..MaxClock
      /\ file \in [Names -> Seq(Tokens)] /\ crashes \in Nat /\ faults \in Nat
      /\ writer["trackio"].buf \in Seq(Tokens) /\ writer["tensorboard"].buf \in Seq(Tokens)
  <2>1. event \in 0..MaxClock /\ MetricsFile \notin 0..MaxClock
    BY <1>1, FilesDiffer
  <2> QED BY <1>1, <2>1 DEF MetricTypes, SinkTypes, Now, Names, Sinks
<1>3. /\ file' \in [Names -> Seq(Tokens)]
      /\ file'[MetricsFile] = file[MetricsFile] \o a /\ file'[event] = file[event] \o b
      /\ \A x \in Names \ {MetricsFile, event} : file'[x] = file[x]
  <2>1. file[MetricsFile] \o a \in Seq(Tokens) /\ file[event] \o b \in Seq(Tokens)
    BY <1>2, WholeOfConcat
  <2> QED BY <1>2, <2>1
<1>4. StillReadable
  BY <1>2, <1>3, ReadableOfConcat DEF StillReadable
<1>5. MetricTypes'
  <2>1. SinkTypes(Now)'
    BY <1>1, <1>3 DEF MetricTypes, SinkTypes, Now
  <2>2. \A t \in 0..MaxClock : t > event' => file'[t] = << >>
    <3>1. \A t \in 0..MaxClock : t > event => file[t] = << >> /\ t \in Names \ {MetricsFile, event}
      BY <1>1, <1>2 DEF MetricTypes, Names, MetricsFile
    <3> QED BY <1>3, <3>1
  <2>3. crashes' \in Nat
    BY <1>2
  <2>4. up' \in BOOLEAN
    OBVIOUS
  <2> QED BY <1>1, <2>1, <2>2, <2>3, <2>4 DEF MetricTypes, sampler
<1>6. Cardinality(took["trackio"] \ ReadableIn(file'[MetricsFile])) + HalfEnd(file'[MetricsFile]) <= Paid'
  <2>1. /\ Cardinality(took["trackio"] \ ReadableIn(file'[MetricsFile])) + HalfEnd(file'[MetricsFile]) <= Paid + FlushRecords
        /\ orderly => Cardinality(took["trackio"] \ ReadableIn(file'[MetricsFile])) + HalfEnd(file'[MetricsFile]) <= Paid
    BY <1>1, <1>3, BufferLost
  <2>2. Paid' = IF orderly THEN Paid ELSE Paid + FlushRecords
    <3>1. CASE orderly
      BY <3>1 DEF Paid
    <3>2. CASE ~orderly
      <4>1. Paid' = (crashes + 1) * FlushRecords + faults
        BY <3>2 DEF Paid
      <4> QED BY <1>2, <3>2, <4>1, TelemetryAssumption DEF Paid
    <3> QED BY <3>1, <3>2
  <2> QED BY <2>1, <2>2
<1>7. closed' = "ok" => \A s \in Sinks : \A n \in took[s] : n > life => n \in WholeIn(file'[FileOf(s)])
  <2> SUFFICES ASSUME closed' = "ok", NEW s \in Sinks, NEW n \in took[s], n > life
               PROVE  n \in WholeIn(file'[FileOf(s)])
    OBVIOUS
  <2>1. n \in WholeIn(Held(Now, s))
    BY <1>1 DEF Sound, Now
  <2>2. Held(Now, s) = file'[FileOf(s)]
    BY <1>3 DEF Held, Now, FileOf, Sinks
  <2> QED BY <2>1, <2>2
<1>8. AtRest'
  BY <1>6, <1>7 DEF AtRest, FileOf
<1>9. MirroredByPrefix' /\ (~refused' => cadence'.fast = sampled'.fast)
  BY DEF MetricInv, MirroredByPrefix, sampler
<1> QED BY <1>4, <1>5, <1>8, <1>9 DEF MetricInv

LEMMA TickKeeps == ASSUME MetricInv, Tick PROVE MetricInv' /\ StillReadable
<1>1. /\ SinkTypes(Now)' /\ (up => Sound(Now, Paid)') /\ (~up => AtRest') /\ MirroredByPrefix'
      /\ StillReadable
  BY SinksUntouched DEF Tick
<1>2. MetricTypes'
  <2>1. MetricTypes /\ clock' = clock + 1 /\ clock < MaxClock /\ file' = file
        /\ UNCHANGED <<up, order, took, event, cadence, sampled, refused, count, life, crashes, faults>>
    BY DEF Tick, io, sampler, MetricInv
  <2>2. clock' \in 0..MaxClock /\ 0..clock \subseteq 0..clock'
    BY <2>1, TelemetryAssumption DEF MetricTypes
  <2>3. event' \in 0..clock' /\ \A t \in 0..MaxClock : t > event' => file'[t] = << >>
    BY <2>1, <2>2 DEF MetricTypes
  <2>4. /\ cadence' \in [fast : {Never} \union 0..clock', disk : {Never} \union 0..clock']
        /\ sampled' \in [fast : {Never} \union 0..clock', disk : {Never} \union 0..clock']
    BY <2>1, <2>2 DEF MetricTypes
  <2> QED BY <1>1, <2>1, <2>2, <2>3, <2>4 DEF MetricTypes
<1> QED BY <1>1, <1>2 DEF MetricInv, Tick, sampler

LEMMA CrashKeeps == ASSUME MetricInv, Crash PROVE MetricInv' /\ StillReadable
<1>1. writer \in [Sinks -> [buf : Seq(Tokens), since : Nat, last : Nat]]
  BY DEF MetricInv, MetricTypes, SinkTypes, Now
<1>2. PICK a \in Remains(writer["trackio"].buf), b \in Remains(writer["tensorboard"].buf) :
        file' = [file EXCEPT ![MetricsFile] = @ \o a, ![event] = @ \o b]
  BY DEF Crash
<1>3. a \in Seq(Tokens) /\ b \in Seq(Tokens)
  <2>1. writer["trackio"].buf \in Seq(Tokens) /\ writer["tensorboard"].buf \in Seq(Tokens)
    BY <1>1 DEF Sinks
  <2> QED BY <2>1, RemainsTyped
<1>4. /\ up /\ up' = FALSE /\ crashes' = (IF FALSE THEN crashes ELSE crashes + 1) /\ closed' # "ok"
      /\ writer' \in [Sinks -> [buf : Seq(Tokens), since : Nat, last : Nat]]
      /\ UNCHANGED <<clock, order, event, took, sampler, count, accepted, life, faults>>
  BY <1>1 DEF Crash
<1> QED BY <1>2, <1>3, <1>4, StopKeeps

LEMMA ShutdownKeepsInv ==
  ASSUME MetricInv, NEW failing \in SUBSET Sinks, Shutdown(failing)
  PROVE  MetricInv' /\ StillReadable
<1>1. /\ writer["trackio"].buf \in Seq(Tokens) /\ writer["tensorboard"].buf \in Seq(Tokens)
      /\ clock \in Nat
  <2>1. clock \in Nat /\ writer \in [Sinks -> [buf : Seq(Tokens), since : Nat, last : Nat]]
    BY TelemetryAssumption DEF MetricInv, MetricTypes, SinkTypes, Now
  <2> QED BY <2>1 DEF Sinks
<1>2. PICK a \in LeftBy(failing)["trackio"], b \in LeftBy(failing)["tensorboard"] :
        file' = [file EXCEPT ![MetricsFile] = @ \o a, ![event] = @ \o b]
  BY DEF Shutdown
<1>3. /\ "trackio" \in failing => a \in Remains(writer["trackio"].buf)
      /\ "trackio" \notin failing => a = writer["trackio"].buf
      /\ "tensorboard" \in failing => b \in Remains(writer["tensorboard"].buf)
      /\ "tensorboard" \notin failing => b = writer["tensorboard"].buf
  BY <1>2 DEF LeftBy, Sinks
<1>4. a \in Seq(Tokens) /\ b \in Seq(Tokens)
  BY <1>1, <1>3, RemainsTyped
<1> DEFINE orderly == failing = {}
<1>5. /\ up /\ up' = FALSE /\ crashes' = (IF orderly THEN crashes ELSE crashes + 1)
      /\ closed' = "ok" => orderly
      /\ orderly \in BOOLEAN /\ orderly => a = writer["trackio"].buf /\ b = writer["tensorboard"].buf
      /\ UNCHANGED <<clock, order, event, took, sampler, count, accepted, life, faults>>
  BY <1>3 DEF Shutdown
<1>6. writer' \in [Sinks -> [buf : Seq(Tokens), since : Nat, last : Nat]]
  BY <1>1 DEF Shutdown, Fresh
<1> HIDE DEF orderly
<1> QED BY <1>2, <1>4, <1>5, <1>6, StopKeeps

LEMMA StartKeeps ==
  ASSUME MetricInv, Start
  PROVE  /\ MetricInv'
         /\ \A x \in Names : x # event \/ event' # event => ReadableIn(file[x]) \subseteq ReadableIn(file'[x])
<1>1. /\ MetricTypes /\ ~up /\ AtRest /\ clock \in 0..MaxClock /\ event \in 0..clock /\ count \in 0..MaxRecords
      /\ file \in [Names -> Seq(Tokens)] /\ MetricsFile \in Names /\ MetricsFile # clock /\ clock \in Names
      /\ clock \in Nat
  <2>1. ~up /\ MetricTypes
    BY DEF Start, MetricInv
  <2>2. clock \in 0..MaxClock /\ MetricsFile \notin 0..MaxClock
    BY <2>1, FilesDiffer
  <2> QED BY <2>1, <2>2, TelemetryAssumption DEF MetricInv, MetricTypes, SinkTypes, Now, Names
<1>2. /\ up' = TRUE /\ event' = clock /\ life' = count /\ file' = [file EXCEPT ![clock] = << >>]
      /\ writer' = [s \in Sinks |-> Fresh] /\ refused' = FALSE /\ cadence' = sampled'
      /\ cadence' = [fast |-> Never, disk |-> Never]
      /\ UNCHANGED <<clock, order, took, count, accepted, closed, crashes, faults>>
  BY DEF Start, Opened
<1>3. Fresh \in [buf : Seq(Tokens), since : Nat, last : Nat] /\ Fresh.buf = << >> /\ Fresh.since = 0
  BY <1>1 DEF Fresh
<1>4. file' \in [Names -> Seq(Tokens)] /\ file'[MetricsFile] = file[MetricsFile]
      /\ \A x \in Names \ {clock} : file'[x] = file[x]
  <2>1. << >> \in Seq(Tokens)
    OBVIOUS
  <2> QED BY <1>1, <1>2, <2>1
<1>5. MetricTypes'
  <2>1. SinkTypes(Now)'
    <3>1. took' \in [Sinks -> SUBSET (1..MaxRecords)]
      BY <1>1, <1>2 DEF MetricTypes, SinkTypes, Now
    <3> QED BY <1>2, <1>3, <1>4, <3>1 DEF SinkTypes, Now
  <2>2. \A t \in 0..MaxClock : t > event' => file'[t] = << >>
    <3>1. \A t \in 0..MaxClock : t > clock => t > event /\ t \in Names \ {clock}
      BY <1>1 DEF Names
    <3> QED BY <1>1, <1>2, <1>4, <3>1 DEF MetricTypes
  <2>3. clock \in 0..clock /\ count \in 0..count
    BY <1>1
  <2>4. event' \in 0..clock' /\ life' \in 0..count' /\ up' \in BOOLEAN /\ refused' \in BOOLEAN
    BY <1>2, <2>3
  <2>5. /\ cadence' \in [fast : {Never} \union 0..clock', disk : {Never} \union 0..clock']
        /\ sampled' \in [fast : {Never} \union 0..clock', disk : {Never} \union 0..clock']
    BY <1>2
  <2> QED BY <1>1, <1>2, <2>1, <2>2, <2>4, <2>5 DEF MetricTypes
<1>6. Sound(Now, Paid)'
  <2>1. Held(Now, "trackio")' = file[MetricsFile] /\ Now'.writer["trackio"].since = 0
        /\ Now'.writer["trackio"].buf = << >> /\ Now'.took["trackio"] = took["trackio"]
    <3>1. /\ Now'.writer = [s \in Sinks |-> Fresh] /\ Now'.took = took /\ Now'.file = file' /\ "trackio" \in Sinks
      BY <1>2 DEF Now, Sinks
    <3>2. Now'.writer["trackio"] = Fresh
      BY <3>1
    <3>3. Held(Now, "trackio")' = file'[MetricsFile] \o << >>
      BY <1>3, <3>1, <3>2 DEF Held, FileOf
    <3>4. file[MetricsFile] \in Seq(Tokens)
      BY <1>1
    <3>5. file[MetricsFile] \o << >> = file[MetricsFile]
      BY <3>4
    <3> QED BY <1>3, <1>4, <3>1, <3>2, <3>3, <3>5
  <2>2. Overdue(0) = 0
    BY TelemetryAssumption DEF Overdue
  <2>3. Paid' = Paid /\ Cardinality(took["trackio"] \ ReadableIn(file[MetricsFile])) + HalfEnd(file[MetricsFile]) <= Paid
    BY <1>1, <1>2 DEF Paid, AtRest
  <2>4. Cardinality(took["trackio"] \ ReadableIn(file[MetricsFile])) + HalfEnd(file[MetricsFile]) \in Int
    <3>1. took["trackio"] \in SUBSET (1..MaxRecords) /\ file[MetricsFile] \in Seq(Tokens)
      BY <1>1 DEF MetricTypes, SinkTypes, Now, Sinks
    <3>2. Cardinality(took["trackio"] \ ReadableIn(file[MetricsFile])) \in Nat /\ HalfEnd(file[MetricsFile]) \in {0, 1}
      BY <3>1, SetsAreSmall, ReadableIsWhole
    <3> QED BY <3>2
  <2>5. Unread(Now)' = Cardinality(took["trackio"] \ ReadableIn(file[MetricsFile])) + HalfEnd(file[MetricsFile]) + 0
    BY <2>1, <2>2 DEF Unread
  <2>6. Unread(Now)' <= Paid'
    BY <2>3, <2>4, <2>5
  <2>7. Cardinality(WholeIn(Now'.writer["trackio"].buf)) <= Now'.writer["trackio"].since
    <3>1. WholeIn(<< >>) = {}
      BY DEF WholeIn
    <3>2. Cardinality(WholeIn(<< >>)) = 0
      BY <3>1, FS_EmptySet
    <3> QED BY <2>1, <3>2
  <2>8. \A s \in Sinks : \A n \in Now'.took[s] : ~(n > life')
    <3>1. \A s \in Sinks : took[s] \subseteq 1..count
      BY <1>1 DEF MetricTypes
    <3>2. \A n \in 1..count : ~(n > count)
      BY <1>1
    <3> QED BY <1>2, <3>1, <3>2 DEF Now
  <2> QED BY <2>6, <2>7, <2>8 DEF Sound
<1>7. MirroredByPrefix'
  BY <1>2 DEF MetricInv, MirroredByPrefix
<1>8. ASSUME NEW x \in Names, x # event \/ event' # event
      PROVE  ReadableIn(file[x]) \subseteq ReadableIn(file'[x])
  <2>1. CASE x # clock
    BY <1>4, <2>1
  <2>2. CASE x = clock
    <3>1. clock > event
      BY <1>1, <1>2, <1>8, <2>2
    <3>2. file[clock] = << >>
      BY <1>1, <3>1 DEF MetricTypes
    <3> QED BY <2>2, <3>2 DEF ReadableIn
  <2> QED BY <2>1, <2>2
<1> QED BY <1>2, <1>5, <1>6, <1>7, <1>8 DEF MetricInv

LEMMA EmitScalarKeeps == ASSUME MetricInv, EmitScalar PROVE MetricInv' /\ StillReadable /\ count' = count + 1
<1>1. PICK fault \in Batches(1) : Emitted(1, fault)
  BY DEF EmitScalar
<1>2. up /\ UNCHANGED <<clock, up, order, event, life, closed, crashes>> /\ UNCHANGED <<cadence, sampled, refused>>
  BY DEF EmitScalar, sampler
<1> DEFINE st == EmitBatch(1, fault)
<1>3. /\ SinkTypes(Now)' /\ (\A t \in 0..MaxClock : t > event => file'[t] = << >>)
      /\ count' \in 0..MaxRecords /\ life \in 0..count' /\ faults' \in Nat
      /\ (\A s \in Sinks : took'[s] \subseteq 1..count')
      /\ Sound(Now, Paid)' /\ MirroredByPrefix' /\ StillReadable
      /\ st.ok \in BOOLEAN /\ st.done \in Nat
      /\ (st.ok => st.done = 1 /\ count' = count + 1)
      /\ (~st.ok => st.done < 1 /\ count' = count + st.done + 1)
  BY <1>1, <1>2, EmittedKeeps
<1> HIDE DEF st
<1>4. count' = count + 1
  <2>1. count \in Nat
    BY DEF MetricInv, MetricTypes
  <2> QED BY <1>3, <2>1
<1>5. MetricTypes'
  BY <1>2, <1>3 DEF MetricInv, MetricTypes
<1> QED BY <1>2, <1>3, <1>4, <1>5 DEF MetricInv

LEMMA EmitDueKeeps ==
  ASSUME MetricInv, EmitDue
  PROVE  /\ MetricInv' /\ StillReadable
         /\ count' >= count + 2 => IsDue(cadence.fast, FastCadence)
<1> DEFINE fast == IsDue(cadence.fast, FastCadence)
           disk == IsDue(cadence.disk, DiskCadence)
           size == (IF fast THEN 2 ELSE 0) + (IF disk THEN 1 ELSE 0)
<1>1. PICK fault \in Batches(size) :
        LET st == EmitBatch(size, fault)
            wholeFast == fast /\ st.done >= 2
        IN  /\ Emitted(size, fault)
            /\ cadence' = IF st.ok THEN RecordEmit(fast, disk) ELSE cadence
            /\ sampled' = [fast |-> IF wholeFast THEN clock ELSE sampled.fast,
                           disk |-> IF disk /\ st.ok THEN clock ELSE sampled.disk]
            /\ refused' = (~st.ok \/ (refused /\ ~fast))
  BY DEF EmitDue
<1>2. up /\ size > 0 /\ UNCHANGED <<clock, up, order, event, life, closed, crashes>>
  BY DEF EmitDue
<1>3. size \in 1..3 /\ (fast <=> size >= 2)
  <2> HIDE DEF fast, disk
  <2> QED BY <1>2
<1> HIDE DEF size
<1> DEFINE st == EmitBatch(size, fault)
<1>4. /\ SinkTypes(Now)' /\ (\A t \in 0..MaxClock : t > event => file'[t] = << >>)
      /\ count' \in 0..MaxRecords /\ life \in 0..count' /\ faults' \in Nat
      /\ (\A s \in Sinks : took'[s] \subseteq 1..count')
      /\ Sound(Now, Paid)' /\ MirroredByPrefix' /\ StillReadable
      /\ st.ok \in BOOLEAN /\ st.done \in Nat
      /\ (st.ok => st.done = size /\ count' = count + size)
      /\ (~st.ok => st.done < size /\ count' = count + st.done + 1)
  BY <1>1, <1>2, <1>3, EmittedKeeps
<1>5. /\ cadence' = IF st.ok THEN RecordEmit(fast, disk) ELSE cadence
      /\ sampled' = [fast |-> IF fast /\ st.done >= 2 THEN clock ELSE sampled.fast,
                     disk |-> IF disk /\ st.ok THEN clock ELSE sampled.disk]
      /\ refused' = (~st.ok \/ (refused /\ ~fast))
  BY <1>1
<1> HIDE DEF st, fast, disk
<1>6. /\ count \in Nat /\ clock \in 0..clock
      /\ cadence \in [fast : {Never} \union 0..clock, disk : {Never} \union 0..clock]
      /\ sampled \in [fast : {Never} \union 0..clock, disk : {Never} \union 0..clock]
  <2>1. clock \in Nat /\ count \in Nat
    BY TelemetryAssumption DEF MetricInv, MetricTypes
  <2> QED BY <2>1 DEF MetricInv, MetricTypes
<1>7. count' >= count + 2 => fast
  BY <1>3, <1>4, <1>6
<1>8. /\ cadence' \in [fast : {Never} \union 0..clock, disk : {Never} \union 0..clock]
      /\ sampled' \in [fast : {Never} \union 0..clock, disk : {Never} \union 0..clock]
  BY <1>5, <1>6 DEF RecordEmit
<1>9. ~refused' => cadence'.fast = sampled'.fast
  <2> SUFFICES ASSUME ~refused' PROVE cadence'.fast = sampled'.fast
    OBVIOUS
  <2>1. st.ok /\ (~refused \/ fast) /\ st.done = size
    BY <1>4, <1>5
  <2>2. cadence'.fast = IF fast THEN clock ELSE cadence.fast
    BY <1>5, <2>1 DEF RecordEmit
  <2>3. sampled'.fast = IF fast THEN clock ELSE sampled.fast
    BY <1>3, <1>5, <2>1
  <2> QED BY <2>1, <2>2, <2>3 DEF MetricInv
<1>10. refused' \in BOOLEAN
  BY <1>5
<1>11. MetricTypes'
  BY <1>2, <1>4, <1>8, <1>10 DEF MetricInv, MetricTypes
<1> QED BY <1>2, <1>4, <1>7, <1>9, <1>11 DEF MetricInv, fast

LEMMA NextMetric == ASSUME MetricInv, [Next]_vars PROVE MetricInv'
<1>1. CASE UNCHANGED vars
  <2>1. /\ UNCHANGED <<up, order, io, event, count, accepted, life, closed, crashes, faults>>
        /\ UNCHANGED <<clock, writer, file, took, cadence, sampled, refused>>
    BY <1>1 DEF vars, io, sampler
  <2>2. (up => Sound(Now, Paid)') /\ (~up => AtRest') /\ MirroredByPrefix'
    BY <2>1, SinksUntouched
  <2>3. MetricTypes'
    BY <2>1 DEF MetricInv, MetricTypes, SinkTypes, Now
  <2> QED BY <2>1, <2>2, <2>3 DEF MetricInv
<1>2. CASE Tick
  BY <1>2, TickKeeps
<1>3. CASE Start
  BY <1>3, StartKeeps
<1>4. CASE Crash
  BY <1>4, CrashKeeps
<1>5. ASSUME NEW failing \in SUBSET Sinks, Shutdown(failing) PROVE MetricInv'
  BY <1>5, ShutdownKeepsInv
<1>6. CASE EmitScalar
  BY <1>6, EmitScalarKeeps
<1>7. CASE EmitDue
  BY <1>7, EmitDueKeeps
<1> QED BY <1>1, <1>2, <1>3, <1>4, <1>5, <1>6, <1>7 DEF Next

\* The invariant of the sinks, for any flush policy, cadences, crashes and faults.
THEOREM MetricInvariant == Spec => []MetricInv
BY InitMetric, NextMetric, PTL DEF Spec

LEMMA KeptIsReadable ==
  ASSUME MetricInv
  PROVE  /\ Kept("trackio") = ReadableIn(file[MetricsFile])
         /\ Kept("tensorboard") = UNION {ReadableIn(file[t]) : t \in 0..MaxClock}
         /\ \A s \in Sinks : WholeIn(file[FileOf(s)]) \subseteq Kept(s) \union AfterHalf(FileOf(s))
<1>1. /\ Kept("trackio") = ReadableIn(file[MetricsFile])
      /\ Kept("tensorboard") = UNION {ReadableIn(file[t]) : t \in 0..MaxClock}
  BY DEF Kept, Readable, ReadableIn
<1>2. event \in 0..MaxClock
  BY FilesDiffer DEF MetricInv
<1>3. ASSUME NEW s \in Sinks PROVE WholeIn(file[FileOf(s)]) \subseteq Kept(s) \union AfterHalf(FileOf(s))
  <2> DEFINE q == file[FileOf(s)]
  <2>1. ReadableIn(q) \subseteq Kept(s)
    BY <1>1, <1>2 DEF FileOf, Sinks
  <2>2. q \in Seq(Tokens)
    <3>1. FileOf(s) \in Names
      BY FilesDiffer DEF MetricInv
    <3> QED BY <3>1 DEF MetricInv, MetricTypes, SinkTypes, Now
  <2>3. ASSUME NEW i \in DOMAIN q, q[i].whole PROVE q[i].rec \in ReadableIn(q) \union AfterHalf(FileOf(s))
    <3>1. CASE i > 1 => q[i - 1].whole
      BY <2>3, <3>1 DEF ReadableIn
    <3>2. CASE i > 1 /\ ~q[i - 1].whole
      <4>1. i \in DOMAIN q \ {1}
        BY <3>2
      <4> QED BY <3>2, <4>1 DEF AfterHalf
    <3> QED BY <3>1, <3>2
  <2> QED BY <2>1, <2>3 DEF WholeIn
<1> QED BY <1>1, <1>3

\* However often the process dies, is started again or is refused by its device,
\* metrics.jsonl has lost at most flush_records records per crash and one per
\* refusal; the fan-out mirrors by prefix; and a clean shutdown keeps every record
\* its process was told of (tracker.rs, tensorboard.rs, facade.rs).
THEOREM RecordsAreNeverLostUnpaid == Spec => []RecordsAreKept
<1>1. MetricInv => RecordsAreKept
  <2> SUFFICES ASSUME MetricInv PROVE RecordsAreKept
    OBVIOUS
  <2>1. /\ MetricTypes /\ took["trackio"] \in SUBSET (1..MaxRecords) /\ file[MetricsFile] \in Seq(Tokens)
        /\ writer["trackio"].buf \in Seq(Tokens) /\ Paid \in Int
    <3>1. MetricTypes /\ crashes \in Nat /\ faults \in Nat
      BY DEF MetricInv, MetricTypes
    <3>2. /\ took["trackio"] \in SUBSET (1..MaxRecords) /\ file[MetricsFile] \in Seq(Tokens)
          /\ writer["trackio"].buf \in Seq(Tokens)
      BY <3>1 DEF MetricTypes, SinkTypes, Now, Sinks, Names
    <3>3. Paid \in Int
      BY <3>1, TelemetryAssumption DEF Paid
    <3> QED BY <3>1, <3>2, <3>3
  <2>2. LossIsBounded
    <3> DEFINE f == file[MetricsFile]
               b == writer["trackio"].buf
               T == took["trackio"]
               unread == T \ ReadableIn(IF up THEN f \o b ELSE f)
               lost == T \ (Kept("trackio") \union (IF up THEN Buffered("trackio") ELSE {}))
    <3>1. Cardinality(unread) <= Paid
      <4>1. CASE up
        <5>1. Cardinality(T \ ReadableIn(f \o b)) + HalfEnd(f \o b) <= Paid
          BY <2>1, <4>1, BufferLost DEF MetricInv
        <5>2. HalfEnd(f \o b) \in {0, 1} /\ Cardinality(T \ ReadableIn(f \o b)) \in Nat
          BY <2>1, WholeOfConcat, ReadableIsWhole, SetsAreSmall
        <5>3. Cardinality(T \ ReadableIn(f \o b)) <= Paid
          BY <2>1, <5>1, <5>2
        <5> QED BY <4>1, <5>3
      <4>2. CASE ~up
        <5>1. Cardinality(T \ ReadableIn(f)) + HalfEnd(f) <= Paid
          BY <4>2 DEF MetricInv, AtRest
        <5>2. HalfEnd(f) \in {0, 1} /\ Cardinality(T \ ReadableIn(f)) \in Nat
          BY <2>1, ReadableIsWhole, SetsAreSmall
        <5>3. Cardinality(T \ ReadableIn(f)) <= Paid
          BY <2>1, <5>1, <5>2
        <5> QED BY <4>2, <5>3
      <4> QED BY <4>1, <4>2
    <3>2. lost \subseteq unread
      <4>1. Kept("trackio") = ReadableIn(f)
        BY KeptIsReadable
      <4>2. Buffered("trackio") = WholeIn(b)
        BY DEF Buffered, WholeIn
      <4>3. ReadableIn(f \o b) \subseteq ReadableIn(f) \union WholeIn(b)
        BY <2>1, ReadableOfConcat
      <4> QED BY <4>1, <4>2, <4>3
    <3>3. Cardinality(lost) <= Cardinality(unread) /\ Cardinality(lost) \in Nat /\ Cardinality(unread) \in Nat
      BY <2>1, <3>2, SetsAreSmall
    <3>4. Cardinality(lost) <= Paid
      <4> HIDE DEF lost, unread
      <4> QED BY <2>1, <3>1, <3>3
    <3> QED BY <3>4 DEF LossIsBounded, Paid
  <2>3. ShutdownKeeps
    <3> SUFFICES ASSUME ~up, closed = "ok", NEW s \in Sinks, NEW n \in accepted, n > life
                 PROVE  n \in Kept(s) \union AfterHalf(FileOf(s))
      BY DEF ShutdownKeeps
    <3>1. n \in took[s]
      <4>1. accepted \subseteq took[order[2]] /\ took[order[2]] \subseteq took[order[1]]
        BY DEF MetricInv, MirroredByPrefix
      <4>2. s = order[1] \/ s = order[2]
        BY <2>1 DEF MetricTypes, Sinks
      <4> QED BY <4>1, <4>2
    <3>2. n \in WholeIn(file[FileOf(s)])
      BY <3>1 DEF MetricInv, AtRest
    <3> QED BY <3>2, KeptIsReadable
  <2> QED BY <2>2, <2>3 DEF RecordsAreKept, MetricInv
<1> QED BY MetricInvariant, <1>1, PTL

\* What reached a file stays readable through every later crash and restart, but
\* for an event file of the second the next process starts in.
THEOREM FlushedRecordsStay == Spec => FlushedStays
<1> DEFINE Stays == \A s \in Sinks :
                      Kept(s) \subseteq Kept(s)' \/ (s = "tensorboard" /\ ~up /\ up' /\ event' = event)
<1>1. ASSUME MetricInv, MetricInv', [Next]_vars PROVE Stays
  <2>1. /\ Kept("trackio") = ReadableIn(file[MetricsFile])
        /\ Kept("tensorboard") = UNION {ReadableIn(file[t]) : t \in 0..MaxClock}
    BY <1>1, KeptIsReadable
  <2>2. /\ Kept("trackio")' = ReadableIn(file'[MetricsFile])
        /\ Kept("tensorboard")' = UNION {ReadableIn(file'[t]) : t \in 0..MaxClock}
    BY DEF Kept, Readable, ReadableIn
  <2>3. MetricsFile \in Names /\ \A t \in 0..MaxClock : t \in Names
    BY DEF Names
  <2>4. ASSUME StillReadable PROVE Stays
    <3>1. \A x \in Names : ReadableIn(file[x]) \subseteq ReadableIn(file'[x])
      BY <2>4 DEF StillReadable
    <3>2. Kept("trackio") \subseteq Kept("trackio")'
      BY <2>1, <2>2, <2>3, <3>1
    <3>3. Kept("tensorboard") \subseteq Kept("tensorboard")'
      <4>1. \A t \in 0..MaxClock : ReadableIn(file[t]) \subseteq ReadableIn(file'[t])
        BY <2>3, <3>1
      <4> QED BY <2>1, <2>2, <4>1
    <3>4. \A s \in Sinks : s = "trackio" \/ s = "tensorboard"
      BY DEF Sinks
    <3>5. ASSUME NEW s \in Sinks PROVE Kept(s) \subseteq Kept(s)'
      BY <3>2, <3>3, <3>4
    <3> QED BY <3>5
  <2>5. CASE UNCHANGED vars
    BY <2>4, <2>5 DEF vars, io, StillReadable
  <2>6. CASE Start
    <3>1. \A x \in Names : x # event \/ event' # event => ReadableIn(file[x]) \subseteq ReadableIn(file'[x])
      BY <1>1, <2>6, StartKeeps
    <3>2. ~up /\ up'
      BY <2>6 DEF Start
    <3>3. MetricsFile # event
      BY <1>1, FilesDiffer DEF MetricInv
    <3>4. Kept("trackio") \subseteq Kept("trackio")'
      BY <2>1, <2>2, <2>3, <3>1, <3>3
    <3>5. event' # event => Kept("tensorboard") \subseteq Kept("tensorboard")'
      BY <2>1, <2>2, <2>3, <3>1
    <3> QED BY <3>2, <3>4, <3>5 DEF Sinks
  <2>7. ASSUME NEW failing \in SUBSET Sinks, Shutdown(failing) PROVE Stays
    BY <1>1, <2>4, <2>7, ShutdownKeepsInv
  <2> HIDE DEF Stays
  <2> QED BY <1>1, <2>4, <2>5, <2>6, <2>7, TickKeeps, CrashKeeps, EmitScalarKeeps, EmitDueKeeps DEF Next
<1>2. MetricInv /\ MetricInv' /\ [Next]_vars => [Stays]_vars
  BY <1>1
<1> QED BY MetricInvariant, <1>2, PTL DEF Spec, FlushedStays

\* The fast system metrics keep their cadence, unless a call of emit_due failed
\* since they were last emitted entirely.
THEOREM FastMetricsAreSpaced == Spec => SamplesAreSpaced
<1> DEFINE Spaced == (count' >= count + 2 /\ sampled.fast # Never) =>
                       refused \/ clock - sampled.fast >= FastCadence
<1>1. ASSUME MetricInv, [Next]_vars PROVE Spaced
  <2>1. count \in Nat /\ (~refused => cadence.fast = sampled.fast)
    BY <1>1 DEF MetricInv, MetricTypes
  <2>2. ASSUME count' = count \/ count' = count + 1 PROVE Spaced
    BY <2>1, <2>2
  <2>3. CASE EmitDue
    BY <1>1, <2>1, <2>3, EmitDueKeeps DEF IsDue
  <2>4. CASE EmitScalar
    BY <1>1, <2>2, <2>4, EmitScalarKeeps
  <2>5. CASE UNCHANGED vars
    BY <2>2, <2>5 DEF vars
  <2>6. CASE Tick \/ Start \/ Crash \/ \E failing \in SUBSET Sinks : Shutdown(failing)
    BY <2>2, <2>6 DEF Tick, Start, Crash, Shutdown
  <2> HIDE DEF Spaced
  <2> QED BY <1>1, <2>3, <2>4, <2>5, <2>6 DEF Next
<1>2. MetricInv /\ [Next]_vars => [Spaced]_vars
  BY <1>1
<1> QED BY MetricInvariant, <1>2, PTL DEF Spec, SamplesAreSpaced

-----------------------------------------------------------------------------
(* The collapse alarm. *)

Answers == {"error", "collapsed", "healthy"}

\* The collapsed batches of the run that ends at i.
Streak(p, i) == {j \in 1..i : p[j] = "collapsed" /\ \A k \in j..i : p[k] # "healthy"}

\* The batches that complete the count.
Alarms(p, n) == {i \in 1..n : p[i] = "collapsed" /\ Cardinality(Streak(p, i)) = TripsRequired}

\* trips is the length of the run the history ends in.
DetectorInv ==
  /\ probes \in Seq(Answers)
  /\ trips = Cardinality(Streak(probes, Len(probes)))
  /\ artifacts \union unwritten = Alarms(probes, Len(probes))

-----------------------------------------------------------------------------

LEMMA RowIsFinite ==
  ASSUME NEW p, NEW i \in Nat
  PROVE  IsFiniteSet(Streak(p, i)) /\ Cardinality(Streak(p, i)) \in Nat
<1>1. IsFiniteSet(1..i) /\ Streak(p, i) \in SUBSET (1..i)
  BY FS_Interval DEF Streak
<1> QED BY <1>1, FS_Subset, FS_CardinalityType

\* A row depends on the answers up to its end only.
LEMMA RowOfPrefix ==
  ASSUME NEW p, NEW q, NEW n \in Nat, \A k \in 1..n : p[k] = q[k]
  PROVE  /\ \A i \in 1..n : Streak(p, i) = Streak(q, i)
         /\ Streak(p, n) = Streak(q, n) /\ Alarms(p, n) = Alarms(q, n)
<1>1. ASSUME NEW i \in 0..n PROVE Streak(p, i) = Streak(q, i)
  <2>1. \A j \in 1..i : p[j] = q[j] /\ \A k \in j..i : p[k] = q[k]
    OBVIOUS
  <2> QED BY <2>1 DEF Streak
<1>2. \A i \in 1..n : Streak(p, i) = Streak(q, i) /\ p[i] = q[i]
  BY <1>1
<1>3. Streak(p, n) = Streak(q, n)
  BY <1>1
<1> QED BY <1>2, <1>3 DEF Alarms

\* One more answer lengthens the row, leaves it or ends it.
LEMMA RowByOne ==
  ASSUME NEW q, NEW n \in Nat
  PROVE  /\ q[n + 1] = "collapsed" => Streak(q, n + 1) = Streak(q, n) \union {n + 1}
         /\ q[n + 1] = "error" => Streak(q, n + 1) = Streak(q, n)
         /\ q[n + 1] = "healthy" => Streak(q, n + 1) = {}
<1>1. CASE q[n + 1] = "collapsed"
  BY <1>1 DEF Streak
<1>2. CASE q[n + 1] = "error"
  BY <1>2 DEF Streak
<1>3. CASE q[n + 1] = "healthy"
  BY <1>3 DEF Streak
<1> QED BY <1>1, <1>2, <1>3

LEMMA AlarmsByOne ==
  ASSUME NEW q, NEW n \in Nat
  PROVE  Alarms(q, n + 1) =
           Alarms(q, n) \union
             (IF q[n + 1] = "collapsed" /\ Cardinality(Streak(q, n + 1)) = TripsRequired THEN {n + 1} ELSE {})
<1>1. 1..(n + 1) = (1..n) \union {n + 1}
  OBVIOUS
<1> QED BY <1>1 DEF Alarms

LEMMA ProbeAnswers == \A cls : Probe(cls) \in Answers
BY DEF Probe, Answers

-----------------------------------------------------------------------------

LEMMA InitDetector == DetectorInit => DetectorInv
<1> SUFFICES ASSUME DetectorInit PROVE DetectorInv
  OBVIOUS
<1>1. Len(probes) = 0 /\ probes \in Seq(Answers)
  BY DEF DetectorInit
<1>2. Streak(probes, 0) = {} /\ Alarms(probes, 0) = {}
  BY DEF Streak, Alarms
<1> QED BY <1>1, <1>2, FS_EmptySet DEF DetectorInit, DetectorInv

LEMMA NextDetector == ASSUME DetectorInv, [DetectorNext]_detectorVars PROVE DetectorInv'
<1>1. CASE UNCHANGED detectorVars
  BY <1>1 DEF detectorVars, DetectorInv
<1>2. ASSUME NEW cls \in Batch, NEW canWrite \in BOOLEAN, Observe(cls, canWrite) PROVE DetectorInv'
  <2> DEFINE n == Len(probes)
             a == Probe(cls)
  <2>1. a \in Answers /\ probes \in Seq(Answers) /\ n \in Nat
    BY ProbeAnswers DEF DetectorInv
  <2>2. /\ probes' = Append(probes, a) /\ trips' = CountAfter(a)
        /\ artifacts' \union unwritten' =
             (artifacts \union unwritten)
               \union (IF a # "error" /\ trips' = TripsRequired THEN {n + 1} ELSE {})
    BY <1>2 DEF Observe, Alarm
  <2>3. /\ probes' \in Seq(Answers) /\ Len(probes') = n + 1
        /\ probes'[n + 1] = a /\ \A k \in 1..n : probes'[k] = probes[k]
    BY <2>1, <2>2
  <2>4. Streak(probes', n) = Streak(probes, n) /\ Alarms(probes', n) = Alarms(probes, n)
    BY <2>1, <2>3, RowOfPrefix
  <2>5. /\ trips = Cardinality(Streak(probes, n)) /\ trips \in Nat
        /\ IsFiniteSet(Streak(probes, n)) /\ n + 1 \notin Streak(probes, n)
    <3>1. trips = Cardinality(Streak(probes, n))
      BY DEF DetectorInv
    <3>2. IsFiniteSet(Streak(probes, n)) /\ Cardinality(Streak(probes, n)) \in Nat
      BY <2>1, RowIsFinite
    <3>3. n + 1 \notin 1..n
      BY <2>1
    <3>4. n + 1 \notin Streak(probes, n)
      BY <3>3 DEF Streak
    <3> QED BY <3>1, <3>2, <3>4
  <2>6. trips' = Cardinality(Streak(probes', n + 1))
    <3>1. CASE a = "collapsed"
      <4>1. Streak(probes', n + 1) = Streak(probes, n) \union {n + 1}
        BY <2>1, <2>3, <2>4, <3>1, RowByOne
      <4>2. Cardinality(Streak(probes, n) \union {n + 1}) = trips + 1
        BY <2>5, FS_AddElement
      <4> QED BY <2>2, <3>1, <4>1, <4>2 DEF CountAfter
    <3>2. CASE a = "error"
      BY <2>1, <2>2, <2>3, <2>4, <2>5, <3>2, RowByOne DEF CountAfter
    <3>3. CASE a = "healthy"
      <4>1. Streak(probes', n + 1) = {}
        BY <2>1, <2>3, <3>3, RowByOne
      <4>2. trips' = 0
        BY <2>2, <3>3 DEF CountAfter
      <4>3. Cardinality({}) = 0
        BY FS_EmptySet
      <4> QED BY <4>1, <4>2, <4>3
    <3> QED BY <2>1, <3>1, <3>2, <3>3 DEF Answers
  <2>7. (a # "error" /\ trips' = TripsRequired) <=> (a = "collapsed" /\ trips' = TripsRequired)
    BY <2>1, <2>2, DetectorAssumption DEF Answers, CountAfter
  <2>8. artifacts' \union unwritten' = Alarms(probes', n + 1)
    <3>1. Alarms(probes', n + 1) =
            Alarms(probes', n) \union (IF a = "collapsed" /\ trips' = TripsRequired THEN {n + 1} ELSE {})
      BY <2>1, <2>3, <2>6, AlarmsByOne
    <3> QED BY <2>2, <2>4, <2>7, <3>1 DEF DetectorInv
  <2> HIDE DEF n
  <2> QED BY <2>3, <2>6, <2>8 DEF DetectorInv
<1> QED BY <1>1, <1>2 DEF DetectorNext

\* The invariant holds whatever batches are observed and whichever writes fail.
THEOREM DetectorInvariant == DetectorSpec => []DetectorInv
BY InitDetector, NextDetector, PTL DEF DetectorSpec

\* Every run of collapsed batches that reaches trips_required raises one alarm, at
\* the batch that completes the count, and no other batch raises one: errors in
\* between neither lengthen nor end a run.
THEOREM OneAlarmPerCollapse == DetectorSpec => []AlarmOncePerCollapse
<1>1. DetectorInv => AlarmOncePerCollapse
  <2> SUFFICES ASSUME DetectorInv PROVE AlarmOncePerCollapse
    OBVIOUS
  <2> DEFINE raised == {i \in DOMAIN probes : probes[i] = "collapsed" /\ Cardinality(Streak(probes, i)) = TripsRequired}
  <2>1. DOMAIN probes = 1..Len(probes)
    BY DEF DetectorInv
  <2>2. artifacts \union unwritten = raised
    BY <2>1 DEF DetectorInv, Alarms
  <2>3. AlarmOncePerCollapse <=> artifacts \union unwritten = raised
    BY Zenon DEF AlarmOncePerCollapse, Streak
  <2> QED BY <2>2, <2>3
<1> QED BY DetectorInvariant, <1>1, PTL

-----------------------------------------------------------------------------
\* A set of numbers that is not empty has a least one.
LEMMA LeastNumber ==
  ASSUME NEW S, S \subseteq Nat, S # {}
  PROVE  \E m \in S : \A x \in S : m <= x
<1>1. PICK m \in S : \A x \in S : ~(<<x, m>> \in OpToRel(<, Nat))
  BY NatLessThanWellFounded, WFMin, Zenon
<1>2. \A x \in S : ~(x < m)
  BY <1>1 DEF OpToRel
<1> QED BY <1>2

\* The sum of a constant sequence.
LEMMA SumOfConstant ==
  ASSUME NEW n \in Nat, NEW c \in Int
  PROVE  Sum([r \in 1..n |-> c]) = n * c
<1> DEFINE s == [r \in 1..n |-> c]
           Rec(f) == f = [i \in 0..n |-> IF i = 0 THEN 0 ELSE f[i - 1] + s[i]]
           w == [i \in 0..n |-> i * c]
           sum == CHOOSE f : Rec(f)
<1>1. Len(s) = n
  OBVIOUS
<1>2. Rec(w)
  <2>1. ASSUME NEW i \in 0..n PROVE w[i] = IF i = 0 THEN 0 ELSE w[i - 1] + s[i]
    <3>1. CASE i = 0
      BY <3>1
    <3>2. CASE i # 0
      <4>1. i - 1 \in 0..n /\ i \in 1..n
        BY <3>2
      <4>2. w[i] = i * c /\ w[i - 1] = (i - 1) * c /\ s[i] = c
        BY <4>1
      <4> QED BY <3>2, <4>1, <4>2
    <3> QED BY <3>1, <3>2
  <2> QED BY <2>1
<1>3. Rec(sum)
  <2> HIDE DEF Rec
  <2> QED BY <1>2
<1>4. Sum(s) = sum[n]
  BY <1>1 DEF Sum
<1> HIDE DEF sum
<1>5. \A i \in 0..n : sum[i] = i * c
  <2> DEFINE Bad == {i \in 0..n : sum[i] # i * c}
  <2> SUFFICES ASSUME Bad # {} PROVE FALSE
    OBVIOUS
  <2>1. Bad \subseteq Nat /\ Bad \subseteq 0..n
    OBVIOUS
  <2>2. PICK i \in Bad : \A x \in Bad : i <= x
    <3> HIDE DEF Bad
    <3> QED BY <2>1, LeastNumber
  <2>3. sum[i] = IF i = 0 THEN 0 ELSE sum[i - 1] + s[i]
    BY <1>3
  <2>4. CASE i = 0
    BY <2>3, <2>4
  <2>5. CASE i # 0
    <3>1. i - 1 \in 0..n /\ i \in 1..n /\ i - 1 \notin Bad
      BY <2>2, <2>5
    <3>2. sum[i - 1] = (i - 1) * c /\ s[i] = c
      BY <3>1
    <3>3. sum[i] = (i - 1) * c + c
      BY <2>3, <2>5, <3>2
    <3> QED BY <2>2, <3>3
  <2> QED BY <2>4, <2>5
<1> QED BY <1>4, <1>5

\* A batch of one embedding has no variance.
LEMMA ConstantBatchTrips ==
  ASSUME Percent.variance > 0, NEW v \in Embeddings
  PROVE  Probe([r \in 1..BatchFrames |-> v]) = "collapsed"
<1> DEFINE cls == [r \in 1..BatchFrames |-> v]
           n == BatchFrames
           spread(i) == LET s == Sum([r \in 1..n |-> cls[r][i]])
                        IN  n * Sum([r \in 1..n |-> cls[r][i] * cls[r][i]]) - s * s
<1>1. /\ n \in Nat \ {0, 1} /\ Dim \in Nat \ {0} /\ Percent.variance \in Nat \ {0}
      /\ v # NotFinite /\ v \in [1..Dim -> Int]
  BY DetectorAssumption
<1>2. Len(cls) = n /\ \A r \in 1..n : cls[r] = v
  BY <1>1
<1>3. ASSUME NEW i \in 1..Dim PROVE spread(i) = 0
  <2>1. v[i] \in Int /\ v[i] * v[i] \in Int
    BY <1>1
  <2>2. /\ [r \in 1..n |-> cls[r][i]] = [r \in 1..n |-> v[i]]
        /\ [r \in 1..n |-> cls[r][i] * cls[r][i]] = [r \in 1..n |-> v[i] * v[i]]
    BY <1>2
  <2>3. /\ Sum([r \in 1..n |-> v[i]]) = n * v[i]
        /\ Sum([r \in 1..n |-> v[i] * v[i]]) = n * (v[i] * v[i])
    BY <1>1, <2>1, SumOfConstant
  <2>4. n * (n * (v[i] * v[i])) - (n * v[i]) * (n * v[i]) = 0
    BY <1>1, <2>1
  <2> QED BY <2>2, <2>3, <2>4
<1>4. Sum([i \in 1..Dim |-> spread(i)]) = 0
  <2>1. PICK z \in Int : z = 0
    OBVIOUS
  <2>2. [i \in 1..Dim |-> spread(i)] = [i \in 1..Dim |-> z]
    <3>1. \A i \in 1..Dim : spread(i) = z
      BY <1>3, <2>1
    <3> HIDE DEF spread
    <3> QED BY <3>1
  <2>3. Sum([i \in 1..Dim |-> z]) = Dim * z
    BY <1>1, SumOfConstant
  <2> HIDE DEF spread
  <2> QED BY <1>1, <2>1, <2>2, <2>3
<1>5. 0 < Percent.variance * n * (n - 1) * Dim
  <2>1. \A x, y \in Nat \ {0} : x * y \in Nat \ {0}
    OBVIOUS
  <2>2. n - 1 \in Nat \ {0}
    BY <1>1
  <2>3. Percent.variance * n * (n - 1) * Dim \in Nat \ {0}
    BY <1>1, <2>1, <2>2
  <2> QED BY <2>3
<1>6. VarianceTrips(cls)
  <2>1. VarianceTrips(cls) <=> 100 * Sum([i \in 1..Dim |-> spread(i)]) < Percent.variance * n * (n - 1) * Dim
    BY <1>2 DEF VarianceTrips
  <2> HIDE DEF spread
  <2> QED BY <1>4, <1>5, <2>1
<1>7. \A r \in DOMAIN cls : cls[r] # NotFinite
  BY <1>1, <1>2
<1>8. Probe(cls) = "collapsed"
  <2> HIDE DEF cls
  <2> QED BY <1>2, <1>6, <1>7 DEF Probe
<1> QED BY <1>8

\* With a variance floor above zero, which the default is, a batch of one constant
\* embedding counts as collapsed, and every collapse raises one alarm.
THEOREM CollapsesAreReported ==
  ASSUME Percent.variance > 0
  PROVE  DetectorSpec => []CollapseIsReported
<1>1. ConstantEncoderIsCaught
  <2>1. \A answer \in AnswersToConstants : answer = "collapsed"
    BY ConstantBatchTrips DEF AnswersToConstants
  <2> QED BY <2>1 DEF ConstantEncoderIsCaught, CountAfter
<1>2. AlarmOncePerCollapse => CollapseIsReported
  BY <1>1 DEF CollapseIsReported
<1> QED BY <1>2, OneAlarmPerCollapse, PTL

-----------------------------------------------------------------------------
(* The cost ledger. *)

Ids == Jobs \union {Garbled}
Line == [kind : {"row", "torn", "cut"}, job : Ids, cost : Nat, cum : Nat]
RowLine == {l \in Line : l.kind = "row"}
Entry == [job : Ids, cost : Nat]
AtLines == {"running", "idle", "prepared", "writing", "done", "silent"}

JobsAt(rows) == {rows[i].job : i \in DOMAIN rows}

LedgerTypes ==
  /\ ledger \in Seq(Line)
  /\ at \in [Writers -> AtLines]
  /\ draft \in [Writers -> Seq(RowLine)]
  /\ stale \in [Writers -> BOOLEAN]
  /\ disturbed \in BOOLEAN /\ mixed \in BOOLEAN /\ overlaid \in BOOLEAN
  /\ ended \subseteq Jobs /\ billed \subseteq Jobs /\ repaired \subseteq Jobs
  /\ ledgerCrashes \in Nat

\* A writer that nobody wrote past finds the file as empty as it made it: two
\* writes meet in one file only where a writer is stale.
FreshFileIsEmpty == \A w \in Writers : at[w] = "writing" /\ ~stale[w] => ledger = << >>

\* Only the last line is what a dead writer left.
WholeButTheLast(lines) == \A i \in DOMAIN lines : i < Len(lines) => lines[i].kind = "row"

\* A writer who dies or finishes leaves what adds up, since what it writes does.
DraftsAddUp == \A w \in Writers : VerifyRows(draft[w])

\* A job that is about to write has its row in the draft.
OwnRowInDraft ==
  \A j \in Jobs : at[j] \in {"prepared", "writing"} => j \in JobsAt(draft[j])

\* The rows that must be there are in the file, or in the only draft that can
\* replace it; or else what comes next is a collision.
Owed == billed \union repaired
RowsAreHeld ==
  \/ disturbed
  \/ \E w \in Writers : at[w] = "writing" /\ stale[w]
  \/ \E v, w \in Writers : v # w /\ at[v] = "writing" /\ at[w] = "writing"
  \/ /\ \A w \in Writers : at[w] = "writing" => Owed \subseteq JobsAt(draft[w])
     /\ ~Writing =>
          /\ Owed \subseteq JobsIn(ledger)
          /\ \A w \in Writers :
               at[w] = "prepared" /\ ~stale[w] => Owed \subseteq JobsAt(draft[w])

\* How often a list bills a job.
IsRowOf(q, i, j) == i \in DOMAIN q /\ q[i].kind = "row" /\ q[i].job = j
Once(q, j) == \A a, b \in DOMAIN q : IsRowOf(q, a, j) /\ IsRowOf(q, b, j) => a = b
Twice(q, j) ==
  \A a, b, c \in DOMAIN q :
    IsRowOf(q, a, j) /\ IsRowOf(q, b, j) /\ IsRowOf(q, c, j) => a = b \/ a = c \/ b = c
Lists == {ledger} \union {draft[w] : w \in Writers}

\* Before a job appends its own row, only a backfill can have added one.
Bills(j) ==
  IF at[j] \in {"running", "idle"}
  THEN /\ j \notin billed
       /\ \A q \in Lists : Once(q, j)
       /\ j \notin repaired =>
            /\ j \notin JobsIn(ledger)
            /\ \A w \in Jobs : j \notin JobsAt(draft[w])
  ELSE \A q \in Lists : IF j \in repaired THEN Twice(q, j) ELSE Once(q, j)

LedgerInv ==
  /\ LedgerTypes
  /\ FreshFileIsEmpty /\ (mixed => overlaid) /\ (overlaid => disturbed)
  /\ ~mixed => WholeButTheLast(ledger)
  /\ LedgerAddsUp /\ DraftsAddUp
  /\ OwnRowInDraft
  /\ RowsAreHeld
  /\ ~overlaid => \A j \in Jobs : Bills(j)
-----------------------------------------------------------------------------

\* Cents survive being written as text and read again.
LEMMA ParseOfRender ==
  ASSUME NEW c \in Nat
  PROVE  ParseAmount(Render(c)) = c
<1> DEFINE t == Render(c)
<1>1. Len(t.cents) = 2 /\ t.dollars = c \div 100 /\ t.cents[1] = (c % 100) \div 10 /\ t.cents[2] = c % 10
  BY DEF Render
<1>2. (c \div 100) * 100 + ((c % 100) \div 10) * 10 + (c % 10) = c
  OBVIOUS
<1> HIDE DEF t
<1>3. ParseAmount(t) = t.dollars * 100 + t.cents[1] * 10 + t.cents[2]
  BY <1>1 DEF ParseAmount
<1> QED BY <1>1, <1>2, <1>3 DEF t

LEMMA CostIsNatural ==
  ASSUME NEW j \in Jobs
  PROVE  Cost(j) \in Nat
<1>1. Wall[j] \in Nat /\ Price \in Nat
  BY LedgerAssumption DEF Jobs
<1>2. \A a \in Nat : CeilDiv(a, 60) \in Nat
  BY DEF CeilDiv
<1>3. CeilDiv(Wall[j], 60) \in Nat
  BY <1>1, <1>2
<1>4. \A a, b \in Nat : a * b \in Nat
  OBVIOUS
<1>5. Price * CeilDiv(Wall[j], 60) \in Nat
  BY <1>1, <1>3, <1>4
<1> QED BY <1>2, <1>5 DEF Cost, CostForWallTime

\* A running sum of amounts: the function that Total reads its answer from.
Sums(a, f) ==
  /\ f \in [0..Len(a) -> Nat] /\ f[0] = 0
  /\ \A i \in 1..Len(a) : f[i] = f[i - 1] + a[i]

LEMMA SumsExist ==
  ASSUME NEW a \in Seq(Nat)
  PROVE  \E f : Sums(a, f)
<1> DEFINE Upto(n, f) == /\ f \in [0..n -> Nat] /\ f[0] = 0
                         /\ \A i \in 1..n : f[i] = f[i - 1] + a[i]
           Bad == {n \in 0..Len(a) : ~\E f : Upto(n, f)}
<1> SUFFICES Bad = {}
  <2>1. Len(a) \in 0..Len(a)
    BY LenProperties
  <2>2. \E f : Upto(Len(a), f)
    <3> HIDE DEF Upto
    <3> QED BY <2>1
  <2>3. PICK f : Upto(Len(a), f)
    BY <2>2
  <2> QED BY <2>3 DEF Sums
<1> SUFFICES ASSUME Bad # {} PROVE FALSE
  OBVIOUS
<1>1. PICK n \in Bad : \A x \in Bad : n <= x
  <2>1. Bad \subseteq Nat
    OBVIOUS
  <2> HIDE DEF Bad
  <2> QED BY <2>1, LeastNumber
<1>2. n \in 0..Len(a) /\ ~\E f : Upto(n, f)
  OBVIOUS
<1>3. n # 0
  <2>1. Upto(0, [i \in 0..0 |-> 0])
    OBVIOUS
  <2> QED BY <1>2, <2>1
<1>4. n - 1 \in 0..Len(a) /\ n \in 1..Len(a) /\ a[n] \in Nat
  BY <1>2, <1>3
<1>5. PICK f : Upto(n - 1, f)
  <2>1. n - 1 \notin Bad
    <3> HIDE DEF Bad
    <3> QED BY <1>1, <1>4
  <2>2. \E f : Upto(n - 1, f)
    <3> HIDE DEF Upto
    <3> QED BY <1>4, <2>1
  <2> QED BY <2>2
<1> DEFINE g == [i \in 0..n |-> IF i = n THEN f[n - 1] + a[n] ELSE f[i]]
<1>6. f[n - 1] \in Nat
  BY <1>4, <1>5
<1>7. Upto(n, g)
  <2>1. g \in [0..n -> Nat]
    <3>1. ASSUME NEW i \in 0..n PROVE g[i] \in Nat
      <4>1. i = n \/ i \in 0..(n - 1)
        BY <1>4
      <4> QED BY <1>4, <1>5, <1>6, <4>1
    <3> QED BY <3>1
  <2>2. g[0] = 0
    BY <1>3, <1>4, <1>5
  <2>3. ASSUME NEW i \in 1..n PROVE g[i] = g[i - 1] + a[i]
    <3>1. CASE i = n
      <4>1. n - 1 \in 0..n /\ n \in 0..n /\ n - 1 # n
        BY <1>4
      <4>2. g[n - 1] = f[n - 1] /\ g[n] = f[n - 1] + a[n]
        BY <4>1
      <4> QED BY <3>1, <4>2
    <3>2. CASE i # n
      <4>1. i \in 1..(n - 1) /\ i - 1 \in 0..n /\ i - 1 # n /\ i \in 0..n
        BY <1>4, <3>2
      <4>2. g[i - 1] = f[i - 1] /\ g[i] = f[i]
        BY <3>2, <4>1
      <4> QED BY <1>5, <4>1, <4>2
    <3> QED BY <3>1, <3>2
  <2> QED BY <2>1, <2>2, <2>3
<1> QED BY <1>2, <1>7

\* Total of the first n amounts is the running sum at n, whatever comes after.
LEMMA TotalIsTheSum ==
  ASSUME NEW a \in Seq(Nat), NEW f, Sums(a, f), NEW n \in 0..Len(a)
  PROVE  Total(a, n) = f[n]
<1> DEFINE Rec(g) == g = [i \in 0..n |-> IF i = 0 THEN 0 ELSE g[i - 1] + a[i]]
           w == [i \in 0..n |-> f[i]]
           sum == CHOOSE g : Rec(g)
<1>1. Rec(w)
  <2>1. ASSUME NEW i \in 0..n PROVE w[i] = IF i = 0 THEN 0 ELSE w[i - 1] + a[i]
    <3>1. CASE i = 0
      BY <3>1 DEF Sums
    <3>2. CASE i # 0
      <4>1. i - 1 \in 0..n /\ i \in 1..Len(a)
        BY <3>2
      <4> QED BY <3>2, <4>1 DEF Sums
    <3> QED BY <3>1, <3>2
  <2> QED BY <2>1
<1>2. Rec(sum)
  <2> HIDE DEF Rec
  <2> QED BY <1>1
<1>3. Total(a, n) = sum[n]
  BY DEF Total
<1> HIDE DEF sum
<1>4. \A i \in 0..n : sum[i] = f[i]
  <2> DEFINE Bad == {i \in 0..n : sum[i] # f[i]}
  <2> SUFFICES ASSUME Bad # {} PROVE FALSE
    OBVIOUS
  <2>1. Bad \subseteq Nat
    OBVIOUS
  <2>2. PICK i \in Bad : \A x \in Bad : i <= x
    <3> HIDE DEF Bad
    <3> QED BY <2>1, LeastNumber
  <2>3. sum[i] = IF i = 0 THEN 0 ELSE sum[i - 1] + a[i]
    BY <1>2
  <2>4. CASE i = 0
    BY <2>3, <2>4 DEF Sums
  <2>5. CASE i # 0
    <3>1. i - 1 \in 0..n /\ i \in 1..Len(a) /\ i - 1 \notin Bad
      BY <2>2, <2>5
    <3>2. sum[i - 1] = f[i - 1]
      BY <3>1
    <3>3. f[i] = f[i - 1] + a[i]
      BY <3>1 DEF Sums
    <3> QED BY <2>2, <2>3, <2>5, <3>2, <3>3
  <2> QED BY <2>4, <2>5
<1> QED BY <1>3, <1>4

LEMMA TotalIsNatural ==
  ASSUME NEW a \in Seq(Nat), NEW n \in 0..Len(a)
  PROVE  Total(a, n) \in Nat
<1>1. PICK f : Sums(a, f)
  BY SumsExist
<1>2. Total(a, n) = f[n]
  BY <1>1, TotalIsTheSum
<1> QED BY <1>1, <1>2 DEF Sums

\* The sum of the first amounts does not depend on the others.
LEMMA TotalOfPrefix ==
  ASSUME NEW a \in Seq(Nat), NEW b \in Seq(Nat), Len(b) <= Len(a),
         \A i \in 1..Len(b) : b[i] = a[i], NEW n \in 0..Len(b)
  PROVE  Total(b, n) = Total(a, n)
<1>1. PICK f : Sums(a, f)
  BY SumsExist
<1> DEFINE g == [i \in 0..Len(b) |-> f[i]]
<1>2. Len(a) \in Nat /\ Len(b) \in Nat
  OBVIOUS
<1>3. Sums(b, g)
  BY <1>1, <1>2 DEF Sums
<1>4. Total(b, n) = g[n]
  <2> HIDE DEF g
  <2> QED BY <1>3, TotalIsTheSum
<1>5. n \in 0..Len(a)
  BY <1>2
<1>6. Total(a, n) = f[n]
  BY <1>1, <1>5, TotalIsTheSum
<1> QED BY <1>4, <1>6

\* The sequences that Filter builds, one member of s after the other.
Sifts(s, kept, f) ==
  /\ DOMAIN f = 0..Len(s) /\ f[0] = << >>
  /\ \A i \in 1..Len(s) : f[i] = IF s[i] \in kept THEN Append(f[i - 1], s[i]) ELSE f[i - 1]

LEMMA SiftsExist ==
  ASSUME NEW S, NEW s \in Seq(S), NEW kept
  PROVE  \E f : Sifts(s, kept, f) /\ Filter(s, kept) = f[Len(s)]
<1> DEFINE Upto(n, f) == /\ DOMAIN f = 0..n /\ f[0] = << >>
                         /\ \A i \in 1..n : f[i] = IF s[i] \in kept THEN Append(f[i - 1], s[i]) ELSE f[i - 1]
           Bad == {n \in 0..Len(s) : ~\E f : Upto(n, f)}
           Rec(g) == g = [i \in 0..Len(s) |->
                            IF i = 0 THEN << >> ELSE IF s[i] \in kept THEN Append(g[i - 1], s[i]) ELSE g[i - 1]]
           taken == CHOOSE g : Rec(g)
<1>1. Len(s) \in Nat /\ Len(s) \in 0..Len(s)
  BY LenProperties
<1>2. Bad = {}
  <2> SUFFICES ASSUME Bad # {} PROVE FALSE
    OBVIOUS
  <2>1. PICK n \in Bad : \A x \in Bad : n <= x
    <3>1. Bad \subseteq Nat
      OBVIOUS
    <3> HIDE DEF Bad
    <3> QED BY <3>1, LeastNumber
  <2>2. n \in 0..Len(s) /\ ~\E f : Upto(n, f)
    OBVIOUS
  <2>3. n # 0
    <3>1. Upto(0, [i \in 0..0 |-> << >>])
      OBVIOUS
    <3> QED BY <2>2, <3>1
  <2>4. n - 1 \in 0..Len(s) /\ n \in 1..Len(s)
    BY <1>1, <2>2, <2>3
  <2>5. PICK f : Upto(n - 1, f)
    <3>1. n - 1 \notin Bad
      <4> HIDE DEF Bad
      <4> QED BY <2>1, <2>4
    <3>2. \E f : Upto(n - 1, f)
      <4> HIDE DEF Upto
      <4> QED BY <2>4, <3>1
    <3> QED BY <3>2
  <2> DEFINE last == IF s[n] \in kept THEN Append(f[n - 1], s[n]) ELSE f[n - 1]
             g == [i \in 0..n |-> IF i = n THEN last ELSE f[i]]
  <2> HIDE DEF last
  <2>6. Upto(n, g)
    <3>1. DOMAIN g = 0..n
      OBVIOUS
    <3>2. g[0] = << >>
      BY <2>3, <2>4, <2>5
    <3>3. ASSUME NEW i \in 1..n PROVE g[i] = IF s[i] \in kept THEN Append(g[i - 1], s[i]) ELSE g[i - 1]
      <4>1. CASE i = n
        <5>1. n - 1 \in 0..n /\ n \in 0..n /\ n - 1 # n
          BY <2>4
        <5>2. g[n - 1] = f[n - 1] /\ g[n] = last
          BY <5>1
        <5> QED BY <4>1, <5>2 DEF last
      <4>2. CASE i # n
        <5>1. i \in 1..(n - 1) /\ i - 1 \in 0..n /\ i - 1 # n /\ i \in 0..n
          BY <2>4, <4>2
        <5>2. g[i - 1] = f[i - 1] /\ g[i] = f[i]
          BY <4>2, <5>1
        <5> QED BY <2>5, <5>1, <5>2
      <4> QED BY <4>1, <4>2
    <3> QED BY <3>1, <3>2, <3>3
  <2> QED BY <2>2, <2>6
<1>3. PICK f : Upto(Len(s), f)
  <2>1. \E f : Upto(Len(s), f)
    <3> HIDE DEF Upto
    <3> QED BY <1>1, <1>2
  <2> QED BY <2>1
<1>4. Rec([i \in 0..Len(s) |-> f[i]])
  <2> DEFINE w == [i \in 0..Len(s) |-> f[i]]
  <2>1. ASSUME NEW i \in 0..Len(s)
        PROVE  w[i] = IF i = 0 THEN << >> ELSE IF s[i] \in kept THEN Append(w[i - 1], s[i]) ELSE w[i - 1]
    <3>1. CASE i = 0
      BY <1>3, <3>1
    <3>2. CASE i # 0
      <4>1. i - 1 \in 0..Len(s) /\ i \in 1..Len(s)
        BY <1>1, <3>2
      <4>2. w[i - 1] = f[i - 1] /\ w[i] = f[i]
        BY <4>1
      <4> QED BY <1>3, <3>2, <4>1, <4>2
    <3> QED BY <3>1, <3>2
  <2> QED BY <2>1
<1>5. Rec(taken)
  <2> HIDE DEF Rec
  <2> QED BY <1>4
<1>6. Filter(s, kept) = taken[Len(s)]
  BY DEF Filter
<1> HIDE DEF taken
<1>7. Sifts(s, kept, taken)
  <2>1. ASSUME NEW i \in 1..Len(s)
        PROVE  taken[i] = IF s[i] \in kept THEN Append(taken[i - 1], s[i]) ELSE taken[i - 1]
    <3>1. i \in 0..Len(s) /\ i # 0
      BY <1>1
    <3> QED BY <1>5, <3>1
  <2>2. DOMAIN taken = 0..Len(s) /\ taken[0] = << >>
    BY <1>1, <1>5
  <2> QED BY <2>1, <2>2 DEF Sifts
<1> QED BY <1>6, <1>7

\* What is kept comes from the members so far, each at most once if s has none twice.
LEMMA SiftedMembers ==
  ASSUME NEW S, NEW s \in Seq(S), NEW kept, NEW f, Sifts(s, kept, f), NEW n \in 0..Len(s)
  PROVE  /\ f[n] \in Seq(S)
         /\ \A k \in 1..Len(f[n]) : f[n][k] \in kept /\ \E m \in 1..n : f[n][k] = s[m]
         /\ (\A i, j \in 1..Len(s) : s[i] = s[j] => i = j) =>
              \A k, l \in 1..Len(f[n]) : f[n][k] = f[n][l] => k = l
<1> DEFINE Good(i) ==
             /\ f[i] \in Seq(S)
             /\ \A k \in 1..Len(f[i]) : f[i][k] \in kept /\ \E m \in 1..i : f[i][k] = s[m]
             /\ (\A a, b \in 1..Len(s) : s[a] = s[b] => a = b) =>
                  \A k, l \in 1..Len(f[i]) : f[i][k] = f[i][l] => k = l
           Bad == {i \in 0..Len(s) : ~Good(i)}
<1>1. Len(s) \in Nat
  BY LenProperties
<1>2. Bad = {}
  <2> SUFFICES ASSUME Bad # {} PROVE FALSE
    OBVIOUS
  <2>1. PICK i \in Bad : \A x \in Bad : i <= x
    <3>1. Bad \subseteq Nat
      OBVIOUS
    <3> HIDE DEF Bad
    <3> QED BY <3>1, LeastNumber
  <2>2. i \in 0..Len(s) /\ ~Good(i)
    OBVIOUS
  <2>3. i # 0
    <3>1. Good(0)
      BY DEF Sifts
    <3> QED BY <2>2, <3>1
  <2>4. i - 1 \in 0..Len(s) /\ i \in 1..Len(s)
    BY <1>1, <2>2, <2>3
  <2>5. Good(i - 1)
    <3>1. i - 1 \notin Bad
      <4> HIDE DEF Bad
      <4> QED BY <2>1, <2>4
    <3> HIDE DEF Good
    <3> QED BY <2>4, <3>1
  <2> DEFINE q == f[i - 1]
             r == f[i]
  <2>6. r = IF s[i] \in kept THEN Append(q, s[i]) ELSE q
    BY <2>4 DEF Sifts
  <2>7. q \in Seq(S) /\ s[i] \in S
    BY <2>4, <2>5
  <2>8. \A k \in 1..Len(q) : q[k] \in kept /\ \E m \in 1..(i - 1) : q[k] = s[m]
    BY <2>5
  <2>9. (\A a, b \in 1..Len(s) : s[a] = s[b] => a = b) => \A k, l \in 1..Len(q) : q[k] = q[l] => k = l
    BY <2>5
  <2> HIDE DEF q, Bad
  <2>10. CASE s[i] \notin kept
    <3>1. r = q
      BY <2>6, <2>10
    <3>2. \A m \in 1..(i - 1) : m \in 1..i
      BY <2>4
    <3> HIDE DEF r
    <3>3. \A k \in 1..Len(r) : r[k] \in kept /\ \E m \in 1..i : r[k] = s[m]
      BY <2>8, <3>1, <3>2
    <3>4. Good(i)
      BY <2>7, <2>9, <3>1, <3>3 DEF r
    <3> QED BY <2>2, <3>4
  <2>11. CASE s[i] \in kept
    <3>1. r = Append(q, s[i])
      BY <2>6, <2>11
    <3> HIDE DEF r
    <3>2. /\ r \in Seq(S) /\ Len(r) = Len(q) + 1 /\ Len(q) \in Nat
          /\ r[Len(r)] = s[i] /\ \A k \in 1..Len(q) : r[k] = q[k]
      BY <2>7, <3>1
    <3>3. ASSUME NEW k \in 1..Len(r) PROVE r[k] \in kept /\ \E m \in 1..i : r[k] = s[m]
      <4>1. CASE k = Len(r)
        <5>1. i \in 1..i
          BY <2>4
        <5> QED BY <2>11, <3>2, <4>1, <5>1
      <4>2. CASE k # Len(r)
        <5>1. k \in 1..Len(q)
          BY <3>2, <4>2
        <5>2. PICK m \in 1..(i - 1) : q[k] = s[m]
          BY <2>8, <5>1
        <5>3. m \in 1..i
          BY <2>4
        <5> QED BY <2>8, <3>2, <5>1, <5>2, <5>3
      <4> QED BY <4>1, <4>2
    <3>4. ASSUME \A a, b \in 1..Len(s) : s[a] = s[b] => a = b,
                 NEW k \in 1..Len(r), NEW l \in 1..Len(r), r[k] = r[l]
          PROVE  k = l
      <4>1. ASSUME NEW x \in 1..Len(q) PROVE q[x] # s[i]
        <5>1. PICK m \in 1..(i - 1) : q[x] = s[m]
          BY <2>8
        <5>2. m \in 1..Len(s) /\ m # i
          BY <1>1, <2>4
        <5> QED BY <2>4, <3>4, <5>1, <5>2
      <4>2. \A x \in 1..Len(r) : x = Len(r) \/ x \in 1..Len(q)
        BY <3>2
      <4>3. CASE k \in 1..Len(q) /\ l \in 1..Len(q)
        BY <2>9, <3>2, <3>4, <4>3
      <4>4. CASE k = Len(r) /\ l \in 1..Len(q)
        BY <3>2, <3>4, <4>1, <4>4
      <4>5. CASE l = Len(r) /\ k \in 1..Len(q)
        BY <3>2, <3>4, <4>1, <4>5
      <4> QED BY <4>2, <4>3, <4>4, <4>5
    <3>5. Good(i)
      BY <3>2, <3>3, <3>4 DEF r
    <3> QED BY <2>2, <3>5
  <2> QED BY <2>10, <2>11
<1>3. Good(n)
  <2> HIDE DEF Good
  <2> QED BY <1>2
<1> QED BY <1>3

\* What is kept of members that are all kept is the members.
LEMMA SiftedPrefix ==
  ASSUME NEW S, NEW s \in Seq(S), NEW kept, NEW f, Sifts(s, kept, f),
         NEW n \in 0..Len(s), \A k \in 1..n : s[k] \in kept
  PROVE  Len(f[n]) = n /\ \A k \in 1..n : f[n][k] = s[k]
<1> DEFINE Good(i) == Len(f[i]) = i /\ \A k \in 1..i : f[i][k] = s[k]
           Bad == {i \in 0..n : ~Good(i)}
<1>1. Len(s) \in Nat
  BY LenProperties
<1>2. Bad = {}
  <2> SUFFICES ASSUME Bad # {} PROVE FALSE
    OBVIOUS
  <2>1. PICK i \in Bad : \A x \in Bad : i <= x
    <3>1. Bad \subseteq Nat
      OBVIOUS
    <3> HIDE DEF Bad
    <3> QED BY <3>1, LeastNumber
  <2>2. i \in 0..n /\ ~Good(i)
    OBVIOUS
  <2>3. i # 0
    <3>1. Good(0)
      BY DEF Sifts
    <3> QED BY <2>2, <3>1
  <2>4. i - 1 \in 0..n /\ i - 1 \in 0..Len(s) /\ i \in 1..n /\ i \in 1..Len(s)
    BY <1>1, <2>2, <2>3
  <2>5. Good(i - 1)
    <3>1. i - 1 \notin Bad
      <4> HIDE DEF Bad
      <4> QED BY <2>1, <2>4
    <3> HIDE DEF Good
    <3> QED BY <2>4, <3>1
  <2> DEFINE q == f[i - 1]
             r == f[i]
  <2>6. r = Append(q, s[i])
    BY <2>4 DEF Sifts
  <2>7. q \in Seq(S)
    BY <2>4, SiftedMembers
  <2>8. Len(q) = i - 1 /\ \A k \in 1..(i - 1) : q[k] = s[k]
    BY <2>5
  <2> HIDE DEF q, r, Bad
  <2>9. Len(r) = i /\ r[i] = s[i] /\ \A k \in 1..(i - 1) : r[k] = q[k]
    BY <2>4, <2>6, <2>7, <2>8
  <2>10. \A k \in 1..i : k = i \/ k \in 1..(i - 1)
    BY <2>4
  <2>11. \A k \in 1..i : r[k] = s[k]
    BY <2>8, <2>9, <2>10
  <2>12. Good(i)
    BY <2>9, <2>11 DEF r
  <2> QED BY <2>2, <2>12
<1>3. Good(n)
  <2> HIDE DEF Good
  <2> QED BY <1>2
<1> QED BY <1>3

-----------------------------------------------------------------------------

\* The rows of a file of which only the last line may be no row are its first lines.
LEMMA RowsOfLines ==
  ASSUME NEW q \in Seq(Line), WholeButTheLast(q)
  PROVE  /\ Rows(q) \in Seq(RowLine) /\ Len(Rows(q)) <= Len(q)
         /\ \A k \in 1..Len(Rows(q)) : Rows(q)[k] = q[k]
         /\ \A k \in 1..Len(q) : q[k].kind = "row" => k <= Len(Rows(q))
<1> DEFINE kept == {l \in Range(q) : l.kind = "row"}
<1>1. PICK f : Sifts(q, kept, f) /\ Filter(q, kept) = f[Len(q)]
  <2> HIDE DEF kept
  <2> QED BY SiftsExist
<1>2. Rows(q) = f[Len(q)] /\ Len(q) \in Nat /\ DOMAIN q = 1..Len(q)
  BY <1>1, LenProperties DEF Rows
<1>3. \A k \in 1..Len(q) : q[k] \in Line /\ (q[k] \in kept <=> q[k].kind = "row")
  BY <1>2 DEF Range
<1> DEFINE n == IF Len(q) > 0 /\ q[Len(q)].kind # "row" THEN Len(q) - 1 ELSE Len(q)
<1>4. n \in 0..Len(q) /\ n \in Nat
  BY <1>2
<1>5. \A k \in 1..n : k \in 1..Len(q) /\ q[k].kind = "row"
  BY <1>2 DEF WholeButTheLast
<1>6. \A k \in 1..n : q[k] \in kept
  BY <1>3, <1>5
<1>7. f[Len(q)] = f[n]
  <2>1. CASE n = Len(q)
    BY <2>1
  <2>2. CASE n # Len(q)
    <3>1. Len(q) \in 1..Len(q) /\ n = Len(q) - 1 /\ q[Len(q)].kind # "row"
      <4>1. Len(q) > 0 /\ q[Len(q)].kind # "row"
        BY <2>2, Zenon
      <4>2. n = Len(q) - 1
        BY <4>1, Zenon
      <4> HIDE DEF n
      <4> QED BY <1>2, <4>1, <4>2
    <3>2. q[Len(q)] \notin kept
      BY <1>3, <3>1
    <3> HIDE DEF n, kept
    <3> QED BY <1>1, <3>1, <3>2 DEF Sifts
  <2> QED BY <2>1, <2>2
<1>8. Len(f[n]) = n /\ \A k \in 1..n : f[n][k] = q[k]
  <2> HIDE DEF n, kept
  <2> QED BY <1>1, <1>4, <1>6, SiftedPrefix
<1>9. f[n] \in Seq(Line)
  <2> HIDE DEF n, kept
  <2> QED BY <1>1, <1>4, SiftedMembers
<1>10. \A k \in 1..n : f[n][k] \in RowLine
  BY <1>3, <1>5, <1>8 DEF RowLine
<1>11. f[n] \in Seq(RowLine)
  <2> HIDE DEF n
  <2> QED BY <1>4, <1>8, <1>9, <1>10
<1>12. \A k \in 1..Len(q) : q[k].kind = "row" => k <= n
  BY <1>2
<1> HIDE DEF n
<1> QED BY <1>2, <1>4, <1>7, <1>8, <1>11, <1>12

\* Of any lines the rows are rows.
LEMMA RowsOfAnyLines ==
  ASSUME NEW q \in Seq(Line)
  PROVE  Rows(q) \in Seq(RowLine) /\ JobsIn(q) = JobsAt(Rows(q))
<1> DEFINE kept == {l \in Range(q) : l.kind = "row"}
<1>1. PICK f : Sifts(q, kept, f) /\ Filter(q, kept) = f[Len(q)]
  <2> HIDE DEF kept
  <2> QED BY SiftsExist
<1>2. Rows(q) = f[Len(q)] /\ Len(q) \in 0..Len(q) /\ DOMAIN q = 1..Len(q)
  BY <1>1, LenProperties DEF Rows
<1>3. Rows(q) \in Seq(Line) /\ \A k \in 1..Len(Rows(q)) : Rows(q)[k] \in kept
  <2> HIDE DEF kept
  <2> QED BY <1>1, <1>2, SiftedMembers
<1>4. \A l \in kept : l \in RowLine
  <2>1. \A k \in 1..Len(q) : q[k] \in Line
    BY ElementOfSeq
  <2> QED BY <1>2, <2>1 DEF Range, RowLine
<1>5. \A k \in 1..Len(Rows(q)) : Rows(q)[k] \in RowLine
  <2> HIDE DEF kept
  <2> QED BY <1>3, <1>4
<1>6. Rows(q) \in Seq(RowLine)
  <2>1. \A t \in Seq(Line) : (\A k \in 1..Len(t) : t[k] \in RowLine) => t \in Seq(RowLine)
    OBVIOUS
  <2> QED BY <1>3, <1>5, <2>1
<1> QED BY <1>6 DEF JobsIn, JobsAt

LEMMA RowsAreLines ==
  ASSUME NEW q \in Seq(RowLine)
  PROVE  q \in Seq(Line) /\ WholeButTheLast(q) /\ Rows(q) = q /\ JobsIn(q) = JobsAt(q)
<1>1. q \in Seq(Line)
  BY SeqMonotonic DEF RowLine
<1>2. \A k \in 1..Len(q) : q[k] \in RowLine
  BY ElementOfSeq
<1>3. WholeButTheLast(q) /\ \A k \in 1..Len(q) : q[k].kind = "row"
  BY <1>2, LenProperties DEF WholeButTheLast, RowLine
<1>4. Rows(q) = q
  <2>1. /\ Rows(q) \in Seq(RowLine) /\ Len(Rows(q)) <= Len(q)
        /\ \A k \in 1..Len(Rows(q)) : Rows(q)[k] = q[k]
        /\ \A k \in 1..Len(q) : k <= Len(Rows(q))
    BY <1>1, <1>3, RowsOfLines
  <2>2. Len(Rows(q)) = Len(q)
    BY <2>1, LenProperties
  <2> QED BY <2>1, <2>2, SeqEqual
<1> QED BY <1>1, <1>3, <1>4 DEF JobsIn, JobsAt

LEMMA AmountsAreNatural ==
  ASSUME NEW q \in Seq(RowLine)
  PROVE  Amounts(q) \in Seq(Nat) /\ Len(Amounts(q)) = Len(q) /\ \A k \in 1..Len(q) : Amounts(q)[k] = q[k].cost
<1>1. DOMAIN q = 1..Len(q) /\ Len(q) \in Nat
  BY LenProperties
<1>2. \A k \in 1..Len(q) : q[k].cost \in Nat
  BY ElementOfSeq DEF RowLine, Line
<1> QED BY <1>1, <1>2 DEF Amounts

\* Rows that add up still do when only the first of them are left.
LEMMA PrefixAddsUp ==
  ASSUME NEW q \in Seq(RowLine), VerifyRows(q), NEW p \in Seq(RowLine), Len(p) <= Len(q),
         \A k \in 1..Len(p) : p[k] = q[k]
  PROVE  VerifyRows(p)
<1>1. /\ DOMAIN p = 1..Len(p) /\ Len(p) \in Nat
      /\ DOMAIN q = 1..Len(q) /\ Len(q) \in Nat
  BY LenProperties
<1>2. \A k \in 1..Len(p) : k \in 1..Len(q) /\ k \in 0..Len(p)
  BY <1>1
<1>3. \A k \in 1..Len(p) : Amounts(p)[k] = Amounts(q)[k]
  BY <1>2, AmountsAreNatural
<1>4. \A n \in 0..Len(p) : Total(Amounts(p), n) = Total(Amounts(q), n)
  BY <1>3, AmountsAreNatural, TotalOfPrefix
<1> QED BY <1>1, <1>2, <1>4 DEF VerifyRows

\* What is computed from scratch adds up, and has the entries it was asked for.
LEMMA EntriesAddUp ==
  ASSUME NEW entries \in Seq(Entry), RowsFromEntries(entries).ok,
         NEW rows, rows = RowsFromEntries(entries).rows
  PROVE  /\ rows \in Seq(RowLine) /\ Len(rows) = Len(entries) /\ VerifyRows(rows)
         /\ \A k \in 1..Len(entries) : rows[k].job = entries[k].job
<1> DEFINE costs == Amounts(entries)
<1>1. DOMAIN entries = 1..Len(entries) /\ Len(entries) \in Nat
      /\ \A k \in 1..Len(entries) : entries[k].job \in Ids /\ entries[k].cost \in Nat
  <2>1. DOMAIN entries = 1..Len(entries) /\ Len(entries) \in Nat
    BY LenProperties
  <2>2. \A k \in 1..Len(entries) : entries[k] \in Entry
    BY ElementOfSeq
  <2> QED BY <2>1, <2>2 DEF Entry
<1>2. costs \in Seq(Nat) /\ Len(costs) = Len(entries) /\ \A k \in 1..Len(entries) : costs[k] = entries[k].cost
  BY <1>1 DEF Amounts
<1>3. \A i \in 1..Len(entries) : Total(costs, i) \in Nat
  <2> HIDE DEF costs
  <2>1. \A i \in 1..Len(entries) : i \in 0..Len(costs)
    BY <1>1, <1>2
  <2> QED BY <1>2, <2>1, TotalIsNatural
<1>4. /\ rows = [i \in DOMAIN entries |-> Row(entries[i], Total(costs, i))]
      /\ \A i \in DOMAIN entries : Total(costs, i) <= Cap
  BY DEF RowsFromEntries
<1> HIDE DEF costs
<1>5. ASSUME NEW i \in 1..Len(entries)
      PROVE  /\ rows[i] \in RowLine
             /\ rows[i].job = entries[i].job /\ rows[i].cost = costs[i] /\ rows[i].cum = Total(costs, i)
  <2>1. rows[i] = Row(entries[i], Total(costs, i)) /\ costs[i] = entries[i].cost
    BY <1>1, <1>2, <1>4
  <2>2. ParseAmount(Render(entries[i].cost)) = entries[i].cost
    BY <1>1, ParseOfRender
  <2>3. ParseAmount(Render(Total(costs, i))) = Total(costs, i) /\ Total(costs, i) \in Nat
    BY <1>3, ParseOfRender
  <2>4. rows[i] = [kind |-> "row", job |-> entries[i].job, cost |-> costs[i], cum |-> Total(costs, i)]
    BY <2>1, <2>2, <2>3 DEF Row
  <2> QED BY <1>1, <2>1, <2>3, <2>4 DEF RowLine, Line
<1>6. rows \in Seq(RowLine) /\ Len(rows) = Len(entries) /\ DOMAIN rows = 1..Len(entries)
  <2>1. DOMAIN rows = 1..Len(entries) /\ rows = [i \in 1..Len(entries) |-> rows[i]]
    BY <1>1, <1>4
  <2> QED BY <1>1, <1>5, <2>1
<1>7. Amounts(rows) = costs
  <2>1. \A k \in 1..Len(entries) : rows[k].cost = entries[k].cost
    BY <1>2, <1>5
  <2> QED BY <1>1, <1>6, <2>1 DEF Amounts, costs
<1>8. VerifyRows(rows)
  BY <1>1, <1>2, <1>3, <1>4, <1>5, <1>6, <1>7 DEF VerifyRows, NotAnAmount, RowLine, Line
<1> QED BY <1>5, <1>6, <1>8

\* A backfill adds jobs that have no row, each once.
LEMMA MissingJobs ==
  ASSUME NEW q, NEW asked
  PROVE  /\ Missing(q, asked) \in Seq(Jobs)
         /\ \A k \in 1..Len(Missing(q, asked)) : Missing(q, asked)[k] \notin JobsIn(q)
         /\ \A k, l \in 1..Len(Missing(q, asked)) : Missing(q, asked)[k] = Missing(q, asked)[l] => k = l
<1> DEFINE kept == asked \ JobsIn(q)
<1>1. JobList \in Seq(Jobs) /\ \A a, b \in 1..Len(JobList) : JobList[a] = JobList[b] => a = b
  BY LedgerAssumption, LenProperties DEF Jobs, IsInjective
<1>2. PICK f : Sifts(JobList, kept, f) /\ Filter(JobList, kept) = f[Len(JobList)]
  <2> HIDE DEF kept
  <2> QED BY <1>1, SiftsExist
<1>3. Missing(q, asked) = f[Len(JobList)] /\ Len(JobList) \in 0..Len(JobList)
  BY <1>1, <1>2, LenProperties DEF Missing
<1>4. /\ f[Len(JobList)] \in Seq(Jobs)
      /\ \A k \in 1..Len(f[Len(JobList)]) : f[Len(JobList)][k] \in kept
      /\ \A k, l \in 1..Len(f[Len(JobList)]) : f[Len(JobList)][k] = f[Len(JobList)][l] => k = l
  <2> HIDE DEF kept
  <2> QED BY <1>1, <1>2, <1>3, SiftedMembers
<1> QED BY <1>3, <1>4

-----------------------------------------------------------------------------

Fewer(p, q, j) == \A i \in DOMAIN p : IsRowOf(p, i, j) => IsRowOf(q, i, j)

LEMMA FewerRows ==
  ASSUME NEW p, NEW q, NEW j, Fewer(p, q, j)
  PROVE  (Once(q, j) => Once(p, j)) /\ (Twice(q, j) => Twice(p, j))
<1>1. \A i \in DOMAIN p : IsRowOf(p, i, j) => i \in DOMAIN q /\ IsRowOf(q, i, j)
  BY DEF Fewer, IsRowOf
<1>2. ASSUME Once(q, j) PROVE Once(p, j)
  BY <1>1, <1>2, Zenon DEF Once
<1>3. ASSUME Twice(q, j) PROVE Twice(p, j)
  BY <1>1, <1>3 DEF Twice
<1> QED BY <1>2, <1>3

LEMMA OnceIsTwice ==
  ASSUME NEW q, NEW j, Once(q, j)
  PROVE  Twice(q, j)
BY DEF Once, Twice

LEMMA JobsOfLines ==
  ASSUME NEW q \in Seq(Line), WholeButTheLast(q)
  PROVE  /\ JobsIn(q) = JobsAt(Rows(q))
         /\ \A j : j \in JobsIn(q) <=> \E i \in 1..Len(q) : IsRowOf(q, i, j)
<1>1. /\ Rows(q) \in Seq(RowLine) /\ Len(Rows(q)) <= Len(q)
      /\ \A k \in 1..Len(Rows(q)) : Rows(q)[k] = q[k]
      /\ \A k \in 1..Len(q) : q[k].kind = "row" => k <= Len(Rows(q))
  BY RowsOfLines
<1>2. DOMAIN Rows(q) = 1..Len(Rows(q)) /\ Len(Rows(q)) \in Nat /\ DOMAIN q = 1..Len(q) /\ Len(q) \in Nat
  BY <1>1, LenProperties
<1>3. \A k \in 1..Len(Rows(q)) : Rows(q)[k] \in RowLine
  BY <1>1, ElementOfSeq
<1>4. ASSUME NEW j, j \in JobsIn(q) PROVE \E i \in 1..Len(q) : IsRowOf(q, i, j)
  <2>1. PICK i \in 1..Len(Rows(q)) : Rows(q)[i].job = j
    BY <1>2, <1>4 DEF JobsIn
  <2>2. i \in 1..Len(q) /\ q[i] = Rows(q)[i] /\ q[i].kind = "row"
    BY <1>1, <1>2, <1>3 DEF RowLine
  <2> QED BY <1>2, <2>1, <2>2 DEF IsRowOf
<1>5. ASSUME NEW j, NEW i \in 1..Len(q), IsRowOf(q, i, j) PROVE j \in JobsIn(q)
  <2>1. i \in 1..Len(Rows(q)) /\ q[i].job = j
    BY <1>1, <1>2, <1>5 DEF IsRowOf
  <2> QED BY <1>1, <1>2, <2>1 DEF JobsIn
<1> QED BY <1>4, <1>5 DEF JobsIn, JobsAt

\* What a writer prepares: the rows it read, and its own or those that are missing.
Extended(rows, old, w) ==
  /\ Len(old) <= Len(rows) /\ \A k \in 1..Len(old) : rows[k].job = old[k].job
  /\ w # Backfill => Len(rows) = Len(old) + 1 /\ rows[Len(rows)].job = w
  /\ w = Backfill => \A k, l \in (Len(old) + 1)..Len(rows) :
                       rows[k].job \notin JobsAt(old) /\ (rows[k].job = rows[l].job => k = l)

LEMMA PrepareEffect ==
  ASSUME LedgerTypes, NEW w \in Writers, NEW asked, Prepare(w, asked)
  PROVE  /\ at[w] = "idle" /\ UNCHANGED <<ledger, ended, historyVars, ledgerCrashes>>
         /\ \/ /\ at' = [at EXCEPT ![w] = IF w = Backfill THEN "idle" ELSE "silent"]
               /\ UNCHANGED <<draft, stale>>
            \/ \E rows \in Seq(RowLine) :
                 /\ at' = [at EXCEPT ![w] = "prepared"]
                 /\ draft' = [draft EXCEPT ![w] = rows]
                 /\ stale' = [stale EXCEPT ![w] = FALSE]
                 /\ VerifyRows(rows) /\ Extended(rows, Rows(ledger), w)
<1>1. at[w] = "idle" /\ UNCHANGED <<ledger, ended, historyVars, ledgerCrashes>>
  BY DEF Prepare
<1> DEFINE old == Rows(ledger)
           more == IF w = Backfill THEN Missing(ledger, asked) ELSE <<w>>
           jobs == EntriesOf(old) \o NewEntries(more)
           entries == RowsFromEntries(jobs)
           takes == ReadLedger(ledger).ok /\ entries.ok /\ (w = Backfill => asked \subseteq ended)
<1>4. ReadLedger(ledger).rows = old
  BY DEF ReadLedger
<1>2. CASE ~takes
  <2>2. /\ at' = [at EXCEPT ![w] = IF w = Backfill THEN "idle" ELSE "silent"]
        /\ UNCHANGED <<draft, stale>>
    BY <1>2, <1>4 DEF Prepare
  <2> QED BY <1>1, <2>2
<1>3. CASE takes
  <2>2. /\ at' = [at EXCEPT ![w] = "prepared"]
        /\ draft' = [draft EXCEPT ![w] = entries.rows]
        /\ stale' = [stale EXCEPT ![w] = FALSE]
    BY <1>3, <1>4 DEF Prepare
  <2>3. old \in Seq(RowLine) /\ JobsIn(ledger) = JobsAt(old)
    BY RowsOfAnyLines DEF LedgerTypes
  <2>4. /\ EntriesOf(old) \in Seq(Entry) /\ Len(EntriesOf(old)) = Len(old)
        /\ \A k \in 1..Len(old) : EntriesOf(old)[k].job = old[k].job
    <3>1. DOMAIN old = 1..Len(old) /\ Len(old) \in Nat
      BY <2>3, LenProperties
    <3>2. \A k \in 1..Len(old) : [job |-> old[k].job, cost |-> old[k].cost] \in Entry
      BY <2>3, ElementOfSeq DEF RowLine, Line, Entry
    <3> HIDE DEF old
    <3> QED BY <3>1, <3>2 DEF EntriesOf
  <2>5. more \in Seq(Jobs)
    <3>1. CASE w = Backfill
      BY <3>1, MissingJobs
    <3>2. CASE w # Backfill
      BY <3>2 DEF Writers
    <3> QED BY <3>1, <3>2
  <2> HIDE DEF old, more
  <2>10. /\ NewEntries(more) \in Seq(Entry) /\ Len(NewEntries(more)) = Len(more)
         /\ \A k \in 1..Len(more) : NewEntries(more)[k].job = more[k]
    <3>1. DOMAIN more = 1..Len(more) /\ Len(more) \in Nat
      BY <2>5, LenProperties
    <3>2. \A k \in 1..Len(more) : [job |-> more[k], cost |-> Cost(more[k])] \in Entry
      BY <2>5, ElementOfSeq, CostIsNatural DEF Entry, Ids
    <3> QED BY <3>1, <3>2 DEF NewEntries
  <2>6. /\ jobs \in Seq(Entry) /\ Len(jobs) = Len(old) + Len(more)
        /\ \A k \in 1..Len(old) : jobs[k].job = old[k].job
        /\ \A k \in 1..Len(more) : jobs[Len(old) + k].job = more[k]
    <3> DEFINE first == EntriesOf(old)
               next == NewEntries(more)
    <3>1. /\ first \o next \in Seq(Entry) /\ Len(first \o next) = Len(old) + Len(more)
          /\ \A i \in 1..(Len(old) + Len(more)) :
               (first \o next)[i] = IF i <= Len(old) THEN first[i] ELSE next[i - Len(old)]
      <4>1. first \in Seq(Entry) /\ Len(first) = Len(old) /\ next \in Seq(Entry) /\ Len(next) = Len(more)
        BY <2>4, <2>10
      <4> HIDE DEF first, next
      <4>2. /\ first \o next \in Seq(Entry) /\ Len(first \o next) = Len(first) + Len(next)
            /\ \A i \in 1..(Len(first) + Len(next)) :
                 (first \o next)[i] = IF i <= Len(first) THEN first[i] ELSE next[i - Len(first)]
        BY <4>1, ConcatProperties
      <4> QED BY <4>1, <4>2
    <3>2. Len(old) \in Nat /\ Len(more) \in Nat
      BY <2>3, <2>5, LenProperties
    <3>3. \A k \in 1..Len(old) : k \in 1..(Len(old) + Len(more)) /\ k <= Len(old)
      BY <3>2
    <3>4. \A k \in 1..Len(more) : /\ Len(old) + k \in 1..(Len(old) + Len(more)) /\ ~(Len(old) + k <= Len(old))
                                  /\ (Len(old) + k) - Len(old) = k
      BY <3>2
    <3> QED BY <2>4, <2>10, <3>1, <3>3, <3>4
  <2> HIDE DEF jobs
  <2>7. /\ entries.rows \in Seq(RowLine) /\ Len(entries.rows) = Len(jobs) /\ VerifyRows(entries.rows)
        /\ \A k \in 1..Len(jobs) : entries.rows[k].job = jobs[k].job
    BY <1>3, <2>6, EntriesAddUp
  <2> DEFINE rows == entries.rows
  <2> HIDE DEF entries, takes
  <2>8. Len(old) \in Nat /\ Len(more) \in Nat /\ Len(rows) = Len(old) + Len(more)
    BY <2>3, <2>5, <2>6, <2>7, LenProperties
  <2>9. Extended(rows, old, w)
    <3>1. Len(old) <= Len(rows) /\ \A k \in 1..Len(old) : rows[k].job = old[k].job
      <4>1. \A k \in 1..Len(old) : k \in 1..Len(jobs)
        BY <2>6, <2>8
      <4> QED BY <2>6, <2>7, <2>8, <4>1
    <3>2. \A k \in (Len(old) + 1)..Len(rows) : k - Len(old) \in 1..Len(more) /\ rows[k].job = more[k - Len(old)]
      <4>1. ASSUME NEW k \in (Len(old) + 1)..Len(rows) PROVE k - Len(old) \in 1..Len(more) /\ rows[k].job = more[k - Len(old)]
        <5>1. k - Len(old) \in 1..Len(more) /\ Len(old) + (k - Len(old)) = k /\ k \in 1..Len(jobs)
          BY <2>6, <2>8
        <5> QED BY <2>6, <2>7, <5>1
      <4> QED BY <4>1
    <3>3. ASSUME w # Backfill PROVE Len(rows) = Len(old) + 1 /\ rows[Len(rows)].job = w
      <4>1. Len(more) = 1 /\ more[1] = w
        BY <3>3 DEF more
      <4>2. Len(rows) \in (Len(old) + 1)..Len(rows) /\ Len(rows) - Len(old) = 1
        BY <2>8, <4>1
      <4> QED BY <2>8, <3>2, <4>1, <4>2
    <3>4. ASSUME w = Backfill, NEW k \in (Len(old) + 1)..Len(rows), NEW l \in (Len(old) + 1)..Len(rows)
          PROVE  rows[k].job \notin JobsAt(old) /\ (rows[k].job = rows[l].job => k = l)
      <4>1. more = Missing(ledger, asked)
        BY <3>4 DEF more
      <4>2. /\ \A m \in 1..Len(more) : more[m] \notin JobsIn(ledger)
            /\ \A m, n \in 1..Len(more) : more[m] = more[n] => m = n
        BY <4>1, MissingJobs
      <4>3. k - Len(old) = l - Len(old) => k = l
        BY <2>8
      <4> QED BY <2>3, <3>2, <4>2, <4>3
    <3> QED BY <3>1, <3>3, <3>4 DEF Extended
  <2> QED BY <1>1, <2>2, <2>7, <2>9 DEF old
<1> QED BY <1>2, <1>3

\* A step that bills nothing new keeps what is said of a job.
LEMMA BillsStay ==
  ASSUME NEW j \in Jobs, Bills(j), repaired \subseteq repaired',
         \A p \in Lists' : p = << >> \/ \E q \in Lists : Fewer(p, q, j),
         at[j] \in {"running", "idle"} <=> at'[j] \in {"running", "idle"},
         at[j] \in {"running", "idle"} =>
           /\ j \notin billed'
           /\ j \notin repaired' =>
                /\ j \notin JobsIn(ledger')
                /\ \A w \in Jobs : j \notin JobsAt(draft'[w])
  PROVE  Bills(j)'
<1>1. Once(<< >>, j) /\ Twice(<< >>, j)
  BY DEF Once, Twice
<1>2. CASE at[j] \in {"running", "idle"}
  <2>1. \A q \in Lists : Once(q, j)
    BY <1>2 DEF Bills
  <2>2. \A p \in Lists' : Once(p, j)
    BY <1>1, <2>1, FewerRows
  <2> QED BY <1>2, <2>2 DEF Bills
<1>3. CASE at[j] \notin {"running", "idle"}
  <2>1. \A q \in Lists : IF j \in repaired THEN Twice(q, j) ELSE Once(q, j)
    BY <1>3 DEF Bills
  <2>2. CASE j \in repaired
    <3>1. \A p \in Lists' : Twice(p, j)
      BY <1>1, <2>1, <2>2, FewerRows
    <3> QED BY <1>3, <2>2, <3>1 DEF Bills
  <2>3. CASE j \notin repaired
    <3>1. \A p \in Lists' : Once(p, j) /\ Twice(p, j)
      BY <1>1, <2>1, <2>3, FewerRows, OnceIsTwice
    <3> QED BY <1>3, <3>1 DEF Bills
  <2> QED BY <2>2, <2>3
<1> QED BY <1>2, <1>3

LEMMA SameList == \A q, j : Fewer(q, q, j)
BY DEF Fewer

LEMMA InitLedger == LedgerInit => LedgerInv
<1> SUFFICES ASSUME LedgerInit PROVE LedgerInv
  OBVIOUS
<1>1. << >> \in Seq(RowLine) /\ << >> \in Seq(Line) /\ MaxDeaths \in Nat
  BY LedgerAssumption
<1>2. LedgerTypes
  BY <1>1 DEF LedgerInit, LedgerTypes, AtLines
<1>3. WholeButTheLast(ledger) /\ VerifyRows(<< >>)
  BY DEF LedgerInit, WholeButTheLast, VerifyRows
<1>4. Rows(<< >>) = << >> /\ JobsIn(<< >>) = JobsAt(<< >>)
  BY <1>1, RowsAreLines
<1>5. JobsAt(<< >>) = {}
  BY DEF JobsAt
<1>6. LedgerAddsUp /\ DraftsAddUp
  BY <1>3, <1>4 DEF LedgerInit, LedgerAddsUp, DraftsAddUp
<1>7. \A w \in Writers : at[w] \in {"running", "idle"}
  BY DEF LedgerInit
<1>8. OwnRowInDraft /\ RowsAreHeld
  BY <1>7, <1>4, <1>5 DEF LedgerInit, OwnRowInDraft, RowsAreHeld, Owed, Writers
<1>9. ASSUME NEW j \in Jobs PROVE Bills(j)
  <2>1. \A q \in Lists : q = << >>
    BY DEF Lists, LedgerInit
  <2>2. Once(<< >>, j)
    BY DEF Once
  <2>3. \A w \in Jobs : j \notin JobsAt(draft[w])
    BY <1>5 DEF LedgerInit, Writers
  <2> QED BY <1>4, <1>5, <1>7, <2>1, <2>2, <2>3 DEF Bills, LedgerInit, Writers
<1>10. FreshFileIsEmpty /\ ~mixed /\ ~overlaid
  BY DEF LedgerInit, FreshFileIsEmpty
<1> QED BY <1>2, <1>3, <1>6, <1>8, <1>9, <1>10 DEF LedgerInv

LEMMA EndJobKeeps ==
  ASSUME LedgerInv, NEW j \in Jobs, EndJob(j)
  PROVE  LedgerInv'
<1>1. PICK next \in {"idle", "silent"} : at[j] = "running" /\ at' = [at EXCEPT ![j] = next]
  BY DEF EndJob
<1>2. UNCHANGED <<ledger, draft, stale, ended, billed, repaired, disturbed, mixed, overlaid, ledgerCrashes>>
  BY DEF EndJob, historyVars
<1>3. at \in [Writers -> AtLines] /\ j \in Writers
  BY DEF LedgerInv, LedgerTypes, Writers
<1>4. /\ \A w \in Writers : w # j => at'[w] = at[w]
      /\ at'[j] = next /\ at' \in [Writers -> AtLines]
  BY <1>1, <1>3 DEF AtLines
<1>5. LedgerTypes'
  BY <1>2, <1>4 DEF LedgerInv, LedgerTypes
<1>6. \A w \in Writers : \A x \in {"prepared", "writing"} : at'[w] = x <=> at[w] = x
  BY <1>1, <1>4
<1>7. /\ FreshFileIsEmpty' /\ LedgerAddsUp' /\ DraftsAddUp'
      /\ (mixed' => overlaid') /\ (overlaid' => disturbed') /\ (~mixed' => WholeButTheLast(ledger'))
  BY <1>2, <1>6 DEF LedgerInv, FreshFileIsEmpty, LedgerAddsUp, DraftsAddUp
<1>8. OwnRowInDraft'
  BY <1>2, <1>6 DEF LedgerInv, OwnRowInDraft, Writers
<1>9. RowsAreHeld'
  BY <1>2, <1>6 DEF LedgerInv, RowsAreHeld, Owed, Writing
<1>10. ASSUME ~overlaid', NEW i \in Jobs PROVE Bills(i)'
  <2>1. Lists' = Lists
    BY <1>2 DEF Lists
  <2>2. Bills(i)
    BY <1>2, <1>10 DEF LedgerInv
  <2>3. CASE i = j
    <3>1. /\ i \notin billed /\ \A q \in Lists : Once(q, i)
          /\ i \notin repaired => i \notin JobsIn(ledger) /\ \A w \in Jobs : i \notin JobsAt(draft[w])
      BY <1>1, <2>2, <2>3 DEF Bills
    <3>2. \A q \in Lists : Twice(q, i)
      BY <3>1, OnceIsTwice
    <3> QED BY <1>2, <2>1, <3>1, <3>2 DEF Bills
  <2>4. CASE i # j
    <3>1. at'[i] = at[i]
      BY <1>4, <2>4 DEF Writers
    <3> QED BY <1>2, <2>1, <2>2, <3>1 DEF Bills
  <2> QED BY <2>3, <2>4
<1> QED BY <1>5, <1>7, <1>8, <1>9, <1>10 DEF LedgerInv

LEMMA RecordEndKeeps ==
  ASSUME LedgerInv, NEW j \in Jobs, RecordEnd(j)
  PROVE  LedgerInv'
<1>1. /\ ended' = ended \union {j}
      /\ UNCHANGED <<ledger, at, draft, stale, billed, repaired, disturbed, mixed, overlaid, ledgerCrashes>>
  BY DEF RecordEnd, historyVars
<1>2. LedgerTypes'
  BY <1>1 DEF LedgerInv, LedgerTypes
<1>3. /\ FreshFileIsEmpty' /\ LedgerAddsUp' /\ DraftsAddUp' /\ OwnRowInDraft'
      /\ (mixed' => overlaid') /\ (overlaid' => disturbed') /\ (~mixed' => WholeButTheLast(ledger'))
  BY <1>1 DEF LedgerInv, FreshFileIsEmpty, LedgerAddsUp, DraftsAddUp, OwnRowInDraft
<1>4. RowsAreHeld'
  BY <1>1 DEF LedgerInv, RowsAreHeld, Owed, Writing
<1>5. ASSUME ~overlaid', NEW i \in Jobs PROVE Bills(i)'
  <2>1. Lists' = Lists
    BY <1>1 DEF Lists
  <2>2. Bills(i)
    BY <1>1, <1>5 DEF LedgerInv
  <2> QED BY <1>1, <2>1, <2>2 DEF Bills
<1> QED BY <1>2, <1>3, <1>4, <1>5 DEF LedgerInv

LEMMA TruncateKeeps ==
  ASSUME LedgerInv, NEW w \in Writers, Truncate(w)
  PROVE  LedgerInv'
<1>1. /\ at[w] = "prepared" /\ at' = [at EXCEPT ![w] = "writing"] /\ ledger' = << >> /\ ~mixed' /\ mixed' \in BOOLEAN
      /\ UNCHANGED <<draft, stale, ended, billed, repaired, disturbed, overlaid, ledgerCrashes>>
  BY DEF Truncate
<1>2. /\ \A v \in Writers : v # w => at'[v] = at[v]
      /\ at'[w] = "writing" /\ at' \in [Writers -> AtLines]
  BY <1>1 DEF LedgerInv, LedgerTypes, AtLines
<1>3. << >> \in Seq(RowLine) /\ << >> \in Seq(Line)
  OBVIOUS
<1>4. Rows(<< >>) = << >> /\ JobsIn(<< >>) = JobsAt(<< >>) /\ WholeButTheLast(<< >>)
  BY <1>3, RowsAreLines
<1>5. JobsAt(<< >>) = {}
  BY DEF JobsAt
<1>6. LedgerTypes'
  BY <1>1, <1>2, <1>3 DEF LedgerInv, LedgerTypes
<1>7. /\ FreshFileIsEmpty' /\ LedgerAddsUp' /\ DraftsAddUp'
      /\ (mixed' => overlaid') /\ (overlaid' => disturbed') /\ (~mixed' => WholeButTheLast(ledger'))
  <2>1. VerifyRows(<< >>)
    BY DEF VerifyRows
  <2> QED BY <1>1, <1>4, <2>1 DEF LedgerInv, FreshFileIsEmpty, LedgerAddsUp, DraftsAddUp
<1>8. OwnRowInDraft'
  BY <1>1, <1>2 DEF LedgerInv, OwnRowInDraft, Writers
<1>9. RowsAreHeld'
  <2>1. CASE disturbed \/ stale[w] \/ \E v \in Writers : v # w /\ at[v] = "writing"
    BY <1>1, <1>2, <2>1 DEF RowsAreHeld
  <2>2. CASE ~disturbed /\ ~stale[w] /\ ~\E v \in Writers : v # w /\ at[v] = "writing"
    <3>1. ~Writing
      BY <1>1, <2>2 DEF Writing
    <3>2. Owed \subseteq JobsAt(draft[w])
      BY <1>1, <2>2, <3>1 DEF LedgerInv, RowsAreHeld, Writing
    <3>3. Owed' = Owed /\ Writing'
      BY <1>1, <1>2 DEF Owed, Writing
    <3>4. \A v \in Writers : at'[v] = "writing" => v = w
      BY <1>2, <2>2
    <3> QED BY <1>1, <3>2, <3>3, <3>4 DEF RowsAreHeld
  <2> QED BY <2>1, <2>2
<1>10. ASSUME ~overlaid', NEW j \in Jobs PROVE Bills(j)'
  <2>1. Bills(j)
    BY <1>1, <1>10 DEF LedgerInv
  <2>2. \A p \in Lists' : p = << >> \/ \E q \in Lists : Fewer(p, q, j)
    BY <1>1, SameList DEF Lists
  <2>3. at[j] \in {"running", "idle"} <=> at'[j] \in {"running", "idle"}
    BY <1>1, <1>2 DEF Writers
  <2>4. at[j] \in {"running", "idle"} =>
          /\ j \notin billed'
          /\ j \notin repaired' => j \notin JobsIn(ledger') /\ \A v \in Jobs : j \notin JobsAt(draft'[v])
    BY <1>1, <1>4, <1>5, <2>1 DEF Bills
  <2> QED BY <1>1, <2>1, <2>2, <2>3, <2>4, BillsStay
<1> QED BY <1>6, <1>7, <1>8, <1>9, <1>10 DEF LedgerInv

\* What a job is billed stays so when rows are prepared that extend the file's.
LEMMA PrepareKeepsBills ==
  ASSUME LedgerInv, ~overlaid, NEW w \in Writers, at[w] = "idle",
         UNCHANGED <<ledger, ended, historyVars, ledgerCrashes>>, NEW rows \in Seq(RowLine),
         at' = [at EXCEPT ![w] = "prepared"], draft' = [draft EXCEPT ![w] = rows],
         Extended(rows, Rows(ledger), w), NEW j \in Jobs
  PROVE  Bills(j)'
<1> DEFINE old == Rows(ledger)
<1>a. LedgerTypes /\ WholeButTheLast(ledger) /\ \A i \in Jobs : Bills(i)
  BY DEF LedgerInv
<1>b. at[w] = "idle" /\ UNCHANGED <<ledger, billed, repaired>>
  BY DEF historyVars
<1>c. at' \in [Writers -> AtLines] /\ at'[w] = "prepared" /\ \A v \in Writers : v # w => at'[v] = at[v]
  BY <1>a DEF LedgerTypes, AtLines
<1>d. draft' \in [Writers -> Seq(RowLine)] /\ draft'[w] = rows /\ \A v \in Writers : v # w => draft'[v] = draft[v]
  BY <1>a DEF LedgerTypes
<1>e. /\ old \in Seq(RowLine) /\ Len(old) <= Len(ledger) /\ JobsIn(ledger) = JobsAt(old)
      /\ \A k \in 1..Len(old) : old[k] = ledger[k]
      /\ \A k \in 1..Len(ledger) : ledger[k].kind = "row" => k <= Len(old)
  BY <1>a, RowsOfLines, JobsOfLines DEF LedgerTypes
<1>f. /\ DOMAIN rows = 1..Len(rows) /\ Len(rows) \in Nat /\ DOMAIN old = 1..Len(old) /\ Len(old) \in Nat
      /\ DOMAIN ledger = 1..Len(ledger) /\ Len(ledger) \in Nat
      /\ (\A k \in 1..Len(rows) : rows[k].kind = "row") /\ \A k \in 1..Len(old) : old[k].kind = "row"
  <2>1. ledger \in Seq(Line)
    BY <1>a DEF LedgerTypes
  <2> QED BY <1>e, <2>1, LenProperties, ElementOfSeq DEF RowLine
<1> HIDE DEF old
<1>g. /\ Len(old) <= Len(rows) /\ \A k \in 1..Len(old) : rows[k].job = old[k].job
      /\ w # Backfill => Len(rows) = Len(old) + 1 /\ rows[Len(rows)].job = w
      /\ w = Backfill => \A k, l \in (Len(old) + 1)..Len(rows) :
                           rows[k].job \notin JobsAt(old) /\ (rows[k].job = rows[l].job => k = l)
  BY DEF Extended, old
<1>h. ASSUME NEW k \in 1..Len(old)
       PROVE  /\ k \in DOMAIN rows /\ k \in 1..Len(ledger) /\ k \in DOMAIN old
              /\ old[k] = ledger[k] /\ ledger[k].kind = "row" /\ rows[k].job = old[k].job
  <2>1. k \in DOMAIN rows /\ k \in 1..Len(ledger) /\ k \in DOMAIN old
    <3>1. Len(old) <= Len(rows) /\ Len(old) <= Len(ledger)
      BY <1>e, <1>g
    <3>2. Len(rows) \in Nat /\ Len(ledger) \in Nat /\ Len(old) \in Nat
      BY <1>f
    <3>3. k \in 1..Len(rows) /\ k \in 1..Len(ledger)
      BY <3>1, <3>2
    <3> QED BY <1>f, <3>3
  <2>2. old[k] = ledger[k] /\ rows[k].job = old[k].job /\ old[k].kind = "row"
    BY <1>e, <1>f, <1>g
  <2> QED BY <2>1, <2>2
<1>1. Bills(j) /\ j # Backfill /\ j \in Writers
  BY <1>a, LedgerAssumption DEF Jobs, Writers
<1>2. ledger \in Lists /\ rows \in Lists' /\ \A p \in Lists' : p \in Lists \/ p = rows
  BY <1>b, <1>d DEF Lists
<1>3. \A k \in 1..Len(old) : IsRowOf(rows, k, j) => IsRowOf(ledger, k, j)
  <2>1. \A k \in 1..Len(old) : k \in 1..Len(ledger) /\ ledger[k].kind = "row" /\ ledger[k].job = rows[k].job
    BY <1>h
  <2> QED BY <1>f, <2>1 DEF IsRowOf
<1>4. (\A k \in 1..Len(ledger) : ~IsRowOf(ledger, k, j)) <=> j \notin JobsAt(old)
  BY <1>a, <1>e, JobsOfLines DEF LedgerTypes
<1>5. CASE j = w
  <2>1. /\ at[j] = "idle" /\ at'[j] = "prepared"
        /\ \A q \in Lists : Once(q, j) /\ Twice(q, j)
        /\ j \notin repaired => j \notin JobsAt(old)
    BY <1>b, <1>c, <1>e, <1>1, <1>5, OnceIsTwice DEF Bills
  <2>2. Len(rows) = Len(old) + 1
    BY <1>g, <1>1, <1>5
  <2>3. \A k \in DOMAIN rows : k = Len(rows) \/ (k \in 1..Len(old) /\ k \in DOMAIN ledger)
    BY <1>e, <1>f, <2>2
  <2>4. Twice(rows, j)
    <3>1. ASSUME NEW a \in DOMAIN rows, NEW b \in DOMAIN rows, a # Len(rows), b # Len(rows),
                 IsRowOf(rows, a, j), IsRowOf(rows, b, j)
          PROVE  a = b
      <4>1. a \in DOMAIN ledger /\ b \in DOMAIN ledger /\ IsRowOf(ledger, a, j) /\ IsRowOf(ledger, b, j)
        BY <1>3, <2>3, <3>1
      <4> QED BY <1>2, <2>1, <4>1 DEF Once
    <3> QED BY <3>1 DEF Twice
  <2>5. ASSUME j \notin repaired PROVE Once(rows, j)
    <3>1. \A k \in 1..Len(old) : ~IsRowOf(rows, k, j)
      BY <1>e, <1>f, <1>3, <1>4, <2>1, <2>3, <2>5
    <3>2. \A a \in DOMAIN rows : IsRowOf(rows, a, j) => a = Len(rows)
      BY <2>3, <3>1
    <3> QED BY <3>2 DEF Once
  <2>6. \A p \in Lists' : IF j \in repaired THEN Twice(p, j) ELSE Once(p, j)
    BY <1>2, <2>1, <2>4, <2>5
  <2> QED BY <1>b, <2>1, <2>6 DEF Bills
<1>6. CASE j # w
  <2>1. at'[j] = at[j]
    BY <1>c, <1>1, <1>6
  <2>2. (Once(ledger, j) => Once(rows, j)) /\ (Twice(ledger, j) => Twice(rows, j))
    <3>1. CASE w # Backfill
      <4>1. \A k \in DOMAIN rows : IsRowOf(rows, k, j) => k # Len(rows) /\ k \in 1..Len(old)
        BY <1>f, <1>g, <1>6, <3>1 DEF IsRowOf
      <4>2. Fewer(rows, ledger, j)
        BY <1>3, <4>1 DEF Fewer
      <4> QED BY <4>2, FewerRows
    <3>2. CASE w = Backfill
      <4>1. \A k \in DOMAIN rows : k \in 1..Len(old) \/ k \in (Len(old) + 1)..Len(rows)
        BY <1>f
      <4>2. CASE j \in JobsAt(old)
        <5>1. \A k \in DOMAIN rows : IsRowOf(rows, k, j) => k \in 1..Len(old)
          BY <1>g, <3>2, <4>1, <4>2 DEF IsRowOf
        <5>2. Fewer(rows, ledger, j)
          BY <1>3, <5>1 DEF Fewer
        <5> QED BY <5>2, FewerRows
      <4>3. CASE j \notin JobsAt(old)
        <5>1. \A k \in 1..Len(old) : ~IsRowOf(rows, k, j)
          BY <1>e, <1>f, <1>3, <1>4, <4>3
        <5>2. \A k \in DOMAIN rows : IsRowOf(rows, k, j) => k \in (Len(old) + 1)..Len(rows) /\ rows[k].job = j
          BY <4>1, <5>1 DEF IsRowOf
        <5>3. Once(rows, j)
          BY <1>g, <3>2, <5>2 DEF Once
        <5> QED BY <5>3, OnceIsTwice
      <4> QED BY <4>2, <4>3
    <3> QED BY <3>1, <3>2
  <2>3. CASE at[j] \in {"running", "idle"}
    <3>1. /\ j \notin billed /\ \A q \in Lists : Once(q, j)
          /\ j \notin repaired => j \notin JobsIn(ledger) /\ \A v \in Jobs : j \notin JobsAt(draft[v])
      BY <1>1, <2>3 DEF Bills
    <3>2. \A p \in Lists' : Once(p, j)
      BY <1>2, <2>2, <3>1
    <3>3. ASSUME j \notin repaired, NEW v \in Jobs PROVE j \notin JobsAt(draft'[v])
      <4>1. v \in Writers /\ v # Backfill
        BY LedgerAssumption DEF Jobs, Writers
      <4>2. CASE v # w
        BY <1>d, <3>1, <3>3, <4>1, <4>2
      <4>3. CASE v = w
        <5>1. \A k \in DOMAIN rows : k = Len(rows) \/ k \in 1..Len(old)
          BY <1>f, <1>g, <4>1, <4>3
        <5>2. \A k \in 1..Len(old) : rows[k].job # j
          <6>1. j \notin JobsAt(old)
            BY <1>e, <3>1, <3>3
          <6> QED BY <1>h, <6>1 DEF JobsAt
        <5>3. rows[Len(rows)].job # j
          BY <1>g, <1>6, <4>1, <4>3
        <5> QED BY <1>d, <4>3, <5>1, <5>2, <5>3 DEF JobsAt
      <4> QED BY <4>2, <4>3
    <3> QED BY <1>b, <2>1, <2>3, <3>1, <3>2, <3>3 DEF Bills
  <2>4. CASE at[j] \notin {"running", "idle"}
    <3>1. \A q \in Lists : IF j \in repaired THEN Twice(q, j) ELSE Once(q, j)
      BY <1>1, <2>4 DEF Bills
    <3>2. \A p \in Lists' : IF j \in repaired THEN Twice(p, j) ELSE Once(p, j)
      BY <1>2, <2>2, <3>1
    <3> QED BY <1>b, <2>1, <2>4, <3>2 DEF Bills
  <2> QED BY <2>3, <2>4
<1> QED BY <1>5, <1>6

LEMMA PrepareKeeps ==
  ASSUME LedgerInv, NEW w \in Writers, NEW asked, Prepare(w, asked)
  PROVE  LedgerInv'
<1>1. LedgerTypes /\ FreshFileIsEmpty /\ LedgerAddsUp /\ DraftsAddUp /\ OwnRowInDraft /\ RowsAreHeld
      /\ (mixed => overlaid) /\ (overlaid => disturbed) /\ (~mixed => WholeButTheLast(ledger))
  BY DEF LedgerInv
<1>2. at[w] = "idle" /\ UNCHANGED <<ledger, ended, billed, repaired, disturbed, mixed, overlaid, ledgerCrashes>>
  BY <1>1, PrepareEffect DEF historyVars
<1>3. CASE /\ at' = [at EXCEPT ![w] = IF w = Backfill THEN "idle" ELSE "silent"]
           /\ UNCHANGED <<draft, stale>>
  <2>1. at' \in [Writers -> AtLines] /\ \A v \in Writers : v # w => at'[v] = at[v]
    BY <1>1, <1>3 DEF LedgerTypes, AtLines
  <2>2. at'[w] = IF w = Backfill THEN "idle" ELSE "silent"
    BY <1>1, <1>3 DEF LedgerTypes
  <2>3. \A v \in Writers : \A x \in {"prepared", "writing"} : at'[v] = x <=> at[v] = x
    BY <1>2, <2>1, <2>2
  <2>4. LedgerTypes'
    BY <1>1, <1>2, <1>3, <2>1 DEF LedgerTypes
  <2>5. /\ FreshFileIsEmpty' /\ LedgerAddsUp' /\ DraftsAddUp'
        /\ (mixed' => overlaid') /\ (overlaid' => disturbed') /\ (~mixed' => WholeButTheLast(ledger'))
    BY <1>1, <1>2, <1>3, <2>3 DEF FreshFileIsEmpty, LedgerAddsUp, DraftsAddUp
  <2>6. OwnRowInDraft'
    BY <1>1, <1>3, <2>3 DEF OwnRowInDraft, Writers
  <2>7. RowsAreHeld'
    BY <1>1, <1>2, <1>3, <2>3 DEF RowsAreHeld, Owed, Writing
  <2>8. ASSUME ~overlaid', NEW j \in Jobs PROVE Bills(j)'
    <3>1. Lists' = Lists
      BY <1>2, <1>3 DEF Lists
    <3>2. Bills(j) /\ j # Backfill /\ j \in Writers
      BY <1>2, <2>8, LedgerAssumption DEF LedgerInv, Jobs, Writers
    <3>3. CASE j = w
      <4>1. at[j] \in {"running", "idle"} /\ at'[j] = "silent"
        BY <1>2, <2>2, <3>2, <3>3
      <4>2. \A q \in Lists : Once(q, j) /\ Twice(q, j)
        BY <3>2, <4>1, OnceIsTwice DEF Bills
      <4> QED BY <3>1, <4>1, <4>2 DEF Bills
    <3>4. CASE j # w
      <4>1. at'[j] = at[j]
        BY <2>1, <3>2, <3>4
      <4> QED BY <1>2, <1>3, <3>1, <3>2, <4>1 DEF Bills
    <3> QED BY <3>3, <3>4
  <2> QED BY <2>4, <2>5, <2>6, <2>7, <2>8 DEF LedgerInv
<1>4. CASE \E rows \in Seq(RowLine) :
             /\ at' = [at EXCEPT ![w] = "prepared"]
             /\ draft' = [draft EXCEPT ![w] = rows]
             /\ stale' = [stale EXCEPT ![w] = FALSE]
             /\ VerifyRows(rows) /\ Extended(rows, Rows(ledger), w)
  <2> PICK rows \in Seq(RowLine) :
             /\ at' = [at EXCEPT ![w] = "prepared"]
             /\ draft' = [draft EXCEPT ![w] = rows]
             /\ stale' = [stale EXCEPT ![w] = FALSE]
             /\ VerifyRows(rows) /\ Extended(rows, Rows(ledger), w)
    BY <1>4
  <2> DEFINE old == Rows(ledger)
  <2>1. at' \in [Writers -> AtLines] /\ at'[w] = "prepared" /\ \A v \in Writers : v # w => at'[v] = at[v]
    BY <1>1 DEF LedgerTypes, AtLines
  <2>2. draft' \in [Writers -> Seq(RowLine)] /\ draft'[w] = rows /\ \A v \in Writers : v # w => draft'[v] = draft[v]
    BY <1>1 DEF LedgerTypes
  <2>3. stale' \in [Writers -> BOOLEAN] /\ \A v \in Writers : v # w => stale'[v] = stale[v]
    BY <1>1 DEF LedgerTypes
  <2>4. old \in Seq(RowLine) /\ JobsIn(ledger) = JobsAt(old)
    BY <1>1, RowsOfAnyLines DEF LedgerTypes
  <2>5. DOMAIN rows = 1..Len(rows) /\ Len(rows) \in Nat /\ DOMAIN old = 1..Len(old) /\ Len(old) \in Nat
    BY <2>4, LenProperties
  <2> HIDE DEF old
  <2>6. /\ Len(old) <= Len(rows) /\ \A k \in 1..Len(old) : rows[k].job = old[k].job
        /\ w # Backfill => Len(rows) = Len(old) + 1 /\ rows[Len(rows)].job = w
    BY DEF Extended, old
  <2>7. JobsAt(old) \subseteq JobsAt(rows)
    <3>1. Len(old) <= Len(rows) /\ Len(rows) \in Nat /\ Len(old) \in Nat
      BY <2>5, <2>6
    <3>2. \A k \in 1..Len(old) : k \in 1..Len(rows)
      BY <3>1
    <3> QED BY <2>5, <2>6, <3>2 DEF JobsAt
  <2>8. LedgerTypes'
    BY <1>1, <1>2, <2>1, <2>2, <2>3 DEF LedgerTypes
  <2>9. /\ FreshFileIsEmpty' /\ LedgerAddsUp' /\ DraftsAddUp'
        /\ (mixed' => overlaid') /\ (overlaid' => disturbed') /\ (~mixed' => WholeButTheLast(ledger'))
    BY <1>1, <1>2, <2>1, <2>2, <2>3 DEF FreshFileIsEmpty, LedgerAddsUp, DraftsAddUp
  <2>10. OwnRowInDraft'
    <3>1. ASSUME NEW j \in Jobs, at'[j] \in {"prepared", "writing"} PROVE j \in JobsAt(draft'[j])
      <4>1. j \in Writers /\ j # Backfill
        BY LedgerAssumption DEF Jobs, Writers
      <4>2. CASE j = w
        <5>1. Len(rows) \in DOMAIN rows /\ rows[Len(rows)].job = j
          BY <2>5, <2>6, <4>1, <4>2
        <5> QED BY <2>2, <4>2, <5>1 DEF JobsAt
      <4>3. CASE j # w
        BY <1>1, <2>1, <2>2, <3>1, <4>1, <4>3 DEF OwnRowInDraft
      <4> QED BY <4>2, <4>3
    <3> QED BY <3>1 DEF OwnRowInDraft
  <2>11. RowsAreHeld'
    <3>1. \A v \in Writers : at'[v] = "writing" <=> at[v] = "writing"
      BY <1>2, <2>1
    <3>2. \A v \in Writers : at[v] = "writing" => v # w /\ draft'[v] = draft[v] /\ stale'[v] = stale[v]
      BY <1>2, <2>2, <2>3
    <3>3. Owed' = Owed /\ (Writing' <=> Writing)
      BY <1>2, <3>1 DEF Owed, Writing
    <3>4. CASE disturbed \/ (\E v \in Writers : at[v] = "writing" /\ stale[v])
               \/ \E u, v \in Writers : u # v /\ at[u] = "writing" /\ at[v] = "writing"
      BY <1>2, <3>1, <3>2, <3>4 DEF RowsAreHeld
    <3>5. CASE /\ \A v \in Writers : at[v] = "writing" => Owed \subseteq JobsAt(draft[v])
               /\ ~Writing =>
                    /\ Owed \subseteq JobsIn(ledger)
                    /\ \A v \in Writers : at[v] = "prepared" /\ ~stale[v] => Owed \subseteq JobsAt(draft[v])
      <4>1. \A v \in Writers : at'[v] = "writing" => Owed' \subseteq JobsAt(draft'[v])
        BY <3>1, <3>2, <3>3, <3>5
      <4>2. ASSUME ~Writing'
            PROVE  /\ Owed' \subseteq JobsIn(ledger')
                   /\ \A v \in Writers : at'[v] = "prepared" /\ ~stale'[v] => Owed' \subseteq JobsAt(draft'[v])
        <5>1. Owed \subseteq JobsIn(ledger) /\ Owed \subseteq JobsAt(rows)
          BY <2>4, <2>7, <3>3, <3>5, <4>2
        <5>2. ASSUME NEW v \in Writers, at'[v] = "prepared", ~stale'[v] PROVE Owed \subseteq JobsAt(draft'[v])
          <6>1. CASE v = w
            BY <2>2, <5>1, <6>1
          <6>2. CASE v # w
            BY <2>1, <2>2, <2>3, <3>3, <3>5, <4>2, <5>2, <6>2
          <6> QED BY <6>1, <6>2
        <5> QED BY <1>2, <3>3, <5>1, <5>2
      <4> QED BY <4>1, <4>2 DEF RowsAreHeld
    <3> QED BY <1>1, <3>4, <3>5 DEF RowsAreHeld
  <2>12. ASSUME ~overlaid', NEW j \in Jobs PROVE Bills(j)'
    <3>1. ~overlaid /\ UNCHANGED <<ledger, ended, historyVars, ledgerCrashes>>
      BY <1>2, <2>12 DEF historyVars
    <3> QED BY <1>2, <3>1, PrepareKeepsBills
  <2> QED BY <2>8, <2>9, <2>10, <2>11, <2>12 DEF LedgerInv
<1> QED BY <1>1, <1>3, <1>4, PrepareEffect

\* What a write leaves of the lines it finds is lines, and nothing of no lines.
LEMMA LeftOverLines ==
  ASSUME NEW new, NEW old \in Seq(Line), NEW rest \in LeftOver(new, old)
  PROVE  /\ rest \in Seq(Line)
         /\ old = << >> => rest = << >>
         /\ new = << >> => rest = old
<1>1. CASE new = << >> \/ old = << >>
  BY <1>1 DEF LeftOver
<1>2. CASE new # << >> /\ old # << >>
  <2>1. PICK k \in DOMAIN old :
          rest \in {SubSeq(old, k + 1, Len(old))}
                    \cup {<<Torn(old[k], kind)>> \o SubSeq(old, k + 1, Len(old)) : kind \in {"torn", "cut"}}
    BY <1>2 DEF LeftOver
  <2>2. k \in 1..Len(old) /\ Len(old) \in Nat /\ old[k] \in Line
    BY LenProperties, ElementOfSeq
  <2> DEFINE tail == SubSeq(old, k + 1, Len(old))
  <2>3. tail \in Seq(Line)
    <3>1. k + 1 \in 1..(Len(old) + 1)
      BY <2>2
    <3>2. \A i \in (k + 1)..Len(old) : old[i] \in Line
      <4>1. \A i \in (k + 1)..Len(old) : i \in 1..Len(old)
        BY <2>2
      <4> QED BY <4>1, ElementOfSeq
    <3> QED BY <2>2, <3>1, <3>2, SubSeqProperties
  <2>4. \A kind \in {"torn", "cut"} : Torn(old[k], kind) \in Line
    BY <2>2 DEF Torn, Line
  <2> HIDE DEF tail
  <2>5. \A kind \in {"torn", "cut"} : <<Torn(old[k], kind)>> \o tail \in Seq(Line)
    <3>1. \A x \in Line : <<x>> \o tail \in Seq(Line)
      BY <2>3
    <3> QED BY <2>4, <3>1
  <2>6. rest = tail \/ \E kind \in {"torn", "cut"} : rest = <<Torn(old[k], kind)>> \o tail
    BY <2>1 DEF tail
  <2>7. rest \in Seq(Line)
    BY <2>3, <2>5, <2>6
  <2> QED BY <1>2, <2>7
<1> QED BY <1>1, <1>2

\* What one write makes of the file: the new lines alone, or the old ones if there
\* is nothing to write, unless it leaves a part of what another had written.
LEMMA UnmixedWrite ==
  ASSUME LedgerTypes, NEW new \in Seq(Line), NEW rest \in LeftOver(new, ledger),
         ledger' = new \o rest, mixed' = MixedBy(new, rest)
  PROVE  /\ ledger' \in Seq(Line) /\ mixed' \in BOOLEAN
         /\ mixed' => ledger # << >>
         /\ ledger = << >> => ledger' = new
         /\ ~mixed' => ledger' = new \/ (ledger' = ledger /\ ~mixed)
<1>1. /\ ledger \in Seq(Line) /\ rest \in Seq(Line)
      /\ ledger = << >> => rest = << >>
      /\ new = << >> => rest = ledger
  BY LeftOverLines DEF LedgerTypes
<1>2. ledger' \in Seq(Line)
  BY <1>1, ConcatProperties
<1>3. (new = << >> => new \o rest = rest) /\ (rest = << >> => new \o rest = new)
  BY <1>1, ConcatEmptySeq
<1>4. mixed' <=> rest # << >> /\ (new # << >> \/ mixed)
  BY DEF MixedBy, LedgerTypes
<1>5. mixed' \in BOOLEAN
  BY DEF MixedBy
<1> QED BY <1>1, <1>2, <1>3, <1>4, <1>5

LEMMA WriteKeeps ==
  ASSUME LedgerInv, NEW w \in Writers, Write(w)
  PROVE  LedgerInv'
<1>1. LedgerTypes /\ FreshFileIsEmpty /\ LedgerAddsUp /\ DraftsAddUp /\ OwnRowInDraft /\ RowsAreHeld
      /\ (mixed => overlaid) /\ (overlaid => disturbed) /\ (~mixed => WholeButTheLast(ledger))
      /\ (~overlaid => \A j \in Jobs : Bills(j))
  BY DEF LedgerInv
<1>2. at[w] = "writing" /\ disturbed' = (disturbed \/ stale[w]) /\ overlaid' = (overlaid \/ mixed')
      /\ stale' = [v \in Writers |-> v # w] /\ UNCHANGED <<ended, ledgerCrashes>>
  BY DEF Write
<1>3. at' \in [Writers -> AtLines] /\ at'[w] \in {"idle", "done"} /\ (at'[w] = "idle" => w = Backfill)
      /\ \A v \in Writers : v # w => at'[v] = at[v]
  BY <1>1 DEF Write, LedgerTypes, AtLines
<1>4. << >> \in Seq(RowLine)
  OBVIOUS
<1>5. draft' \in [Writers -> Seq(RowLine)] /\ draft'[w] = << >> /\ \A v \in Writers : v # w => draft'[v] = draft[v]
  BY <1>1, <1>4 DEF Write, LedgerTypes
<1>6. draft[w] \in Seq(RowLine) /\ VerifyRows(draft[w])
  BY <1>1 DEF LedgerTypes, DraftsAddUp
<1>7. /\ draft[w] \in Seq(Line) /\ WholeButTheLast(draft[w]) /\ Rows(draft[w]) = draft[w]
      /\ JobsIn(draft[w]) = JobsAt(draft[w])
  BY <1>6, RowsAreLines
<1>8. /\ ledger' \in Seq(Line) /\ mixed' \in BOOLEAN
      /\ mixed' => ledger # << >>
      /\ ledger = << >> => ledger' = draft[w]
      /\ ~mixed' => ledger' = draft[w] \/ (ledger' = ledger /\ ~mixed)
  <2>1. PICK rest \in LeftOver(draft[w], ledger) :
          ledger' = draft[w] \o rest /\ mixed' = MixedBy(draft[w], rest)
    BY DEF Write
  <2> QED BY <1>1, <1>7, <2>1, UnmixedWrite
<1>9. /\ billed' = IF w = Backfill THEN billed ELSE billed \union {w}
      /\ repaired' = IF w = Backfill THEN repaired \union ((Jobs \cap JobsAt(draft[w])) \ billed) ELSE repaired
  BY <1>7 DEF Write
<1>10. w # Backfill => w \in Jobs /\ w \in JobsAt(draft[w])
  BY <1>1, <1>2 DEF OwnRowInDraft, Writers
<1>11. LedgerTypes'
  <2>1. stale' \in [Writers -> BOOLEAN] /\ disturbed' \in BOOLEAN /\ overlaid' \in BOOLEAN
    BY <1>1, <1>2, <1>8 DEF LedgerTypes
  <2>2. billed' \subseteq Jobs /\ repaired' \subseteq Jobs
    BY <1>1, <1>9, <1>10 DEF LedgerTypes
  <2> QED BY <1>1, <1>2, <1>3, <1>5, <1>8, <2>1, <2>2 DEF LedgerTypes
<1>12. FreshFileIsEmpty' /\ (mixed' => overlaid')
  BY <1>2, <1>3 DEF FreshFileIsEmpty
<1>13. overlaid' => disturbed'
  <2>1. mixed' => stale[w]
    BY <1>1, <1>2, <1>8 DEF FreshFileIsEmpty
  <2> QED BY <1>1, <1>2, <2>1
<1>14. (~mixed' => WholeButTheLast(ledger')) /\ LedgerAddsUp' /\ DraftsAddUp'
  <2>1. VerifyRows(<< >>)
    BY DEF VerifyRows
  <2>2. ASSUME ~mixed' PROVE WholeButTheLast(ledger') /\ VerifyRows(Rows(ledger'))
    BY <1>1, <1>6, <1>7, <1>8, <2>2 DEF LedgerAddsUp
  <2>3. DraftsAddUp'
    BY <1>1, <1>5, <2>1 DEF DraftsAddUp
  <2> QED BY <2>2, <2>3 DEF LedgerAddsUp
<1>15. OwnRowInDraft'
  BY <1>1, <1>3, <1>5 DEF OwnRowInDraft, Writers
<1>16. RowsAreHeld'
  <2>1. CASE disturbed \/ stale[w]
    BY <1>1, <1>2, <2>1 DEF RowsAreHeld
  <2>2. CASE \E v \in Writers : v # w /\ at[v] = "writing"
    BY <1>2, <1>3, <2>2 DEF RowsAreHeld
  <2>3. CASE ~disturbed /\ ~stale[w] /\ ~\E v \in Writers : v # w /\ at[v] = "writing"
    <3>1. Owed \subseteq JobsAt(draft[w])
      BY <1>1, <1>2, <2>3 DEF RowsAreHeld
    <3>2. ledger' = draft[w]
      BY <1>1, <1>2, <1>8, <2>3 DEF FreshFileIsEmpty
    <3>3. Owed' \subseteq JobsIn(ledger')
      BY <1>7, <1>9, <1>10, <3>1, <3>2 DEF Owed
    <3>4. \A v \in Writers : at'[v] # "writing"
      BY <1>3, <2>3
    <3>5. \A v \in Writers : at'[v] = "prepared" => stale'[v]
      BY <1>2, <1>3
    <3> QED BY <3>3, <3>4, <3>5 DEF RowsAreHeld
  <2> QED BY <2>1, <2>2, <2>3
<1>17. ASSUME ~overlaid', NEW j \in Jobs PROVE Bills(j)'
  <2>1. Bills(j) /\ j # Backfill /\ j \in Writers
    BY <1>1, <1>2, <1>17, LedgerAssumption DEF Jobs, Writers
  <2>2. ledger' = draft[w] \/ ledger' = ledger
    BY <1>2, <1>8, <1>17
  <2>3. \A p \in Lists' : p = << >> \/ \E q \in Lists : Fewer(p, q, j)
    BY <1>5, <2>2, SameList DEF Lists
  <2>4. at[j] \in {"running", "idle"} <=> at'[j] \in {"running", "idle"}
    BY <1>2, <1>3, <2>1
  <2>5. ASSUME at[j] \in {"running", "idle"}
        PROVE  /\ j \notin billed'
               /\ j \notin repaired' => j \notin JobsIn(ledger') /\ \A v \in Jobs : j \notin JobsAt(draft'[v])
    <3>1. j # w /\ j \notin billed
      BY <1>2, <2>1, <2>5 DEF Bills
    <3>2. j \notin billed'
      BY <1>9, <3>1
    <3>3. ASSUME j \notin repaired' PROVE j \notin JobsIn(ledger') /\ \A v \in Jobs : j \notin JobsAt(draft'[v])
      <4>1. j \notin repaired /\ (w = Backfill => j \notin JobsAt(draft[w]))
        BY <1>9, <3>1, <3>3
      <4>2. j \notin JobsIn(ledger) /\ \A v \in Jobs : j \notin JobsAt(draft[v])
        BY <2>1, <2>5, <4>1 DEF Bills
      <4>3. j \notin JobsAt(draft[w])
        BY <4>1, <4>2 DEF Writers
      <4>4. JobsAt(<< >>) = {}
        BY DEF JobsAt
      <4>5. \A v \in Jobs : draft'[v] = << >> \/ draft'[v] = draft[v]
        BY <1>5 DEF Writers
      <4>6. j \notin JobsIn(ledger')
        BY <1>7, <2>2, <4>2, <4>3
      <4> QED BY <4>2, <4>4, <4>5, <4>6
    <3> QED BY <3>2, <3>3
  <2>6. repaired \subseteq repaired'
    BY <1>9
  <2> QED BY <2>1, <2>3, <2>4, <2>5, <2>6, BillsStay
<1> QED BY <1>11, <1>12, <1>13, <1>14, <1>15, <1>16, <1>17 DEF LedgerInv

\* What a writer who dies leaves: some first rows, and perhaps a part of the next.
LEMMA DeadWriterLeaves ==
  ASSUME NEW q \in Seq(RowLine), VerifyRows(q), NEW k \in 0..Len(q), NEW kind \in {"none", "torn", "cut"},
         kind # "none" => k < Len(q),
         NEW p, p = SubSeq(q, 1, k) \o (IF kind = "none" THEN << >> ELSE <<Torn(q[k + 1], kind)>>)
  PROVE  /\ p \in Seq(Line) /\ WholeButTheLast(p) /\ VerifyRows(Rows(p))
         /\ JobsIn(p) \subseteq JobsAt(q) /\ \A j : Fewer(p, q, j)
<1> DEFINE first == SubSeq(q, 1, k)
           rest == IF kind = "none" THEN << >> ELSE <<Torn(q[k + 1], kind)>>
<1>1. Len(q) \in Nat /\ DOMAIN q = 1..Len(q) /\ \A i \in 1..Len(q) : q[i] \in RowLine /\ q[i] \in Line /\ q[i].kind = "row"
  BY LenProperties, ElementOfSeq DEF RowLine
<1>2. k \in Nat /\ k <= Len(q) /\ \A i \in 1..k : i \in 1..Len(q)
  BY <1>1
<1>3. first \in Seq(Line) /\ Len(first) = k /\ \A i \in 1..k : first[i] = q[i]
  <2>1. \A i \in 1..k : q[i] \in Line
    BY <1>1, <1>2
  <2>2. /\ SubSeq(q, 1, k) \in Seq(Line) /\ Len(SubSeq(q, 1, k)) = IF 1 <= k THEN k - 1 + 1 ELSE 0
        /\ \A i \in 1..(k - 1 + 1) : SubSeq(q, 1, k)[i] = q[1 + i - 1]
    BY <1>2, <2>1, SubSeqProperties
  <2>3. k - 1 + 1 = k /\ \A i \in 1..k : 1 + i - 1 = i
    BY <1>2
  <2> HIDE DEF first
  <2>4. first = SubSeq(q, 1, k)
    BY DEF first
  <2> QED BY <1>2, <2>2, <2>3, <2>4
<1>4. rest \in Seq(Line) /\ Len(rest) \in 0..1 /\ (Len(rest) = 1 => rest[1].kind # "row")
  <2>1. CASE kind = "none"
    BY <2>1
  <2>2. CASE kind # "none"
    <3>1. k + 1 \in 1..Len(q) /\ kind \in {"torn", "cut"}
      BY <1>1, <1>2, <2>2
    <3>2. q[k + 1] \in Line
      BY <1>1, <3>1
    <3>3. Torn(q[k + 1], kind) \in Line /\ Torn(q[k + 1], kind).kind = kind
      BY <3>1, <3>2 DEF Torn, Line
    <3> HIDE DEF first
    <3> DEFINE l == Torn(q[k + 1], kind)
    <3> HIDE DEF l
    <3>4. rest = <<l>> /\ l \in Line /\ l.kind # "row"
      BY <2>2, <3>1, <3>3 DEF l
    <3> HIDE DEF rest
    <3> QED BY <3>4
  <2> QED BY <2>1, <2>2
<1> HIDE DEF first, rest
<1>5. /\ p \in Seq(Line) /\ Len(p) = k + Len(rest)
      /\ \A i \in 1..(k + Len(rest)) : p[i] = IF i <= k THEN first[i] ELSE rest[i - k]
  <2>1. p = first \o rest
    BY DEF first, rest
  <2>2. first \in Seq(Line) /\ Len(first) = k /\ rest \in Seq(Line)
    BY <1>3, <1>4
  <2>3. /\ first \o rest \in Seq(Line) /\ Len(first \o rest) = Len(first) + Len(rest)
        /\ \A i \in 1..(Len(first) + Len(rest)) :
             (first \o rest)[i] = IF i <= Len(first) THEN first[i] ELSE rest[i - Len(first)]
    BY <2>2, ConcatProperties
  <2> QED BY <2>1, <2>2, <2>3, Zenon
<1>6. DOMAIN p = 1..Len(p) /\ Len(p) \in Nat
  BY <1>5, LenProperties
<1>7. ASSUME NEW i \in 1..Len(p), p[i].kind = "row" \/ i < Len(p) PROVE i \in 1..k
  <2> SUFFICES ASSUME i > k PROVE FALSE
    BY <1>2, <1>6
  <2>1. Len(rest) = 1 /\ i = k + 1 /\ i = Len(p) /\ ~(i <= k) /\ i - k = 1 /\ i \in 1..(k + Len(rest))
    BY <1>2, <1>4, <1>5
  <2>2. p[i] = rest[1]
    BY <1>5, <2>1
  <2>3. p[i].kind # "row"
    BY <1>4, <2>1, <2>2
  <2>4. ~(i < Len(p))
    BY <1>6, <2>1
  <2> QED BY <1>7, <2>3, <2>4
<1>8. ASSUME NEW i \in 1..k PROVE i \in DOMAIN p /\ p[i] = q[i] /\ i \in 1..Len(q) /\ p[i].kind = "row"
  <2>1. i \in 1..(k + Len(rest)) /\ i <= k
    BY <1>2, <1>4
  <2>2. p[i] = q[i] /\ i \in 1..Len(q)
    BY <1>2, <1>3, <1>5, <2>1
  <2> QED BY <1>1, <1>5, <1>6, <2>1, <2>2
<1>9. WholeButTheLast(p)
  BY <1>6, <1>7, <1>8 DEF WholeButTheLast
<1>10. \A j : Fewer(p, q, j)
  BY <1>1, <1>6, <1>7, <1>8 DEF Fewer, IsRowOf
<1>11. /\ Rows(p) \in Seq(RowLine) /\ Len(Rows(p)) <= Len(p)
       /\ \A i \in 1..Len(Rows(p)) : Rows(p)[i] = p[i]
  BY <1>5, <1>9, RowsOfLines
<1>12. DOMAIN Rows(p) = 1..Len(Rows(p)) /\ Len(Rows(p)) \in Nat /\ \A i \in 1..Len(Rows(p)) : Rows(p)[i].kind = "row"
  BY <1>11, LenProperties, ElementOfSeq DEF RowLine
<1>13. \A i \in 1..Len(Rows(p)) : i \in 1..k /\ Rows(p)[i] = q[i]
  <2>1. \A i \in 1..Len(Rows(p)) : i \in 1..Len(p)
    BY <1>6, <1>11, <1>12
  <2>2. \A i \in 1..Len(Rows(p)) : i \in 1..k
    BY <1>7, <1>11, <1>12, <2>1
  <2> QED BY <1>8, <1>11, <2>2
<1>14. Len(Rows(p)) <= Len(q)
  <2>1. Len(Rows(p)) \in Nat /\ Len(q) \in Nat /\ k \in Nat /\ k <= Len(q)
    BY <1>1, <1>2, <1>12
  <2>2. Len(Rows(p)) = 0 \/ Len(Rows(p)) \in 1..Len(Rows(p))
    BY <2>1
  <2>3. Len(Rows(p)) = 0 \/ Len(Rows(p)) \in 1..k
    BY <1>13, <2>2
  <2> QED BY <2>1, <2>3
<1>15. VerifyRows(Rows(p))
  BY <1>11, <1>13, <1>14, PrefixAddsUp
<1>16. JobsIn(p) \subseteq JobsAt(q)
  <2>1. \A i \in DOMAIN Rows(p) : i \in DOMAIN q /\ Rows(p)[i].job = q[i].job
    BY <1>1, <1>8, <1>12, <1>13
  <2> QED BY <2>1 DEF JobsIn, JobsAt
<1> QED BY <1>5, <1>9, <1>10, <1>15, <1>16

\* The lines that a death in the middle of one leaves are lines.
LEMMA SplicedLines ==
  ASSUME NEW new \in Line, NEW old \in Line, NEW line \in Splices(new, old)
  PROVE  line \in Line
<1>1. CASE line \in {Torn(new, kind) : kind \in {"torn", "cut"}}
  BY <1>1 DEF Torn, Line
<1>2. CASE line \in {[new EXCEPT !.job = j, !.cost = old.cost, !.cum = old.cum] : j \in {new.job, old.job, Garbled}}
  BY <1>2 DEF Line, Ids
<1>3. CASE line \in {new, [new EXCEPT !.cum = old.cum]}
  BY <1>3 DEF Line
<1> QED BY <1>1, <1>2, <1>3 DEF Splices

\* What a dead writer leaves in the file: what it leaves in an empty one, or what
\* was there if it had written nothing; or the lines of two writes.
LEMMA DeathLeaves ==
  ASSUME LedgerTypes, DraftsAddUp, LedgerAddsUp, ~mixed => WholeButTheLast(ledger),
         NEW w \in Writers, DieWriting(w)
  PROVE  /\ ledger' \in Seq(Line) /\ mixed' \in BOOLEAN
         /\ ~mixed' =>
              /\ WholeButTheLast(ledger') /\ VerifyRows(Rows(ledger'))
              /\ \/ JobsIn(ledger') \subseteq JobsAt(draft[w]) /\ \A j : Fewer(ledger', draft[w], j)
                 \/ ledger' = ledger
<1> DEFINE q == draft[w]
<1>1. q \in Seq(RowLine) /\ VerifyRows(q) /\ ledger \in Seq(Line) /\ q \in Seq(Line)
  BY RowsAreLines DEF LedgerTypes, DraftsAddUp
<1>2. Len(q) \in Nat /\ \A i \in 1..Len(q) : q[i] \in Line
  BY <1>1, LenProperties, ElementOfSeq
<1>3. DOMAIN ledger = 1..Len(ledger) /\ Len(ledger) \in Nat /\ \A i \in 1..Len(ledger) : ledger[i] \in Line
  BY <1>1, LenProperties, ElementOfSeq
<1>4. PICK k \in 0..Len(q) :
        \/ \E rest \in LeftOver(SubSeq(q, 1, k), ledger) :
             ledger' = SubSeq(q, 1, k) \o rest /\ mixed' = MixedBy(SubSeq(q, 1, k), rest)
        \/ /\ k < Len(q)
           /\ \E kind \in {"torn", "cut"} :
                ledger' = Append(SubSeq(q, 1, k), Torn(q[k + 1], kind)) /\ mixed' = FALSE
        \/ /\ k < Len(q)
           /\ \E i \in DOMAIN ledger : \E line \in Splices(q[k + 1], ledger[i]) :
                /\ ledger' = Append(SubSeq(q, 1, k), line) \o SubSeq(ledger, i + 1, Len(ledger))
                /\ mixed' = TRUE
  BY DEF DieWriting
<1> HIDE DEF q
<1> DEFINE first == SubSeq(q, 1, k)
<1>5. first \in Seq(Line)
  <2>1. \A i \in 1..k : q[i] \in Line
    BY <1>2
  <2> QED BY <1>2, <2>1, SubSeqProperties
<1>6. CASE \E rest \in LeftOver(first, ledger) : ledger' = first \o rest /\ mixed' = MixedBy(first, rest)
  <2>1. PICK rest \in LeftOver(first, ledger) : ledger' = first \o rest /\ mixed' = MixedBy(first, rest)
    BY <1>6
  <2>2. first = SubSeq(q, 1, k) \o (IF "none" = "none" THEN << >> ELSE <<Torn(q[k + 1], "none")>>)
    BY <1>5, ConcatEmptySeq
  <2> HIDE DEF first
  <2>3. /\ ledger' \in Seq(Line) /\ mixed' \in BOOLEAN
        /\ ~mixed' => ledger' = first \/ (ledger' = ledger /\ ~mixed)
    BY <1>5, <2>1, UnmixedWrite
  <2>4. /\ WholeButTheLast(first) /\ VerifyRows(Rows(first))
        /\ JobsIn(first) \subseteq JobsAt(q) /\ \A j : Fewer(first, q, j)
    BY <1>1, <2>2, DeadWriterLeaves
  <2> QED BY <2>3, <2>4 DEF LedgerAddsUp, q
<1>7. CASE /\ k < Len(q)
           /\ \E kind \in {"torn", "cut"} : ledger' = Append(first, Torn(q[k + 1], kind)) /\ mixed' = FALSE
  <2>1. PICK kind \in {"torn", "cut"} : ledger' = Append(first, Torn(q[k + 1], kind)) /\ mixed' = FALSE
    BY <1>7
  <2>2. \A x : Append(first, x) = first \o <<x>>
    BY <1>5, AppendIsConcat
  <2>3. ledger' = SubSeq(q, 1, k) \o (IF kind = "none" THEN << >> ELSE <<Torn(q[k + 1], kind)>>)
    BY <2>1, <2>2
  <2>4. /\ ledger' \in Seq(Line) /\ WholeButTheLast(ledger') /\ VerifyRows(Rows(ledger'))
        /\ JobsIn(ledger') \subseteq JobsAt(q) /\ \A j : Fewer(ledger', q, j)
    BY <1>1, <1>7, <2>3, DeadWriterLeaves
  <2> QED BY <2>1, <2>4 DEF q
<1>8. CASE /\ k < Len(q)
           /\ \E i \in DOMAIN ledger : \E line \in Splices(q[k + 1], ledger[i]) :
                ledger' = Append(first, line) \o SubSeq(ledger, i + 1, Len(ledger)) /\ mixed' = TRUE
  <2>0. PICK i \in DOMAIN ledger : \E line \in Splices(q[k + 1], ledger[i]) :
          ledger' = Append(first, line) \o SubSeq(ledger, i + 1, Len(ledger)) /\ mixed' = TRUE
    BY <1>8
  <2>1. PICK line \in Splices(q[k + 1], ledger[i]) :
          ledger' = Append(first, line) \o SubSeq(ledger, i + 1, Len(ledger)) /\ mixed' = TRUE
    BY <2>0
  <2>2. line \in Line
    <3>1. k + 1 \in 1..Len(q)
      BY <1>2, <1>8
    <3>2. q[k + 1] \in Line /\ ledger[i] \in Line
      BY <1>2, <1>3, <3>1
    <3> QED BY <3>2, SplicedLines
  <2> DEFINE tail == SubSeq(ledger, i + 1, Len(ledger))
  <2>3. tail \in Seq(Line)
    <3>1. i + 1 \in 1..(Len(ledger) + 1)
      BY <1>3
    <3>2. \A n \in (i + 1)..Len(ledger) : ledger[n] \in Line
      BY <1>3
    <3> QED BY <1>3, <3>1, <3>2, SubSeqProperties
  <2> HIDE DEF first, tail
  <2>4. Append(first, line) \in Seq(Line)
    BY <1>5, <2>2
  <2>5. ledger' \in Seq(Line)
    BY <2>1, <2>3, <2>4, ConcatProperties DEF tail
  <2> QED BY <2>1, <2>5
<1> QED BY <1>4, <1>6, <1>7, <1>8

LEMMA DieWritingKeeps ==
  ASSUME LedgerInv, NEW w \in Writers, DieWriting(w)
  PROVE  LedgerInv'
<1>1. LedgerTypes /\ FreshFileIsEmpty /\ LedgerAddsUp /\ DraftsAddUp /\ OwnRowInDraft /\ RowsAreHeld
      /\ (mixed => overlaid) /\ (overlaid => disturbed) /\ (~mixed => WholeButTheLast(ledger))
      /\ (~overlaid => \A j \in Jobs : Bills(j))
  BY DEF LedgerInv
<1>2. at[w] = "writing" /\ disturbed' /\ disturbed' \in BOOLEAN /\ ledgerCrashes' = ledgerCrashes + 1
      /\ overlaid' = (overlaid \/ mixed') /\ stale' = [v \in Writers |-> TRUE] /\ UNCHANGED <<ended, billed>>
  BY DEF DieWriting
<1>3. at' \in [Writers -> AtLines] /\ at'[w] \in {"idle", "silent"} /\ (at'[w] = "idle" => w = Backfill)
      /\ \A v \in Writers : v # w => at'[v] = at[v]
  BY <1>1 DEF DieWriting, LedgerTypes, AtLines
<1>4. << >> \in Seq(RowLine)
  OBVIOUS
<1>5. draft' \in [Writers -> Seq(RowLine)] /\ draft'[w] = << >> /\ \A v \in Writers : v # w => draft'[v] = draft[v]
  BY <1>1, <1>4 DEF DieWriting, LedgerTypes
<1>7. /\ ledger' \in Seq(Line) /\ mixed' \in BOOLEAN
      /\ ~mixed' =>
           /\ WholeButTheLast(ledger') /\ VerifyRows(Rows(ledger'))
           /\ \/ JobsIn(ledger') \subseteq JobsAt(draft[w]) /\ \A j : Fewer(ledger', draft[w], j)
              \/ ledger' = ledger
  BY <1>1, DeathLeaves
<1>9. repaired' = IF w = Backfill THEN repaired \union ((Jobs \cap JobsIn(ledger')) \ billed) ELSE repaired
  BY DEF DieWriting
<1>10. LedgerTypes'
  <2>1. repaired' \subseteq Jobs /\ stale' \in [Writers -> BOOLEAN] /\ overlaid' \in BOOLEAN
    BY <1>1, <1>2, <1>7, <1>9 DEF LedgerTypes
  <2> QED BY <1>1, <1>2, <1>3, <1>5, <1>7, <2>1 DEF LedgerTypes
<1>11. (~mixed' => WholeButTheLast(ledger')) /\ LedgerAddsUp' /\ DraftsAddUp'
  <2>1. VerifyRows(<< >>)
    BY DEF VerifyRows
  <2> QED BY <1>1, <1>5, <1>7, <2>1 DEF LedgerAddsUp, DraftsAddUp
<1>12. OwnRowInDraft' /\ RowsAreHeld' /\ FreshFileIsEmpty' /\ (mixed' => overlaid') /\ (overlaid' => disturbed')
  <2>1. OwnRowInDraft'
    BY <1>1, <1>3, <1>5 DEF OwnRowInDraft, Writers
  <2>2. FreshFileIsEmpty'
    BY <1>2 DEF FreshFileIsEmpty
  <2> QED BY <1>2, <2>1, <2>2 DEF RowsAreHeld
<1>13. ASSUME ~overlaid', NEW j \in Jobs PROVE Bills(j)'
  <2>1. Bills(j) /\ j # Backfill /\ j \in Writers
    BY <1>1, <1>2, <1>13, LedgerAssumption DEF Jobs, Writers
  <2>2. \/ JobsIn(ledger') \subseteq JobsAt(draft[w]) /\ \A i : Fewer(ledger', draft[w], i)
        \/ ledger' = ledger
    BY <1>2, <1>7, <1>13
  <2>3. \A p \in Lists' : p = << >> \/ \E q \in Lists : Fewer(p, q, j)
    BY <1>5, <2>2, SameList DEF Lists
  <2>4. at[j] \in {"running", "idle"} <=> at'[j] \in {"running", "idle"}
    BY <1>2, <1>3, <2>1
  <2>5. ASSUME at[j] \in {"running", "idle"}
        PROVE  /\ j \notin billed'
               /\ j \notin repaired' => j \notin JobsIn(ledger') /\ \A v \in Jobs : j \notin JobsAt(draft'[v])
    <3>1. j # w /\ j \notin billed /\ j \notin billed'
      BY <1>2, <2>1, <2>5 DEF Bills
    <3>2. ASSUME j \notin repaired' PROVE j \notin JobsIn(ledger') /\ \A v \in Jobs : j \notin JobsAt(draft'[v])
      <4>1. j \notin repaired /\ (w = Backfill => j \notin JobsIn(ledger'))
        BY <1>9, <3>1, <3>2
      <4>2. j \notin JobsIn(ledger) /\ \A v \in Jobs : j \notin JobsAt(draft[v])
        BY <2>1, <2>5, <4>1 DEF Bills
      <4>3. j \notin JobsIn(ledger')
        BY <2>2, <4>1, <4>2 DEF Writers
      <4>4. JobsAt(<< >>) = {}
        BY DEF JobsAt
      <4>5. \A v \in Jobs : draft'[v] = << >> \/ draft'[v] = draft[v]
        BY <1>5 DEF Writers
      <4> QED BY <4>2, <4>3, <4>4, <4>5
    <3> QED BY <3>1, <3>2
  <2>6. repaired \subseteq repaired'
    BY <1>9
  <2> QED BY <2>1, <2>3, <2>4, <2>5, <2>6, BillsStay
<1> QED BY <1>10, <1>11, <1>12, <1>13 DEF LedgerInv

LEMMA NextLedger == ASSUME LedgerInv, [LedgerNext]_ledgerVars PROVE LedgerInv'
<1>1. CASE \E j \in Jobs : EndJob(j) \/ RecordEnd(j)
  BY <1>1, EndJobKeeps, RecordEndKeeps
<1>2. CASE \E w \in Writers : WriterStep(w) \/ DieWriting(w)
  BY <1>2, PrepareKeeps, TruncateKeeps, WriteKeeps, DieWritingKeeps DEF WriterStep
<1>3. CASE UNCHANGED ledgerVars
  <2>1. UNCHANGED <<ledger, at, draft, stale, ended, billed, repaired, disturbed, mixed, overlaid, ledgerCrashes>>
    BY <1>3 DEF ledgerVars, historyVars
  <2>2. ASSUME ~overlaid', NEW j \in Jobs PROVE Bills(j)'
    <3>1. Lists' = Lists
      BY <2>1 DEF Lists
    <3>2. Bills(j)
      BY <2>1, <2>2 DEF LedgerInv
    <3> QED BY <2>1, <3>1, <3>2 DEF Bills
  <2>3. /\ LedgerTypes' /\ FreshFileIsEmpty' /\ LedgerAddsUp' /\ DraftsAddUp' /\ OwnRowInDraft'
        /\ (mixed' => overlaid') /\ (overlaid' => disturbed') /\ (~mixed' => WholeButTheLast(ledger'))
    BY <2>1 DEF LedgerInv, LedgerTypes, FreshFileIsEmpty, LedgerAddsUp, DraftsAddUp, OwnRowInDraft
  <2>4. RowsAreHeld'
    BY <2>1 DEF LedgerInv, RowsAreHeld, Owed, Writing
  <2> QED BY <2>2, <2>3, <2>4 DEF LedgerInv
<1> QED BY <1>1, <1>2, <1>3 DEF LedgerNext

\* The invariant of the ledger, whatever writers overlap or die: where the lines of
\* two writes do not stand in the file, it holds whole rows that add up and at most
\* one broken line at the end; they meet only where a writer wrote over what another
\* had written since it read; every draft adds up; and what is owed a row is in the
\* file or in the draft that replaces it.
THEOREM LedgerInvariant == LedgerSpec => []LedgerInv
<1> QED BY InitLedger, NextLedger, PTL DEF LedgerSpec

\* A set of numbers of which no three differ has at most two members.
LEMMA AtMostTwo ==
  ASSUME NEW S, IsFiniteSet(S), \A a, b, c \in S : a = b \/ a = c \/ b = c
  PROVE  Cardinality(S) <= 2
<1>1. CASE S = {}
  BY <1>1, FS_EmptySet
<1>2. CASE S # {}
  <2>1. PICK a \in S : TRUE
    BY <1>2
  <2>2. CASE S = {a}
    BY <2>2, FS_Singleton
  <2>3. CASE S # {a}
    <3>1. PICK b \in S : b # a
      BY <2>1, <2>3
    <3>2. S = {a} \union {b}
      BY <2>1, <3>1
    <3>3. IsFiniteSet({a}) /\ Cardinality({a}) = 1
      BY FS_Singleton
    <3>4. Cardinality({a} \union {b}) = 2
      BY <3>1, <3>3, FS_AddElement
    <3> QED BY <3>2, <3>4
  <2> QED BY <2>2, <2>3
<1> QED BY <1>1, <1>2

LEMMA AtMostOne ==
  ASSUME NEW S, IsFiniteSet(S), \A a, b \in S : a = b
  PROVE  Cardinality(S) <= 1
<1>1. CASE S = {}
  BY <1>1, FS_EmptySet
<1>2. CASE S # {}
  <2>1. PICK a \in S : S = {a}
    BY <1>2
  <2> QED BY <2>1, FS_Singleton
<1> QED BY <1>1, <1>2

\* For any jobs, prices and cap, and whatever jobs and backfills overlap or die, the
\* rows of reports/cost.md add up to the cent unless the file holds lines of two
\* writes, a row is lost only where writers collided or one died, and a job is billed
\* twice only after a backfill added it or after such a mixture.
THEOREM LedgerStaysConsistent == LedgerSpec => []LedgerIsConsistent
<1>1. ASSUME LedgerInv PROVE LedgerIsConsistent
  <2>1. LedgerTypes /\ LedgerAddsUp /\ RowsAreHeld /\ (~overlaid => \A j \in Jobs : Bills(j))
    BY <1>1 DEF LedgerInv
  <2>2. RowsStayUndisturbed
    BY <2>1 DEF RowsStayUndisturbed, RowsAreHeld, Owed, Writing
  <2>3. ASSUME ~overlaid, NEW j \in Jobs
        PROVE  Cardinality({i \in DOMAIN ledger : ledger[i].kind = "row" /\ ledger[i].job = j})
                 <= (IF j \in repaired THEN 2 ELSE 1)
    <3> DEFINE S == {i \in DOMAIN ledger : ledger[i].kind = "row" /\ ledger[i].job = j}
    <3>1. IsFiniteSet(S)
      <4>1. DOMAIN ledger = 1..Len(ledger) /\ Len(ledger) \in Nat
        BY <2>1, LenProperties DEF LedgerTypes
      <4>2. IsFiniteSet(1..Len(ledger)) /\ S \in SUBSET (1..Len(ledger))
        BY <4>1, FS_Interval
      <4> HIDE DEF S
      <4> QED BY <4>2, FS_Subset
    <3>2. \A i : i \in S <=> i \in DOMAIN ledger /\ IsRowOf(ledger, i, j)
      BY DEF IsRowOf
    <3>3. IF j \in repaired THEN Twice(ledger, j) ELSE Once(ledger, j)
      BY <2>1, <2>3, OnceIsTwice DEF Bills, Lists
    <3> HIDE DEF S
    <3>4. CASE j \in repaired
      <4>1. \A a, b, c \in S : a = b \/ a = c \/ b = c
        BY <3>2, <3>3, <3>4 DEF Twice
      <4> QED BY <3>1, <3>4, <4>1, AtMostTwo DEF S
    <3>5. CASE j \notin repaired
      <4>1. \A a, b \in S : a = b
        BY <3>2, <3>3, <3>5 DEF Once
      <4> QED BY <3>1, <3>5, <4>1, AtMostOne DEF S
    <3> QED BY <3>4, <3>5
  <2>4. BilledOncePerWriter
    BY <2>3 DEF BilledOncePerWriter
  <2> QED BY <2>1, <2>2, <2>4 DEF LedgerIsConsistent
<1> QED BY LedgerInvariant, <1>1, PTL
=============================================================================
