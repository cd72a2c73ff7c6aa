------------------------------ MODULE Telemetry ------------------------------
(***************************************************************************)
(* The metric path of lewm-telemetry: SystemSampler and the trainer call   *)
(* the Telemetry facade, whose MetricFanout hands every scalar to a        *)
(* TrackioWriter (one metrics.jsonl, opened for appending) and to a        *)
(* TensorboardWriter (an event file named by the second it is created in). *)
(* Both buffer their records.                                              *)
(*                                                                         *)
(* The process may die with bytes in the buffers, leaving half a record at *)
(* the end of a file, and be started again with the same run id; a device  *)
(* may refuse a write or a flush.  A record is the number of its emission. *)
(***************************************************************************)
EXTENDS Integers, FiniteSets, SequencesExt

CONSTANTS
  FlushRecords,   \* flush_records of both writers
  FlushInterval,  \* flush_interval, in ticks of the clock
  FastCadence,    \* SYSTEM_FAST_CADENCE
  DiskCadence,    \* SYSTEM_DISK_CADENCE
  MaxClock, MaxRecords, MaxCrashes, MaxFaults   \* bounds of the instance

ASSUME TelemetryAssumption ==
  /\ FlushRecords \in Nat \ {0} /\ FlushInterval \in Nat \ {0}
  /\ FastCadence \in Nat \ {0} /\ DiskCadence \in Nat \ {0}
  /\ MaxClock \in Nat /\ MaxRecords \in Nat /\ MaxCrashes \in Nat /\ MaxFaults \in Nat

Sinks == {"trackio", "tensorboard"}
Never == -1
MetricsFile == -1   \* metrics.jsonl; an event file has the second as its name

VARIABLES
  clock,     \* seconds
  up,        \* the process runs
  order,     \* the sinks as MetricFanout holds them
  writer,    \* per sink: BufWriter, records_since_flush, last_flush
  file,      \* the files on disk by name
  event,     \* the name of the current event file: the second of its creation
  cadence,   \* SystemMetricCadence
  \* what the properties read
  count,     \* records emitted so far
  took,      \* per sink: the records in its buffer or written from it
  accepted,  \* the records whose emission returned Ok
  life,      \* count when the process last started
  closed,    \* how the last process ended: "ok" for a shutdown that returned Ok
  sampled,   \* when the fast and the disk metrics were last emitted entirely
  refused,   \* emit_due has failed since the fast metrics were emitted entirely
  crashes, faults

io == <<writer, file, took>>
sampler == <<cadence, sampled, refused>>
vars == <<clock, up, order, io, event, sampler, count, accepted, life, closed, crashes, faults>>

\* A record in a buffer or in a file; a half has no newline or checksum.
Token(n, whole) == [rec |-> n, whole |-> whole]
FileOf(s) == IF s = "trackio" THEN MetricsFile ELSE event

\* A line is what stands between two newlines, so that what follows half a line
\* is lost with it; an event file is never appended to and only ends in a half.
Readable(name) ==
  {file[name][i].rec : i \in {j \in DOMAIN file[name] :
     file[name][j].whole /\ (j > 1 => file[name][j - 1].whole)}}
AfterHalf(name) ==
  {file[name][i].rec : i \in {j \in DOMAIN file[name] \ {1} : ~file[name][j - 1].whole}}
Kept(s) == IF s = "trackio" THEN Readable(MetricsFile) ELSE UNION {Readable(t) : t \in 0..MaxClock}
Buffered(s) == {writer[s].buf[i].rec : i \in {j \in DOMAIN writer[s].buf : writer[s].buf[j].whole}}

-----------------------------------------------------------------------------
\* Starting and stopping the process

Fresh == [buf |-> << >>, since |-> 0, last |-> clock]

\* Both writers and an empty cadence: the state after MetricFanout::new,
\* Telemetry::with_metric_sink and SystemSampler::new.
Init ==
  /\ clock = 0 /\ up = TRUE
  /\ order \in {<<"trackio", "tensorboard">>, <<"tensorboard", "trackio">>}
  /\ writer = [s \in Sinks |-> [buf |-> << >>, since |-> 0, last |-> 0]]
  /\ file = [name \in {MetricsFile} \cup (0..MaxClock) |-> << >>]
  /\ event = 0
  /\ cadence = [fast |-> Never, disk |-> Never]
  /\ count = 0 /\ took = [s \in Sinks |-> {}] /\ accepted = {}
  /\ life = 0 /\ closed = "never"
  /\ sampled = [fast |-> Never, disk |-> Never] /\ refused = FALSE
  /\ crashes = 0 /\ faults = 0

Tick == clock < MaxClock /\ clock' = clock + 1
        /\ UNCHANGED <<up, order, io, event, sampler, count, accepted, life, closed, crashes, faults>>

TrackioTruncates == [file EXCEPT ![MetricsFile] = << >>, ![clock] = << >>]

\* TrackioWriter appends to the file it finds; TensorboardWriter creates its own.
Opened == [file EXCEPT ![clock] = << >>]

Start ==
  /\ ~up /\ up' = TRUE
  /\ file' = Opened
  /\ event' = clock
  /\ writer' = [s \in Sinks |-> Fresh]
  /\ cadence' = [fast |-> Never, disk |-> Never]
  /\ sampled' = [fast |-> Never, disk |-> Never] /\ refused' = FALSE
  /\ life' = count
  /\ UNCHANGED <<clock, order, took, count, accepted, closed, crashes, faults>>

\* What remains of a buffer that is not flushed: some of its first records,
\* then perhaps a part of the next.
Remains(buf) ==
  {SubSeq(buf, 1, k) : k \in 0..Len(buf)}
    \cup {Append(SubSeq(buf, 1, k), Token(buf[k + 1].rec, FALSE)) : k \in 0..(Len(buf) - 1)}

Crash ==
  /\ up /\ crashes < MaxCrashes
  /\ up' = FALSE /\ crashes' = crashes + 1 /\ closed' = "crash"
  /\ \E a \in Remains(writer["trackio"].buf), b \in Remains(writer["tensorboard"].buf) :
       file' = [file EXCEPT ![MetricsFile] = @ \o a, ![event] = @ \o b]
  /\ UNCHANGED <<clock, order, writer, event, took, sampler, count, accepted, life, faults>>

\* Telemetry::shutdown flushes the sinks in order up to the first that fails,
\* and dropping the others flushes them: only a failing one loses its buffer.
LeftBy(failing) ==
  [s \in Sinks |-> IF s \in failing THEN Remains(writer[s].buf) ELSE {writer[s].buf}]

Shutdown(failing) ==
  /\ up
  /\ failing # {} => crashes < MaxCrashes
  /\ up' = FALSE
  /\ closed' = IF failing = {} THEN "ok" ELSE "error"
  /\ crashes' = IF failing = {} THEN crashes ELSE crashes + 1
  /\ \E a \in LeftBy(failing)["trackio"], b \in LeftBy(failing)["tensorboard"] :
       file' = [file EXCEPT ![MetricsFile] = @ \o a, ![event] = @ \o b]
  /\ writer' = [s \in Sinks |-> Fresh]
  /\ UNCHANGED <<clock, order, event, took, sampler, count, accepted, life, faults>>

-----------------------------------------------------------------------------
\* Emitting

\* What the device does to one emission: nothing, or at record n it makes sink s
\* refuse the write, perhaps after a part of it, or the flush that follows it.
Faults(ns) == [rec : ns, sink : Sinks, how : {"write", "part", "flush"}]
NoFault == [rec |-> 0, sink |-> "trackio", how |-> "flush"]

FlushDue(w) == w.since >= FlushRecords \/ clock - w.last >= FlushInterval

\* write_json_line and write_summary, then maybe_flush_locked: the record goes
\* to the buffer, which is flushed when it holds enough or is old enough.  A
\* failed flush leaves it in the buffer and its count in place.
EmitTo(st, s, n, fault) ==
  LET here == fault.rec = n /\ fault.sink = s
      with == [st.writer[s] EXCEPT !.buf = Append(@, Token(n, ~(here /\ fault.how = "part"))),
                                   !.since = @ + 1]
  IN  IF here /\ fault.how = "write" THEN [st EXCEPT !.ok = FALSE]
      ELSE IF here /\ fault.how = "part"
      THEN [st EXCEPT !.ok = FALSE, !.writer[s].buf = with.buf]
      ELSE IF ~FlushDue(with) THEN [st EXCEPT !.writer[s] = with, !.took[s] = @ \cup {n}]
      ELSE IF here THEN [st EXCEPT !.ok = FALSE, !.writer[s] = with, !.took[s] = @ \cup {n}]
      ELSE [st EXCEPT !.writer[s] = Fresh, !.took[s] = @ \cup {n},
                      !.file[FileOf(s)] = @ \o with.buf]

FanoutRegardless(st, n, fault) ==
  LET first == EmitTo(st, order[1], n, fault) IN EmitTo(first, order[2], n, fault)

\* MetricFanout::emit_scalar: the sinks in order, up to the first that fails.
Fanout(st, n, fault) ==
  LET first == EmitTo(st, order[1], n, fault)
  IN  IF first.ok THEN EmitTo(first, order[2], n, fault) ELSE first

\* One record of a batch, none after one that failed; done counts the accepted.
Attempt(st, n, fault) ==
  IF ~st.ok THEN st
  ELSE LET after == Fanout(st, n, fault)
       IN  IF after.ok THEN [after EXCEPT !.done = @ + 1] ELSE after

\* A batch of one to three scalars, up to the first record that fails
\* (Telemetry::emit_scalars, SystemMetrics::emit_fast).
EmitBatch(size, fault) ==
  LET none  == [writer |-> writer, file |-> file, took |-> took, ok |-> TRUE, done |-> 0]
      one   == Attempt(none, count + 1, fault)
      two   == Attempt(one, count + 2, fault)
      three == Attempt(two, count + 3, fault)
  IN  IF size = 1 THEN one ELSE IF size = 2 THEN two ELSE three

\* The records of a batch that fails are numbered up to the one that failed.
Emitted(size, fault) ==
  LET st == EmitBatch(size, fault)
  IN  /\ count + size <= MaxRecords
      /\ fault # NoFault => faults < MaxFaults /\ ~st.ok
      /\ writer' = st.writer /\ file' = st.file /\ took' = st.took
      /\ count' = count + (IF st.ok THEN size ELSE st.done + 1)
      /\ accepted' = accepted \cup (count + 1)..(count + st.done)
      /\ faults' = IF fault = NoFault THEN faults ELSE faults + 1

Batches(size) == Faults((count + 1)..(count + size)) \cup {NoFault}

\* Telemetry::emit_scalar, of the trainer's metrics.
EmitScalar ==
  /\ up
  /\ \E fault \in Batches(1) : Emitted(1, fault)
  /\ UNCHANGED <<clock, up, order, event, sampler, life, closed, crashes>>

IsDue(last, every) == last = Never \/ clock - last >= every

RecordDiskOnly(fast, disk) ==
  [fast |-> cadence.fast, disk |-> IF disk THEN clock ELSE cadence.disk]

\* record_emit; the deadlines move only when the whole call has succeeded.
RecordEmit(fast, disk) ==
  [fast |-> IF fast THEN clock ELSE cadence.fast, disk |-> IF disk THEN clock ELSE cadence.disk]

\* SystemSampler::emit_due_at: two fast scalars (the host has no GPU), then the
\* disk scalar, each family when it is due.
EmitDue ==
  LET fast == IsDue(cadence.fast, FastCadence)
      disk == IsDue(cadence.disk, DiskCadence)
      size == (IF fast THEN 2 ELSE 0) + (IF disk THEN 1 ELSE 0)
  IN  /\ up /\ size > 0
      /\ \E fault \in Batches(size) :
           LET st == EmitBatch(size, fault)
               wholeFast == fast /\ st.done >= 2
           IN  /\ Emitted(size, fault)
               /\ cadence' = IF st.ok THEN RecordEmit(fast, disk) ELSE cadence
               /\ sampled' = [fast |-> IF wholeFast THEN clock ELSE sampled.fast,
                              disk |-> IF disk /\ st.ok THEN clock ELSE sampled.disk]
               /\ refused' = (~st.ok \/ (refused /\ ~fast))
      /\ UNCHANGED <<clock, up, order, event, life, closed, crashes>>

Next ==
  \/ Tick \/ Start \/ Crash
  \/ \E failing \in SUBSET Sinks : Shutdown(failing)
  \/ EmitScalar \/ EmitDue

Spec == Init /\ [][Next]_vars
-----------------------------------------------------------------------------
\* Properties

(* A crash costs the metrics.jsonl at most a full buffer less one record, and
   the line that the next process glues to a torn one: of the records the
   writer took, at most FlushRecords per crash, and one per device fault, are
   neither on disk nor in the buffer (tracker.rs: append, maybe_flush_locked). *)
LossIsBounded ==
  Cardinality(took["trackio"] \ (Kept("trackio") \cup (IF up THEN Buffered("trackio") ELSE {})))
    <= crashes * FlushRecords + faults

(* What has reached a file stays readable, whatever crashes and restarts
   follow, with one exception: a process started again within the second of
   its event file empties it (tracker.rs:78 appends, tensorboard.rs:76 creates). *)
FlushedStays ==
  [][\A s \in Sinks : Kept(s) \subseteq Kept(s)' \/ (s = "tensorboard" /\ ~up /\ up' /\ event' = event)]_vars

(* The fan-out mirrors by prefix: what a sink took, every sink before it took
   too, and an accepted emission is one that every sink took.  An emission that
   failed may be in the first sink all the same (facade.rs, MetricFanout). *)
MirroredByPrefix ==
  /\ took[order[2]] \subseteq took[order[1]]
  /\ accepted \subseteq took[order[2]]

(* A shutdown that returns Ok loses no record that its process was told it had
   emitted, except the one line glued to half a line an earlier crash left. *)
ShutdownKeeps ==
  (~up /\ closed = "ok") =>
    \A s \in Sinks, n \in accepted : n > life => n \in Kept(s) \cup AfterHalf(FileOf(s))

(* The fast metrics are emitted again only a cadence after they were last
   emitted entirely, unless a call of emit_due failed in between: a failure after
   the fast metrics repeats them at the next call.  Only a batch of the fast
   metrics has two records or more (system.rs: record_emit after both families). *)
SamplesAreSpaced ==
  [][(count' >= count + 2 /\ sampled.fast # Never) =>
       refused \/ clock - sampled.fast >= FastCadence]_vars

(* What the facade says of a record is true of the sinks: mirrored up to the sink
   that failed, lost by a crash up to a buffer, and kept by a shutdown. *)
RecordsAreKept == LossIsBounded /\ MirroredByPrefix /\ ShutdownKeeps
=============================================================================
