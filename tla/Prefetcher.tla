----------------------------- MODULE Prefetcher -----------------------------
(***************************************************************************)
(* One epoch of the multi-worker prefetcher of lewm-data/src/prefetch.rs:  *)
(* Prefetcher::new, run_worker, try_next and Drop.  Workers on Tokio's     *)
(* blocking pool claim chunks of the shuffled index list from a shared     *)
(* cursor, read their samples, collate them and send the batch into a      *)
(* bounded channel that the training loop reads.                           *)
(*                                                                         *)
(* A sample is its position in the shuffled list; the shuffle is a         *)
(* permutation, so distinct positions are distinct samples.  Any read and  *)
(* any collation may fail.                                                 *)
(***************************************************************************)
EXTENDS Integers, Sequences, FiniteSets

CONSTANTS
  Workers,         \* num_workers blocking-pool jobs
  Samples,         \* dataset length
  BatchSize,       \* samples per batch
  ChannelCapacity, \* batches buffered
  FatalErrors      \* FATAL_CONSECUTIVE_ERRORS

ASSUME PrefetchAssumption ==
  /\ IsFiniteSet(Workers) /\ Workers # {}
  /\ Samples \in Nat \ {0}
  /\ BatchSize \in Nat \ {0}
  /\ ChannelCapacity \in Nat \ {0}
  /\ FatalErrors \in Nat \ {0}

Positions == 0..(Samples - 1)
Fatal == {}                       \* PrefetchMessage::Fatal; a batch is not empty

VARIABLES
  cursor,     \* the shared AtomicUsize
  pc,         \* pc[w]: where worker w is
  next, end,  \* next[w], end[w]: its chunk still to read is next .. end - 1
  samples,    \* samples[w]: what it read of the chunk
  errors,     \* errors[w]: consecutive_errors
  queue,      \* the bounded channel: batches and Fatal
  rxOpen,     \* FALSE once the receiver is dropped
  stop,       \* the AtomicBool
  done,       \* done messages sent by finishing workers
  owner,      \* the Prefetcher's owner: "run", then the steps of Drop
  joined,     \* done messages Drop has received
  result,     \* what the last try_next returned
  delivered,  \* every sample try_next has handed out
  fatalSeen,  \* TRUE once try_next has returned an error
  failed      \* every position whose read failed

channel == <<queue, rxOpen>>
worker == <<cursor, pc, next, end, samples, errors, done, failed>>
consumer == <<owner, joined, result, delivered, fatalSeen, stop>>
vars == <<channel, worker, consumer>>

WorkerStates ==
  {"queued", "check", "claim", "index", "get", "collate", "send", "fatal", "exit", "done"}

TypeOK ==
  /\ cursor \in Nat
  /\ pc \in [Workers -> WorkerStates]
  /\ next \in [Workers -> 0..Samples]
  /\ end \in [Workers -> 0..Samples]
  /\ samples \in [Workers -> SUBSET Positions]
  /\ errors \in [Workers -> Nat]
  /\ queue \in Seq(SUBSET Positions)
  /\ rxOpen \in BOOLEAN
  /\ stop \in BOOLEAN
  /\ done \in Nat
  /\ owner \in {"run", "drop_rx", "join", "dropped"}
  /\ joined \in Nat
  /\ result \in {"none_yet", "batch", "fatal", "end"}
  /\ delivered \subseteq Positions
  /\ fatalSeen \in BOOLEAN
  /\ failed \subseteq Positions

Init ==
  /\ cursor = 0
  /\ pc = [w \in Workers |-> "queued"]
  /\ next = [w \in Workers |-> 0] /\ end = [w \in Workers |-> 0]
  /\ samples = [w \in Workers |-> {}]
  /\ errors = [w \in Workers |-> 0]
  /\ queue = << >> /\ rxOpen = TRUE
  /\ stop = FALSE
  /\ done = 0 /\ joined = 0
  /\ owner = "run"
  /\ result = "none_yet"
  /\ delivered = {} /\ fatalSeen = FALSE
  /\ failed = {}

Goto(w, state) == pc' = [pc EXCEPT ![w] = state]

-----------------------------------------------------------------------------
(* run_worker *)

\* The blocking pool gives the job a thread.
Start(w) ==
  /\ pc[w] = "queued"
  /\ Goto(w, "check")
  /\ UNCHANGED <<cursor, next, end, samples, errors, done, failed, channel, consumer>>

\* while !stop.load()
CheckStop(w) ==
  /\ pc[w] = "check"
  /\ Goto(w, IF stop THEN "exit" ELSE "claim")
  /\ UNCHANGED <<cursor, next, end, samples, errors, done, failed, channel, consumer>>

(* Deviations the properties must catch; no specification uses them.       *)

\* The cursor is read and advanced by one sample only.
ClaimOverlapping(w) ==
  /\ pc[w] = "claim"
  /\ cursor' = cursor + 1
  /\ IF cursor >= Samples
     THEN Goto(w, "exit") /\ UNCHANGED <<next, end>>
     ELSE /\ Goto(w, "index")
          /\ next' = [next EXCEPT ![w] = cursor]
          /\ end' = [end EXCEPT ![w] =
               IF cursor + BatchSize <= Samples THEN cursor + BatchSize ELSE Samples]
  /\ UNCHANGED <<samples, errors, done, failed, channel, consumer>>

\* consecutive_errors does not move.
ReadFailsUncounted(w) ==
  /\ pc[w] = "get"
  /\ failed' = failed \union {next[w]}
  /\ next' = [next EXCEPT ![w] = @ + 1]
  /\ Goto(w, "index")
  /\ UNCHANGED <<cursor, end, samples, errors, done, channel, consumer>>

\* A failed collation is passed over in silence.
CollateFailsSilently(w) ==
  /\ pc[w] = "collate" /\ samples[w] # {}
  /\ Goto(w, "check")
  /\ samples' = [samples EXCEPT ![w] = {}]
  /\ UNCHANGED <<cursor, next, end, errors, done, failed, channel, consumer>>

\* Drop joins the workers while the channel is still open.
DropRxForgotten ==
  /\ owner = "run"
  /\ owner' = "drop_rx"
  /\ UNCHANGED <<joined, result, delivered, fatalSeen, stop, channel, worker>>

-----------------------------------------------------------------------------
(* run_worker, continued *)

\* cursor.fetch_add: the next chunk, cut at the end of the list.
Claim(w) ==
  /\ pc[w] = "claim"
  /\ cursor' = cursor + BatchSize
  /\ IF cursor >= Samples
     THEN Goto(w, "exit") /\ UNCHANGED <<next, end>>
     ELSE /\ Goto(w, "index")
          /\ next' = [next EXCEPT ![w] = cursor]
          /\ end' = [end EXCEPT ![w] =
               IF cursor + BatchSize <= Samples THEN cursor + BatchSize ELSE Samples]
  /\ UNCHANGED <<samples, errors, done, failed, channel, consumer>>

\* The next index of the chunk, unless stop was set or the chunk is read.
NextIndex(w) ==
  /\ pc[w] = "index"
  /\ Goto(w, IF next[w] = end[w] \/ stop THEN "collate" ELSE "get")
  /\ UNCHANGED <<cursor, next, end, samples, errors, done, failed, channel, consumer>>

\* dataset.get succeeds.
Read(w) ==
  /\ pc[w] = "get"
  /\ samples' = [samples EXCEPT ![w] = @ \union {next[w]}]
  /\ errors' = [errors EXCEPT ![w] = 0]
  /\ next' = [next EXCEPT ![w] = @ + 1]
  /\ Goto(w, "index")
  /\ UNCHANGED <<cursor, end, done, failed, channel, consumer>>

\* dataset.get fails: the sample is left out, and the second failure in a row
\* gives up the whole chunk.
ReadFails(w) ==
  /\ pc[w] = "get"
  /\ failed' = failed \union {next[w]}
  /\ errors' = [errors EXCEPT ![w] = @ + 1]
  /\ next' = [next EXCEPT ![w] = @ + 1]
  /\ IF errors[w] + 1 >= FatalErrors
     THEN Goto(w, "fatal") /\ samples' = [samples EXCEPT ![w] = {}]
     ELSE Goto(w, "index") /\ UNCHANGED samples
  /\ UNCHANGED <<cursor, end, done, channel, consumer>>

\* Nothing to collate: on to the next chunk.
CollateNothing(w) ==
  /\ pc[w] = "collate" /\ samples[w] = {}
  /\ Goto(w, "check")
  /\ UNCHANGED <<cursor, next, end, samples, errors, done, failed, channel, consumer>>

Collate(w) ==
  /\ pc[w] = "collate" /\ samples[w] # {}
  /\ Goto(w, "send")
  /\ UNCHANGED <<cursor, next, end, samples, errors, done, failed, channel, consumer>>

CollateFails(w) ==
  /\ pc[w] = "collate" /\ samples[w] # {}
  /\ Goto(w, "fatal")
  /\ samples' = [samples EXCEPT ![w] = {}]
  /\ UNCHANGED <<cursor, next, end, errors, done, failed, channel, consumer>>

\* tx.send waits for room ...
HasRoom == rxOpen /\ Len(queue) < ChannelCapacity

Send(w) ==
  /\ pc[w] = "send" /\ HasRoom
  /\ queue' = Append(queue, samples[w])
  /\ samples' = [samples EXCEPT ![w] = {}]
  /\ Goto(w, "check")
  /\ UNCHANGED <<cursor, next, end, errors, done, failed, rxOpen, consumer>>

\* ... and fails once the receiver is gone.
SendFails(w) ==
  /\ pc[w] = "send" /\ ~rxOpen
  /\ samples' = [samples EXCEPT ![w] = {}]
  /\ Goto(w, "exit")
  /\ UNCHANGED <<cursor, next, end, errors, done, failed, channel, consumer>>

SendFatal(w) ==
  /\ pc[w] = "fatal"
  /\ \/ HasRoom /\ queue' = Append(queue, Fatal)
     \/ ~rxOpen /\ UNCHANGED queue
  /\ Goto(w, "exit")
  /\ UNCHANGED <<cursor, next, end, samples, errors, done, failed, rxOpen, consumer>>

\* done_tx.send has room for every worker; then both senders are dropped.
Exit(w) ==
  /\ pc[w] = "exit"
  /\ done' = done + 1
  /\ Goto(w, "done")
  /\ UNCHANGED <<cursor, next, end, samples, errors, failed, channel, consumer>>

Work(w) ==
  \/ Start(w) \/ CheckStop(w) \/ Claim(w) \/ NextIndex(w) \/ Read(w) \/ ReadFails(w)
  \/ CollateNothing(w) \/ Collate(w) \/ CollateFails(w)
  \/ Send(w) \/ SendFails(w) \/ SendFatal(w) \/ Exit(w)

-----------------------------------------------------------------------------
(* The owner of the Prefetcher. *)

Receive ==
  /\ owner = "run" /\ queue # << >>
  /\ queue' = Tail(queue)
  /\ UNCHANGED rxOpen

\* try_next returns a batch ...
TryNextBatch ==
  /\ Receive /\ Head(queue) # Fatal
  /\ delivered' = delivered \union Head(queue)
  /\ result' = "batch"
  /\ UNCHANGED <<worker, owner, joined, fatalSeen, stop>>

\* ... or the error of a worker, which Iterator::next logs and turns into None ...
TryNextFatal ==
  /\ Receive /\ Head(queue) = Fatal
  /\ result' = "fatal" /\ fatalSeen' = TRUE
  /\ UNCHANGED <<worker, owner, joined, delivered, stop>>

\* ... or Ok(None), once the channel is empty and every worker dropped its
\* sender.
TryNextEnd ==
  /\ owner = "run" /\ queue = << >> /\ result # "end"
  /\ \A w \in Workers : pc[w] = "done"
  /\ result' = "end"
  /\ UNCHANGED <<channel, worker, owner, joined, delivered, fatalSeen, stop>>

\* Dropping the Prefetcher drops its fields in order: the receiver first, which
\* discards what is buffered and wakes blocked senders, ...
DropRx ==
  /\ owner = "run"
  /\ owner' = "drop_rx"
  /\ rxOpen' = FALSE /\ queue' = << >>
  /\ UNCHANGED <<worker, joined, result, delivered, fatalSeen, stop>>

\* ... then the handle: the flag, ...
DropSetsStop ==
  /\ owner = "drop_rx"
  /\ stop' = TRUE
  /\ owner' = "join"
  /\ UNCHANGED <<channel, worker, joined, result, delivered, fatalSeen>>

\* ... and up to worker_count done messages.
DropJoins ==
  /\ owner = "join" /\ joined < done
  /\ joined' = joined + 1
  /\ owner' = IF joined + 1 = Cardinality(Workers) THEN "dropped" ELSE "join"
  /\ UNCHANGED <<channel, worker, result, delivered, fatalSeen, stop>>

\* A worker that takes longer than WORKER_SHUTDOWN_TIMEOUT is left behind.
DropTimesOut ==
  /\ owner = "join" /\ joined = done
  /\ owner' = "dropped"
  /\ UNCHANGED <<channel, worker, joined, result, delivered, fatalSeen, stop>>

TryNext == TryNextBatch \/ TryNextFatal \/ TryNextEnd
Drop == DropRx \/ DropSetsStop \/ DropJoins \/ DropTimesOut

\* The prefetcher is dropped and no worker is left.
Finished ==
  /\ owner = "dropped" /\ \A w \in Workers : pc[w] = "done"
  /\ UNCHANGED vars

Next == (\E w \in Workers : Work(w)) \/ TryNext \/ Drop \/ Finished

Spec == Init /\ [][Next]_vars

\* The blocking pool (512 threads by default) runs every worker, the training
\* loop keeps calling try_next, and Drop runs to its end.  Nothing obliges the
\* owner to drop the prefetcher.
Fairness ==
  /\ \A w \in Workers : WF_vars(Work(w))
  /\ WF_vars(TryNext)
  /\ WF_vars(DropSetsStop) /\ WF_vars(DropJoins \/ DropTimesOut)

LiveSpec == Spec /\ Fairness

-----------------------------------------------------------------------------
(* Properties. *)

\* However the workers interleave, no sample of the epoch is in two places: a
\* batch in the channel shares none with another one, with what was delivered
\* before, or with what a worker still holds.
NoSampleTwice ==
  /\ \A i \in 1..Len(queue) : queue[i] \intersect delivered = {}
  /\ \A i, j \in 1..Len(queue) : i # j => queue[i] \intersect queue[j] = {}
  /\ \A w \in Workers : /\ samples[w] \intersect delivered = {}
                        /\ \A i \in 1..Len(queue) : samples[w] \intersect queue[i] = {}
  /\ \A v, w \in Workers : v # w => samples[v] \intersect samples[w] = {}

\* When try_next ends the epoch and never returned an error, every sample was
\* delivered but for those whose own read failed.
EpochAccounted ==
  (result = "end" /\ ~fatalSeen) => delivered \union failed = Positions

\* Without an error, failures pass in silence only one at a time: never
\* FatalErrors neighbours of one batch.
SilentLossIsIsolated ==
  (result = "end" /\ ~fatalSeen) =>
    \A p \in Positions :
      ((p % BatchSize) + FatalErrors <= BatchSize /\ p + FatalErrors <= Samples) =>
        ~(p .. (p + FatalErrors - 1) \subseteq failed)

\* If the owner does not drop it, the epoch ends for it: no mix of full
\* channels, failures and finished workers leaves try_next waiting forever.
EpochEnds == <>(result = "end" \/ owner # "run")

\* Dropping the prefetcher at any moment ends every worker, those blocked on a
\* full channel and those not yet started included.
DropEndsWorkers == (owner # "run") ~> (\A w \in Workers : pc[w] = "done")

\* Neither the consumer nor a worker waits forever.
NobodyWaitsForever == EpochEnds /\ DropEndsWorkers

-----------------------------------------------------------------------------
(* The inductive invariant behind NoSampleTwice and EpochAccounted. *)

\* What worker w has claimed and not yet sent.
Held(w) == samples[w] \union (next[w] .. (end[w] - 1))

\* A worker reads its chunk from the left, inside what the cursor has passed.
ChunksInOrder ==
  \A w \in Workers :
    /\ next[w] <= end[w] /\ end[w] <= cursor
    /\ \A p \in samples[w] : p < next[w]
    /\ pc[w] = "get" => next[w] < end[w]
    /\ pc[w] \notin {"index", "get", "collate", "send"} => samples[w] = {}

\* What was claimed is in one place, and behind the cursor.
Disjoint ==
  /\ \A v, w \in Workers : v # w => Held(v) \intersect Held(w) = {}
  /\ \A w \in Workers : Held(w) \intersect delivered = {}
  /\ \A w \in Workers, i \in 1..Len(queue) : Held(w) \intersect queue[i] = {}
  /\ \A i \in 1..Len(queue) : queue[i] \intersect delivered = {}
  /\ \A i, j \in 1..Len(queue) : i # j => queue[i] \intersect queue[j] = {}
  /\ \A p \in delivered : p < cursor
  /\ \A i \in 1..Len(queue) : \A p \in queue[i] : p < cursor

\* No worker has met a fatal error that try_next has not yet returned.
NoFatal ==
  /\ ~fatalSeen
  /\ \A i \in 1..Len(queue) : queue[i] # Fatal
  /\ \A w \in Workers : pc[w] # "fatal"

\* Until an error or the drop, what was claimed is somewhere, an idle worker
\* holds nothing, and a worker ends only at the end of the list.
AllAccounted ==
  (owner = "run" /\ NoFatal) =>
    /\ \A p \in Positions : p < cursor =>
         \/ p \in delivered \union failed
         \/ \E i \in 1..Len(queue) : p \in queue[i]
         \/ \E w \in Workers : p \in Held(w)
    /\ \A w \in Workers :
         /\ pc[w] \notin {"index", "get"} => next[w] = end[w]
         /\ pc[w] \in {"exit", "done"} => cursor >= Samples

Running == owner = "run" => rxOpen /\ ~stop

IInv ==
  /\ TypeOK /\ ChunksInOrder /\ Disjoint /\ AllAccounted /\ Running /\ EpochAccounted
=============================================================================
