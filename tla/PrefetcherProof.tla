--------------------------- MODULE PrefetcherProof ---------------------------
(***************************************************************************)
(* Proofs about Prefetcher, for every set of workers, dataset length,      *)
(* batch size and channel capacity.                                        *)
(***************************************************************************)
EXTENDS Prefetcher, TLAPS

LEMMA Numbers ==
  /\ Samples \in Nat /\ Samples > 0 /\ BatchSize \in Nat /\ BatchSize > 0
  /\ FatalErrors \in Nat /\ FatalErrors > 0
  /\ Workers # {}
BY PrefetchAssumption

LEMMA PositionsAreInt == \A p \in Positions : p \in Int /\ 0 <= p /\ p < Samples
BY Numbers DEF Positions

\* What a channel holds after a send and after a receive.
LEMMA Appended ==
  ASSUME NEW S, NEW q \in Seq(S), NEW x \in S
  PROVE  /\ Append(q, x) \in Seq(S) /\ Len(Append(q, x)) = Len(q) + 1
         /\ Len(q) \in Nat
         /\ \A i \in 1..(Len(q) + 1) : Append(q, x)[i] = IF i <= Len(q) THEN q[i] ELSE x
OBVIOUS

LEMMA Taken ==
  ASSUME NEW S, NEW q \in Seq(S), q # << >>
  PROVE  /\ Tail(q) \in Seq(S) /\ Len(Tail(q)) = Len(q) - 1
         /\ Len(q) \in Nat /\ Len(q) >= 1 /\ Head(q) = q[1] /\ Head(q) \in S
         /\ \A i \in 1..(Len(q) - 1) : Tail(q)[i] = q[i + 1]
OBVIOUS

LEMMA InitIInv == Init => IInv
<1> SUFFICES ASSUME Init PROVE IInv
  OBVIOUS
<1>1. TypeOK
  <2>1. /\ cursor \in Nat /\ done \in Nat /\ joined \in Nat
        /\ queue \in Seq(SUBSET Positions)
        /\ delivered \subseteq Positions /\ failed \subseteq Positions
        /\ owner = "run" /\ result = "none_yet"
    BY DEF Init
  <2>2. rxOpen \in BOOLEAN /\ stop \in BOOLEAN /\ fatalSeen \in BOOLEAN
    BY DEF Init
  <2>3. 0 \in 0..Samples
    BY Numbers
  <2>4. /\ pc \in [Workers -> WorkerStates] /\ next \in [Workers -> 0..Samples]
        /\ end \in [Workers -> 0..Samples] /\ samples \in [Workers -> SUBSET Positions]
        /\ errors \in [Workers -> Nat]
    BY <2>3 DEF Init, WorkerStates
  <2> QED BY <2>1, <2>2, <2>4 DEF TypeOK
<1>2. \A w \in Workers : next[w] = 0 /\ end[w] = 0 /\ samples[w] = {} /\ pc[w] = "queued"
  BY DEF Init
<1>3. \A w \in Workers : Held(w) = {}
  BY <1>2 DEF Held
<1>4. Len(queue) = 0 /\ cursor = 0 /\ delivered = {} /\ failed = {}
  BY DEF Init
<1>5. ChunksInOrder /\ Disjoint
  BY <1>2, <1>3, <1>4 DEF ChunksInOrder, Disjoint
<1>6. AllAccounted
  <2>1. \A p \in Positions : ~(p < cursor)
    BY <1>4, PositionsAreInt
  <2> QED BY <1>2, <2>1 DEF AllAccounted
<1>7. Running /\ EpochAccounted
  BY DEF Init, Running, EpochAccounted
<1> QED BY <1>1, <1>5, <1>6, <1>7 DEF IInv

-----------------------------------------------------------------------------
(* Type correctness. *)

\* A position that is read next is a position of the epoch.
LEMMA NextIsPosition ==
  ASSUME TypeOK, ChunksInOrder, NEW w \in Workers, pc[w] = "get"
  PROVE  next[w] \in Positions /\ next[w] + 1 \in 0..Samples
BY Numbers DEF TypeOK, ChunksInOrder, Positions

LEMMA NextTypeOK == IInv /\ [Next]_vars => TypeOK'
<1> SUFFICES ASSUME IInv, [Next]_vars PROVE TypeOK'
  OBVIOUS
<1>a. TypeOK /\ ChunksInOrder
  BY DEF IInv
<1> USE DEF channel, worker, consumer
<1>1. ASSUME NEW w \in Workers, Work(w)
      PROVE  TypeOK'
  <2>1. pc' \in [Workers -> WorkerStates]
    BY <1>a, <1>1 DEF TypeOK, Work, Start, CheckStop, Claim, NextIndex, Read, ReadFails,
         CollateNothing, Collate, CollateFails, Send, SendFails, SendFatal, Exit,
         Goto, WorkerStates
  <2>2. CASE Start(w) \/ CheckStop(w) \/ NextIndex(w) \/ CollateNothing(w) \/ Collate(w)
    BY <1>a, <2>1, <2>2 DEF TypeOK, Start, CheckStop, NextIndex, CollateNothing, Collate
  <2>3. CASE Claim(w)
    <3>1. cursor' \in Nat
      BY <1>a, <2>3, Numbers DEF TypeOK, Claim
    <3>2. next' \in [Workers -> 0..Samples] /\ end' \in [Workers -> 0..Samples]
      <4>1. CASE cursor >= Samples
        BY <1>a, <2>3, <4>1 DEF TypeOK, Claim
      <4>2. CASE ~(cursor >= Samples)
        <5>1. cursor \in 0..Samples
          BY <1>a, <4>2, Numbers DEF TypeOK
        <5>2. (IF cursor + BatchSize <= Samples THEN cursor + BatchSize ELSE Samples) \in 0..Samples
          BY <5>1, Numbers
        <5> QED BY <1>a, <2>3, <4>2, <5>1, <5>2 DEF TypeOK, Claim
      <4> QED BY <4>1, <4>2
    <3> QED BY <1>a, <2>1, <2>3, <3>1, <3>2 DEF TypeOK, Claim
  <2>4. CASE Read(w)
    BY <1>a, <2>1, <2>4, NextIsPosition DEF TypeOK, Read
  <2>5. CASE ReadFails(w)
    <3>1. samples' \in [Workers -> SUBSET Positions]
      BY <1>a, <2>5 DEF TypeOK, ReadFails
    <3>2. next[w] \in Positions /\ next[w] + 1 \in 0..Samples
      BY <1>a, <2>5, NextIsPosition DEF ReadFails
    <3>3. next' \in [Workers -> 0..Samples] /\ failed' \subseteq Positions
      BY <1>a, <2>5, <3>2 DEF TypeOK, ReadFails
    <3>4. errors' \in [Workers -> Nat]
      BY <1>a, <2>5 DEF TypeOK, ReadFails
    <3> QED BY <1>a, <2>1, <2>5, <3>1, <3>3, <3>4 DEF TypeOK, ReadFails
  <2>6. CASE CollateFails(w) \/ SendFails(w)
    BY <1>a, <2>1, <2>6 DEF TypeOK, CollateFails, SendFails
  <2>7. CASE Send(w)
    BY <1>a, <2>1, <2>7, Appended DEF TypeOK, Send
  <2>8. CASE SendFatal(w)
    <3>1. queue' \in Seq(SUBSET Positions)
      <4>1. queue' = Append(queue, Fatal) \/ queue' = queue
        BY <2>8 DEF SendFatal
      <4>2. queue \in Seq(SUBSET Positions) /\ Fatal \in SUBSET Positions
        BY <1>a DEF TypeOK, Fatal
      <4> QED BY <4>1, <4>2, Appended
    <3> QED BY <1>a, <2>1, <2>8, <3>1 DEF TypeOK, SendFatal
  <2>9. CASE Exit(w)
    BY <1>a, <2>1, <2>9 DEF TypeOK, Exit
  <2> QED BY <1>1, <2>2, <2>3, <2>4, <2>5, <2>6, <2>7, <2>8, <2>9 DEF Work
<1>2. CASE TryNextBatch \/ TryNextFatal
  <2>1. queue' \in Seq(SUBSET Positions) /\ Head(queue) \subseteq Positions
    <3>1. queue \in Seq(SUBSET Positions) /\ queue # << >> /\ queue' = Tail(queue)
      BY <1>a, <1>2 DEF TypeOK, TryNextBatch, TryNextFatal, Receive
    <3> QED BY <3>1, Taken
  <2>2. fatalSeen' \in BOOLEAN /\ delivered' \subseteq Positions
    BY <1>a, <1>2, <2>1 DEF TypeOK, TryNextBatch, TryNextFatal
  <2> QED BY <1>a, <1>2, <2>1, <2>2 DEF TypeOK, TryNextBatch, TryNextFatal, Receive
<1>3. CASE TryNextEnd
  BY <1>a, <1>3 DEF TypeOK, TryNextEnd
<1>4. CASE DropRx
  <2>1. queue' \in Seq(SUBSET Positions) /\ owner' = "drop_rx"
    BY <1>4 DEF DropRx
  <2>2. rxOpen' \in BOOLEAN
    BY <1>4 DEF DropRx
  <2> QED BY <1>a, <1>4, <2>1, <2>2 DEF TypeOK, DropRx
<1>7. CASE DropSetsStop
  BY <1>a, <1>7 DEF TypeOK, DropSetsStop
<1>8. CASE DropTimesOut
  BY <1>a, <1>8 DEF TypeOK, DropTimesOut
<1>5. CASE DropJoins
  BY <1>a, <1>5 DEF TypeOK, DropJoins
<1>6. CASE Finished \/ UNCHANGED vars
  BY <1>a, <1>6 DEF TypeOK, Finished, vars
<1> QED BY <1>1, <1>2, <1>3, <1>4, <1>5, <1>6, <1>7, <1>8 DEF Next, TryNext, Drop

-----------------------------------------------------------------------------
(* Chunks. *)

LEMMA NextChunksInOrder == IInv /\ [Next]_vars => ChunksInOrder'
<1> SUFFICES ASSUME IInv, [Next]_vars, NEW v \in Workers
             PROVE  /\ next'[v] <= end'[v] /\ end'[v] <= cursor'
                    /\ \A p \in samples'[v] : p < next'[v]
                    /\ pc'[v] = "get" => next'[v] < end'[v]
                    /\ pc'[v] \notin {"index", "get", "collate", "send"} => samples'[v] = {}
  BY DEF ChunksInOrder
<1> USE DEF channel, worker, consumer
<1>a. TypeOK /\ ChunksInOrder
  BY DEF IInv
<1>b. /\ next[v] \in Int /\ end[v] \in Int /\ cursor \in Nat
      /\ \A p \in samples[v] : p \in Int
  BY <1>a, PositionsAreInt DEF TypeOK
<1>c. /\ next[v] <= end[v] /\ end[v] <= cursor
      /\ \A p \in samples[v] : p < next[v]
      /\ pc[v] = "get" => next[v] < end[v]
      /\ pc[v] \notin {"index", "get", "collate", "send"} => samples[v] = {}
  BY <1>a DEF ChunksInOrder
<1>1. ASSUME NEW w \in Workers, Start(w) \/ CheckStop(w) \/ CollateNothing(w) \/ Collate(w) \/ Exit(w)
      PROVE  /\ UNCHANGED <<next, end, cursor, samples>>
             /\ v # w => pc'[v] = pc[v]
             /\ pc'[w] \in {"check", "exit", "claim", "send", "done"}
             /\ pc[w] \in {"queued", "check", "collate", "exit"}
             /\ pc'[w] # "send" => samples[w] = {}
  <2>1. UNCHANGED <<next, end, cursor, samples>>
    BY <1>1 DEF Start, CheckStop, CollateNothing, Collate, Exit
  <2>2. v # w => pc'[v] = pc[v]
    BY <1>a, <1>1 DEF Start, CheckStop, CollateNothing, Collate, Exit, Goto, TypeOK
  <2>3. pc'[w] \in {"check", "exit", "claim", "send", "done"} /\ pc[w] \in {"queued", "check", "collate", "exit"}
    BY <1>a, <1>1 DEF Start, CheckStop, CollateNothing, Collate, Exit, Goto, TypeOK
  <2>4. pc'[w] # "send" => samples[w] = {}
    BY <1>a, <1>1 DEF Start, CheckStop, CollateNothing, Collate, Exit, Goto, TypeOK, ChunksInOrder
  <2> QED BY <2>1, <2>2, <2>3, <2>4
<1>2. ASSUME NEW w \in Workers,
             Start(w) \/ CheckStop(w) \/ CollateNothing(w) \/ Collate(w) \/ Exit(w)
      PROVE  /\ next'[v] <= end'[v] /\ end'[v] <= cursor'
             /\ \A p \in samples'[v] : p < next'[v]
             /\ pc'[v] = "get" => next'[v] < end'[v]
             /\ pc'[v] \notin {"index", "get", "collate", "send"} => samples'[v] = {}
  BY <1>1, <1>2, <1>c
<1>3. ASSUME NEW w \in Workers, Claim(w)
      PROVE  /\ next'[v] <= end'[v] /\ end'[v] <= cursor'
             /\ \A p \in samples'[v] : p < next'[v]
             /\ pc'[v] = "get" => next'[v] < end'[v]
             /\ pc'[v] \notin {"index", "get", "collate", "send"} => samples'[v] = {}
  <2>1. cursor' = cursor + BatchSize /\ samples' = samples /\ pc[w] = "claim"
    BY <1>3 DEF Claim
  <2>2. CASE v # w
    <3>1. pc'[v] = pc[v] /\ next'[v] = next[v] /\ end'[v] = end[v]
      BY <1>a, <1>3, <2>2 DEF Claim, Goto, TypeOK
    <3> QED BY <1>b, <1>c, <2>1, <3>1, Numbers
  <2>3. CASE v = w /\ cursor >= Samples
    <3>1. pc'[v] = "exit" /\ next'[v] = next[v] /\ end'[v] = end[v] /\ samples[v] = {}
      BY <1>a, <1>c, <1>3, <2>1, <2>3 DEF Claim, Goto, TypeOK
    <3> QED BY <1>b, <1>c, <2>1, <3>1, Numbers
  <2>4. CASE v = w /\ ~(cursor >= Samples)
    <3>1. pc'[v] = "index" /\ next'[v] = cursor /\ samples[v] = {}
      BY <1>a, <1>c, <1>3, <2>1, <2>4 DEF Claim, Goto, TypeOK
    <3>2. end'[v] = IF cursor + BatchSize <= Samples THEN cursor + BatchSize ELSE Samples
      BY <1>a, <1>3, <2>4 DEF Claim, TypeOK
    <3> QED BY <1>b, <2>1, <2>4, <3>1, <3>2, Numbers
  <2> QED BY <2>2, <2>3, <2>4
<1>4. ASSUME NEW w \in Workers, NextIndex(w)
      PROVE  /\ next'[v] <= end'[v] /\ end'[v] <= cursor'
             /\ \A p \in samples'[v] : p < next'[v]
             /\ pc'[v] = "get" => next'[v] < end'[v]
             /\ pc'[v] \notin {"index", "get", "collate", "send"} => samples'[v] = {}
  <2>1. UNCHANGED <<next, end, cursor, samples>>
    BY <1>4 DEF NextIndex
  <2>2. v # w => pc'[v] = pc[v]
    BY <1>a, <1>4 DEF NextIndex, Goto, TypeOK
  <2>3. pc'[w] \in {"collate", "get"} /\ (pc'[w] = "get" => next[w] # end[w])
    BY <1>a, <1>4 DEF NextIndex, Goto, TypeOK
  <2> QED BY <1>b, <1>c, <2>1, <2>2, <2>3
<1>5. ASSUME NEW w \in Workers, Read(w) \/ ReadFails(w)
      PROVE  /\ next'[v] <= end'[v] /\ end'[v] <= cursor'
             /\ \A p \in samples'[v] : p < next'[v]
             /\ pc'[v] = "get" => next'[v] < end'[v]
             /\ pc'[v] \notin {"index", "get", "collate", "send"} => samples'[v] = {}
  <2>1. UNCHANGED <<end, cursor>> /\ pc[w] = "get"
    BY <1>5 DEF Read, ReadFails
  <2>2. v # w => pc'[v] = pc[v] /\ next'[v] = next[v] /\ samples'[v] = samples[v]
    BY <1>a, <1>5 DEF Read, ReadFails, Goto, TypeOK
  <2>3. pc'[w] \in {"index", "fatal"} /\ next'[w] = next[w] + 1
    BY <1>a, <1>5 DEF Read, ReadFails, Goto, TypeOK
  <2>4. samples'[w] \subseteq samples[w] \union {next[w]}
    BY <1>a, <1>5 DEF Read, ReadFails, TypeOK
  <2>5. pc'[w] = "fatal" => samples'[w] = {}
    BY <1>a, <1>5 DEF Read, ReadFails, Goto, TypeOK
  <2> QED BY <1>b, <1>c, <2>1, <2>2, <2>3, <2>4, <2>5
<1>6. ASSUME NEW w \in Workers, CollateFails(w) \/ Send(w) \/ SendFails(w) \/ SendFatal(w)
      PROVE  /\ next'[v] <= end'[v] /\ end'[v] <= cursor'
             /\ \A p \in samples'[v] : p < next'[v]
             /\ pc'[v] = "get" => next'[v] < end'[v]
             /\ pc'[v] \notin {"index", "get", "collate", "send"} => samples'[v] = {}
  <2>1. UNCHANGED <<next, end, cursor>>
    BY <1>6 DEF CollateFails, Send, SendFails, SendFatal
  <2>2. v # w => pc'[v] = pc[v] /\ samples'[v] = samples[v]
    BY <1>a, <1>6 DEF CollateFails, Send, SendFails, SendFatal, Goto, TypeOK
  <2>3. pc'[w] \in {"fatal", "check", "exit"}
    BY <1>a, <1>6 DEF CollateFails, Send, SendFails, SendFatal, Goto, TypeOK
  <2>4. samples'[w] = {}
    BY <1>a, <1>6 DEF CollateFails, Send, SendFails, SendFatal, TypeOK, ChunksInOrder
  <2> QED BY <1>b, <1>c, <2>1, <2>2, <2>3, <2>4
<1>7. CASE UNCHANGED worker
  BY <1>7, <1>c
<1> QED
  BY <1>2, <1>3, <1>4, <1>5, <1>6, <1>7
  DEF Next, Work, TryNext, TryNextBatch, TryNextFatal, TryNextEnd, Drop, DropRx,
      DropSetsStop, DropJoins, DropTimesOut, Finished, vars

-----------------------------------------------------------------------------
(* No position is in two places. *)

\* What a worker holds lies behind the cursor, and what it has read is not what
\* it still has to read.
LEMMA HeldIsClaimed ==
  ASSUME TypeOK, ChunksInOrder, NEW w \in Workers
  PROVE  /\ \A p \in Held(w) : p \in Int /\ p < cursor
         /\ samples[w] \intersect (next[w] .. (end[w] - 1)) = {}
<1>1. /\ next[w] \in Int /\ end[w] \in Int /\ cursor \in Int
      /\ \A p \in samples[w] : p \in Int
  BY PositionsAreInt, Numbers DEF TypeOK
<1>2. next[w] <= end[w] /\ end[w] <= cursor /\ \A p \in samples[w] : p < next[w]
  BY DEF ChunksInOrder
<1> QED BY <1>1, <1>2 DEF Held

\* A step that hands nothing over, and after which nobody holds more.
LEMMA HeldShrinks ==
  ASSUME TypeOK, Disjoint, \A w \in Workers : Held(w)' \subseteq Held(w),
         queue' = queue, delivered' = delivered, cursor' = cursor
  PROVE  Disjoint'
<1>1. \A v, w \in Workers : v # w => Held(v)' \intersect Held(w)' = {}
  BY DEF Disjoint
<1>2. \A w \in Workers : Held(w)' \intersect delivered' = {}
  BY DEF Disjoint
<1>3. \A w \in Workers, i \in 1..Len(queue') : Held(w)' \intersect queue'[i] = {}
  BY DEF Disjoint
<1> QED BY <1>1, <1>2, <1>3 DEF Disjoint

\* A batch, possibly empty, moves from its holder to the end of the channel.
LEMMA BatchIsSent ==
  ASSUME TypeOK, Disjoint, NEW w \in Workers, NEW b \in SUBSET Positions,
         b \subseteq Held(w), b \intersect Held(w)' = {}, \A p \in b : p < cursor,
         \A v \in Workers : Held(v)' \subseteq Held(v),
         queue' = Append(queue, b), delivered' = delivered, cursor' = cursor
  PROVE  Disjoint'
<1>1. /\ Len(queue) \in Nat /\ Len(queue') = Len(queue) + 1
      /\ \A i \in 1..(Len(queue) + 1) : queue'[i] = IF i <= Len(queue) THEN queue[i] ELSE b
  BY Appended DEF TypeOK
<1>2. /\ \A i \in 1..Len(queue') : i \in 1..Len(queue) \/ i = Len(queue) + 1
      /\ \A i \in 1..Len(queue) : queue'[i] = queue[i]
      /\ queue'[Len(queue) + 1] = b
  BY <1>1
<1>3. \A v, u \in Workers : v # u => Held(v)' \intersect Held(u)' = {}
  BY DEF Disjoint
<1>4. \A v \in Workers : Held(v)' \intersect delivered' = {}
  BY DEF Disjoint
<1>5. \A v \in Workers, i \in 1..Len(queue') : Held(v)' \intersect queue'[i] = {}
  <2> SUFFICES ASSUME NEW v \in Workers, NEW i \in 1..Len(queue')
               PROVE  Held(v)' \intersect queue'[i] = {}
    OBVIOUS
  <2>1. CASE i \in 1..Len(queue)
    BY <1>2, <2>1 DEF Disjoint
  <2>2. CASE i = Len(queue) + 1
    <3>1. v # w => Held(v) \intersect Held(w) = {}
      BY DEF Disjoint
    <3>2. Held(v)' \intersect b = {}
      BY <3>1
    <3> QED BY <1>2, <2>2, <3>2
  <2> QED BY <1>2, <2>1, <2>2
<1>6. \A i \in 1..Len(queue') : queue'[i] \intersect delivered' = {}
  <2>1. b \intersect delivered = {}
    BY DEF Disjoint
  <2>2. \A i \in 1..Len(queue) : queue[i] \intersect delivered = {}
    BY DEF Disjoint
  <2> QED BY <1>2, <2>1, <2>2
<1>7. \A i, j \in 1..Len(queue') : i # j => queue'[i] \intersect queue'[j] = {}
  <2>1. \A i \in 1..Len(queue) : queue[i] \intersect b = {}
    BY DEF Disjoint
  <2>2. \A i, j \in 1..Len(queue) : i # j => queue[i] \intersect queue[j] = {}
    BY DEF Disjoint
  <2> QED BY <1>2, <2>1, <2>2
<1>8. /\ \A p \in delivered' : p < cursor'
      /\ \A i \in 1..Len(queue') : \A p \in queue'[i] : p < cursor'
  <2>1. /\ \A p \in delivered : p < cursor
        /\ \A i \in 1..Len(queue) : \A p \in queue[i] : p < cursor
    BY DEF Disjoint
  <2> QED BY <1>2, <2>1
<1> QED BY <1>3, <1>4, <1>5, <1>6, <1>7, <1>8 DEF Disjoint

\* The consumer takes the first batch, and delivers it or drops it.
LEMMA BatchIsTaken ==
  ASSUME TypeOK, Disjoint, queue # << >>, queue' = Tail(queue),
         delivered' = delivered \union Head(queue) \/ delivered' = delivered,
         UNCHANGED worker
  PROVE  Disjoint'
<1>1. /\ Len(queue) \in Nat /\ Len(queue) >= 1 /\ Head(queue) = queue[1]
      /\ Len(queue') = Len(queue) - 1
      /\ \A i \in 1..(Len(queue) - 1) : queue'[i] = queue[i + 1]
  BY Taken DEF TypeOK
<1>2. /\ \A i \in 1..Len(queue') : i + 1 \in 1..Len(queue) /\ i + 1 # 1 /\ queue'[i] = queue[i + 1]
      /\ \A i, j \in 1..Len(queue') : i # j => i + 1 # j + 1
      /\ 1 \in 1..Len(queue)
  BY <1>1
<1>3. \A w \in Workers : Held(w)' = Held(w)
  BY DEF Held, worker
<1>4. \A v, w \in Workers : v # w => Held(v)' \intersect Held(w)' = {}
  BY <1>3 DEF Disjoint
<1>5. \A w \in Workers : Held(w) \intersect delivered = {} /\ Held(w) \intersect queue[1] = {}
  BY <1>2 DEF Disjoint
<1>6. \A w \in Workers : Held(w)' \intersect delivered' = {}
  BY <1>1, <1>3, <1>5
<1>7. \A w \in Workers, i \in 1..Len(queue') : Held(w)' \intersect queue'[i] = {}
  <2>1. \A w \in Workers, i \in 1..Len(queue) : Held(w) \intersect queue[i] = {}
    BY DEF Disjoint
  <2> QED BY <1>2, <1>3, <2>1
<1>8. \A i \in 1..Len(queue') : queue'[i] \intersect delivered' = {}
  <2>1. \A i \in 1..Len(queue) : queue[i] \intersect delivered = {}
    BY DEF Disjoint
  <2>2. \A i \in 1..Len(queue) : i # 1 => queue[i] \intersect queue[1] = {}
    BY <1>2 DEF Disjoint
  <2> QED BY <1>1, <1>2, <2>1, <2>2
<1>9. \A i, j \in 1..Len(queue') : i # j => queue'[i] \intersect queue'[j] = {}
  <2>1. \A i, j \in 1..Len(queue) : i # j => queue[i] \intersect queue[j] = {}
    BY DEF Disjoint
  <2> QED BY <1>2, <2>1
<1>10. /\ \A p \in delivered' : p < cursor'
       /\ \A i \in 1..Len(queue') : \A p \in queue'[i] : p < cursor'
  <2>1. /\ \A p \in delivered : p < cursor
        /\ \A i \in 1..Len(queue) : \A p \in queue[i] : p < cursor
        /\ cursor' = cursor
    BY DEF Disjoint, worker
  <2> QED BY <1>1, <1>2, <2>1
<1> QED BY <1>4, <1>6, <1>7, <1>8, <1>9, <1>10 DEF Disjoint

\* A claim takes what lies from the cursor on; all else lies before it.
LEMMA ChunkIsClaimed ==
  ASSUME TypeOK, ChunksInOrder, Disjoint, NEW w \in Workers, Claim(w)
  PROVE  Disjoint'
<1> USE DEF channel, consumer
<1>1. queue' = queue /\ delivered' = delivered /\ cursor' = cursor + BatchSize
      /\ samples' = samples /\ cursor \in Int /\ BatchSize \in Int /\ BatchSize > 0
  BY Numbers DEF Claim, TypeOK
<1>2. \A v \in Workers : v # w => Held(v)' = Held(v)
  BY DEF Claim, Held, TypeOK
<1>3. \A p \in Held(w)' : p \in Held(w) \/ p \in cursor .. (cursor + BatchSize - 1)
  <2>1. CASE cursor >= Samples
    BY <2>1 DEF Claim, Held
  <2>2. CASE ~(cursor >= Samples)
    <3>1. samples[w] = {} /\ pc[w] = "claim"
      BY DEF Claim, ChunksInOrder
    <3>2. next'[w] = cursor
      BY <2>2 DEF Claim, TypeOK
    <3>3. end'[w] \in Int /\ end'[w] <= cursor + BatchSize
      <4>1. end'[w] = IF cursor + BatchSize <= Samples THEN cursor + BatchSize ELSE Samples
        BY <2>2 DEF Claim, TypeOK
      <4> QED BY <1>1, <4>1, Numbers
    <3>4. Held(w)' = cursor .. (end'[w] - 1)
      BY <1>1, <3>1, <3>2 DEF Held
    <3> QED BY <1>1, <3>3, <3>4
  <2> QED BY <2>1, <2>2
<1>4. /\ \A v \in Workers : \A p \in Held(v) : p \in Int /\ p < cursor
      /\ \A p \in delivered : p \in Int /\ p < cursor
      /\ \A i \in 1..Len(queue) : \A p \in queue[i] : p \in Int /\ p < cursor
  <2>1. \A v \in Workers : \A p \in Held(v) : p \in Int /\ p < cursor
    BY HeldIsClaimed
  <2>2. \A p \in delivered : p \in Int /\ p < cursor
    BY PositionsAreInt DEF Disjoint, TypeOK
  <2>3. \A i \in 1..Len(queue) : queue[i] \subseteq Positions
    BY DEF TypeOK
  <2> QED BY <2>1, <2>2, <2>3, PositionsAreInt DEF Disjoint
<1>5. \A v, u \in Workers : v # u => Held(v)' \intersect Held(u)' = {}
  <2> SUFFICES ASSUME NEW v \in Workers, NEW u \in Workers, v # u, NEW p,
                      p \in Held(v)', p \in Held(u)'
               PROVE  FALSE
    OBVIOUS
  <2>1. Held(v) \intersect Held(u) = {}
    BY DEF Disjoint
  <2>2. CASE v # w /\ u # w
    BY <1>2, <2>1, <2>2
  <2>3. CASE v = w
    BY <1>1, <1>2, <1>3, <1>4, <2>1, <2>3
  <2>4. CASE u = w
    BY <1>1, <1>2, <1>3, <1>4, <2>1, <2>4
  <2> QED BY <2>2, <2>3, <2>4
<1>6. \A v \in Workers : Held(v)' \intersect delivered' = {}
  <2>1. \A v \in Workers : Held(v) \intersect delivered = {}
    BY DEF Disjoint
  <2> QED BY <1>1, <1>2, <1>3, <1>4, <2>1
<1>7. \A v \in Workers, i \in 1..Len(queue') : Held(v)' \intersect queue'[i] = {}
  <2>1. \A v \in Workers, i \in 1..Len(queue) : Held(v) \intersect queue[i] = {}
    BY DEF Disjoint
  <2> QED BY <1>1, <1>2, <1>3, <1>4, <2>1
<1>8. /\ \A i \in 1..Len(queue') : queue'[i] \intersect delivered' = {}
      /\ \A i, j \in 1..Len(queue') : i # j => queue'[i] \intersect queue'[j] = {}
  BY <1>1 DEF Disjoint
<1>9. /\ \A p \in delivered' : p < cursor'
      /\ \A i \in 1..Len(queue') : \A p \in queue'[i] : p < cursor'
  BY <1>1, <1>4
<1> QED BY <1>5, <1>6, <1>7, <1>8, <1>9 DEF Disjoint

LEMMA NextDisjoint == IInv /\ [Next]_vars => Disjoint'
<1> SUFFICES ASSUME IInv, [Next]_vars PROVE Disjoint'
  OBVIOUS
<1> USE DEF channel, consumer
<1>a. TypeOK /\ ChunksInOrder /\ Disjoint
  BY DEF IInv
<1>1. ASSUME NEW w \in Workers, Work(w)
      PROVE  Disjoint'
  <2>1. CASE Start(w) \/ CheckStop(w) \/ NextIndex(w) \/ CollateNothing(w) \/ Collate(w) \/ Exit(w)
    <3>1. UNCHANGED <<next, end, samples, queue, delivered, cursor>>
      BY <2>1 DEF Start, CheckStop, NextIndex, CollateNothing, Collate, Exit
    <3>2. \A v \in Workers : Held(v)' \subseteq Held(v)
      BY <3>1 DEF Held
    <3> QED BY <1>a, <3>1, <3>2, HeldShrinks
  <2>2. CASE Claim(w)
    BY <1>a, <2>2, ChunkIsClaimed
  <2>3. CASE Read(w) \/ ReadFails(w)
    <3>1. UNCHANGED <<end, queue, delivered, cursor>> /\ pc[w] = "get"
      BY <2>3 DEF Read, ReadFails
    <3>2. \A v \in Workers : v # w => next'[v] = next[v] /\ samples'[v] = samples[v]
      BY <1>a, <2>3 DEF Read, ReadFails, TypeOK
    <3>3. next'[w] = next[w] + 1 /\ samples'[w] \subseteq samples[w] \union {next[w]}
      BY <1>a, <2>3 DEF Read, ReadFails, TypeOK
    <3>4. next[w] \in Int /\ end[w] \in Int /\ next[w] < end[w]
      BY <1>a, <3>1, Numbers DEF TypeOK, ChunksInOrder
    <3>5. Held(w)' \subseteq Held(w)
      BY <3>1, <3>3, <3>4 DEF Held
    <3>6. \A v \in Workers : Held(v)' \subseteq Held(v)
      BY <3>1, <3>2, <3>5 DEF Held
    <3> QED BY <1>a, <3>1, <3>6, HeldShrinks
  <2>4. CASE CollateFails(w) \/ SendFails(w)
    <3>1. UNCHANGED <<next, end, queue, delivered, cursor>>
      BY <2>4 DEF CollateFails, SendFails
    <3>2. \A v \in Workers : samples'[v] \subseteq samples[v]
      BY <1>a, <2>4 DEF CollateFails, SendFails, TypeOK
    <3>3. \A v \in Workers : Held(v)' \subseteq Held(v)
      BY <3>1, <3>2 DEF Held
    <3> QED BY <1>a, <3>1, <3>3, HeldShrinks
  <2>5. CASE Send(w)
    <3>1. UNCHANGED <<next, end, delivered, cursor>> /\ queue' = Append(queue, samples[w])
      BY <2>5 DEF Send
    <3>2. \A v \in Workers : samples'[v] \subseteq samples[v]
      BY <1>a, <2>5 DEF Send, TypeOK
    <3>3. samples'[w] = {} /\ samples[w] \in SUBSET Positions
      BY <1>a, <2>5 DEF Send, TypeOK
    <3>4. \A v \in Workers : Held(v)' \subseteq Held(v)
      BY <3>1, <3>2 DEF Held
    <3>5. samples[w] \subseteq Held(w) /\ samples[w] \intersect Held(w)' = {}
      BY <1>a, <3>1, <3>3, HeldIsClaimed DEF Held
    <3>6. \A p \in samples[w] : p < cursor
      BY <1>a, <3>5, HeldIsClaimed
    <3> QED BY <1>a, <3>1, <3>3, <3>4, <3>5, <3>6, BatchIsSent
  <2>6. CASE SendFatal(w)
    <3>1. UNCHANGED <<next, end, samples, delivered, cursor>>
      BY <2>6 DEF SendFatal
    <3>2. \A v \in Workers : Held(v)' \subseteq Held(v)
      BY <3>1 DEF Held
    <3>3. queue' = Append(queue, {}) \/ queue' = queue
      BY <2>6 DEF SendFatal, Fatal
    <3>4. CASE queue' = Append(queue, {})
      BY <1>a, <3>1, <3>2, <3>4, BatchIsSent
    <3>5. CASE queue' = queue
      BY <1>a, <3>1, <3>2, <3>5, HeldShrinks
    <3> QED BY <3>3, <3>4, <3>5
  <2> QED BY <1>1, <2>1, <2>2, <2>3, <2>4, <2>5, <2>6 DEF Work
<1>2. CASE TryNextBatch \/ TryNextFatal
  <2>1. /\ queue # << >> /\ queue' = Tail(queue) /\ UNCHANGED worker
        /\ delivered' = delivered \union Head(queue) \/ delivered' = delivered
    BY <1>2 DEF TryNextBatch, TryNextFatal, Receive
  <2> QED BY <1>a, <2>1, BatchIsTaken
<1>3. CASE DropRx
  <2>1. Len(queue') = 0 /\ delivered' = delivered /\ UNCHANGED worker
    BY <1>3 DEF DropRx
  <2>2. \A w \in Workers : Held(w)' = Held(w)
    BY <2>1 DEF Held, worker
  <2>3. cursor' = cursor
    BY <2>1 DEF worker
  <2> QED BY <1>a, <2>1, <2>2, <2>3 DEF Disjoint
<1>4. CASE TryNextEnd \/ DropSetsStop \/ DropJoins \/ DropTimesOut \/ Finished \/ UNCHANGED vars
  <2>1. UNCHANGED <<next, end, samples, queue, delivered, cursor>>
    BY <1>4 DEF TryNextEnd, DropSetsStop, DropJoins, DropTimesOut, Finished, vars, worker
  <2>2. \A v \in Workers : Held(v)' \subseteq Held(v)
    BY <2>1 DEF Held
  <2> QED BY <1>a, <2>1, <2>2, HeldShrinks
<1> QED BY <1>1, <1>2, <1>3, <1>4 DEF Next, TryNext, Drop

LEMMA NextRunning == IInv /\ [Next]_vars => Running'
<1> SUFFICES ASSUME IInv, [Next]_vars PROVE Running'
  OBVIOUS
<1>1. CASE UNCHANGED <<owner, rxOpen, stop>>
  BY <1>1 DEF IInv, Running
<1>2. CASE Drop
  BY <1>2 DEF Drop, DropRx, DropSetsStop, DropJoins, DropTimesOut, Running
<1> QED
  BY <1>1, <1>2
  DEF Next, Work, Start, CheckStop, Claim, NextIndex, Read, ReadFails, CollateNothing,
      Collate, CollateFails, Send, SendFails, SendFatal, Exit, TryNext, TryNextBatch,
      TryNextFatal, TryNextEnd, Receive, Finished, vars, channel, consumer

-----------------------------------------------------------------------------
(* Nothing claimed is lost. *)

\* A fatal error is not forgotten while the owner keeps the prefetcher.
LEMMA FatalStays ==
  ASSUME IInv, [Next]_vars, owner' = "run", NoFatal'
  PROVE  owner = "run" /\ NoFatal
<1> USE DEF channel, consumer
<1>a. TypeOK /\ Running
  BY DEF IInv
<1>b. owner = "run"
  BY DEF Next, Work, Start, CheckStop, Claim, NextIndex, Read, ReadFails, CollateNothing,
         Collate, CollateFails, Send, SendFails, SendFatal, Exit, TryNext, TryNextBatch,
         TryNextFatal, TryNextEnd, Drop, DropRx, DropSetsStop, DropJoins, DropTimesOut,
         Finished, vars
<1>c. /\ ~fatalSeen'
      /\ \A i \in 1..Len(queue') : queue'[i] # Fatal
      /\ \A w \in Workers : pc'[w] # "fatal"
  BY DEF NoFatal
<1>1. ASSUME NEW w \in Workers, Work(w)
      PROVE  NoFatal
  <2>1. fatalSeen' = fatalSeen
    BY <1>1 DEF Work, Start, CheckStop, Claim, NextIndex, Read, ReadFails, CollateNothing,
         Collate, CollateFails, Send, SendFails, SendFatal, Exit
  <2>2. queue' = queue \/ queue' = Append(queue, samples[w]) \/ queue' = Append(queue, Fatal)
    BY <1>1 DEF Work, Start, CheckStop, Claim, NextIndex, Read, ReadFails, CollateNothing,
         Collate, CollateFails, Send, SendFails, SendFatal, Exit
  <2>3. \A i \in 1..Len(queue) : queue[i] # Fatal
    <3>1. samples[w] \in SUBSET Positions /\ Fatal \in SUBSET Positions
      BY <1>a DEF TypeOK, Fatal
    <3>2. queue \in Seq(SUBSET Positions)
      BY <1>a DEF TypeOK
    <3>3. ASSUME NEW b \in SUBSET Positions, queue' = Append(queue, b), NEW i \in 1..Len(queue)
          PROVE  queue[i] # Fatal
      <4>1. i \in 1..Len(queue') /\ queue'[i] = queue[i]
        BY <3>2, <3>3, Appended
      <4> QED BY <1>c, <4>1
    <3> QED BY <1>c, <2>2, <3>1, <3>3
  <2>4. \A v \in Workers : pc[v] # "fatal"
    <3>1. ASSUME pc[w] = "fatal" PROVE FALSE
      <4>1. SendFatal(w)
        BY <1>1, <3>1 DEF Work, Start, CheckStop, Claim, NextIndex, Read, ReadFails,
             CollateNothing, Collate, CollateFails, Send, SendFails, Exit
      <4>2. queue' = Append(queue, Fatal)
        BY <1>a, <1>b, <4>1 DEF SendFatal, Running
      <4>3. queue \in Seq(SUBSET Positions) /\ Fatal \in SUBSET Positions
        BY <1>a DEF TypeOK, Fatal
      <4>4. Len(queue) + 1 \in 1..Len(queue') /\ queue'[Len(queue) + 1] = Fatal
        BY <4>2, <4>3, Appended
      <4> QED BY <1>c, <4>4
    <3>2. \A v \in Workers : v # w => pc'[v] = pc[v]
      BY <1>a, <1>1 DEF Work, Start, CheckStop, Claim, NextIndex, Read, ReadFails,
           CollateNothing, Collate, CollateFails, Send, SendFails, SendFatal, Exit, Goto, TypeOK
    <3> QED BY <1>c, <3>1, <3>2
  <2> QED BY <1>c, <2>1, <2>3, <2>4 DEF NoFatal
<1>2. CASE TryNextFatal
  BY <1>2, <1>c DEF TryNextFatal
<1>3. CASE TryNextBatch
  <2>1. /\ queue # << >> /\ queue' = Tail(queue) /\ Head(queue) # Fatal
        /\ pc' = pc /\ fatalSeen' = fatalSeen
    BY <1>3 DEF TryNextBatch, Receive, worker
  <2>2. queue \in Seq(SUBSET Positions)
    BY <1>a DEF TypeOK
  <2>3. /\ Len(queue) \in Nat /\ Head(queue) = queue[1] /\ Len(queue') = Len(queue) - 1
        /\ \A i \in 1..(Len(queue) - 1) : queue'[i] = queue[i + 1]
    BY <2>1, <2>2, Taken
  <2>4. ASSUME NEW i \in 1..Len(queue) PROVE queue[i] # Fatal
    <3>1. CASE i = 1
      BY <2>1, <2>3, <3>1
    <3>2. CASE i # 1
      <4>1. i - 1 \in 1..(Len(queue) - 1) /\ (i - 1) + 1 = i
        BY <2>3, <3>2
      <4> QED BY <1>c, <2>3, <4>1
    <3> QED BY <3>1, <3>2
  <2> QED BY <1>b, <1>c, <2>1, <2>4 DEF NoFatal
<1>4. CASE Drop
  BY <1>4 DEF Drop, DropRx, DropSetsStop, DropJoins, DropTimesOut
<1>5. CASE TryNextEnd \/ Finished \/ UNCHANGED vars
  <2>1. UNCHANGED <<queue, pc, fatalSeen>>
    BY <1>5 DEF TryNextEnd, Finished, vars, worker
  <2> QED BY <1>b, <1>c, <2>1 DEF NoFatal
<1> QED BY <1>b, <1>1, <1>2, <1>3, <1>4, <1>5 DEF Next, TryNext

\* Where a claimed position is, for AllAccounted.
Accounted(p) ==
  \/ p \in delivered \union failed
  \/ \E i \in 1..Len(queue) : p \in queue[i]
  \/ \E w \in Workers : p \in Held(w)

\* A worker keeps, or reads with success or in vain, what it held; it sends what
\* it gives up.
LEMMA NextPositionsAccounted ==
  ASSUME IInv, [Next]_vars, owner' = "run", NoFatal', NEW p \in Positions, p < cursor'
  PROVE  Accounted(p)'
<1> USE DEF channel, consumer
<1>a. TypeOK /\ ChunksInOrder /\ Running
  BY DEF IInv
<1>b. owner = "run" /\ NoFatal
  BY FatalStays
<1>c. /\ p < cursor => Accounted(p)
      /\ \A w \in Workers : pc[w] \notin {"index", "get"} => next[w] = end[w]
  BY <1>b DEF IInv, AllAccounted, Accounted
<1>d. p \in Int /\ 0 <= p /\ p < Samples /\ cursor \in Int /\ queue \in Seq(SUBSET Positions)
  BY <1>a, PositionsAreInt DEF TypeOK
\* Steps that take nothing away.
<1>e. ASSUME p < cursor, queue' = queue, delivered \subseteq delivered',
             failed \subseteq failed',
             \A w \in Workers : p \in Held(w) => p \in Held(w)' \union failed'
      PROVE  Accounted(p)'
  BY <1>c, <1>e DEF Accounted
<1>1. ASSUME NEW w \in Workers, Work(w)
      PROVE  Accounted(p)'
  <2>1. CASE Start(w) \/ CheckStop(w) \/ NextIndex(w) \/ CollateNothing(w) \/ Collate(w) \/ Exit(w)
    <3>1. UNCHANGED <<next, end, samples, queue, delivered, failed, cursor>>
      BY <2>1 DEF Start, CheckStop, NextIndex, CollateNothing, Collate, Exit
    <3>2. \A v \in Workers : Held(v)' = Held(v)
      BY <3>1 DEF Held
    <3> QED BY <1>e, <3>1, <3>2
  <2>2. CASE Claim(w)
    <3>1. UNCHANGED <<samples, queue, delivered, failed>> /\ cursor' = cursor + BatchSize
      BY <2>2 DEF Claim
    <3>2. next[w] = end[w] /\ end[w] \in Int
      <4>1. pc[w] \notin {"index", "get"}
        BY <2>2 DEF Claim
      <4>2. end[w] \in Int
        BY <1>a, Numbers DEF TypeOK
      <4> QED BY <1>c, <4>1, <4>2
    <3>3. \A v \in Workers : p \in Held(v) => p \in Held(v)'
      <4>1. \A v \in Workers : v # w => next'[v] = next[v] /\ end'[v] = end[v]
        BY <1>a, <2>2 DEF Claim, TypeOK
      <4>2. p \in Held(w) => p \in samples[w]
        BY <1>d, <3>2 DEF Held
      <4> QED BY <3>1, <4>1, <4>2 DEF Held
    <3>4. CASE p < cursor
      BY <1>e, <3>1, <3>3, <3>4
    <3>5. CASE ~(p < cursor)
      <4>1. ~(cursor >= Samples)
        BY <1>d, <3>5, Numbers
      <4>2. next'[w] = cursor
            /\ end'[w] = IF cursor + BatchSize <= Samples THEN cursor + BatchSize ELSE Samples
        BY <1>a, <2>2, <4>1 DEF Claim, TypeOK
      <4>3. p \in next'[w] .. (end'[w] - 1)
        BY <1>d, <3>1, <3>5, <4>2, Numbers
      <4> QED BY <4>3 DEF Accounted, Held
    <3> QED BY <3>4, <3>5
  <2>3. CASE Read(w) \/ ReadFails(w)
    <3>1. UNCHANGED <<end, queue, delivered, cursor>> /\ pc[w] = "get" /\ failed \subseteq failed'
      BY <2>3 DEF Read, ReadFails
    <3>2. \A v \in Workers : v # w => next'[v] = next[v] /\ samples'[v] = samples[v]
      BY <1>a, <2>3 DEF Read, ReadFails, TypeOK
    <3>3. next'[w] = next[w] + 1 /\ next[w] \in Int /\ end[w] \in Int
      BY <1>a, <2>3, Numbers DEF Read, ReadFails, TypeOK
    <3>4. samples[w] \subseteq samples'[w] /\ next[w] \in samples'[w] \union failed'
      <4>1. CASE Read(w)
        BY <1>a, <4>1 DEF Read, TypeOK
      <4>2. CASE ReadFails(w)
        <5>1. pc'[w] # "fatal"
          BY DEF NoFatal
        <5>2. ~(errors[w] + 1 >= FatalErrors)
          BY <1>a, <4>2, <5>1 DEF ReadFails, Goto, TypeOK
        <5> QED BY <4>2, <5>2 DEF ReadFails
      <4> QED BY <2>3, <4>1, <4>2
    <3>5. p \in Held(w) => p \in Held(w)' \union failed'
      BY <1>d, <3>1, <3>3, <3>4 DEF Held
    <3>6. \A v \in Workers : p \in Held(v) => p \in Held(v)' \union failed'
      BY <3>1, <3>2, <3>5 DEF Held
    <3> QED BY <1>e, <3>1, <3>6
  <2>4. CASE CollateFails(w)
    <3>1. pc'[w] = "fatal"
      BY <1>a, <2>4 DEF CollateFails, Goto, TypeOK
    <3> QED BY <3>1 DEF NoFatal
  <2>5. CASE SendFails(w)
    BY <1>a, <1>b, <2>5 DEF SendFails, Running
  <2>6. CASE Send(w)
    <3>1. UNCHANGED <<next, end, delivered, failed, cursor>> /\ queue' = Append(queue, samples[w])
      BY <2>6 DEF Send
    <3>2. next[w] = end[w] /\ end[w] \in Int /\ samples[w] \in SUBSET Positions
      <4>1. pc[w] \notin {"index", "get"}
        BY <2>6 DEF Send
      <4>2. end[w] \in Int /\ samples[w] \in SUBSET Positions
        BY <1>a, Numbers DEF TypeOK
      <4> QED BY <1>c, <4>1, <4>2
    <3>3. \A v \in Workers : v # w => samples'[v] = samples[v]
      BY <1>a, <2>6 DEF Send, TypeOK
    <3>4. /\ Len(queue) \in Nat /\ Len(queue') = Len(queue) + 1
          /\ \A i \in 1..(Len(queue) + 1) : queue'[i] = IF i <= Len(queue) THEN queue[i] ELSE samples[w]
      BY <1>d, <3>1, <3>2, Appended
    <3>5. p \in Held(w) => p \in queue'[Len(queue) + 1]
      BY <1>d, <3>2, <3>4 DEF Held
    <3>6. \A v \in Workers : v # w => Held(v)' = Held(v)
      BY <3>1, <3>3 DEF Held
    <3>7. CASE p \in delivered \union failed
      BY <3>1, <3>7 DEF Accounted
    <3>8. CASE \E i \in 1..Len(queue) : p \in queue[i]
      BY <3>4, <3>8 DEF Accounted
    <3>9. CASE \E v \in Workers : p \in Held(v)
      BY <3>4, <3>5, <3>6, <3>9 DEF Accounted
    <3> QED BY <1>c, <3>1, <3>7, <3>8, <3>9 DEF Accounted
  <2>7. CASE SendFatal(w)
    <3>1. UNCHANGED <<next, end, samples, delivered, failed, cursor>> /\ queue' = Append(queue, Fatal)
      BY <1>a, <1>b, <2>7 DEF SendFatal, Running
    <3>2. Fatal \in SUBSET Positions
      BY DEF Fatal
    <3>3. Len(queue') = Len(queue) + 1 /\ Len(queue) \in Nat /\ queue'[Len(queue) + 1] = Fatal
      BY <1>d, <3>1, <3>2, Appended
    <3> QED BY <3>3 DEF NoFatal
  <2> QED BY <1>1, <2>1, <2>2, <2>3, <2>4, <2>5, <2>6, <2>7 DEF Work
<1>2. CASE TryNextBatch
  <2>1. /\ queue # << >> /\ queue' = Tail(queue) /\ UNCHANGED worker
        /\ delivered' = delivered \union Head(queue)
    BY <1>2 DEF TryNextBatch, Receive
  <2>2. UNCHANGED <<next, end, samples, failed, cursor>>
    BY <2>1 DEF worker
  <2>3. /\ Len(queue) \in Nat /\ Head(queue) = queue[1] /\ Len(queue') = Len(queue) - 1
        /\ \A i \in 1..(Len(queue) - 1) : queue'[i] = queue[i + 1]
    BY <1>d, <2>1, Taken
  <2>4. ASSUME NEW i \in 1..Len(queue), p \in queue[i]
        PROVE  Accounted(p)'
    <3>1. CASE i = 1
      BY <2>1, <2>3, <2>4, <3>1 DEF Accounted
    <3>2. CASE i # 1
      <4>1. i - 1 \in 1..Len(queue') /\ (i - 1) + 1 = i
        BY <2>3, <3>2
      <4>2. p \in queue'[i - 1]
        BY <2>3, <2>4, <4>1
      <4> QED BY <4>1, <4>2 DEF Accounted
    <3> QED BY <3>1, <3>2
  <2>5. \A v \in Workers : Held(v)' = Held(v)
    BY <2>2 DEF Held
  <2> QED BY <1>c, <2>1, <2>2, <2>4, <2>5 DEF Accounted
<1>3. CASE TryNextFatal
  BY <1>3 DEF TryNextFatal, NoFatal
<1>4. CASE Drop
  BY <1>4 DEF Drop, DropRx, DropSetsStop, DropJoins, DropTimesOut
<1>5. CASE TryNextEnd \/ Finished \/ UNCHANGED vars
  <2>1. UNCHANGED <<next, end, samples, queue, delivered, failed, cursor>>
    BY <1>5 DEF TryNextEnd, Finished, vars, worker
  <2>2. \A v \in Workers : Held(v)' = Held(v)
    BY <2>1 DEF Held
  <2> QED BY <1>e, <2>1, <2>2
<1> QED BY <1>1, <1>2, <1>3, <1>4, <1>5 DEF Next, TryNext

\* A worker that is not reading has read its chunk; one that ended found the
\* list at its end.
LEMMA NextWorkersAccounted ==
  ASSUME IInv, [Next]_vars, owner' = "run", NoFatal', NEW v \in Workers
  PROVE  /\ pc'[v] \notin {"index", "get"} => next'[v] = end'[v]
         /\ pc'[v] \in {"exit", "done"} => cursor' >= Samples
<1> USE DEF channel, consumer
<1>a. TypeOK /\ Running
  BY DEF IInv
<1>b. owner = "run" /\ NoFatal
  BY FatalStays
<1>c. /\ pc[v] \notin {"index", "get"} => next[v] = end[v]
      /\ pc[v] \in {"exit", "done"} => cursor >= Samples
  BY <1>b DEF IInv, AllAccounted
<1>d. ~stop /\ rxOpen /\ cursor \in Int
  BY <1>a, <1>b DEF Running, TypeOK
<1>1. ASSUME NEW w \in Workers, Work(w), v # w
      PROVE  UNCHANGED <<pc[v], next[v], end[v]>> /\ (cursor >= Samples => cursor' >= Samples)
  <2>1. UNCHANGED <<pc[v], next[v], end[v]>>
    BY <1>a, <1>1 DEF Work, Start, CheckStop, Claim, NextIndex, Read, ReadFails, CollateNothing,
         Collate, CollateFails, Send, SendFails, SendFatal, Exit, Goto, TypeOK
  <2>2. cursor' = cursor \/ cursor' = cursor + BatchSize
    BY <1>1 DEF Work, Start, CheckStop, Claim, NextIndex, Read, ReadFails, CollateNothing,
         Collate, CollateFails, Send, SendFails, SendFatal, Exit
  <2> QED BY <1>d, <2>1, <2>2, Numbers
<1>2. CASE Start(v) \/ CheckStop(v) \/ CollateNothing(v) \/ Collate(v) \/ Send(v) \/ Exit(v)
  <2>1. UNCHANGED <<next, end, cursor>> /\ pc[v] \notin {"index", "get"}
    BY <1>2 DEF Start, CheckStop, CollateNothing, Collate, Send, Exit
  <2>2. pc'[v] \in {"exit", "done"} => pc[v] \in {"exit", "done"}
    BY <1>a, <1>d, <1>2 DEF Start, CheckStop, CollateNothing, Collate, Send, Exit, Goto, TypeOK
  <2> QED BY <1>c, <2>1, <2>2
<1>3. CASE Claim(v)
  <2>1. cursor' = cursor + BatchSize /\ pc[v] = "claim"
    BY <1>3 DEF Claim
  <2>2. CASE cursor >= Samples
    <3>1. UNCHANGED <<next, end>>
      BY <1>3, <2>2 DEF Claim
    <3> QED BY <1>c, <1>d, <2>1, <2>2, <3>1, Numbers
  <2>3. CASE ~(cursor >= Samples)
    BY <1>a, <1>3, <2>3 DEF Claim, Goto, TypeOK
  <2> QED BY <2>2, <2>3
<1>4. CASE NextIndex(v)
  <2>1. UNCHANGED <<next, end, cursor>>
    BY <1>4 DEF NextIndex
  <2>2. pc'[v] = "get" \/ (pc'[v] = "collate" /\ next[v] = end[v])
    BY <1>a, <1>d, <1>4 DEF NextIndex, Goto, TypeOK
  <2> QED BY <2>1, <2>2
<1>5. CASE Read(v) \/ ReadFails(v)
  <2>1. pc'[v] \in {"index", "fatal"}
    BY <1>a, <1>5 DEF Read, ReadFails, Goto, TypeOK
  <2>2. pc'[v] # "fatal"
    BY DEF NoFatal
  <2> QED BY <2>1, <2>2
<1>6. CASE CollateFails(v) \/ SendFails(v) \/ SendFatal(v)
  <2>1. CASE CollateFails(v)
    <3>1. pc'[v] = "fatal"
      BY <1>a, <2>1 DEF CollateFails, Goto, TypeOK
    <3> QED BY <3>1 DEF NoFatal
  <2>2. CASE SendFails(v)
    BY <1>d, <2>2 DEF SendFails
  <2>3. CASE SendFatal(v)
    BY <1>b, <2>3 DEF SendFatal, NoFatal
  <2> QED BY <1>6, <2>1, <2>2, <2>3
<1>7. CASE UNCHANGED worker
  BY <1>c, <1>7 DEF worker
<1>8. ASSUME NEW w \in Workers, Work(w)
      PROVE  /\ pc'[v] \notin {"index", "get"} => next'[v] = end'[v]
             /\ pc'[v] \in {"exit", "done"} => cursor' >= Samples
  <2>1. CASE v # w
    BY <1>c, <1>1, <1>8, <2>1
  <2>2. CASE v = w
    BY <1>2, <1>3, <1>4, <1>5, <1>6, <1>8, <2>2 DEF Work
  <2> QED BY <2>1, <2>2
<1> QED
  BY <1>7, <1>8 DEF Next, TryNext, TryNextBatch, TryNextFatal, TryNextEnd, Drop, DropRx,
     DropSetsStop, DropJoins, DropTimesOut, Finished, vars

LEMMA NextAllAccounted == IInv /\ [Next]_vars => AllAccounted'
<1> SUFFICES ASSUME IInv, [Next]_vars, owner' = "run", NoFatal'
             PROVE  /\ \A p \in Positions : p < cursor' => Accounted(p)'
                    /\ \A w \in Workers :
                         /\ pc'[w] \notin {"index", "get"} => next'[w] = end'[w]
                         /\ pc'[w] \in {"exit", "done"} => cursor' >= Samples
  BY DEF AllAccounted, Accounted
<1> QED BY NextPositionsAccounted, NextWorkersAccounted

LEMMA NextEpochAccounted == IInv /\ [Next]_vars => EpochAccounted'
<1> SUFFICES ASSUME IInv, [Next]_vars, result' = "end", ~fatalSeen'
             PROVE  delivered' \union failed' = Positions
  BY DEF EpochAccounted
<1> USE DEF channel, consumer
<1>a. TypeOK /\ TypeOK'
  BY NextTypeOK DEF IInv
<1>b. delivered' \union failed' \subseteq Positions
  BY <1>a DEF TypeOK
<1>1. CASE TryNextEnd
  <2>1. /\ owner = "run" /\ queue = << >> /\ \A w \in Workers : pc[w] = "done"
        /\ UNCHANGED <<delivered, failed, fatalSeen>>
    BY <1>1 DEF TryNextEnd, worker
  <2>2. Len(queue) = 0
    BY <2>1
  <2>3. NoFatal
    BY <2>1, <2>2 DEF NoFatal
  <2>4. \A w \in Workers : next[w] = end[w] /\ samples[w] = {} /\ cursor >= Samples
    BY <2>1, <2>3 DEF IInv, AllAccounted, ChunksInOrder
  <2>5. \A w \in Workers : end[w] \in Int
    BY <1>a, Numbers DEF TypeOK
  <2>6. \A w \in Workers : Held(w) = {}
    BY <2>4, <2>5 DEF Held
  <2>7. \A p \in Positions : p < cursor
    <3>1. cursor >= Samples /\ cursor \in Int
      BY <1>a, <2>4, Numbers DEF TypeOK
    <3> QED BY <3>1, PositionsAreInt, Numbers
  <2>8. \A p \in Positions : p \in delivered \union failed
    BY <2>1, <2>2, <2>3, <2>6, <2>7 DEF IInv, AllAccounted
  <2> QED BY <1>b, <2>1, <2>8
<1>2. CASE ~TryNextEnd
  <2>1. /\ result = "end" /\ ~fatalSeen
        /\ delivered \subseteq delivered' /\ failed \subseteq failed'
    BY <1>2 DEF Next, Work, Start, CheckStop, Claim, NextIndex, Read, ReadFails, CollateNothing,
         Collate, CollateFails, Send, SendFails, SendFatal, Exit, TryNext, TryNextBatch,
         TryNextFatal, Drop, DropRx, DropSetsStop, DropJoins, DropTimesOut, Finished, vars, worker
  <2>2. delivered \union failed = Positions
    BY <2>1 DEF IInv, EpochAccounted
  <2> QED BY <1>b, <2>1, <2>2
<1> QED BY <1>1, <1>2

-----------------------------------------------------------------------------
(* Remainders.                                                             *)

LEMMA ModRange ==
  ASSUME NEW b \in Nat \ {0}, NEW p \in Nat
  PROVE  p % b \in 0..(b - 1)
BY SMT

LEMMA ModDiv ==
  ASSUME NEW b \in Int, NEW p \in Int, b > 0
  PROVE  p = b * (p \div b) + (p % b)
BY Z3

LEMMA Division ==
  ASSUME NEW b \in Nat \ {0}, NEW p \in Nat
  PROVE  \E d \in Int : p = b * d + (p % b)
<1>1. p = b * (p \div b) + (p % b)
  BY ModDiv
<1>2. p \div b \in Int
  BY Z3
<1> WITNESS p \div b \in Int
<1> QED BY <1>1

LEMMA Unique ==
  ASSUME NEW b \in Nat \ {0}, NEW c \in Int, NEW d \in Int,
         NEW r \in 0..(b - 1), NEW s \in 0..(b - 1), b * c + r = b * d + s
  PROVE  r = s /\ c = d
BY SMTT(30)

LEMMA ModAdd ==
  ASSUME NEW b \in Nat \ {0}, NEW p \in Nat, NEW k \in Nat, (p % b) + k < b
  PROVE  (p + k) % b = (p % b) + k
<1>1. PICK d \in Int : p = b * d + (p % b)
  BY Division
<1>2. PICK e \in Int : p + k = b * e + ((p + k) % b)
  <2>1. p + k \in Nat
    OBVIOUS
  <2> QED BY <2>1, Division
<1> DEFINE r == p % b
           s == (p + k) % b
<1>3. /\ r \in 0..(b - 1) /\ s \in 0..(b - 1) /\ r + k \in 0..(b - 1)
  BY ModRange
<1>5. p = b * d + r /\ p + k = b * e + s
  BY <1>1, <1>2
<1> HIDE DEF r, s
<1>6. b * d \in Int /\ b * e \in Int
  BY Z3
<1>4. b * d + (r + k) = b * e + s
  BY <1>5, <1>3, <1>6
<1> QED BY <1>3, <1>4, Unique DEF r, s

LEMMA ModNext ==
  ASSUME NEW b \in Nat \ {0}, NEW c \in Nat, c % b = 0
  PROVE  (c + b) % b = 0
<1>1. PICK d \in Int : c = b * d + (c % b)
  BY Division
<1>2. PICK e \in Int : c + b = b * e + ((c + b) % b)
  <2>1. c + b \in Nat
    OBVIOUS
  <2> QED BY <2>1, Division
<1>3. (c + b) % b \in 0..(b - 1) /\ 0 \in 0..(b - 1)
  <2>1. c + b \in Nat
    OBVIOUS
  <2> QED BY <2>1, ModRange
<1>4. b * (d + 1) = b * d + b
  BY Z3
<1>6. b * d \in Int /\ b * e \in Int
  BY Z3
<1>7. c = b * d + 0
  BY <1>1
<1>5. b * (d + 1) + 0 = b * e + ((c + b) % b)
  BY <1>2, <1>4, <1>6, <1>7
<1> QED BY <1>3, <1>5, Unique

LEMMA ModBefore ==
  ASSUME NEW b \in Nat \ {0}, NEW c \in Nat, c % b = 0, NEW p \in Nat, p < c
  PROVE  (p % b) + (c - p) >= b
<1> DEFINE r == p % b
<1>1. PICK d \in Int : c = b * d + (c % b)
  BY Division
<1>2. PICK e \in Int : p = b * e + r
  BY Division
<1>3. r \in 0..(b - 1)
  BY ModRange
<1> HIDE DEF r
<1>4. b * d \in Int /\ b * e \in Int /\ c = b * d
  BY <1>1
<1>5. b * e < b * d
  BY <1>2, <1>3, <1>4
<1>6. b * (d - e) = b * d - b * e /\ b > 0
  BY Z3
<1>7. d - e >= 1
  BY <1>4, <1>5, <1>6, Z3
<1>8. b * (d - e) >= b
  BY <1>6, <1>7, Z3
<1> QED BY <1>2, <1>3, <1>4, <1>6, <1>8 DEF r

-----------------------------------------------------------------------------
(* What is lost in silence.                                                *)

\* p and q are in one chunk of the list, p not after q.
SameChunk(p, q) == p <= q /\ (p % BatchSize) + (q - p) < BatchSize

LEMMA Within ==
  ASSUME NEW p \in Nat, NEW q \in Nat, NEW r \in Nat, SameChunk(p, q), p <= r, r <= q
  PROVE  SameChunk(p, r) /\ SameChunk(r, q)
<1>1. p % BatchSize \in 0..(BatchSize - 1)
  BY ModRange, PrefetchAssumption
<1>2. r - p \in Nat /\ (p % BatchSize) + (r - p) < BatchSize /\ p + (r - p) = r
  BY <1>1, Numbers DEF SameChunk
<1>3. (p + (r - p)) % BatchSize = (p % BatchSize) + (r - p)
  BY <1>2, ModAdd, PrefetchAssumption
<1>4. r % BatchSize = (p % BatchSize) + (r - p)
  BY <1>2, <1>3
<1> QED BY <1>1, <1>2, <1>4, Numbers DEF SameChunk

LEMMA Onward ==
  ASSUME NEW p \in Nat, NEW q \in Nat, NEW r \in Nat, SameChunk(p, q), SameChunk(q, r)
  PROVE  SameChunk(p, r)
<1>1. p % BatchSize \in 0..(BatchSize - 1)
  BY ModRange, PrefetchAssumption
<1>2. q - p \in Nat /\ (p % BatchSize) + (q - p) < BatchSize /\ p + (q - p) = q
  BY <1>1, Numbers DEF SameChunk
<1>3. (p + (q - p)) % BatchSize = (p % BatchSize) + (q - p)
  BY <1>2, ModAdd, PrefetchAssumption
<1>4. q % BatchSize = (p % BatchSize) + (q - p)
  BY <1>2, <1>3
<1> QED BY <1>1, <1>4, Numbers DEF SameChunk

LEMMA ChunkStarts ==
  ASSUME NEW c \in Nat, c % BatchSize = 0, NEW p \in Nat
  PROVE  /\ p < c => ~SameChunk(p, c)
         /\ SameChunk(c, p) <=> c <= p /\ p < c + BatchSize
<1>1. p % BatchSize \in 0..(BatchSize - 1)
  BY ModRange, PrefetchAssumption
<1>2. p < c => (p % BatchSize) + (c - p) >= BatchSize
  BY ModBefore, PrefetchAssumption
<1> QED BY <1>1, <1>2, Numbers DEF SameChunk

\* No run of FatalErrors neighbours of one chunk failed.
NoLongLoss ==
  \A p \in Positions :
    ((p % BatchSize) + FatalErrors <= BatchSize /\ p + FatalErrors <= Samples) =>
      ~(p .. (p + FatalErrors - 1) \subseteq failed)

\* A worker has its chunk to itself, to the end, and counts the failures right
\* behind where it reads.
ChunkReader(w) ==
  next[w] < end[w] =>
    /\ SameChunk(next[w], end[w] - 1)
    /\ \A q \in Positions : SameChunk(next[w], q) => q < end[w]
    /\ \A p \in Positions :
         (p < next[w] /\ SameChunk(p, next[w]) /\ p .. (next[w] - 1) \subseteq failed) =>
           errors[w] >= next[w] - p

LossInv ==
  /\ cursor % BatchSize = 0
  /\ \A q \in failed : q < cursor
  /\ \A w \in Workers : \A q \in next[w] .. (end[w] - 1) : q \notin failed
  /\ \A w \in Workers : ChunkReader(w)
  /\ (owner = "run" /\ NoFatal) => NoLongLoss
  /\ result = "end" => \A w \in Workers : pc[w] = "done"
  /\ result = "end" /\ ~fatalSeen => NoLongLoss

LEMMA InitLossInv == Init => LossInv
<1> SUFFICES ASSUME Init PROVE LossInv
  OBVIOUS
<1>1. /\ cursor = 0 /\ failed = {} /\ result = "none_yet"
      /\ \A w \in Workers : next[w] = 0 /\ end[w] = 0
  BY DEF Init
<1>2. cursor % BatchSize = 0
  BY <1>1, Numbers
<1>3. NoLongLoss
  <2>1. \A p \in Positions : p \in p .. (p + FatalErrors - 1)
    BY PositionsAreInt, Numbers
  <2> QED BY <1>1, <2>1 DEF NoLongLoss
<1>4. \A w \in Workers : ChunkReader(w)
  BY <1>1 DEF ChunkReader
<1> QED BY <1>1, <1>2, <1>3, <1>4 DEF LossInv

\* Steps that read nothing and claim nothing.
LEMMA LossStays ==
  ASSUME IInv, LossInv, [Next]_vars, UNCHANGED <<cursor, next, end, errors, failed>>
  PROVE  /\ cursor' % BatchSize = 0
         /\ \A q \in failed' : q < cursor'
         /\ \A w \in Workers : \A q \in next'[w] .. (end'[w] - 1) : q \notin failed'
         /\ \A w \in Workers : ChunkReader(w)'
         /\ (owner' = "run" /\ NoFatal') => NoLongLoss'
<1>1. \A w \in Workers : ChunkReader(w)'
  BY DEF LossInv, ChunkReader
<1>2. (owner' = "run" /\ NoFatal') => NoLongLoss'
  BY FatalStays DEF LossInv, NoLongLoss
<1> QED BY <1>1, <1>2 DEF LossInv

LEMMA ClaimLoss ==
  ASSUME IInv, LossInv, [Next]_vars, NEW w \in Workers, Claim(w)
  PROVE  /\ cursor' % BatchSize = 0
         /\ \A q \in failed' : q < cursor'
         /\ \A v \in Workers : \A q \in next'[v] .. (end'[v] - 1) : q \notin failed'
         /\ \A v \in Workers : ChunkReader(v)'
         /\ (owner' = "run" /\ NoFatal') => NoLongLoss'
<1>0. /\ TypeOK /\ cursor \in Nat /\ BatchSize \in Nat \ {0} /\ BatchSize > 0 /\ Samples \in Nat
      /\ \A q \in failed : q \in Int /\ q < cursor
  BY Numbers, PositionsAreInt DEF IInv, TypeOK, LossInv
<1>1. cursor' = cursor + BatchSize /\ UNCHANGED <<errors, failed>>
  BY DEF Claim
<1>2. cursor' % BatchSize = 0
  BY <1>0, <1>1, ModNext DEF LossInv
<1>3. \A q \in failed' : q < cursor'
  BY <1>0, <1>1
<1>4. (owner' = "run" /\ NoFatal') => NoLongLoss'
  BY <1>1, FatalStays DEF LossInv, NoLongLoss
<1>5. ASSUME NEW v \in Workers, next'[v] = next[v], end'[v] = end[v]
      PROVE  (\A q \in next'[v] .. (end'[v] - 1) : q \notin failed') /\ ChunkReader(v)'
  BY <1>1, <1>5 DEF LossInv, ChunkReader
<1>6. CASE cursor >= Samples
  BY <1>2, <1>3, <1>4, <1>5, <1>6 DEF Claim
<1>7. CASE ~(cursor >= Samples)
  <2>1. /\ next'[w] = cursor
        /\ end'[w] = IF cursor + BatchSize <= Samples THEN cursor + BatchSize ELSE Samples
        /\ \A v \in Workers : v # w => next'[v] = next[v] /\ end'[v] = end[v]
    BY <1>0, <1>7 DEF Claim, TypeOK
  <2>2. /\ end'[w] \in Nat /\ cursor < end'[w] /\ end'[w] - 1 < cursor + BatchSize
        /\ end'[w] - 1 \in Nat
        /\ \A q \in Positions : q \in Nat /\ (q < cursor + BatchSize => q < end'[w])
    BY <1>0, <1>7, <2>1, PositionsAreInt
  <2>3. \A q \in next'[w] .. (end'[w] - 1) : q \notin failed'
    BY <1>0, <1>1, <2>1, <2>2
  <2>4. cursor % BatchSize = 0
    BY DEF LossInv
  <2>5. SameChunk(cursor, end'[w] - 1)
    BY <1>0, <2>2, <2>4, ChunkStarts
  <2>6. \A q \in Positions : SameChunk(cursor, q) => q < end'[w]
    BY <1>0, <2>2, <2>4, ChunkStarts
  <2>7. \A p \in Positions : p < cursor => ~SameChunk(p, cursor)
    BY <1>0, <2>2, <2>4, ChunkStarts
  <2>8. ChunkReader(w)'
    BY <2>1, <2>5, <2>6, <2>7 DEF ChunkReader, SameChunk
  <2> QED BY <1>2, <1>3, <1>4, <1>5, <2>1, <2>3, <2>8
<1> QED BY <1>6, <1>7

\* A worker moves on in its chunk.
LEMMA ReadLoss ==
  ASSUME IInv, LossInv, [Next]_vars, NEW w \in Workers, Read(w) \/ ReadFails(w)
  PROVE  /\ cursor' % BatchSize = 0
         /\ \A q \in failed' : q < cursor'
         /\ \A v \in Workers : \A q \in next'[v] .. (end'[v] - 1) : q \notin failed'
         /\ \A v \in Workers : ChunkReader(v)'
         /\ (owner' = "run" /\ NoFatal') => NoLongLoss'
<1> DEFINE at == next[w]
<1>0. /\ TypeOK /\ ChunksInOrder /\ Disjoint /\ at \in Positions /\ at \in Nat
      /\ at < end[w] /\ end[w] \in Nat /\ end[w] <= cursor /\ cursor \in Nat
      /\ end[w] - 1 \in Nat /\ end[w] <= Samples
      /\ BatchSize \in Nat \ {0} /\ FatalErrors \in Nat /\ FatalErrors > 0 /\ Samples \in Nat
      /\ \A p \in Positions : p \in Nat /\ p < Samples
      /\ failed \subseteq Positions
  <2>1. TypeOK /\ ChunksInOrder /\ Disjoint /\ pc[w] = "get"
    BY DEF IInv, Read, ReadFails
  <2>2. /\ at \in Positions
    BY <2>1, NextIsPosition
  <2>3. end[w] \in 0..Samples /\ cursor \in Nat /\ failed \subseteq Positions
    BY <2>1 DEF TypeOK
  <2>4. at < end[w] /\ end[w] <= cursor
    BY <2>1 DEF ChunksInOrder
  <2>5. \A p \in Positions : p \in Nat /\ p < Samples
    BY PositionsAreInt
  <2> QED BY <2>1, <2>2, <2>3, <2>4, <2>5, Numbers
<1>1. /\ UNCHANGED <<cursor, end>> /\ next'[w] = at + 1
      /\ \A v \in Workers : v # w => next'[v] = next[v] /\ errors'[v] = errors[v]
  BY <1>0 DEF Read, ReadFails, TypeOK
<1>2. /\ SameChunk(at, end[w] - 1)
      /\ \A q \in Positions : SameChunk(at, q) => q < end[w]
      /\ \A p \in Positions :
           (p < at /\ SameChunk(p, at) /\ p .. (at - 1) \subseteq failed) => errors[w] >= at - p
      /\ \A q \in at .. (end[w] - 1) : q \notin failed
  BY <1>0 DEF LossInv, ChunkReader
<1>3. failed \subseteq failed' /\ failed' \subseteq failed \union {at}
  BY DEF Read, ReadFails
<1>4. \A q \in failed' : q < cursor'
  BY <1>0, <1>1, <1>3 DEF LossInv
<1>5. \A v \in Workers : v # w => at \notin next[v] .. (end[v] - 1)
  <2>1. at \in Held(w)
    BY <1>0 DEF Held
  <2> QED BY <1>0, <2>1 DEF Disjoint, Held
<1>6. \A v \in Workers : \A q \in next'[v] .. (end'[v] - 1) : q \notin failed'
  <2>1. \A q \in next'[w] .. (end'[w] - 1) : q \notin failed'
    BY <1>0, <1>1, <1>2, <1>3
  <2>2. \A v \in Workers : v # w => \A q \in next'[v] .. (end'[v] - 1) : q \notin failed'
    BY <1>1, <1>3, <1>5 DEF LossInv
  <2> QED BY <2>1, <2>2
\* Another reader is in another chunk.
<1>7. ASSUME NEW v \in Workers, v # w PROVE ChunkReader(v)'
  <2>1. SUFFICES ASSUME next[v] < end[v]
        PROVE  /\ SameChunk(next[v], end[v] - 1)
               /\ \A q \in Positions : SameChunk(next[v], q) => q < end[v]
               /\ \A p \in Positions :
                    (p < next[v] /\ SameChunk(p, next[v]) /\ p .. (next[v] - 1) \subseteq failed') =>
                       errors[v] >= next[v] - p
    BY <1>1, <1>7 DEF ChunkReader, SameChunk
  <2>2. /\ SameChunk(next[v], end[v] - 1)
        /\ \A q \in Positions : SameChunk(next[v], q) => q < end[v]
        /\ \A p \in Positions :
             (p < next[v] /\ SameChunk(p, next[v]) /\ p .. (next[v] - 1) \subseteq failed) =>
                errors[v] >= next[v] - p
    BY <2>1 DEF LossInv, ChunkReader
  <2>3. next[v] \in Nat /\ end[v] \in Nat /\ next[v] \in Positions
    BY <1>0, <2>1, Numbers DEF TypeOK, Positions
  <2>4. ASSUME NEW p \in Positions, p < next[v], SameChunk(p, next[v]),
               p .. (next[v] - 1) \subseteq failed'
        PROVE  errors[v] >= next[v] - p
    <3>1. at \notin p .. (next[v] - 1)
      <4>1. SUFFICES ASSUME at \in p .. (next[v] - 1) PROVE FALSE
        OBVIOUS
      <4>2. SameChunk(at, next[v]) /\ at < next[v]
        BY <1>0, <2>3, <2>4, <4>1, Within
      <4>3. next[v] < end[w]
        BY <1>2, <2>3, <4>2
      <4>4. next[v] \in Held(w) /\ next[v] \in Held(v)
        BY <1>0, <2>1, <2>3, <4>2, <4>3 DEF Held
      <4> QED BY <1>0, <1>7, <4>4 DEF Disjoint
    <3>2. p .. (next[v] - 1) \subseteq failed
      BY <1>3, <2>4, <3>1
    <3> QED BY <2>2, <2>4, <3>2
  <2> QED BY <2>2, <2>4
<1>8. ChunkReader(w)'
  <2> DEFINE n == next'[w]
  <2>0. n = at + 1 /\ n - 1 = at /\ end'[w] = end[w]
    BY <1>0, <1>1
  <2>1. SUFFICES ASSUME n < end'[w]
        PROVE  /\ SameChunk(n, end'[w] - 1)
               /\ \A q \in Positions : SameChunk(n, q) => q < end'[w]
               /\ \A p \in Positions :
                    (p < n /\ SameChunk(p, n) /\ p .. (n - 1) \subseteq failed') =>
                       errors'[w] >= n - p
    BY DEF ChunkReader, SameChunk
  <2>6. at + 1 < end[w]
    BY <2>0, <2>1
  <2>2. at + 1 \in Nat /\ SameChunk(at, at + 1) /\ SameChunk(at + 1, end[w] - 1)
    BY <1>0, <1>2, <2>6, Within
  <2>3. ASSUME NEW q \in Positions, SameChunk(at + 1, q) PROVE q < end[w]
    <3>1. SameChunk(at, q)
      BY <1>0, <2>2, <2>3, Onward
    <3> QED BY <1>2, <3>1
  <2>4. ASSUME NEW p \in Positions, p < at + 1, SameChunk(p, at + 1), p .. at \subseteq failed'
        PROVE  errors'[w] >= (at + 1) - p
    <3>1. at \in failed'
      BY <1>0, <2>4
    <3>2. at \notin failed
      BY <1>0, <1>2
    <3>3. ReadFails(w)
      BY <3>1, <3>2 DEF Read
    <3>4. errors'[w] = errors[w] + 1 /\ errors[w] \in Nat
      BY <1>0, <3>3 DEF ReadFails, TypeOK
    <3>5. CASE p = at
      BY <1>0, <3>4, <3>5
    <3>6. CASE p # at
      <4>1. p < at /\ SameChunk(p, at)
        BY <1>0, <2>2, <2>4, <3>6, Within
      <4>2. p .. (at - 1) \subseteq failed
        <5>1. \A q \in p .. (at - 1) : q \in p .. at /\ q # at
          BY <1>0
        <5> QED BY <1>3, <2>4, <5>1
      <4> QED BY <1>0, <1>2, <3>4, <4>1, <4>2
    <3> QED BY <3>5, <3>6
  <2>7. SameChunk(n, end'[w] - 1) /\ \A q \in Positions : SameChunk(n, q) => q < end'[w]
    BY <2>0, <2>2, <2>3
  <2>8. ASSUME NEW p \in Positions, p < n, SameChunk(p, n), p .. (n - 1) \subseteq failed'
        PROVE  errors'[w] >= n - p
    <3> HIDE DEF n
    <3>1. p < at + 1 /\ SameChunk(p, at + 1) /\ p .. at \subseteq failed'
      BY <2>0, <2>8
    <3>2. errors'[w] >= (at + 1) - p
      BY <2>4, <3>1, Zenon
    <3>3. n = at + 1
      BY <2>0
    <3> QED BY <3>2, <3>3, Zenon
  <2> QED BY <2>7, <2>8
<1>9. ASSUME owner' = "run", NoFatal' PROVE NoLongLoss'
  <2>1. NoLongLoss
    BY <1>9, FatalStays DEF LossInv
  <2>2. SUFFICES ASSUME NEW p \in Positions,
                        (p % BatchSize) + FatalErrors <= BatchSize, p + FatalErrors <= Samples,
                        p .. (p + FatalErrors - 1) \subseteq failed'
                 PROVE  FALSE
    BY DEF NoLongLoss
  <2> DEFINE q == p + FatalErrors - 1
  <2>3. p \in Nat /\ q \in Nat /\ q \in Positions /\ SameChunk(p, q)
    <3>1. p % BatchSize \in 0..(BatchSize - 1)
      BY <1>0, ModRange
    <3> QED BY <1>0, <2>2, <3>1 DEF SameChunk, Positions
  <2>4. at \in p .. q /\ at \in failed'
    BY <1>3, <2>1, <2>2 DEF NoLongLoss
  <2>5. ReadFails(w)
    <3>1. at \notin failed
      BY <1>0, <1>2
    <3> QED BY <2>4, <3>1 DEF Read
  <2>6. errors[w] + 1 < FatalErrors /\ errors[w] \in Nat
    <3>1. pc'[w] # "fatal"
      BY <1>9 DEF NoFatal
    <3> QED BY <1>0, <2>5, <3>1 DEF ReadFails, Goto, TypeOK
  <2>7. CASE at = q
    <3>1. p < at
      BY <1>0, <2>3, <2>6, <2>7
    <3>2. p .. (at - 1) \subseteq failed
      <4>1. \A r \in p .. (at - 1) : r \in p .. q /\ r # at
        BY <1>0, <2>3, <2>7
      <4> QED BY <1>3, <2>2, <4>1
    <3>3. errors[w] >= at - p
      BY <1>2, <2>3, <2>7, <3>1, <3>2
    <3> QED BY <1>0, <2>3, <2>6, <2>7, <3>3
  <2>8. CASE at # q
    <3>1. /\ at + 1 \in p .. q /\ at + 1 \in Nat /\ at + 1 # at /\ at + 1 \in Positions
      BY <1>0, <2>3, <2>4, <2>8 DEF Positions
    <3>2. SameChunk(at, q)
      BY <1>0, <2>3, <2>4, Within
    <3>3. SameChunk(at, at + 1)
      BY <1>0, <2>3, <3>1, <3>2, Within
    <3>4. at + 1 < end[w]
      BY <1>2, <3>1, <3>3
    <3>5. at + 1 \notin failed
      BY <1>0, <1>2, <3>1, <3>4
    <3>6. at + 1 \in failed'
      BY <2>2, <3>1
    <3> QED BY <1>3, <3>1, <3>5, <3>6
  <2> QED BY <2>7, <2>8
<1> QED BY <1>1, <1>4, <1>6, <1>7, <1>8, <1>9 DEF LossInv

LEMMA NextLossInv == ASSUME IInv, LossInv, [Next]_vars PROVE LossInv'
<1> USE DEF channel, consumer
<1>a. TypeOK
  BY DEF IInv
<1>1. /\ cursor' % BatchSize = 0
      /\ \A q \in failed' : q < cursor'
      /\ \A w \in Workers : \A q \in next'[w] .. (end'[w] - 1) : q \notin failed'
      /\ \A w \in Workers : ChunkReader(w)'
      /\ (owner' = "run" /\ NoFatal') => NoLongLoss'
  <2>1. CASE UNCHANGED <<cursor, next, end, errors, failed>>
    BY <2>1, LossStays
  <2>2. CASE \E w \in Workers : Claim(w)
    BY <2>2, ClaimLoss
  <2>3. CASE \E w \in Workers : Read(w) \/ ReadFails(w)
    BY <2>3, ReadLoss
  <2> QED
    BY <2>1, <2>2, <2>3 DEF Next, Work, Start, CheckStop, NextIndex, CollateNothing, Collate,
       CollateFails, Send, SendFails, SendFatal, Exit, TryNext, TryNextBatch, TryNextFatal,
       TryNextEnd, Drop, DropRx, DropSetsStop, DropJoins, DropTimesOut, Finished, vars, worker
<1>2. CASE TryNextEnd
  <2>1. /\ owner = "run" /\ queue = << >> /\ \A w \in Workers : pc[w] = "done"
        /\ UNCHANGED <<pc, failed, fatalSeen>>
    BY <1>2 DEF TryNextEnd, worker
  <2>2. Len(queue) = 0
    BY <2>1
  <2>3. ~fatalSeen => NoFatal
    BY <2>1, <2>2 DEF NoFatal
  <2>4. ~fatalSeen => NoLongLoss
    BY <2>1, <2>3 DEF LossInv
  <2> QED BY <1>1, <2>1, <2>4 DEF LossInv, NoLongLoss
<1>3. CASE result' = "end" /\ ~TryNextEnd
  <2>1. result = "end" /\ (fatalSeen => fatalSeen')
    BY <1>3 DEF Next, Work, Start, CheckStop, Claim, NextIndex, Read, ReadFails, CollateNothing,
       Collate, CollateFails, Send, SendFails, SendFatal, Exit, TryNext, TryNextBatch,
       TryNextFatal, Drop, DropRx, DropSetsStop, DropJoins, DropTimesOut, Finished, vars
  <2>2. \A w \in Workers : pc[w] = "done"
    BY <2>1 DEF LossInv
  <2>3. UNCHANGED <<pc, failed>>
    BY <2>2 DEF Next, Work, Start, CheckStop, Claim, NextIndex, Read, ReadFails, CollateNothing,
       Collate, CollateFails, Send, SendFails, SendFatal, Exit, TryNext, TryNextBatch,
       TryNextFatal, TryNextEnd, Drop, DropRx, DropSetsStop, DropJoins, DropTimesOut, Finished,
       vars, worker
  <2> QED BY <1>1, <2>1, <2>2, <2>3 DEF LossInv, NoLongLoss
<1> QED BY <1>1, <1>2, <1>3 DEF LossInv

-----------------------------------------------------------------------------
(* The theorems. *)

\* IInv holds in every reachable state, for every number of workers, dataset
\* length, batch size, channel capacity and failure threshold.
THEOREM InductiveInvariant == Spec => []IInv
<1>1. IInv /\ [Next]_vars => IInv'
  BY NextTypeOK, NextChunksInOrder, NextDisjoint, NextAllAccounted, NextRunning,
     NextEpochAccounted DEF IInv
<1> QED BY InitIInv, <1>1, PTL DEF Spec

\* Cursor, chunks, batches and the channel keep their types, so no worker reads
\* past the end of the shuffled list.
THEOREM TypeCorrect == Spec => []TypeOK
<1>1. IInv => TypeOK
  BY DEF IInv
<1> QED BY InductiveInvariant, <1>1, PTL

\* The lock-free claim hands no sample to two workers, and no sample is
\* delivered twice in an epoch.
THEOREM EachSampleOnce == Spec => []NoSampleTwice
<1>1. IInv => NoSampleTwice
  BY DEF IInv, Disjoint, NoSampleTwice, Held
<1> QED BY InductiveInvariant, <1>1, PTL

\* An epoch that ends without an error has delivered every sample whose read
\* did not fail, whatever mix of workers, failures and full channels it met.
THEOREM EpochIsComplete == Spec => []EpochAccounted
<1>1. IInv => EpochAccounted
  BY DEF IInv
<1> QED BY InductiveInvariant, <1>1, PTL

\* In an epoch that ends without an error, failed reads pass in silence only in
\* runs shorter than FATAL_CONSECUTIVE_ERRORS, for any number of workers and any
\* batch size: the count of a worker cannot miss a run inside its own chunk.
THEOREM LossIsIsolated == Spec => []SilentLossIsIsolated
<1>1. LossInv => SilentLossIsIsolated
  BY DEF LossInv, SilentLossIsIsolated, NoLongLoss
<1>2. IInv /\ LossInv /\ [Next]_vars => LossInv'
  BY NextLossInv
<1> QED BY InductiveInvariant, InitLossInv, <1>1, <1>2, PTL DEF Spec
=============================================================================
