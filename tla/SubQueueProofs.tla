--------------------------- MODULE SubQueueProofs ---------------------------
(***************************************************************************)
(* Proofs about SubQueue, for every requested capacity and any number of   *)
(* pushes: every push is accounted for once, and a size read while both    *)
(* sides go on is one the queue can have.                                  *)
(***************************************************************************)
EXTENDS SubQueue, SpscQueueProofs

-----------------------------------------------------------------------------
(* The queue with its counters runs the ring.                              *)

\* Every behaviour of the queue with its counters and its reader is one of
\* SpscQueue, so that the theorems about the ring hold of it.
THEOREM SubQueueRunsRing == SubQueueSpec => RingSpec
  <1>1. SubQueueInit => RingInit
    BY DEF SubQueueInit
  <1>2. [SubQueueNext]_subQueueVars => [RingNext]_ringVars
    <2> SUFFICES ASSUME [SubQueueNext]_subQueueVars PROVE [RingNext]_ringVars
      OBVIOUS
    <2>1. ASSUME NEW v \in Data, PushCall(v) PROVE RingNext
      BY <2>1 DEF PushCall, RingNext
    <2>2. CASE PushRing
      BY <2>2 DEF PushRing, RingNext
    <2>3. CASE PopRing
      BY <2>3 DEF PopRing, RingNext
    <2>4. CASE UNCHANGED ringVars
      BY <2>4
    <2>5. CASE PushDropped \/ QueryReadIdx \/ QueryWriteIdx \/ QueryPushCount \/ QueryDropCount
      BY <2>4, <2>5
      DEF PushDropped, QueryReadIdx, QueryWriteIdx, QueryPushCount, QueryDropCount
    <2>6. CASE UNCHANGED subQueueVars
      BY <2>4, <2>6 DEF subQueueVars
    <2>7. CASE Delete \/ Create
      BY <2>7 DEF Delete, Create, RingNext
    <2> QED  BY <2>1, <2>2, <2>3, <2>5, <2>6, <2>7 DEF SubQueueNext
  <1> QED  BY <1>1, <1>2, PTL DEF RingSpec, SubQueueSpec

\* In particular the queue is a bounded FIFO; and one that refuses only when it
\* is full and misses only when it is empty, unless loads may be stale.
THEOREM SubQueueIsFifo == SubQueueSpec => ImplementsFifo
  BY SubQueueRunsRing, Refinement, PTL

-----------------------------------------------------------------------------
(* Accounting.                                                             *)

CountInv ==
  /\ pushCount \in Nat /\ pushCount <= MaxPushes
  /\ dropCount \in Nat /\ popped \in Nat
  /\ dropping \in BOOLEAN
  /\ dropping => ppc = "idle"
  /\ Accounting

\* A step that moves nothing that Accounting adds up.
LEMMA CountStutter ==
  ASSUME CountInv, UNCHANGED <<pushCount, dropCount, popped, dropping, ppc, readIdx, writeIdx>>
  PROVE  CountInv'
  BY DEF CountInv, Accounting, Dist

LEMMA CountPushCall ==
  ASSUME RingInv, CountInv, NEW v \in Data, PushCall(v)
  PROVE  CountInv'
  <1>1. /\ ppc = "idle" /\ ~dropping /\ ppc' \in {"load", "construct"}
        /\ pushCount' = pushCount + 1 /\ pushCount < MaxPushes
        /\ UNCHANGED <<dropCount, popped, dropping, readIdx, writeIdx>>
    BY DEF PushCall, EmplaceCall, consumerVars
  <1>2. Dist(readIdx, writeIdx)' = Dist(readIdx, writeIdx)
        /\ Dist(readIdx, writeIdx) \in Int
    BY <1>1, DistType DEF Dist, RingInv, RingTypeOK
  <1> QED  BY <1>1, <1>2, PushesAssumption DEF CountInv, Accounting

\* The ring decides on the push.
LEMMA CountPushRing ==
  ASSUME RingInv, CountInv, PushRing
  PROVE  CountInv'
  <1>1. /\ UNCHANGED <<pushCount, dropCount, popped, readIdx>>
        /\ dropping' = (ppc' = "idle" /\ ~accepted')
        /\ ppc # "idle" /\ ~dropping
    BY DEF PushRing, EmplaceStep, EmplaceLoad, EmplaceConstruct, EmplaceStore, consumerVars,
           CountInv
  <1>2. Dist(readIdx, writeIdx) \in Int
    BY DistType DEF RingInv, RingTypeOK
  <1>3. CASE EmplaceLoad \/ EmplaceConstruct
    <2>1. Dist(readIdx, writeIdx)' = Dist(readIdx, writeIdx)
      BY <1>3 DEF EmplaceLoad, EmplaceConstruct, consumerVars, Dist
    <2>2. ppc' # "idle" \/ dropping'
      BY <1>1, <1>3 DEF EmplaceLoad, EmplaceConstruct
    <2>3. dropping' \in BOOLEAN /\ (dropping' => ppc' = "idle")
      BY <1>1
    <2> QED  BY <1>1, <1>2, <2>1, <2>2, <2>3 DEF CountInv, Accounting
  <1>4. CASE EmplaceStore
    <2>1. Dist(readIdx, writeIdx)' = Dist(readIdx, writeIdx) + 1
      BY <1>1, <1>4, EmplaceStoreDistances DEF EmplaceStore, Dist
    <2>2. ppc' = "idle" /\ dropping' = FALSE
      BY <1>1, <1>4 DEF EmplaceStore
    <2> QED  BY <1>1, <1>2, <2>1, <2>2 DEF CountInv, Accounting
  <1> QED  BY <1>3, <1>4 DEF PushRing, EmplaceStep

LEMMA CountPushDropped ==
  ASSUME RingInv, CountInv, PushDropped
  PROVE  CountInv'
  <1>1. /\ dropping /\ ~dropping' /\ dropCount' = dropCount + 1
        /\ UNCHANGED <<pushCount, popped, ppc, readIdx, writeIdx>>
    BY DEF PushDropped, ringVars, producerVars, consumerVars
  <1>2. Dist(readIdx, writeIdx)' = Dist(readIdx, writeIdx)
        /\ Dist(readIdx, writeIdx) \in Int
    BY <1>1, DistType DEF Dist, RingInv, RingTypeOK
  <1>3. ppc = "idle" /\ dropping = TRUE /\ dropping' = FALSE
    BY DEF PushDropped, CountInv
  <1>4. /\ pushCount = 1 + dropCount + Dist(readIdx, writeIdx) + popped
        /\ dropCount \in Nat /\ popped \in Nat
    BY <1>3 DEF CountInv, Accounting
  <1>5. pushCount' = 0 + dropCount' + Dist(readIdx, writeIdx)' + popped'
    BY <1>1, <1>2, <1>4
  <1>6. Accounting'
    BY <1>1, <1>3, <1>5 DEF Accounting
  <1>7. dropping' \in BOOLEAN /\ (dropping' => ppc' = "idle")
    BY <1>1, <1>3 DEF CountInv
  <1>8. /\ pushCount' \in Nat /\ pushCount' <= MaxPushes
        /\ dropCount' \in Nat /\ popped' \in Nat
    BY <1>1 DEF CountInv
  <1> QED  BY <1>6, <1>7, <1>8, Zenon DEF CountInv

\* A pop moves one element from the ring to those delivered, when the read
\* index moves and not before.
LEMMA CountPop ==
  ASSUME RingInv, CountInv, PopRing
  PROVE  CountInv'
  <1>1. /\ UNCHANGED <<pushCount, dropCount, dropping, ppc, writeIdx>>
        /\ popped' = IF readIdx' # readIdx THEN popped + 1 ELSE popped
    BY DEF PopRing, FrontCall, PopStep, FrontLoad, PopCopy, PopDestroy, PopAdvance,
           producerVars, CountInv
  <1>2. CASE readIdx' = readIdx
    BY <1>1, <1>2, CountStutter
  <1>3. CASE readIdx' # readIdx
    <2>1. PopAdvance
      BY <1>3 DEF PopRing, FrontCall, PopStep, FrontLoad, PopCopy, PopDestroy
    <2>2. readIdx \in Idx /\ writeIdx \in Idx /\ writeIdxCache \in Idx
      BY DEF RingInv, RingTypeOK
    <2>3. readIdx # writeIdx
      BY <2>1, <2>2, DistType DEF PopAdvance, RingInv, RingOrder, ConsumerAtSlot, EmptyCheck
    <2>4. Dist(readIdx, writeIdx)' = Dist(readIdx, writeIdx) - 1
      BY <1>1, <2>1, <2>2, <2>3, DistSuccLeft DEF PopAdvance, Dist
    <2>5. Dist(readIdx, writeIdx) \in Int
      BY <2>2, DistType
    <2> QED  BY <1>1, <1>3, <2>4, <2>5 DEF CountInv, Accounting
  <1> QED  BY <1>2, <1>3

LEMMA CountCreate ==
  ASSUME RingInv, CountInv, Create
  PROVE  CountInv'
  <1>1. /\ pushCount' = 0 /\ dropCount' = 0 /\ popped' = 0 /\ dropping' = FALSE
        /\ readIdx' = 0 /\ writeIdx' = 0 /\ ppc' = ppc
    BY DEF Create, Construct, NewRing
  <1>2. ppc' = "idle"
    BY <1>1 DEF Create, Construct, RingInv, ProducerAtSlot
  <1>3. Dist(readIdx, writeIdx)' = 0
    BY <1>1, EmptyRing DEF Dist
  <1>4. Accounting'
    BY <1>1, <1>2, <1>3 DEF Accounting
  <1>5. dropping' \in BOOLEAN /\ (dropping' => ppc' = "idle")
    BY <1>1
  <1>6. /\ pushCount' \in Nat /\ pushCount' <= MaxPushes
        /\ dropCount' \in Nat /\ popped' \in Nat
    BY <1>1, PushesAssumption
  <1> QED  BY <1>4, <1>5, <1>6, Zenon DEF CountInv

LEMMA CountInit == SubQueueInit => CountInv
  <1> SUFFICES ASSUME SubQueueInit PROVE CountInv
    OBVIOUS
  <1>1. Dist(readIdx, writeIdx) = 0
    BY EmptyRing DEF SubQueueInit, RingInit
  <1>2. /\ pushCount = 0 /\ dropCount = 0 /\ popped = 0 /\ dropping = FALSE
        /\ ppc = "idle"
    BY DEF SubQueueInit, RingInit
  <1>3. Accounting
    BY <1>1, <1>2 DEF Accounting
  <1>4. dropping \in BOOLEAN /\ (dropping => ppc = "idle")
    BY <1>2
  <1>5. pushCount \in Nat /\ pushCount <= MaxPushes /\ dropCount \in Nat /\ popped \in Nat
    BY <1>2, PushesAssumption
  <1> QED  BY <1>2, <1>3, <1>4, <1>5, Zenon DEF CountInv

LEMMA CountNext == RingInv /\ CountInv /\ [SubQueueNext]_subQueueVars => CountInv'
  <1> SUFFICES ASSUME RingInv, CountInv, [SubQueueNext]_subQueueVars PROVE CountInv'
    OBVIOUS
  <1>1. CASE UNCHANGED <<ringVars, statVars>>
    BY <1>1, CountStutter DEF ringVars, producerVars, consumerVars, statVars
  <1>2. CASE QueryReadIdx \/ QueryWriteIdx \/ QueryPushCount \/ QueryDropCount
    BY <1>1, <1>2 DEF QueryReadIdx, QueryWriteIdx, QueryPushCount, QueryDropCount
  <1>3. CASE UNCHANGED subQueueVars
    BY <1>1, <1>3 DEF subQueueVars
  <1>4. CASE Delete
    BY <1>4, CountStutter DEF Delete, BeginDestroy, producerVars, consumerVars, statVars
  <1> QED
    BY <1>2, <1>3, <1>4, CountPushCall, CountPushRing, CountPushDropped, CountPop, CountCreate
    DEF SubQueueNext

LEMMA RingAlways == SubQueueSpec => []RingInv
  BY SubQueueRunsRing, RingInductive, PTL

LEMMA CountAlways == SubQueueSpec => []CountInv
  BY RingAlways, CountInit, CountNext, PTL DEF SubQueueSpec

\* Every push is accounted for once: being decided, dropped, queued or popped,
\* at every moment of both threads.
THEOREM PushesAccounted == SubQueueSpec => []Accounting
  <1>1. CountInv => Accounting
    BY DEF CountInv
  <1> QED  BY <1>1, CountAlways, PTL

-----------------------------------------------------------------------------
(* The reader.                                                             *)

QueryInv ==
  /\ qpc \in {"idle", "write", "push", "drop"} /\ readSeen \in Idx
  /\ info \in [qsize : Int, push_count : 0 .. MaxPushes, drop_count : 0 .. MaxPushes]
  /\ Requested >= 1 => SizeInRange

\* Whatever indices the two loads return.
LEMMA SizeType ==
  ASSUME NEW r \in Idx, NEW w \in Idx
  PROVE  Size(r, w) \in Int /\ (Requested >= 1 => Size(r, w) \in 0 .. Requested)
  BY CapacityAssumption DEF Size, WriteAvailable, Idx, SlotCount

\* What was dropped or popped was pushed.
LEMMA CountBounds ==
  ASSUME RingInv, CountInv
  PROVE  /\ pushCount \in 0 .. MaxPushes /\ dropCount \in 0 .. MaxPushes
         /\ popped \in 0 .. MaxPushes
  <1>1. Dist(readIdx, writeIdx) \in Nat
    BY DistType, SlotCountType DEF RingInv, RingTypeOK
  <1> QED  BY <1>1, PushesAssumption DEF CountInv, Accounting

LEMMA QueryInit == SubQueueInit => QueryInv
  BY EmptyRing, PushesAssumption, CapacityAssumption
  DEF SubQueueInit, Blank, QueryInv, SizeInRange

LEMMA QueryNext == RingInv /\ CountInv /\ QueryInv /\ [SubQueueNext]_subQueueVars => QueryInv'
  <1> SUFFICES ASSUME RingInv, CountInv, QueryInv, [SubQueueNext]_subQueueVars PROVE QueryInv'
    OBVIOUS
  <1> USE DEF QueryInv, SizeInRange
  <1>1. CASE UNCHANGED queryVars
    BY <1>1 DEF queryVars
  <1>2. CASE QueryReadIdx
    BY <1>2, PushesAssumption, CapacityAssumption
    DEF QueryReadIdx, Blank, RingInv, RingTypeOK
  <1>3. CASE QueryWriteIdx
    <2>1. Size(readSeen, writeIdx) \in Int
          /\ (Requested >= 1 => Size(readSeen, writeIdx) \in 0 .. Requested)
      BY SizeType DEF RingInv, RingTypeOK
    <2> QED  BY <1>3, <2>1 DEF QueryWriteIdx
  <1>4. CASE QueryPushCount
    BY <1>4, CountBounds DEF QueryPushCount
  <1>5. CASE QueryDropCount
    BY <1>5, CountBounds DEF QueryDropCount
  <1>6. CASE UNCHANGED subQueueVars
    BY <1>1, <1>6 DEF subQueueVars
  <1>7. ASSUME NEW v \in Data, PushCall(v) PROVE QueryInv'
    BY <1>1, <1>7 DEF PushCall
  <1>8. CASE PushRing \/ PushDropped \/ PopRing \/ Delete \/ Create
    BY <1>1, <1>8 DEF PushRing, PushDropped, PopRing, Delete, Create
  <1> QED  BY <1>2, <1>3, <1>4, <1>5, <1>6, <1>7, <1>8 DEF SubQueueNext

LEMMA QueryAlways == SubQueueSpec => []QueryInv
  BY RingAlways, CountAlways, QueryInit, QueryNext, PTL DEF SubQueueSpec

\* The variables keep their types; in particular nothing is popped or dropped
\* that was not pushed.
THEOREM StatsTypeCorrect == SubQueueSpec => []StatsTypeOK
  <1>1. RingInv /\ CountInv /\ QueryInv => StatsTypeOK
    BY CountBounds DEF RingInv, CountInv, QueryInv, StatsTypeOK
  <1> QED  BY <1>1, RingAlways, CountAlways, QueryAlways, PTL

\* For a queue of at least one element, a size computed from two loads with
\* pushes and pops in between is one the queue can have.
THEOREM SizeStaysInRange ==
  ASSUME Requested >= 1
  PROVE  SubQueueSpec => []SizeInRange
  <1>1. QueryInv => SizeInRange
    BY DEF QueryInv
  <1> QED  BY <1>1, QueryAlways, PTL

\* What size() returns if the consumer has not moved between its two loads: the
\* capacity for an empty queue, and one less than its length for any other.
\* The slack slot counts as free in write_available().
THEOREM SizeAtRest ==
  ASSUME Requested >= 1
  PROVE  SubQueueSpec =>
           [][ QueryWriteIdx /\ readSeen = readIdx =>
                 info'.qsize = IF readIdx = writeIdx THEN Requested
                               ELSE Dist(readIdx, writeIdx) - 1 ]_subQueueVars
  <1> DEFINE AtRest == QueryWriteIdx /\ readSeen = readIdx =>
                         info'.qsize = IF readIdx = writeIdx THEN Requested
                                       ELSE Dist(readIdx, writeIdx) - 1
  <1>1. RingInv /\ QueryInv => AtRest
    <2> SUFFICES ASSUME RingInv, QueryInv, QueryWriteIdx, readSeen = readIdx
                 PROVE  info'.qsize = IF readIdx = writeIdx THEN Requested
                                      ELSE Dist(readIdx, writeIdx) - 1
      OBVIOUS
    <2>1. info'.qsize = Size(readIdx, writeIdx)
      BY DEF QueryWriteIdx, QueryInv
    <2>2. readIdx \in Idx /\ writeIdx \in Idx
      BY DEF RingInv, RingTypeOK
    <2> QED
      BY <2>1, <2>2, CapacityAssumption DEF Size, WriteAvailable, Dist, Idx, SlotCount
  <1> QED  BY <1>1, RingAlways, QueryAlways, PTL

=============================================================================
