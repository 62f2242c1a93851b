-------------------------- MODULE SpscQueueProofs --------------------------
(***************************************************************************)
(* Proofs about SpscQueue, for every requested capacity, every set of      *)
(* values, and with or without stale loads: its invariant and what follows *)
(* from it, and, resting on that, that the ring implements the bounded     *)
(* FIFO: every step of SpscQueue is, through the mapping of SpscQueue, a   *)
(* step of BoundedFifo or leaves it unchanged.                             *)
(***************************************************************************)
EXTENDS SpscQueue, SequenceTheorems, TLAPS

-----------------------------------------------------------------------------
(* The inductive invariant.                                                *)

\* In ring order, starting from the producer's copy of the read index: that
\* copy, the read index, the consumer's copy of the write index, the write
\* index.  They span less than one lap.
RingOrder ==
  /\ Dist(readIdxCache, readIdx) + Dist(readIdx, writeIdx) < SlotCount
  /\ Dist(readIdx, writeIdxCache) <= Dist(readIdx, writeIdx)

\* What each side has established by the time it touches a slot.
ProducerAtSlot ==
  /\ ppc # "idle" => phase = "open" /\ arg \in Data
  /\ ppc \in {"construct", "store"} => ~FullCheck(writeIdx, readIdxCache)

ConsumerAtSlot ==
  /\ cpc \in {"copy", "destroy", "advance"} => ~EmptyCheck(readIdx, writeIdxCache)
  /\ cpc = "copy" => phase = "open"
  /\ phase = "freed" => cpc = "idle" /\ readIdx = writeIdx
  /\ phase = "open" /\ cpc \in {"destroy", "advance"} => val \in Data
  /\ phase = "open" /\ cpc = "destroy" => val = slots[readIdx]

\* Exactly these slots hold an object.
Live(i) ==
  \/ Dist(readIdx, i) < Dist(readIdx, writeIdx) /\ ~(i = readIdx /\ cpc = "advance")
  \/ i = writeIdx /\ ppc = "store"

LiveSlots ==
  /\ \A i \in Idx : slots[i] # Raw <=> Live(i)
  /\ ppc = "store" => slots[writeIdx] = arg

RingInv == RingTypeOK /\ RingOrder /\ ProducerAtSlot /\ ConsumerAtSlot /\ LiveSlots

-----------------------------------------------------------------------------
(* Ring arithmetic.                                                        *)

LEMMA SlotCountType == SlotCount \in Nat /\ SlotCount >= 2
  BY CapacityAssumption DEF SlotCount

LEMMA DistType ==
  ASSUME NEW i \in Idx, NEW j \in Idx
  PROVE  /\ Dist(i, j) \in 0 .. SlotCount - 1
         /\ Dist(i, j) = 0 <=> i = j
  BY SlotCountType DEF Idx, Dist

LEMMA SuccType ==
  ASSUME NEW i \in Idx
  PROVE  Succ(i) \in Idx /\ Dist(i, Succ(i)) = 1
  BY SlotCountType DEF Idx, Dist, Succ

\* Advancing the far end lengthens the distance, unless it laps.
LEMMA DistSuccRight ==
  ASSUME NEW i \in Idx, NEW j \in Idx
  PROVE  Dist(i, Succ(j)) = IF Succ(j) = i THEN 0 ELSE Dist(i, j) + 1
  BY SlotCountType DEF Idx, Dist, Succ

\* Advancing the near end shortens the distance, unless it was zero.
LEMMA DistSuccLeft ==
  ASSUME NEW i \in Idx, NEW j \in Idx, i # j
  PROVE  Dist(Succ(i), j) = Dist(i, j) - 1
  BY SlotCountType DEF Idx, Dist, Succ

\* Distances along the ring add up while they stay within one lap.
LEMMA DistAdds ==
  ASSUME NEW i \in Idx, NEW j \in Idx, NEW k \in Idx
  PROVE  /\ Dist(i, j) <= Dist(i, k) => Dist(i, k) = Dist(i, j) + Dist(j, k)
         /\ Dist(i, j) + Dist(j, k) < SlotCount
              => Dist(i, k) = Dist(i, j) + Dist(j, k)
  BY SlotCountType DEF Idx, Dist

LEMMA LoadableIdx ==
  ASSUME NEW c \in Idx, NEW x \in Idx, NEW i \in Loadable(c, x)
  PROVE  i \in Idx /\ Dist(c, i) <= Dist(c, x)
  BY DistType DEF Loadable

-----------------------------------------------------------------------------
(* The invariant is inductive: one lemma per action that moves an index or *)
(* touches a slot.                                                         *)

\* Shared by the first queue and by every queue constructed later.
LEMMA EmptyRing ==
  /\ 0 \in Idx
  /\ Dist(0, 0) = 0
  /\ \A i \in Idx : ~(Dist(0, i) < 0)
  BY SlotCountType DEF Idx, Dist

LEMMA RingInitInv == RingInit => RingInv
  <1> SUFFICES ASSUME RingInit PROVE RingInv
    OBVIOUS
  <1>1. RingTypeOK
    BY EmptyRing DEF RingInit, RingTypeOK
  <1>2. RingOrder
    BY EmptyRing, SlotCountType DEF RingInit, RingOrder
  <1>3. ProducerAtSlot /\ ConsumerAtSlot
    BY DEF RingInit, ProducerAtSlot, ConsumerAtSlot
  <1>4. LiveSlots
    BY EmptyRing DEF RingInit, LiveSlots, Live
  <1> QED
    BY <1>1, <1>2, <1>3, <1>4 DEF RingInv

LEMMA EmplaceCallStep ==
  ASSUME RingInv, NEW v \in Data, EmplaceCall(v)
  PROVE  RingInv'
  BY DEF EmplaceCall, RingInv, RingTypeOK, RingOrder, ProducerAtSlot, ConsumerAtSlot,
         LiveSlots, Live, Dist, FullCheck, EmptyCheck, consumerVars

LEMMA EmplaceLoadStep ==
  ASSUME RingInv, EmplaceLoad
  PROVE  RingInv'
  <1>1. /\ readIdxCache' \in Idx
        /\ Dist(readIdxCache, readIdxCache') <= Dist(readIdxCache, readIdx)
    BY LoadableIdx DEF EmplaceLoad, RingInv, RingTypeOK
  <1>2. Dist(readIdxCache', readIdx) <= Dist(readIdxCache, readIdx)
    BY <1>1, DistAdds, DistType DEF RingInv, RingTypeOK
  <1>3. RingTypeOK'
    BY <1>1 DEF EmplaceLoad, RingInv, RingTypeOK, consumerVars
  <1>4. RingOrder'
    <2>1. UNCHANGED <<writeIdx, readIdx, writeIdxCache>>
      BY DEF EmplaceLoad, consumerVars
    <2>2. /\ Dist(readIdxCache, readIdx) \in Int
          /\ Dist(readIdxCache', readIdx) \in Int
          /\ Dist(readIdx, writeIdx) \in Int
      BY <1>1, DistType DEF RingInv, RingTypeOK
    <2> QED
      BY <1>2, <2>1, <2>2, SlotCountType DEF RingInv, RingOrder, Dist
  <1>5. ProducerAtSlot'
    BY DEF EmplaceLoad, RingInv, ProducerAtSlot, RingTypeOK, FullCheck
  <1>6. ConsumerAtSlot' /\ LiveSlots'
    BY DEF EmplaceLoad, RingInv, ConsumerAtSlot, LiveSlots, Live, EmptyCheck, Dist,
           RingTypeOK, consumerVars
  <1> QED
    BY <1>3, <1>4, <1>5, <1>6 DEF RingInv

LEMMA EmplaceConstructStep ==
  ASSUME RingInv, EmplaceConstruct
  PROVE  RingInv'
  <1>1. RingTypeOK' /\ RingOrder' /\ ProducerAtSlot'
    BY DEF EmplaceConstruct, RingInv, RingTypeOK, RingOrder, ProducerAtSlot, Dist,
           FullCheck, consumerVars
  <1>2. cpc \in {"copy", "destroy"} => readIdx # writeIdx
    BY DistType DEF RingInv, RingTypeOK, RingOrder, ConsumerAtSlot, EmptyCheck
  <1>3. ConsumerAtSlot'
    BY <1>2 DEF EmplaceConstruct, RingInv, RingTypeOK, ConsumerAtSlot, EmptyCheck, consumerVars
  <1>4. LiveSlots'
    BY DataAssumption
    DEF EmplaceConstruct, RingInv, RingTypeOK, LiveSlots, Live, ProducerAtSlot, Dist, consumerVars
  <1> QED
    BY <1>1, <1>3, <1>4 DEF RingInv

\* What the store of the write index does to the distances.
LEMMA EmplaceStoreDistances ==
  ASSUME RingInv, ppc = "store"
  PROVE  /\ Succ(writeIdx) \in Idx
         /\ Dist(readIdx, Succ(writeIdx)) = Dist(readIdx, writeIdx) + 1
         /\ Dist(readIdxCache, readIdx) + Dist(readIdx, writeIdx) + 1 < SlotCount
  <1> DEFINE c == readIdxCache
             r == readIdx
             w == writeIdx
  <1>1. c \in Idx /\ r \in Idx /\ w \in Idx /\ Succ(w) \in Idx
    BY SuccType DEF RingInv, RingTypeOK
  <1>2. Dist(c, w) = Dist(c, r) + Dist(r, w)
    BY <1>1, DistAdds DEF RingInv, RingOrder
  <1>3. Succ(w) # c
    BY DEF RingInv, ProducerAtSlot, FullCheck
  <1>4. Dist(c, Succ(w)) = Dist(c, w) + 1
    BY <1>1, <1>3, DistSuccRight
  <1>5. Dist(c, Succ(w)) \in 0 .. SlotCount - 1
    BY <1>1, DistType
  <1>6. Succ(w) # r
    <2> SUFFICES ASSUME Succ(w) = r PROVE FALSE
      OBVIOUS
    <2>1. Dist(c, r) = Dist(c, w) + 1
      BY <1>4
    <2> QED
      BY <2>1, <1>1, <1>2, DistType
  <1>7. Dist(r, Succ(w)) = Dist(r, w) + 1
    BY <1>1, <1>6, DistSuccRight
  <1> QED
    BY <1>1, <1>2, <1>4, <1>5, <1>7, DistType, SlotCountType

LEMMA EmplaceStoreStep ==
  ASSUME RingInv, EmplaceStore
  PROVE  RingInv'
  <1>1. ppc = "store" /\ writeIdx' = Succ(writeIdx)
        /\ UNCHANGED <<readIdxCache, arg, consumerVars, slots, phase>>
    BY DEF EmplaceStore
  <1>2. RingTypeOK'
    BY <1>1, EmplaceStoreDistances DEF EmplaceStore, RingInv, RingTypeOK, consumerVars
  <1>3. /\ Dist(readIdx, writeIdx)' = Dist(readIdx, writeIdx) + 1
        /\ Dist(readIdxCache, readIdx)' = Dist(readIdxCache, readIdx)
        /\ Dist(readIdx, writeIdxCache)' = Dist(readIdx, writeIdxCache)
    BY <1>1, EmplaceStoreDistances DEF consumerVars, Dist
  <1>4. RingOrder'
    BY <1>1, <1>3, EmplaceStoreDistances, DistType, SlotCountType
    DEF RingInv, RingOrder, RingTypeOK
  <1>5. ProducerAtSlot'
    BY DEF EmplaceStore, ProducerAtSlot
  <1>6. ConsumerAtSlot'
    BY <1>1 DEF EmplaceStore, RingInv, ProducerAtSlot, ConsumerAtSlot, EmptyCheck, consumerVars
  <1>7. LiveSlots'
    <2>1. ppc' = "idle"
      BY DEF EmplaceStore
    <2>2. ASSUME NEW i \in Idx
          PROVE  Dist(readIdx, i) < Dist(readIdx, writeIdx) + 1
                 <=> Dist(readIdx, i) < Dist(readIdx, writeIdx) \/ i = writeIdx
      BY SlotCountType DEF RingInv, RingTypeOK, Dist, Idx
    <2>3. ~(writeIdx = readIdx /\ cpc = "advance")
      BY DistType DEF RingInv, RingTypeOK, RingOrder, ConsumerAtSlot, EmptyCheck
    <2>4. ASSUME NEW i \in Idx PROVE Live(i)' <=> Live(i)
      <3>1. Dist(readIdx, i)' = Dist(readIdx, i)
        BY <1>1 DEF consumerVars, Dist
      <3> QED
        BY <1>1, <1>3, <2>1, <2>2, <2>3, <3>1 DEF Live, consumerVars
    <2> QED
      BY <1>1, <2>1, <2>4 DEF RingInv, LiveSlots
  <1> QED
    BY <1>2, <1>4, <1>5, <1>6, <1>7 DEF RingInv

-----------------------------------------------------------------------------

LEMMA FrontCallStep ==
  ASSUME RingInv, FrontCall
  PROVE  RingInv'
  BY DEF FrontCall, AfterFront, RingInv, RingTypeOK, RingOrder, ProducerAtSlot,
         ConsumerAtSlot, LiveSlots, Live, Dist, FullCheck, EmptyCheck, producerVars

LEMMA FrontLoadStep ==
  ASSUME RingInv, FrontLoad
  PROVE  RingInv'
  <1>1. /\ writeIdxCache' \in Idx
        /\ UNCHANGED <<readIdx, val, producerVars, slots>>
    BY LoadableIdx DEF FrontLoad, RingInv, RingTypeOK
  <1>2. Dist(readIdx, writeIdxCache') <= Dist(readIdx, writeIdx)
    <2>1. writeIdxCache' \in Loadable(writeIdxCache, writeIdx)
      BY DEF FrontLoad
    <2>2. Dist(writeIdxCache, writeIdxCache') <= Dist(writeIdxCache, writeIdx)
      BY <2>1, LoadableIdx DEF RingInv, RingTypeOK
    <2>3. Dist(readIdx, writeIdx)
            = Dist(readIdx, writeIdxCache) + Dist(writeIdxCache, writeIdx)
      BY DistAdds DEF RingInv, RingTypeOK, RingOrder
    <2>4. /\ Dist(readIdx, writeIdx) \in 0 .. SlotCount - 1
          /\ Dist(readIdx, writeIdxCache) \in Int
          /\ Dist(writeIdxCache, writeIdx) \in Int
          /\ Dist(writeIdxCache, writeIdxCache') \in Int
      BY <1>1, DistType, SlotCountType DEF RingInv, RingTypeOK
    <2>5. Dist(readIdx, writeIdxCache) + Dist(writeIdxCache, writeIdxCache') < SlotCount
      BY <2>2, <2>3, <2>4, SlotCountType
    <2>6. Dist(readIdx, writeIdxCache')
            = Dist(readIdx, writeIdxCache) + Dist(writeIdxCache, writeIdxCache')
      BY <1>1, <2>5, DistAdds DEF RingInv, RingTypeOK
    <2> QED
      BY <2>2, <2>3, <2>4, <2>6
  <1>3. RingTypeOK'
    BY <1>1 DEF FrontLoad, AfterFront, RingInv, RingTypeOK, producerVars
  <1>4. RingOrder'
    BY <1>1, <1>2 DEF RingInv, RingOrder, Dist, producerVars
  <1>5. ProducerAtSlot'
    BY <1>1 DEF FrontLoad, RingInv, ProducerAtSlot, FullCheck, producerVars
  <1>6. ConsumerAtSlot'
    <2>1. phase' = "freed" => readIdx' = writeIdx'
      <3> SUFFICES ASSUME phase' = "freed" PROVE readIdx = writeIdx
        BY <1>1 DEF producerVars
      <3>1. phase = "closing" /\ EmptyCheck(readIdx, writeIdxCache')
        BY DEF FrontLoad, RingInv, ConsumerAtSlot
      <3> QED
        BY <3>1 DEF FrontLoad, Loadable, EmptyCheck
    <2> QED
      BY <1>1, <2>1
      DEF FrontLoad, AfterFront, RingInv, RingTypeOK, ConsumerAtSlot, EmptyCheck, LiveSlots
  <1>7. LiveSlots'
    BY <1>1 DEF FrontLoad, AfterFront, RingInv, LiveSlots, Live, Dist, producerVars
  <1> QED
    BY <1>3, <1>4, <1>5, <1>6, <1>7 DEF RingInv

LEMMA PopCopyStep ==
  ASSUME RingInv, PopCopy
  PROVE  RingInv'
  <1>1. slots[readIdx] \in Data
    <2>1. readIdx # writeIdx
      BY DistType DEF PopCopy, RingInv, RingTypeOK, RingOrder, ConsumerAtSlot, EmptyCheck
    <2>2. Live(readIdx)
      BY <2>1, DistType, SlotCountType DEF PopCopy, Live, RingInv, RingTypeOK
    <2> QED
      BY <2>2 DEF RingInv, RingTypeOK, LiveSlots
  <1>2. RingTypeOK'
    BY <1>1 DEF PopCopy, RingInv, RingTypeOK, producerVars
  <1> QED
    BY <1>1, <1>2
    DEF PopCopy, RingInv, RingOrder, ProducerAtSlot, ConsumerAtSlot, LiveSlots,
        Live, Dist, FullCheck, EmptyCheck, producerVars

LEMMA PopDestroyStep ==
  ASSUME RingInv, PopDestroy
  PROVE  RingInv'
  <1>1. RingTypeOK' /\ RingOrder' /\ ProducerAtSlot' /\ ConsumerAtSlot'
    BY DEF PopDestroy, RingInv, RingTypeOK, RingOrder, ProducerAtSlot, ConsumerAtSlot,
           Dist, FullCheck, EmptyCheck, producerVars
  <1>2. readIdx # writeIdx
    BY DistType DEF PopDestroy, RingInv, RingTypeOK, RingOrder, ConsumerAtSlot, EmptyCheck
  <1>3. LiveSlots'
    BY <1>2, DataAssumption
    DEF PopDestroy, RingInv, RingTypeOK, LiveSlots, Live, Dist, producerVars
  <1> QED
    BY <1>1, <1>3 DEF RingInv

LEMMA PopAdvanceStep ==
  ASSUME RingInv, PopAdvance
  PROVE  RingInv'
  <1> DEFINE c == readIdxCache
             r == readIdx
             w == writeIdx
  <1>1. /\ cpc = "advance" /\ cpc' = "idle" /\ readIdx' = Succ(r)
        /\ UNCHANGED <<writeIdxCache, val, producerVars, slots, phase>>
    BY DEF PopAdvance
  <1>2. c \in Idx /\ r \in Idx /\ w \in Idx /\ writeIdxCache \in Idx /\ Succ(r) \in Idx
    BY SuccType DEF RingInv, RingTypeOK
  <1>3. r # writeIdxCache /\ r # w
    BY <1>1, <1>2, DistType DEF RingInv, RingOrder, ConsumerAtSlot, EmptyCheck
  <1>4. /\ Dist(Succ(r), w) = Dist(r, w) - 1
        /\ Dist(Succ(r), writeIdxCache) = Dist(r, writeIdxCache) - 1
    BY <1>2, <1>3, DistSuccLeft
  <1>5. Dist(c, Succ(r)) <= Dist(c, r) + 1
    BY <1>2, DistSuccRight, DistType
  <1>6. RingTypeOK'
    BY <1>1, <1>2 DEF PopAdvance, RingInv, RingTypeOK, producerVars
  <1>7. RingOrder'
    <2>1. /\ Dist(readIdx, writeIdx)' = Dist(r, w) - 1
          /\ Dist(readIdx, writeIdxCache)' = Dist(r, writeIdxCache) - 1
          /\ Dist(readIdxCache, readIdx)' = Dist(c, Succ(r))
      BY <1>1, <1>4 DEF producerVars, Dist
    <2>2. /\ Dist(r, w) \in Int /\ Dist(r, writeIdxCache) \in Int
          /\ Dist(c, r) \in Int /\ Dist(c, Succ(r)) \in Int
      BY <1>2, DistType
    <2> QED
      BY <1>5, <2>1, <2>2, SlotCountType DEF RingInv, RingOrder
  <1>8. ProducerAtSlot' /\ ConsumerAtSlot'
    BY <1>1 DEF RingInv, ProducerAtSlot, ConsumerAtSlot, FullCheck, producerVars
  <1>9. LiveSlots'
    <2>1. ASSUME NEW i \in Idx
          PROVE  Dist(Succ(r), i) < Dist(Succ(r), w)
                 <=> Dist(r, i) < Dist(r, w) /\ i # r
      BY <1>2, <1>3, SlotCountType DEF Dist, Succ, Idx
    <2>2. ASSUME NEW i \in Idx PROVE Live(i)' <=> Live(i)
      <3>1. /\ Dist(readIdx, i)' = Dist(Succ(r), i)
            /\ Dist(readIdx, writeIdx)' = Dist(Succ(r), w)
        BY <1>1 DEF producerVars, Dist
      <3>2. Live(i)' <=> \/ Dist(Succ(r), i) < Dist(Succ(r), w)
                         \/ i = w /\ ppc = "store"
        BY <1>1, <3>1 DEF Live, producerVars
      <3>3. Live(i) <=> \/ Dist(r, i) < Dist(r, w) /\ i # r
                        \/ i = w /\ ppc = "store"
        BY <1>1 DEF Live
      <3> QED
        BY <2>1, <3>2, <3>3
    <2> QED
      BY <1>1, <2>2 DEF RingInv, LiveSlots, producerVars
  <1> QED
    BY <1>6, <1>7, <1>8, <1>9 DEF RingInv

LEMMA BeginDestroyStep ==
  ASSUME RingInv, BeginDestroy
  PROVE  RingInv'
  BY DEF BeginDestroy, RingInv, RingTypeOK, RingOrder, ProducerAtSlot, ConsumerAtSlot,
         LiveSlots, Live, Dist, FullCheck, EmptyCheck, producerVars, consumerVars

LEMMA ConstructStep ==
  ASSUME RingInv, Construct
  PROVE  RingInv'
  <1>1. ppc = "idle" /\ cpc = "idle"
    BY DEF Construct, NewRing, RingInv, ProducerAtSlot, ConsumerAtSlot
  <1>2. RingTypeOK'
    BY EmptyRing DEF Construct, NewRing, RingInv, RingTypeOK
  <1>3. RingOrder'
    <2>1. /\ Dist(readIdxCache, readIdx)' = Dist(0, 0)
          /\ Dist(readIdx, writeIdx)' = Dist(0, 0)
          /\ Dist(readIdx, writeIdxCache)' = Dist(0, 0)
      BY DEF Construct, NewRing, Dist
    <2> QED
      BY <2>1, EmptyRing, SlotCountType DEF RingOrder
  <1>4. ProducerAtSlot' /\ ConsumerAtSlot'
    BY <1>1 DEF Construct, NewRing, ProducerAtSlot, ConsumerAtSlot
  <1>5. LiveSlots'
    <2>1. ASSUME NEW i \in Idx PROVE ~Live(i)'
      <3>1. Dist(readIdx, i)' = Dist(0, i) /\ Dist(readIdx, writeIdx)' = 0
        BY EmptyRing DEF Construct, NewRing, Dist
      <3> QED
        BY <1>1, <3>1, EmptyRing DEF Construct, NewRing, Live
    <2> QED
      BY <1>1, <2>1 DEF Construct, NewRing, LiveSlots
  <1> QED
    BY <1>2, <1>3, <1>4, <1>5 DEF RingInv

LEMMA StutterStep ==
  ASSUME RingInv, UNCHANGED ringVars
  PROVE  RingInv'
  BY DEF ringVars, producerVars, consumerVars, RingInv, RingTypeOK, RingOrder,
         ProducerAtSlot, ConsumerAtSlot, LiveSlots, Live, Dist, FullCheck, EmptyCheck

LEMMA RingNextInv == RingInv /\ [RingNext]_ringVars => RingInv'
  <1> SUFFICES ASSUME RingInv, [RingNext]_ringVars PROVE RingInv'
    OBVIOUS
  <1>1. CASE \E v \in Data : EmplaceCall(v)
    BY <1>1, EmplaceCallStep
  <1>2. CASE EmplaceStep
    BY <1>2, EmplaceLoadStep, EmplaceConstructStep, EmplaceStoreStep DEF EmplaceStep
  <1>3. CASE FrontCall
    BY <1>3, FrontCallStep
  <1>4. CASE PopStep
    BY <1>4, FrontLoadStep, PopCopyStep, PopDestroyStep, PopAdvanceStep DEF PopStep
  <1>5. CASE BeginDestroy
    BY <1>5, BeginDestroyStep
  <1>6. CASE Construct
    BY <1>6, ConstructStep
  <1>7. CASE UNCHANGED ringVars
    BY <1>7, StutterStep
  <1> QED
    BY <1>1, <1>2, <1>3, <1>4, <1>5, <1>6, <1>7 DEF RingNext

\* The invariant holds of every behaviour.
THEOREM RingInductive == RingSpec => []RingInv
  BY RingInitInv, RingNextInv, PTL DEF RingSpec

-----------------------------------------------------------------------------
(* What it gives.                                                          *)

\* Every variable keeps its type; in particular no index leaves the array.
THEOREM RingTypeCorrect == RingSpec => []RingTypeOK
  <1>1. RingInv => RingTypeOK
    BY DEF RingInv
  <1> QED
    BY <1>1, RingInductive, PTL

\* The producer and the consumer are never at the same slot.
THEOREM NoSlotRace == RingSpec => []SlotRaceFree
  <1>1. RingInv => SlotRaceFree
    BY DistType DEF RingInv, RingTypeOK, RingOrder, ConsumerAtSlot, EmptyCheck, SlotRaceFree
  <1> QED
    BY <1>1, RingInductive, PTL

\* Construction only over raw storage, copies and destruction only of live
\* objects.
THEOREM SlotsWellUsed == RingSpec => []SlotLifetime
  <1>1. ASSUME RingInv PROVE SlotLifetime
    <2>1. cpc \in {"copy", "destroy"} => readIdx # writeIdx
      BY <1>1, DistType DEF RingInv, RingTypeOK, RingOrder, ConsumerAtSlot, EmptyCheck
    <2>2. cpc \in {"copy", "destroy"} => Live(readIdx)
      BY <1>1, <2>1, DistType, SlotCountType DEF Live, RingInv, RingTypeOK
    <2>3. ppc = "construct" => ~Live(writeIdx)
      BY <1>1, DistType DEF Live, RingInv, RingTypeOK
    <2> QED
      BY <1>1, <2>2, <2>3 DEF SlotLifetime, RingInv, RingTypeOK, LiveSlots
  <1> QED
    BY <1>1, RingInductive, PTL

\* The destructor leaves nothing behind.
THEOREM NothingLeaks == RingSpec => []NoLeak
  <1>1. ASSUME RingInv PROVE NoLeak
    <2> SUFFICES ASSUME phase = "freed", NEW i \in Idx PROVE ~Live(i)
      BY <1>1 DEF NoLeak, RingInv, LiveSlots
    <2>1. ppc = "idle" /\ readIdx = writeIdx
      BY <1>1 DEF RingInv, ProducerAtSlot, ConsumerAtSlot
    <2> QED
      BY <1>1, <2>1, DistType DEF Live, RingInv, RingTypeOK
  <1> QED
    BY <1>1, RingInductive, PTL

-----------------------------------------------------------------------------
(* Functions on an initial segment of the naturals, as sequences.          *)

LEMMA FunctionIsSeq ==
  ASSUME NEW S, NEW n \in Nat, NEW f \in [1 .. n -> S]
  PROVE  f \in Seq(S) /\ Len(f) = n
  <1>1. f \in Seq(S)
    OBVIOUS
  <1>2. DOMAIN f = 1 .. n /\ DOMAIN f = 1 .. Len(f) /\ Len(f) \in Nat
    BY <1>1, LenProperties
  <1> QED
    BY <1>1, <1>2

LEMMA FunctionIsEmpty ==
  ASSUME NEW S, NEW f \in [1 .. 0 -> S]
  PROVE  f = <<>>
  BY FunctionIsSeq, EmptySeq

LEMMA FunctionIsAppend ==
  ASSUME NEW S, NEW n \in Nat, NEW v \in S,
         NEW f \in [1 .. n -> S], NEW g \in [1 .. n + 1 -> S],
         \A k \in 1 .. n : g[k] = f[k],
         g[n + 1] = v
  PROVE  g = Append(f, v)
  <1>1. f \in Seq(S) /\ Len(f) = n /\ g \in Seq(S) /\ Len(g) = n + 1
    BY FunctionIsSeq
  <1>2. Append(f, v) \in Seq(S) /\ Len(Append(f, v)) = n + 1
    BY <1>1, AppendProperties
  <1>3. \A k \in 1 .. n + 1 : Append(f, v)[k] = g[k]
    <2>1. Append(f, v)[n + 1] = v
      BY <1>1, AppendProperties
    <2>2. \A k \in 1 .. n : Append(f, v)[k] = f[k]
      BY <1>1, AppendProperties
    <2> QED
      BY <2>1, <2>2
  <1> QED
    BY <1>1, <1>2, <1>3, SeqEqual

LEMMA FunctionIsTail ==
  ASSUME NEW S, NEW n \in Nat,
         NEW f \in [1 .. n + 1 -> S], NEW g \in [1 .. n -> S],
         \A k \in 1 .. n : g[k] = f[k + 1]
  PROVE  f # <<>> /\ Head(f) = f[1] /\ g = Tail(f)
  <1>1. f \in Seq(S) /\ Len(f) = n + 1 /\ g \in Seq(S) /\ Len(g) = n
    BY FunctionIsSeq
  <1>2. f # <<>>
    BY <1>1, EmptySeq
  <1>3. /\ Tail(f) \in Seq(S) /\ Len(Tail(f)) = n
        /\ \A k \in 1 .. n : Tail(f)[k] = f[k + 1]
    BY <1>1, <1>2, HeadTailProperties
  <1>4. g = Tail(f)
    BY <1>1, <1>3, SeqEqual
  <1> QED
    BY <1>2, <1>4

-----------------------------------------------------------------------------
(* What the queue holds.                                                   *)

\* Whatever a slot, or the consumer's copy, may contain.
Content == Data \cup {Raw, NoData}

LEMMA AheadType ==
  ASSUME NEW i \in Idx, NEW k \in 0 .. SlotCount - 1
  PROVE  Ahead(i, k) \in Idx /\ Dist(i, Ahead(i, k)) = k
  BY SlotCountType DEF Idx, Ahead, Dist

LEMMA AheadDist ==
  ASSUME NEW i \in Idx, NEW j \in Idx
  PROVE  Ahead(i, Dist(i, j)) = j
  BY SlotCountType DEF Idx, Ahead, Dist

LEMMA AheadSucc ==
  ASSUME NEW i \in Idx, NEW k \in 1 .. SlotCount - 1
  PROVE  Ahead(Succ(i), k - 1) = Ahead(i, k)
  BY SlotCountType DEF Idx, Ahead, Succ

\* The queued elements are a sequence as long as the ring distance.
LEMMA QueuedType ==
  ASSUME RingInv
  PROVE  Queued \in [1 .. Dist(readIdx, writeIdx) -> Content]
  <1> SUFFICES ASSUME NEW k \in 1 .. Dist(readIdx, writeIdx)
               PROVE  Ahead(readIdx, k - 1) \in Idx
    BY DEF Queued, Content, RingInv, RingTypeOK
  <1>1. Dist(readIdx, writeIdx) \in 0 .. SlotCount - 1
    BY DistType DEF RingInv, RingTypeOK
  <1>2. k - 1 \in 0 .. SlotCount - 1
    BY <1>1, SlotCountType
  <1> QED
    BY <1>2, AheadType DEF RingInv, RingTypeOK

LEMMA QueuedLen ==
  ASSUME RingInv
  PROVE  /\ Dist(readIdx, writeIdx) \in Nat
         /\ Len(Queued) = Dist(readIdx, writeIdx)
         /\ Len(Queued) <= SlotCount - 1
  <1>1. Dist(readIdx, writeIdx) \in 0 .. SlotCount - 1
    BY DistType DEF RingInv, RingTypeOK
  <1> QED
    BY <1>1, QueuedType, FunctionIsSeq, SlotCountType

-----------------------------------------------------------------------------
(* One lemma per action: the step it makes on the buffer.                  *)

\* Steps that change neither an index nor a slot.
LEMMA SameQueued ==
  ASSUME RingInv, UNCHANGED <<readIdx, writeIdx, slots>>,
         cpc # "advance", cpc' # "advance"
  PROVE  Queued' = Queued
  BY DEF Queued, Dist

LEMMA RefineEmplaceCall ==
  ASSUME RingInv, NEW v \in Data, EmplaceCall(v)
  PROVE  Fifo!Offer(v)
  <1>1. Queued' = Queued
    BY DEF EmplaceCall, Queued, Dist, consumerVars
  <1> QED
    BY <1>1 DEF EmplaceCall, Fifo!Offer, consumerVars

LEMMA RefineEmplaceLoad ==
  ASSUME RingInv, EmplaceLoad
  PROVE  Fifo!Refuse \/ UNCHANGED Fifo!vars
  <1>1. Queued' = Queued /\ UNCHANGED <<arg, cpc, got, phase>>
    BY DEF EmplaceLoad, Queued, Dist, consumerVars
  <1>2. phase = "open" /\ arg # NoData /\ ppc = "load"
    BY DataAssumption DEF EmplaceLoad, RingInv, ProducerAtSlot
  <1>3. CASE ppc' = "construct"
    BY <1>1, <1>2, <1>3 DEF EmplaceLoad, Fifo!vars
  <1>4. CASE ppc' = "idle"
    <2>1. FullCheck(writeIdx, readIdxCache') /\ accepted' = FALSE
      BY <1>4 DEF EmplaceLoad
    <2>2. StaleLoads \/ Dist(readIdx, writeIdx) = SlotCount - 1
      <3> SUFFICES ASSUME ~StaleLoads
                   PROVE  Dist(readIdx, writeIdx) = SlotCount - 1
        OBVIOUS
      <3>1. Succ(writeIdx) = readIdx
        BY <2>1 DEF EmplaceLoad, Loadable, FullCheck
      <3> QED
        BY <3>1, SlotCountType DEF RingInv, RingTypeOK, Idx, Succ, Dist
    <2>3. StaleLoads \/ Len(Queued) = SlotCount - 1
      BY <2>2, QueuedLen
    <2> QED
      BY <1>1, <1>2, <1>4, <2>1, <2>3 DEF Fifo!Refuse
  <1> QED
    BY <1>3, <1>4 DEF EmplaceLoad

LEMMA RefineEmplaceConstruct ==
  ASSUME RingInv, EmplaceConstruct
  PROVE  UNCHANGED Fifo!vars
  <1>1. ASSUME NEW k \in 1 .. Dist(readIdx, writeIdx)
        PROVE  slots'[Ahead(readIdx, k - 1)] = slots[Ahead(readIdx, k - 1)]
    <2>1. Dist(readIdx, writeIdx) \in 0 .. SlotCount - 1
      BY DistType DEF RingInv, RingTypeOK
    <2>2. k - 1 \in 0 .. SlotCount - 1 /\ k - 1 # Dist(readIdx, writeIdx)
      BY <2>1, SlotCountType
    <2>3. Ahead(readIdx, k - 1) \in Idx /\ Ahead(readIdx, k - 1) # writeIdx
      BY <2>2, AheadType DEF RingInv, RingTypeOK
    <2> QED
      BY <2>3 DEF EmplaceConstruct, RingInv, RingTypeOK
  <1>2. Queued' = Queued
    BY <1>1 DEF EmplaceConstruct, Queued, Dist, Ahead, consumerVars
  <1> QED
    BY <1>2 DEF EmplaceConstruct, Fifo!vars, consumerVars

LEMMA RefineEmplaceStore ==
  ASSUME RingInv, EmplaceStore
  PROVE  Fifo!Accept
  <1> DEFINE n == Dist(readIdx, writeIdx)
  <1>1. /\ ppc = "store" /\ ppc' = "idle" /\ writeIdx' = Succ(writeIdx)
        /\ UNCHANGED <<readIdxCache, arg, readIdx, cpc, val, got, slots, phase>>
    BY DEF EmplaceStore, consumerVars
  <1>2. phase = "open" /\ arg \in Data /\ arg # NoData /\ slots[writeIdx] = arg
    BY <1>1, DataAssumption DEF RingInv, ProducerAtSlot, LiveSlots
  <1>3. n \in Nat /\ n < SlotCount - 1 /\ Dist(readIdx, writeIdx)' = n + 1
    <2>1. Dist(readIdx, writeIdx)' = Dist(readIdx, Succ(writeIdx))
      BY <1>1 DEF Dist
    <2>2. n \in Nat /\ Dist(readIdxCache, readIdx) \in Nat
      BY DistType, SlotCountType DEF RingInv, RingTypeOK
    <2> QED
      BY <1>1, <2>1, <2>2, EmplaceStoreDistances, SlotCountType
  <1>4. ~(n = 0 /\ cpc = "advance")
    BY DistType DEF RingInv, RingTypeOK, RingOrder, ConsumerAtSlot, EmptyCheck
  <1>5. Queued' = [k \in 1 .. n + 1 |->
                     IF k = 1 /\ cpc = "advance" THEN val
                                                 ELSE slots[Ahead(readIdx, k - 1)]]
    BY <1>1, <1>3 DEF Queued, Ahead
  <1>6. Ahead(readIdx, n) = writeIdx
    BY AheadDist DEF RingInv, RingTypeOK
  <1>7. Queued'[n + 1] = arg
    BY <1>2, <1>3, <1>4, <1>5, <1>6
  <1>8. \A k \in 1 .. n : Queued'[k] = Queued[k]
    BY <1>3, <1>5 DEF Queued
  <1>9. Queued \in [1 .. n -> Content]
    BY QueuedType
  <1>10. Queued' \in [1 .. n + 1 -> Content]
    <2>1. \A k \in 1 .. n + 1 : Queued'[k] \in Content
      <3> SUFFICES ASSUME NEW k \in 1 .. n + 1 PROVE Queued'[k] \in Content
        OBVIOUS
      <3>1. k \in 1 .. n \/ k = n + 1
        BY <1>3
      <3> QED
        BY <3>1, <1>2, <1>7, <1>8, <1>9 DEF Content
    <2> QED
      BY <1>5, <2>1
  <1>11. Queued' = Append(Queued, arg)
    BY <1>2, <1>3, <1>7, <1>8, <1>9, <1>10, FunctionIsAppend DEF Content
  <1>12. Len(Queued) < SlotCount - 1
    BY <1>3, QueuedLen
  <1> QED
    BY <1>1, <1>2, <1>11, <1>12 DEF EmplaceStore, Fifo!Accept

-----------------------------------------------------------------------------

LEMMA RefineFrontCall ==
  ASSUME RingInv, FrontCall
  PROVE  Fifo!Ask \/ UNCHANGED Fifo!vars
  <1>1. Queued' = Queued
    BY SameQueued DEF FrontCall, AfterFront, producerVars
  <1>2. cpc = "idle" /\ cpc' # "idle"
    BY DEF FrontCall, AfterFront
  <1> QED
    BY <1>1, <1>2 DEF FrontCall, Fifo!Ask, Fifo!vars, producerVars

LEMMA RefineFrontLoad ==
  ASSUME RingInv, FrontLoad
  PROVE  Fifo!Miss \/ UNCHANGED Fifo!vars
  <1>1. Queued' = Queued
    BY SameQueued DEF FrontLoad, AfterFront, producerVars
  <1>2. cpc = "load" /\ UNCHANGED <<ppc, arg, accepted>>
    BY DEF FrontLoad, producerVars
  <1>3. CASE ~EmptyCheck(readIdx, writeIdxCache')
    BY <1>1, <1>2, <1>3 DEF FrontLoad, AfterFront, Fifo!vars
  <1>4. CASE EmptyCheck(readIdx, writeIdxCache') /\ phase = "closing"
    <2>1. phase' = "freed" /\ UNCHANGED got
      BY <1>4 DEF FrontLoad
    <2>2. ppc = "idle"
      BY <1>4 DEF RingInv, ProducerAtSlot
    <2> QED
      BY <1>2, <1>4, <2>1, <2>2 DEF Fifo!vars
  <1>5. CASE EmptyCheck(readIdx, writeIdxCache') /\ phase = "open"
    <2>1. cpc' = "idle" /\ got' = NoData /\ UNCHANGED phase
      BY <1>5 DEF FrontLoad
    <2>2. StaleLoads \/ Queued = <<>>
      <3> SUFFICES ASSUME ~StaleLoads PROVE Queued = <<>>
        OBVIOUS
      <3>1. readIdx = writeIdx
        BY <1>5 DEF FrontLoad, Loadable, EmptyCheck
      <3>2. Dist(readIdx, writeIdx) = 0
        BY <3>1, DistType DEF RingInv, RingTypeOK
      <3> QED
        BY <3>2, QueuedType, FunctionIsEmpty
    <2> QED
      BY <1>1, <1>2, <1>5, <2>1, <2>2 DEF Fifo!Miss
  <1> QED
    BY <1>3, <1>4, <1>5 DEF FrontLoad

LEMMA RefinePopCopy ==
  ASSUME RingInv, PopCopy
  PROVE  UNCHANGED Fifo!vars
  <1>1. Queued' = Queued
    BY SameQueued DEF PopCopy, producerVars
  <1> QED
    BY <1>1 DEF PopCopy, Fifo!vars, producerVars

\* The element leaves its slot but stays queued, in the consumer's copy.
LEMMA RefinePopDestroy ==
  ASSUME RingInv, PopDestroy
  PROVE  UNCHANGED Fifo!vars
  <1>1. /\ cpc = "destroy" /\ cpc' = "advance"
        /\ slots' = [slots EXCEPT ![readIdx] = Raw]
        /\ UNCHANGED <<readIdx, writeIdx, val, got, ppc, arg, accepted, phase>>
    BY DEF PopDestroy, producerVars
  <1>2. CASE phase # "open"
    BY <1>1, <1>2 DEF Fifo!vars
  <1>3. CASE phase = "open"
    <2>1. val = slots[readIdx]
      BY <1>1, <1>3 DEF RingInv, ConsumerAtSlot
    <2>2. ASSUME NEW k \in 1 .. Dist(readIdx, writeIdx)
          PROVE  IF k = 1 THEN slots[Ahead(readIdx, k - 1)] = val
                 ELSE slots'[Ahead(readIdx, k - 1)] = slots[Ahead(readIdx, k - 1)]
      <3>1. Dist(readIdx, writeIdx) \in 0 .. SlotCount - 1
        BY DistType DEF RingInv, RingTypeOK
      <3>2. k - 1 \in 0 .. SlotCount - 1
        BY <3>1, SlotCountType
      <3>3. Ahead(readIdx, k - 1) \in Idx /\ Dist(readIdx, Ahead(readIdx, k - 1)) = k - 1
        BY <3>2, AheadType DEF RingInv, RingTypeOK
      <3>4. k = 1 <=> Ahead(readIdx, k - 1) = readIdx
        BY <3>3, DistType DEF RingInv, RingTypeOK
      <3> QED
        BY <1>1, <2>1, <3>3, <3>4 DEF RingInv, RingTypeOK
    <2>3. Queued' = Queued
      BY <1>1, <2>2 DEF Queued, Dist, Ahead
    <2> QED
      BY <1>1, <2>3 DEF Fifo!vars
  <1> QED
    BY <1>2, <1>3

LEMMA RefinePopAdvance ==
  ASSUME RingInv, PopAdvance
  PROVE  Fifo!Take \/ UNCHANGED Fifo!vars
  <1> DEFINE n == Dist(readIdx, writeIdx) - 1
  <1>1. /\ cpc = "advance" /\ cpc' = "idle" /\ readIdx' = Succ(readIdx)
        /\ UNCHANGED <<writeIdx, ppc, arg, accepted, val, slots, phase>>
    BY DEF PopAdvance, producerVars
  <1>2. CASE phase # "open"
    BY <1>1, <1>2 DEF PopAdvance, Fifo!vars
  <1>3. CASE phase = "open"
    <2>1. readIdx # writeIdx
      BY <1>1, DistType DEF RingInv, RingTypeOK, RingOrder, ConsumerAtSlot, EmptyCheck
    <2>2. n \in Nat /\ n + 1 = Dist(readIdx, writeIdx) /\ n < SlotCount - 1
      BY <2>1, DistType, SlotCountType DEF RingInv, RingTypeOK
    <2>3. Dist(readIdx, writeIdx)' = n
      <3>1. Dist(Succ(readIdx), writeIdx) = n
        BY <2>1, DistSuccLeft DEF RingInv, RingTypeOK
      <3> QED
        BY <1>1, <3>1 DEF Dist
    <2>4. Queued' = [k \in 1 .. n |-> slots[Ahead(Succ(readIdx), k - 1)]]
      BY <1>1, <2>3 DEF Queued, Ahead
    <2>5. Queued \in [1 .. n + 1 -> Content] /\ Queued[1] = val
      BY <1>1, <2>2, QueuedType DEF Queued
    <2>6. ASSUME NEW k \in 1 .. n PROVE Queued'[k] = Queued[k + 1]
      <3>1. k \in 1 .. SlotCount - 1 /\ k + 1 \in 1 .. n + 1 /\ k + 1 # 1
        BY <2>2, SlotCountType
      <3>2. Ahead(Succ(readIdx), k - 1) = Ahead(readIdx, (k + 1) - 1)
        BY <3>1, AheadSucc DEF RingInv, RingTypeOK
      <3> QED
        BY <2>2, <2>4, <3>1, <3>2 DEF Queued
    <2>7. Queued' \in [1 .. n -> Content]
      <3>1. \A k \in 1 .. n : Queued'[k] \in Content
        BY <2>2, <2>5, <2>6
      <3> QED
        BY <2>4, <3>1
    <2>8. Queued # <<>> /\ Head(Queued) = val /\ Queued' = Tail(Queued)
      BY <2>2, <2>5, <2>6, <2>7, FunctionIsTail
    <2> QED
      BY <1>1, <1>3, <2>8 DEF PopAdvance, Fifo!Take
  <1> QED
    BY <1>2, <1>3

-----------------------------------------------------------------------------

LEMMA RefineBeginDestroy ==
  ASSUME RingInv, BeginDestroy
  PROVE  Fifo!Close
  BY DEF BeginDestroy, Fifo!Close, producerVars, consumerVars

LEMMA RefineConstruct ==
  ASSUME RingInv, Construct
  PROVE  Fifo!Reopen
  <1>1. ppc = "idle" /\ cpc = "idle" /\ UNCHANGED <<ppc, cpc>>
    BY DEF Construct, NewRing, RingInv, ProducerAtSlot, ConsumerAtSlot
  <1>2. Dist(readIdx, writeIdx)' = 0
    BY EmptyRing DEF Construct, NewRing, Dist
  <1>3. Queued' \in [1 .. 0 -> Content]
    BY <1>2 DEF Queued
  <1>4. Queued' = <<>>
    BY <1>3, FunctionIsEmpty
  <1> QED
    BY <1>1, <1>4 DEF Construct, NewRing, Fifo!Reopen

LEMMA RefineInit == RingInit => Fifo!Init
  <1> SUFFICES ASSUME RingInit PROVE Fifo!Init
    OBVIOUS
  <1>1. Dist(readIdx, writeIdx) = 0
    BY EmptyRing DEF RingInit
  <1>2. Queued \in [1 .. 0 -> Content]
    BY <1>1 DEF Queued
  <1>3. Queued = <<>>
    BY <1>2, FunctionIsEmpty
  <1> QED
    BY <1>3 DEF RingInit, Fifo!Init

LEMMA RefineNext == RingInv /\ [RingNext]_ringVars => [Fifo!Next]_(Fifo!vars)
  <1> SUFFICES ASSUME RingInv, [RingNext]_ringVars PROVE Fifo!Next \/ UNCHANGED Fifo!vars
    OBVIOUS
  <1>1. CASE \E v \in Data : EmplaceCall(v)
    BY <1>1, RefineEmplaceCall DEF Fifo!Next
  <1>2. CASE EmplaceStep
    BY <1>2, RefineEmplaceLoad, RefineEmplaceConstruct, RefineEmplaceStore
    DEF EmplaceStep, Fifo!Next
  <1>3. CASE FrontCall
    BY <1>3, RefineFrontCall DEF Fifo!Next
  <1>4. CASE PopStep
    BY <1>4, RefineFrontLoad, RefinePopCopy, RefinePopDestroy, RefinePopAdvance
    DEF PopStep, Fifo!Next
  <1>5. CASE BeginDestroy
    BY <1>5, RefineBeginDestroy DEF Fifo!Next
  <1>6. CASE Construct
    BY <1>6, RefineConstruct DEF Fifo!Next
  <1>7. CASE UNCHANGED ringVars
    BY <1>7 DEF ringVars, producerVars, consumerVars, Fifo!vars, Queued, Dist
  <1> QED
    BY <1>1, <1>2, <1>3, <1>4, <1>5, <1>6, <1>7 DEF RingNext

\* The ring is a bounded FIFO: nothing an emplace() accepted is lost,
\* duplicated or reordered before pop() or the destructor takes it; and when
\* loads are current, a push is refused only by a full queue and a pop fails
\* only on an empty one.
THEOREM Refinement == RingSpec => ImplementsFifo
  BY RefineInit, RefineNext, RingInductive, PTL DEF RingSpec, ImplementsFifo, Fifo!Spec

=============================================================================
