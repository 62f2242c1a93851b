----------------------------- MODULE SpscQueue -----------------------------
(***************************************************************************)
(* vdds::spsc_queue (include/vdds/detail/spsc-queue.hpp), the lock-free    *)
(* ring under every subscriber queue: one producer thread in emplace(),    *)
(* one consumer thread in pop(v), and the destructor that unsubscribe()    *)
(* runs once both are gone.  (That there is one producer at a time, and    *)
(* nobody left when the destructor runs, is what module TopicRing shows of *)
(* the topic.)                                                             *)
(*                                                                         *)
(* Each atomic load or store of the other side's index, and each access to *)
(* a slot, is a step of its own; what a thread computes from its own       *)
(* variables belongs to the step before.  Each index has one writer and    *)
(* is stored with release and loaded with acquire, so the only effect of   *)
(* the memory order is that a load may return an older position of the     *)
(* other side, never older than the one returned last: StaleLoads turns    *)
(* that effect on.                                                         *)
(***************************************************************************)
EXTENDS Integers, Sequences

CONSTANTS
  Data,        \* the values pushed (struct data)
  NoData,      \* not a value
  Raw,         \* content of a slot that holds no object
  Requested,   \* the constructor's capacity argument
  StaleLoads   \* may an acquire load return an older index?

ASSUME DataAssumption ==
  /\ Raw \notin Data
  /\ NoData \notin Data
  /\ StaleLoads \in BOOLEAN

\* The clamp at SIZE_MAX - 2 * kPadding is left out: a queue of that many
\* 256-byte elements cannot be allocated.
ASSUME CapacityAssumption == Requested \in Nat

VARIABLES
  writeIdx,       \* _write_idx
  readIdxCache,   \* _read_idx_cache, the producer's copy
  readIdx,        \* _read_idx
  writeIdxCache,  \* _write_idx_cache, the consumer's copy
  slots,          \* _slots
  ppc,            \* where the producer is in emplace()
  arg,            \* the value it pushes
  accepted,       \* what emplace() last returned
  cpc,            \* where the consumer is in front() and pop()
  val,            \* its copy of the front element
  got,            \* what pop(v) last delivered, NoData if it returned false
  phase           \* life of the queue object

producerVars == <<writeIdx, readIdxCache, ppc, arg, accepted>>
consumerVars == <<readIdx, writeIdxCache, cpc, val, got>>
ringVars == <<producerVars, consumerVars, slots, phase>>

-----------------------------------------------------------------------------
(* Ring arithmetic.                                                        *)

\* Number of slots: at least one element, plus the slack slot.
SlotCount == (IF Requested < 1 THEN 1 ELSE Requested) + 1

Idx == 0 .. SlotCount - 1

\* Mutant: no wrap.
SuccNoWrap(i) == i + 1

Succ(i) == IF i + 1 = SlotCount THEN 0 ELSE i + 1

\* Steps forward from index i to index j.
Dist(i, j) == IF j >= i THEN j - i ELSE j + SlotCount - i

\* The index k steps forward from i, for k < SlotCount.
Ahead(i, k) == IF i + k >= SlotCount THEN i + k - SlotCount ELSE i + k

\* Mutant: even the destructor loads stale indices.
LoadableAlways(cached, current) ==
  {i \in Idx : Dist(cached, i) <= Dist(cached, current)}

\* The indices an acquire load may return, when the last one returned was
\* cached and the index is now current.  The destructor runs after both
\* threads are done with the queue (a lock or a join), so it sees the latest.
Loadable(cached, current) ==
  IF StaleLoads /\ phase = "open"
  THEN {i \in Idx : Dist(cached, i) <= Dist(cached, current)}
  ELSE {current}

-----------------------------------------------------------------------------
(* Producer: emplace().                                                    *)

\* Mutant: no check; or two slack slots.
FullCheckNever(w, cached) == FALSE
FullCheckEarly(w, cached) == Succ(Succ(w)) = cached

FullCheck(w, cached) == Succ(w) = cached

\* Lines 110-115: the indices are the producer's own.
EmplaceCall(v) ==
  /\ phase = "open" /\ ppc = "idle"
  /\ arg' = v
  /\ ppc' = IF FullCheck(writeIdx, readIdxCache) THEN "load" ELSE "construct"
  /\ UNCHANGED <<writeIdx, readIdxCache, accepted, consumerVars, slots, phase>>

\* Mutant: a full queue makes the producer spin.
EmplaceLoadSpin ==
  /\ ppc = "load"
  /\ readIdxCache' \in Loadable(readIdxCache, readIdx)
  /\ ppc' = IF FullCheck(writeIdx, readIdxCache') THEN "load" ELSE "construct"
  /\ UNCHANGED <<writeIdx, arg, accepted, consumerVars, slots, phase>>

EmplaceLoad ==
  /\ ppc = "load"
  /\ readIdxCache' \in Loadable(readIdxCache, readIdx)
  /\ \/ ~FullCheck(writeIdx, readIdxCache') /\ ppc' = "construct" /\ UNCHANGED accepted
     \/ FullCheck(writeIdx, readIdxCache') /\ ppc' = "idle" /\ accepted' = FALSE
  /\ UNCHANGED <<writeIdx, arg, consumerVars, slots, phase>>

EmplaceConstruct ==
  /\ ppc = "construct"
  /\ slots' = [slots EXCEPT ![writeIdx] = arg]
  /\ ppc' = "store"
  /\ UNCHANGED <<writeIdx, readIdxCache, arg, accepted, consumerVars, phase>>

EmplaceStore ==
  /\ ppc = "store"
  /\ writeIdx' = Succ(writeIdx)
  /\ ppc' = "idle"
  /\ accepted' = TRUE
  /\ UNCHANGED <<readIdxCache, arg, consumerVars, slots, phase>>

-----------------------------------------------------------------------------
(* Consumer: pop(v) is front(), a copy, and pop().                         *)

EmptyCheck(r, cached) == r = cached

\* Where the consumer goes when front() returns an element: pop(v) copies
\* it first, the destructor's loop only destroys it.
AfterFront == IF phase = "closing" THEN "destroy" ELSE "copy"

FrontCall ==
  /\ phase # "freed" /\ cpc = "idle"
  /\ cpc' = IF EmptyCheck(readIdx, writeIdxCache) THEN "load" ELSE AfterFront
  /\ UNCHANGED <<readIdx, writeIdxCache, val, got, producerVars, slots, phase>>

\* Mutant: an empty queue makes the consumer spin.
FrontLoadSpin ==
  /\ cpc = "load"
  /\ writeIdxCache' \in Loadable(writeIdxCache, writeIdx)
  /\ cpc' = IF EmptyCheck(readIdx, writeIdxCache') THEN "load" ELSE AfterFront
  /\ UNCHANGED <<readIdx, val, got, producerVars, slots, phase>>

\* A null front ends pop(v) with false, and ends the destructor's loop.
FrontLoad ==
  /\ cpc = "load"
  /\ writeIdxCache' \in Loadable(writeIdxCache, writeIdx)
  /\ \/ /\ ~EmptyCheck(readIdx, writeIdxCache')
        /\ cpc' = AfterFront
        /\ UNCHANGED <<got, phase>>
     \/ /\ EmptyCheck(readIdx, writeIdxCache')
        /\ cpc' = "idle"
        /\ \/ phase = "open" /\ got' = NoData /\ UNCHANGED phase
           \/ phase = "closing" /\ phase' = "freed" /\ UNCHANGED got
  /\ UNCHANGED <<readIdx, val, producerVars, slots>>

PopCopy ==
  /\ cpc = "copy"
  /\ val' = slots[readIdx]
  /\ cpc' = "destroy"
  /\ UNCHANGED <<readIdx, writeIdxCache, got, producerVars, slots, phase>>

\* Mutant: no destructor call.
PopDestroyNot ==
  /\ cpc = "destroy" /\ cpc' = "advance"
  /\ UNCHANGED <<readIdx, writeIdxCache, val, got, producerVars, slots, phase>>

PopDestroy ==
  /\ cpc = "destroy"
  /\ slots' = [slots EXCEPT ![readIdx] = Raw]
  /\ cpc' = "advance"
  /\ UNCHANGED <<readIdx, writeIdxCache, val, got, producerVars, phase>>

PopAdvance ==
  /\ cpc = "advance"
  /\ readIdx' = Succ(readIdx)
  /\ cpc' = "idle"
  /\ got' = IF phase = "open" THEN val ELSE got
  /\ UNCHANGED <<writeIdxCache, val, producerVars, slots, phase>>

-----------------------------------------------------------------------------
(* Life of the object: the destructor, and the next queue constructed.     *)

BeginDestroy ==
  /\ phase = "open" /\ ppc = "idle" /\ cpc = "idle"
  /\ phase' = "closing"
  /\ UNCHANGED <<producerVars, consumerVars, slots>>

\* The constructor: an empty ring of raw slots.
NewRing ==
  /\ writeIdx' = 0 /\ readIdxCache' = 0 /\ readIdx' = 0 /\ writeIdxCache' = 0
  /\ slots' = [i \in Idx |-> Raw]
  /\ accepted' = FALSE /\ got' = NoData
  /\ phase' = "open"
  /\ UNCHANGED <<ppc, arg, cpc, val>>

Construct == phase = "freed" /\ NewRing

\* There is a queue, or none yet.
RingInit ==
  /\ writeIdx = 0 /\ readIdxCache = 0 /\ readIdx = 0 /\ writeIdxCache = 0
  /\ slots = [i \in Idx |-> Raw]
  /\ ppc = "idle" /\ arg = NoData /\ accepted = FALSE
  /\ cpc = "idle" /\ val = NoData /\ got = NoData
  /\ phase \in {"open", "freed"}

EmplaceStep == EmplaceLoad \/ EmplaceConstruct \/ EmplaceStore
PopStep == FrontLoad \/ PopCopy \/ PopDestroy \/ PopAdvance

RingNext ==
  \/ \E v \in Data : EmplaceCall(v)
  \/ EmplaceStep
  \/ FrontCall
  \/ PopStep
  \/ BeginDestroy
  \/ Construct

RingSpec == RingInit /\ [][RingNext]_ringVars

-----------------------------------------------------------------------------
(* Properties.                                                             *)

RingTypeOK ==
  /\ writeIdx \in Idx /\ readIdxCache \in Idx
  /\ readIdx \in Idx /\ writeIdxCache \in Idx
  /\ slots \in [Idx -> Data \cup {Raw}]
  /\ ppc \in {"idle", "load", "construct", "store"}
  /\ arg \in Data \cup {NoData}
  /\ accepted \in BOOLEAN
  /\ cpc \in {"idle", "load", "copy", "destroy", "advance"}
  /\ val \in Data \cup {NoData}
  /\ got \in Data \cup {NoData}
  /\ phase \in {"open", "closing", "freed"}

\* The producer never constructs in the slot the consumer is copying from or
\* destroying, although neither takes a lock and both decide on positions
\* they cached earlier.
SlotRaceFree ==
  ppc = "construct" /\ cpc \in {"copy", "destroy"} => writeIdx # readIdx

\* An object is constructed only over raw storage, and only a live object is
\* copied or destroyed: no element (and no shared_ptr in it) is overwritten
\* without its destructor, or destroyed twice.
SlotLifetime ==
  /\ ppc = "construct" => slots[writeIdx] = Raw
  /\ cpc \in {"copy", "destroy"} => slots[readIdx] # Raw

\* The destructor leaves no live object behind: draining through front() and
\* pop() reaches every element however far the cached indices lag.
NoLeak == phase = "freed" => \A i \in Idx : slots[i] = Raw

\* The queue is a bounded FIFO.  A push takes effect when the write index is
\* stored, a pop when the read index is.
Queued ==
  [k \in 1 .. Dist(readIdx, writeIdx) |->
     IF k = 1 /\ cpc = "advance" THEN val ELSE slots[Ahead(readIdx, k - 1)]]

Fifo == INSTANCE BoundedFifo WITH
  Capacity     <- SlotCount - 1,
  SpuriousFail <- StaleLoads,
  buf          <- IF phase = "open" THEN Queued ELSE <<>>,
  offer        <- IF ppc = "idle" THEN NoData ELSE arg,
  asking       <- phase = "open" /\ cpc # "idle",
  open         <- phase = "open"

ImplementsFifo == Fifo!Spec

\* Wait-freedom, the "lockfree and nonblocking" of sub-queue.hpp: a call of
\* either side returns however the other side is scheduled, or if it stops.
EmplaceReturns == ppc # "idle" ~> ppc = "idle"
PopReturns == cpc # "idle" ~> cpc = "idle"
=============================================================================
