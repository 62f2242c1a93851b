------------------------------ MODULE TopicRing ------------------------------
(***************************************************************************)
(* A topic whose queue of one subscriber, Watched, is the ring itself:     *)
(* Topic with the steps of SpscQueue in place of that queue's contents.    *)
(*                                                                         *)
(* Every publisher that comes to the queue runs emplace() with a write     *)
(* index of its own; nothing in this module keeps two of them apart, or    *)
(* out of a ring that is being deleted.  That the topic's caches and locks *)
(* do both is what ImplementsRing says; that push() and pop() of the queue *)
(* can then be taken for single steps is what ImplementsTopic says.        *)
(***************************************************************************)
EXTENDS Topic, SpscQueue

CONSTANT Watched   \* the subscriber whose queue is a ring

ASSUME WatchedAssumption ==
  /\ Watched \in Subs
  /\ Data = Element /\ NoData = NoElement
  /\ Requested = Capacity
  /\ StaleLoads = SpuriousDrop

\* Of SpscQueue's variables, ppc and arg only record what SpscQueue would call
\* its producer: the publisher that moved last.  Of Topic's, fifo[Watched]
\* records the elements accepted and not yet popped.
VARIABLES
  emplacing,   \* where each publisher is in emplace() on the ring
  wIdx         \* its w_idx

topicRingVars == <<topicVars, ringVars, emplacing, wIdx>>

Leaving == pc[Watched] = "finish" /\ Watched \notin joining

-----------------------------------------------------------------------------
(* sub_queue::push on Watched's queue.                                     *)

At(p, from) == pc[p] = "push" /\ cur[p] = Watched /\ emplacing[p] = from

MoveTo(p, to) == emplacing' = [emplacing EXCEPT ![p] = to] /\ ppc' = to

RingCall(p) ==
  /\ At(p, "idle")
  /\ MoveTo(p, IF FullCheck(writeIdx, readIdxCache) THEN "load" ELSE "construct")
  /\ wIdx' = [wIdx EXCEPT ![p] = writeIdx]
  /\ arg' = sending[p]
  /\ UNCHANGED <<topicVars, writeIdx, readIdxCache, accepted, consumerVars, slots, phase>>

\* emplace() returns, and with it sub_queue::push.
Return(p, answer) ==
  /\ FifoPush(p)
  /\ accepted' = answer
  /\ pushCount' = [pushCount EXCEPT ![Watched] = @ + 1]
  /\ IF answer
     THEN fifo' = [fifo EXCEPT ![Watched] = Append(@, sending[p])] /\ UNCHANGED dropCount
     ELSE dropCount' = [dropCount EXCEPT ![Watched] = @ + 1] /\ UNCHANGED fifo
  /\ UNCHANGED <<nextSeqno, sending, overlaps, taken>>

RingLoad(p) ==
  /\ At(p, "load")
  /\ readIdxCache' \in Loadable(readIdxCache, readIdx)
  /\ IF FullCheck(wIdx[p], readIdxCache')
     THEN MoveTo(p, "idle") /\ Return(p, FALSE)
     ELSE MoveTo(p, "construct") /\ UNCHANGED <<topicVars, accepted>>
  /\ UNCHANGED <<writeIdx, arg, wIdx, consumerVars, slots, phase>>

RingConstruct(p) ==
  /\ At(p, "construct")
  /\ MoveTo(p, "store")
  /\ slots' = [slots EXCEPT ![wIdx[p]] = sending[p]]
  /\ UNCHANGED <<topicVars, writeIdx, readIdxCache, arg, accepted, wIdx, consumerVars, phase>>

RingStore(p) ==
  /\ At(p, "store")
  /\ MoveTo(p, "idle")
  /\ writeIdx' = Succ(wIdx[p])
  /\ Return(p, TRUE)
  /\ UNCHANGED <<readIdxCache, arg, wIdx, consumerVars, slots, phase>>

-----------------------------------------------------------------------------
(* topic::pop on it, construction and destruction.                         *)

RingPop ==
  /\ pc[Watched] = "in"
  /\ \/ FrontCall \/ FrontLoad \/ PopCopy \/ PopDestroy
  /\ UNCHANGED <<topicVars, emplacing, wIdx>>

RingPopEnd ==
  /\ pc[Watched] = "in"
  /\ PopAdvance
  /\ taken' = [taken EXCEPT ![Watched] = val]
  /\ fifo' = [fifo EXCEPT ![Watched] = Tail(@)]
  /\ UNCHANGED <<vars, nextSeqno, sending, overlaps, pushCount, dropCount, emplacing, wIdx>>

RingJoin ==
  /\ Bare(Join(Watched))
  /\ NewRing
  /\ UNCHANGED <<emplacing, wIdx>>

\* delete q, in unsubscribe(), up to the ring's loop.
RingDelete ==
  /\ Leaving /\ phase = "open"
  /\ phase' = "closing"
  /\ UNCHANGED <<topicVars, producerVars, consumerVars, slots, emplacing, wIdx>>

RingDrain ==
  /\ Leaving /\ phase = "closing"
  /\ FrontCall \/ PopStep
  /\ UNCHANGED <<topicVars, emplacing, wIdx>>

-----------------------------------------------------------------------------

TopicRingInit ==
  /\ TopicInit
  /\ RingInit /\ phase = "freed"
  /\ emplacing = [p \in Pubs |-> "idle"]
  /\ wIdx = [p \in Pubs |-> 0]

\* The steps that leave the ring alone.  The thread that destroys the sub<T>
\* is the one that pops.
Elsewhere ==
  /\ \/ \E m \in Members :
          \/ m # Watched /\ (Bare(Join(m)) \/ FinishFlush(m))
          \/ (m = Watched => cpc = "idle") /\ LeaveIdle(m)
          \/ Bare(Lock(m) \/ CacheCopy(m) \/ CacheSwap(m) \/ Drained(m) \/ FreeOld(m))
     \/ (Leaving => phase = "freed") /\ FinishFlush(Watched)
     \/ \E p \in Pubs :
          \/ Number(p) \/ PushBegin(p) \/ PushEnd(p)
          \/ cur[p] # Watched /\ PushOne(p)
          \/ Bare(CacheLoad(p) \/ Visit(p) \/ QueueLock(p) \/ QueueUnlock(p) \/ Notify(p))
     \/ \E s \in Subs \ {Watched} : Pop(s)
     \/ \E s \in Subs : Bare(WaitLock(s) \/ WaitUnlock(s))
  /\ UNCHANGED <<ringVars, emplacing, wIdx>>

TopicRingNext ==
  \/ \E p \in Pubs : RingCall(p) \/ RingLoad(p) \/ RingConstruct(p) \/ RingStore(p)
  \/ RingPop \/ RingPopEnd
  \/ RingJoin \/ RingDelete \/ RingDrain
  \/ Elsewhere

TopicRingSpec == TopicRingInit /\ [][TopicRingNext]_topicRingVars

-----------------------------------------------------------------------------
(* Properties.                                                             *)

\* In a topic with any number of publishers, whatever registrations overlap
\* their pushes, the ring sees what SpscQueue takes for granted: one producer
\* at a time, that finds the write index where the last one left it, one
\* consumer, and nobody inside when the destructor runs.
ImplementsRing == RingSpec

\* Seen from the topic, an element is in the queue from the moment its write
\* index is stored to the moment the read index is, and sub_queue::push and
\* pop are single steps on it: what Topic says of numbers, order and drops
\* holds of the code down to its loads and stores.
ImplementsTopic == TopicSpec
=============================================================================
