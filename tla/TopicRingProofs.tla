--------------------------- MODULE TopicRingProofs ---------------------------
(***************************************************************************)
(* Proofs about TopicRing, for any finite sets of publishers and           *)
(* subscribers, any capacity, any bound on the number of pushes, with or   *)
(* without stale loads: every step is one of SpscQueue on the ring, so the *)
(* topic uses its queues as they may be used, and one of Topic, so its     *)
(* pushes and pops may be taken for single steps.  What is proved of       *)
(* either module is then true of a topic with its ring.                    *)
(***************************************************************************)
EXTENDS TopicRing, TopicProofs, SpscQueueProofs

-----------------------------------------------------------------------------
(* The inductive invariant: Topic's, SpscQueue's, and what joins the two.  *)

\* At most one publisher is in emplace(), and it is where the ring's producer
\* is.
Inside ==
  /\ emplacing \in [Pubs -> {"idle", "load", "construct", "store"}]
  /\ wIdx \in [Pubs -> Idx]
  /\ \A p \in Pubs : emplacing[p] # "idle" =>
       /\ pc[p] = "push" /\ cur[p] = Watched
       /\ ppc = emplacing[p] /\ arg = sending[p] /\ wIdx[p] = writeIdx
  /\ ppc # "idle" => \E p \in Pubs : emplacing[p] # "idle"

\* The ring lives as long as its subscriber's queue, and its subscriber uses
\* it between subscribe() and unsubscribe().
Life ==
  /\ pc[Watched] = "out" => phase = "freed" /\ fifo[Watched] = <<>>
  /\ pc[Watched] # "out" /\ ~Leaving => phase = "open"
  /\ phase = "closing" => Leaving
  /\ cpc # "idle" => pc[Watched] = "in" \/ phase = "closing"

\* While the queue exists, the ring holds what the topic thinks it does.
Holds == phase = "open" => fifo[Watched] = Queued

TopicRingInv == DataInv /\ RingInv /\ Inside /\ Life /\ Holds

USE DEF Members, Readers, Threads, AdminPC, HoldPC, WalkPC, AtQueuePC,
        Goto, Step, heapVars, adminVars, mutexVars, walkVars
USE ThreadsAssumption, TopicAssumption, WatchedAssumption
USE DEF queueVars, dataVars

-----------------------------------------------------------------------------
(* What a publisher finds when it comes to the queue.                      *)

\* unsubscribe() deletes the queue of a subscriber that no cache lists.
LEMMA PusherKeepsQueue ==
  ASSUME TopicRingInv, NEW p \in Pubs, pc[p] = "push", cur[p] = Watched
  PROVE  pc[Watched] # "out" /\ ~Leaving /\ phase = "open" /\ sending[p] \in Data
  <1> USE DEF TopicRingInv, DataInv, IInv
  <1>1. /\ snap[p] # None /\ snap[p] \in allocated /\ Watched \in cache[snap[p]]
    BY AtQueue DEF SubsOf, Walking
  <1>2. pc[Watched] # "out"
    BY <1>1 DEF Listed
  <1>3. ~Leaving
    BY <1>1 DEF Leaving, Heap, Listed
  <1>4. sending[p] \in Data
    BY DEF DataType, Sending
  <1> QED  BY <1>2, <1>3, <1>4 DEF Life

\* Nobody else is in emplace() then.
LEMMA PusherIsAlone ==
  ASSUME TopicRingInv, NEW p \in Pubs, pc[p] = "push", cur[p] = Watched
  PROVE  /\ \A q \in Pubs \ {p} : emplacing[q] = "idle"
         /\ ppc = emplacing[p]
  <1>1. OneProducer
    BY ProducersApart DEF TopicRingInv, DataInv
  <1>2. \A q \in Pubs \ {p} : emplacing[q] = "idle"
    BY <1>1 DEF OneProducer, TopicRingInv, Inside
  <1> QED  BY <1>2 DEF TopicRingInv, Inside

\* The destructor runs when nobody is inside.
LEMMA NobodyInside ==
  ASSUME TopicRingInv, pc[Watched] = "out" \/ Leaving
  PROVE  ppc = "idle"
  BY PusherKeepsQueue DEF TopicRingInv, Inside

-----------------------------------------------------------------------------
(* Every step is one that the ring allows.                                 *)

RingCalls(p) == RingCall(p) \/ RingLoad(p) \/ RingConstruct(p) \/ RingStore(p)

LEMMA CallIsEmplaceCall ==
  ASSUME TopicRingInv, NEW p \in Pubs, RingCall(p)
  PROVE  EmplaceCall(sending[p]) /\ sending[p] \in Data
  BY PusherKeepsQueue, PusherIsAlone DEF RingCall, At, MoveTo, EmplaceCall

\* The publisher's own write index is the ring's.
LEMMA InsideRing ==
  ASSUME TopicRingInv, NEW p \in Pubs, NEW from, At(p, from), from # "idle"
  PROVE  /\ ppc = from /\ phase = "open" /\ wIdx[p] = writeIdx
         /\ arg = sending[p] /\ pc[p] = "push" /\ cur[p] = Watched
  BY PusherKeepsQueue DEF At, TopicRingInv, Inside

LEMMA LoadIsEmplaceLoad ==
  ASSUME TopicRingInv, NEW p \in Pubs, RingLoad(p)
  PROVE  EmplaceLoad
  BY InsideRing DEF RingLoad, MoveTo, Return, EmplaceLoad

LEMMA ConstructIsEmplaceConstruct ==
  ASSUME TopicRingInv, NEW p \in Pubs, RingConstruct(p)
  PROVE  EmplaceConstruct
  BY InsideRing DEF RingConstruct, MoveTo, EmplaceConstruct

LEMMA StoreIsEmplaceStore ==
  ASSUME TopicRingInv, NEW p \in Pubs, RingStore(p)
  PROVE  EmplaceStore
  BY InsideRing DEF RingStore, MoveTo, Return, EmplaceStore

LEMMA RingStep == TopicRingInv /\ [TopicRingNext]_topicRingVars => [RingNext]_ringVars
  <1> SUFFICES ASSUME TopicRingInv, [TopicRingNext]_topicRingVars
               PROVE  RingNext \/ UNCHANGED ringVars
    OBVIOUS
  <1> USE DEF RingNext
  <1>1. ASSUME NEW p \in Pubs, RingCalls(p) PROVE RingNext
    BY <1>1, CallIsEmplaceCall, LoadIsEmplaceLoad, ConstructIsEmplaceConstruct,
       StoreIsEmplaceStore DEF RingCalls, EmplaceStep
  <1>2. CASE RingPop
    BY <1>2 DEF RingPop, PopStep
  <1>3. CASE RingPopEnd
    BY <1>3 DEF RingPopEnd, PopStep
  <1>4. CASE RingJoin
    BY <1>4 DEF RingJoin, Construct, Bare, Join, TopicRingInv, Life
  <1>5. CASE RingDelete
    <2>1. cpc = "idle"
      BY <1>5 DEF RingDelete, Leaving, TopicRingInv, Life
    <2> QED  BY <1>5, <2>1, NobodyInside DEF RingDelete, BeginDestroy
  <1>6. CASE RingDrain
    BY <1>6 DEF RingDrain
  <1>7. CASE Elsewhere
    BY <1>7 DEF Elsewhere
  <1>8. CASE UNCHANGED topicRingVars
    BY <1>8 DEF topicRingVars
  <1> QED
    BY <1>1, <1>2, <1>3, <1>4, <1>5, <1>6, <1>7, <1>8 DEF TopicRingNext, RingCalls

-----------------------------------------------------------------------------
(* Every step is one of the topic.                                         *)

LEMMA CapacityIs == SlotCount - 1 = Capacity
  BY DEF SlotCount

\* A push is refused by a full queue, or because of an old read index.
LEMMA RefusedIsDropped ==
  ASSUME TopicRingInv, NEW p \in Pubs, RingLoad(p), FullCheck(wIdx[p], readIdxCache')
  PROVE  PushOne(p)
  <1>1. /\ ppc = "load" /\ phase = "open" /\ wIdx[p] = writeIdx /\ arg \in Data
        /\ pc[p] = "push" /\ cur[p] = Watched
    BY InsideRing DEF RingLoad, At, TopicRingInv, RingInv, ProducerAtSlot
  <1>2. ppc' = "idle" /\ arg' = arg /\ Return(p, FALSE)
    BY DEF RingLoad, MoveTo
  <1>3. Fifo!Refuse
    <2>1. ~UNCHANGED Fifo!vars
      BY <1>1, <1>2, DataAssumption DEF Fifo!vars
    <2> QED  BY <2>1, LoadIsEmplaceLoad, RefineEmplaceLoad DEF TopicRingInv
  <1>4. SpuriousDrop \/ Len(fifo[cur[p]]) = Capacity
    BY <1>1, <1>3, CapacityIs DEF Fifo!Refuse, TopicRingInv, Holds
  <1> QED  BY <1>1, <1>2, <1>4 DEF Return, PushOne

LEMMA StoredIsPushed ==
  ASSUME TopicRingInv, NEW p \in Pubs, RingStore(p)
  PROVE  PushOne(p) /\ Fifo!Accept
  <1>1. phase = "open" /\ cur[p] = Watched
    BY InsideRing DEF RingStore
  <1>2. Fifo!Accept
    BY StoreIsEmplaceStore, RefineEmplaceStore DEF TopicRingInv
  <1>3. Len(fifo[cur[p]]) < Capacity
    BY <1>1, <1>2, CapacityIs DEF Fifo!Accept, TopicRingInv, Holds
  <1> QED  BY <1>1, <1>2, <1>3 DEF RingStore, Return, PushOne

LEMMA AdvancedIsPopped ==
  ASSUME TopicRingInv, RingPopEnd
  PROVE  Pop(Watched) /\ Fifo!Take
  <1>1. phase = "open" /\ fifo[Watched] = Queued /\ PopAdvance /\ pc[Watched] = "in"
    BY DEF RingPopEnd, Leaving, TopicRingInv, Life, Holds
  <1>2. Fifo!Take
    <2>1. ~UNCHANGED Fifo!vars
      BY <1>1 DEF PopAdvance, Fifo!vars
    <2> QED  BY <1>1, <2>1, RefinePopAdvance DEF TopicRingInv
  <1>3. Queued # <<>> /\ val = Head(Queued)
    BY <1>1, <1>2 DEF PopAdvance, Fifo!Take
  <1> QED  BY <1>1, <1>2, <1>3 DEF RingPopEnd, Pop

LEMMA TopicStep == TopicRingInv /\ [TopicRingNext]_topicRingVars => [TopicNext]_topicVars
  <1> SUFFICES ASSUME TopicRingInv, [TopicRingNext]_topicRingVars
               PROVE  TopicNext \/ UNCHANGED topicVars
    OBVIOUS
  <1>1. ASSUME NEW p \in Pubs, RingCalls(p) PROVE TopicNext \/ UNCHANGED topicVars
    <2>1. CASE RingCall(p) \/ RingConstruct(p)
      BY <2>1 DEF RingCall, RingConstruct
    <2>2. CASE RingLoad(p)
      <3>1. CASE FullCheck(wIdx[p], readIdxCache')
        BY <2>2, <3>1, RefusedIsDropped DEF TopicNext
      <3>2. CASE ~FullCheck(wIdx[p], readIdxCache')
        BY <2>2, <3>2 DEF RingLoad
      <3> QED  BY <3>1, <3>2
    <2>3. CASE RingStore(p)
      BY <2>3, StoredIsPushed DEF TopicNext
    <2> QED  BY <1>1, <2>1, <2>2, <2>3 DEF RingCalls
  <1>2. CASE RingPop \/ RingDelete \/ RingDrain
    BY <1>2 DEF RingPop, RingDelete, RingDrain
  <1>3. CASE RingPopEnd
    BY <1>3, AdvancedIsPopped DEF TopicNext
  <1>4. CASE RingJoin
    BY <1>4 DEF RingJoin, TopicNext
  <1>5. CASE Elsewhere
    <2>1. CASE \E m \in Members :
                 \/ m # Watched /\ (Bare(Join(m)) \/ FinishFlush(m))
                 \/ (m = Watched => cpc = "idle") /\ LeaveIdle(m)
                 \/ Bare(Lock(m) \/ CacheCopy(m) \/ CacheSwap(m) \/ Drained(m) \/ FreeOld(m))
      BY <2>1 DEF TopicNext
    <2>2. CASE (Leaving => phase = "freed") /\ FinishFlush(Watched)
      BY <2>2 DEF TopicNext
    <2>3. CASE \E p \in Pubs :
                 \/ Number(p) \/ PushBegin(p) \/ PushEnd(p)
                 \/ cur[p] # Watched /\ PushOne(p)
                 \/ Bare(CacheLoad(p) \/ Visit(p) \/ QueueLock(p) \/ QueueUnlock(p) \/ Notify(p))
      BY <2>3 DEF TopicNext
    <2>4. CASE \E s \in Subs \ {Watched} : Pop(s)
      BY <2>4 DEF TopicNext
    <2>5. CASE \E s \in Subs : Bare(WaitLock(s) \/ WaitUnlock(s))
      BY <2>5 DEF TopicNext
    <2> QED  BY <1>5, <2>1, <2>2, <2>3, <2>4, <2>5 DEF Elsewhere
  <1>6. CASE UNCHANGED topicRingVars
    BY <1>6 DEF topicRingVars
  <1> QED
    BY <1>1, <1>2, <1>3, <1>4, <1>5, <1>6 DEF TopicRingNext, RingCalls

-----------------------------------------------------------------------------
(* The invariant is inductive.                                             *)

LEMMA TopicRingInitInv == TopicRingInit => TopicRingInv
  <1> SUFFICES ASSUME TopicRingInit PROVE TopicRingInv
    OBVIOUS
  <1> USE DEF TopicRingInit
  <1>1. DataInv
    BY InitIInv, DataTypeInit, SendingInit DEF TopicInit, DataInv
  <1>2. RingInv
    BY RingInitInv
  <1>3. Inside
    BY EmptyRing DEF Inside, RingInit
  <1>4. Life /\ Holds
    BY DEF Life, Holds, RingInit, TopicInit, Init
  <1> QED  BY <1>1, <1>2, <1>3, <1>4 DEF TopicRingInv

\* Inside, while publisher p moves and nobody else is in emplace().
LEMMA MoverInside ==
  ASSUME TopicRingInv, NEW p \in Pubs, pc[p] = "push", cur[p] = Watched,
         NEW to \in {"idle", "load", "construct", "store"}, MoveTo(p, to),
         UNCHANGED <<cur, sending>>,
         wIdx' \in [Pubs -> Idx],
         to # "idle" => pc'[p] = "push" /\ arg' = sending[p] /\ wIdx'[p] = writeIdx'
  PROVE  Inside'
  <1>1. \A q \in Pubs \ {p} : emplacing'[q] = "idle"
    BY PusherIsAlone DEF MoveTo
  <1>2. emplacing'[p] = to /\ ppc' = to
    BY DEF MoveTo, TopicRingInv, Inside
  <1> QED  BY <1>1, <1>2 DEF MoveTo, TopicRingInv, Inside

LEMMA CallKeeps ==
  ASSUME TopicRingInv, NEW p \in Pubs, RingCall(p)
  PROVE  Inside' /\ Life' /\ Holds'
  <1>1. pc[p] = "push" /\ cur[p] = Watched /\ UNCHANGED topicVars
    BY DEF RingCall, At
  <1>2. wIdx' = [wIdx EXCEPT ![p] = writeIdx] /\ writeIdx' = writeIdx
        /\ arg' = sending[p]
    BY DEF RingCall
  <1>3. \E to \in {"load", "construct"} : MoveTo(p, to)
    BY DEF RingCall
  <1>4. wIdx' \in [Pubs -> Idx] /\ wIdx'[p] = writeIdx'
    BY <1>2 DEF TopicRingInv, Inside, RingInv, RingTypeOK
  <1>5. Inside'
    BY <1>1, <1>2, <1>3, <1>4, MoverInside DEF topicVars, vars
  <1>6. Queued' = Queued
    BY DEF RingCall, consumerVars, Queued, Dist
  <1>7. Life' /\ Holds'
    BY <1>1, <1>6 DEF RingCall, consumerVars, topicVars, vars, TopicRingInv, Life, Holds, Leaving
  <1> QED  BY <1>5, <1>7

\* A step of emplace() that does not return.
LEMMA InsideKeeps ==
  ASSUME TopicRingInv, NEW p \in Pubs,
         RingConstruct(p) \/ (RingLoad(p) /\ ~FullCheck(wIdx[p], readIdxCache'))
  PROVE  Inside' /\ Life' /\ Holds'
  <1>1. /\ pc[p] = "push" /\ cur[p] = Watched /\ UNCHANGED topicVars
        /\ wIdx[p] = writeIdx /\ arg = sending[p]
    BY InsideRing DEF RingConstruct, RingLoad, At
  <1>2. UNCHANGED <<wIdx, writeIdx, arg, consumerVars, phase>>
    BY DEF RingConstruct, RingLoad
  <1>3. \E to \in {"construct", "store"} : MoveTo(p, to)
    BY DEF RingConstruct, RingLoad
  <1>4. wIdx \in [Pubs -> Idx]
    BY DEF TopicRingInv, Inside
  <1>5. Inside'
    BY <1>1, <1>2, <1>3, <1>4, MoverInside DEF topicVars, vars
  <1>6. phase = "open"
    BY <1>1, PusherKeepsQueue
  <1>7. Queued' = Queued
    <2>1. CASE RingConstruct(p)
      <3>1. UNCHANGED Fifo!vars
        BY <2>1, ConstructIsEmplaceConstruct, RefineEmplaceConstruct DEF TopicRingInv
      <3> QED  BY <1>2, <1>6, <3>1 DEF Fifo!vars
    <2>2. CASE RingLoad(p)
      BY <2>2, <1>2 DEF RingLoad, consumerVars, Queued, Dist
    <2> QED  BY <2>1, <2>2
  <1>8. Life' /\ Holds'
    BY <1>1, <1>2, <1>7 DEF consumerVars, topicVars, vars, TopicRingInv, Life, Holds, Leaving
  <1> QED  BY <1>5, <1>8

\* A step of emplace() that returns, and sub_queue::push with it.
LEMMA ReturnKeeps ==
  ASSUME TopicRingInv, NEW p \in Pubs,
         RingStore(p) \/ (RingLoad(p) /\ FullCheck(wIdx[p], readIdxCache'))
  PROVE  Inside' /\ Life' /\ Holds'
  <1>1. /\ pc[p] = "push" /\ cur[p] = Watched
        /\ pc[Watched] # "out" /\ ~Leaving /\ phase = "open"
    BY InsideRing, PusherKeepsQueue DEF RingStore, RingLoad, At
  <1>2. MoveTo(p, "idle") /\ UNCHANGED <<wIdx, consumerVars, phase>>
    BY DEF RingStore, RingLoad
  <1>3. FifoPush(p) /\ UNCHANGED sending
    BY DEF RingStore, RingLoad, Return
  <1>4. UNCHANGED <<cur, joining>> /\ pc' = [pc EXCEPT ![p] = pc'[p]]
    BY <1>3 DEF FifoPush, TopicRingInv, DataInv, IInv, TypeOK
  <1>5. wIdx \in [Pubs -> Idx]
    BY DEF TopicRingInv, Inside
  <1>6. Inside'
    BY <1>1, <1>2, <1>3, <1>4, <1>5, MoverInside
  <1>7. Life'
    <2>1. pc'[Watched] = pc[Watched]
      BY <1>4 DEF TopicRingInv, DataInv, IInv, TypeOK
    <2> QED  BY <1>1, <1>2, <1>4, <2>1 DEF consumerVars, TopicRingInv, Life, Leaving
  <1>8. Holds'
    <2>1. CASE RingStore(p)
      <3>1. Queued' = Append(Queued, sending[p])
        BY <2>1, <1>1, <1>2, InsideRing, StoredIsPushed, DataAssumption
        DEF RingStore, Fifo!Accept
      <3>2. fifo'[Watched] = Append(fifo[Watched], sending[p])
        BY <2>1 DEF RingStore, Return, TopicRingInv, DataInv, DataType
      <3> QED  BY <1>1, <3>1, <3>2 DEF TopicRingInv, Holds
    <2>2. CASE RingLoad(p) /\ FullCheck(wIdx[p], readIdxCache')
      <3>1. Queued' = Queued
        BY <2>2 DEF RingLoad, consumerVars, Queued, Dist
      <3>2. fifo' = fifo
        BY <2>2 DEF RingLoad, Return
      <3> QED  BY <1>2, <3>1, <3>2 DEF TopicRingInv, Holds
    <2> QED  BY <2>1, <2>2
  <1> QED  BY <1>6, <1>7, <1>8

\* Steps on the ring of which the publishers see nothing.
LEMMA OthersInside ==
  ASSUME TopicRingInv, UNCHANGED <<emplacing, wIdx, ppc, arg, writeIdx>>,
         \A p \in Pubs : pc[p] = "push" /\ cur[p] = Watched =>
           pc'[p] = "push" /\ cur'[p] = Watched /\ sending'[p] = sending[p]
  PROVE  Inside'
  BY DEF TopicRingInv, Inside

LEMMA PopKeeps ==
  ASSUME TopicRingInv, RingPop
  PROVE  Inside' /\ Life' /\ Holds'
  <1>1. pc[Watched] = "in" /\ phase = "open" /\ UNCHANGED <<topicVars, emplacing, wIdx>>
    BY DEF RingPop, Leaving, TopicRingInv, Life
  <1>2. UNCHANGED <<producerVars, phase>>
    BY <1>1 DEF RingPop, FrontCall, FrontLoad, PopCopy, PopDestroy
  <1>3. Inside'
    BY <1>1, <1>2, OthersInside DEF topicVars, vars, producerVars
  <1>4. Queued' = Queued
    <2>1. CASE FrontCall \/ FrontLoad
      BY <2>1, SameQueued DEF TopicRingInv, FrontCall, FrontLoad, AfterFront, producerVars
    <2>2. CASE PopCopy
      BY <2>2, SameQueued DEF TopicRingInv, PopCopy, producerVars
    <2>3. CASE PopDestroy
      <3>1. UNCHANGED Fifo!vars
        BY <2>3, RefinePopDestroy DEF TopicRingInv
      <3> QED  BY <1>1, <1>2, <3>1 DEF Fifo!vars
    <2> QED  BY <2>1, <2>2, <2>3 DEF RingPop
  <1>5. Life' /\ Holds'
    BY <1>1, <1>2, <1>4 DEF topicVars, vars, TopicRingInv, Life, Holds, Leaving
  <1> QED  BY <1>3, <1>5

LEMMA PopEndKeeps ==
  ASSUME TopicRingInv, RingPopEnd
  PROVE  Inside' /\ Life' /\ Holds'
  <1>1. pc[Watched] = "in" /\ phase = "open" /\ UNCHANGED <<vars, sending, emplacing, wIdx>>
    BY DEF RingPopEnd, Leaving, TopicRingInv, Life
  <1>2. UNCHANGED <<producerVars, phase>>
    BY DEF RingPopEnd, PopAdvance
  <1>3. Inside'
    BY <1>1, <1>2, OthersInside DEF vars, producerVars
  <1>4. Queued' = Tail(Queued)
    BY <1>1, <1>2, AdvancedIsPopped DEF Fifo!Take
  <1>5. fifo'[Watched] = Tail(fifo[Watched])
    BY DEF RingPopEnd, TopicRingInv, DataInv, DataType
  <1>6. Life' /\ Holds'
    BY <1>1, <1>2, <1>4, <1>5 DEF vars, TopicRingInv, Life, Holds, Leaving
  <1> QED  BY <1>3, <1>6

LEMMA RingJoinKeeps ==
  ASSUME TopicRingInv, RingJoin
  PROVE  Inside' /\ Life' /\ Holds'
  <1>1. /\ pc[Watched] = "out" /\ pc'[Watched] = "lock"
        /\ Watched \in joining'
        /\ \A p \in Pubs : pc'[p] = pc[p]
        /\ UNCHANGED <<cur, sending, fifo, emplacing, wIdx, ppc, arg, cpc>>
    BY DEF RingJoin, NewRing, Bare, Join, TopicRingInv, DataInv, IInv, TypeOK
  <1>2. phase = "freed" /\ fifo[Watched] = <<>> /\ phase' = "open"
    BY <1>1 DEF RingJoin, NewRing, TopicRingInv, Life
  <1>3. ppc = "idle" /\ cpc = "idle"
    BY <1>1, <1>2, NobodyInside DEF TopicRingInv, Life
  <1>4. Inside'
    BY <1>1, <1>3 DEF TopicRingInv, Inside
  <1>5. Queued' = <<>>
    <2>1. Fifo!Reopen
      BY <1>2, RefineConstruct DEF RingJoin, Construct, TopicRingInv
    <2> QED  BY <1>2, <2>1 DEF Fifo!Reopen
  <1>6. Life' /\ Holds'
    BY <1>1, <1>2, <1>3, <1>5 DEF Life, Holds, Leaving
  <1> QED  BY <1>4, <1>6

LEMMA DestroyKeeps ==
  ASSUME TopicRingInv, RingDelete \/ RingDrain
  PROVE  Inside' /\ Life' /\ Holds'
  <1>1. Leaving /\ UNCHANGED <<topicVars, emplacing, wIdx, producerVars>>
    BY DEF RingDelete, RingDrain, PopStep, FrontCall, FrontLoad, PopCopy, PopDestroy, PopAdvance
  <1>2. phase' \in {"closing", "freed"} /\ (phase' = "freed" => cpc' = "idle")
    <2>1. CASE RingDelete
      BY <2>1 DEF RingDelete
    <2>2. CASE RingDrain
      BY <2>2 DEF RingDrain, PopStep, FrontCall, FrontLoad, PopCopy, PopDestroy, PopAdvance
    <2> QED  BY <2>1, <2>2
  <1>3. Inside'
    BY <1>1, OthersInside DEF topicVars, vars, producerVars
  <1>4. Life' /\ Holds'
    BY <1>1, <1>2 DEF topicVars, vars, TopicRingInv, Life, Holds, Leaving
  <1> QED  BY <1>3, <1>4

-----------------------------------------------------------------------------
(* The steps that leave the ring alone.                                    *)

LEMMA RegistrationKeeps ==
  ASSUME TopicRingInv, UNCHANGED <<ringVars, emplacing, wIdx>>, NEW m \in Members,
         \/ m # Watched /\ (Bare(Join(m)) \/ FinishFlush(m))
         \/ (m = Watched => cpc = "idle") /\ LeaveIdle(m)
         \/ Bare(Lock(m) \/ CacheCopy(m) \/ CacheSwap(m) \/ Drained(m) \/ FreeOld(m))
         \/ m = Watched /\ (Leaving => phase = "freed") /\ FinishFlush(m)
  PROVE  Inside' /\ Life' /\ Holds'
  <1> USE DEF TopicRingInv, DataInv, IInv, TypeOK
  <1>1. /\ pc' = [pc EXCEPT ![m] = pc'[m]] /\ pc[m] # "push"
        /\ UNCHANGED <<cur, sending>>
    BY DEF Bare, LeaveIdle, FinishFlush, Join, Leave, Lock, CacheCopy, CacheSwap, Drained,
           FreeOld, Finish
  <1>2. UNCHANGED <<ppc, arg, writeIdx, phase, cpc>>
    BY DEF ringVars, producerVars, consumerVars
  <1>3. Inside'
    BY <1>1, <1>2, OthersInside
  <1>4. Queued' = Queued
    BY DEF ringVars, producerVars, consumerVars, Queued, Dist
  <1>5. CASE m # Watched
    <2>1. fifo'[Watched] = fifo[Watched]
      BY <1>5 DEF Bare, LeaveIdle, FinishFlush, DataType
    <2>2. pc'[Watched] = pc[Watched]
      BY <1>1, <1>5
    <2>3. Watched \in joining' <=> Watched \in joining
      BY <1>5 DEF Bare, LeaveIdle, FinishFlush, Join, Leave, Lock, CacheCopy, CacheSwap, Drained,
           FreeOld, Finish
    <2> QED  BY <1>2, <1>3, <1>4, <2>1, <2>2, <2>3 DEF Life, Holds, Leaving
  <1>6. CASE m = Watched /\ LeaveIdle(m) /\ cpc = "idle"
    <2>1. pc[m] = "in" /\ pc'[m] = "lock" /\ fifo' = fifo
      BY <1>6 DEF LeaveIdle, Leave
    <2> QED  BY <1>2, <1>3, <1>4, <1>6, <2>1 DEF Life, Holds, Leaving
  <1>7. CASE /\ m = Watched
             /\ Bare(Lock(m) \/ CacheCopy(m) \/ CacheSwap(m) \/ Drained(m) \/ FreeOld(m))
    <2>1. /\ pc[m] \in {"lock", "copy", "swap", "drain", "free"}
          /\ pc'[m] \in AdminPC
          /\ UNCHANGED <<joining, fifo>>
      BY <1>7 DEF Bare, Lock, CacheCopy, CacheSwap, Drained, FreeOld
    <2> QED  BY <1>2, <1>3, <1>4, <1>7, <2>1 DEF Life, Holds, Leaving
  <1>8. CASE m = Watched /\ (Leaving => phase = "freed") /\ FinishFlush(m)
    <2>1. CASE m \in joining
      <3>1. pc[m] = "finish" /\ pc'[m] = "in" /\ fifo' = fifo
        BY <1>8, <2>1 DEF FinishFlush, Finish
      <3> QED  BY <1>2, <1>3, <1>4, <1>8, <2>1, <3>1 DEF Life, Holds, Leaving
    <2>2. CASE m \notin joining
      <3>1. pc[m] = "finish" /\ pc'[m] = "out" /\ fifo'[m] = <<>>
        BY <1>8, <2>2 DEF FinishFlush, Finish, DataType
      <3>2. phase = "freed" /\ cpc = "idle"
        BY <1>8, <2>2, <3>1 DEF Leaving, RingInv, ConsumerAtSlot
      <3> QED  BY <1>2, <1>3, <1>8, <3>1, <3>2 DEF Life, Holds, Leaving
    <2> QED  BY <2>1, <2>2
  <1> QED  BY <1>5, <1>6, <1>7, <1>8

LEMMA PushKeeps ==
  ASSUME TopicRingInv, UNCHANGED <<ringVars, emplacing, wIdx>>, NEW p \in Pubs,
         \/ Number(p) \/ PushBegin(p) \/ PushEnd(p)
         \/ cur[p] # Watched /\ PushOne(p)
         \/ Bare(CacheLoad(p) \/ Visit(p) \/ QueueLock(p) \/ QueueUnlock(p) \/ Notify(p))
  PROVE  Inside' /\ Life' /\ Holds'
  <1> USE DEF TopicRingInv, DataInv, IInv, TypeOK
  <1>1. UNCHANGED <<ppc, arg, writeIdx, phase, cpc>>
    BY DEF ringVars, producerVars, consumerVars
  <1>2. /\ pc' = [pc EXCEPT ![p] = pc'[p]] /\ joining' = joining
        /\ fifo'[Watched] = fifo[Watched]
        /\ pc[p] = "push" => cur[p] # Watched
        /\ \A q \in Pubs \ {p} : cur'[q] = cur[q] /\ sending'[q] = sending[q]
    <2>1. CASE Number(p)
      BY <2>1 DEF Number, Numbered, vars
    <2>2. CASE PushBegin(p)
      BY <2>2 DEF PushBegin, CacheGet
    <2>3. CASE PushEnd(p)
      BY <2>3 DEF PushEnd, CachePut
    <2>4. CASE cur[p] # Watched /\ PushOne(p)
      BY <2>4 DEF PushOne, FifoPush, DataType
    <2>5. CASE Bare(CacheLoad(p) \/ Visit(p) \/ QueueLock(p) \/ QueueUnlock(p) \/ Notify(p))
      BY <2>5 DEF Bare, CacheLoad, Walk, Visit, QueueLock, QueueUnlock, Notify,
                  NotifyLock, NotifyUnlock
    <2> QED  BY <2>1, <2>2, <2>3, <2>4, <2>5
  <1>3. Inside'
    BY <1>1, <1>2, OthersInside
  <1>4. Queued' = Queued
    BY DEF ringVars, producerVars, consumerVars, Queued, Dist
  <1> QED  BY <1>1, <1>2, <1>3, <1>4 DEF Life, Holds, Leaving

LEMMA ElsewhereKeeps ==
  ASSUME TopicRingInv, Elsewhere
  PROVE  Inside' /\ Life' /\ Holds'
  <1>1. UNCHANGED <<ringVars, emplacing, wIdx>>
    BY DEF Elsewhere
  <1>2. ASSUME NEW s \in Subs \ {Watched}, Pop(s) PROVE Inside' /\ Life' /\ Holds'
    <2>1. UNCHANGED <<ppc, arg, writeIdx, phase, cpc, pc, cur, joining, sending>>
      BY <1>1, <1>2 DEF Pop, vars, ringVars, producerVars, consumerVars
    <2>2. fifo'[Watched] = fifo[Watched]
      BY <1>2 DEF Pop, TopicRingInv, DataInv, DataType
    <2>3. Inside'
      BY <1>1, <2>1, OthersInside
    <2>4. Queued' = Queued
      BY <1>1 DEF ringVars, producerVars, consumerVars, Queued, Dist
    <2> QED  BY <2>1, <2>2, <2>3, <2>4 DEF TopicRingInv, Life, Holds, Leaving
  <1>3. ASSUME NEW s \in Subs, Bare(WaitLock(s) \/ WaitUnlock(s))
        PROVE  Inside' /\ Life' /\ Holds'
    <2>1. UNCHANGED <<ppc, arg, writeIdx, phase, cpc, pc, cur, joining, sending, fifo>>
      BY <1>1, <1>3 DEF Bare, WaitLock, WaitUnlock, ringVars, producerVars, consumerVars
    <2>2. Inside'
      BY <1>1, <2>1, OthersInside DEF TopicRingInv
    <2>3. Queued' = Queued
      BY <1>1 DEF ringVars, producerVars, consumerVars, Queued, Dist
    <2> QED  BY <2>1, <2>2, <2>3 DEF TopicRingInv, Life, Holds, Leaving
  <1> QED  BY <1>1, <1>2, <1>3, RegistrationKeeps, PushKeeps DEF Elsewhere

LEMMA TopicRingNextInv ==
  TopicRingInv /\ [TopicRingNext]_topicRingVars => TopicRingInv'
  <1> SUFFICES ASSUME TopicRingInv, [TopicRingNext]_topicRingVars PROVE TopicRingInv'
    OBVIOUS
  <1>1. DataInv'
    BY TopicStep, TopicStepIsCacheStep, StepKeeps, DataTypeNext, SendingNext
    DEF DataInv, TopicRingInv
  <1>2. RingInv'
    BY RingStep, RingNextInv DEF TopicRingInv
  <1>3. Inside' /\ Life' /\ Holds'
    <2>1. ASSUME NEW p \in Pubs, RingCalls(p) PROVE Inside' /\ Life' /\ Holds'
      BY <2>1, CallKeeps, InsideKeeps, ReturnKeeps DEF RingCalls
    <2>2. CASE UNCHANGED topicRingVars
      <3>1. UNCHANGED <<ppc, arg, writeIdx, phase, cpc, pc, cur, joining, sending, fifo,
                        emplacing, wIdx>>
        BY <2>2 DEF topicRingVars, topicVars, vars, ringVars, producerVars, consumerVars
      <3>2. Queued' = Queued
        BY <2>2 DEF topicRingVars, ringVars, producerVars, consumerVars, Queued, Dist
      <3> QED  BY <3>1, <3>2, OthersInside DEF TopicRingInv, Life, Holds, Leaving
    <2> QED
      BY <2>1, <2>2, PopKeeps, PopEndKeeps, RingJoinKeeps, DestroyKeeps, ElsewhereKeeps
      DEF TopicRingNext, RingCalls
  <1> QED  BY <1>1, <1>2, <1>3 DEF TopicRingInv

\* The invariant holds of every behaviour.
THEOREM TopicRingInductive == TopicRingSpec => []TopicRingInv
  BY TopicRingInitInv, TopicRingNextInv, PTL DEF TopicRingSpec

-----------------------------------------------------------------------------
(* What it gives.                                                          *)

\* Whatever registrations overlap its pushes, and however many publishers it
\* has, the topic uses the ring as SpscQueue describes: one producer at a
\* time, which finds the write index where the last one stored it, and a
\* destructor that runs when everybody is gone.
THEOREM UsesRing == TopicRingSpec => ImplementsRing
  <1>1. TopicRingInit => RingInit
    BY DEF TopicRingInit
  <1> QED
    BY <1>1, RingStep, TopicRingInductive, PTL DEF TopicRingSpec, ImplementsRing, RingSpec

\* So the ring's own promises hold in the topic: no two threads at a slot, no
\* object overwritten, destroyed twice or left behind.
THEOREM RingSafeInTopic == TopicRingSpec => [](SlotRaceFree /\ SlotLifetime /\ NoLeak)
  BY UsesRing, NoSlotRace, SlotsWellUsed, NothingLeaks, PTL DEF ImplementsRing

\* sub_queue::push and pop may be taken for single steps.
THEOREM OneStepQueues == TopicRingSpec => ImplementsTopic
  <1>1. TopicRingInit => TopicInit
    BY DEF TopicRingInit
  <1> QED
    BY <1>1, TopicStep, TopicRingInductive, PTL DEF TopicRingSpec, ImplementsTopic, TopicSpec

\* So what the topic promises holds down to the loads and stores of the ring.
THEOREM TopicSafeOnRing ==
  TopicRingSpec => ImplementsDelivery /\ [](OwnOrder /\ SeqnoOrder)
  BY OneStepQueues, KeepsPromise, PublisherOrder, NumbersInOrder, PTL DEF ImplementsTopic

\* In particular it is the slots between the two indices, read index first,
\* that are in the order of OwnOrder and SeqnoOrder.
THEOREM RingHoldsTheElements ==
  TopicRingSpec => [](phase = "open" => fifo[Watched] = Queued)
  <1>1. TopicRingInv => (phase = "open" => fifo[Watched] = Queued)
    BY DEF TopicRingInv, Holds
  <1> QED  BY <1>1, TopicRingInductive, PTL
=============================================================================
