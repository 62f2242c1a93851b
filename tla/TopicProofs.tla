----------------------------- MODULE TopicProofs -----------------------------
(***************************************************************************)
(* Proofs about Topic, for any finite sets of publishers and subscribers,  *)
(* any capacity and any bound on the number of pushes: the topic keeps its *)
(* promise (module Delivery), and the elements in a queue are in order.    *)
(* They rest on the invariant of TopicCacheProofs.                         *)
(***************************************************************************)
EXTENDS Topic, TopicCacheProofs, SequenceTheorems

-----------------------------------------------------------------------------
(* The inductive invariant: TopicCache's, and what relates the elements    *)
(* and the pushes to it.                                                   *)

DataType ==
  /\ nextSeqno \in Nat
  /\ sending \in [Pubs -> Element \cup {NoElement}]
  /\ fifo \in [Subs -> Seq(Element)]
  /\ pushCount \in [Subs -> Nat] /\ dropCount \in [Subs -> Nat]
  /\ taken \in [Subs -> Element \cup {NoElement}]

\* A publisher has an element in hand all through topic::push, and the queue
\* it is at is not one it will come to again.
Sending ==
  \A p \in Pubs :
    /\ pc[p] \in HoldPC => sending[p] # NoElement
    /\ sending[p] # NoElement => pc[p] \in {"in"} \cup HoldPC
    /\ pc[p] \in AtQueuePC => cur[p] \notin todo[p]

DataInv == IInv /\ DataType /\ Sending

USE DEF Members, Readers, Threads, AdminPC, HoldPC, WalkPC, AtQueuePC,
        Goto, Step, heapVars, adminVars, mutexVars, walkVars
USE ThreadsAssumption, TopicAssumption
USE DEF queueVars, dataVars

-----------------------------------------------------------------------------
(* Topic runs TopicCache.                                                  *)

LEMMA TopicStepIsCacheStep == [TopicNext]_topicVars => [Next]_vars
  <1> SUFFICES ASSUME [TopicNext]_topicVars PROVE Next \/ UNCHANGED vars
    OBVIOUS
  <1>1. ASSUME NEW m \in Members,
               \/ Bare(Join(m)) \/ LeaveIdle(m) \/ FinishFlush(m)
               \/ Bare(Lock(m) \/ CacheCopy(m) \/ CacheSwap(m) \/ Drained(m) \/ FreeOld(m))
        PROVE  Next
    BY <1>1 DEF Bare, LeaveIdle, FinishFlush, Next, AdminStep
  <1>2. ASSUME NEW p \in Pubs,
               \/ Number(p) \/ PushBegin(p) \/ PushOne(p) \/ PushEnd(p)
               \/ Bare(CacheLoad(p) \/ Visit(p) \/ QueueLock(p) \/ QueueUnlock(p)
                         \/ Notify(p))
        PROVE  Next \/ UNCHANGED vars
    BY <1>2 DEF Bare, Number, PushBegin, PushOne, PushEnd, Next, WalkStep
  <1>3. ASSUME NEW s \in Subs, Pop(s) PROVE UNCHANGED vars
    BY <1>3 DEF Pop
  <1>4. ASSUME NEW s \in Subs, Bare(WaitLock(s) \/ WaitUnlock(s)) PROVE Next
    BY <1>4 DEF Bare, Next
  <1>5. CASE UNCHANGED topicVars
    BY <1>5 DEF topicVars
  <1> QED  BY <1>1, <1>2, <1>3, <1>4, <1>5 DEF TopicNext

\* All that is proved of TopicCache holds of Topic.
THEOREM TopicRunsCache == TopicSpec => Spec
  <1>1. TopicInit => Init
    BY DEF TopicInit
  <1> QED  BY <1>1, TopicStepIsCacheStep, PTL DEF TopicSpec, Spec

-----------------------------------------------------------------------------
(* Types.                                                                  *)

LEMMA DataTypeInit == TopicInit => DataType
  <1> SUFFICES ASSUME TopicInit PROVE DataType
    OBVIOUS
  <1>1. <<>> \in Seq(Element)
    BY EmptySeq
  <1> QED  BY <1>1 DEF TopicInit, DataType

LEMMA DataTypeNext == DataInv /\ [TopicNext]_topicVars => DataType'
  <1> SUFFICES ASSUME DataInv, [TopicNext]_topicVars PROVE DataType'
    OBVIOUS
  <1> USE DEF DataInv, DataType
  <1>1. CASE UNCHANGED dataVars
    BY <1>1
  <1>2. ASSUME NEW p \in Pubs, Number(p) PROVE DataType'
    <2>1. [from |-> p, seqno |-> nextSeqno] \in Element
      BY <1>2 DEF Number, Numbered, Element
    <2>2. nextSeqno' \in Nat /\ sending' \in [Pubs -> Element \cup {NoElement}]
      BY <1>2, <2>1 DEF Number, Numbered
    <2> QED  BY <1>2, <2>2 DEF Number
  <1>3. ASSUME NEW p \in Pubs, PushOne(p) PROVE DataType'
    <2>1. cur[p] \in Subs /\ sending[p] \in Element
      BY <1>3 DEF PushOne, FifoPush, Sending, IInv, Walking
    <2>2. Append(fifo[cur[p]], sending[p]) \in Seq(Element)
      BY <2>1, AppendProperties
    <2>3. pushCount' \in [Subs -> Nat]
      BY <1>3, <2>1 DEF PushOne
    <2>5. dropCount' \in [Subs -> Nat]
      <3>1. dropCount' = dropCount \/ dropCount' = [dropCount EXCEPT ![cur[p]] = @ + 1]
        BY <1>3 DEF PushOne
      <3>2. CASE dropCount' = dropCount
        BY <3>2
      <3>3. CASE dropCount' = [dropCount EXCEPT ![cur[p]] = @ + 1]
        BY <2>1, <3>3
      <3> QED  BY <3>1, <3>2, <3>3
    <2>4. fifo' \in [Subs -> Seq(Element)]
      BY <1>3, <2>1, <2>2 DEF PushOne
    <2> QED  BY <1>3, <2>3, <2>4, <2>5 DEF PushOne
  <1>4. ASSUME NEW p \in Pubs, PushEnd(p) PROVE DataType'
    BY <1>4 DEF PushEnd
  <1>5. ASSUME NEW s \in Subs, Pop(s) PROVE DataType'
    <2>1. Head(fifo[s]) \in Element /\ Tail(fifo[s]) \in Seq(Element)
      BY <1>5, HeadTailProperties DEF Pop
    <2> QED  BY <1>5, <2>1 DEF Pop
  <1>6. ASSUME NEW m \in Members, FinishFlush(m) PROVE DataType'
    <2>1. <<>> \in Seq(Element)
      BY EmptySeq
    <2>2. CASE UNCHANGED queueVars
      BY <1>6, <2>2 DEF FinishFlush
    <2>3. CASE /\ fifo' = [fifo EXCEPT ![m] = <<>>]
               /\ pushCount' = [pushCount EXCEPT ![m] = 0]
               /\ dropCount' = [dropCount EXCEPT ![m] = 0]
               /\ taken' = [taken EXCEPT ![m] = NoElement]
      <3>1. fifo' \in [Subs -> Seq(Element)]
        BY <2>1, <2>3
      <3>2. pushCount' \in [Subs -> Nat] /\ dropCount' \in [Subs -> Nat]
        BY <2>3
      <3>3. taken' \in [Subs -> Element \cup {NoElement}]
        BY <2>3
      <3> QED  BY <1>6, <3>1, <3>2, <3>3 DEF FinishFlush
    <2> QED  BY <1>6, <2>2, <2>3 DEF FinishFlush
  <1>7. CASE UNCHANGED topicVars
    BY <1>1, <1>7 DEF topicVars
  <1> QED
    BY <1>1, <1>2, <1>3, <1>4, <1>5, <1>6, <1>7
    DEF TopicNext, Bare, LeaveIdle, PushBegin

LEMMA SendingInit == TopicInit => Sending
  BY DEF TopicInit, Init, Sending

LEMMA SendingNext == DataInv /\ [TopicNext]_topicVars => Sending'
  <1> SUFFICES ASSUME DataInv, [TopicNext]_topicVars PROVE Sending'
    OBVIOUS
  <1> USE DEF DataInv, DataType, Sending
  <1> USE DEF IInv, TypeOK, Roles, Walking
  <1>1. ASSUME NEW m \in Members, Bare(Join(m)) \/ LeaveIdle(m) \/ FinishFlush(m)
        PROVE  Sending'
    <2>1. CASE Bare(Join(m))
      BY <2>1 DEF Bare, Join
    <2>2. CASE LeaveIdle(m)
      BY <2>2 DEF LeaveIdle, Leave
    <2>3. CASE FinishFlush(m)
      BY <2>3 DEF FinishFlush, Finish
    <2> QED  BY <1>1, <2>1, <2>2, <2>3
  <1>2. ASSUME NEW m \in Members,
               Bare(Lock(m) \/ CacheCopy(m) \/ CacheSwap(m) \/ Drained(m) \/ FreeOld(m))
        PROVE  Sending'
    BY <1>2 DEF Bare, Lock, CacheCopy, CacheSwap, Drained, FreeOld
  <1>3. ASSUME NEW p \in Pubs, Number(p) \/ PushBegin(p) PROVE Sending'
    <2>1. CASE Number(p)
      <3>1. sending' = [sending EXCEPT ![p] = [from |-> p, seqno |-> nextSeqno]]
            /\ pc[p] = "in" /\ UNCHANGED <<pc, cur, todo>>
        BY <2>1 DEF Number, Numbered, vars
      <3>2. [from |-> p, seqno |-> nextSeqno] # NoElement
        OBVIOUS
      <3> QED  BY <3>1, <3>2
    <2>2. CASE PushBegin(p)
      BY <2>2 DEF PushBegin, CacheGet
    <2> QED  BY <1>3, <2>1, <2>2
  <1>4. ASSUME NEW p \in Pubs, PushOne(p) \/ PushEnd(p) PROVE Sending'
    BY <1>4 DEF PushOne, FifoPush, PushEnd, CachePut
  <1>5. ASSUME NEW p \in Pubs,
               Bare(CacheLoad(p) \/ Visit(p) \/ QueueLock(p) \/ QueueUnlock(p)
                      \/ Notify(p))
        PROVE  Sending'
    BY <1>5 DEF Bare, CacheLoad, Walk, Visit, QueueLock, QueueUnlock, Notify,
          NotifyLock, NotifyUnlock
  <1>6. ASSUME NEW s \in Subs, Pop(s) PROVE Sending'
    BY <1>6 DEF Pop, vars
  <1>7. ASSUME NEW s \in Subs, Bare(WaitLock(s) \/ WaitUnlock(s)) PROVE Sending'
    BY <1>7 DEF Bare, WaitLock, WaitUnlock
  <1>8. CASE UNCHANGED topicVars
    BY <1>8 DEF topicVars, vars
  <1> QED  BY <1>1, <1>2, <1>3, <1>4, <1>5, <1>6, <1>7, <1>8 DEF TopicNext

\* The cache's invariant, the types of the elements, and what a publisher has in
\* hand hold of every behaviour.
THEOREM DataInductive == TopicSpec => []DataInv
  <1>1. TopicInit => DataInv
    BY InitIInv, DataTypeInit, SendingInit DEF TopicInit, DataInv
  <1>2. DataInv /\ [TopicNext]_topicVars => DataInv'
    BY TopicStepIsCacheStep, StepKeeps, DataTypeNext, SendingNext DEF DataInv
  <1> QED  BY <1>1, <1>2, PTL DEF TopicSpec

-----------------------------------------------------------------------------
(* The topic keeps its promise: the step each action makes on Delivery.    *)

Pushing == {p \in Pubs : pc[p] \in HoldPC}
ReachedOf == [p \in Pubs |-> Reached(p)]

\* What a step has to leave alone to be a stutter.
LEMMA PromiseStutters ==
  ASSUME UNCHANGED <<nextSeqno, sending, Pushing, due, ReachedOf, alive \cap Subs,
                     Subscribed, fifo, pushCount, dropCount, taken>>
  PROVE  UNCHANGED Promise!vars
  BY DEF Promise!vars, Promise!pushVars, Promise!queueVars, Pushing, ReachedOf

\* A walk reads a cache that no registration writes to.
LEMMA ReachedStable ==
  ASSUME DataInv, NEW p \in Pubs,
         UNCHANGED <<snap[p], todo[p], cur[p]>>,
         \A c \in allocated : cache'[c] = cache[c],
         pc[p] \in {"qlock", "push"} <=> pc'[p] \in {"qlock", "push"}
  PROVE  Reached(p)' = Reached(p)
  BY DEF DataInv, IInv, Walking, Reached, SubsOf

LEMMA RefineJoin ==
  ASSUME DataInv, NEW m \in Members, Bare(Join(m))
  PROVE  Promise!Next \/ UNCHANGED Promise!vars
  <1> USE DEF DataInv, IInv, TypeOK, Roles, Bare, Join
  <1>1. \A p \in Pubs : Reached(p)' = Reached(p)
    BY ReachedStable
  <1>2. Pushing' = Pushing /\ Subscribed' = Subscribed /\ ReachedOf' = ReachedOf
    BY <1>1 DEF Pushing, Subscribed, ReachedOf
  <1>3. CASE m \in Subs
    <2>1. Promise!Create(m)
      BY <1>2, <1>3 DEF Promise!Create, Promise!pushVars, Promise!queueVars,
                        Pushing, ReachedOf
    <2> QED  BY <1>3, <2>1 DEF Promise!Next
  <1>4. CASE m \in Pubs
    BY <1>2, <1>4, PromiseStutters
  <1> QED  BY <1>3, <1>4

LEMMA RefineLeave ==
  ASSUME DataInv, NEW m \in Members, LeaveIdle(m)
  PROVE  Promise!Next \/ UNCHANGED Promise!vars
  <1> USE DEF DataInv, IInv, TypeOK, Roles, LeaveIdle, Leave
  <1>1. \A p \in Pubs : Reached(p)' = Reached(p)
    BY ReachedStable
  <1>2. Pushing' = Pushing /\ ReachedOf' = ReachedOf
    BY <1>1 DEF Pushing, ReachedOf
  <1>3. CASE m \in Subs
    <2>1. Subscribed' = Subscribed \ {m} /\ m \in Subscribed
      BY <1>3 DEF Subscribed
    <2>2. Promise!Unsubscribe(m)
      BY <1>2, <1>3, <2>1
      DEF Promise!Unsubscribe, Promise!queueVars, Pushing, ReachedOf
    <2> QED  BY <1>3, <2>2 DEF Promise!Next
  <1>4. CASE m \in Pubs
    <2>1. Subscribed' = Subscribed /\ due' = due
      BY <1>4 DEF Subscribed
    <2> QED  BY <1>2, <2>1, PromiseStutters
  <1> QED  BY <1>3, <1>4

\* Nobody has reached, or can reach, the queue of a leaver: it is in no cache.
LEMMA LeaverUnreached ==
  ASSUME DataInv, NEW m \in Subs, pc[m] = "finish", m \notin joining
  PROVE  \A p \in Pubs : m \notin Reached(p)
  BY DEF DataInv, IInv, Roles, Heap, Listed, Walking, Reached, SubsOf

LEMMA RefineFinish ==
  ASSUME DataInv, NEW m \in Members, FinishFlush(m)
  PROVE  Promise!Next \/ UNCHANGED Promise!vars
  <1> USE DEF DataInv, IInv, TypeOK, Roles, FinishFlush, Finish
  <1>1. \A p \in Pubs : Reached(p)' = Reached(p)
    BY ReachedStable
  <1>2. Pushing' = Pushing /\ ReachedOf' = ReachedOf
    BY <1>1 DEF Pushing, ReachedOf
  <1>3. CASE m \in Pubs
    <2>1. Subscribed' = Subscribed /\ alive' \cap Subs = alive \cap Subs
      BY <1>3 DEF Subscribed
    <2>2. UNCHANGED queueVars
      BY <1>3
    <2> QED  BY <1>2, <2>1, <2>2, PromiseStutters
  <1>4. CASE m \in Subs /\ m \in joining
    <2>1. Subscribed' = Subscribed \cup {m} /\ m \in alive /\ alive' = alive
      BY <1>4 DEF Subscribed
    <2>2. Promise!Subscribe(m)
      BY <1>2, <1>4, <2>1
      DEF Promise!Subscribe, Promise!pushVars, Promise!queueVars, Pushing, ReachedOf
    <2> QED  BY <1>4, <2>2 DEF Promise!Next
  <1>5. CASE m \in Subs /\ m \notin joining
    <2>1. /\ Subscribed' = Subscribed /\ m \in alive \ Subscribed
          /\ alive' \cap Subs = (alive \cap Subs) \ {m}
      BY <1>5 DEF Subscribed
    <2>2. \A p \in Pubs : m \notin ReachedOf[p]
      BY <1>5, LeaverUnreached DEF ReachedOf
    <2>3. Promise!Delete(m)
      BY <1>2, <1>5, <2>1, <2>2
      DEF Promise!Delete, Promise!pushVars, Pushing, ReachedOf
    <2> QED  BY <1>5, <2>3 DEF Promise!Next
  <1> QED  BY <1>3, <1>4, <1>5

\* The steps of a registration in between are not seen.
LEMMA RefineAdmin ==
  ASSUME DataInv, NEW m \in Members,
         Bare(Lock(m) \/ CacheCopy(m) \/ CacheSwap(m) \/ Drained(m) \/ FreeOld(m))
  PROVE  UNCHANGED Promise!vars
  <1> USE DEF DataInv, IInv, TypeOK, Roles
  <1>1. /\ pc[m] \in {"lock"} \cup AdminPC /\ pc'[m] \in AdminPC
        /\ \A t \in Threads \ {m} : pc'[t] = pc[t]
        /\ UNCHANGED <<alive, due, snap, todo, cur, dataVars>>
    BY DEF Bare, Lock, CacheCopy, CacheSwap, Drained, FreeOld
  <1>2. \A c \in allocated : cache'[c] = cache[c]
    BY DEF Bare, Lock, CacheCopy, CacheSwap, Drained, FreeOld
  <1>3. \A p \in Pubs : Reached(p)' = Reached(p)
    BY <1>1, <1>2, ReachedStable
  <1>4. Pushing' = Pushing /\ Subscribed' = Subscribed /\ ReachedOf' = ReachedOf
    BY <1>1, <1>3 DEF Pushing, Subscribed, ReachedOf
  <1> QED  BY <1>1, <1>4, PromiseStutters

-----------------------------------------------------------------------------
(* The steps of a push, and a pop.                                         *)

LEMMA RefineNumber ==
  ASSUME DataInv, NEW p \in Pubs, Number(p)
  PROVE  Promise!Number(p)
  <1> USE DEF Number, Numbered, vars
  <1>1. \A q \in Pubs : Reached(q)' = Reached(q)
    BY DEF Reached, SubsOf
  <1>2. Pushing' = Pushing /\ Subscribed' = Subscribed /\ ReachedOf' = ReachedOf
    BY <1>1 DEF Pushing, Subscribed, ReachedOf
  <1> QED
    BY <1>2 DEF Promise!Number, Promise!queueVars, Pushing, ReachedOf

LEMMA RefineBegin ==
  ASSUME DataInv, NEW p \in Pubs, PushBegin(p)
  PROVE  Promise!Begin(p)
  <1> USE DEF DataInv, IInv, TypeOK, PushBegin, CacheGet
  <1>1. \A q \in Pubs : Reached(q)' = Reached(q)
    BY ReachedStable
  <1>2. Subscribed' = Subscribed /\ ReachedOf' = ReachedOf
    BY <1>1 DEF Subscribed, ReachedOf
  <1>3. Pushing' = Pushing \cup {p} /\ p \notin Pushing
    BY DEF Pushing
  <1>4. due' = [due EXCEPT ![p] = Subscribed]
    BY DEF StartDue
  <1> QED
    BY <1>2, <1>3, <1>4 DEF Promise!Begin, Promise!queueVars, Pushing, ReachedOf

\* Between its cache_get() and its cache_put(), all a push does that can be
\* seen is to offer the element to one queue after the other.
LEMMA RefineWalk ==
  ASSUME DataInv, NEW p \in Pubs,
         Bare(CacheLoad(p) \/ Visit(p) \/ QueueLock(p) \/ QueueUnlock(p) \/ Notify(p))
  PROVE  UNCHANGED Promise!vars
  <1> USE DEF DataInv, IInv, TypeOK, Roles
  <1>1. /\ pc[p] \in HoldPC /\ pc'[p] \in HoldPC
        /\ \A t \in Threads \ {p} : pc'[t] = pc[t]
        /\ \A t \in Readers \ {p} : UNCHANGED <<snap[t], todo[t], cur[t]>>
        /\ UNCHANGED <<allocated, cache, alive, due, dataVars>>
    BY DEF Bare, CacheLoad, Walk, Visit, QueueLock, QueueUnlock, Notify,
          NotifyLock, NotifyUnlock
  <1>2. \A q \in Pubs \ {p} : Reached(q)' = Reached(q)
    BY <1>1, ReachedStable
  <1>3. Reached(p)' = Reached(p)
    <2>1. CASE CacheLoad(p)
      <3>1. snap[p] = None
        BY <2>1 DEF CacheLoad, Walking
      <3>2. pc'[p] = "next" /\ todo'[p] = SubsOf(snap[p])'
        BY <2>1 DEF CacheLoad, Walk, SubsOf
      <3> QED  BY <3>1, <3>2 DEF Reached
    <2>2. CASE Visit(p)
      <3>1. PICK q \in todo[p] : todo'[p] = todo[p] \ {q} /\ cur'[p] = q
        BY <2>2 DEF Visit
      <3>2. pc[p] = "next" /\ pc'[p] \in {"qlock", "push"}
        BY <2>2 DEF Visit
      <3>3. snap' = snap /\ cache' = cache
        BY <2>2 DEF Visit
      <3>4. snap[p] # None
        BY <3>2 DEF Walking
      <3>5. Reached(p) = SubsOf(snap[p]) \ todo[p]
        BY <3>2, <3>4 DEF Reached
      <3>6. Reached(p)' = SubsOf(snap[p]) \ (todo'[p] \cup {cur'[p]})
        BY <3>2, <3>3, <3>4 DEF Reached, SubsOf
      <3>7. todo'[p] \cup {cur'[p]} = todo[p]
        BY <3>1
      <3>8. SubsOf(snap[p]) \ (todo'[p] \cup {cur'[p]}) = SubsOf(snap[p]) \ todo[p]
        BY <3>7
      <3> QED  BY <3>5, <3>6, <3>8
    <2>3. CASE QueueLock(p)
      BY <2>3, ReachedStable DEF QueueLock
    <2>4. CASE QueueUnlock(p)
      BY <2>4, ReachedStable DEF QueueUnlock
    <2>5. CASE NotifyLock(p)
      BY <2>5, ReachedStable DEF NotifyLock
    <2>6. CASE NotifyUnlock(p)
      <3>1. pc[p] \in {"notify", "counting"} /\ pc'[p] = "next"
            /\ UNCHANGED <<snap, todo, cache>>
        BY <2>6 DEF NotifyUnlock
      <3> QED  BY <3>1 DEF Reached, SubsOf
    <2> QED  BY <2>1, <2>2, <2>3, <2>4, <2>5, <2>6 DEF Bare, Notify
  <1>4. Pushing' = Pushing /\ Subscribed' = Subscribed /\ ReachedOf' = ReachedOf
    BY <1>1, <1>2, <1>3 DEF Pushing, Subscribed, ReachedOf
  <1> QED  BY <1>1, <1>4, PromiseStutters

\* The queue a publisher is at: it exists, and this push has not been there.
LEMMA AtQueue ==
  ASSUME DataInv, NEW p \in Pubs, pc[p] = "push"
  PROVE  /\ cur[p] \in Subs /\ cur[p] \in alive
         /\ cur[p] \in SubsOf(snap[p]) /\ snap[p] # None
         /\ cur[p] \notin Reached(p) /\ cur[p] \notin todo[p]
  <1> USE DEF DataInv, IInv, TypeOK
  <1>1. /\ snap[p] # None /\ snap[p] \in allocated
        /\ cur[p] \in Subs /\ cur[p] \in cache[snap[p]]
    BY DEF Walking
  <1>2. cur[p] \in alive
    BY <1>1 DEF Roles, Listed
  <1> QED  BY <1>1, <1>2 DEF Sending, Reached, SubsOf

LEMMA OneMoreReached ==
  ASSUME DataInv, NEW p \in Pubs, PushOne(p)
  PROVE  /\ Reached(p)' = Reached(p) \cup {cur[p]}
         /\ \A q \in Pubs \ {p} : Reached(q)' = Reached(q)
  <1> USE DEF DataInv, IInv, TypeOK, PushOne, FifoPush
  <1>1. \A q \in Pubs \ {p} : Reached(q)' = Reached(q)
    BY ReachedStable
  <1>2. pc[p] = "push" /\ pc'[p] \in {"qunlock", "notify"}
    OBVIOUS
  <1>3. UNCHANGED <<snap, todo, cur, cache>>
    OBVIOUS
  <1> QED  BY <1>1, <1>2, <1>3, AtQueue DEF Reached, SubsOf

LEMMA RefineOffer ==
  ASSUME DataInv, NEW p \in Pubs, PushOne(p)
  PROVE  Promise!Offer(p, cur[p])
  <1> USE DEF DataInv, IInv, TypeOK, PushOne, FifoPush
  <1>1. /\ pc[p] = "push" /\ pc'[p] \in HoldPC
        /\ \A t \in Threads \ {p} : pc'[t] = pc[t]
    OBVIOUS
  <1>2. Pushing' = Pushing /\ p \in Pushing /\ Subscribed' = Subscribed
    BY <1>1 DEF Pushing, Subscribed
  <1>3. ReachedOf' = [ReachedOf EXCEPT ![p] = @ \cup {cur[p]}]
    BY OneMoreReached DEF ReachedOf
  <1>4. cur[p] \in (alive \cap Subs) \ ReachedOf[p]
    BY <1>1, AtQueue DEF ReachedOf
  <1> QED
    BY <1>2, <1>3, <1>4 DEF Promise!Offer, Pushing, ReachedOf

LEMMA RefineEnd ==
  ASSUME DataInv, NEW p \in Pubs, PushEnd(p)
  PROVE  Promise!End(p)
  <1> USE DEF DataInv, IInv, TypeOK, PushEnd, CachePut
  <1>1. \A q \in Pubs \ {p} : Reached(q)' = Reached(q)
    BY ReachedStable
  <1>2. Reached(p)' = {}
    BY DEF Reached
  <1>3. ReachedOf' = [ReachedOf EXCEPT ![p] = {}]
    BY <1>1, <1>2 DEF ReachedOf
  <1>4. Pushing' = Pushing \ {p} /\ p \in Pushing /\ Subscribed' = Subscribed
    BY DEF Pushing, Subscribed
  <1>5. due[p] = {}
    BY DEF Owed
  <1> QED
    BY <1>3, <1>4, <1>5 DEF Promise!End, Promise!queueVars, Pushing, ReachedOf

LEMMA RefinePop ==
  ASSUME DataInv, NEW s \in Subs, Pop(s)
  PROVE  Promise!Pop(s)
  <1> USE DEF Pop, vars
  <1>1. \A q \in Pubs : Reached(q)' = Reached(q)
    BY DEF Reached, SubsOf
  <1>2. Pushing' = Pushing /\ Subscribed' = Subscribed /\ ReachedOf' = ReachedOf
    BY <1>1 DEF Pushing, Subscribed, ReachedOf
  <1>3. s \in Subscribed
    BY DEF Subscribed
  <1> QED  BY <1>2, <1>3 DEF Promise!Pop, Promise!pushVars, Pushing, ReachedOf

\* The subscriber's own use of its notifier cannot be seen.
LEMMA RefineWait ==
  ASSUME NEW s \in Subs, Bare(WaitLock(s) \/ WaitUnlock(s))
  PROVE  UNCHANGED Promise!vars
  <1> USE DEF Bare, WaitLock, WaitUnlock
  <1>1. \A q \in Pubs : Reached(q)' = Reached(q)
    BY DEF Reached, SubsOf
  <1>2. Pushing' = Pushing /\ Subscribed' = Subscribed /\ ReachedOf' = ReachedOf
    BY <1>1 DEF Pushing, Subscribed, ReachedOf
  <1> QED  BY <1>2, PromiseStutters

LEMMA RefineTopicInit == TopicInit => Promise!Init
  <1> SUFFICES ASSUME TopicInit PROVE Promise!Init
    OBVIOUS
  <1>1. Pushing = {} /\ Subscribed = {}
    BY DEF TopicInit, Init, Pushing, Subscribed
  <1>2. \A p \in Pubs : Reached(p) = {}
    BY DEF TopicInit, Init, Reached
  <1> QED  BY <1>1, <1>2 DEF TopicInit, Init, Promise!Init, Pushing

LEMMA RefineTopicNext ==
  DataInv /\ [TopicNext]_topicVars => [Promise!Next]_(Promise!vars)
  <1> SUFFICES ASSUME DataInv, [TopicNext]_topicVars
               PROVE  Promise!Next \/ UNCHANGED Promise!vars
    OBVIOUS
  <1>1. ASSUME NEW m \in Members,
               \/ Bare(Join(m)) \/ LeaveIdle(m) \/ FinishFlush(m)
               \/ Bare(Lock(m) \/ CacheCopy(m) \/ CacheSwap(m) \/ Drained(m) \/ FreeOld(m))
        PROVE  Promise!Next \/ UNCHANGED Promise!vars
    BY <1>1, RefineJoin, RefineLeave, RefineFinish, RefineAdmin
  <1>2. ASSUME NEW p \in Pubs, Number(p) \/ PushBegin(p) \/ PushEnd(p)
        PROVE  Promise!Next
    BY <1>2, RefineNumber, RefineBegin, RefineEnd DEF Promise!Next
  <1>3. ASSUME NEW p \in Pubs, PushOne(p) PROVE Promise!Next
    <2>1. cur[p] \in Subs
      BY <1>3, AtQueue DEF PushOne, FifoPush
    <2> QED  BY <1>3, <2>1, RefineOffer DEF Promise!Next
  <1>4. ASSUME NEW p \in Pubs,
               Bare(CacheLoad(p) \/ Visit(p) \/ QueueLock(p) \/ QueueUnlock(p)
                      \/ Notify(p))
        PROVE  UNCHANGED Promise!vars
    BY <1>4, RefineWalk
  <1>5. ASSUME NEW s \in Subs, Pop(s) PROVE Promise!Next
    BY <1>5, RefinePop DEF Promise!Next
  <1>6. ASSUME NEW s \in Subs, Bare(WaitLock(s) \/ WaitUnlock(s))
        PROVE  UNCHANGED Promise!vars
    BY <1>6, RefineWait
  <1>7. CASE UNCHANGED topicVars
    <2>1. \A q \in Pubs : Reached(q)' = Reached(q)
      BY <1>7 DEF topicVars, vars, Reached, SubsOf
    <2> QED
      BY <1>7, <2>1, PromiseStutters DEF topicVars, vars, Pushing, Subscribed, ReachedOf
  <1> QED  BY <1>1, <1>2, <1>3, <1>4, <1>5, <1>6, <1>7 DEF TopicNext

\* A topic delivers each push at most once to every queue and at least once to
\* everybody who is subscribed throughout, counts what a full queue drops, and
\* deletes a queue only after the pushes that reached it: through any overlap
\* of pushes, pops and registrations.
THEOREM KeepsPromise == TopicSpec => ImplementsDelivery
  BY RefineTopicInit, RefineTopicNext, DataInductive, PTL
  DEF TopicSpec, ImplementsDelivery, Promise!Spec

-----------------------------------------------------------------------------
(* Order.  What a queue holds, and its subscriber has taken last.          *)

Held(s) == {fifo[s][i] : i \in 1 .. Len(fifo[s])} \cup ({taken[s]} \ {NoElement})

\* The elements of a publisher are numbered upwards; whatever a queue holds
\* of a push in progress that has not reached it is older than that push.
Numbers ==
  /\ \A p \in Pubs :
       sending[p] # NoElement => sending[p].from = p /\ sending[p].seqno < nextSeqno
  /\ \A s \in Subs : \A x \in Held(s) : x.seqno < nextSeqno
  /\ \A s \in Subs, p \in Pubs : \A x \in Held(s) :
       x.from = p /\ sending[p] # NoElement /\ s \notin ReachedOf[p] =>
         x.seqno < sending[p].seqno

\* May y stand behind x in a queue?
Behind(x, y) ==
  /\ x.from = y.from => x.seqno < y.seqno
  /\ x.seqno > y.seqno => {x.seqno, y.seqno} \in overlaps

SortedAt(s) ==
  \A j \in 1 .. Len(fifo[s]) :
    /\ \A i \in 1 .. Len(fifo[s]) : i < j => Behind(fifo[s][i], fifo[s][j])
    /\ taken[s] # NoElement => Behind(taken[s], fifo[s][j])

Sorted == \A s \in Subs : SortedAt(s)

\* A push in progress overlaps every push that got a later number.
Overlapping ==
  \A p \in Pubs :
    sending[p] # NoElement =>
      /\ \A q \in Pubs :
           sending[q] # NoElement /\ sending[q].seqno > sending[p].seqno =>
             {sending[q].seqno, sending[p].seqno} \in overlaps
      /\ \A s \in Subs : \A x \in Held(s) :
           x.seqno > sending[p].seqno => {x.seqno, sending[p].seqno} \in overlaps

LEMMA HeldType ==
  ASSUME DataInv, NEW s \in Subs, NEW x \in Held(s)
  PROVE  x \in Element /\ x.seqno \in Nat
  <1>1. x \in Element
    BY ElementOfSeq DEF DataInv, DataType, Held
  <1> QED  BY <1>1 DEF Element

\* What an offer and a pop do to a queue.
LEMMA HeldByOffer ==
  ASSUME DataInv, NEW p \in Pubs, PushOne(p)
  PROVE  /\ sending[p] \in Element /\ cur[p] \in Subs
         /\ \A s \in Subs \ {cur[p]} : fifo'[s] = fifo[s]
         /\ fifo'[cur[p]] \in {fifo[cur[p]], Append(fifo[cur[p]], sending[p])}
         /\ \A s \in Subs : Held(s)' \subseteq Held(s) \cup {sending[p]}
         /\ \A s \in Subs \ {cur[p]} : Held(s)' = Held(s)
  <1> USE DEF DataInv, DataType
  <1> DEFINE c == cur[p]
             e == sending[p]
  <1>1. e \in Element /\ c \in Subs
    BY AtQueue DEF PushOne, FifoPush, Sending
  <1>2. \A s \in Subs \ {c} : fifo'[s] = fifo[s]
    BY <1>1 DEF PushOne
  <1>3. fifo'[c] \in {fifo[c], Append(fifo[c], e)}
    BY <1>1 DEF PushOne
  <1>4. taken' = taken
    BY DEF PushOne
  <1>5. \A s \in Subs \ {c} : Held(s)' = Held(s)
    BY <1>2, <1>4 DEF Held
  <1>6. ASSUME NEW s \in Subs, s = c PROVE Held(s)' \subseteq Held(s) \cup {e}
    <2>1. CASE fifo'[s] = fifo[s]
      BY <2>1, <1>4 DEF Held
    <2>2. CASE fifo'[s] = Append(fifo[s], e)
      <3>1. /\ Len(fifo[s]) \in Nat /\ Len(Append(fifo[s], e)) = Len(fifo[s]) + 1
            /\ Append(fifo[s], e)[Len(fifo[s]) + 1] = e
            /\ \A i \in 1 .. Len(fifo[s]) : Append(fifo[s], e)[i] = fifo[s][i]
        BY <1>1, AppendProperties, LenProperties
      <3> QED  BY <2>2, <3>1, <1>4 DEF Held
    <2> QED  BY <1>3, <1>6, <2>1, <2>2
  <1>7. \A s \in Subs : Held(s)' \subseteq Held(s) \cup {e}
    BY <1>5, <1>6
  <1> QED  BY <1>1, <1>2, <1>3, <1>5, <1>7

LEMMA HeldByPop ==
  ASSUME DataInv, NEW s \in Subs, Pop(s)
  PROVE  /\ \A r \in Subs : Held(r)' \subseteq Held(r)
         /\ \A r \in Subs \ {s} : fifo'[r] = fifo[r] /\ taken'[r] = taken[r]
         /\ Len(fifo'[s]) = Len(fifo[s]) - 1 /\ Len(fifo[s]) \in Nat \ {0}
         /\ \A i \in 1 .. Len(fifo'[s]) : fifo'[s][i] = fifo[s][i + 1]
         /\ taken'[s] = fifo[s][1]
  <1> USE DEF DataInv, DataType
  <1>1. fifo[s] \in Seq(Element) /\ fifo[s] # <<>>
    BY DEF Pop
  <1>2. /\ fifo'[s] = Tail(fifo[s]) /\ taken'[s] = Head(fifo[s])
        /\ \A r \in Subs \ {s} : fifo'[r] = fifo[r] /\ taken'[r] = taken[r]
    BY DEF Pop
  <1>3. /\ Len(fifo'[s]) = Len(fifo[s]) - 1 /\ Len(fifo[s]) \in Nat \ {0}
        /\ \A i \in 1 .. Len(fifo'[s]) : fifo'[s][i] = fifo[s][i + 1]
    BY <1>1, <1>2, HeadTailProperties, EmptySeq
  <1>4. taken'[s] = fifo[s][1]
    BY <1>1, <1>2
  <1>5. \A r \in Subs \ {s} : Held(r)' = Held(r)
    BY <1>2 DEF Held
  <1>6. Held(s)' \subseteq Held(s)
    <2>1. ASSUME NEW i \in 1 .. Len(fifo'[s]) PROVE fifo'[s][i] \in Held(s)
      <3>1. i + 1 \in 1 .. Len(fifo[s])
        BY <1>3
      <3> QED  BY <1>3, <3>1 DEF Held
    <2>2. taken'[s] \in Held(s)
      <3>1. 1 \in 1 .. Len(fifo[s])
        BY <1>3
      <3> QED  BY <1>4, <3>1 DEF Held
    <2>3. ASSUME NEW x \in Held(s)' PROVE x \in Held(s)
      <3>1. x = taken'[s] \/ \E i \in 1 .. Len(fifo'[s]) : x = fifo'[s][i]
        BY <2>3 DEF Held
      <3> QED  BY <2>1, <2>2, <3>1
    <2> QED  BY <2>3
  <1> QED  BY <1>2, <1>3, <1>4, <1>5, <1>6

LEMMA HeldByFinish ==
  ASSUME DataInv, NEW m \in Members, FinishFlush(m)
  PROVE  \A s \in Subs : \/ fifo'[s] = fifo[s] /\ taken'[s] = taken[s]
                         \/ fifo'[s] = <<>> /\ taken'[s] = NoElement
  BY DEF DataInv, DataType, FinishFlush

LEMMA HeldAfterFinish ==
  ASSUME DataInv, NEW m \in Members, FinishFlush(m)
  PROVE  \A s \in Subs : Held(s)' \subseteq Held(s)
  <1> TAKE s \in Subs
  <1>1. CASE fifo'[s] = fifo[s] /\ taken'[s] = taken[s]
    BY <1>1 DEF Held
  <1>2. CASE fifo'[s] = <<>> /\ taken'[s] = NoElement
    BY <1>2, EmptySeq DEF Held
  <1> QED  BY <1>1, <1>2, HeldByFinish

\* Every step but these leaves what the order depends on alone.
LEMMA QuietSteps ==
  ASSUME [TopicNext]_topicVars,
         ~\E p \in Pubs : Number(p) \/ PushOne(p) \/ PushEnd(p),
         ~\E s \in Subs : Pop(s),
         ~\E m \in Members : FinishFlush(m)
  PROVE  UNCHANGED <<nextSeqno, sending, fifo, taken, overlaps>>
  BY DEF TopicNext, topicVars, Bare, LeaveIdle, PushBegin

\* A push is taken off the reached ones only when it ends.
LEMMA ReachedGrows ==
  ASSUME DataInv, [TopicNext]_topicVars,
         NEW p \in Pubs, sending'[p] # NoElement, sending[p] # NoElement
  PROVE  ReachedOf[p] \subseteq ReachedOf'[p]
  <1> USE DEF DataInv, DataType
  <1>1. Promise!Next \/ UNCHANGED Promise!vars
    BY RefineTopicNext
  <1>2. ASSUME NEW q \in Pubs, Promise!Number(q) \/ Promise!Begin(q)
        PROVE  ReachedOf' = ReachedOf
    BY <1>2 DEF Promise!Number, Promise!Begin, ReachedOf
  <1>3. ASSUME NEW q \in Pubs, Promise!End(q)
        PROVE  ReachedOf[p] \subseteq ReachedOf'[p]
    <2>1. sending' = [sending EXCEPT ![q] = NoElement]
          /\ ReachedOf' = [ReachedOf EXCEPT ![q] = {}]
      BY <1>3 DEF Promise!End, ReachedOf
    <2>2. p # q
      BY <2>1
    <2> QED  BY <2>1, <2>2 DEF ReachedOf
  <1>4. ASSUME NEW q \in Pubs, NEW s \in Subs, Promise!Offer(q, s)
        PROVE  ReachedOf[p] \subseteq ReachedOf'[p]
    <2>1. ReachedOf' = [ReachedOf EXCEPT ![q] = @ \cup {s}]
      BY <1>4 DEF Promise!Offer, ReachedOf
    <2> QED  BY <2>1 DEF ReachedOf
  <1>5. ASSUME NEW s \in Subs,
               \/ Promise!Pop(s) \/ Promise!Create(s) \/ Promise!Subscribe(s)
               \/ Promise!Unsubscribe(s) \/ Promise!Delete(s)
        PROVE  ReachedOf' = ReachedOf
    BY <1>5 DEF Promise!Pop, Promise!Create, Promise!Subscribe,
                Promise!Unsubscribe, Promise!Delete, Promise!pushVars, ReachedOf
  <1>6. CASE UNCHANGED Promise!vars
    BY <1>6 DEF Promise!vars, Promise!pushVars, ReachedOf
  <1> QED  BY <1>1, <1>2, <1>3, <1>4, <1>5, <1>6 DEF Promise!Next

OrderInv == Numbers /\ Sorted /\ Overlapping

LEMMA OrderInit == TopicInit => OrderInv
  <1> SUFFICES ASSUME TopicInit PROVE OrderInv
    OBVIOUS
  <1>1. \A s \in Subs : fifo[s] = <<>> /\ taken[s] = NoElement /\ Len(fifo[s]) = 0
    BY EmptySeq DEF TopicInit
  <1>2. \A s \in Subs : Held(s) = {}
    BY <1>1 DEF Held
  <1>3. \A p \in Pubs : sending[p] = NoElement
    BY DEF TopicInit
  <1> QED  BY <1>1, <1>2, <1>3 DEF OrderInv, Numbers, Sorted, SortedAt, Overlapping

LEMMA NumbersNext == DataInv /\ Numbers /\ [TopicNext]_topicVars => Numbers'
  <1> SUFFICES ASSUME DataInv, Numbers, [TopicNext]_topicVars PROVE Numbers'
    OBVIOUS
  <1> USE DEF Numbers, DataInv, DataType
  \* Steps that add nothing: no element, no push and no number.
  <1>1. ASSUME \A s \in Subs : Held(s)' \subseteq Held(s),
               nextSeqno' = nextSeqno,
               \A p \in Pubs : sending'[p] \in {sending[p], NoElement}
        PROVE  Numbers'
    BY <1>1, ReachedGrows
  <1>2. ASSUME NEW p \in Pubs, Number(p) PROVE Numbers'
    <2>1. /\ nextSeqno' = nextSeqno + 1
          /\ sending' = [sending EXCEPT ![p] = [from |-> p, seqno |-> nextSeqno]]
          /\ UNCHANGED <<fifo, taken, vars>>
      BY <1>2 DEF Number, Numbered
    <2>2. \A s \in Subs : Held(s)' = Held(s)
      BY <2>1 DEF Held
    <2>3. ReachedOf' = ReachedOf
      BY <2>1 DEF vars, ReachedOf, Reached, SubsOf
    <2>4. \A s \in Subs : \A x \in Held(s) : x.seqno \in Nat /\ x.seqno < nextSeqno
      BY HeldType
    <2>5. \A q \in Pubs : sending[q] # NoElement => sending[q].seqno \in Nat
      BY DEF Element
    <2> QED  BY <2>1, <2>2, <2>3, <2>4, <2>5
  <1>3. ASSUME NEW p \in Pubs, PushOne(p) PROVE Numbers'
    <2>1. sending' = sending /\ nextSeqno' = nextSeqno
      BY <1>3 DEF PushOne
    <2>2. sending[p] \in Element /\ sending[p] # NoElement
          /\ sending[p].from = p /\ sending[p].seqno < nextSeqno
      BY <1>3, HeldByOffer DEF Element, PushOne, FifoPush, Sending
    <2>3. \A s \in Subs : \A x \in Held(s)' : x \in Held(s) \/ x = sending[p]
      BY <1>3, HeldByOffer
    <2>4. \A s \in Subs : \A x \in Held(s)' :
            x \in Held(s) \/ (x = sending[p] /\ s = cur[p])
      BY <1>3, HeldByOffer
    <2>5. cur[p] \in ReachedOf'[p]
      BY <1>3, OneMoreReached DEF ReachedOf
    <2>6. \A q \in Pubs : sending[q] # NoElement => ReachedOf[q] \subseteq ReachedOf'[q]
      BY <2>1, ReachedGrows
    <2>7. ASSUME NEW s \in Subs, NEW q \in Pubs, NEW x \in Held(s)',
                 x.from = q, sending[q] # NoElement, s \notin ReachedOf'[q]
          PROVE  x.seqno < sending[q].seqno
      <3>1. CASE x \in Held(s)
        BY <2>6, <2>7, <3>1
      <3>2. CASE x = sending[p] /\ s = cur[p]
        BY <2>2, <2>5, <2>7, <3>2
      <3> QED  BY <2>4, <2>7, <3>1, <3>2
    <2>8. ASSUME NEW s \in Subs, NEW x \in Held(s)' PROVE x.seqno < nextSeqno
      BY <2>2, <2>3, <2>8
    <2> QED  BY <2>1, <2>7, <2>8
  <1>4. ASSUME NEW p \in Pubs, PushEnd(p) PROVE Numbers'
    <2>1. \A s \in Subs : Held(s)' = Held(s)
      BY <1>4 DEF PushEnd, Held
    <2> QED  BY <1>1, <1>4, <2>1 DEF PushEnd
  <1>5. ASSUME NEW s \in Subs, Pop(s) PROVE Numbers'
    BY <1>1, <1>5, HeldByPop DEF Pop
  <1>6. ASSUME NEW m \in Members, FinishFlush(m) PROVE Numbers'
    BY <1>1, <1>6, HeldAfterFinish DEF FinishFlush
  <1>7. CASE UNCHANGED <<nextSeqno, sending, fifo, taken, overlaps>>
    <2>1. \A s \in Subs : Held(s)' = Held(s)
      BY <1>7 DEF Held
    <2> QED  BY <1>1, <1>7, <2>1
  <1> QED  BY <1>2, <1>3, <1>4, <1>5, <1>6, <1>7, QuietSteps

LEMMA OverlappingNext ==
  DataInv /\ Numbers /\ Overlapping /\ [TopicNext]_topicVars => Overlapping'
  <1> SUFFICES ASSUME DataInv, Numbers, Overlapping, [TopicNext]_topicVars
               PROVE  Overlapping'
    OBVIOUS
  <1> USE DEF Overlapping, DataInv, DataType
  <1>1. ASSUME \A s \in Subs : Held(s)' \subseteq Held(s),
               overlaps' = overlaps,
               \A p \in Pubs : sending'[p] \in {sending[p], NoElement}
        PROVE  Overlapping'
    BY <1>1
  <1>2. ASSUME NEW p \in Pubs, Number(p) PROVE Overlapping'
    <2>1. /\ sending' = [sending EXCEPT ![p] = [from |-> p, seqno |-> nextSeqno]]
          /\ sending[p] = NoElement
          /\ overlaps' = overlaps \cup {{nextSeqno, n} : n \in UnderWay}
          /\ UNCHANGED <<fifo, taken>>
      BY <1>2 DEF Number, Numbered
    <2>2. \A s \in Subs : Held(s)' = Held(s)
      BY <2>1 DEF Held
    <2>3. \A s \in Subs : \A x \in Held(s) : x.seqno \in Nat /\ x.seqno < nextSeqno
      BY HeldType DEF Numbers
    <2>4. \A q \in Pubs : sending[q] # NoElement =>
            sending[q].seqno \in Nat /\ sending[q].seqno < nextSeqno
      BY DEF Element, Numbers
    <2>5. ASSUME NEW q \in Pubs, sending[q] # NoElement
          PROVE  {nextSeqno, sending[q].seqno} \in overlaps'
      <3>1. sending[q].seqno \in UnderWay
        BY <2>5 DEF UnderWay
      <3> QED  BY <2>1, <3>1
    <2>6. overlaps \subseteq overlaps'
      BY <2>1
    <2>7. ASSUME NEW q \in Pubs, sending'[q] # NoElement,
                 NEW r \in Pubs, sending'[r] # NoElement,
                 sending'[r].seqno > sending'[q].seqno
          PROVE  {sending'[r].seqno, sending'[q].seqno} \in overlaps'
      <3>1. CASE q = p
        BY <2>1, <2>4, <2>7, <3>1
      <3>2. CASE q # p /\ r = p
        BY <2>1, <2>5, <2>7, <3>2
      <3>3. CASE q # p /\ r # p
        BY <2>1, <2>6, <2>7, <3>3
      <3> QED  BY <3>1, <3>2, <3>3
    <2>8. ASSUME NEW q \in Pubs, sending'[q] # NoElement,
                 NEW s \in Subs, NEW x \in Held(s), x.seqno > sending'[q].seqno
          PROVE  {x.seqno, sending'[q].seqno} \in overlaps'
      <3>1. CASE q = p
        BY <2>1, <2>3, <2>8, <3>1
      <3>2. CASE q # p
        BY <2>1, <2>6, <2>8, <3>2
      <3> QED  BY <3>1, <3>2
    <2> QED  BY <2>2, <2>7, <2>8
  <1>3. ASSUME NEW p \in Pubs, PushOne(p) PROVE Overlapping'
    <2>1. sending' = sending /\ overlaps' = overlaps
      BY <1>3 DEF PushOne
    <2>2. sending[p] # NoElement
      BY <1>3 DEF PushOne, FifoPush, Sending
    <2>3. \A s \in Subs : \A x \in Held(s)' : x \in Held(s) \/ x = sending[p]
      BY <1>3, HeldByOffer
    <2> QED  BY <2>1, <2>2, <2>3
  <1>4. ASSUME NEW p \in Pubs, PushEnd(p) PROVE Overlapping'
    <2>1. \A s \in Subs : Held(s)' = Held(s)
      BY <1>4 DEF PushEnd, Held
    <2> QED  BY <1>1, <1>4, <2>1 DEF PushEnd
  <1>5. ASSUME NEW s \in Subs, Pop(s) PROVE Overlapping'
    BY <1>1, <1>5, HeldByPop DEF Pop
  <1>6. ASSUME NEW m \in Members, FinishFlush(m) PROVE Overlapping'
    BY <1>1, <1>6, HeldAfterFinish DEF FinishFlush
  <1>7. CASE UNCHANGED <<nextSeqno, sending, fifo, taken, overlaps>>
    <2>1. \A s \in Subs : Held(s)' = Held(s)
      BY <1>7 DEF Held
    <2> QED  BY <1>1, <1>7, <2>1
  <1> QED  BY <1>2, <1>3, <1>4, <1>5, <1>6, <1>7, QuietSteps

LEMMA SortedNext ==
  DataInv /\ OrderInv /\ [TopicNext]_topicVars => Sorted'
  <1> SUFFICES ASSUME DataInv, OrderInv, [TopicNext]_topicVars,
                      NEW s \in Subs, SortedAt(s)
               PROVE  SortedAt(s)'
    BY DEF OrderInv, Sorted
  <1> USE DEF SortedAt, Behind, DataInv, DataType
  <1>1. ASSUME fifo'[s] = fifo[s], taken'[s] = taken[s], overlaps \subseteq overlaps'
        PROVE  SortedAt(s)'
    BY <1>1
  <1>2. ASSUME NEW p \in Pubs, PushOne(p) PROVE SortedAt(s)'
    <2>1. overlaps' = overlaps /\ taken' = taken
      BY <1>2 DEF PushOne
    <2>2. CASE fifo'[s] = fifo[s]
      BY <1>1, <2>1, <2>2
    <2>3. CASE s = cur[p] /\ fifo'[s] = Append(fifo[s], sending[p])
      <3> DEFINE f == fifo[s]
                 e == sending[p]
      <3>1. e \in Element /\ e # NoElement /\ e.from = p
        BY <1>2, HeldByOffer DEF OrderInv, Numbers, PushOne, FifoPush, Sending
      <3>2. s \notin ReachedOf[p]
        BY <1>2, <2>3, AtQueue DEF ReachedOf, PushOne, FifoPush
      <3>3. \A x \in Held(s) : Behind(x, e)
        BY <3>1, <3>2 DEF OrderInv, Numbers, Overlapping
      <3>4. /\ Len(f) \in Nat /\ Len(fifo'[s]) = Len(f) + 1
            /\ fifo'[s][Len(f) + 1] = e
            /\ \A i \in 1 .. Len(f) : fifo'[s][i] = f[i]
        BY <2>3, <3>1, AppendProperties, LenProperties
      <3>5. ASSUME NEW j \in 1 .. Len(fifo'[s])
            PROVE  /\ \A i \in 1 .. Len(fifo'[s]) :
                        i < j => Behind(fifo'[s][i], fifo'[s][j])
                   /\ taken[s] # NoElement => Behind(taken[s], fifo'[s][j])
        <4> HIDE DEF Behind
        <4>1. CASE j \in 1 .. Len(f)
          <5>1. \A i \in 1 .. Len(fifo'[s]) : i < j => i \in 1 .. Len(f)
            BY <3>4, <4>1
          <5> QED  BY <3>4, <4>1, <5>1
        <4>2. CASE j = Len(f) + 1
          <5>1. ASSUME NEW i \in 1 .. Len(f) PROVE Behind(f[i], e)
            BY <3>3 DEF Held
          <5>2. taken[s] # NoElement => Behind(taken[s], e)
            BY <3>3 DEF Held
          <5>3. \A i \in 1 .. Len(fifo'[s]) : i < j => i \in 1 .. Len(f)
            BY <3>4, <4>2
          <5> QED  BY <3>4, <4>2, <5>1, <5>2, <5>3
        <4> QED  BY <3>4, <4>1, <4>2
      <3> QED  BY <2>1, <3>5
    <2> QED  BY <1>2, <2>2, <2>3, HeldByOffer
  <1>3. ASSUME NEW r \in Subs, Pop(r) PROVE SortedAt(s)'
    <2>1. overlaps' = overlaps
      BY <1>3 DEF Pop
    <2>2. CASE s # r
      <3>1. fifo'[s] = fifo[s] /\ taken'[s] = taken[s]
        BY <1>3, <2>2, HeldByPop
      <3> QED  BY <1>1, <2>1, <3>1
    <2>3. CASE s = r
      <3>1. /\ Len(fifo'[s]) = Len(fifo[s]) - 1 /\ Len(fifo[s]) \in Nat \ {0}
            /\ \A i \in 1 .. Len(fifo'[s]) : fifo'[s][i] = fifo[s][i + 1]
            /\ taken'[s] = fifo[s][1]
        BY <1>3, <2>3, HeldByPop
      <3>2. \A i \in 1 .. Len(fifo'[s]) : i + 1 \in 1 .. Len(fifo[s])
        BY <3>1
      <3>3. ASSUME NEW j \in 1 .. Len(fifo'[s])
            PROVE  /\ \A i \in 1 .. Len(fifo'[s]) :
                        i < j => Behind(fifo'[s][i], fifo'[s][j])
                   /\ Behind(taken'[s], fifo'[s][j])
        <4> HIDE DEF Behind
        <4>1. /\ fifo'[s][j] = fifo[s][j + 1] /\ j + 1 \in 1 .. Len(fifo[s])
              /\ 1 < j + 1 /\ 1 \in 1 .. Len(fifo[s])
          BY <3>1, <3>2
        <4>2. Behind(fifo[s][1], fifo[s][j + 1])
          BY <4>1
        <4>3. ASSUME NEW i \in 1 .. Len(fifo'[s]), i < j
              PROVE  Behind(fifo'[s][i], fifo'[s][j])
          <5>1. /\ fifo'[s][i] = fifo[s][i + 1] /\ i + 1 \in 1 .. Len(fifo[s])
                /\ i + 1 < j + 1
            BY <3>1, <3>2, <4>3
          <5> QED  BY <4>1, <5>1
        <4> QED  BY <3>1, <4>1, <4>2, <4>3
      <3> QED  BY <2>1, <3>3
    <2> QED  BY <2>2, <2>3
  <1>4. ASSUME NEW m \in Members, FinishFlush(m) PROVE SortedAt(s)'
    <2>1. overlaps' = overlaps
      BY <1>4 DEF FinishFlush
    <2>2. CASE fifo'[s] = <<>>
      BY <2>2, EmptySeq
    <2> QED  BY <1>1, <1>4, <2>1, <2>2, HeldByFinish
  <1>5. ASSUME NEW p \in Pubs, Number(p) \/ PushEnd(p) PROVE SortedAt(s)'
    BY <1>1, <1>5 DEF Number, Numbered, PushEnd
  <1>6. CASE UNCHANGED <<nextSeqno, sending, fifo, taken, overlaps>>
    BY <1>1, <1>6
  <1> QED  BY <1>2, <1>3, <1>4, <1>5, <1>6, QuietSteps

\* The order of the numbers in the queues holds of every behaviour.
THEOREM OrderInductive == TopicSpec => []OrderInv
  <1>1. DataInv /\ OrderInv /\ [TopicNext]_topicVars => OrderInv'
    BY NumbersNext, OverlappingNext, SortedNext DEF OrderInv
  <1> QED  BY OrderInit, <1>1, DataInductive, PTL DEF TopicSpec

\* What a subscriber receives is its queue, behind what it took last.
LEMMA ReceivedIs ==
  ASSUME DataInv, NEW s \in Subs
  PROVE  IF taken[s] = NoElement
         THEN Received(s) = fifo[s]
         ELSE /\ Len(Received(s)) = Len(fifo[s]) + 1
              /\ Received(s)[1] = taken[s]
              /\ \A i \in 2 .. Len(fifo[s]) + 1 : Received(s)[i] = fifo[s][i - 1]
  <1> USE DEF DataInv, DataType, Received
  <1>1. CASE taken[s] = NoElement
    BY <1>1
  <1>2. CASE taken[s] # NoElement
    <2>1. <<taken[s]>> \in Seq(Element) /\ Len(<<taken[s]>>) = 1 /\ <<taken[s]>>[1] = taken[s]
      BY <1>2
    <2>2. fifo[s] \in Seq(Element) /\ Len(fifo[s]) \in Nat
      BY LenProperties
    <2> QED  BY <1>2, <2>1, <2>2, ConcatProperties
  <1> QED  BY <1>1, <1>2

LEMMA ReceivedSorted ==
  ASSUME DataInv, Sorted, NEW s \in Subs,
         NEW i \in 1 .. Len(Received(s)), NEW j \in 1 .. Len(Received(s)), i < j
  PROVE  Behind(Received(s)[i], Received(s)[j])
  <1>1. Len(fifo[s]) \in Nat
    BY LenProperties DEF DataInv, DataType
  <1>2. SortedAt(s)
    BY DEF Sorted
  <1>3. CASE taken[s] = NoElement
    BY <1>2, <1>3, ReceivedIs DEF SortedAt
  <1>4. CASE taken[s] # NoElement
    <2>1. j \in 2 .. Len(fifo[s]) + 1 /\ j - 1 \in 1 .. Len(fifo[s])
          /\ Received(s)[j] = fifo[s][j - 1]
      BY <1>1, <1>4, ReceivedIs
    <2>2. CASE i = 1
      BY <1>2, <1>4, <2>1, <2>2, ReceivedIs DEF SortedAt
    <2>3. CASE i # 1
      <3>1. i \in 2 .. Len(fifo[s]) + 1 /\ i - 1 \in 1 .. Len(fifo[s]) /\ i - 1 < j - 1
            /\ Received(s)[i] = fifo[s][i - 1]
        BY <1>1, <1>4, <2>1, <2>3, ReceivedIs
      <3> QED  BY <1>2, <2>1, <3>1 DEF SortedAt
    <2> QED  BY <2>2, <2>3
  <1> QED  BY <1>3, <1>4

\* Each publisher's elements are received in the order of its pushes, none
\* twice.
THEOREM PublisherOrder == TopicSpec => []OwnOrder
  <1>1. DataInv /\ OrderInv => OwnOrder
    BY ReceivedSorted DEF OrderInv, OwnOrder, Behind
  <1> QED  BY <1>1, DataInductive, OrderInductive, PTL

\* Sequence numbers are received out of order only from overlapping pushes.
THEOREM NumbersInOrder == TopicSpec => []SeqnoOrder
  <1>1. DataInv /\ OrderInv => SeqnoOrder
    BY ReceivedSorted DEF OrderInv, SeqnoOrder, Behind
  <1> QED  BY <1>1, DataInductive, OrderInductive, PTL

-----------------------------------------------------------------------------
(* The bounds of the type invariant.                                       *)

Bounded ==
  /\ nextSeqno \in 0 .. MaxSeqno
  /\ \A s \in Subs : Len(fifo[s]) <= Capacity
  /\ overlaps \subseteq SUBSET (0 .. MaxSeqno - 1)

LEMMA BoundedInit == TopicInit => Bounded
  <1>1. Len(<<>>) = 0
    BY EmptySeq
  <1> QED  BY <1>1 DEF TopicInit, Bounded

LEMMA BoundedNext == DataInv /\ Bounded /\ [TopicNext]_topicVars => Bounded'
  <1> SUFFICES ASSUME DataInv, Bounded, [TopicNext]_topicVars PROVE Bounded'
    OBVIOUS
  <1> USE DEF DataInv, DataType, Bounded
  <1>1. ASSUME NEW p \in Pubs, Number(p) PROVE Bounded'
    <2>1. nextSeqno \in 0 .. MaxSeqno - 1 /\ nextSeqno' \in 0 .. MaxSeqno /\ fifo' = fifo
      BY <1>1 DEF Number, Numbered
    <2>2. UnderWay \subseteq 0 .. MaxSeqno - 1
      BY DEF UnderWay, Element
    <2>3. ASSUME NEW o \in overlaps' PROVE o \subseteq 0 .. MaxSeqno - 1
      <3>1. overlaps' = overlaps \cup {{nextSeqno, n} : n \in UnderWay}
        BY <1>1 DEF Number, Numbered
      <3>2. CASE o \in overlaps
        BY <3>2
      <3>3. ASSUME NEW n \in UnderWay, o = {nextSeqno, n} PROVE o \subseteq 0 .. MaxSeqno - 1
        BY <2>1, <2>2, <3>3
      <3> QED  BY <3>1, <3>2, <3>3
    <2> QED  BY <2>1, <2>3
  <1>2. ASSUME NEW p \in Pubs, PushOne(p) PROVE Bounded'
    <2>1. cur[p] \in Subs /\ sending[p] \in Element
      BY <1>2 DEF PushOne, FifoPush, Sending, IInv, Walking
    <2>2. ASSUME NEW s \in Subs PROVE Len(fifo'[s]) <= Capacity
      <3>1. CASE fifo' = fifo
        BY <3>1
      <3>2. CASE Len(fifo[cur[p]]) < Capacity
                 /\ fifo' = [fifo EXCEPT ![cur[p]] = Append(@, sending[p])]
        <4>1. Len(fifo[cur[p]]) \in Nat
          BY <2>1, LenProperties
        <4>2. Len(Append(fifo[cur[p]], sending[p])) = Len(fifo[cur[p]]) + 1
          BY <2>1, AppendProperties
        <4> QED  BY <2>1, <3>2, <4>1, <4>2
      <3> QED  BY <1>2, <3>1, <3>2 DEF PushOne
    <2> QED  BY <1>2, <2>2 DEF PushOne
  <1>3. ASSUME NEW s \in Subs, Pop(s) PROVE Bounded'
    <2>1. Len(Tail(fifo[s])) = Len(fifo[s]) - 1 /\ Len(fifo[s]) \in Nat
      BY <1>3, HeadTailProperties, LenProperties DEF Pop
    <2> QED  BY <1>3, <2>1 DEF Pop
  <1>4. ASSUME NEW m \in Members, FinishFlush(m) PROVE Bounded'
    <2>1. Len(<<>>) = 0
      BY EmptySeq
    <2>2. nextSeqno' = nextSeqno /\ overlaps' = overlaps
      BY <1>4 DEF FinishFlush
    <2>3. fifo' = fifo \/ fifo' = [fifo EXCEPT ![m] = <<>>]
      BY <1>4 DEF FinishFlush
    <2>4. ASSUME NEW s \in Subs PROVE Len(fifo'[s]) <= Capacity
      <3>1. CASE fifo'[s] = fifo[s]
        BY <3>1
      <3>2. CASE fifo'[s] = <<>>
        <4>1. Len(fifo'[s]) = 0
          BY <2>1, <3>2
        <4> QED  BY <4>1
      <3>3. fifo'[s] = fifo[s] \/ fifo'[s] = <<>>
        BY <2>3
      <3> QED  BY <3>1, <3>2, <3>3
    <2> QED  BY <2>2, <2>4
  <1>5. CASE UNCHANGED <<nextSeqno, fifo, overlaps>>
    BY <1>5
  <1> QED
    BY <1>1, <1>2, <1>3, <1>4, <1>5
    DEF TopicNext, Bare, LeaveIdle, PushBegin, PushEnd, topicVars

\* The variables keep their types, and no queue ever holds more than its
\* capacity.
THEOREM TopicTypeCorrect == TopicSpec => []TopicTypeOK
  <1>1. DataInv /\ Bounded => TopicTypeOK
    BY DEF DataInv, DataType, Bounded, TopicTypeOK, IInv
  <1>2. DataInv /\ Bounded /\ [TopicNext]_topicVars => Bounded'
    BY BoundedNext
  <1> QED  BY BoundedInit, <1>1, <1>2, DataInductive, PTL DEF TopicSpec
=============================================================================
