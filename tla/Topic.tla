------------------------------- MODULE Topic -------------------------------
(***************************************************************************)
(* The whole of topic::push and topic::pop: TopicCache with the elements,  *)
(* their sequence numbers, and the contents and counters of the queues.    *)
(*                                                                         *)
(* sub_queue::push and pop are one step each here.  TopicRing has the ring *)
(* of a queue in place of its contents, and implements this module; the    *)
(* counters are in SubQueue.                                               *)
(***************************************************************************)
EXTENDS TopicCache, Sequences

CONSTANTS
  Capacity,      \* the qsize of every queue
  SpuriousDrop,  \* may a push that reads an old read index drop an element
                 \* that would fit?
  NoElement,     \* no struct data
  MaxSeqno       \* bound on the number of pushes

ASSUME TopicAssumption ==
  /\ Capacity \in Nat \ {0} /\ MaxSeqno \in Nat
  /\ NoElement \notin [from : Pubs, seqno : Nat]

ASSUME DropAssumption == SpuriousDrop \in BOOLEAN

VARIABLES
  nextSeqno,   \* _next_seqno
  sending,     \* the d of each push(), once it is numbered
  fifo,        \* the elements in each queue's _fifo
  pushCount,   \* its _push_count
  dropCount,   \* its _drop_count
  taken,       \* the element each subscriber popped last
  overlaps     \* history: the pairs of seqnos whose pushes overlapped

queueVars == <<fifo, pushCount, dropCount, taken>>
dataVars == <<nextSeqno, sending, overlaps, queueVars>>
topicVars == <<vars, dataVars>>

\* An element is its seqno; which publisher's it is is history.
Element == [from : Pubs, seqno : 0 .. MaxSeqno - 1]

-----------------------------------------------------------------------------

UnderWay == {sending[p].seqno : p \in {q \in Pubs : sending[q] # NoElement}}

Numbered(p) ==
  /\ pc[p] = "in" /\ sending[p] = NoElement
  /\ nextSeqno < MaxSeqno
  /\ sending' = [sending EXCEPT ![p] = [from |-> p, seqno |-> nextSeqno]]
  /\ overlaps' = overlaps \cup {{nextSeqno, n} : n \in UnderWay}

\* Mutant: a load and a store, which may bring back an old number.
NumberStale(p) ==
  /\ Numbered(p)
  /\ nextSeqno' \in 0 .. nextSeqno + 1
  /\ UNCHANGED <<vars, queueVars>>

\* topic::push starts: the number is drawn before the cache is looked at.
Number(p) ==
  /\ Numbered(p)
  /\ nextSeqno' = nextSeqno + 1
  /\ UNCHANGED <<vars, queueVars>>

PushBegin(p) ==
  /\ sending[p] # NoElement
  /\ CacheGet(p)
  /\ UNCHANGED dataVars

\* Mutant: no limit.
PushOneUnbounded(p) ==
  /\ FifoPush(p)
  /\ pushCount' = [pushCount EXCEPT ![cur[p]] = @ + 1]
  /\ fifo' = [fifo EXCEPT ![cur[p]] = Append(@, sending[p])]
  /\ UNCHANGED <<nextSeqno, sending, overlaps, dropCount, taken>>

\* sub_queue::push on the queue the publisher is at.
PushOne(p) ==
  /\ FifoPush(p)
  /\ pushCount' = [pushCount EXCEPT ![cur[p]] = @ + 1]
  /\ \/ /\ Len(fifo[cur[p]]) < Capacity
        /\ fifo' = [fifo EXCEPT ![cur[p]] = Append(@, sending[p])]
        /\ UNCHANGED dropCount
     \/ /\ SpuriousDrop \/ Len(fifo[cur[p]]) = Capacity
        /\ dropCount' = [dropCount EXCEPT ![cur[p]] = @ + 1]
        /\ UNCHANGED fifo
  /\ UNCHANGED <<nextSeqno, sending, overlaps, taken>>

PushEnd(p) ==
  /\ CachePut(p)
  /\ sending' = [sending EXCEPT ![p] = NoElement]
  /\ UNCHANGED <<nextSeqno, overlaps, queueVars>>

\* topic::pop.  The queue is the subscriber's own until it unsubscribes.
Pop(s) ==
  /\ pc[s] = "in"
  /\ fifo[s] # <<>>
  /\ taken' = [taken EXCEPT ![s] = Head(fifo[s])]
  /\ fifo' = [fifo EXCEPT ![s] = Tail(@)]
  /\ UNCHANGED <<vars, nextSeqno, sending, overlaps, pushCount, dropCount>>

\* The destructor of the queue leaves everything as a constructor expects it.
FinishFlush(m) ==
  /\ Finish(m)
  /\ \/ /\ m \in Subs \ joining
        /\ fifo' = [fifo EXCEPT ![m] = <<>>]
        /\ pushCount' = [pushCount EXCEPT ![m] = 0]
        /\ dropCount' = [dropCount EXCEPT ![m] = 0]
        /\ taken' = [taken EXCEPT ![m] = NoElement]
     \/ m \notin Subs \ joining /\ UNCHANGED queueVars
  /\ UNCHANGED <<nextSeqno, sending, overlaps>>

\* A publisher does not destroy its handle in the middle of a push.
LeaveIdle(m) ==
  /\ m \in Pubs => sending[m] = NoElement
  /\ Leave(m)
  /\ UNCHANGED dataVars

\* Steps of TopicCache that touch neither elements nor queues.
Bare(A) == A /\ UNCHANGED dataVars

-----------------------------------------------------------------------------

TopicInit ==
  /\ Init
  /\ nextSeqno = 0
  /\ sending = [p \in Pubs |-> NoElement]
  /\ fifo = [s \in Subs |-> <<>>]
  /\ pushCount = [s \in Subs |-> 0] /\ dropCount = [s \in Subs |-> 0]
  /\ taken = [s \in Subs |-> NoElement]
  /\ overlaps = {}

\* Services move no elements; they are left to TopicCache.
TopicNext ==
  \/ \E m \in Members :
       \/ Bare(Join(m)) \/ LeaveIdle(m) \/ FinishFlush(m)
       \/ Bare(Lock(m) \/ CacheCopy(m) \/ CacheSwap(m) \/ Drained(m) \/ FreeOld(m))
  \/ \E p \in Pubs :
       \/ Number(p) \/ PushBegin(p) \/ PushOne(p) \/ PushEnd(p)
       \/ Bare(CacheLoad(p) \/ Visit(p) \/ QueueLock(p) \/ QueueUnlock(p) \/ Notify(p))
  \/ \E s \in Subs : Pop(s) \/ Bare(WaitLock(s) \/ WaitUnlock(s))

TopicSpec == TopicInit /\ [][TopicNext]_topicVars

-----------------------------------------------------------------------------
(* Properties.                                                             *)

TopicTypeOK ==
  /\ TypeOK
  /\ nextSeqno \in 0 .. MaxSeqno
  /\ sending \in [Pubs -> Element \cup {NoElement}]
  /\ fifo \in [Subs -> Seq(Element)]
  /\ \A s \in Subs : Len(fifo[s]) <= Capacity
  /\ pushCount \in [Subs -> Nat] /\ dropCount \in [Subs -> Nat]
  /\ taken \in [Subs -> Element \cup {NoElement}]
  /\ overlaps \subseteq SUBSET (0 .. MaxSeqno - 1)

\* A topic delivers each push at most once to every queue, and at least once
\* to everybody subscribed, whatever registrations overlap it; and it deletes
\* a queue only after the pushes that reached it.
Reached(p) ==
  IF snap[p] = None THEN {}
  ELSE SubsOf(snap[p]) \ (todo[p] \cup IF pc[p] \in {"qlock", "push"} THEN {cur[p]} ELSE {})

Promise == INSTANCE Delivery WITH
  pushing    <- {p \in Pubs : pc[p] \in HoldPC},
  owed       <- due,
  reached    <- [p \in Pubs |-> Reached(p)],
  existing   <- alive \cap Subs,
  subscribed <- Subscribed

ImplementsDelivery == Promise!Spec

\* What a subscriber has popped last and what is still in its queue.
Received(s) == IF taken[s] = NoElement THEN fifo[s] ELSE <<taken[s]>> \o fifo[s]

\* Each publisher's elements arrive in the order it pushed them, and none
\* twice, even if its pushes go through different caches, some with the
\* queue's lock and some without.
OwnOrder ==
  \A s \in Subs :
    LET r == Received(s)
    IN  \A i, j \in 1 .. Len(r) :
          i < j /\ r[i].from = r[j].from => r[i].seqno < r[j].seqno

\* data.hpp: seqno is a sequence number.  It is drawn before the queue is
\* locked, so elements of two publishers may stand in a queue against their
\* numbers, but only if their pushes overlapped.
SeqnoOrder ==
  \A s \in Subs :
    LET r == Received(s)
    IN  \A i, j \in 1 .. Len(r) :
          i < j /\ r[i].seqno > r[j].seqno =>
            {r[i].seqno, r[j].seqno} \in overlaps
=============================================================================
