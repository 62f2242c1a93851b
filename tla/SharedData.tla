----------------------------- MODULE SharedData -----------------------------
(***************************************************************************)
(* The shared payload of the elements of Topic (data::shared in data.hpp). *)
(* A publisher takes a payload from a pool, as in tests/shared-test.cc,    *)
(* and pushes it; every queue that accepts the element holds a copy of the *)
(* shared_ptr, and so does every subscriber that popped it.  The payload   *)
(* goes back to the pool when the last of them is gone, in whichever       *)
(* thread that happens.                                                    *)
(***************************************************************************)
EXTENDS Topic

CONSTANTS
  Payloads,  \* the buffers of the pool
  NoPayload  \* a null shared_ptr

ASSUME SharedAssumption == NoPayload \notin Payloads /\ IsFiniteSet(Payloads)

VARIABLES
  uses,   \* the use count of each payload; one that is 0 is in the pool
  body,   \* the shared of each publisher's struct
  held,   \* the shared of each subscriber's struct
  shared  \* the shared of each element pushed, by seqno

sharedVars == <<uses, body, held, shared>>
allVars == <<topicVars, sharedVars>>

\* The shared_ptrs that the elements of a queue carry.
Carried(q) == [i \in DOMAIN q |-> shared[q[i].seqno]]

Copies(x, q) == Cardinality({i \in DOMAIN q : Carried(q)[i] = x})
One(x, r) == IF r = x THEN 1 ELSE 0

-----------------------------------------------------------------------------

\* The publisher fills its struct with a payload from the pool, or a null.
Fill(p, x) ==
  /\ pc[p] = "in" /\ sending[p] = NoElement
  /\ x # NoPayload => uses[x] = 0
  /\ body' = [body EXCEPT ![p] = x]
  /\ uses' = [y \in Payloads |-> uses[y] + One(y, x) - One(y, body[p])]
  /\ UNCHANGED <<topicVars, held, shared>>

SharedNumber(p) ==
  /\ Number(p)
  /\ shared' = [shared EXCEPT ![nextSeqno] = body[p]]
  /\ UNCHANGED <<uses, body, held>>

\* Mutant: the copy is made before the queue is found to be full.
SharedPushOneEager(p) ==
  /\ PushOne(p)
  /\ uses' = [x \in Payloads |-> uses[x] + One(x, shared[sending[p].seqno])]
  /\ UNCHANGED <<body, held, shared>>

\* The slot is constructed as a copy of the element, if there is one.
SharedPushOne(p) ==
  /\ PushOne(p)
  /\ uses' = IF fifo' = fifo THEN uses
             ELSE [x \in Payloads |-> uses[x] + One(x, shared[sending[p].seqno])]
  /\ UNCHANGED <<body, held, shared>>

\* The copy in the slot is assigned to the subscriber's struct, which releases
\* the payload it held, and the one in the slot is destroyed.
SharedPop(s) ==
  /\ Pop(s)
  /\ held' = [held EXCEPT ![s] = shared[Head(fifo[s]).seqno]]
  /\ uses' = [x \in Payloads |-> uses[x] - One(x, held[s])]
  /\ UNCHANGED <<body, shared>>

\* The subscriber's struct goes out of scope.
Release(s) ==
  /\ held[s] # NoPayload
  /\ held' = [held EXCEPT ![s] = NoPayload]
  /\ uses' = [uses EXCEPT ![held[s]] = @ - 1]
  /\ UNCHANGED <<topicVars, body, shared>>

\* The destructor of the ring destroys what is left in a leaver's queue.
SharedFinishFlush(m) ==
  /\ FinishFlush(m)
  /\ uses' = IF m \in Subs \ joining
             THEN [x \in Payloads |-> uses[x] - Copies(x, fifo[m])]
             ELSE uses
  /\ UNCHANGED <<body, held, shared>>

\* Steps of Topic in which no shared_ptr is copied or destroyed.
Plain(A) == A /\ UNCHANGED sharedVars

-----------------------------------------------------------------------------

SharedInit ==
  /\ TopicInit
  /\ uses = [x \in Payloads |-> 0]
  /\ body = [p \in Pubs |-> NoPayload]
  /\ held = [s \in Subs |-> NoPayload]
  /\ shared = [n \in 0 .. MaxSeqno - 1 |-> NoPayload]

SharedNext ==
  \/ \E m \in Members :
       \/ Plain(Bare(Join(m)) \/ LeaveIdle(m)) \/ SharedFinishFlush(m)
       \/ Plain(Bare(Lock(m) \/ CacheCopy(m) \/ CacheSwap(m) \/ Drained(m) \/ FreeOld(m)))
  \/ \E p \in Pubs :
       \/ \E x \in Payloads \cup {NoPayload} : Fill(p, x)
       \/ SharedNumber(p) \/ SharedPushOne(p)
       \/ Plain(PushBegin(p) \/ PushEnd(p))
       \/ Plain(Bare(CacheLoad(p) \/ Visit(p) \/ QueueLock(p) \/ QueueUnlock(p) \/ Notify(p)))
  \/ \E s \in Subs :
       SharedPop(s) \/ Release(s) \/ Plain(Bare(WaitLock(s) \/ WaitUnlock(s)))

SharedSpec == SharedInit /\ [][SharedNext]_allVars

-----------------------------------------------------------------------------
(* Properties.                                                             *)

\* Who refers to a payload: publishers, subscribers, and places in queues.
Bodies(x) == {p \in Pubs : body[p] = x}
Helds(x) == {s \in Subs : held[s] = x}
Places(x) ==
  {w \in Subs \X (1 .. Capacity) :
     w[2] \in DOMAIN fifo[w[1]] /\ Carried(fifo[w[1]])[w[2]] = x}

Users(x) == Bodies(x) \cup Helds(x) \cup Places(x)

\* topic.hpp: push() "creates proper copy of shared data (if any)".  A payload
\* is back in the pool, to be filled anew, exactly when no publisher, queue or
\* subscriber refers to it any more: through drops, pops over an older
\* element, and queues deleted with elements in them, none is given back early
\* and none is leaked.
PayloadReturned ==
  \A x \in Payloads : uses[x] = 0 <=> Users(x) = {}
=============================================================================
