----------------------------- MODULE TopicCache -----------------------------
(***************************************************************************)
(* How one vdds::topic (topic.hpp, topic.cc) shares its lists of           *)
(* subscriber queues and publisher handles between threads.                *)
(*                                                                         *)
(* The lists live in a cache object that never changes.  push(), kick()    *)
(* and shutdown() take a reference with one counter increment and walk the *)
(* cache without a lock.  subscribe(), unsubscribe(), publish() and        *)
(* unpublish() copy the cache under _mutex, exchange the pointer, spin     *)
(* until the counter is zero, and delete the old cache (and, when leaving, *)
(* the queue or the handle).  query() and dump() hold _mutex shared.       *)
(* sub_queue::push() takes the queue's mutex only if the cache it came     *)
(* through lists several publishers, and ends, like kick() and shutdown(), *)
(* with a call of the queue's notifier, which takes the notifier's mutex.  *)
(*                                                                         *)
(* A publisher or subscriber stands for its pub<T> or sub<T> object, its   *)
(* thread, and the pub_handle or sub_queue it owns.  Elements, counters    *)
(* and the ring are left out: what matters here is who may be inside which *)
(* queue, and which objects still exist.                                   *)
(***************************************************************************)
EXTENDS Integers, FiniteSets

CONSTANTS
  Pubs,        \* publishers
  Subs,        \* subscribers
  Services,    \* threads that call kick, shutdown, query or dump
  Waking,      \* the subscribers whose notifier is a notifier_cv; the others
               \* have a polling one or none
  CacheCells,  \* addresses operator new may return for a cache
  None         \* no thread, queue or cache

Members == Pubs \cup Subs
Readers == Pubs \cup Services

ASSUME ThreadsAssumption ==
  /\ IsFiniteSet(Pubs) /\ IsFiniteSet(Subs) /\ IsFiniteSet(Services)
  /\ Pubs \cap Subs = {} /\ Pubs \cap Services = {} /\ Subs \cap Services = {}
  /\ Waking \subseteq Subs
  /\ None \notin Pubs \cup Subs \cup Services \cup CacheCells

VARIABLES
  cachePtr,   \* _cache_ptr
  refcnt,     \* _cache_refcnt
  allocated,  \* the caches that exist
  cache,      \* what each cache lists: its publishers and subscribers
  alive,      \* the members whose handle or queue exists
  writer,     \* who holds _mutex exclusively
  sharers,    \* who holds it shared
  newCache,   \* the writer's c in subscribe() and its like
  oldCache,   \* its cc in cache_swap()
  joining,    \* members in subscribe() or publish()
  pc,         \* where each thread is
  snap,       \* the cache a reader walks
  todo,       \* the queues it has yet to visit
  cur,        \* the queue it is at
  qmutex,     \* holder of each queue's _mutex
  nmutex,     \* holder of its notifier's _mutex; the subscriber stands for
              \* itself and for callers through queues of other topics
  due         \* history: subscribers a push in progress must still reach

heapVars == <<cachePtr, allocated, cache, alive>>
adminVars == <<writer, newCache, oldCache, joining>>
mutexVars == <<qmutex, nmutex>>
walkVars == <<snap, todo, cur, mutexVars>>
vars == <<heapVars, adminVars, walkVars, refcnt, sharers, pc, due>>

Goto(t, label) == pc' = [pc EXCEPT ![t] = label]
Step(t, from, to) == pc[t] = from /\ Goto(t, to)

SubsOf(c) == cache[c] \cap Subs
PubsOf(c) == cache[c] \cap Pubs

\* Mutant: off by one.
NeedLockLate(c) == Cardinality(PubsOf(c)) > 2

NeedLock(c) == Cardinality(PubsOf(c)) > 1

-----------------------------------------------------------------------------
(* subscribe, unsubscribe, publish, unpublish.                             *)

\* The queue or handle is allocated before the lock is asked for.
Join(m) ==
  /\ Step(m, "out", "lock")
  /\ alive' = alive \cup {m}
  /\ joining' = joining \cup {m}
  /\ UNCHANGED <<cachePtr, allocated, cache, writer, newCache, oldCache,
                 walkVars, refcnt, sharers, due>>

Leave(m) ==
  /\ Step(m, "in", "lock")
  /\ due' = [p \in Pubs |-> due[p] \ {m}]
  /\ UNCHANGED <<heapVars, adminVars, walkVars, refcnt, sharers>>

Lock(m) ==
  /\ Step(m, "lock", "copy")
  /\ writer = None /\ sharers = {}
  /\ writer' = m
  /\ UNCHANGED <<heapVars, newCache, oldCache, joining, walkVars, refcnt,
                 sharers, due>>

\* Mutant: a leaver is not erased; or the copy is not taken.
EditedJoin(m) == cache[cachePtr] \cup {m}
EditedFresh(m) == IF m \in joining THEN {m} ELSE {}

Edited(m) == IF m \in joining THEN cache[cachePtr] \cup {m}
                              ELSE cache[cachePtr] \ {m}

\* cache_copy(), and push_back or erase on the copy.
CacheCopy(m) ==
  /\ Step(m, "copy", "swap")
  /\ \E c \in CacheCells \ allocated :
       /\ newCache' = c
       /\ allocated' = allocated \cup {c}
       /\ cache' = [cache EXCEPT ![c] = Edited(m)]
  /\ UNCHANGED <<cachePtr, alive, writer, oldCache, joining, walkVars, refcnt,
                 sharers, due>>

\* cache_swap(): load, exchange ...
CacheSwap(m) ==
  /\ Step(m, "swap", "drain")
  /\ oldCache' = cachePtr
  /\ cachePtr' = newCache
  /\ UNCHANGED <<allocated, cache, alive, writer, newCache, joining, walkVars,
                 refcnt, sharers, due>>

\* Mutant: no wait.
DrainedNot(m) ==
  /\ Step(m, "drain", "free")
  /\ UNCHANGED <<heapVars, adminVars, walkVars, refcnt, sharers, due>>

\* ... the load that ends the spin ...
Drained(m) ==
  /\ Step(m, "drain", "free")
  /\ refcnt = 0
  /\ UNCHANGED <<heapVars, adminVars, walkVars, refcnt, sharers, due>>

\* Mutant: the old cache is not deleted.
FreeOldNot(m) ==
  /\ Step(m, "free", "finish")
  /\ UNCHANGED <<heapVars, adminVars, walkVars, refcnt, sharers, due>>

\* ... and delete.
FreeOld(m) ==
  /\ Step(m, "free", "finish")
  /\ allocated' = allocated \ {oldCache}
  /\ UNCHANGED <<cachePtr, cache, alive, adminVars, walkVars, refcnt, sharers,
                 due>>

\* A leaver's queue or handle is deleted before the lock is released.
Finish(m) ==
  /\ pc[m] = "finish"
  /\ \/ m \in joining /\ Goto(m, "in") /\ UNCHANGED alive
     \/ m \notin joining /\ Goto(m, "out") /\ alive' = alive \ {m}
  /\ joining' = joining \ {m}
  /\ writer' = None
  /\ UNCHANGED <<cachePtr, allocated, cache, newCache, oldCache, walkVars,
                 refcnt, sharers, due>>

-----------------------------------------------------------------------------
(* push, kick, shutdown: cache_get, visit every queue, cache_put.          *)

\* Subscribers whose subscribe() has returned and whose unsubscribe() has
\* not been called: a push that starts now must reach them.
Subscribed == {s \in Subs : pc[s] = "in"}

StartDue(t) == IF t \in Pubs THEN [due EXCEPT ![t] = Subscribed] ELSE due

Walk(t) ==
  /\ snap' = [snap EXCEPT ![t] = cachePtr]
  /\ todo' = [todo EXCEPT ![t] = SubsOf(cachePtr)]

\* Mutant: no increment.
CacheGetNot(t) ==
  /\ Step(t, "in", "load")
  /\ due' = StartDue(t)
  /\ UNCHANGED <<heapVars, adminVars, walkVars, refcnt, sharers>>

\* cache_get(): the increment of _cache_refcnt ...
CacheGet(t) ==
  /\ Step(t, "in", "load")
  /\ refcnt' = refcnt + 1
  /\ due' = StartDue(t)
  /\ UNCHANGED <<heapVars, adminVars, walkVars, sharers>>

\* Mutant: readers wait for the lock.
CacheLoadLocked(t) ==
  /\ Step(t, "load", "next")
  /\ writer = None
  /\ Walk(t)
  /\ UNCHANGED <<heapVars, adminVars, cur, mutexVars, refcnt, sharers, due>>

\* ... then the load of _cache_ptr.
CacheLoad(t) ==
  /\ Step(t, "load", "next")
  /\ Walk(t)
  /\ UNCHANGED <<heapVars, adminVars, cur, mutexVars, refcnt, sharers, due>>

\* The next queue of the loop.  A push goes through sub_queue::push, with
\* the lock if the cache says so; kick and shutdown only notify.
Visit(t) ==
  /\ pc[t] = "next"
  /\ \E q \in todo[t] :
       /\ todo' = [todo EXCEPT ![t] = @ \ {q}]
       /\ cur' = [cur EXCEPT ![t] = q]
  /\ Goto(t, IF t \notin Pubs THEN "notify"
             ELSE IF NeedLock(snap[t]) THEN "qlock" ELSE "push")
  /\ UNCHANGED <<heapVars, adminVars, snap, mutexVars, refcnt, sharers, due>>

QueueLock(p) ==
  /\ Step(p, "qlock", "push")
  /\ qmutex[cur[p]] = None
  /\ qmutex' = [qmutex EXCEPT ![cur[p]] = p]
  /\ UNCHANGED <<heapVars, adminVars, snap, todo, cur, nmutex, refcnt, sharers, due>>

\* The end of the counters' update and of _fifo.push(d); while pc[p] = "push"
\* the publisher is inside them.
FifoPush(p) ==
  /\ pc[p] = "push"
  /\ Goto(p, IF NeedLock(snap[p]) THEN "qunlock" ELSE "notify")
  /\ due' = [due EXCEPT ![p] = @ \ {cur[p]}]
  /\ UNCHANGED <<heapVars, adminVars, walkVars, refcnt, sharers>>

QueueUnlock(p) ==
  /\ Step(p, "qunlock", "notify")
  /\ qmutex' = [qmutex EXCEPT ![cur[p]] = None]
  /\ UNCHANGED <<heapVars, adminVars, snap, todo, cur, nmutex, refcnt, sharers, due>>

\* The notifier is called through the queue, after its mutex is released.
\* notify() and shutdown() of notifier_cv take the notifier's mutex ...
NotifyLock(t) ==
  /\ Step(t, "notify", "counting")
  /\ cur[t] \in Waking /\ nmutex[cur[t]] = None
  /\ nmutex' = [nmutex EXCEPT ![cur[t]] = t]
  /\ UNCHANGED <<heapVars, adminVars, snap, todo, cur, qmutex, refcnt, sharers, due>>

\* ... and release it, once _count is raised; notify_one() waits for nobody.
\* Those of the base class are empty, and a queue may have no notifier.
NotifyUnlock(t) ==
  /\ Step(t, IF cur[t] \in Waking THEN "counting" ELSE "notify", "next")
  /\ nmutex' = [nmutex EXCEPT ![cur[t]] = None]
  /\ cur' = [cur EXCEPT ![t] = None]
  /\ UNCHANGED <<heapVars, adminVars, snap, todo, qmutex, refcnt, sharers, due>>

Notify(t) == NotifyLock(t) \/ NotifyUnlock(t)

\* The subscriber's wait_for() takes the notifier's mutex when it begins and
\* each time it wakes up; so do calls through other topics' queues.
WaitLock(s) ==
  /\ s \in Waking /\ nmutex[s] = None
  /\ nmutex' = [nmutex EXCEPT ![s] = s]
  /\ UNCHANGED <<heapVars, adminVars, snap, todo, cur, qmutex, refcnt, sharers, pc, due>>

\* It releases it when it goes to sleep or returns.
WaitUnlock(s) ==
  /\ nmutex[s] = s
  /\ nmutex' = [nmutex EXCEPT ![s] = None]
  /\ UNCHANGED <<heapVars, adminVars, snap, todo, cur, qmutex, refcnt, sharers, pc, due>>

\* Mutant: the reference is kept.
CachePutNot(t) ==
  /\ Step(t, "next", "in")
  /\ todo[t] = {}
  /\ snap' = [snap EXCEPT ![t] = None]
  /\ UNCHANGED <<heapVars, adminVars, todo, cur, mutexVars, refcnt, sharers, due>>

CachePut(t) ==
  /\ Step(t, "next", "in")
  /\ todo[t] = {}
  /\ refcnt' = refcnt - 1
  /\ snap' = [snap EXCEPT ![t] = None]
  /\ UNCHANGED <<heapVars, adminVars, todo, cur, mutexVars, sharers, due>>

-----------------------------------------------------------------------------
(* query, dump.                                                            *)

QueryLock(t) ==
  /\ Step(t, "in", "query")
  /\ writer = None
  /\ sharers' = sharers \cup {t}
  /\ Walk(t)
  /\ UNCHANGED <<heapVars, adminVars, cur, mutexVars, refcnt, due>>

\* One queue's name, capacity, size and counters are read.
QueryVisit(t) ==
  /\ pc[t] = "query"
  /\ \E q \in todo[t] :
       /\ todo' = [todo EXCEPT ![t] = @ \ {q}]
       /\ cur' = [cur EXCEPT ![t] = q]
  /\ UNCHANGED <<heapVars, adminVars, snap, mutexVars, pc, refcnt, sharers, due>>

QueryUnlock(t) ==
  /\ Step(t, "query", "in")
  /\ todo[t] = {}
  /\ sharers' = sharers \ {t}
  /\ snap' = [snap EXCEPT ![t] = None]
  /\ cur' = [cur EXCEPT ![t] = None]
  /\ UNCHANGED <<heapVars, adminVars, todo, mutexVars, refcnt, due>>

-----------------------------------------------------------------------------

Init ==
  /\ \E c \in CacheCells :
       cachePtr = c /\ allocated = {c} /\ newCache = c /\ oldCache = c
  /\ cache = [c \in CacheCells |-> {}]
  /\ refcnt = 0
  /\ alive = {} /\ joining = {}
  /\ writer = None /\ sharers = {}
  /\ pc = [t \in Members \cup Services |-> IF t \in Services THEN "in" ELSE "out"]
  /\ snap = [t \in Readers |-> None]
  /\ todo = [t \in Readers |-> {}]
  /\ cur = [t \in Readers |-> None]
  /\ qmutex = [s \in Subs |-> None] /\ nmutex = [s \in Subs |-> None]
  /\ due = [p \in Pubs |-> {}]

\* What the thread does next inside a call, once it has _mutex or a reference.
AdminStep(m) ==
  CacheCopy(m) \/ CacheSwap(m) \/ Drained(m) \/ FreeOld(m) \/ Finish(m)

WalkStep(t) ==
  CacheLoad(t) \/ Visit(t) \/ Notify(t) \/ CachePut(t)

PushStep(p) == WalkStep(p) \/ QueueLock(p) \/ FifoPush(p) \/ QueueUnlock(p)

Next ==
  \/ \E m \in Members : Join(m) \/ Leave(m) \/ Lock(m) \/ AdminStep(m)
  \/ \E t \in Readers : CacheGet(t) \/ WalkStep(t)
  \/ \E p \in Pubs : QueueLock(p) \/ FifoPush(p) \/ QueueUnlock(p)
  \/ \E s \in Subs : WaitLock(s) \/ WaitUnlock(s)
  \/ \E s \in Services : QueryLock(s) \/ QueryVisit(s) \/ QueryUnlock(s)

Spec == Init /\ [][Next]_vars

\* Publishers in a push run: everybody else may stop at any point.  Nobody
\* has to call, or is sure to win a mutex that others keep taking.
PushFairSpec == Spec /\ \A p \in Pubs : WF_vars(PushStep(p))

\* The other threads inside a call run as well (of those in a registration,
\* the one that holds _mutex), and a mutex that is free again and again is won.
OthersRun ==
  /\ WF_vars(\E m \in Members : AdminStep(m))
  /\ \A s \in Subs : WF_vars(WaitUnlock(s))
  /\ \A p \in Pubs : SF_vars(PushStep(p))
  /\ \A k \in Services : SF_vars(WalkStep(k))

\* A spin that never misses a zero for ever, which the code does not promise.
SpinFairSpec ==
  PushFairSpec /\ OthersRun /\ \A m \in Members : SF_vars(Drained(m))

-----------------------------------------------------------------------------
(* Properties.                                                             *)

AdminPC == {"copy", "swap", "drain", "free", "finish"}
AtQueuePC == {"qlock", "push", "qunlock", "notify", "counting"}
HoldPC == {"load", "next"} \cup AtQueuePC

TypeOK ==
  /\ cachePtr \in CacheCells /\ newCache \in CacheCells /\ oldCache \in CacheCells
  /\ allocated \subseteq CacheCells
  /\ cache \in [CacheCells -> SUBSET Members]
  /\ refcnt \in Nat
  /\ alive \subseteq Members /\ joining \subseteq Members
  /\ writer \in Members \cup {None} /\ sharers \subseteq Services
  /\ pc \in [Members \cup Services ->
               {"out", "in", "lock", "query"} \cup AdminPC \cup HoldPC]
  /\ snap \in [Readers -> CacheCells \cup {None}]
  /\ todo \in [Readers -> SUBSET Subs]
  /\ cur \in [Readers -> Subs \cup {None}]
  /\ qmutex \in [Subs -> Pubs \cup {None}]
  /\ nmutex \in [Subs -> Readers \cup Subs \cup {None}]
  /\ due \in [Pubs -> SUBSET Subs]

\* A thread never walks a cache that cache_swap() has deleted, however its
\* increment and load interleave with the exchange and the spin.
SnapshotAlive == \A t \in Readers : snap[t] # None => snap[t] \in allocated

\* Neither a queue that a push, kick or query is at, nor one it has yet to
\* visit, has been deleted by unsubscribe(); and a publisher in push() still
\* has its handle, whose trace format it reads.
ObjectsAlive ==
  /\ \A t \in Readers : todo[t] \subseteq alive /\ cur[t] \in alive \cup {None}
  /\ \A p \in Pubs : pc[p] \in HoldPC => p \in alive

\* Two publishers are never inside the counters and the producer side of one
\* queue's ring, although each decides whether to lock from the cache it
\* happened to load.  This is what module SpscQueue assumes.
OneProducer ==
  \A p1, p2 \in Pubs :
    p1 # p2 /\ pc[p1] = "push" /\ pc[p2] = "push" => cur[p1] # cur[p2]

\* Outside a registration exactly one cache exists: no interleaving of
\* registrations and readers leaks or double-frees one.
OneCache == writer = None => allocated = {cachePtr}

\* A push reaches every subscriber that was subscribed when push() was called
\* and has not begun to unsubscribe: the lists are swapped under the push's
\* feet, but never to its loss.
NobodyMissed ==
  \A p \in Pubs : pc[p] = "next" /\ todo[p] = {} => due[p] = {}

\* A registration that holds the lock ends, provided that threads inside a
\* call run, and that push, kick and shutdown are no longer called from some
\* point on.
SwapEndsWhenQuiet ==
  OthersRun /\ <>[][\A t \in Readers : ~CacheGet(t)]_vars =>
    \A m \in Members : pc[m] = "drain" ~> pc[m] \in {"in", "out"}

\* topic.hpp, cache_swap: "Atomically swap cache pointer and release the
\* orignal".  While pushes of two publishers keep overlapping, the counter
\* never is zero and the original is never released.
SwapReleases == \A m \in Members : pc[m] = "drain" ~> pc[m] = "finish"

\* sub-queue.hpp, push: "Lockfree and nonblocking for single-publisher case".
\* It is up to the notifier: a push takes the notifier's mutex, as kick(),
\* shutdown() and the subscriber's wait_for() do.  What holds is that a push
\* returns or meets somebody inside that mutex or, if there are several
\* publishers, inside the queue's; it depends on nobody else, even if a
\* registration or query, or a kick anywhere else, stops half way for ever.
MeetsHolder(p) ==
  \/ pc[p] = "qlock" /\ NeedLock(snap[p]) /\ qmutex[cur[p]] \in Pubs \ {p}
  \/ pc[p] = "notify" /\ nmutex[cur[p]] \notin {p, None}

PushReturns == \A p \in Pubs : pc[p] \in HoldPC ~> pc[p] = "in" \/ MeetsHolder(p)
=============================================================================
