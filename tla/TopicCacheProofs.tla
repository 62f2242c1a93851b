-------------------------- MODULE TopicCacheProofs --------------------------
(***************************************************************************)
(* Proofs about TopicCache, for any finite sets of publishers, subscribers *)
(* and service threads, and any set of addresses.                          *)
(***************************************************************************)
EXTENDS TopicCache, FiniteSetTheorems, TLAPS

-----------------------------------------------------------------------------
(* The inductive invariant.                                                *)

Threads == Members \cup Services

WalkPC == {"next", "qlock", "push", "qunlock", "notify", "counting", "query"}

\* Which calls each kind of thread can be in, and who owns _mutex.
Roles ==
  /\ \A p \in Pubs : pc[p] \in {"out", "in", "lock"} \cup AdminPC \cup HoldPC
  /\ \A s \in Subs : pc[s] \in {"out", "in", "lock"} \cup AdminPC
  /\ \A k \in Services : pc[k] \in {"in", "query", "load", "next", "notify", "counting"}
  /\ \A m \in Members : writer = m <=> pc[m] \in AdminPC
  /\ \A m \in Members : m \in joining => pc[m] \in {"lock"} \cup AdminPC
  /\ \A m \in Members : m \in alive <=> pc[m] # "out"
  /\ sharers = {k \in Services : pc[k] = "query"}
  /\ writer = None \/ sharers = {}

\* The counter counts: nobody who holds a reference is missed at zero.
Holders == {t \in Readers : pc[t] \in HoldPC}
RefCounted == refcnt = Cardinality(Holders)

\* Which caches exist at each point of a registration.
Heap ==
  /\ cachePtr \in allocated
  /\ writer = None => allocated = {cachePtr}
  /\ \A m \in Members :
       /\ pc[m] \in {"copy", "finish"} => allocated = {cachePtr}
       /\ pc[m] = "swap" => allocated = {cachePtr, newCache} /\ newCache # cachePtr
       /\ pc[m] \in {"drain", "free"} =>
            allocated = {cachePtr, oldCache} /\ oldCache # cachePtr

\* Who is listed in the caches that exist.  A member that is not in the
\* middle of its own registration is in all of them or in none.
Listed ==
  \A m \in Members :
    /\ pc[m] \in {"in"} \cup HoldPC => \A c \in allocated : m \in cache[c]
    /\ pc[m] = "out" => \A c \in allocated : m \notin cache[c]
    /\ pc[m] \in {"lock", "copy"} =>
         \A c \in allocated : m \in cache[c] <=> m \notin joining
    /\ pc[m] = "swap" => (m \in cache[newCache] <=> m \in joining)
    /\ pc[m] \in {"drain", "free", "finish"} =>
         (m \in cache[cachePtr] <=> m \in joining)

\* What a reader walks: a cache that exists, and nothing but its queues.
Walking ==
  \A t \in Readers :
    /\ snap[t] # None <=> pc[t] \in WalkPC
    /\ snap[t] = None => todo[t] = {} /\ cur[t] = None
    /\ snap[t] # None => /\ snap[t] \in allocated
                         /\ todo[t] \subseteq cache[snap[t]]
                         /\ cur[t] \in cache[snap[t]] \cup {None}
    /\ pc[t] = "next" => cur[t] = None
    /\ pc[t] \in AtQueuePC => cur[t] \in Subs
    /\ \A m \in Members : pc[m] = "free" => snap[t] # oldCache

\* A publisher that is to lock a queue holds its mutex inside.
Locking ==
  \A p \in Pubs :
    /\ pc[p] = "qlock" => NeedLock(snap[p])
    /\ pc[p] = "push" /\ NeedLock(snap[p]) => qmutex[cur[p]] = p
    /\ pc[p] = "qunlock" => qmutex[cur[p]] = p

\* A queue that a push must still reach is ahead of it or under it.
Owed ==
  \A p \in Pubs :
    /\ due[p] \subseteq Subscribed
    /\ pc[p] \in {"next", "notify", "counting"} => due[p] \subseteq todo[p]
    /\ pc[p] \in {"qlock", "push"} => due[p] \subseteq todo[p] \cup {cur[p]}
    /\ pc[p] = "qunlock" => due[p] \subseteq todo[p]

IInv ==
  /\ TypeOK /\ Roles /\ RefCounted /\ Heap /\ Listed /\ Walking /\ Locking /\ Owed

-----------------------------------------------------------------------------
(* Vocabulary that every step below expands.                               *)

USE DEF Members, Readers, Threads, AdminPC, HoldPC, WalkPC, AtQueuePC,
        Goto, Step, heapVars, adminVars, walkVars, mutexVars

\* A reader that takes or drops a reference moves the counter by one, one
\* that does neither leaves it.
LEMMA HoldersFinite == IsFiniteSet(Holders)
  <1>1. IsFiniteSet(Readers)
    BY ThreadsAssumption, FS_Union
  <1>2. Holders \in SUBSET Readers
    BY DEF Holders
  <1> QED  BY <1>1, <1>2, FS_Subset

\* Two publishers listed in a cache make every push through it lock.
LEMMA TwoNeedLock ==
  ASSUME TypeOK, NEW c \in CacheCells,
         NEW p1 \in PubsOf(c), NEW p2 \in PubsOf(c), p1 # p2
  PROVE  NeedLock(c)
  <1>1. IsFiniteSet(PubsOf(c))
    BY ThreadsAssumption, FS_Subset, PubsOf(c) \in SUBSET Pubs DEF PubsOf
  <1>2. Cardinality({p1, p2}) = 2 /\ {p1, p2} \in SUBSET PubsOf(c)
    <2>1. IsFiniteSet({p1}) /\ Cardinality({p1}) = 1
      BY FS_Singleton
    <2>2. Cardinality({p1} \cup {p2}) = Cardinality({p1}) + 1
      BY <2>1, p2 \notin {p1}, FS_AddElement
    <2>3. {p1} \cup {p2} = {p1, p2}
      OBVIOUS
    <2> QED  BY <2>1, <2>2, <2>3
  <1>3. Cardinality({p1, p2}) <= Cardinality(PubsOf(c))
    BY <1>1, <1>2, FS_Subset
  <1>4. Cardinality(PubsOf(c)) \in Nat
    BY <1>1, FS_CardinalityType
  <1> QED  BY <1>2, <1>3, <1>4 DEF NeedLock

-----------------------------------------------------------------------------
(* Registrations.                                                          *)

LEMMA JoinKeeps ==
  ASSUME IInv, NEW m \in Members, Join(m)
  PROVE  IInv'
  <1> USE ThreadsAssumption DEF Join
  <1>1. TypeOK'      BY DEF IInv, TypeOK
  <1>2. Roles'       BY DEF IInv, TypeOK, Roles
  <1>3. Holders' = Holders  BY DEF IInv, TypeOK, Holders
  <1>4. RefCounted'  BY <1>3 DEF IInv, RefCounted
  <1>5. Heap'        BY DEF IInv, TypeOK, Heap
  <1>6. Listed'      BY DEF IInv, TypeOK, Roles, Listed
  <1>7. Walking'     BY DEF IInv, TypeOK, Roles, Walking
  <1>8. Locking'     BY DEF IInv, TypeOK, Locking, NeedLock, PubsOf
  <1>9. Owed'        BY DEF IInv, TypeOK, Owed, Subscribed
  <1> QED  BY <1>1, <1>2, <1>4, <1>5, <1>6, <1>7, <1>8, <1>9 DEF IInv

LEMMA LeaveKeeps ==
  ASSUME IInv, NEW m \in Members, Leave(m)
  PROVE  IInv'
  <1> USE ThreadsAssumption DEF Leave
  <1>1. TypeOK'      BY DEF IInv, TypeOK
  <1>2. Roles'       BY DEF IInv, TypeOK, Roles
  <1>3. Holders' = Holders  BY DEF IInv, TypeOK, Roles, Holders
  <1>4. RefCounted'  BY <1>3 DEF IInv, RefCounted
  <1>5. Heap'        BY DEF IInv, TypeOK, Roles, Heap
  <1>6. Listed'      BY DEF IInv, TypeOK, Roles, Heap, Listed
  <1>7. Walking'     BY DEF IInv, TypeOK, Roles, Walking
  <1>8. Locking'     BY DEF IInv, TypeOK, Roles, Walking, Locking, NeedLock, PubsOf
  <1>9. Owed'        BY DEF IInv, TypeOK, Roles, Owed, Subscribed
  <1> QED  BY <1>1, <1>2, <1>4, <1>5, <1>6, <1>7, <1>8, <1>9 DEF IInv

LEMMA LockKeeps ==
  ASSUME IInv, NEW m \in Members, Lock(m)
  PROVE  IInv'
  <1> USE ThreadsAssumption DEF Lock
  <1>1. TypeOK'      BY DEF IInv, TypeOK
  <1>2. Roles'       BY DEF IInv, TypeOK, Roles
  <1>3. Holders' = Holders  BY DEF IInv, TypeOK, Roles, Holders
  <1>4. RefCounted'  BY <1>3 DEF IInv, RefCounted
  <1>5. Heap'        BY DEF IInv, TypeOK, Roles, Heap
  <1>6. Listed'      BY DEF IInv, TypeOK, Roles, Heap, Listed
  <1>7. Walking'     BY DEF IInv, TypeOK, Roles, Walking
  <1>8. Locking'     BY DEF IInv, TypeOK, Roles, Walking, Locking, NeedLock, PubsOf
  <1>9. Owed'        BY DEF IInv, TypeOK, Roles, Owed, Subscribed
  <1> QED  BY <1>1, <1>2, <1>4, <1>5, <1>6, <1>7, <1>8, <1>9 DEF IInv

LEMMA CacheCopyKeeps ==
  ASSUME IInv, NEW m \in Members, CacheCopy(m)
  PROVE  IInv'
  <1> USE ThreadsAssumption DEF CacheCopy
  <1>1. TypeOK'      BY DEF IInv, TypeOK, Edited
  <1>2. Roles'       BY DEF IInv, TypeOK, Roles
  <1>3. Holders' = Holders  BY DEF IInv, TypeOK, Roles, Holders
  <1>4. RefCounted'  BY <1>3 DEF IInv, RefCounted
  <1>5. Heap'        BY DEF IInv, TypeOK, Roles, Heap
  <1>6. Listed'      BY DEF IInv, TypeOK, Roles, Heap, Listed, Edited
  <1>7. Walking'     BY DEF IInv, TypeOK, Roles, Heap, Walking
  <1>8. Locking'
    <2>1. \A p \in Pubs : snap[p] # None => NeedLock(snap[p])' = NeedLock(snap[p])
      <3> SUFFICES ASSUME NEW p \in Pubs, snap[p] # None
                   PROVE  cache'[snap[p]] = cache[snap[p]] /\ snap' = snap
        BY DEF NeedLock, PubsOf
      <3> QED  BY DEF IInv, TypeOK, Walking
    <2>2. \A p \in Pubs : pc[p] \in WalkPC => snap[p] # None
      BY DEF IInv, Walking
    <2>3. \A p \in Pubs : pc'[p] \in WalkPC => pc'[p] = pc[p]
      BY DEF IInv, TypeOK
    <2> QED  BY <2>1, <2>2, <2>3 DEF IInv, Locking
  <1>9. Owed'        BY DEF IInv, TypeOK, Roles, Owed, Subscribed
  <1> QED  BY <1>1, <1>2, <1>4, <1>5, <1>6, <1>7, <1>8, <1>9 DEF IInv

LEMMA CacheSwapKeeps ==
  ASSUME IInv, NEW m \in Members, CacheSwap(m)
  PROVE  IInv'
  <1> USE ThreadsAssumption DEF CacheSwap
  <1>1. TypeOK'      BY DEF IInv, TypeOK
  <1>2. Roles'       BY DEF IInv, TypeOK, Roles
  <1>3. Holders' = Holders  BY DEF IInv, TypeOK, Roles, Holders
  <1>4. RefCounted'  BY <1>3 DEF IInv, RefCounted
  <1>5. Heap'        BY DEF IInv, TypeOK, Roles, Heap
  <1>6. Listed'      BY DEF IInv, TypeOK, Roles, Heap, Listed
  <1>7. Walking'     BY DEF IInv, TypeOK, Roles, Heap, Walking
  <1>8. Locking'     BY DEF IInv, TypeOK, Roles, Walking, Locking, NeedLock, PubsOf
  <1>9. Owed'        BY DEF IInv, TypeOK, Roles, Owed, Subscribed
  <1> QED  BY <1>1, <1>2, <1>4, <1>5, <1>6, <1>7, <1>8, <1>9 DEF IInv

\* The step the counter is for: at zero nobody holds a reference, and nobody
\* queries either, so nobody walks the old cache.
LEMMA NobodyWalksAtZero ==
  ASSUME IInv, NEW m \in Members, pc[m] = "drain", refcnt = 0
  PROVE  \A t \in Readers : snap[t] = None
  <1>1. Holders = {}
    BY HoldersFinite, FS_EmptySet DEF IInv, RefCounted
  <1>2. sharers = {}
    BY ThreadsAssumption DEF IInv, Roles
  <1> QED  BY <1>1, <1>2, ThreadsAssumption DEF IInv, Roles, Walking, Holders

LEMMA DrainedKeeps ==
  ASSUME IInv, NEW m \in Members, Drained(m)
  PROVE  IInv'
  <1> USE ThreadsAssumption DEF Drained
  <1>1. TypeOK'      BY DEF IInv, TypeOK
  <1>2. Roles'       BY DEF IInv, TypeOK, Roles
  <1>3. Holders' = Holders  BY DEF IInv, TypeOK, Roles, Holders
  <1>4. RefCounted'  BY <1>3 DEF IInv, RefCounted
  <1>5. Heap'        BY DEF IInv, TypeOK, Roles, Heap
  <1>6. Listed'      BY DEF IInv, TypeOK, Roles, Heap, Listed
  <1>7. Walking'     BY NobodyWalksAtZero DEF IInv, TypeOK, Roles, Heap, Walking
  <1>8. Locking'     BY DEF IInv, TypeOK, Roles, Walking, Locking, NeedLock, PubsOf
  <1>9. Owed'        BY DEF IInv, TypeOK, Roles, Owed, Subscribed
  <1> QED  BY <1>1, <1>2, <1>4, <1>5, <1>6, <1>7, <1>8, <1>9 DEF IInv

LEMMA FreeOldKeeps ==
  ASSUME IInv, NEW m \in Members, FreeOld(m)
  PROVE  IInv'
  <1> USE ThreadsAssumption DEF FreeOld
  <1>1. TypeOK'      BY DEF IInv, TypeOK
  <1>2. Roles'       BY DEF IInv, TypeOK, Roles
  <1>3. Holders' = Holders  BY DEF IInv, TypeOK, Roles, Holders
  <1>4. RefCounted'  BY <1>3 DEF IInv, RefCounted
  <1>5. Heap'        BY DEF IInv, TypeOK, Roles, Heap
  <1>6. Listed'      BY DEF IInv, TypeOK, Roles, Heap, Listed
  <1>7. Walking'     BY DEF IInv, TypeOK, Roles, Heap, Walking
  <1>8. Locking'     BY DEF IInv, TypeOK, Roles, Walking, Locking, NeedLock, PubsOf
  <1>9. Owed'        BY DEF IInv, TypeOK, Roles, Owed, Subscribed
  <1> QED  BY <1>1, <1>2, <1>4, <1>5, <1>6, <1>7, <1>8, <1>9 DEF IInv

LEMMA FinishKeeps ==
  ASSUME IInv, NEW m \in Members, Finish(m)
  PROVE  IInv'
  <1> USE ThreadsAssumption DEF Finish
  <1>1. TypeOK'      BY DEF IInv, TypeOK
  <1>2. Roles'       BY DEF IInv, TypeOK, Roles
  <1>3. Holders' = Holders  BY DEF IInv, TypeOK, Roles, Holders
  <1>4. RefCounted'  BY <1>3 DEF IInv, RefCounted
  <1>5. Heap'        BY DEF IInv, TypeOK, Roles, Heap
  <1>6. Listed'      BY DEF IInv, TypeOK, Roles, Heap, Listed
  <1>7. Walking'     BY DEF IInv, TypeOK, Roles, Walking
  <1>8. Locking'
    <2>1. \A p \in Pubs : NeedLock(snap[p])' = NeedLock(snap[p])
      BY DEF NeedLock, PubsOf
    <2>2. \A p \in Pubs \ {m} : pc'[p] = pc[p]
      BY DEF IInv, TypeOK
    <2>3. m \in Pubs => pc'[m] \in {"in", "out"}
      BY DEF IInv, TypeOK
    <2> QED  BY <2>1, <2>2, <2>3 DEF IInv, Locking
  <1>9. Owed'        BY DEF IInv, TypeOK, Roles, Owed, Subscribed
  <1> QED  BY <1>1, <1>2, <1>4, <1>5, <1>6, <1>7, <1>8, <1>9 DEF IInv

-----------------------------------------------------------------------------
(* push, kick, shutdown.                                                   *)

LEMMA CacheGetKeeps ==
  ASSUME IInv, NEW t \in Readers, CacheGet(t)
  PROVE  IInv'
  <1> USE ThreadsAssumption DEF CacheGet
  <1>1. TypeOK'      BY DEF IInv, TypeOK, StartDue, Subscribed
  <1>2. Roles'       BY DEF IInv, TypeOK, Roles
  <1>3. Holders' = Holders \cup {t} /\ t \notin Holders
    BY DEF IInv, TypeOK, Roles, Holders
  <1>4. RefCounted'
    BY <1>3, HoldersFinite, FS_AddElement DEF IInv, RefCounted
  <1>5. Heap'        BY DEF IInv, TypeOK, Roles, Heap
  <1>6. Listed'      BY DEF IInv, TypeOK, Roles, Heap, Listed
  <1>7. Walking'     BY DEF IInv, TypeOK, Roles, Walking
  <1>8. Locking'     BY DEF IInv, TypeOK, Roles, Walking, Locking, NeedLock, PubsOf
  <1>9. Owed'        BY DEF IInv, TypeOK, Roles, Owed, Subscribed, StartDue
  <1> QED  BY <1>1, <1>2, <1>4, <1>5, <1>6, <1>7, <1>8, <1>9 DEF IInv

LEMMA CacheLoadKeeps ==
  ASSUME IInv, NEW t \in Readers, CacheLoad(t)
  PROVE  IInv'
  <1> USE ThreadsAssumption DEF CacheLoad
  <1>1. TypeOK'      BY DEF IInv, TypeOK, Walk, SubsOf
  <1>2. Roles'       BY DEF IInv, TypeOK, Roles
  <1>3. Holders' = Holders  BY DEF IInv, TypeOK, Roles, Holders
  <1>4. RefCounted'  BY <1>3 DEF IInv, RefCounted
  <1>5. Heap'        BY DEF IInv, TypeOK, Roles, Heap
  <1>6. Listed'      BY DEF IInv, TypeOK, Roles, Heap, Listed
  <1>7. Walking'     BY DEF IInv, TypeOK, Roles, Heap, Walking, Walk, SubsOf
  <1>8. Locking'     BY DEF IInv, TypeOK, Roles, Walking, Locking, NeedLock, PubsOf, Walk
  <1>9. Owed'        BY DEF IInv, TypeOK, Roles, Heap, Listed, Owed, Subscribed, Walk, SubsOf
  <1> QED  BY <1>1, <1>2, <1>4, <1>5, <1>6, <1>7, <1>8, <1>9 DEF IInv

LEMMA VisitKeeps ==
  ASSUME IInv, NEW t \in Readers, Visit(t)
  PROVE  IInv'
  <1> USE ThreadsAssumption DEF Visit
  <1>1. TypeOK'      BY DEF IInv, TypeOK
  <1>2. Roles'       BY DEF IInv, TypeOK, Roles
  <1>3. Holders' = Holders  BY DEF IInv, TypeOK, Roles, Holders
  <1>4. RefCounted'  BY <1>3 DEF IInv, RefCounted
  <1>5. Heap'        BY DEF IInv, TypeOK, Roles, Heap
  <1>6. Listed'      BY DEF IInv, TypeOK, Roles, Heap, Listed
  <1>7. Walking'     BY DEF IInv, TypeOK, Roles, Walking
  <1>8. Locking'     BY DEF IInv, TypeOK, Roles, Walking, Locking, NeedLock, PubsOf
  <1>9. Owed'        BY DEF IInv, TypeOK, Roles, Walking, Owed, Subscribed
  <1> QED  BY <1>1, <1>2, <1>4, <1>5, <1>6, <1>7, <1>8, <1>9 DEF IInv

LEMMA QueueLockKeeps ==
  ASSUME IInv, NEW p \in Pubs, QueueLock(p)
  PROVE  IInv'
  <1> USE ThreadsAssumption DEF QueueLock
  <1>1. TypeOK'      BY DEF IInv, TypeOK
  <1>2. Roles'       BY DEF IInv, TypeOK, Roles
  <1>3. Holders' = Holders  BY DEF IInv, TypeOK, Roles, Holders
  <1>4. RefCounted'  BY <1>3 DEF IInv, RefCounted
  <1>5. Heap'        BY DEF IInv, TypeOK, Roles, Heap
  <1>6. Listed'      BY DEF IInv, TypeOK, Roles, Heap, Listed
  <1>7. Walking'     BY DEF IInv, TypeOK, Roles, Walking
  <1>8. Locking'     BY DEF IInv, TypeOK, Roles, Walking, Locking, NeedLock, PubsOf
  <1>9. Owed'        BY DEF IInv, TypeOK, Roles, Owed, Subscribed
  <1> QED  BY <1>1, <1>2, <1>4, <1>5, <1>6, <1>7, <1>8, <1>9 DEF IInv

LEMMA FifoPushKeeps ==
  ASSUME IInv, NEW p \in Pubs, FifoPush(p)
  PROVE  IInv'
  <1> USE ThreadsAssumption DEF FifoPush
  <1>1. TypeOK'      BY DEF IInv, TypeOK
  <1>2. Roles'       BY DEF IInv, TypeOK, Roles
  <1>3. Holders' = Holders  BY DEF IInv, TypeOK, Roles, Holders
  <1>4. RefCounted'  BY <1>3 DEF IInv, RefCounted
  <1>5. Heap'        BY DEF IInv, TypeOK, Roles, Heap
  <1>6. Listed'      BY DEF IInv, TypeOK, Roles, Heap, Listed
  <1>7. Walking'     BY DEF IInv, TypeOK, Roles, Walking
  <1>8. Locking'     BY DEF IInv, TypeOK, Roles, Walking, Locking, NeedLock, PubsOf
  <1>9. Owed'        BY DEF IInv, TypeOK, Roles, Owed, Subscribed
  <1> QED  BY <1>1, <1>2, <1>4, <1>5, <1>6, <1>7, <1>8, <1>9 DEF IInv

LEMMA QueueUnlockKeeps ==
  ASSUME IInv, NEW p \in Pubs, QueueUnlock(p)
  PROVE  IInv'
  <1> USE ThreadsAssumption DEF QueueUnlock
  <1>1. TypeOK'      BY DEF IInv, TypeOK
  <1>2. Roles'       BY DEF IInv, TypeOK, Roles
  <1>3. Holders' = Holders  BY DEF IInv, TypeOK, Roles, Holders
  <1>4. RefCounted'  BY <1>3 DEF IInv, RefCounted
  <1>5. Heap'        BY DEF IInv, TypeOK, Roles, Heap
  <1>6. Listed'      BY DEF IInv, TypeOK, Roles, Heap, Listed
  <1>7. Walking'     BY DEF IInv, TypeOK, Roles, Walking
  <1>8. Locking'
    <2>1. \A r \in Pubs : NeedLock(snap[r])' = NeedLock(snap[r])
      BY DEF NeedLock, PubsOf
    <2>2. \A r \in Pubs \ {p} : pc'[r] = pc[r]
      BY DEF IInv, TypeOK
    <2>3. pc'[p] = "notify"
      BY DEF IInv, TypeOK
    <2>4. qmutex[cur[p]] = p
      BY DEF IInv, Locking
    <2>5. \A r \in Pubs \ {p} : qmutex[cur[r]] = r => qmutex'[cur[r]] = r
      BY <2>4 DEF IInv, TypeOK
    <2> QED  BY <2>1, <2>2, <2>3, <2>5 DEF IInv, Locking
  <1>9. Owed'        BY DEF IInv, TypeOK, Roles, Owed, Subscribed
  <1> QED  BY <1>1, <1>2, <1>4, <1>5, <1>6, <1>7, <1>8, <1>9 DEF IInv

LEMMA NotifyKeeps ==
  ASSUME IInv, NEW t \in Readers, Notify(t)
  PROVE  IInv'
  <1> USE ThreadsAssumption DEF Notify, NotifyLock, NotifyUnlock
  <1>1. TypeOK'      BY DEF IInv, TypeOK
  <1>2. Roles'       BY DEF IInv, TypeOK, Roles
  <1>3. Holders' = Holders  BY DEF IInv, TypeOK, Roles, Holders
  <1>4. RefCounted'  BY <1>3 DEF IInv, RefCounted
  <1>5. Heap'        BY DEF IInv, TypeOK, Roles, Heap
  <1>6. Listed'      BY DEF IInv, TypeOK, Roles, Heap, Listed
  <1>7. Walking'     BY DEF IInv, TypeOK, Roles, Walking
  <1>8. Locking'
    <2>1. \A p \in Pubs : NeedLock(snap[p])' = NeedLock(snap[p])
      BY DEF NeedLock, PubsOf
    <2>2. \A p \in Pubs : pc'[p] \in {"qlock", "push", "qunlock"} =>
            pc'[p] = pc[p] /\ cur'[p] = cur[p]
      BY DEF IInv, TypeOK
    <2> QED  BY <2>1, <2>2 DEF IInv, Locking
  <1>9. Owed'        BY DEF IInv, TypeOK, Roles, Owed, Subscribed
  <1> QED  BY <1>1, <1>2, <1>4, <1>5, <1>6, <1>7, <1>8, <1>9 DEF IInv

\* The subscriber's own use of the notifier's mutex disturbs nobody.
LEMMA WaitKeeps ==
  ASSUME IInv, NEW s \in Subs, WaitLock(s) \/ WaitUnlock(s)
  PROVE  IInv'
  <1> USE ThreadsAssumption DEF WaitLock, WaitUnlock
  <1>1. TypeOK'
    BY DEF IInv, TypeOK
  <1>2. Roles' /\ RefCounted' /\ Heap' /\ Listed'
    BY DEF IInv, Roles, RefCounted, Holders, Heap, Listed
  <1>4. Walking'
    BY DEF IInv, Walking
  <1>3. Locking' /\ Owed'
    BY DEF IInv, Locking, NeedLock, PubsOf, Owed, Subscribed
  <1> QED  BY <1>1, <1>2, <1>3, <1>4 DEF IInv

LEMMA CachePutKeeps ==
  ASSUME IInv, NEW t \in Readers, CachePut(t)
  PROVE  IInv'
  <1> USE ThreadsAssumption DEF CachePut
  <1>2. Roles'       BY DEF IInv, TypeOK, Roles
  <1>3. Holders' = Holders \ {t} /\ t \in Holders
    BY DEF IInv, TypeOK, Roles, Holders
  <1>4. RefCounted'
    BY <1>3, HoldersFinite, FS_RemoveElement, FS_CardinalityType DEF IInv, RefCounted
  <1>1. TypeOK'
    <2>1. IsFiniteSet(Holders \ {t})
      BY HoldersFinite, FS_RemoveElement
    <2>2. refcnt' \in Nat
      BY <2>1, <1>3, <1>4, FS_CardinalityType DEF RefCounted
    <2> QED  BY <2>2 DEF IInv, TypeOK
  <1>5. Heap'        BY DEF IInv, TypeOK, Roles, Heap
  <1>6. Listed'      BY DEF IInv, TypeOK, Roles, Heap, Listed
  <1>7. Walking'     BY DEF IInv, TypeOK, Roles, Walking
  <1>8. Locking'     BY DEF IInv, TypeOK, Roles, Walking, Locking, NeedLock, PubsOf
  <1>9. Owed'        BY DEF IInv, TypeOK, Roles, Owed, Subscribed
  <1> QED  BY <1>1, <1>2, <1>4, <1>5, <1>6, <1>7, <1>8, <1>9 DEF IInv

-----------------------------------------------------------------------------
(* query, dump.                                                            *)

LEMMA QueryLockKeeps ==
  ASSUME IInv, NEW k \in Services, QueryLock(k)
  PROVE  IInv'
  <1> USE ThreadsAssumption DEF QueryLock
  <1>1. TypeOK'      BY DEF IInv, TypeOK, Walk, SubsOf
  <1>2. Roles'       BY DEF IInv, TypeOK, Roles
  <1>3. Holders' = Holders  BY DEF IInv, TypeOK, Roles, Holders
  <1>4. RefCounted'  BY <1>3 DEF IInv, RefCounted
  <1>5. Heap'        BY DEF IInv, TypeOK, Roles, Heap
  <1>6. Listed'      BY DEF IInv, TypeOK, Roles, Heap, Listed
  <1>7. Walking'     BY DEF IInv, TypeOK, Roles, Heap, Walking, Walk, SubsOf
  <1>8. Locking'     BY DEF IInv, TypeOK, Roles, Walking, Locking, NeedLock, PubsOf, Walk
  <1>9. Owed'        BY DEF IInv, TypeOK, Roles, Owed, Subscribed, Walk
  <1> QED  BY <1>1, <1>2, <1>4, <1>5, <1>6, <1>7, <1>8, <1>9 DEF IInv

LEMMA QueryVisitKeeps ==
  ASSUME IInv, NEW k \in Services, QueryVisit(k)
  PROVE  IInv'
  <1> USE ThreadsAssumption DEF QueryVisit
  <1>1. TypeOK'      BY DEF IInv, TypeOK
  <1>2. Roles'       BY DEF IInv, TypeOK, Roles
  <1>3. Holders' = Holders  BY DEF IInv, TypeOK, Roles, Holders
  <1>4. RefCounted'  BY <1>3 DEF IInv, RefCounted
  <1>5. Heap'        BY DEF IInv, TypeOK, Roles, Heap
  <1>6. Listed'      BY DEF IInv, TypeOK, Roles, Heap, Listed
  <1>7. Walking'     BY DEF IInv, TypeOK, Roles, Walking
  <1>8. Locking'     BY DEF IInv, TypeOK, Roles, Walking, Locking, NeedLock, PubsOf
  <1>9. Owed'        BY DEF IInv, TypeOK, Roles, Owed, Subscribed
  <1> QED  BY <1>1, <1>2, <1>4, <1>5, <1>6, <1>7, <1>8, <1>9 DEF IInv

LEMMA QueryUnlockKeeps ==
  ASSUME IInv, NEW k \in Services, QueryUnlock(k)
  PROVE  IInv'
  <1> USE ThreadsAssumption DEF QueryUnlock
  <1>1. TypeOK'      BY DEF IInv, TypeOK
  <1>2. Roles'       BY DEF IInv, TypeOK, Roles
  <1>3. Holders' = Holders  BY DEF IInv, TypeOK, Roles, Holders
  <1>4. RefCounted'  BY <1>3 DEF IInv, RefCounted
  <1>5. Heap'        BY DEF IInv, TypeOK, Roles, Heap
  <1>6. Listed'      BY DEF IInv, TypeOK, Roles, Heap, Listed
  <1>7. Walking'     BY DEF IInv, TypeOK, Roles, Walking
  <1>8. Locking'     BY DEF IInv, TypeOK, Roles, Walking, Locking, NeedLock, PubsOf
  <1>9. Owed'        BY DEF IInv, TypeOK, Roles, Owed, Subscribed
  <1> QED  BY <1>1, <1>2, <1>4, <1>5, <1>6, <1>7, <1>8, <1>9 DEF IInv

-----------------------------------------------------------------------------

LEMMA InitIInv == Init => IInv
  <1> SUFFICES ASSUME Init PROVE IInv
    OBVIOUS
  <1> USE ThreadsAssumption DEF Init
  <1>1. TypeOK       BY DEF TypeOK
  <1>2. Roles        BY DEF Roles
  <1>3. RefCounted
    <2>1. Holders = {}
      BY DEF Holders
    <2> QED  BY <2>1, FS_EmptySet DEF RefCounted
  <1>4. Heap         BY DEF Heap
  <1>5. Listed       BY DEF Listed
  <1>6. Walking      BY DEF Walking
  <1>7. Locking      BY DEF Locking
  <1>8. Owed         BY DEF Owed
  <1> QED  BY <1>1, <1>2, <1>3, <1>4, <1>5, <1>6, <1>7, <1>8 DEF IInv

LEMMA StutterKeeps ==
  ASSUME IInv, UNCHANGED vars
  PROVE  IInv'
  <1> USE DEF vars
  <1>1. TypeOK' /\ Roles' /\ Heap' /\ Listed' /\ Walking'
    BY DEF IInv, TypeOK, Roles, Heap, Listed, Walking
  <1>2. RefCounted'
    BY DEF IInv, RefCounted, Holders
  <1>3. Locking' /\ Owed'
    BY DEF IInv, Locking, NeedLock, PubsOf, Owed, Subscribed
  <1> QED  BY <1>1, <1>2, <1>3 DEF IInv

LEMMA StepKeeps == IInv /\ [Next]_vars => IInv'
  <1> SUFFICES ASSUME IInv, [Next]_vars PROVE IInv'
    OBVIOUS
  <1>1. CASE \E m \in Members : Join(m) \/ Leave(m) \/ Lock(m) \/ AdminStep(m)
    BY <1>1, JoinKeeps, LeaveKeeps, LockKeeps, CacheCopyKeeps, CacheSwapKeeps,
       DrainedKeeps, FreeOldKeeps, FinishKeeps DEF AdminStep
  <1>2. CASE \E t \in Readers : CacheGet(t) \/ WalkStep(t)
    BY <1>2, CacheGetKeeps, CacheLoadKeeps, VisitKeeps, NotifyKeeps,
       CachePutKeeps DEF WalkStep
  <1>3. CASE \E p \in Pubs : QueueLock(p) \/ FifoPush(p) \/ QueueUnlock(p)
    BY <1>3, QueueLockKeeps, FifoPushKeeps, QueueUnlockKeeps
  <1>4. CASE \E k \in Services : QueryLock(k) \/ QueryVisit(k) \/ QueryUnlock(k)
    BY <1>4, QueryLockKeeps, QueryVisitKeeps, QueryUnlockKeeps
  <1>5. CASE \E s \in Subs : WaitLock(s) \/ WaitUnlock(s)
    BY <1>5, WaitKeeps
  <1>6. CASE UNCHANGED vars
    BY <1>6, StutterKeeps
  <1> QED  BY <1>1, <1>2, <1>3, <1>4, <1>5, <1>6 DEF Next

LEMMA Inductive == Spec => []IInv
  BY InitIInv, StepKeeps, PTL DEF Spec

-----------------------------------------------------------------------------
(* What follows.                                                           *)

\* Every variable keeps its type.
THEOREM TypeCorrect == Spec => []TypeOK
  <1>1. IInv => TypeOK
    BY DEF IInv
  <1> QED  BY <1>1, Inductive, PTL

\* cache_swap() never deletes a cache that a push, kick, shutdown, query or
\* dump is walking.
THEOREM NoUseAfterRelease == Spec => []SnapshotAlive
  <1>1. IInv => SnapshotAlive
    BY DEF IInv, Walking, SnapshotAlive
  <1> QED  BY <1>1, Inductive, PTL

\* unsubscribe() never deletes a queue that another thread is at or will
\* visit, and unpublish() never a handle in use.
THEOREM NoUseAfterDelete == Spec => []ObjectsAlive
  <1>1. ASSUME IInv PROVE ObjectsAlive
    <2>1. \A c \in allocated : cache[c] \subseteq alive
      BY <1>1, ThreadsAssumption DEF IInv, TypeOK, Roles, Listed
    <2>2. \A t \in Readers : todo[t] \subseteq alive /\ cur[t] \in alive \cup {None}
      BY <1>1, <2>1 DEF IInv, Walking
    <2>3. \A p \in Pubs : pc[p] \in HoldPC => p \in alive
      BY <1>1 DEF IInv, Roles
    <2> QED  BY <2>2, <2>3 DEF ObjectsAlive
  <1> QED  BY <1>1, Inductive, PTL

LEMMA ProducersApart == IInv => OneProducer
  <1> SUFFICES ASSUME IInv, NEW p1 \in Pubs, NEW p2 \in Pubs, p1 # p2,
                      pc[p1] = "push", pc[p2] = "push", cur[p1] = cur[p2]
               PROVE  FALSE
    BY DEF OneProducer
  <1>1. \A p \in {p1, p2} : NeedLock(snap[p])
    <2> TAKE p \in {p1, p2}
    <2>1. snap[p] \in allocated /\ snap[p] \in CacheCells
      BY DEF IInv, TypeOK, Walking
    <2>2. p1 \in PubsOf(snap[p]) /\ p2 \in PubsOf(snap[p])
      BY <2>1 DEF IInv, Listed, PubsOf
    <2> QED  BY <2>1, <2>2, TwoNeedLock DEF IInv
  <1>2. qmutex[cur[p1]] = p1 /\ qmutex[cur[p2]] = p2
    BY <1>1 DEF IInv, Locking
  <1> QED  BY <1>2

\* Publishers exclude each other in every queue they share, whichever caches
\* they found: the ring below always has a single producer.
THEOREM SingleProducer == Spec => []OneProducer
  BY ProducersApart, Inductive, PTL

\* No cache is leaked: between registrations exactly one exists.
THEOREM NoCacheLeak == Spec => []OneCache
  <1>1. IInv => OneCache
    BY DEF IInv, Heap, OneCache
  <1> QED  BY <1>1, Inductive, PTL

\* A push reaches every subscriber that was there before it and stays.
THEOREM PushMissesNobody == Spec => []NobodyMissed
  <1>1. IInv => NobodyMissed
    BY DEF IInv, Owed, NobodyMissed
  <1> QED  BY <1>1, Inductive, PTL
=============================================================================
