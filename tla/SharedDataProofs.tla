-------------------------- MODULE SharedDataProofs --------------------------
(***************************************************************************)
(* Proofs about SharedData, for any finite sets of publishers, subscribers *)
(* and payloads, any capacity and any bound on the number of pushes: a     *)
(* payload's use count is the number of shared_ptrs to it, so that it is   *)
(* back in the pool exactly when nobody refers to it.                      *)
(***************************************************************************)
EXTENDS SharedData, TopicProofs

-----------------------------------------------------------------------------
(* The topic with its payloads runs the topic.                             *)

\* Every behaviour of a topic with its payloads is one of Topic, so that the
\* theorems about the order and the delivery of elements hold of it.
THEOREM SharedRunsTopic == SharedSpec => TopicSpec
  <1>1. SharedInit => TopicInit
    BY DEF SharedInit
  <1>2. [SharedNext]_allVars => [TopicNext]_topicVars
    <2> SUFFICES ASSUME [SharedNext]_allVars PROVE [TopicNext]_topicVars
      OBVIOUS
    <2>1. ASSUME NEW m \in Members,
                 \/ Plain(Bare(Join(m)) \/ LeaveIdle(m)) \/ SharedFinishFlush(m)
                 \/ Plain(Bare(Lock(m) \/ CacheCopy(m) \/ CacheSwap(m) \/ Drained(m) \/ FreeOld(m)))
          PROVE  TopicNext
      BY <2>1 DEF Plain, SharedFinishFlush, TopicNext
    <2>2. ASSUME NEW p \in Pubs,
                 \/ SharedNumber(p) \/ SharedPushOne(p)
                 \/ Plain(PushBegin(p) \/ PushEnd(p))
                 \/ Plain(Bare(CacheLoad(p) \/ Visit(p) \/ QueueLock(p) \/ QueueUnlock(p)
                               \/ Notify(p)))
          PROVE  TopicNext
      BY <2>2 DEF Plain, SharedNumber, SharedPushOne, TopicNext
    <2>3. ASSUME NEW s \in Subs, SharedPop(s) PROVE TopicNext
      BY <2>3 DEF SharedPop, TopicNext
    <2>4. ASSUME NEW s \in Subs, Plain(Bare(WaitLock(s) \/ WaitUnlock(s)))
          PROVE  TopicNext
      BY <2>4 DEF Plain, TopicNext
    <2>5. CASE UNCHANGED topicVars
      BY <2>5
    <2>6. ASSUME NEW p \in Pubs, NEW x \in Payloads \cup {NoPayload}, Fill(p, x)
          PROVE  UNCHANGED topicVars
      BY <2>6 DEF Fill
    <2>7. ASSUME NEW s \in Subs, Release(s) PROVE UNCHANGED topicVars
      BY <2>7 DEF Release
    <2>8. CASE UNCHANGED allVars
      BY <2>5, <2>8 DEF allVars
    <2> QED
      BY <2>1, <2>2, <2>3, <2>4, <2>5, <2>6, <2>7, <2>8 DEF SharedNext
  <1> QED  BY <1>1, <1>2, PTL DEF SharedSpec, TopicSpec

-----------------------------------------------------------------------------
(* Counting.                                                               *)

\* Where in S the function has the value x.
At(f, S, x) == {a \in S : f[a] = x}

\* Changing a function at one place changes how often it has a value.
LEMMA UpdateCount ==
  ASSUME NEW S, IsFiniteSet(S), NEW s \in S, NEW y, NEW x,
         NEW f, NEW g, \A a \in S : g[a] = IF a = s THEN y ELSE f[a]
  PROVE  Cardinality(At(g, S, x))
           = Cardinality(At(f, S, x)) + One(x, y) - One(x, f[s])
  <1> USE DEF At
  <1> DEFINE A == At(f, S, x)
             B == At(g, S, x)
             R == A \ {s}
  <1>1. IsFiniteSet(A) /\ Cardinality(A) \in Nat
    BY FS_Subset, FS_CardinalityType
  <1>2. /\ IsFiniteSet(R) /\ Cardinality(R) \in Nat
        /\ Cardinality(R) = Cardinality(A) - One(x, f[s])
    <2>1. IsFiniteSet(R) /\ Cardinality(R) = IF s \in A THEN Cardinality(A) - 1 ELSE Cardinality(A)
      BY <1>1, FS_RemoveElement
    <2>2. s \in A <=> f[s] = x
      OBVIOUS
    <2> HIDE DEF A
    <2> QED  BY <1>1, <2>1, <2>2, FS_CardinalityType DEF One
  <1>3. B = IF x = y THEN R \cup {s} ELSE R
    OBVIOUS
  <1>4. Cardinality(B) = Cardinality(R) + One(x, y)
    <2>1. s \notin R
      OBVIOUS
    <2> HIDE DEF R, B
    <2>2. CASE x = y
      <3>1. Cardinality(R \cup {s}) = Cardinality(R) + 1
        BY <1>2, <2>1, FS_AddElement
      <3> QED  BY <1>3, <2>2, <3>1 DEF One
    <2>3. CASE x # y
      <3>1. One(x, y) = 0 /\ B = R
        BY <1>3, <2>3 DEF One
      <3>2. Cardinality(R) \in Nat
        BY <1>2
      <3> HIDE DEF A
      <3> QED  BY <3>1, <3>2
    <2> QED  BY <2>2, <2>3
  <1> HIDE DEF A, B, R
  <1>5. One(x, y) \in Int /\ One(x, f[s]) \in Int
    BY DEF One
  <1>6. Cardinality(B) = Cardinality(A) + One(x, y) - One(x, f[s])
    BY <1>1, <1>2, <1>4, <1>5
  <1> QED  BY <1>6 DEF A, B

\* The places in one queue.
In(x, s) == {i \in DOMAIN fifo[s] : shared[fifo[s][i].seqno] = x}

SharedType ==
  /\ uses \in [Payloads -> Int]
  /\ body \in [Pubs -> Payloads \cup {NoPayload}]
  /\ held \in [Subs -> Payloads \cup {NoPayload}]
  /\ shared \in [0 .. MaxSeqno - 1 -> Payloads \cup {NoPayload}]

Counted ==
  \A x \in Payloads :
    uses[x] = Cardinality(Bodies(x)) + Cardinality(Helds(x)) + Cardinality(Places(x))

SharedInv == SharedType /\ Counted

LEMMA CountsFinite ==
  ASSUME NEW x
  PROVE  /\ IsFiniteSet(Bodies(x)) /\ Cardinality(Bodies(x)) \in Nat
         /\ IsFiniteSet(Helds(x)) /\ Cardinality(Helds(x)) \in Nat
         /\ IsFiniteSet(Places(x)) /\ Cardinality(Places(x)) \in Nat
  <1>1. IsFiniteSet(Pubs) /\ IsFiniteSet(Subs)
    BY ThreadsAssumption
  <1>2. IsFiniteSet(1 .. Capacity)
    BY FS_Interval, TopicAssumption
  <1>3. IsFiniteSet(Subs \X (1 .. Capacity))
    BY <1>1, <1>2, FS_Product
  <1>4. /\ Bodies(x) \subseteq Pubs /\ Helds(x) \subseteq Subs
        /\ Places(x) \subseteq Subs \X (1 .. Capacity)
    BY DEF Bodies, Helds, Places
  <1>5. IsFiniteSet(Bodies(x)) /\ IsFiniteSet(Helds(x)) /\ IsFiniteSet(Places(x))
    BY <1>1, <1>3, <1>4, FS_Subset
  <1> QED  BY <1>5, FS_CardinalityType

\* The places in all queues are pairs of a queue and a place in it.
PlacesInQueues ==
  \A x : /\ \A w \in Places(x) : w = <<w[1], w[2]>> /\ w[1] \in Subs
         /\ \A s \in Subs : \A i : <<s, i>> \in Places(x) <=> i \in In(x, s)

LEMMA PlacesAre ==
  ASSUME DataInv, Bounded
  PROVE  PlacesInQueues
  <1>1. ASSUME NEW s \in Subs
        PROVE  /\ DOMAIN fifo[s] = 1 .. Len(fifo[s]) /\ Len(fifo[s]) \in Nat
               /\ Len(fifo[s]) <= Capacity
    BY LenProperties DEF DataInv, DataType, Bounded
  <1>2. \A s \in Subs : \A i \in DOMAIN fifo[s] : i \in 1 .. Capacity
    BY <1>1, TopicAssumption
  <1>3. ASSUME NEW x, NEW w \in Places(x) PROVE w = <<w[1], w[2]>> /\ w[1] \in Subs
    BY DEF Places
  <1>4. ASSUME NEW x, NEW s \in Subs, NEW i
        PROVE  <<s, i>> \in Places(x) <=> i \in In(x, s)
    BY <1>2 DEF Places, Carried, In
  <1> QED  BY <1>3, <1>4 DEF PlacesInQueues

LEMMA PlacesAreNext == DataInv' /\ Bounded' => PlacesInQueues'
  <1>1. DataInv /\ Bounded => PlacesInQueues
    BY PlacesAre
  <1> QED  BY <1>1, PTL

\* Only the elements in the queues count, and only their own numbers.
LEMMA PlacesStable ==
  ASSUME NEW x, fifo' = fifo,
         \A s \in Subs : \A i \in DOMAIN fifo[s] : shared'[fifo[s][i].seqno] = shared[fifo[s][i].seqno]
  PROVE  Places(x)' = Places(x)
  <1>1. ASSUME NEW w \in Subs \X (1 .. Capacity)
        PROVE  w \in Places(x)' <=> w \in Places(x)
    BY DEF Places, Carried
  <1> QED  BY <1>1 DEF Places

-----------------------------------------------------------------------------
(* One lemma per action that copies or destroys a shared_ptr.              *)

LEMMA CountFill ==
  ASSUME DataInv, SharedInv, NEW p \in Pubs, NEW y \in Payloads \cup {NoPayload}, Fill(p, y)
  PROVE  SharedInv'
  <1> USE DEF SharedInv, SharedType
  <1>1. /\ body' = [body EXCEPT ![p] = y]
        /\ uses' = [z \in Payloads |-> uses[z] + One(z, y) - One(z, body[p])]
        /\ UNCHANGED <<fifo, held, shared>>
    BY DEF Fill, topicVars, dataVars, queueVars
  <1>2. ASSUME NEW x \in Payloads
        PROVE  uses'[x] = Cardinality(Bodies(x)') + Cardinality(Helds(x)') + Cardinality(Places(x)')
    <2>1. Cardinality(Bodies(x)') = Cardinality(Bodies(x)) + One(x, y) - One(x, body[p])
      <3>1. Bodies(x)' = At(body', Pubs, x) /\ Bodies(x) = At(body, Pubs, x)
        BY DEF Bodies, At
      <3>2. body \in [Pubs -> Payloads \cup {NoPayload}] /\ IsFiniteSet(Pubs)
        BY ThreadsAssumption
      <3>3. Cardinality(At(body', Pubs, x)) = Cardinality(At(body, Pubs, x)) + One(x, y) - One(x, body[p])
        <4>1. \A a \in Pubs : body'[a] = IF a = p THEN y ELSE body[a]
          BY <1>1, <3>2
        <4>2. p \in Pubs
          OBVIOUS
        <4> QED  BY ONLY <4>1, <4>2, <3>2, UpdateCount
      <3> QED  BY <3>1, <3>3
    <2>2. Helds(x)' = Helds(x) /\ Places(x)' = Places(x)
      BY <1>1, PlacesStable DEF Helds
    <2>3. uses'[x] = uses[x] + One(x, y) - One(x, body[p])
      BY <1>1
    <2>4. One(x, y) \in Int /\ One(x, body[p]) \in Int
      BY DEF One
    <2>5. uses[x] = Cardinality(Bodies(x)) + Cardinality(Helds(x)) + Cardinality(Places(x))
      BY DEF Counted
    <2> QED  BY <2>1, <2>2, <2>3, <2>4, <2>5, CountsFinite
  <1>3. SharedType'
    <2>1. \A z \in Payloads : uses[z] + One(z, y) - One(z, body[p]) \in Int
      BY DEF One
    <2> QED  BY <1>1, <2>1
  <1> QED  BY <1>2, <1>3 DEF Counted

LEMMA CountNumber ==
  ASSUME DataInv, OrderInv, SharedInv, NEW p \in Pubs, SharedNumber(p)
  PROVE  SharedInv'
  <1> USE DEF SharedInv, SharedType
  <1>1. /\ shared' = [shared EXCEPT ![nextSeqno] = body[p]]
        /\ UNCHANGED <<uses, body, held, fifo>>
    BY DEF SharedNumber, Number, queueVars
  <1>2. ASSUME NEW s \in Subs, NEW i \in DOMAIN fifo[s]
        PROVE  shared'[fifo[s][i].seqno] = shared[fifo[s][i].seqno]
    <2>1. i \in 1 .. Len(fifo[s])
      BY LenProperties DEF DataInv, DataType
    <2>2. fifo[s][i] \in Held(s)
      BY <2>1 DEF Held
    <2>3. fifo[s][i].seqno < nextSeqno /\ fifo[s][i].seqno \in Nat
      BY <2>2, HeldType DEF OrderInv, Numbers
    <2>4. fifo[s][i].seqno # nextSeqno
      BY <2>3 DEF DataInv, DataType
    <2> QED  BY <1>1, <2>4
  <1>3. ASSUME NEW x PROVE Places(x)' = Places(x) /\ Bodies(x)' = Bodies(x) /\ Helds(x)' = Helds(x)
    BY <1>1, <1>2, PlacesStable DEF Bodies, Helds
  <1>4. SharedType'
    BY <1>1
  <1>5. Counted'
    BY <1>1, <1>3 DEF Counted
  <1> QED  BY <1>4, <1>5

LEMMA CountPush ==
  ASSUME DataInv, Bounded, DataInv', Bounded', SharedInv, NEW p \in Pubs, SharedPushOne(p)
  PROVE  SharedInv'
  <1> USE DEF SharedInv, SharedType
  <1>1. PushOne(p)
    BY DEF SharedPushOne
  <1>2. PICK q \in Subs : q = cur[p]
    BY <1>1, HeldByOffer
  <1>3. PICK e \in Element : e = sending[p]
    BY <1>1, HeldByOffer
  <1> DEFINE n == Len(fifo[q]) + 1
  <1>4. q \in Subs /\ e \in Element /\ UNCHANGED <<body, held, shared>>
    BY DEF SharedPushOne
  <1>5. CASE fifo' = fifo
    <2>1. uses' = uses
      BY <1>5 DEF SharedPushOne
    <2>2. ASSUME NEW x PROVE Places(x)' = Places(x) /\ Bodies(x)' = Bodies(x) /\ Helds(x)' = Helds(x)
      BY <1>4, <1>5, PlacesStable DEF Bodies, Helds
    <2> QED  BY <1>4, <2>1, <2>2 DEF Counted
  <1>6. CASE fifo' # fifo
    <2>1. /\ fifo' = [fifo EXCEPT ![q] = Append(@, e)]
          /\ uses' = [x \in Payloads |-> uses[x] + One(x, shared[e.seqno])]
      BY <1>6, <1>2, <1>3 DEF SharedPushOne, PushOne
    <2>2. /\ fifo[q] \in Seq(Element) /\ Len(fifo[q]) \in Nat
          /\ fifo'[q] = Append(fifo[q], e)
          /\ \A s \in Subs : s # q => fifo'[s] = fifo[s]
      BY <1>4, <2>1, LenProperties DEF DataInv, DataType
    <2>3. /\ DOMAIN fifo'[q] = DOMAIN fifo[q] \cup {n} /\ n \notin DOMAIN fifo[q]
          /\ fifo'[q][n] = e
          /\ \A i \in DOMAIN fifo[q] : fifo'[q][i] = fifo[q][i]
      <3>1. /\ Append(fifo[q], e) \in Seq(Element)
            /\ Len(Append(fifo[q], e)) = Len(fifo[q]) + 1
            /\ \A i \in 1 .. Len(fifo[q]) : Append(fifo[q], e)[i] = fifo[q][i]
            /\ Append(fifo[q], e)[Len(fifo[q]) + 1] = e
        BY <1>4, <2>2, AppendProperties
      <3>2. /\ DOMAIN fifo[q] = 1 .. Len(fifo[q])
            /\ DOMAIN Append(fifo[q], e) = 1 .. Len(fifo[q]) + 1
        BY <2>2, <3>1, LenProperties
      <3> QED  BY <2>2, <3>1, <3>2
    <2> HIDE DEF n
    <2>4. ASSUME NEW x \in Payloads
          PROVE  Cardinality(Places(x)') = Cardinality(Places(x)) + One(x, shared[e.seqno])
      <3> DEFINE new == IF shared[e.seqno] = x THEN {<<q, n>>} ELSE {}
      <3>1. \A s \in Subs : \A i : <<s, i>> \in Places(x)' <=> i \in In(x, s)'
        BY PlacesAreNext DEF PlacesInQueues
      <3>2. \A s \in Subs : \A i : <<s, i>> \in Places(x) <=> i \in In(x, s)
        BY PlacesAre DEF PlacesInQueues
      <3>3. In(x, q)' = In(x, q) \cup (IF shared[e.seqno] = x THEN {n} ELSE {})
            /\ n \notin In(x, q)
        BY <1>4, <2>3 DEF In
      <3>4. Places(x)' = Places(x) \cup new
        <4>1. ASSUME NEW s \in Subs, NEW i
              PROVE  <<s, i>> \in Places(x)' <=> <<s, i>> \in Places(x) \cup new
          <5>1. CASE s = q
            <6>1. <<q, i>> \in new <=> shared[e.seqno] = x /\ i = n
              OBVIOUS
            <6>2. i \in In(x, q)' <=> i \in In(x, q) \/ (shared[e.seqno] = x /\ i = n)
              BY <3>3
            <6>3. /\ <<q, i>> \in Places(x)' <=> i \in In(x, q)'
                  /\ <<q, i>> \in Places(x) <=> i \in In(x, q)
              BY <1>4, <3>1, <3>2
            <6>4. <<s, i>> = <<q, i>>
              BY <5>1
            <6> HIDE DEF new
            <6> QED  BY <6>1, <6>2, <6>3, <6>4, Zenon
          <5>2. CASE s # q
            <6>1. <<s, i>> \notin new
              BY <5>2
            <6>2. In(x, s)' = In(x, s)
              BY <1>4, <2>2, <5>2 DEF In
            <6> HIDE DEF new
            <6> QED  BY <3>1, <3>2, <6>1, <6>2
          <5> QED  BY <5>1, <5>2
        <4>2. /\ \A w \in Places(x)' : w = <<w[1], w[2]>> /\ w[1] \in Subs
              /\ \A w \in Places(x) : w = <<w[1], w[2]>> /\ w[1] \in Subs
          BY PlacesAre, PlacesAreNext DEF PlacesInQueues
        <4>3. \A w \in new : w = <<w[1], w[2]>> /\ w[1] \in Subs
          BY <1>4
        <4> HIDE DEF new
        <4> QED  BY <4>1, <4>2, <4>3
      <3>5. <<q, n>> \notin Places(x)
        BY <1>4, <3>2, <3>3
      <3>6. Cardinality(Places(x) \cup {<<q, n>>}) = Cardinality(Places(x)) + 1
        BY <3>5, CountsFinite, FS_AddElement
      <3>7. CASE shared[e.seqno] = x
        BY <3>4, <3>6, <3>7 DEF One
      <3>8. CASE shared[e.seqno] # x
        BY <3>4, <3>8, CountsFinite DEF One
      <3> QED  BY <3>7, <3>8
    <2>5. ASSUME NEW x \in Payloads
          PROVE  uses'[x] = Cardinality(Bodies(x)') + Cardinality(Helds(x)') + Cardinality(Places(x)')
      <3>1. Bodies(x)' = Bodies(x) /\ Helds(x)' = Helds(x)
        BY <1>4 DEF Bodies, Helds
      <3>2. One(x, shared[e.seqno]) \in Int
        BY DEF One
      <3>3. uses'[x] = uses[x] + One(x, shared[e.seqno])
        BY <2>1
      <3>4. uses[x] = Cardinality(Bodies(x)) + Cardinality(Helds(x)) + Cardinality(Places(x))
        BY DEF Counted
      <3> QED  BY <2>4, <3>1, <3>2, <3>3, <3>4, CountsFinite
    <2>6. SharedType'
      <3>1. \A x \in Payloads : uses[x] + One(x, shared[e.seqno]) \in Int
        BY DEF One
      <3> QED  BY <1>4, <2>1, <3>1
    <2> QED  BY <2>5, <2>6 DEF Counted
  <1> QED  BY <1>5, <1>6

LEMMA SameSize ==
  ASSUME NEW S, NEW T, IsFiniteSet(S), NEW f \in [S -> T],
         \A a, b \in S : f[a] = f[b] => a = b,
         \A t \in T : \E a \in S : f[a] = t
  PROVE  Cardinality(T) = Cardinality(S)
  <1>1. f \in Bijection(S, T)
    BY DEF Bijection, Injection, IsInjective, Surjection
  <1>2. ExistsBijection(S, T)
    BY <1>1 DEF ExistsBijection
  <1> QED  BY <1>2, FS_Bijection

\* A pop takes the first place away and moves the others up.
LEMMA PopPlaces ==
  ASSUME DataInv, Bounded, DataInv', Bounded', NEW s \in Subs, SharedPop(s), NEW x,
         NEW y, y = shared[Head(fifo[s]).seqno]
  PROVE  Cardinality(Places(x)') = Cardinality(Places(x)) - One(x, y)
  <1>1. /\ fifo' = [fifo EXCEPT ![s] = Tail(@)] /\ fifo[s] # <<>>
        /\ UNCHANGED shared
    BY DEF SharedPop, Pop
  <1>2. /\ fifo[s] \in Seq(Element) /\ fifo'[s] = Tail(fifo[s])
        /\ \A t \in Subs : t # s => fifo'[t] = fifo[t]
    BY <1>1 DEF DataInv, DataType
  <1>3. /\ 1 \in DOMAIN fifo[s] /\ fifo[s][1] = Head(fifo[s])
        /\ DOMAIN fifo[s] \subseteq Nat /\ 0 \notin DOMAIN fifo[s]
        /\ \A i \in DOMAIN fifo'[s] : i + 1 \in DOMAIN fifo[s] /\ i # 0 /\ i \in Nat
        /\ \A i \in DOMAIN fifo[s] : i # 1 => i - 1 \in DOMAIN fifo'[s]
        /\ \A i \in DOMAIN fifo'[s] : fifo'[s][i] = fifo[s][i + 1]
    <2>1. /\ Len(fifo[s]) \in Nat /\ Len(fifo[s]) # 0
          /\ DOMAIN fifo[s] = 1 .. Len(fifo[s])
          /\ Tail(fifo[s]) \in Seq(Element)
          /\ Len(Tail(fifo[s])) = Len(fifo[s]) - 1
          /\ \A i \in 1 .. Len(Tail(fifo[s])) : Tail(fifo[s])[i] = fifo[s][i + 1]
      BY <1>1, <1>2, LenProperties, HeadTailProperties, EmptySeq
    <2>2. DOMAIN Tail(fifo[s]) = 1 .. Len(fifo[s]) - 1
      BY <2>1, LenProperties
    <2>3. Head(fifo[s]) = fifo[s][1]
      BY <1>1, <1>2, HeadTailProperties
    <2> QED  BY <1>2, <2>1, <2>2, <2>3
  <1>4. /\ \A i : i \in In(x, s)' <=> i \in DOMAIN fifo'[s] /\ shared[fifo'[s][i].seqno] = x
        /\ \A i : i \in In(x, s) <=> i \in DOMAIN fifo[s] /\ shared[fifo[s][i].seqno] = x
        /\ \A t \in Subs : t # s => In(x, t)' = In(x, t)
    BY <1>1, <1>2 DEF In
  <1>5. /\ \A i \in In(x, s) : i # 1 => i - 1 \in In(x, s)'
        /\ \A i \in In(x, s)' : i + 1 \in In(x, s) /\ i + 1 # 1 /\ (i + 1) - 1 = i
        /\ \A i \in In(x, s) : i \in Nat
    BY <1>3, <1>4
  <1>6. /\ \A w \in Places(x)' : w = <<w[1], w[2]>> /\ w[1] \in Subs
        /\ \A w \in Places(x) : w = <<w[1], w[2]>> /\ w[1] \in Subs
        /\ \A t \in Subs : \A i : <<t, i>> \in Places(x)' <=> i \in In(x, t)'
        /\ \A t \in Subs : \A i : <<t, i>> \in Places(x) <=> i \in In(x, t)
    BY PlacesAre, PlacesAreNext DEF PlacesInQueues
  <1> DEFINE A == Places(x) \ {<<s, 1>>}
             B == Places(x)'
             f == [w \in A |-> IF w[1] = s THEN <<s, w[2] - 1>> ELSE w]
  <1>7. IsFiniteSet(A) /\ Cardinality(A) = Cardinality(Places(x)) - One(x, y)
    <2>1. <<s, 1>> \in Places(x) <=> x = y
      BY <1>3, <1>4, <1>6
    <2>2. /\ IsFiniteSet(A)
          /\ Cardinality(A) = IF <<s, 1>> \in Places(x) THEN Cardinality(Places(x)) - 1
                                                        ELSE Cardinality(Places(x))
      BY CountsFinite, FS_RemoveElement
    <2> HIDE DEF A
    <2>3. One(x, y) = IF x = y THEN 1 ELSE 0
      BY DEF One
    <2> QED  BY <2>1, <2>2, <2>3, CountsFinite
  <1>8. ASSUME NEW w \in A PROVE f[w] \in B
    <2>1. w \in Places(x) /\ w # <<s, 1>>
      OBVIOUS
    <2>2. CASE w[1] = s
      <3>1. w[2] \in In(x, s) /\ w[2] # 1
        BY <1>6, <2>1, <2>2
      <3>2. <<s, w[2] - 1>> \in B
        BY <1>5, <1>6, <3>1
      <3> QED  BY <2>2, <3>2
    <2>3. CASE w[1] # s
      <3>1. w[2] \in In(x, w[1])
        BY <1>6, <2>1
      <3>2. w \in B
        BY <1>4, <1>6, <2>1, <2>3, <3>1
      <3> QED  BY <2>3, <3>2
    <2> QED  BY <2>2, <2>3
  <1>9. ASSUME NEW v \in A, NEW w \in A, f[v] = f[w] PROVE v = w
    <2>1. /\ v = <<v[1], v[2]>> /\ w = <<w[1], w[2]>>
          /\ v[1] = s => v[2] \in Nat
          /\ w[1] = s => w[2] \in Nat
      BY <1>5, <1>6
    <2>2. f[v] = (IF v[1] = s THEN <<s, v[2] - 1>> ELSE v)
          /\ f[w] = (IF w[1] = s THEN <<s, w[2] - 1>> ELSE w)
      OBVIOUS
    <2> HIDE DEF f
    <2>3. CASE v[1] = s /\ w[1] = s
      <3> DEFINE i == v[2] - 1
                 j == w[2] - 1
      <3>1. <<s, i>> = <<s, j>>
        BY <1>9, <2>2, <2>3
      <3> HIDE DEF i, j
      <3>2. i = j
        BY <3>1
      <3>3. v[2] - 1 = w[2] - 1
        BY <3>2 DEF i, j
      <3>4. v[2] = w[2]
        BY <2>1, <2>3, <3>3
      <3> QED  BY <2>1, <2>3, <3>4
    <2>4. CASE v[1] # s \/ w[1] # s
      <3> DEFINE i == v[2] - 1
                 j == w[2] - 1
      <3>1. /\ <<s, i>>[1] = s /\ <<s, j>>[1] = s
        OBVIOUS
      <3>2. /\ f[v] = (IF v[1] = s THEN <<s, i>> ELSE v)
            /\ f[w] = (IF w[1] = s THEN <<s, j>> ELSE w)
        BY <2>2
      <3> HIDE DEF i, j
      <3> QED  BY <1>9, <2>4, <3>1, <3>2, Zenon
    <2> QED  BY <2>3, <2>4
  <1>10. ASSUME NEW t \in B PROVE \E w \in A : f[w] = t
    <2>1. t = <<t[1], t[2]>> /\ t[1] \in Subs /\ t[2] \in In(x, t[1])'
      BY <1>6
    <2>2. CASE t[1] = s
      <3>1. t[2] + 1 \in In(x, s) /\ t[2] + 1 # 1 /\ (t[2] + 1) - 1 = t[2]
        BY <1>5, <2>1, <2>2
      <3>2. <<s, t[2] + 1>> \in A
        BY <1>6, <3>1
      <3>3. f[<<s, t[2] + 1>>] = t
        BY <2>1, <2>2, <3>1, <3>2
      <3> QED  BY <3>2, <3>3
    <2>3. CASE t[1] # s
      <3>1. t \in A /\ f[t] = t
        BY <1>4, <1>6, <2>1, <2>3
      <3> QED  BY <3>1
    <2> QED  BY <2>2, <2>3
  <1>11. f \in [A -> B]
    BY <1>8
  <1> HIDE DEF A, B, f
  <1>12. Cardinality(B) = Cardinality(A)
    BY <1>7, <1>9, <1>10, <1>11, SameSize
  <1> QED  BY <1>7, <1>12 DEF B

\* A change of what a subscriber holds.
LEMMA HeldCount ==
  ASSUME SharedInv, NEW s \in Subs, NEW y, held' = [held EXCEPT ![s] = y], NEW x
  PROVE  Cardinality(Helds(x)') = Cardinality(Helds(x)) + One(x, y) - One(x, held[s])
  <1>1. Helds(x)' = At(held', Subs, x) /\ Helds(x) = At(held, Subs, x)
    BY DEF Helds, At
  <1>2. \A a \in Subs : held'[a] = IF a = s THEN y ELSE held[a]
    BY DEF SharedInv, SharedType
  <1>3. IsFiniteSet(Subs) /\ s \in Subs
    BY ThreadsAssumption
  <1>4. Cardinality(At(held', Subs, x)) = Cardinality(At(held, Subs, x)) + One(x, y) - One(x, held[s])
    BY ONLY <1>2, <1>3, UpdateCount
  <1> QED  BY <1>1, <1>4

LEMMA CountPop ==
  ASSUME DataInv, Bounded, DataInv', Bounded', SharedInv, NEW s \in Subs, SharedPop(s)
  PROVE  SharedInv'
  <1> USE DEF SharedInv, SharedType
  <1>1. PICK y : y = shared[Head(fifo[s]).seqno]
    OBVIOUS
  <1>2. /\ held' = [held EXCEPT ![s] = y]
        /\ uses' = [x \in Payloads |-> uses[x] - One(x, held[s])]
        /\ UNCHANGED <<body, shared>>
    BY <1>1 DEF SharedPop
  <1>3. y \in Payloads \cup {NoPayload}
    <2>1. fifo[s] \in Seq(Element) /\ fifo[s] # <<>>
      BY DEF SharedPop, Pop, DataInv, DataType
    <2>2. Head(fifo[s]) \in Element
      BY <2>1, HeadTailProperties
    <2> QED  BY <1>1, <2>2 DEF Element
  <1>4. ASSUME NEW x \in Payloads
        PROVE  uses'[x] = Cardinality(Bodies(x)') + Cardinality(Helds(x)') + Cardinality(Places(x)')
    <2>1. Cardinality(Helds(x)') = Cardinality(Helds(x)) + One(x, y) - One(x, held[s])
      BY <1>2, HeldCount
    <2>2. Cardinality(Places(x)') = Cardinality(Places(x)) - One(x, y)
      BY <1>1, PopPlaces
    <2>3. Bodies(x)' = Bodies(x)
      BY <1>2 DEF Bodies
    <2>4. uses'[x] = uses[x] - One(x, held[s])
      BY <1>2
    <2>5. One(x, y) \in Int /\ One(x, held[s]) \in Int
      BY DEF One
    <2>6. uses[x] = Cardinality(Bodies(x)) + Cardinality(Helds(x)) + Cardinality(Places(x))
      BY DEF Counted
    <2> QED  BY <2>1, <2>2, <2>3, <2>4, <2>5, <2>6, CountsFinite
  <1>5. SharedType'
    <2>1. \A x \in Payloads : uses[x] - One(x, held[s]) \in Int
      BY DEF One
    <2> QED  BY <1>2, <1>3, <2>1
  <1> QED  BY <1>4, <1>5 DEF Counted

LEMMA CountRelease ==
  ASSUME SharedInv, NEW s \in Subs, Release(s)
  PROVE  SharedInv'
  <1> USE DEF SharedInv, SharedType
  <1>1. /\ held' = [held EXCEPT ![s] = NoPayload] /\ held[s] \in Payloads
        /\ uses' = [uses EXCEPT ![held[s]] = @ - 1]
        /\ UNCHANGED <<fifo, body, shared>>
    BY DEF Release, topicVars, dataVars, queueVars
  <1>2. ASSUME NEW x \in Payloads
        PROVE  uses'[x] = Cardinality(Bodies(x)') + Cardinality(Helds(x)') + Cardinality(Places(x)')
    <2>1. Cardinality(Helds(x)') = Cardinality(Helds(x)) + One(x, NoPayload) - One(x, held[s])
      BY <1>1, HeldCount
    <2>2. Bodies(x)' = Bodies(x) /\ Places(x)' = Places(x)
      BY <1>1, PlacesStable DEF Bodies
    <2>3. uses'[x] = uses[x] - One(x, held[s])
      <3>1. uses'[x] = IF held[s] = x THEN uses[x] - 1 ELSE uses[x]
        BY <1>1
      <3> QED  BY <3>1 DEF One
    <2>4. One(x, NoPayload) = 0 /\ One(x, held[s]) \in Int
      BY SharedAssumption DEF One
    <2>5. uses[x] = Cardinality(Bodies(x)) + Cardinality(Helds(x)) + Cardinality(Places(x))
      BY DEF Counted
    <2> QED  BY <2>1, <2>2, <2>3, <2>4, <2>5, CountsFinite
  <1>3. SharedType'
    BY <1>1
  <1> QED  BY <1>2, <1>3 DEF Counted

\* The destructor of a queue takes all its places away.
LEMMA FlushPlaces ==
  ASSUME DataInv, Bounded, DataInv', Bounded', NEW m \in Subs,
         fifo' = [fifo EXCEPT ![m] = <<>>], UNCHANGED shared, NEW x
  PROVE  /\ Cardinality(Places(x)') = Cardinality(Places(x)) - Copies(x, fifo[m])
         /\ Copies(x, fifo[m]) \in Nat
  <1>1. /\ \A w \in Places(x)' : w = <<w[1], w[2]>> /\ w[1] \in Subs
        /\ \A w \in Places(x) : w = <<w[1], w[2]>> /\ w[1] \in Subs
        /\ \A t \in Subs : \A i : <<t, i>> \in Places(x)' <=> i \in In(x, t)'
        /\ \A t \in Subs : \A i : <<t, i>> \in Places(x) <=> i \in In(x, t)
    BY PlacesAre, PlacesAreNext DEF PlacesInQueues
  <1>2. /\ In(x, m)' = {}
        /\ \A t \in Subs : t # m => In(x, t)' = In(x, t)
    <2>1. DOMAIN <<>> = {}
      OBVIOUS
    <2>2. fifo'[m] = <<>> /\ \A t \in Subs : t # m => fifo'[t] = fifo[t]
      BY DEF DataInv, DataType
    <2> QED  BY <2>1, <2>2 DEF In
  <1> DEFINE A == {w \in Places(x) : w[1] = m}
             f == [i \in In(x, m) |-> <<m, i>>]
  <1>3. IsFiniteSet(A) /\ A \subseteq Places(x)
    BY CountsFinite, FS_Subset
  <1>4. Places(x)' = Places(x) \ A
    BY <1>1, <1>2
  <1>5. Cardinality(Places(x)') = Cardinality(Places(x)) - Cardinality(A)
    <2>1. Places(x) \cap A = A
      OBVIOUS
    <2> HIDE DEF A
    <2> QED  BY <1>3, <1>4, <2>1, CountsFinite, FS_Difference
  <1>6. Copies(x, fifo[m]) = Cardinality(In(x, m))
    <2>1. {i \in DOMAIN fifo[m] : Carried(fifo[m])[i] = x} = In(x, m)
      BY DEF In, Carried
    <2> QED  BY <2>1 DEF Copies
  <1>7. IsFiniteSet(In(x, m))
    <2>1. fifo[m] \in Seq(Element)
      BY DEF DataInv, DataType
    <2>2. In(x, m) \subseteq 1 .. Len(fifo[m]) /\ Len(fifo[m]) \in Nat
      BY <2>1, LenProperties DEF In
    <2>3. IsFiniteSet(1 .. Len(fifo[m]))
      BY <2>2, FS_Interval
    <2> HIDE DEF In
    <2> QED  BY <2>2, <2>3, FS_Subset
  <1>8. f \in [In(x, m) -> A]
    BY <1>1
  <1>9. \A i, j \in In(x, m) : f[i] = f[j] => i = j
    OBVIOUS
  <1>10. \A w \in A : \E i \in In(x, m) : f[i] = w
    <2> SUFFICES ASSUME NEW w \in A PROVE \E i \in In(x, m) : f[i] = w
      OBVIOUS
    <2>1. w = <<m, w[2]>> /\ w[2] \in In(x, m)
      BY <1>1
    <2> QED  BY <2>1
  <1> HIDE DEF A, f
  <1>11. Cardinality(A) = Cardinality(In(x, m))
    BY <1>7, <1>8, <1>9, <1>10, SameSize
  <1> QED  BY <1>5, <1>6, <1>7, <1>11, FS_CardinalityType

LEMMA CountFlush ==
  ASSUME DataInv, Bounded, DataInv', Bounded', SharedInv, NEW m \in Members, SharedFinishFlush(m)
  PROVE  SharedInv'
  <1> USE DEF SharedInv, SharedType
  <1>1. UNCHANGED <<body, held, shared>> /\ FinishFlush(m)
    BY DEF SharedFinishFlush
  <1>2. CASE m \notin Subs \ joining
    <2>1. UNCHANGED <<uses, body, held, shared, fifo>>
      BY <1>1, <1>2 DEF SharedFinishFlush, FinishFlush, queueVars
    <2>2. ASSUME NEW x PROVE Places(x)' = Places(x) /\ Bodies(x)' = Bodies(x) /\ Helds(x)' = Helds(x)
      BY <2>1, PlacesStable DEF Bodies, Helds
    <2> QED  BY <2>1, <2>2 DEF Counted
  <1>3. CASE m \in Subs \ joining
    <2>1. /\ fifo' = [fifo EXCEPT ![m] = <<>>] /\ m \in Subs
          /\ uses' = [x \in Payloads |-> uses[x] - Copies(x, fifo[m])]
      BY <1>1, <1>3 DEF SharedFinishFlush, FinishFlush
    <2>2. ASSUME NEW x
          PROVE  /\ Cardinality(Places(x)') = Cardinality(Places(x)) - Copies(x, fifo[m])
                 /\ Copies(x, fifo[m]) \in Nat
                 /\ Bodies(x)' = Bodies(x) /\ Helds(x)' = Helds(x)
      BY <1>1, <2>1, FlushPlaces DEF Bodies, Helds
    <2>3. ASSUME NEW x \in Payloads
          PROVE  uses'[x] = Cardinality(Bodies(x)') + Cardinality(Helds(x)') + Cardinality(Places(x)')
      <3>1. uses'[x] = uses[x] - Copies(x, fifo[m])
        BY <2>1
      <3>2. uses[x] = Cardinality(Bodies(x)) + Cardinality(Helds(x)) + Cardinality(Places(x))
        BY DEF Counted
      <3> QED  BY <2>2, <3>1, <3>2, CountsFinite
    <2>4. SharedType'
      <3>1. \A x \in Payloads : uses[x] - Copies(x, fifo[m]) \in Int
        BY <2>2
      <3> QED  BY <1>1, <2>1, <3>1
    <2> QED  BY <2>3, <2>4 DEF Counted
  <1> QED  BY <1>2, <1>3

LEMMA CountStutter ==
  ASSUME SharedInv, UNCHANGED <<fifo, sharedVars>>
  PROVE  SharedInv'
  <1>1. ASSUME NEW x PROVE Places(x)' = Places(x) /\ Bodies(x)' = Bodies(x) /\ Helds(x)' = Helds(x)
    BY PlacesStable DEF sharedVars, Bodies, Helds
  <1> QED  BY <1>1 DEF sharedVars, SharedInv, SharedType, Counted

LEMMA CountInit == SharedInit => SharedInv
  <1> SUFFICES ASSUME SharedInit PROVE SharedInv
    OBVIOUS
  <1>1. ASSUME NEW x \in Payloads PROVE Bodies(x) = {} /\ Helds(x) = {} /\ Places(x) = {}
    <2>1. \A s \in Subs : DOMAIN fifo[s] = {}
      BY DEF SharedInit, TopicInit
    <2>2. x # NoPayload
      BY SharedAssumption
    <2> QED  BY <2>1, <2>2 DEF SharedInit, Bodies, Helds, Places
  <1>2. Counted
    BY <1>1, FS_EmptySet DEF SharedInit, Counted
  <1> QED  BY <1>2 DEF SharedInit, SharedInv, SharedType

LEMMA CountNext ==
  DataInv /\ Bounded /\ OrderInv /\ DataInv' /\ Bounded' /\ SharedInv /\ [SharedNext]_allVars
    => SharedInv'
  <1> SUFFICES ASSUME DataInv, Bounded, OrderInv, DataInv', Bounded', SharedInv, [SharedNext]_allVars
               PROVE  SharedInv'
    OBVIOUS
  <1>1. ASSUME NEW m \in Members,
               \/ Plain(Bare(Join(m)) \/ LeaveIdle(m))
               \/ Plain(Bare(Lock(m) \/ CacheCopy(m) \/ CacheSwap(m) \/ Drained(m) \/ FreeOld(m)))
        PROVE  SharedInv'
    BY <1>1, CountStutter DEF Plain, Bare, LeaveIdle, dataVars, queueVars
  <1>2. ASSUME NEW p \in Pubs,
               \/ Plain(PushBegin(p) \/ PushEnd(p))
               \/ Plain(Bare(CacheLoad(p) \/ Visit(p) \/ QueueLock(p) \/ QueueUnlock(p)
                             \/ Notify(p)))
        PROVE  SharedInv'
    BY <1>2, CountStutter DEF Plain, Bare, PushBegin, PushEnd, dataVars, queueVars
  <1>3. ASSUME NEW s \in Subs, Plain(Bare(WaitLock(s) \/ WaitUnlock(s)))
        PROVE  SharedInv'
    BY <1>3, CountStutter DEF Plain, Bare, dataVars, queueVars
  <1>4. CASE UNCHANGED allVars
    BY <1>4, CountStutter DEF allVars, topicVars, dataVars, queueVars
  <1> QED
    BY <1>1, <1>2, <1>3, <1>4, CountFill, CountNumber, CountPush, CountPop, CountRelease, CountFlush
    DEF SharedNext

\* A payload is given back to the pool exactly when no publisher, queue or
\* subscriber refers to it any more, through any overlap of pushes, pops,
\* drops and registrations.
THEOREM PayloadsReturned == SharedSpec => []PayloadReturned
  <1>1. SharedSpec => []DataInv /\ []Bounded /\ []OrderInv
    <2>1. DataInv /\ Bounded /\ [TopicNext]_topicVars => Bounded'
      BY BoundedNext
    <2>2. TopicSpec => []Bounded
      BY <2>1, BoundedInit, DataInductive, PTL DEF TopicSpec
    <2> QED  BY <2>2, SharedRunsTopic, DataInductive, OrderInductive, PTL
  <1>2. SharedSpec => []SharedInv
    BY <1>1, CountInit, CountNext, PTL DEF SharedSpec
  <1>3. SharedInv => PayloadReturned
    <2> SUFFICES ASSUME SharedInv, NEW x \in Payloads PROVE uses[x] = 0 <=> Users(x) = {}
      BY DEF PayloadReturned
    <2>1. uses[x] = Cardinality(Bodies(x)) + Cardinality(Helds(x)) + Cardinality(Places(x))
      BY DEF SharedInv, Counted
    <2>2. uses[x] = 0 <=> /\ Cardinality(Bodies(x)) = 0 /\ Cardinality(Helds(x)) = 0
                          /\ Cardinality(Places(x)) = 0
      BY <2>1, CountsFinite
    <2>3. uses[x] = 0 <=> Bodies(x) = {} /\ Helds(x) = {} /\ Places(x) = {}
      BY <2>2, CountsFinite, FS_EmptySet
    <2> QED  BY <2>3 DEF Users
  <1> QED  BY <1>2, <1>3, PTL

=============================================================================
