---------------------------- MODULE ClientsProofs ----------------------------
(***************************************************************************)
(* Proofs about Domain and Clients, for any sets of clients, names and     *)
(* types and any number of topics: clients of one name agree on their      *)
(* topic and its type, a query reports the members it must, and the log    *)
(* finds the format of the client that posted a record.                    *)
(***************************************************************************)
EXTENDS Clients, SequenceTheorems, WellFoundedInduction, TLAPS

USE DomainAssumption, ClientsAssumption
USE DEF Clients

-----------------------------------------------------------------------------
(* The list of topics.                                                     *)

LEMMA MinOfNats ==
  ASSUME NEW S \in SUBSET Nat, S # {}
  PROVE  Min(S) \in S
  <1> DEFINE R == {ss \in Nat \X Nat : ss[1] < ss[2]}
  <1>3. IsWellFoundedOn(R, Nat)
    BY NatLessThanWellFounded, Zenon DEF OpToRel
  <1>1. PICK x \in S : \A y \in S : ~ (<<y, x>> \in R)
    <2> HIDE DEF R
    <2> QED  BY <1>3, WFMin, Zenon
  <1>2. ASSUME NEW y \in S PROVE x <= y
    <2>1. x \in Nat /\ y \in Nat
      OBVIOUS
    <2>2. y < x => <<y, x>> \in R
      BY <2>1
    <2>3. ~ (y < x)
      BY <1>1, <2>2
    <2> HIDE DEF R
    <2> QED  BY <2>1, <2>3
  <1> QED  BY <1>2 DEF Min

\* Position finds a topic of the name, if there is one.
LEMMA PositionFinds ==
  ASSUME topics \in Seq(Topic), NEW n
  PROVE  \/ /\ Position(n) \in DOMAIN topics /\ Position(n) # 0
            /\ topics[Position(n)].name = n
         \/ /\ Position(n) = 0
            /\ \A i \in DOMAIN topics : topics[i].name # n
  <1> DEFINE I == {i \in 1 .. Len(topics) : topics[i].name = n}
  <1>1. Position(n) = IF I # {} THEN Min(I) ELSE 0
    BY DEF Position, SelectInSeq
  <1>2. DOMAIN topics = 1 .. Len(topics) /\ Len(topics) \in Nat
    BY LenProperties
  <1>3. CASE I = {}
    BY <1>1, <1>2, <1>3
  <1>4. CASE I # {}
    <2>1. I \in SUBSET Nat
      BY <1>2
    <2>2. Min(I) \in I
      BY <1>4, <2>1, MinOfNats
    <2>3. Position(n) = Min(I)
      BY <1>1, <1>4
    <2> HIDE DEF I
    <2>4. Position(n) \in I
      BY <2>2, <2>3
    <2> USE DEF I
    <2> QED  BY <1>2, <2>4
  <1> QED  BY <1>3, <1>4

-----------------------------------------------------------------------------
(* Clients and topics.                                                     *)

\* Topics have names of their own, and a client is attached to the topic that
\* it named, which has its type.
Attached ==
  /\ \A i, j \in DOMAIN topics : topics[i].name = topics[j].name => i = j
  /\ \A c \in Clients :
       client[c] # NoClient =>
         /\ topics[client[c].topic].name = client[c].name
         /\ topics[client[c].topic].type = client[c].type
  /\ \A c \in registered : client[c] # NoClient

ClientsType ==
  /\ topics \in Seq(Topic)
  /\ client \in [Clients -> [name : Names, type : Types, topic : DOMAIN topics]
                              \cup {NoClient}]
  /\ registered \subseteq Clients

RegistryInv == ClientsType /\ Attached

LEMMA RegistryInit == Init => RegistryInv
  <1> SUFFICES ASSUME Init PROVE RegistryInv
    OBVIOUS
  <1>1. topics \in Seq(Topic) /\ DOMAIN topics = {}
    BY EmptySeq DEF Init
  <1> QED  BY <1>1 DEF Init, RegistryInv, ClientsType, Attached

\* A topic that is created gets the next place and leaves the others alone.
LEMMA OneMoreTopic ==
  ASSUME RegistryInv, NEW t \in Topic
  PROVE  /\ Append(topics, t) \in Seq(Topic)
         /\ DOMAIN Append(topics, t) = DOMAIN topics \cup {Len(topics) + 1}
         /\ Len(Append(topics, t)) = Len(topics) + 1
         /\ Append(topics, t)[Len(topics) + 1] = t
         /\ \A i \in DOMAIN topics : i # Len(topics) + 1 /\ Append(topics, t)[i] = topics[i]
  <1>1. /\ Append(topics, t) \in Seq(Topic)
        /\ Len(Append(topics, t)) = Len(topics) + 1
        /\ \A i \in 1 .. Len(topics) : Append(topics, t)[i] = topics[i]
        /\ Append(topics, t)[Len(topics) + 1] = t
    BY AppendProperties DEF RegistryInv, ClientsType
  <1>2. DOMAIN topics = 1 .. Len(topics) /\ Len(topics) \in Nat
    BY LenProperties DEF RegistryInv, ClientsType
  <1>3. DOMAIN Append(topics, t) = 1 .. Len(topics) + 1
    BY <1>1, LenProperties
  <1> QED  BY <1>1, <1>2, <1>3

LEMMA RegistryCreate ==
  ASSUME RegistryInv, NEW c \in Clients, NEW n \in Names, NEW d \in Types,
         CreateTopic(c, n, d)
  PROVE  RegistryInv'
  <1> USE DEF RegistryInv, ClientsType, Attached
  <1>1. c \notin registered /\ registered' = registered
    BY DEF CreateTopic
  <1>2. CASE /\ Position(n) # 0
             /\ topics[Position(n)].type = d
             /\ client' = [client EXCEPT ![c] = [name |-> n, type |-> d, topic |-> Position(n)]]
             /\ UNCHANGED topics
    <2>1. Position(n) \in DOMAIN topics /\ topics[Position(n)].name = n
      BY <1>2, PositionFinds
    <2>2. client' \in [Clients -> [name : Names, type : Types, topic : DOMAIN topics]
                                  \cup {NoClient}]
      BY <1>2, <2>1
    <2> QED  BY <1>1, <1>2, <2>1, <2>2
  <1>3. CASE /\ Position(n) = 0
             /\ topics' = Append(topics, [name |-> n, type |-> d])
             /\ client' = [client EXCEPT ![c] = [name |-> n, type |-> d, topic |-> Len(topics')]]
    <2> DEFINE t == [name |-> n, type |-> d]
               L == Len(topics) + 1
    <2>1. t \in Topic /\ t.name = n /\ t.type = d
      BY DEF Topic
    <2>2. \A i \in DOMAIN topics : topics[i].name # n
      BY <1>3, PositionFinds
    <2> HIDE DEF t
    <2>3. /\ topics' \in Seq(Topic)
          /\ DOMAIN topics' = DOMAIN topics \cup {L}
          /\ Len(topics') = L /\ topics'[L] = t
          /\ \A i \in DOMAIN topics : i # L /\ topics'[i] = topics[i]
      BY <1>3, <2>1, OneMoreTopic DEF t
    <2> HIDE DEF L
    <2>4. client' = [client EXCEPT ![c] = [name |-> n, type |-> d, topic |-> L]]
      BY <1>3, <2>3
    <2>5. client' \in [Clients -> [name : Names, type : Types, topic : DOMAIN topics']
                                  \cup {NoClient}]
      BY <2>3, <2>4
    <2>6. \A i, j \in DOMAIN topics' : topics'[i].name = topics'[j].name => i = j
      BY <2>1, <2>2, <2>3
    <2>7. ASSUME NEW e \in Clients, client'[e] # NoClient
          PROVE  /\ topics'[client'[e].topic].name = client'[e].name
                 /\ topics'[client'[e].topic].type = client'[e].type
      BY <2>1, <2>3, <2>4, <2>7
    <2> QED  BY <1>1, <2>3, <2>4, <2>5, <2>6, <2>7
  <1> QED  BY <1>2, <1>3 DEF CreateTopic

LEMMA RegistryNext == RegistryInv /\ [Next]_vars => RegistryInv'
  <1> SUFFICES ASSUME RegistryInv, [Next]_vars PROVE RegistryInv'
    OBVIOUS
  <1> USE DEF RegistryInv, ClientsType, Attached
  <1>1. ASSUME NEW c \in Clients, Register(c) PROVE RegistryInv'
    BY <1>1 DEF Register
  <1>2. ASSUME NEW c \in Clients, DeleteClient(c) PROVE RegistryInv'
    BY <1>2 DEF DeleteClient
  <1>3. CASE UNCHANGED <<topics, client, registered>>
    BY <1>3
  <1> QED
    BY <1>1, <1>2, <1>3, RegistryCreate
    DEF Next, InfoNext, QueryBegin, QueryTopic, QueryEnd, InitInfo, ClearInfo, vars

\* The list of topics and the clients' places in it stay consistent.
THEOREM RegistryInductive == Spec => []RegistryInv
  BY RegistryInit, RegistryNext, PTL DEF Spec

\* Clients of one topic name, and only they, share a topic, and they agree on
\* its data type.
THEOREM SameTopicSameType == Spec => []ClientsAgree
  <1>1. RegistryInv => ClientsAgree
    BY DEF RegistryInv, ClientsType, Attached, ClientsAgree
  <1> QED  BY <1>1, RegistryInductive, PTL

-----------------------------------------------------------------------------
(* Queries.                                                                *)

\* The k-th topic_info is a fair account of the i-th topic: it lists those who
\* have been members all the time, and nobody who never was.
Shows(k, i) ==
  /\ di[k] \in TopicInfo
  /\ di[k].name = topics[i].name
  /\ {p \in Pubs : <<p, i>> \in always} \subseteq di[k].pubs
  /\ {s \in Subs : <<s, i>> \in always} \subseteq di[k].subs
  /\ \A p \in di[k].pubs : <<p, i>> \in ever
  /\ \A s \in di[k].subs : <<s, i>> \in ever

\* What the query has read so far, and where it put it.
Reading ==
  /\ query.next \in 1 .. Len(topics) + 1
  /\ query.count \in Nat
  /\ always \subseteq Members /\ Members \subseteq ever
  /\ query.count <= Len(di)
  /\ FilterAny(query.flt) => query.count = query.next - 1 /\ Len(di) = Len(topics)
  /\ ~FilterAny(query.flt) /\ query.count # 0 => Len(di) = query.count
  /\ \A k \in 1 .. query.count : \E i \in 1 .. query.next - 1 : Shows(k, i)
  /\ \A i \in 1 .. query.next - 1 :
       FilterMatch(query.flt, topics[i]) => \E k \in 1 .. query.count : Shows(k, i)

QueryType ==
  /\ di \in Seq(TopicInfo \cup {Blank})
  /\ query \in [flt : Filter, next : Nat, count : Nat] \cup {NoQuery}
  /\ ever \subseteq Clients \X DOMAIN topics /\ always \subseteq ever

QueryInv ==
  /\ QueryType
  /\ query # NoQuery => Reading

LEMMA MembersType ==
  ASSUME RegistryInv
  PROVE  /\ Members \subseteq Clients \X DOMAIN topics
         /\ \A c \in Clients : \A i : <<c, i>> \in Members <=> c \in registered /\ client[c].topic = i
  BY DEF RegistryInv, ClientsType, Attached, Members

LEMMA ResizeType ==
  ASSUME NEW n \in Nat, di \in Seq(TopicInfo \cup {Blank})
  PROVE  /\ Resize(di, n) \in Seq(TopicInfo \cup {Blank})
         /\ Len(Resize(di, n)) = n
         /\ \A k \in 1 .. n : k <= Len(di) => Resize(di, n)[k] = di[k]
  <1>1. \A k \in 1 .. n : Resize(di, n)[k] \in TopicInfo \cup {Blank}
    BY ElementOfSeq DEF Resize
  <1>2. Resize(di, n) = [k \in 1 .. n |-> Resize(di, n)[k]]
    BY DEF Resize
  <1>3. Resize(di, n) \in Seq(TopicInfo \cup {Blank})
    BY <1>1, <1>2, IsASeq
  <1>4. DOMAIN Resize(di, n) = 1 .. n
    BY DEF Resize
  <1>5. Len(Resize(di, n)) = n
    BY <1>3, <1>4, LenProperties
  <1> QED  BY <1>3, <1>5 DEF Resize

LEMMA QueryInit == Init => QueryInv
  <1>1. <<>> \in Seq(TopicInfo \cup {Blank})
    BY EmptySeq
  <1> QED  BY <1>1 DEF Init, QueryInv, QueryType

\* Nothing that a query has read is spoilt when clients come and go behind it.
LEMMA ReadingStable ==
  ASSUME Reading, UNCHANGED <<topics, di, query>>,
         always' \subseteq always, ever \subseteq ever',
         always' \subseteq Members', Members' \subseteq ever'
  PROVE  Reading'
  <1>1. ASSUME NEW k, NEW i, Shows(k, i) PROVE Shows(k, i)'
    BY <1>1 DEF Shows
  <1> QED  BY <1>1 DEF Reading

LEMMA QueryRegister ==
  ASSUME RegistryInv, RegistryInv', QueryInv, NEW c \in Clients, Register(c)
  PROVE  QueryInv'
  <1> USE DEF QueryInv, QueryType
  <1>1. Members' = Members \cup {<<c, client[c].topic>>}
    BY DEF Register, Members
  <1>2. client[c].topic \in DOMAIN topics
    BY DEF Register, RegistryInv, ClientsType
  <1>3. QueryType'
    BY <1>2 DEF Register
  <1>4. CASE query # NoQuery
    <2>1. Reading'
      BY <1>1, <1>4, ReadingStable DEF Register, Reading
    <2> QED  BY <1>3, <2>1
  <1>5. CASE query = NoQuery
    BY <1>3, <1>5 DEF Register
  <1> QED  BY <1>4, <1>5

LEMMA QueryDelete ==
  ASSUME RegistryInv, RegistryInv', QueryInv, NEW c \in Clients, DeleteClient(c)
  PROVE  QueryInv'
  <1> USE DEF QueryInv, QueryType
  <1>1. /\ \A e \in registered' : e # c /\ e \in registered /\ client'[e] = client[e]
        /\ \A e \in registered : e = c \/ e \in registered'
    BY DEF DeleteClient, RegistryInv, ClientsType
  <1>2. Members' = Members \ {<<c, client[c].topic>>}
    BY <1>1 DEF DeleteClient, Members
  <1>3. QueryType'
    BY DEF DeleteClient
  <1>4. CASE query # NoQuery
    <2>1. Reading'
      BY <1>2, <1>4, ReadingStable DEF DeleteClient, Reading
    <2> QED  BY <1>3, <2>1
  <1>5. CASE query = NoQuery
    BY <1>3, <1>5 DEF DeleteClient
  <1> QED  BY <1>4, <1>5

LEMMA QueryStart ==
  ASSUME RegistryInv, QueryInv, NEW f \in Filter, QueryBegin(f)
  PROVE  QueryInv'
  <1> USE DEF QueryInv, QueryType
  <1>1. Len(topics) \in Nat /\ Len(di) \in Nat
    BY LenProperties DEF RegistryInv, ClientsType
  <1>2. di' \in Seq(TopicInfo \cup {Blank}) /\ Len(di') \in Nat
        /\ (FilterAny(f) => Len(di') = Len(topics))
    BY <1>1, ResizeType DEF QueryBegin
  <1>3. Members' = Members /\ Members \subseteq Clients \X DOMAIN topics
    BY MembersType DEF QueryBegin, Members
  <1>4. query' = [flt |-> f, next |-> 1, count |-> 0] /\ topics' = topics
        /\ ever' = Members /\ always' = Members
    BY DEF QueryBegin
  <1>5. QueryType'
    BY <1>2, <1>3, <1>4
  <1>6. Reading'
    BY <1>1, <1>2, <1>3, <1>4 DEF Reading, FilterAny
  <1> QED  BY <1>5, <1>6

LEMMA MembersOfType ==
  ASSUME RegistryInv, NEW i \in DOMAIN topics, NEW old
  PROVE  MembersOf(i, old) \in TopicInfo
  <1>1. topics[i] \in Topic
    BY ElementOfSeq, LenProperties DEF RegistryInv, ClientsType
  <1> QED  BY <1>1 DEF MembersOf, TopicInfo, Topic

\* A topic that matches is read into the next place.
LEMMA QueryMatch ==
  ASSUME RegistryInv, QueryInv, QueryTopic,
         NEW i, i = query.next, NEW k, k = query.count + 1,
         FilterMatch(query.flt, topics[i]),
         query' = [query EXCEPT !.next = i + 1, !.count = k],
         NEW room, room = (IF FilterAny(query.flt) THEN di ELSE Resize(di, k)),
         NEW old, di' = [room EXCEPT ![k] = MembersOf(i, old)]
  PROVE  QueryInv'
  <1> USE DEF QueryInv, QueryType
  <1>1. /\ query \in [flt : Filter, next : Nat, count : Nat] /\ query # NoQuery
        /\ i \in 1 .. Len(topics) /\ Reading /\ Len(topics) \in Nat
        /\ UNCHANGED <<topics, client, registered, ever, always>>
    BY LenProperties DEF QueryTopic, Reading, history, RegistryInv, ClientsType
  <1>2. /\ k \in Nat /\ k # 0 /\ k - 1 = query.count /\ query.count \in Nat
        /\ query' \in [flt : Filter, next : Nat, count : Nat]
        /\ query'.flt = query.flt /\ query'.next = i + 1 /\ query'.count = k
    <2>1. query.count \in Nat /\ query.next \in Nat /\ query.flt \in Filter
      BY <1>1
    <2>2. k \in Nat /\ i + 1 \in Nat /\ k # 0 /\ k - 1 = query.count
      BY <2>1
    <2>3. query' \in [flt : Filter, next : Nat, count : Nat]
      BY <1>1, <2>2
    <2>4. query'.flt = query.flt /\ query'.next = i + 1 /\ query'.count = k
      BY <1>1
    <2> QED  BY <2>1, <2>2, <2>3, <2>4
  <1>3. /\ room \in Seq(TopicInfo \cup {Blank}) /\ k \in 1 .. Len(room)
        /\ \A m \in 1 .. query.count : room[m] = di[m]
        /\ FilterAny(query.flt) => Len(room) = Len(topics)
        /\ ~FilterAny(query.flt) => Len(room) = k
    <2>1. CASE FilterAny(query.flt)
      BY <1>1, <1>2, <2>1 DEF Reading
    <2>2. CASE ~FilterAny(query.flt)
      <3>1. query.count <= Len(di) /\ Len(di) \in Nat
        BY <1>1, LenProperties DEF Reading
      <3> QED  BY <1>1, <1>2, <2>2, <3>1, ResizeType
    <2> QED  BY <2>1, <2>2
  <1>4. MembersOf(i, old) \in TopicInfo
    BY <1>1, MembersOfType, LenProperties DEF RegistryInv, ClientsType
  <1>5. /\ di' \in Seq(TopicInfo \cup {Blank}) /\ Len(di') = Len(room)
        /\ di'[k] = MembersOf(i, old)
        /\ \A m \in 1 .. query.count : di'[m] = di[m]
    <2>2. DOMAIN room = 1 .. Len(room) /\ Len(room) \in Nat
      BY <1>3, LenProperties
    <2>3. di' \in Seq(TopicInfo \cup {Blank}) /\ Len(di') = Len(room)
      BY <1>3, <1>4, ExceptSeq
    <2>4. di'[k] = MembersOf(i, old)
      BY <1>3, <2>2
    <2>5. \A m \in 1 .. query.count : m # k /\ m \in 1 .. Len(room)
      BY <1>1, <1>2, <1>3, <2>2
    <2>6. \A m \in 1 .. query.count : di'[m] = room[m]
      BY <1>3, <2>2, <2>5
    <2> QED  BY <1>3, <2>3, <2>4, <2>6
  <1>6. ASSUME NEW m \in 1 .. query.count, NEW j, Shows(m, j) PROVE Shows(m, j)'
    <2>1. di'[m] = di[m]
      BY <1>5
    <2> QED  BY <1>1, <1>6, <2>1 DEF Shows
  <1>7. Shows(k, i)'
    <2>1. /\ di'[k].name = topics[i].name
          /\ di'[k].pubs = {p \in Pubs : <<p, i>> \in Members}
          /\ di'[k].subs = {s \in Subs : <<s, i>> \in Members}
      BY <1>5 DEF MembersOf
    <2>2. always \subseteq Members /\ Members \subseteq ever
      BY <1>1 DEF Reading
    <2>3. topics' = topics /\ ever' = ever /\ always' = always /\ di'[k] \in TopicInfo
      BY <1>1, <1>4, <1>5
    <2> QED  BY <2>1, <2>2, <2>3 DEF Shows
  <1>8. Members' = Members
    BY <1>1 DEF Members
  <1>9. QueryType'
    BY <1>1, <1>2, <1>5
  <1>10. Reading'
    <2>1. /\ query'.next \in 1 .. Len(topics') + 1
          /\ query'.count \in Nat
          /\ always' \subseteq Members' /\ Members' \subseteq ever'
          /\ query'.count <= Len(di')
      BY <1>1, <1>2, <1>3, <1>5, <1>8 DEF Reading
    <2>2. /\ FilterAny(query'.flt) => query'.count = query'.next - 1 /\ Len(di') = Len(topics')
          /\ ~FilterAny(query'.flt) /\ query'.count # 0 => Len(di') = query'.count
      BY <1>1, <1>2, <1>3, <1>5 DEF Reading, FilterAny
    <2>3. ASSUME NEW m \in 1 .. query'.count
          PROVE  \E j \in 1 .. query'.next - 1 : Shows(m, j)'
      <3>1. CASE m = k
        <4>1. i \in 1 .. query'.next - 1
          BY <1>1, <1>2
        <4> QED  BY <1>7, <3>1, <4>1
      <3>2. CASE m # k
        <4>1. m \in 1 .. query.count
          BY <1>1, <1>2, <3>2
        <4>2. PICK j \in 1 .. query.next - 1 : Shows(m, j)
          BY <1>1, <4>1 DEF Reading
        <4>3. j \in 1 .. query'.next - 1
          BY <1>1, <1>2
        <4> QED  BY <1>6, <4>1, <4>2, <4>3
      <3> QED  BY <3>1, <3>2
    <2>4. ASSUME NEW j \in 1 .. query'.next - 1, FilterMatch(query'.flt, topics'[j])
          PROVE  \E m \in 1 .. query'.count : Shows(m, j)'
      <3>1. CASE j = i
        <4>1. k \in 1 .. query'.count
          BY <1>2
        <4> QED  BY <1>7, <3>1, <4>1
      <3>2. CASE j # i
        <4>1. j \in 1 .. query.next - 1 /\ FilterMatch(query.flt, topics[j])
          BY <1>1, <1>2, <2>4, <3>2 DEF FilterMatch
        <4>2. PICK m \in 1 .. query.count : Shows(m, j)
          BY <1>1, <4>1 DEF Reading
        <4>3. m \in 1 .. query'.count
          BY <1>1, <1>2
        <4> QED  BY <1>6, <4>2, <4>3
      <3> QED  BY <3>1, <3>2
    <2> QED  BY <2>1, <2>2, <2>3, <2>4 DEF Reading
  <1> QED  BY <1>9, <1>10

LEMMA QueryNoMatch ==
  ASSUME RegistryInv, QueryInv, QueryTopic, ~FilterMatch(query.flt, topics[query.next]),
         query' = [query EXCEPT !.next = @ + 1], UNCHANGED di
  PROVE  QueryInv'
  <1> USE DEF QueryInv, QueryType
  <1>1. /\ query \in [flt : Filter, next : Nat, count : Nat] /\ query # NoQuery
        /\ query.next \in 1 .. Len(topics) /\ Reading /\ Len(topics) \in Nat
        /\ UNCHANGED <<topics, client, registered, ever, always>>
    BY LenProperties DEF QueryTopic, Reading, history, RegistryInv, ClientsType
  <1>2. /\ query' \in [flt : Filter, next : Nat, count : Nat]
        /\ query'.flt = query.flt /\ query'.next = query.next + 1
        /\ query'.count = query.count
    BY <1>1
  <1>3. ~FilterAny(query.flt)
    BY DEF FilterMatch, FilterAny
  <1>4. Members' = Members
    BY <1>1 DEF Members
  <1>5. ASSUME NEW m, NEW j, Shows(m, j) PROVE Shows(m, j)'
    BY <1>1, <1>5 DEF Shows
  <1>6. ASSUME NEW m \in 1 .. query'.count PROVE \E j \in 1 .. query'.next - 1 : Shows(m, j)'
    <2>1. PICK j \in 1 .. query.next - 1 : Shows(m, j)
      BY <1>1, <1>2 DEF Reading
    <2>2. j \in 1 .. query'.next - 1
      BY <1>1, <1>2
    <2> QED  BY <1>5, <2>1, <2>2
  <1>7. ASSUME NEW j \in 1 .. query'.next - 1, FilterMatch(query'.flt, topics'[j])
        PROVE  \E m \in 1 .. query'.count : Shows(m, j)'
    <2>1. FilterMatch(query.flt, topics[j])
      BY <1>1, <1>2, <1>7 DEF FilterMatch
    <2>2. j \in 1 .. query.next - 1
      BY <1>1, <1>2, <2>1
    <2> QED  BY <1>1, <1>2, <1>5, <2>1, <2>2 DEF Reading
  <1>8. QueryType'
    BY <1>1, <1>2
  <1>9. /\ query'.next \in 1 .. Len(topics') + 1
        /\ query'.count \in Nat
        /\ always' \subseteq Members' /\ Members' \subseteq ever'
        /\ query'.count <= Len(di')
        /\ ~FilterAny(query'.flt)
        /\ query'.count # 0 => Len(di') = query'.count
    BY <1>1, <1>2, <1>3, <1>4 DEF Reading, FilterAny
  <1>10. Reading'
    BY <1>6, <1>7, <1>9 DEF Reading
  <1> QED  BY <1>8, <1>10

LEMMA QueryStep ==
  ASSUME RegistryInv, QueryInv, QueryTopic
  PROVE  QueryInv'
  <1> DEFINE i == query.next
             k == query.count + 1
  <1>1. CASE ~FilterMatch(query.flt, topics[query.next])
    BY <1>1, QueryNoMatch DEF QueryTopic
  <1>2. CASE FilterMatch(query.flt, topics[query.next])
    <2>1. PICK room : room = IF FilterAny(query.flt) THEN di ELSE Resize(di, k)
      OBVIOUS
    <2>2. /\ di' = [room EXCEPT ![k] = MembersOf(i, room[k])]
          /\ query' = [query EXCEPT !.next = i + 1, !.count = k]
      BY <1>2, <2>1 DEF QueryTopic
    <2> HIDE DEF i, k
    <2>3. i = query.next /\ k = query.count + 1
      BY DEF i, k
    <2> QED  BY <1>2, <2>1, <2>2, <2>3, QueryMatch
  <1> QED  BY <1>1, <1>2

LEMMA QueryNext == RegistryInv /\ RegistryInv' /\ QueryInv /\ [Next]_vars => QueryInv'
  <1> SUFFICES ASSUME RegistryInv, RegistryInv', QueryInv, [Next]_vars PROVE QueryInv'
    OBVIOUS
  <1>1. ASSUME NEW c \in Clients, NEW n \in Names, NEW d \in Types, CreateTopic(c, n, d)
        PROVE  QueryInv'
    <2>1. DOMAIN topics \subseteq DOMAIN topics'
      <3>1. CASE topics' = topics
        BY <3>1
      <3>2. CASE topics' = Append(topics, [name |-> n, type |-> d])
        <4>1. [name |-> n, type |-> d] \in Topic
          BY DEF Topic
        <4> QED  BY <3>2, <4>1, OneMoreTopic
      <3> QED  BY <1>1, <3>1, <3>2 DEF CreateTopic
    <2> QED  BY <1>1, <2>1 DEF CreateTopic, QueryInv, QueryType, history
  <1>2. ASSUME NEW c \in Clients, Register(c) \/ DeleteClient(c) PROVE QueryInv'
    BY <1>2, QueryRegister, QueryDelete
  <1>3. ASSUME NEW f \in Filter, QueryBegin(f) PROVE QueryInv'
    BY <1>3, QueryStart
  <1>4. CASE QueryEnd
    BY <1>4 DEF QueryEnd, QueryInv, QueryType
  <1>5. ASSUME NEW n \in 0 .. MaxTopics, InitInfo(n) PROVE QueryInv'
    <2>1. n \in Nat
      OBVIOUS
    <2>2. Resize(di, n) \in Seq(TopicInfo \cup {Blank})
      BY <2>1, ResizeType DEF QueryInv, QueryType
    <2> QED  BY <1>5, <2>2 DEF InitInfo, QueryInv, QueryType, history
  <1>6. CASE ClearInfo
    <2>1. <<>> \in Seq(TopicInfo \cup {Blank})
      BY EmptySeq
    <2> QED  BY <1>6, <2>1 DEF ClearInfo, QueryInv, QueryType, history
  <1>7. CASE UNCHANGED vars
    <2>1. ASSUME Reading PROVE Reading'
      <3>1. Members' = Members
        BY <1>7 DEF vars, Members
      <3> QED  BY <1>7, <2>1, <3>1, ReadingStable DEF vars, history, Reading
    <2> QED  BY <1>7, <2>1 DEF vars, history, QueryInv, QueryType
  <1> QED
    BY <1>1, <1>2, <1>3, <1>4, <1>5, <1>6, <1>7, QueryStep DEF Next, InfoNext

\* What a query has read so far is a fair account of the topics it read.
THEOREM QueryInductive == Spec => []QueryInv
  BY QueryInit, QueryNext, RegistryInductive, PTL DEF Spec

\* The variables of the domain keep their types.
THEOREM TypeCorrect == Spec => []TypeOK
  <1>1. RegistryInv /\ QueryInv => TypeOK
    BY DEF RegistryInv, ClientsType, QueryInv, QueryType, TypeOK
  <1> QED  BY <1>1, RegistryInductive, QueryInductive, PTL

LEMMA EndShowsMembers ==
  ASSUME RegistryInv, QueryInv, QueryEnd, query.count # 0
  PROVE  /\ {Arrow(m) : m \in {x \in always : FilterMatch(query.flt, topics[x[2]])}}
              \subseteq Arrows(di)
         /\ Arrows(di) \subseteq {Arrow(m) : m \in ever}
  <1>1. /\ Reading /\ query.next = Len(topics) + 1 /\ query.count \in Nat
        /\ always \subseteq ever /\ ever \subseteq Clients \X DOMAIN topics
        /\ Len(topics) \in Nat /\ DOMAIN topics = 1 .. Len(topics)
    BY LenProperties DEF QueryInv, QueryType, QueryEnd, Reading, RegistryInv, ClientsType
  <1>2. DOMAIN di = 1 .. query.count
    BY <1>1, LenProperties DEF QueryInv, QueryType, Reading
  <1>3. ASSUME NEW m \in always, FilterMatch(query.flt, topics[m[2]])
        PROVE  Arrow(m) \in Arrows(di)
    <2>1. PICK c \in Clients, i \in 1 .. Len(topics) : m = <<c, i>>
      BY <1>1
    <2>2. PICK k \in DOMAIN di : Shows(k, i)
      BY <1>1, <1>2, <1>3, <2>1 DEF Reading
    <2>3. CASE c \in Pubs
      <3>1. c \in di[k].pubs /\ Arrow(m) = <<c, di[k].name>>
        BY <2>1, <2>2, <2>3 DEF Shows, Arrow
      <3> QED  BY <3>1 DEF Arrows
    <2>4. CASE c \notin Pubs
      <3>1. c \in di[k].subs /\ Arrow(m) = <<di[k].name, c>>
        BY <2>1, <2>2, <2>4 DEF Shows, Arrow
      <3> QED  BY <3>1 DEF Arrows
    <2> QED  BY <2>3, <2>4
  <1>4. ASSUME NEW a \in Arrows(di) PROVE \E m \in ever : a = Arrow(m)
    <2>1. PICK k \in DOMAIN di :
            \/ \E p \in di[k].pubs : a = <<p, di[k].name>>
            \/ \E s \in di[k].subs : a = <<di[k].name, s>>
      BY <1>4 DEF Arrows
    <2>2. PICK i : Shows(k, i)
      BY <1>1, <1>2 DEF Reading
    <2>3. di[k].pubs \subseteq Pubs /\ di[k].subs \subseteq Subs /\ di[k].name = topics[i].name
      BY <2>2 DEF Shows, TopicInfo
    <2>4. ASSUME NEW p \in di[k].pubs, a = <<p, di[k].name>> PROVE \E m \in ever : a = Arrow(m)
      <3>1. <<p, i>> \in ever /\ a = Arrow(<<p, i>>)
        BY <2>2, <2>3, <2>4 DEF Shows, Arrow
      <3> QED  BY <3>1
    <2>5. ASSUME NEW s \in di[k].subs, a = <<di[k].name, s>> PROVE \E m \in ever : a = Arrow(m)
      <3>1. <<s, i>> \in ever /\ a = Arrow(<<s, i>>)
        BY <2>2, <2>3, <2>5 DEF Shows, Arrow
      <3> QED  BY <3>1
    <2> QED  BY <2>1, <2>4, <2>5
  <1> QED  BY <1>3, <1>4

\* A query, and the graph drawn from it, shows every client that was registered
\* all the time, and none that never was.
THEOREM QueryShowsMembers == Spec => GraphShowsMembers
  <1>1. RegistryInv /\ QueryInv /\ [Next]_vars =>
          [ QueryEnd /\ query.count # 0 =>
              /\ {Arrow(m) : m \in {x \in always : FilterMatch(query.flt, topics[x[2]])}}
                   \subseteq Arrows(di)
              /\ Arrows(di) \subseteq {Arrow(m) : m \in ever} ]_vars
    BY EndShowsMembers
  <1> QED  BY <1>1, RegistryInductive, QueryInductive, PTL DEF Spec, GraphShowsMembers

-----------------------------------------------------------------------------
(* Trace formats.                                                          *)

\* Clients with their formats are clients of Domain: the theorems above hold
\* of them too.
THEOREM ClientsRunsDomain == ClientsSpec => Spec
  <1>1. ClientsInit => Init
    BY DEF ClientsInit
  <1>2. [ClientsNext]_clientsVars => [Next]_vars
    BY DEF ClientsNext, CachePush, CacheFront, RegisterTraced, DeleteTraced, Post, Format,
           Next, clientsVars
  <1> QED  BY <1>1, <1>2, PTL DEF Spec, ClientsSpec

\* A pointer is to the string that its client pushed: whoever is inside the
\* cache pushed the last one.
Pointed ==
  /\ fmt \in [Clients -> Nat]
  /\ \A c \in Clients :
       fmt[c] # 0 => client[c] # NoClient /\ fmt[c] \in DOMAIN list /\ list[fmt[c]] = Trace(c)
  /\ \A c \in registered : fmt[c] # 0

LastPushed ==
  /\ inside \subseteq Clients
  /\ \A c, e \in inside : c = e
  /\ \A c \in inside :
       /\ client[c] # NoClient /\ fmt[c] = 0
       /\ Len(list) \in DOMAIN list /\ Len(list) # 0 /\ list[Len(list)] = Trace(c)

Record == [fmt : Nat, trace : Clients \X Nat]

TracesInv ==
  /\ list \in Seq(Clients \X Nat) /\ pending \in Seq(Record)
  /\ Pointed /\ LastPushed
  /\ TracesNamed

LEMMA TracesInit == ClientsInit => TracesInv
  <1> SUFFICES ASSUME ClientsInit PROVE TracesInv
    OBVIOUS
  <1>1. list \in Seq(Clients \X Nat) /\ pending \in Seq(Record) /\ DOMAIN pending = {}
    BY EmptySeq DEF ClientsInit
  <1> QED
    BY <1>1 DEF ClientsInit, Init, TracesInv, Pointed, LastPushed, TracesNamed

LEMMA TraceType ==
  ASSUME RegistryInv, NEW c \in Clients, client[c] # NoClient
  PROVE  Trace(c) \in Clients \X Nat
  BY LenProperties DEF RegistryInv, ClientsType, Trace

\* Strings are only ever added, so that pointers to the others stay right.
LEMMA StringAdded ==
  ASSUME list \in Seq(Clients \X Nat), NEW s \in Clients \X Nat, list' = Append(list, s)
  PROVE  /\ list' \in Seq(Clients \X Nat)
         /\ Len(list') \in DOMAIN list' /\ Len(list') # 0 /\ list'[Len(list')] = s
         /\ \A i \in DOMAIN list : i \in DOMAIN list' /\ list'[i] = list[i]
  <1>1. /\ list' \in Seq(Clients \X Nat)
        /\ Len(list') = Len(list) + 1
        /\ \A i \in 1 .. Len(list) : list'[i] = list[i]
        /\ list'[Len(list) + 1] = s
    BY AppendProperties
  <1>2. /\ DOMAIN list = 1 .. Len(list) /\ Len(list) \in Nat
        /\ DOMAIN list' = 1 .. Len(list')
    BY <1>1, LenProperties
  <1> QED  BY <1>1, <1>2

LEMMA TracesPush ==
  ASSUME RegistryInv, TracesInv, NEW c \in Clients, CachePush(c)
  PROVE  TracesInv'
  <1> USE DEF TracesInv, Pointed, LastPushed
  <1>1. /\ list' = Append(list, Trace(c)) /\ inside' = {c} /\ inside = {}
        /\ client[c] # NoClient /\ fmt[c] = 0
        /\ UNCHANGED <<topics, client, registered, fmt, pending>>
    BY DEF CachePush, vars
  <1>2. Trace(c) \in Clients \X Nat
    BY <1>1, TraceType
  <1>3. /\ list' \in Seq(Clients \X Nat)
        /\ Len(list') \in DOMAIN list' /\ Len(list') # 0 /\ list'[Len(list')] = Trace(c)
        /\ \A i \in DOMAIN list : i \in DOMAIN list' /\ list'[i] = list[i]
    BY <1>1, <1>2, StringAdded
  <1>4. \A e : Trace(e)' = Trace(e)
    BY <1>1 DEF Trace
  <1>5. Pointed'
    BY <1>1, <1>3, <1>4
  <1>6. LastPushed'
    BY <1>1, <1>3, <1>4
  <1>7. TracesNamed'
    BY <1>1, <1>3 DEF TracesNamed
  <1> QED  BY <1>1, <1>3, <1>5, <1>6, <1>7

LEMMA TracesFront ==
  ASSUME RegistryInv, TracesInv, NEW c \in Clients, CacheFront(c)
  PROVE  TracesInv'
  <1> USE DEF TracesInv, Pointed, LastPushed
  <1>1. /\ c \in inside /\ inside' = inside \ {c}
        /\ fmt' = [fmt EXCEPT ![c] = Len(list)]
        /\ UNCHANGED <<topics, client, registered, list, pending>>
    BY DEF CacheFront, vars
  <1>2. Len(list) \in Nat
    BY LenProperties
  <1>3. \A e : Trace(e)' = Trace(e)
    BY <1>1 DEF Trace
  <1>4. fmt' \in [Clients -> Nat]
    BY <1>1, <1>2
  <1>5. ASSUME NEW e \in Clients, fmt'[e] # 0
        PROVE  client'[e] # NoClient /\ fmt'[e] \in DOMAIN list' /\ list'[fmt'[e]] = Trace(e)'
    BY <1>1, <1>3, <1>5
  <1>6. \A e \in registered' : fmt'[e] # 0
    BY <1>1 DEF RegistryInv, ClientsType
  <1>7. LastPushed'
    BY <1>1, <1>3
  <1>8. TracesNamed'
    BY <1>1 DEF TracesNamed
  <1> QED  BY <1>1, <1>4, <1>5, <1>6, <1>7, <1>8

LEMMA TracesPost ==
  ASSUME RegistryInv, TracesInv, NEW c \in Clients, Post(c)
  PROVE  TracesInv'
  <1> USE DEF TracesInv, Pointed, LastPushed
  <1> DEFINE r == [fmt |-> fmt[c], trace |-> Trace(c)]
  <1>1. /\ c \in registered /\ pending' = Append(pending, r)
        /\ UNCHANGED <<topics, client, registered, list, inside, fmt>>
    BY DEF Post, vars
  <1>2. fmt[c] \in DOMAIN list /\ list[fmt[c]] = Trace(c) /\ client[c] # NoClient
    BY <1>1
  <1>3. r \in Record /\ r.fmt = fmt[c] /\ r.trace = Trace(c)
    BY <1>2, TraceType DEF Record
  <1> HIDE DEF r
  <1>4. /\ pending' \in Seq(Record)
        /\ \A i \in DOMAIN pending' :
             (i \in DOMAIN pending /\ pending'[i] = pending[i]) \/ pending'[i] = r
    <2>1. /\ pending' \in Seq(Record)
          /\ Len(pending') = Len(pending) + 1
          /\ \A i \in 1 .. Len(pending) : pending'[i] = pending[i]
          /\ pending'[Len(pending) + 1] = r
      BY <1>1, <1>3, AppendProperties
    <2>2. /\ DOMAIN pending = 1 .. Len(pending) /\ Len(pending) \in Nat
          /\ DOMAIN pending' = 1 .. Len(pending')
      BY <2>1, LenProperties
    <2> QED  BY <2>1, <2>2
  <1>5. \A e : Trace(e)' = Trace(e)
    BY <1>1 DEF Trace
  <1>6. TracesNamed'
    BY <1>1, <1>2, <1>3, <1>4 DEF TracesNamed
  <1>7. Pointed' /\ LastPushed'
    BY <1>1, <1>5
  <1> QED  BY <1>1, <1>4, <1>6, <1>7

LEMMA TracesFormat ==
  ASSUME TracesInv, Format
  PROVE  TracesInv'
  <1> USE DEF TracesInv, Pointed, LastPushed
  <1>1. /\ pending # <<>> /\ pending' = Tail(pending)
        /\ UNCHANGED <<topics, client, registered, list, inside, fmt>>
    BY DEF Format, vars
  <1>2. /\ pending' \in Seq(Record)
        /\ \A i \in DOMAIN pending' : i + 1 \in DOMAIN pending /\ pending'[i] = pending[i + 1]
    <2>1. /\ pending' \in Seq(Record)
          /\ Len(pending') = Len(pending) - 1
          /\ \A i \in 1 .. Len(pending') : pending'[i] = pending[i + 1]
      BY <1>1, HeadTailProperties
    <2>2. /\ DOMAIN pending = 1 .. Len(pending) /\ Len(pending) \in Nat
          /\ DOMAIN pending' = 1 .. Len(pending') /\ Len(pending') \in Nat
      BY <2>1, LenProperties
    <2> QED  BY <2>1, <2>2
  <1>3. \A e : Trace(e)' = Trace(e)
    BY <1>1 DEF Trace
  <1>4. TracesNamed'
    BY <1>1, <1>2 DEF TracesNamed
  <1> QED  BY <1>1, <1>2, <1>3, <1>4

\* Clients that come and go: one without a format yet has no pointer to spoil.
LEMMA TracesClient ==
  ASSUME RegistryInv, TracesInv, NEW c \in Clients,
         \/ \E n \in Names, d \in Types : CreateTopic(c, n, d) /\ UNCHANGED traceVars
         \/ RegisterTraced(c) \/ DeleteTraced(c)
  PROVE  TracesInv'
  <1> USE DEF TracesInv, Pointed, LastPushed
  <1>1. CASE \E n \in Names, d \in Types : CreateTopic(c, n, d) /\ UNCHANGED traceVars
    <2>1. /\ client[c] = NoClient /\ registered' = registered
          /\ \A e \in Clients : e # c => client'[e] = client[e]
          /\ UNCHANGED <<list, inside, fmt, pending>>
      BY <1>1 DEF CreateTopic, traceVars, RegistryInv, ClientsType
    <2>2. fmt[c] = 0 /\ c \notin inside
      BY <2>1
    <2>3. \A e \in Clients : e # c => Trace(e)' = Trace(e)
      BY <2>1 DEF Trace
    <2>4. Pointed' /\ LastPushed'
      BY <2>1, <2>2, <2>3
    <2>5. TracesNamed'
      BY <2>1 DEF TracesNamed
    <2> QED  BY <2>1, <2>4, <2>5
  <1>2. CASE RegisterTraced(c)
    <2>1. /\ fmt[c] # 0 /\ registered' = registered \cup {c}
          /\ UNCHANGED <<client, list, inside, fmt, pending>>
      BY <1>2 DEF RegisterTraced, Register, traceVars
    <2> QED  BY <2>1 DEF TracesNamed, Trace
  <1>3. CASE DeleteTraced(c)
    <2>1. /\ c \in registered /\ registered' = registered \ {c}
          /\ \A e \in Clients : e # c => client'[e] = client[e]
          /\ fmt' = [fmt EXCEPT ![c] = 0]
          /\ UNCHANGED <<list, inside, pending>>
      BY <1>3 DEF DeleteTraced, DeleteClient, RegistryInv, ClientsType
    <2>2. c \notin inside
      BY <2>1
    <2>3. \A e \in Clients : e # c => Trace(e)' = Trace(e)
      BY <2>1 DEF Trace
    <2>4. Pointed' /\ LastPushed'
      BY <2>1, <2>2, <2>3 DEF RegistryInv, ClientsType
    <2>5. TracesNamed'
      BY <2>1 DEF TracesNamed
    <2> QED  BY <2>1, <2>4, <2>5
  <1> QED  BY <1>1, <1>2, <1>3

LEMMA TracesNext == RegistryInv /\ TracesInv /\ [ClientsNext]_clientsVars => TracesInv'
  <1> SUFFICES ASSUME RegistryInv, TracesInv, [ClientsNext]_clientsVars PROVE TracesInv'
    OBVIOUS
  <1>1. CASE UNCHANGED <<topics, client, registered, traceVars>>
    BY <1>1 DEF traceVars, TracesInv, Pointed, LastPushed, TracesNamed, Trace
  <1>2. CASE InfoNext /\ UNCHANGED traceVars
    <2>1. UNCHANGED <<topics, client, registered>>
      BY <1>2 DEF InfoNext, QueryBegin, QueryTopic, QueryEnd, InitInfo, ClearInfo
    <2> QED  BY <1>1, <1>2, <2>1
  <1>3. CASE UNCHANGED clientsVars
    BY <1>1, <1>3 DEF clientsVars, vars
  <1> QED
    BY <1>2, <1>3, TracesPush, TracesFront, TracesPost, TracesFormat, TracesClient
    DEF ClientsNext

\* The log finds the format of the client that posted a record, for any number
\* of clients being constructed and destroyed and any number of records.
THEOREM FormatsOutliveClients == ClientsSpec => []TracesNamed
  <1>1. ClientsSpec => []RegistryInv
    BY ClientsRunsDomain, RegistryInductive, PTL
  <1>2. ClientsSpec => []TracesInv
    BY <1>1, TracesInit, TracesNext, PTL DEF ClientsSpec
  <1>3. TracesInv => TracesNamed
    BY DEF TracesInv
  <1> QED  BY <1>2, <1>3, PTL

=============================================================================
