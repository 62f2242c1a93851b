------------------------------- MODULE Domain -------------------------------
(***************************************************************************)
(* vdds::domain (domain.hpp, domain.cc): the list of topics, the clients   *)
(* registered with them, and query(), which fills in a domain_info that    *)
(* its caller keeps and reuses and that utils::to_dot() draws.             *)
(*                                                                         *)
(* create_topic() holds _mutex exclusively, query() shared from its first  *)
(* topic to its last; each topic is read under the topic's own lock, which *)
(* a registration takes exclusively.  So a query sees one moment of each   *)
(* topic but not of the domain: clients come and go between two topics.    *)
(***************************************************************************)
EXTENDS Naturals, Sequences, SequencesExt

CONSTANTS
  Pubs, Subs, \* pub<T> and sub<T> objects
  Names,      \* topic names
  Types,      \* data types
  Wildcard,   \* the filter string "any", which may also name a topic or type
  Blank,      \* a topic_info that query::init() or resize() made
  MaxTopics   \* the ntopics argument of query::init()

Clients == Pubs \cup Subs

ASSUME DomainAssumption ==
  /\ Pubs \cap Subs = {} /\ MaxTopics \in Nat
  /\ Blank \notin [name : Names, type : Types, pubs : SUBSET Pubs, subs : SUBSET Subs]

VARIABLES
  topics,      \* _topics
  client,      \* what each client was constructed for, and its _topic
  registered,  \* the clients listed by their topic
  di,          \* the topics of the caller's domain_info
  query,       \* the query in progress: its filter and its two indices
  ever,        \* history: memberships there were at some time in the query
  always       \* history: and those there were all the time

history == <<ever, always>>
vars == <<topics, client, registered, di, query, history>>

NoClient == <<>>
NoQuery == <<>>

Topic == [name : Names, type : Types]
TopicInfo == [name : Names, type : Types, pubs : SUBSET Pubs, subs : SUBSET Subs]
Filter == [name : Names \cup {Wildcard}, type : Types \cup {Wildcard}]

-----------------------------------------------------------------------------
(* Clients.                                                                *)

\* Where the topic of that name is in the list, 0 if nowhere.
Position(n) == SelectInSeq(topics, LAMBDA t : t.name = n)

\* Mutant: the data type is not compared.
CreateTopicAnyType(c, n, d) ==
  /\ client[c] = NoClient /\ query = NoQuery
  /\ topics' = IF Position(n) # 0 THEN topics
               ELSE Append(topics, [name |-> n, type |-> d])
  /\ client' = [client EXCEPT ![c] =
       [name |-> n, type |-> d, topic |-> IF Position(n) # 0 THEN Position(n)
                                          ELSE Len(topics')]]
  /\ UNCHANGED <<registered, di, query, history>>

\* The constructor of a client begins.  A topic that has the name is used if
\* its data type matches (otherwise the constructor throws and nothing has
\* changed); without one it is created.
CreateTopic(c, n, d) ==
  /\ client[c] = NoClient /\ query = NoQuery
  /\ \/ /\ Position(n) # 0
        /\ topics[Position(n)].type = d
        /\ client' = [client EXCEPT ![c] = [name |-> n, type |-> d, topic |-> Position(n)]]
        /\ UNCHANGED topics
     \/ /\ Position(n) = 0
        /\ topics' = Append(topics, [name |-> n, type |-> d])
        /\ client' = [client EXCEPT ![c] = [name |-> n, type |-> d, topic |-> Len(topics')]]
  /\ UNCHANGED <<registered, di, query, history>>

\* It ends with publish() or subscribe().
Register(c) ==
  /\ client[c] # NoClient /\ c \notin registered
  /\ registered' = registered \cup {c}
  /\ ever' = IF query = NoQuery THEN ever ELSE ever \cup {<<c, client[c].topic>>}
  /\ UNCHANGED <<topics, client, di, query, always>>

\* Mutant: the topic goes with its client.
DeleteClientAndTopic(c) ==
  /\ c \in registered
  /\ registered' = registered \ {c}
  /\ topics' = RemoveAt(topics, client[c].topic)
  /\ client' = [client EXCEPT ![c] = NoClient]
  /\ always' = always \ {<<c, client[c].topic>>}
  /\ UNCHANGED <<di, query, ever>>

\* The destructor.  The topic stays.
DeleteClient(c) ==
  /\ c \in registered
  /\ registered' = registered \ {c}
  /\ client' = [client EXCEPT ![c] = NoClient]
  /\ always' = always \ {<<c, client[c].topic>>}
  /\ UNCHANGED <<topics, di, query, ever>>

-----------------------------------------------------------------------------
(* Queries.                                                                *)

FilterMatch(f, t) ==
  /\ f.name = Wildcard \/ f.name = t.name
  /\ f.type = Wildcard \/ f.type = t.type

FilterAny(f) == f.name = Wildcard /\ f.type = Wildcard

Members == {<<c, client[c].topic>> : c \in registered}

\* std::vector::resize
Resize(s, n) == [i \in 1 .. n |-> IF i <= Len(s) THEN s[i] ELSE Blank]

QueryBegin(f) ==
  /\ query = NoQuery
  /\ query' = [flt |-> f, next |-> 1, count |-> 0]
  /\ di' = IF FilterAny(f) THEN Resize(di, Len(topics)) ELSE di
  /\ ever' = Members /\ always' = Members
  /\ UNCHANGED <<topics, client, registered>>

\* Mutant: the vectors are not shortened, so that the members an earlier
\* query found stay.
MembersOfStale(i, old) ==
  [name |-> topics[i].name, type |-> topics[i].type,
   pubs |-> {p \in Pubs : <<p, i>> \in Members} \cup IF old = Blank THEN {} ELSE old.pubs,
   subs |-> {s \in Subs : <<s, i>> \in Members} \cup IF old = Blank THEN {} ELSE old.subs]

\* topic::query(), which overwrites the topic_info it is given.
MembersOf(i, old) ==
  [name |-> topics[i].name, type |-> topics[i].type,
   pubs |-> {p \in Pubs : <<p, i>> \in Members},
   subs |-> {s \in Subs : <<s, i>> \in Members}]

\* The loop: with a filter, resize() to one more for every match.
QueryTopic ==
  /\ query # NoQuery /\ query.next <= Len(topics)
  /\ LET k == query.count + 1
         room == IF FilterAny(query.flt) THEN di ELSE Resize(di, k)
     IN  \/ /\ FilterMatch(query.flt, topics[query.next])
            /\ di' = [room EXCEPT ![k] = MembersOf(query.next, @)]
            /\ query' = [query EXCEPT !.next = @ + 1, !.count = k]
         \/ /\ ~FilterMatch(query.flt, topics[query.next])
            /\ query' = [query EXCEPT !.next = @ + 1]
            /\ UNCHANGED di
  /\ UNCHANGED <<topics, client, registered, history>>

QueryEnd ==
  /\ query # NoQuery /\ query.next > Len(topics)
  /\ query' = NoQuery
  /\ ever' = {} /\ always' = {}
  /\ UNCHANGED <<topics, client, registered, di>>

\* query::init() on a domain_info that is new or cleared, and query::clear().
InitInfo(n) ==
  /\ query = NoQuery /\ di = <<>>
  /\ di' = Resize(di, n)
  /\ UNCHANGED <<topics, client, registered, query, history>>

ClearInfo ==
  /\ query = NoQuery
  /\ di' = <<>>
  /\ UNCHANGED <<topics, client, registered, query, history>>

\* What to_dot() makes of the result: an edge from each publisher to its
\* topic, and from the topic to each subscriber.
Arrows(d) ==
  UNION {{<<p, d[i].name>> : p \in d[i].pubs} \cup {<<d[i].name, s>> : s \in d[i].subs} :
           i \in DOMAIN d}

-----------------------------------------------------------------------------

Init ==
  /\ topics = <<>> /\ client = [c \in Clients |-> NoClient]
  /\ registered = {}
  /\ di = <<>> /\ query = NoQuery
  /\ ever = {} /\ always = {}

InfoNext ==
  \/ \E f \in Filter : QueryBegin(f)
  \/ QueryTopic \/ QueryEnd
  \/ \E n \in 0 .. MaxTopics : InitInfo(n)
  \/ ClearInfo

Next ==
  \/ \E c \in Clients, n \in Names, d \in Types : CreateTopic(c, n, d)
  \/ \E c \in Clients : Register(c) \/ DeleteClient(c)
  \/ InfoNext

Spec == Init /\ [][Next]_vars

-----------------------------------------------------------------------------
(* Properties.                                                             *)

TypeOK ==
  /\ topics \in Seq(Topic)
  /\ client \in [Clients -> [name : Names, type : Types, topic : DOMAIN topics]
                              \cup {NoClient}]
  /\ registered \subseteq Clients
  /\ di \in Seq(TopicInfo \cup {Blank})
  /\ query \in [flt : Filter, next : Nat, count : Nat] \cup {NoQuery}
  /\ ever \subseteq Clients \X DOMAIN topics /\ always \subseteq ever

\* Two clients meet in one topic exactly when they name the same one, and
\* then they agree on the data type, which is what makes the cast of a
\* struct data to T in sub<T>::pop() right, whatever was created before and
\* whoever has gone meanwhile.
ClientsAgree ==
  \A c1, c2 \in Clients :
    client[c1] # NoClient /\ client[c2] # NoClient =>
      /\ client[c1].topic = client[c2].topic <=> client[c1].name = client[c2].name
      /\ client[c1].topic = client[c2].topic => client[c1].type = client[c2].type

Arrow(m) == IF m[1] \in Pubs THEN <<m[1], topics[m[2]].name>> ELSE <<topics[m[2]].name, m[1]>>

\* utils.hpp: to_dot() generates the graph of the domain.  Although topics
\* are read one after the other while clients come and go, and into a result
\* that may hold an earlier query's, the graph shows each client of a topic
\* that matches if it was registered all the time, and none that never was.
GraphShowsMembers ==
  [][ QueryEnd /\ query.count # 0 =>
        /\ {Arrow(m) : m \in {x \in always : FilterMatch(query.flt, topics[x[2]])}}
             \subseteq Arrows(di)
        /\ Arrows(di) \subseteq {Arrow(m) : m \in ever} ]_vars

\* domain.hpp: query() outputs the domain's info.  It reports the topics that
\* match the filter, and nothing else.
QueryReports ==
  [][ QueryEnd =>
        {i \in DOMAIN di : di[i] = Blank} = {}
        /\ {di[i].name : i \in DOMAIN di}
             = {topics[i].name : i \in {j \in DOMAIN topics : FilterMatch(query.flt, topics[j])}} ]_vars
=============================================================================
