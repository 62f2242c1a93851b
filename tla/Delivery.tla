------------------------------ MODULE Delivery ------------------------------
(***************************************************************************)
(* What a topic promises, without caches, counters of references or locks. *)
(* Every element gets a number of its own and is offered to a queue at     *)
(* most once, and at least once to everybody who was subscribed when the   *)
(* push began and has not begun to leave.  An offer either appends the     *)
(* element or, if the queue is full, drops it and counts that.  With       *)
(* SpuriousDrop it may do so earlier, as the producer's view may be old.   *)
(***************************************************************************)
EXTENDS Naturals, Sequences

CONSTANTS
  Pubs, Subs,   \* publishers and subscribers
  NoElement,    \* not an element
  Capacity,     \* what a queue holds
  SpuriousDrop  \* may an element be dropped although it would fit?

VARIABLES
  nextSeqno,    \* the number of the next element
  sending,      \* the element of each push
  pushing,      \* the pushes that have begun
  owed,         \* whom each must still reach
  reached,      \* whom it has reached
  existing,     \* the queues that exist
  subscribed,   \* the subscribers that can expect every push
  fifo,         \* the elements in each queue
  pushCount,    \* the number of offers to each queue
  dropCount,    \* and of those that it dropped
  taken         \* what each subscriber popped last

pushVars == <<nextSeqno, sending, pushing, owed, reached>>
queueVars == <<fifo, pushCount, dropCount, taken>>
vars == <<pushVars, existing, subscribed, queueVars>>

Init ==
  /\ nextSeqno = 0
  /\ sending = [p \in Pubs |-> NoElement] /\ pushing = {}
  /\ owed = [p \in Pubs |-> {}] /\ reached = [p \in Pubs |-> {}]
  /\ existing = {} /\ subscribed = {}
  /\ fifo = [s \in Subs |-> <<>>]
  /\ pushCount = [s \in Subs |-> 0] /\ dropCount = [s \in Subs |-> 0]
  /\ taken = [s \in Subs |-> NoElement]

Number(p) ==
  /\ sending[p] = NoElement
  /\ sending' = [sending EXCEPT ![p] = [from |-> p, seqno |-> nextSeqno]]
  /\ nextSeqno' = nextSeqno + 1
  /\ UNCHANGED <<pushing, owed, reached, existing, subscribed, queueVars>>

Begin(p) ==
  /\ sending[p] # NoElement /\ p \notin pushing
  /\ pushing' = pushing \cup {p}
  /\ owed' = [owed EXCEPT ![p] = subscribed]
  /\ UNCHANGED <<nextSeqno, sending, reached, existing, subscribed, queueVars>>

Offer(p, s) ==
  /\ p \in pushing
  /\ s \in existing \ reached[p]
  /\ reached' = [reached EXCEPT ![p] = @ \cup {s}]
  /\ owed' = [owed EXCEPT ![p] = @ \ {s}]
  /\ pushCount' = [pushCount EXCEPT ![s] = @ + 1]
  /\ \/ /\ Len(fifo[s]) < Capacity
        /\ fifo' = [fifo EXCEPT ![s] = Append(@, sending[p])]
        /\ UNCHANGED dropCount
     \/ /\ SpuriousDrop \/ Len(fifo[s]) = Capacity
        /\ dropCount' = [dropCount EXCEPT ![s] = @ + 1]
        /\ UNCHANGED fifo
  /\ UNCHANGED <<nextSeqno, sending, pushing, existing, subscribed, taken>>

End(p) ==
  /\ p \in pushing /\ owed[p] = {}
  /\ sending' = [sending EXCEPT ![p] = NoElement]
  /\ pushing' = pushing \ {p}
  /\ reached' = [reached EXCEPT ![p] = {}]
  /\ UNCHANGED <<nextSeqno, owed, existing, subscribed, queueVars>>

Pop(s) ==
  /\ s \in subscribed
  /\ fifo[s] # <<>>
  /\ taken' = [taken EXCEPT ![s] = Head(fifo[s])]
  /\ fifo' = [fifo EXCEPT ![s] = Tail(@)]
  /\ UNCHANGED <<pushVars, existing, subscribed, pushCount, dropCount>>

Create(s) ==
  /\ s \notin existing
  /\ existing' = existing \cup {s}
  /\ UNCHANGED <<pushVars, subscribed, queueVars>>

Subscribe(s) ==
  /\ s \in existing
  /\ subscribed' = subscribed \cup {s}
  /\ UNCHANGED <<pushVars, existing, queueVars>>

Unsubscribe(s) ==
  /\ s \in subscribed
  /\ subscribed' = subscribed \ {s}
  /\ owed' = [p \in Pubs |-> owed[p] \ {s}]
  /\ UNCHANGED <<nextSeqno, sending, pushing, reached, existing, queueVars>>

\* A push that has reached the queue, or may still do so, is over by then.
Delete(s) ==
  /\ s \in existing \ subscribed
  /\ \A p \in Pubs : s \notin reached[p]
  /\ existing' = existing \ {s}
  /\ fifo' = [fifo EXCEPT ![s] = <<>>]
  /\ pushCount' = [pushCount EXCEPT ![s] = 0]
  /\ dropCount' = [dropCount EXCEPT ![s] = 0]
  /\ taken' = [taken EXCEPT ![s] = NoElement]
  /\ UNCHANGED <<pushVars, subscribed>>

Next ==
  \/ \E p \in Pubs : Number(p) \/ Begin(p) \/ End(p) \/ \E s \in Subs : Offer(p, s)
  \/ \E s \in Subs :
       Pop(s) \/ Create(s) \/ Subscribe(s) \/ Unsubscribe(s) \/ Delete(s)

Spec == Init /\ [][Next]_vars
=============================================================================
