---------------------------- MODULE BoundedFifo ----------------------------
(***************************************************************************)
(* What a subscriber queue promises, without the ring: one producer and    *)
(* one consumer share a first-in first-out buffer of at most Capacity      *)
(* elements.  A push is answered at once, and refused only when the buffer *)
(* is full; a pop is answered at once, and fails only when it is empty.    *)
(* Nothing accepted is lost, duplicated or reordered until the queue is    *)
(* deleted, which discards what is left.                                   *)
(*                                                                         *)
(* SpuriousFail weakens the two "only when": a buffer whose sides may see  *)
(* old positions of each other may also refuse a push that would fit, or   *)
(* miss an element that is there.                                          *)
(***************************************************************************)
EXTENDS Naturals, Sequences

CONSTANTS
  Data,          \* values pushed through the queue
  NoData,        \* not a value
  Capacity,      \* number of elements the buffer holds
  SpuriousFail   \* may an operation fail although it could succeed?

VARIABLES
  buf,       \* elements accepted and not yet taken, oldest first
  offer,     \* the argument of the push in progress, or NoData
  accepted,  \* answer of the last push
  asking,    \* is a pop in progress?
  got,       \* answer of the last pop: an element, or NoData for "empty"
  open       \* FALSE before the first queue, and from the start of the
             \* destructor to the next one

vars == <<buf, offer, accepted, asking, got, open>>

Init ==
  /\ buf = <<>>
  /\ offer = NoData
  /\ accepted = FALSE
  /\ asking = FALSE
  /\ got = NoData
  /\ open \in BOOLEAN

Offer(v) ==
  /\ open /\ offer = NoData
  /\ offer' = v
  /\ UNCHANGED <<buf, accepted, asking, got, open>>

Accept ==
  /\ offer # NoData
  /\ Len(buf) < Capacity
  /\ buf' = Append(buf, offer)
  /\ offer' = NoData
  /\ accepted' = TRUE
  /\ UNCHANGED <<asking, got, open>>

Refuse ==
  /\ offer # NoData
  /\ SpuriousFail \/ Len(buf) = Capacity
  /\ offer' = NoData
  /\ accepted' = FALSE
  /\ UNCHANGED <<buf, asking, got, open>>

Ask ==
  /\ open /\ ~asking
  /\ asking' = TRUE
  /\ UNCHANGED <<buf, offer, accepted, got, open>>

Take ==
  /\ asking /\ buf # <<>>
  /\ got' = Head(buf)
  /\ buf' = Tail(buf)
  /\ asking' = FALSE
  /\ UNCHANGED <<offer, accepted, open>>

Miss ==
  /\ asking
  /\ SpuriousFail \/ buf = <<>>
  /\ got' = NoData
  /\ asking' = FALSE
  /\ UNCHANGED <<buf, offer, accepted, open>>

Close ==
  /\ open /\ offer = NoData /\ ~asking
  /\ open' = FALSE
  /\ buf' = <<>>
  /\ UNCHANGED <<offer, accepted, asking, got>>

Reopen ==
  /\ ~open
  /\ open' = TRUE
  /\ accepted' = FALSE
  /\ got' = NoData
  /\ UNCHANGED <<buf, offer, asking>>

Next ==
  \/ \E v \in Data : Offer(v)
  \/ Accept \/ Refuse
  \/ Ask \/ Take \/ Miss
  \/ Close \/ Reopen

Spec == Init /\ [][Next]_vars
=============================================================================
