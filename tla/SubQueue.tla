------------------------------ MODULE SubQueue ------------------------------
(***************************************************************************)
(* vdds::sub_queue (sub-queue.hpp) around the ring of SpscQueue: the push  *)
(* and drop counters that push() keeps, and the reader that topic::query() *)
(* and dump() are, which takes size() and the counters from another thread *)
(* while pushes and pops go on.  The topic's lock keeps the queue from     *)
(* being deleted meanwhile.  The notifier is left to module                *)
(* SubscriberLoop.                                                         *)
(***************************************************************************)
EXTENDS SpscQueue

CONSTANT MaxPushes   \* bound on the number of pushes to one queue

ASSUME PushesAssumption == MaxPushes \in Nat

VARIABLES
  pushCount,   \* _push_count
  dropCount,   \* _drop_count
  dropping,    \* is push() between a refused emplace() and _drop_count++?
  popped,      \* history: number of elements taken by pop() or the destructor
  qpc,         \* where the reader is in query()
  readSeen,    \* the _read_idx it loaded
  info         \* the sub_info it fills in

statVars == <<pushCount, dropCount, dropping, popped>>
queryVars == <<qpc, readSeen, info>>
subQueueVars == <<ringVars, statVars, queryVars>>

-----------------------------------------------------------------------------
(* push, pop                                                               *)

\* The counter is raised before the attempt.
PushCall(v) ==
  /\ ~dropping /\ pushCount < MaxPushes
  /\ EmplaceCall(v)
  /\ pushCount' = pushCount + 1
  /\ UNCHANGED <<dropCount, dropping, popped, queryVars>>

\* Mutant: a refused push is not counted.
PushRingSilent ==
  /\ EmplaceStep
  /\ UNCHANGED <<statVars, queryVars>>

PushRing ==
  /\ EmplaceStep
  /\ dropping' = (ppc' = "idle" /\ ~accepted')
  /\ UNCHANGED <<pushCount, dropCount, popped, queryVars>>

PushDropped ==
  /\ dropping
  /\ dropCount' = dropCount + 1
  /\ dropping' = FALSE
  /\ UNCHANGED <<ringVars, pushCount, popped, queryVars>>

PopRing ==
  /\ FrontCall \/ PopStep
  /\ popped' = IF readIdx' # readIdx THEN popped + 1 ELSE popped
  /\ UNCHANGED <<pushCount, dropCount, dropping, queryVars>>

-----------------------------------------------------------------------------
(* query                                                                   *)

\* Mutant: not made non-negative.
WriteAvailableRaw(r, w) == r - w

\* The difference of two loads, made non-negative.
WriteAvailable(r, w) == IF r - w < 0 THEN r - w + SlotCount ELSE r - w

\* sub_queue::size(), from the capacity it was asked for.
Size(r, w) == Requested - WriteAvailable(r, w)

\* The entry of a result that had none; Domain has results that are reused.
Blank == [qsize |-> 0, push_count |-> 0, drop_count |-> 0]

QueryReadIdx ==
  /\ phase = "open" /\ qpc = "idle"
  /\ readSeen' = readIdx
  /\ info' = Blank
  /\ qpc' = "write"
  /\ UNCHANGED <<ringVars, statVars>>

QueryWriteIdx ==
  /\ qpc = "write"
  /\ info' = [info EXCEPT !.qsize = Size(readSeen, writeIdx)]
  /\ qpc' = "push"
  /\ UNCHANGED <<ringVars, statVars, readSeen>>

QueryPushCount ==
  /\ qpc = "push"
  /\ info' = [info EXCEPT !.push_count = pushCount]
  /\ qpc' = "drop"
  /\ UNCHANGED <<ringVars, statVars, readSeen>>

QueryDropCount ==
  /\ qpc = "drop"
  /\ info' = [info EXCEPT !.drop_count = dropCount]
  /\ qpc' = "idle"
  /\ UNCHANGED <<ringVars, statVars, readSeen>>

-----------------------------------------------------------------------------
(* unsubscribe, subscribe                                                  *)

\* The queue is deleted when its pushes and queries have returned.
Delete ==
  /\ qpc = "idle" /\ ~dropping
  /\ BeginDestroy
  /\ UNCHANGED <<statVars, queryVars>>

Create ==
  /\ Construct
  /\ pushCount' = 0 /\ dropCount' = 0 /\ dropping' = FALSE /\ popped' = 0
  /\ UNCHANGED queryVars

-----------------------------------------------------------------------------

SubQueueInit ==
  /\ RingInit
  /\ pushCount = 0 /\ dropCount = 0 /\ dropping = FALSE /\ popped = 0
  /\ qpc = "idle" /\ readSeen = 0
  /\ info = Blank

SubQueueNext ==
  \/ \E v \in Data : PushCall(v)
  \/ PushRing \/ PushDropped \/ PopRing
  \/ QueryReadIdx \/ QueryWriteIdx \/ QueryPushCount \/ QueryDropCount
  \/ Delete \/ Create

SubQueueSpec == SubQueueInit /\ [][SubQueueNext]_subQueueVars

\* A thread inside a call keeps running.  Nobody has to call.
SubQueueFairSpec ==
  SubQueueSpec /\ WF_subQueueVars(PushRing) /\ WF_subQueueVars(cpc # "idle" /\ PopRing)

-----------------------------------------------------------------------------
(* Properties.                                                             *)

StatsTypeOK ==
  /\ RingTypeOK
  /\ pushCount \in 0 .. MaxPushes /\ dropCount \in 0 .. MaxPushes
  /\ dropping \in BOOLEAN /\ popped \in 0 .. MaxPushes
  /\ qpc \in {"idle", "write", "push", "drop"} /\ readSeen \in Idx
  /\ info \in [qsize : Int, push_count : 0 .. MaxPushes, drop_count : 0 .. MaxPushes]

\* Every push is accounted for once: still being decided, dropped, queued or
\* popped.  The counters are raised by one thread before and after the ring
\* decides, the elements are taken by another.
Accounting ==
  LET undecided == IF ppc # "idle" \/ dropping THEN 1 ELSE 0
  IN  pushCount = undecided + dropCount + Dist(readIdx, writeIdx) + popped

\* A size taken from two loads at different times, with pushes and pops in
\* between, still is one the queue can have.
SizeInRange == info.qsize \in 0 .. Requested

\* query.hpp: qsize is the "number of queued elements", at least when nothing
\* moves between the two loads and no call is in progress.
SizeIsQueued ==
  [][ QueryWriteIdx /\ readSeen = readIdx /\ ppc = "idle" /\ cpc = "idle" =>
        info'.qsize = Dist(readIdx, writeIdx) ]_subQueueVars
=============================================================================
