# TLA+ verification of vdds

vdds is an in-process publish/subscribe library: publishers push fixed-size
elements into a topic, each subscriber has a lock-free queue per topic, and a
notifier wakes the subscriber's thread.  The library starts no thread of its
own; everything runs on its callers' threads.  This directory models its
concurrent core in TLA+, model-checks it with TLC on small instances, and
proves the main safety properties with TLAPS for every instance.

## The system

| Part | State | Operations | Modules |
|---|---|---|---|
| `spsc_queue` (`include/vdds/detail/spsc-queue.hpp`) | two atomic indices, a cached copy of each on the other side, the slots | `emplace`/`push`, `front`, `pop`, `size`, `write_available`, destructor | `SpscQueue`, `BoundedFifo`, `SpscQueueProofs`; in a topic, `TopicRing` |
| `sub_queue` (`include/vdds/sub-queue.hpp`) | the ring, push and drop counters, a mutex, a notifier pointer | `push`, `pop`, `kick`, `shutdown`, `size` | `SubQueue`, `SubQueueProofs`; its lock and its wait for the notifier in `TopicCache`, its notification in `SubscriberLoop` |
| `topic` (`include/vdds/topic.hpp`, `src/topic.cc`) | the current cache of queues and handles, its reference counter, a shared mutex, the next seqno | `subscribe`, `unsubscribe`, `publish`, `unpublish`, `push`, `pop`, `kick`, `shutdown`, `query`, `dump` | `TopicCache`, `TopicCacheWeak`, `TopicCacheProofs`, `Topic`, `TopicProofs`, `Delivery`, `TopicRing`, `TopicRingProofs` |
| `notifier_cv` (`include/vdds/notifier.hpp`) | a counter, a forced timeout, mutex and condition variable | `wait_for`, `notify`, `shutdown` | `NotifierCv`, `AutoResetEvent`, `SubscriberLoopProofs`; its mutex, against pushes, in `TopicCache` |
| subscriber's thread (its loop in `tests/shutdown-test.cc`) | `_killed` | pop until empty, wait, test | `SubscriberLoop`, `SubscriberLoopProofs`, `MCSubscriberLoop` |
| `domain` (`include/vdds/domain.hpp`, `src/domain.cc`), `query` (`src/query.cc`) | the list of topics; the caller's `domain_info` | `create_topic`, `kick`, `shutdown`, `dump`, `query`, `init`, `clear` | `Domain`, `ClientsProofs`; kick and shutdown in `SubscriberLoop` |
| `pub<T>`, `sub<T>`, `pub_handle` | topic and handle or queue; a trace format | constructor, destructor, `push`, `pop`, `flush` | `Clients`, `MCClients`, `TopicCache`, `Topic`; the pop loop in `SubscriberLoop` |
| `data` (`include/vdds/data.hpp`) | seqno, shared payload | copy, destruction | `Topic`, `SharedData`, `SharedDataProofs`, `MCSharedData` |
| `strcache` (`src/strcache.cc`), logging | a list of strings; records not yet formatted | `push`; post and format | `Clients`, `ClientsProofs` |
| `utils` (`src/utils.cc`) | none | `to_dot` | `Arrows` in `Domain` |
| `notifier_polling` | none | a sleep | not modelled |

How they interact: `pub::push` calls `topic::push`, which takes a reference on
the topic's cache and calls `sub_queue::push` for every queue in it, with the
queue's mutex if the cache lists more than one publisher; `sub_queue::push`
pushes into the ring and calls the notifier, which takes a mutex of its own if it
is a `notifier_cv`.  Registration copies the cache,
exchanges the pointer, and spins until no reader holds a reference before it
deletes the old cache and, when leaving, the queue or handle.  `domain` holds a
list of topics under a shared mutex and forwards kick, shutdown and query.  The
constructors of handle and queue put the format their pushes or pops are logged
with into a string cache that all domains share.

What is hard to test, and where the properties look: the lock-free ring with
cached indices and acquire/release ordering; a registration against readers
without a lock; the decision to lock, taken from a cache that may be old;
wakeups that come between a subscriber's last pop and its wait; a shutdown that
comes during a wait; a push that waits for somebody it should not depend on;
deletion of the queue with elements in it; counters and
sizes read without a lock; a query that reads topics one after the other; log
records that outlive their clients; payloads shared by several queues.
`PROJECT.json` lists each hazard at its line.

## Modules

**SpscQueue** is the ring.  Each atomic load or store of the *other* side's
index and each access to a slot is a step; a thread's computation on its own
variables belongs to the step before.  The producer is at `ppc`: `EmplaceCall`
(lines 105-115), `EmplaceLoad` (the acquire load and the second test),
`EmplaceConstruct` (placement new), `EmplaceStore` (the release store).  The
consumer is at `cpc`: `FrontCall`, `FrontLoad`, `PopCopy`, `PopDestroy`,
`PopAdvance`.  The destructor is the same consumer with `phase = "closing"`,
and `Construct` (`NewRing`) is the next queue; `RingInit` is a queue just
constructed or none yet.  Each index has one writer, so with release
stores and acquire loads the only freedom the C++ memory model leaves is that a
load returns an older index, not older than the last one: `Loadable`, switched
by the constant `StaleLoads`.  `_slots`' padding, the allocator and the
overflow clamp are left out.

**BoundedFifo** is what the ring promises: a first-in first-out buffer with at
most `Capacity` elements, calls that take effect at one point, refusals only
when full and misses only when empty (unless `SpuriousFail`).  `SpscQueue`'s
`Fifo == INSTANCE BoundedFifo WITH ...` is the refinement mapping; a push takes
effect when the write index is stored, a pop when the read index is.  The
element being popped is taken from `val` once its slot is destroyed.

**SubQueue** extends the ring by what `sub_queue::push` does around it
(`_push_count++`, the ring, `_drop_count++`), by the reader that `topic::query`
is (two loads for `size()`, then the counters, each a step), and by the queue's
life: `Delete` is the queue's end in `unsubscribe`, which the topic's lock keeps
from a reader, and `Create` the constructor, which resets the counters.

**TopicCache** is a topic with any number of publishers, subscribers and
services (threads that kick, shut down, query or dump).  A member stands for
its `pub<T>` or `sub<T>` object, the thread that uses it, and the handle or
queue it owns.  `Join`, `Leave`, `Lock`, `CacheCopy`, `CacheSwap`, `Drained`,
`FreeOld`, `Finish` are the steps of the four registration methods; `CacheGet`,
`CacheLoad`, `Visit`, `QueueLock`, `FifoPush`, `QueueUnlock`, `NotifyLock`,
`NotifyUnlock`, `CachePut` those of push, kick and shutdown; `QueryLock`, `QueryVisit`,
`QueryUnlock` those of query and dump, with `_mutex` shared.  Caches are
addresses from `CacheCells`, which `operator new` may return again; the history
variable `due` remembers whom a push must still reach.  Elements and the ring
are left out: `FifoPush` stands for the ring's steps, and TopicRing puts them
there.  Of the notifiers only the mutex is here, because push, kick and shutdown
wait for it (`notifier.hpp:112`, `123`): `nmutex` is the holder of each
subscriber's, and `Waking` the set of subscribers that have a `notifier_cv`; the
others poll or have no notifier, and `notify()` is empty.  `WaitLock` and
`WaitUnlock` are the subscriber's `wait_for()` (103-106), at any time and as often
as it likes; they also stand for callers that come through a queue of another
topic.  What the notifier does with the mutex held is in NotifierCv.  The order in which a cache lists its queues is left open,
so all orders are covered.

**TopicCacheWeak** adds the executions that the memory order of `cache_get()`
allows and x86 does not show: the load takes effect before the increment.

**Topic** extends TopicCache by the elements: the number drawn from
`_next_seqno` before the cache is looked at, the contents and counters of the
queues, `topic::pop`, and the flush when a queue is deleted.  A
`sub_queue::push` or a pop is one step here, which TopicRing justifies; between
its two counters see SubQueue.  `SpuriousDrop` lets a push be refused although
there is room, as a ring with stale loads may.
**Delivery** is what a topic promises without caches, reference counts and
locks: every push is offered at most once to a queue, and exactly once to
everybody who was subscribed when it began and has not begun to leave.
`Promise == INSTANCE Delivery WITH ...` in Topic is the refinement mapping; a
push has reached the queues of its snapshot that it has left behind.

**TopicRing** is Topic and SpscQueue together: the queue of one subscriber,
`Watched`, is the ring.  Every publisher that comes to it runs `emplace()` with a
position (`emplacing`) and a write index (`wIdx`) of its own, so nothing in the
module keeps two of them apart, or out of a ring that is being deleted: only the
topic's lock, caches and reference counter can.  `RingCall`, `RingLoad`,
`RingConstruct`, `RingStore` are a push, `RingPop` and `RingPopEnd` a pop,
`RingJoin`, `RingDelete`, `RingDrain` the queue's life in `subscribe` and
`unsubscribe`, and `Elsewhere` the steps of Topic that leave the ring alone.  It
implements both modules it is made of: `ImplementsRing` says that every step is
one `SpscQueue` allows, with its one producer and its idle ring at the
destructor, and `ImplementsTopic` that a push or pop on the ring is one step of
Topic.  Of `SpscQueue`'s variables, `ppc` and `arg` only record what the
publisher that moved last did; of Topic's, `fifo[Watched]` records what was
accepted and not yet popped.  `SlotLifetime` and the rest of the ring then hold in a topic, and
`OwnOrder` and the rest of the topic hold of code that is interrupted between any
two of its loads and stores.

**NotifierCv** is `notifier_cv`.  The mutex guards nothing else and is held
only to access `_count` and `_ft`, so each locked section is one step (who may be
held up by it is a question to TopicCache); the
`notify_one()` after the unlock is another.  `Expire` is time, `SpuriousWakeup`
the wakeups that a condition variable may have.  **AutoResetEvent** is what it
promises.  **SubscriberLoop** puts subscribers' threads on top, with the loop of
the tests, callers that push, kick or shut down, and queues that are counts of
elements.

**SharedData** extends Topic by the `shared_ptr` an element may carry: `Fill` is
the publisher that takes a payload from a pool (the pool of
`tests/shared-test.cc`), `SharedPushOne` the copy made in a queue's slot,
`SharedPop` the assignment over whatever the subscriber held, `Release` the end
of its struct, `SharedFinishFlush` the drain of a deleted queue.  `uses` is each
payload's use count, changed as the code changes it; `PayloadReturned` relates it
to the references that exist.  `MCSharedData` adds the symmetry of its run.

**Domain** is the topic list, the clients, and the `domain_info` a caller reuses.
`create_topic` holds the domain's mutex exclusively and is one step.
`domain::query` holds it shared, so that clients of topics that exist register
and leave meanwhile: `QueryBegin`, one `QueryTopic` for each topic (which holds
that topic's own lock) and `QueryEnd`.  `ever` and `always` are history: the
memberships there were at some time, and all the time, since the query began.
`Arrows` is what `to_dot` draws.

**Clients** extends Domain by the trace formats: `CachePush` and `CacheFront` are
the two halves of `strcache::push`, `Post` a push or pop that hands its format to
the log, `Format` the log's own thread.  A string stands for the client and the
topic it names.  `MCClients` adds the symmetry of its run.

The operators introduced by a comment `Mutant:` are plausible bugs in the
definition that follows; each shows that one property would catch it.

## Runs

| Run | Question | Bounds |
|---|---|---|
| `queue` | `SlotRaceFree`, `SlotLifetime`, `NoLeak`; `ImplementsFifo` (with spurious failures); `Accounting`, `SizeInRange`; both sides return | 2 elements (3 slots), 2 values, 4 pushes to a queue, stale loads, delete and re-create |
| `size` | `SizeIsQueued` **fails** | 2 elements, 3 pushes |
| `cache` | `SnapshotAlive`, `ObjectsAlive`, `OneProducer`, `OneCache`, `NobodyMissed`; `PushReturns`, `SwapEndsWhenQuiet` | 2 publishers, 1 subscriber with a `notifier_cv`, 1 service, 2 addresses |
| `topic` | `ImplementsDelivery`, `OwnOrder`, `SeqnoOrder`, `PayloadReturned` | 2 publishers, 1 subscriber with a `notifier_cv`, 2 pushes, queues of 1, 2 payloads, symmetry |
| `topic_ring` | `ImplementsRing`, `ImplementsTopic` | 2 publishers, 1 subscriber that polls, 2 pushes, a ring of 1, exact loads |
| `cache_spin` | `SwapReleases` **fails** | 2 publishers, 1 subscriber that polls |
| `cache_weak` | `NewPushesUseNewCache` **fails** | 1 publisher, 1 subscriber that polls |
| `notifier` | `ImplementsEvent` | 2 waiters, 2 callers, nobody calls at a count of 2 |
| `loop` | `NoLostWakeup`, `ForcedWakesSleeper`, `DrainsWhenQuiet`, `StopsWhenQuiet` | 1 thread, 2 queues of 1, 2 callers |
| `loop_zero` | `StopsWhenQuiet` **fails** for `shutdown(0)` | 1 thread, 1 queue, 1 caller |
| `domain` | `ClientsAgree`, `GraphShowsMembers`, `TracesNamed` | a publisher, a subscriber, 2 names, 2 types, 3 strings, 1 record, symmetry |
| `domain_query` | `QueryReports` **fails** | the same |

Why these bounds: the ring wraps at 3 slots and every relative position of
the four indices occurs, since `MaxPushes` passes its end; `SpscQueue` never looks at a value.  Two addresses are
all the topic ever needs at once (`OneCache`), and the second one is reused in
every other registration.  Two publishers are the smallest number that changes
`need_lock`; registrations overlap although there is one subscriber, because
publishers register too; and the proofs cover any number.  In `topic` two
pushes fill a queue of one element and overflow it, and two payloads let one be
popped over the other; several subscribers are left to the proofs.  In `domain` a
third string lets a client be destroyed and constructed again while the log has
a record of the first to format.  `MaxAhead = 2` lets notifications
merge; the counter is only compared with zero.  A queue of one element is full
after one push.  In `topic_ring` a ring of 2 slots
wraps with the second element, the second push meets it full, empty or being
drained, and both publishers come to it while a registration replaces the cache;
loads are exact there so that a refusal must mean a full queue (`queue` has the
stale ones, and the proofs have both).
`SubscriberLoop` is checked without deadlock detection because it may really
stop: once all subscribers are told to stop and have, nobody clears the count
and the callers reach `MaxAhead`.

Fairness.  `SubQueue`: a thread inside a call keeps running; nobody has to
call.  `TopicCache`: `PushFairSpec` lets only publishers run for certain, and
weakly, so that a mutex others keep taking need not be won.  `PushReturns` then
says whom a push depends on: it returns, or it meets somebody inside the
notifier's mutex or, with several publishers, inside the queue's, as the
subscriber, a kick or another publisher may be for ever; a registration, a query,
or a kick anywhere else never holds it up.  `OthersRun` is assumed only in
`SwapEndsWhenQuiet` and `cache_spin`: every thread inside a call runs, leaves the
notifier's mutex, and wins a mutex that is free again and again (strong fairness;
`std::mutex` does not promise it, but without it a push could lose to the
subscriber's waits for ever and keep its reference).
`cache_spin` even grants the spin that it does not miss a zero that keeps coming
back (strong fairness on `Drained`), and `SwapReleases` still fails: the counter
never is zero.  `NotifierCv` and `SubscriberLoop`: threads run, and the time of
a wait passes only if `shutdown()` set it, since the subscriber's own timeout
may be arbitrarily long (100 s in the test).

### What the failing runs say

* `size`: `write_available()` (`spsc-queue.hpp:189`) counts the slack slot
  modulo the slot count.  `sub_queue::size()` is the capacity for an empty queue
  and one less than the truth otherwise; `query.hpp:52` promises the "number of
  queued elements".
* `cache_weak`: `cache_get()` (`topic.hpp:76`) may load the pointer before the
  increment is visible, and `cache_swap()` then deletes the cache under it.
  `topic.cc:74-75` relies on the opposite.  A sequentially consistent (or, on
  both sides, fenced) increment restores `SnapshotAlive`, which is what
  `TopicCache` shows.
* `cache_spin`: the counter is shared by readers of the old and of the new
  cache.  Two publishers whose pushes overlap for ever keep `cache_swap()` in
  its loop, with the lock held.
* `loop_zero`: `_ft.count() ? _ft : t` (`notifier.hpp:104`) takes a forced
  timeout of zero for none.
* `domain_query`: a filter that matches nothing leaves `di.topics` as it was
  (`domain.cc:143`).

Two more observations have no run.  `sub-queue.hpp:99` calls push "lockfree and
nonblocking for single-publisher case".  That holds of the ring and, if nobody
has a `notifier_cv`, of the whole push; with one, `notify()` takes the notifier's
mutex even for a single publisher, and a subscriber, kick or shutdown that is
stopped while it holds it (`notifier.hpp:103`, `112`, `123`) stops the push.  That
is why `PushReturns` has `MeetsHolder` in it: without its second line the `cache`
run refutes it.

And if two threads wait on one notifier, each for
queues of its own, `NoLostWakeup` fails, because `notify_one()` may wake the
other thread and any return clears `_count`.  `notifier.hpp:43` lets "multiple
subscriber queues" share a notifier and does not mention threads; the models
take one thread per notifier, as all tests do.

## Proofs

All proofs hold for every value of the constants under the modules' named
assumptions.

**SpscQueueProofs**: `RingTypeCorrect`, `NoSlotRace`, `SlotsWellUsed`,
`NothingLeaks`, for every capacity and with stale loads.  None of the
properties is inductive; `RingInv` adds where the four indices stand on the ring:
the producer's copy of the read index lies behind the read index, the
consumer's copy of the write index behind the write index, and a slot holds an
element exactly if it lies between the read and the write index, with an
exception for the one a side is working on.  From that, a failed full test on a
stale copy still implies a free slot.

`Refinement`, that the ring implements `BoundedFifo`, has one lemma per action:
the step it makes on the buffer, or that it makes none.  `RingInv` gives what the mapping needs: the elements in the slots between
the indices are a sequence as long as their distance, `EmplaceStore` appends to
it, and `PopAdvance` takes its head off.

**TopicCacheProofs**: `TypeCorrect`, `NoUseAfterRelease`, `NoUseAfterDelete`,
`SingleProducer`, `NoCacheLeak`, `PushMissesNobody`, for any finite sets of
threads.  `IInv` is a conjunction of named parts: `Roles` (who is where in a
call, and the exclusion of `_mutex`), `RefCounted` (the counter is the number
of threads between get and put), `Heap` (which caches exist at each step of a
registration), `Listed` (the current cache lists exactly the registered
members), `Walking` (what a reader has in hand is allocated and alive),
`Locking` (the key to `SingleProducer`), `Owed` (the key to
`PushMissesNobody`).  Everything about deletion follows from one step: when
`Drained` sees a zero, `RefCounted` says that no thread holds a snapshot, so
none holds the old one.  `SingleProducer` needs more: a push without the
lock went through a cache that lists its publisher alone; a second publisher
pushes only after its own registration, which waited for that push to end.

**TopicProofs** builds on TopicCacheProofs: `TopicRunsCache` says that a topic
with its elements behaves like one without, so that the theorems above hold of
it.  `KeepsPromise` is the refinement of `Delivery`, again one lemma per action.
Beyond `IInv` it needs `Sending` (a push comes to no queue twice), and that a
queue which `Finish` deletes is in no snapshot.  `PublisherOrder` and
`NumbersInOrder` follow from `OrderInv`: `Numbers` (what a queue holds of a
publisher whose push has not reached it is older than that push), `Overlapping`
(a push in progress overlaps every push with a later number), and `Sorted`
(the queue keeps the order in which elements were offered).
`TopicTypeCorrect` says that no queue holds more than its capacity.

**TopicRingProofs** joins the two: for any number of publishers and subscribers,
any capacity, with or without stale loads.  `TopicRingInv` is Topic's invariant,
the ring's, and three parts between them: `Inside` (at most one publisher is in
`emplace()`, where the ring's producer is and with its write index), `Life` (when
the ring exists, and who may pop from it) and `Holds` (the slots between the
indices are the topic's contents of the queue).  `Inside` is not a fact about the
ring at all: when a publisher comes to the queue, `ProducersApart` of
TopicCacheProofs says that no other is there, so the ring's producer is idle;
and when the destructor starts, no cache lists the queue, so nobody is there
either (`NobodyInside`).  From that follow `UsesRing`, one lemma per action, and
with it the ring's theorems in a topic (`RingSafeInTopic`); and `OneStepQueues`,
for which `Holds` needs the lemmas of `Refinement` (a store appends, an advance
takes the head, a refusal means a full ring unless loads are stale).  With
`OneStepQueues` the theorems of TopicProofs hold of the topic down to its loads
and stores (`TopicSafeOnRing`), and `RingHoldsTheElements` says where the
elements are.

**SubscriberLoopProofs** is about NotifierCv and the loop that runs it.
`EventSafety` is the safety half of `ImplementsEvent`, with no bound on waiters
or callers; it needs that `_count` does not wrap to zero, which is inductive once
the calls that have not taken the mutex yet are counted too (`NoWrap`).
`ForcedReaches` needs `Woken` and one waiter (`OneWaiter`): it sleeps on a raised
count only while a `notify_one()` is on its way.  `LoopRunsNotifier` carries both
over to the loop (`LoopKeepsEvent`, `ShutdownReaches`), whose types are
`TypeCorrect`.  `NeverOversleeps`, for one waiter and any number of queues and
callers, joins `Woken` to `Noticed`: an element in a queue that the thread has
left behind has raised the count, or its push is about to.

**SubQueueProofs** reuses the ring's invariant, and its FIFO (`SubQueueIsFifo`),
through `SubQueueRunsRing`.  `PushesAccounted` adds to it where a push stands
between its two counters.
`SizeStaysInRange` is about two loads at different times.  All it uses is that
both indices lie on the ring: their difference modulo the slot count is at most
the capacity asked for, whenever they were read.  It assumes that at least
one element was asked for; with a capacity of 0 the ring has one element and
`size()` wraps below zero.  `SizeAtRest` is the other side of the `size` run: how
far off `size()` is, for every capacity.

**SharedDataProofs**: `SharedRunsTopic`, and `PayloadsReturned`.  A use count that
is zero exactly when nobody refers to the payload is not inductive; `Counted`
says that it is the number of publishers' structs, subscribers' structs and
places in queues that refer to it.  A pop moves the references of one queue by
one place, which needs a bijection between the old places and the new ones; and
the payload remembered for a seqno does not change while an element with that
number is in a queue, by `Numbers` of TopicProofs.

**ClientsProofs** is about Domain and Clients.  `SameTopicSameType` follows from
the topics' names being different.  `QueryShowsMembers` needs the state of a
query halfway: the topics that matched so far stand in order in the result, each
with members between `always` and `ever`, whatever stood there before.
`FormatsOutliveClients` needs that a client between `push_front` and `front`
finds its own string first (`LastPushed`), and that strings are never removed.

Only model-checked: every liveness property (`EmplaceReturns`, `PopReturns`,
`PushReturns`, `SwapEndsWhenQuiet`, `DrainsWhenQuiet`, `StopsWhenQuiet`, and the
liveness half of `ImplementsEvent`), which is out of this prover's reach.  The
failing runs need no proof; what they refute is false for some instance.

## Not modelled

* The plain payload and the timestamp of an element, which are copied and never
  looked at.
* Pops with stale loads together with the notifier: the notifier's mutex orders
  a push before the pop that follows the wakeup, so `SubscriberLoop` uses exact
  counts.
* One `pub` object pushed from two threads, which `need_lock` does not count.
* `_count` wrapping after 2^32 notifications that no wait has cleared.
* `notifier_polling`: a sleep without state, which neither `notify()` nor
  `shutdown()` reaches: its thread and the others only meet in the queue, which
  `SpscQueue` covers, and in the `SubscriberLoop` run it would only multiply the
  states by those of a second loop.
* The topic's and the domain's destructors, which run when no client is left.
* The text that `to_dot` writes around the edges; logging, except that the log
  reads a trace format later than the call that posted it; exceptions from
  allocation.

## Plan

Written, in this order: the ring and its abstract FIFO; the topic's cache; the
notifier with the subscriber's loop; counters; domain; the topic with its
elements and its promise; shared payloads; the query topic by topic, the string
cache and the graph; the proofs of every safety invariant the passing runs check;
the ring inside the topic, and the proofs that join the two.
Left:

1. The ring with stale loads under the notifier: that a pop after a wakeup sees
   the element, and what a poll without a notifier may miss.
2. A step towards liveness that is within the prover's reach: for each property
   that some step brings about, that this step leads out of the state it waits in.
3. One publisher object shared by two threads.
