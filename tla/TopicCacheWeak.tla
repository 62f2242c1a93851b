--------------------------- MODULE TopicCacheWeak ---------------------------
(***************************************************************************)
(* TopicCache on a processor with weak memory ordering.  cache_get() is    *)
(* fetch_add with memory_order_acquire followed by a load.  The acquire    *)
(* keeps later accesses behind the read of the counter, but not behind     *)
(* its write: the C++ memory model lets the load of _cache_ptr take effect *)
(* first (on AArch64 the write half of ldadda may be delayed past ldar;    *)
(* on x86 the locked instruction is a full barrier).  The other side,      *)
(* exchange and load in cache_swap(), is sequentially consistent, which    *)
(* does not help: the increment takes no part in that order.               *)
(***************************************************************************)
EXTENDS TopicCache

\* The load takes effect ...
EarlyLoad(t) ==
  /\ Step(t, "in", "get")
  /\ Walk(t)
  /\ due' = StartDue(t)
  /\ UNCHANGED <<heapVars, adminVars, cur, mutexVars, refcnt, sharers>>

\* ... and then the increment becomes visible to cache_swap().
LateGet(t) ==
  /\ Step(t, "get", "next")
  /\ refcnt' = refcnt + 1
  /\ UNCHANGED <<heapVars, adminVars, walkVars, sharers, due>>

WeakNext == Next \/ \E t \in Readers : EarlyLoad(t) \/ LateGet(t)

WeakSpec == Init /\ [][WeakNext]_vars

\* topic.cc:74 of the exchange: "At this point all new topic::push()
\* operations will use the new cache.  To release the old cache we have to
\* wait for the refcount to drop to zero."  So once that wait is over nobody
\* uses the old cache.
NewPushesUseNewCache ==
  \A m \in Members, t \in Readers :
    pc[m] = "free" => snap[t] # oldCache
=============================================================================
