--------------------------- MODULE SubscriberLoop ---------------------------
(***************************************************************************)
(* A subscriber's thread, its queues, their shared notifier_cv, and the    *)
(* threads that push into the queues or kick or shut down the topics:      *)
(* sub_queue::push, pop, kick and shutdown (sub-queue.hpp), the loops over *)
(* queues of topic.hpp and domain.cc, and the loop every subscriber of the *)
(* tests runs (tests/shutdown-test.cc):                                    *)
(*                                                                         *)
(*     while (!_killed) { while (sub.pop(m)) ...; nf.wait_for(timeout); }  *)
(*                                                                         *)
(* The lock around sub_queue::push is left to module TopicCache and the    *)
(* ring to SpscQueue; here a queue is the number of elements in it.        *)
(***************************************************************************)
EXTENDS NotifierCv

CONSTANTS
  Queues,    \* the queues that share the notifier
  Owner,     \* the thread that pops each
  Capacity   \* what a queue holds

ASSUME QueuesAssumption ==
  Owner \in [Queues -> Waiters] /\ Capacity \in Nat \ {0}

VARIABLES
  queued,      \* number of elements in each queue
  lpc,         \* where each subscriber is in its loop
  scan,        \* the queues it has yet to find empty before it waits
  sweep,       \* the queues each kick or shutdown has yet to visit
  killed,      \* _killed
  overridden   \* has a shutdown returned?

loopVars == <<queued, lpc, scan, sweep, killed, overridden>>
vars == <<notifierVars, loopVars>>

Owns(w) == {q \in Queues : Owner[q] = w}

-----------------------------------------------------------------------------
(* Callers.                                                                *)

\* Mutant: no limit.
PushUnbounded(c, q) ==
  /\ sweep[c] = {}
  /\ queued' = [queued EXCEPT ![q] = @ + 1]
  /\ NotifyCall(c, NoForce)
  /\ UNCHANGED <<lpc, scan, sweep, killed, overridden>>

\* _fifo.push(d), dropped when the queue is full, then kick(): the push
\* notifies in both cases.
Push(c, q) ==
  /\ sweep[c] = {}
  /\ queued' = [queued EXCEPT ![q] = IF @ < Capacity THEN @ + 1 ELSE @]
  /\ NotifyCall(c, NoForce)
  /\ UNCHANGED <<lpc, scan, sweep, killed, overridden>>

\* kick() of the topics that match a filter, or shutdown(f) of all, starts ...
SweepBegin(c, f) ==
  /\ sweep[c] = {}
  /\ NotifyCall(c, f)
  /\ \E Q \in SUBSET Queues :
       /\ f # NoForce => Q = Queues
       /\ \E q \in Q : sweep' = [sweep EXCEPT ![c] = Q \ {q}]
  /\ UNCHANGED <<queued, lpc, scan, killed, overridden>>

\* ... and notifies through one queue after the other.
SweepNext(c) ==
  /\ NotifyCall(c, force[c])
  /\ \E q \in sweep[c] : sweep' = [sweep EXCEPT ![c] = @ \ {q}]
  /\ UNCHANGED <<queued, lpc, scan, killed, overridden>>

CallerStep(c) ==
  /\ NotifyStep(c)
  /\ overridden' =
       (overridden \/ (cpc'[c] = "out" /\ sweep[c] = {} /\ force[c] # NoForce))
  /\ UNCHANGED <<queued, lpc, scan, sweep, killed>>

Kill ==
  /\ ~killed
  /\ killed' = TRUE
  /\ UNCHANGED <<notifierVars, queued, lpc, scan, sweep, overridden>>

-----------------------------------------------------------------------------
(* The subscriber's loop.                                                  *)

TestKilled(w) ==
  /\ lpc[w] = "test"
  /\ lpc' = [lpc EXCEPT ![w] = IF killed THEN "done" ELSE "pop"]
  /\ scan' = [scan EXCEPT ![w] = IF killed THEN {} ELSE Owns(w)]
  /\ UNCHANGED <<notifierVars, queued, sweep, killed, overridden>>

\* One call of pop(m): it takes an element, or finds the queue empty.
Pop(w, q) ==
  /\ lpc[w] = "pop" /\ q \in scan[w]
  /\ \/ queued[q] > 0 /\ queued' = [queued EXCEPT ![q] = @ - 1] /\ UNCHANGED scan
     \/ queued[q] = 0 /\ scan' = [scan EXCEPT ![w] = @ \ {q}] /\ UNCHANGED queued
  /\ UNCHANGED <<notifierVars, lpc, sweep, killed, overridden>>

CallWait(w) ==
  /\ lpc[w] = "pop" /\ scan[w] = {}
  /\ WaitCall(w)
  /\ lpc' = [lpc EXCEPT ![w] = "wait"]
  /\ UNCHANGED <<queued, scan, sweep, killed, overridden>>

Waited(w) ==
  /\ lpc[w] = "wait" /\ wpc[w] = "out"
  /\ lpc' = [lpc EXCEPT ![w] = "test"]
  /\ UNCHANGED <<notifierVars, queued, scan, sweep, killed, overridden>>

\* The steps inside wait_for().
Waiting(A) == A /\ UNCHANGED loopVars

-----------------------------------------------------------------------------

Init ==
  /\ NotifierInit
  /\ queued = [q \in Queues |-> 0]
  /\ lpc = [w \in Waiters |-> "test"]
  /\ scan = [w \in Waiters |-> {}]
  /\ sweep = [c \in Callers |-> {}]
  /\ killed = FALSE /\ overridden = FALSE

LoopStep(w) ==
  \/ TestKilled(w) \/ CallWait(w) \/ Waited(w) \/ Waiting(WaitStep(w))
  \/ \E q \in Queues : Pop(w, q)

LoopNext ==
  \/ \E w \in Waiters :
       LoopStep(w) \/ Waiting(Expire(w)) \/ Waiting(SpuriousWakeup(w))
  \/ \E c \in Callers :
       \/ CallerStep(c) \/ SweepNext(c)
       \/ \E q \in Queues : Push(c, q)
       \/ \E f \in Forced \cup {NoForce} : SweepBegin(c, f)
  \/ Kill

\* Threads inside a call run, and so do subscribers.  The duration the
\* subscriber asked for may be arbitrarily long, so nothing relies on its
\* end; one set by shutdown() passes.
LoopSpec ==
  /\ Init /\ [][LoopNext]_vars
  /\ \A w \in Waiters :
       /\ WF_vars(LoopStep(w))
       /\ WF_vars(limit[w] # Timeout /\ Waiting(Expire(w)))
  /\ \A c \in Callers : WF_vars(CallerStep(c)) /\ WF_vars(SweepNext(c))

-----------------------------------------------------------------------------
(* Properties.                                                             *)

TypeOK ==
  /\ NotifierTypeOK
  /\ queued \in [Queues -> 0 .. Capacity]
  /\ lpc \in [Waiters -> {"test", "pop", "wait", "done"}]
  /\ scan \in [Waiters -> SUBSET Queues]
  /\ sweep \in [Callers -> SUBSET Queues]
  /\ killed \in BOOLEAN /\ overridden \in BOOLEAN

\* No lost wakeup: a subscriber does not sleep on a queue with an element in
\* it, unless the call that will wake it is on its way.  The window is that
\* between the last pop() that found the queue empty and the lock of
\* wait_for().
NoLostWakeup ==
  \A q \in Queues :
    queued[q] > 0 /\ wpc[Owner[q]] = "asleep" =>
      \E c \in Callers : cpc[c] \in {"lock", "signal"}

\* No element is left behind: once pushes cease, every queue is popped empty,
\* however long the subscriber's own timeout is, unless it is told to stop.
\* (While they go on, one queue can keep the loop from the others.)
Quiet == <>[][\A c \in Callers, q \in Queues : ~Push(c, q)]_vars

DrainsWhenQuiet ==
  Quiet => \A q \in Queues : queued[q] > 0 ~> killed \/ queued[q] = 0

\* domain.hpp, shutdown: all subscribers wake up and their timeouts are
\* overridden, so that one that is told to stop does, once pushes cease.
StopsWhenQuiet ==
  Quiet =>
    (killed /\ overridden ~> \A w \in Waiters : lpc[w] = "done")
=============================================================================
