------------------------ MODULE SubscriberLoopProofs ------------------------
(***************************************************************************)
(* Proofs about NotifierCv and about SubscriberLoop, which runs it.        *)
(*                                                                         *)
(* The notifier, for any number of waiters and callers and any durations:  *)
(* types, and that it is an auto-reset event as far as safety goes; and    *)
(* for one waiter, that a forced timeout reaches it.                       *)
(*                                                                         *)
(* The loop: types for any number of subscribers; and when the notifier    *)
(* belongs to one subscriber thread, no lost wakeup and a shutdown that    *)
(* reaches it, for any number of queues and callers, any capacity and any  *)
(* durations.                                                              *)
(***************************************************************************)
EXTENDS SubscriberLoop, FiniteSetTheorems, TLAPS

-----------------------------------------------------------------------------
(* The notifier, for any number of waiters: its inductive invariant.       *)

\* _count never wraps: the calls under way are counted before they arrive.
Arriving == {c \in Callers : cpc[c] = "lock"}
NoWrap == count + Cardinality(Arriving) < CountRange

\* A waiter whose time is up has been woken.
LateAwake == \A w \in expired : wpc[w] = "awake"

NotifierInv == NotifierTypeOK /\ NoWrap /\ LateAwake

\* The notifier belongs to one thread.
OneWaiter == \E w : Waiters = {w}

\* With one waiter: it sleeps on a raised count only while a notify_one() is
\* to come, and is in a wait of the old duration only until it sees the count
\* that shutdown() has raised.
Woken ==
  \A w \in Waiters :
    /\ wpc[w] = "asleep" /\ count # 0 => \E c \in Callers : cpc[c] = "signal"
    /\ wpc[w] \in {"asleep", "awake"} /\ ft # 0 /\ limit[w] = Timeout => count # 0

\* NotifierCv without its fairness.
Safety == NotifierInit /\ [][Next]_notifierVars

USE NotifierAssumption, AheadAssumption
USE DEF notifierVars, waiterVars, callerVars

-----------------------------------------------------------------------------
(* The count.                                                              *)

LEMMA ArrivingFinite ==
  /\ IsFiniteSet(Arriving)
  /\ Cardinality(Arriving) \in Nat
  /\ Cardinality(Arriving) <= Cardinality(Callers)
  /\ Cardinality(Callers) \in Nat
  /\ Arriving = {} <=> Cardinality(Arriving) = 0
  <1>1. Arriving \in SUBSET Callers
    BY DEF Arriving
  <1> QED  BY <1>1, FS_Subset, FS_CardinalityType, FS_EmptySet

\* A call that starts leaves room below CountRange.
LEMMA NotifyCallNoWrap ==
  ASSUME NotifierInv, NEW c \in Callers, NEW f \in Forced \cup {NoForce},
         NotifyCall(c, f)
  PROVE  NoWrap' /\ c \in Arriving'
  <1>1. c \in Arriving'
    BY DEF NotifierInv, NotifierTypeOK, NotifyCall, Arriving
  <1>2. Arriving' \in SUBSET Callers
    BY DEF Arriving
  <1>3. /\ Cardinality(Arriving)' \in Nat
        /\ Cardinality(Arriving)' <= Cardinality(Callers)
        /\ Cardinality(Callers) \in Nat
    BY <1>2, FS_Subset, FS_CardinalityType
  <1> QED
    BY <1>1, <1>3 DEF NotifierInv, NotifierTypeOK, NotifyCall, NoWrap

\* A waiter's step on the counter leaves NoWrap and the callers alone.
LEMMA WaiterNoWrap ==
  ASSUME NotifierInv, UNCHANGED cpc, count' \in {0, count}
  PROVE  NoWrap' /\ Arriving' = Arriving
  <1>1. Arriving' = Arriving
    BY DEF Arriving
  <1> QED
    BY <1>1, ArrivingFinite DEF NotifierInv, NotifierTypeOK, NoWrap

\* The count does not wrap to zero.
LEMMA NotifyLockCounts ==
  ASSUME NotifierInv, NEW c \in Callers, NotifyLock(c)
  PROVE  NoWrap' /\ count' # 0 /\ count' \in 0 .. CountRange - 1
  <1> USE DEF NotifierInv, NotifierTypeOK, NotifyLock
  <1>1. c \in Arriving /\ Arriving' = Arriving \ {c}
    BY DEF Arriving
  <1>2. Cardinality(Arriving)' = Cardinality(Arriving) - 1 /\ Cardinality(Arriving) >= 1
    <2>1. Cardinality(Arriving \ {c}) = Cardinality(Arriving) - 1
      BY <1>1, ArrivingFinite, FS_RemoveElement
    <2>2. Cardinality(Arriving) # 0
      BY <1>1, ArrivingFinite
    <2>3. Cardinality(Arriving)' = Cardinality(Arriving \ {c})
      BY <1>1
    <2> QED  BY <2>1, <2>2, <2>3, ArrivingFinite
  <1>3. count' = count + 1
    BY <1>2, ArrivingFinite DEF NoWrap
  <1> QED  BY <1>2, <1>3, ArrivingFinite DEF NoWrap

-----------------------------------------------------------------------------
(* The invariant holds.                                                    *)

LEMMA NotifierInitInv == NotifierInit => NotifierInv /\ Woken
  <1> SUFFICES ASSUME NotifierInit PROVE NotifierInv /\ Woken
    OBVIOUS
  <1>1. NotifierTypeOK /\ LateAwake /\ Woken
    BY DEF NotifierInit, NotifierTypeOK, LateAwake, Woken
  <1>2. Arriving = {}
    BY DEF NotifierInit, Arriving
  <1>3. NoWrap
    BY <1>2, FS_EmptySet DEF NotifierInit, NoWrap
  <1> QED  BY <1>1, <1>3 DEF NotifierInv

\* What a waiter does, and the time that passes for it.
WaiterStep(w) == WaitCall(w) \/ WaitStep(w) \/ Expire(w) \/ SpuriousWakeup(w)

LEMMA WaiterStepInv ==
  ASSUME NotifierInv, NEW w \in Waiters, WaiterStep(w)
  PROVE  NotifierInv' /\ Arriving' = Arriving
  <1> USE DEF NotifierInv, NotifierTypeOK, WaiterStep, WaitStep
  <1>1. NoWrap' /\ Arriving' = Arriving
    BY WaiterNoWrap
    DEF WaitCall, WaitLock, Relock, Expire, SpuriousWakeup, Check
  <1>2. NotifierTypeOK' /\ LateAwake'
    <2>1. CASE WaitCall(w)
      BY <2>1 DEF WaitCall, LateAwake
    <2>2. CASE WaitLock(w)
      BY <2>2 DEF WaitLock, Check, LateAwake
    <2>3. CASE Relock(w)
      BY <2>3 DEF Relock, Check, LateAwake
    <2>4. CASE Expire(w)
      BY <2>4 DEF Expire, LateAwake
    <2>5. CASE SpuriousWakeup(w)
      BY <2>5 DEF SpuriousWakeup, LateAwake
    <2> QED  BY <2>1, <2>2, <2>3, <2>4, <2>5
  <1> QED  BY <1>1, <1>2

LEMMA NotifyCallInv ==
  ASSUME NotifierInv, NEW c \in Callers, NEW f \in Forced \cup {NoForce},
         NotifyCall(c, f)
  PROVE  NotifierInv' /\ c \in Arriving'
  BY NotifyCallNoWrap DEF NotifierInv, NotifierTypeOK, LateAwake, NotifyCall

LEMMA NotifyLockInv ==
  ASSUME NotifierInv, NEW c \in Callers, NotifyLock(c)
  PROVE  NotifierInv'
  BY NotifyLockCounts DEF NotifierInv, NotifierTypeOK, LateAwake, NotifyLock

LEMMA NotifyOneInv ==
  ASSUME NotifierInv, NEW c \in Callers, NotifyOne(c)
  PROVE  NotifierInv' /\ Arriving' = Arriving
  <1> USE DEF NotifierInv, NotifierTypeOK, NotifyOne, Asleep
  <1>1. Arriving' = Arriving
    BY DEF Arriving
  <1>2. NotifierTypeOK' /\ LateAwake'
    BY DEF LateAwake
  <1> QED  BY <1>1, <1>2 DEF NoWrap

LEMMA NotifierStutterInv ==
  ASSUME NotifierInv, UNCHANGED notifierVars
  PROVE  NotifierInv' /\ Arriving' = Arriving
  BY DEF NotifierInv, NotifierTypeOK, LateAwake, NoWrap, Arriving

LEMMA NotifierNextInv == NotifierInv /\ [Next]_notifierVars => NotifierInv'
  BY WaiterStepInv, NotifyCallInv, NotifyLockInv, NotifyOneInv, NotifierStutterInv
  DEF Next, NotifyStep, WaiterStep

\* Every variable keeps its type, and the invariant holds.
THEOREM NotifierInductive == Safety => []NotifierInv
  BY NotifierInitInv, NotifierNextInv, PTL DEF Safety

-----------------------------------------------------------------------------
(* The notifier is an auto-reset event.                                    *)

LEMMA WaiterStepIsEvent ==
  ASSUME NotifierInv, NEW w \in Waiters, WaiterStep(w)
  PROVE  \/ Event!Begin(w) \/ Event!Expire(w) \/ Event!Return(w)
         \/ UNCHANGED Event!vars
  <1> USE DEF NotifierInv, NotifierTypeOK
  <1>1. CASE WaitCall(w)
    BY <1>1 DEF WaitCall, Event!Begin
  <1>2. CASE WaitLock(w)
    <2>1. w \notin expired
      BY <1>2 DEF WaitLock, LateAwake
    <2>2. CASE count # 0
      BY <1>2, <2>1, <2>2 DEF WaitLock, Check, Event!Return
    <2>3. CASE count = 0
      BY <1>2, <2>3 DEF WaitLock, Check, Event!vars
    <2> QED  BY <2>2, <2>3
  <1>3. CASE Relock(w)
    <2>1. CASE count # 0 \/ w \in expired
      BY <1>3, <2>1 DEF Relock, Check, Event!Return
    <2>2. CASE count = 0 /\ w \notin expired
      BY <1>3, <2>2 DEF Relock, Check, Event!vars
    <2> QED  BY <2>1, <2>2
  <1>4. CASE Expire(w)
    BY <1>4 DEF Expire, Event!Expire
  <1>5. CASE SpuriousWakeup(w)
    BY <1>5 DEF SpuriousWakeup, Event!vars
  <1> QED  BY <1>1, <1>2, <1>3, <1>4, <1>5 DEF WaiterStep, WaitStep

LEMMA CallerStepIsEvent ==
  ASSUME NotifierInv, NEW c \in Callers,
         NotifyStep(c) \/ \E f \in Forced \cup {NoForce} : NotifyCall(c, f)
  PROVE  Event!Signal \/ UNCHANGED Event!vars
  <1> USE DEF NotifierInv, NotifierTypeOK
  <1>1. CASE NotifyLock(c)
    BY <1>1, NotifyLockCounts DEF NotifyLock, Event!Signal
  <1>2. CASE NotifyOne(c)
    BY <1>2 DEF NotifyOne, Asleep, Event!vars
  <1>3. CASE \E f \in Forced \cup {NoForce} : NotifyCall(c, f)
    BY <1>3 DEF NotifyCall, Event!vars
  <1> QED  BY <1>1, <1>2, <1>3 DEF NotifyStep

\* The safety half of ImplementsEvent.  Of any number of calls and waits: a
\* wait ends only by a call that no other wait has consumed, or because its
\* time is up, whatever notify_one() and spurious wakeups do.
THEOREM EventSafety == Safety => Event!Init /\ [][Event!Next]_(Event!vars)
  <1>1. NotifierInit => Event!Init
    BY DEF NotifierInit, Event!Init
  <1>2. NotifierInv /\ [Next]_notifierVars => [Event!Next]_(Event!vars)
    <2> SUFFICES ASSUME NotifierInv, [Next]_notifierVars
                 PROVE  Event!Next \/ UNCHANGED Event!vars
      OBVIOUS
    <2>1. ASSUME NEW w \in Waiters, WaiterStep(w)
          PROVE  Event!Next \/ UNCHANGED Event!vars
      BY <2>1, WaiterStepIsEvent DEF Event!Next
    <2>2. ASSUME NEW c \in Callers,
                 NotifyStep(c) \/ \E f \in Forced \cup {NoForce} : NotifyCall(c, f)
          PROVE  Event!Next \/ UNCHANGED Event!vars
      BY <2>2, CallerStepIsEvent DEF Event!Next
    <2>3. CASE UNCHANGED notifierVars
      BY <2>3 DEF Event!vars
    <2> QED  BY <2>1, <2>2, <2>3 DEF Next, WaiterStep
  <1> QED  BY <1>1, <1>2, NotifierInductive, PTL DEF Safety

-----------------------------------------------------------------------------
(* One waiter.                                                             *)

LEMMA NextWoken == OneWaiter /\ NotifierInv /\ Woken /\ [Next]_notifierVars => Woken'
  <1> SUFFICES ASSUME OneWaiter, NotifierInv, Woken, [Next]_notifierVars PROVE Woken'
    OBVIOUS
  <1> USE DEF NotifierInv, NotifierTypeOK, Woken
  <1>1. ASSUME NEW w \in Waiters, WaiterStep(w) PROVE Woken'
    <2>1. CASE WaitCall(w)
      BY <2>1 DEF WaitCall
    <2>2. CASE WaitLock(w)
      BY <2>2 DEF OneWaiter, WaitLock, Check
    <2>3. CASE Relock(w)
      BY <2>3 DEF OneWaiter, Relock, Check
    <2>4. CASE Expire(w)
      BY <2>4 DEF Expire
    <2>5. CASE SpuriousWakeup(w)
      BY <2>5 DEF SpuriousWakeup
    <2> QED  BY <1>1, <2>1, <2>2, <2>3, <2>4, <2>5 DEF WaiterStep, WaitStep
  <1>2. ASSUME NEW c \in Callers, NEW f \in Forced \cup {NoForce}, NotifyCall(c, f)
        PROVE  Woken'
    BY <1>2 DEF NotifyCall
  <1>3. ASSUME NEW c \in Callers, NotifyLock(c) PROVE Woken'
    BY <1>3, NotifyLockCounts DEF NotifyLock
  <1>4. ASSUME NEW c \in Callers, NotifyOne(c) PROVE Woken'
    <2>1. \A w \in Waiters : wpc'[w] # "asleep"
      BY <1>4 DEF OneWaiter, NotifyOne, Asleep
    <2> QED  BY <1>4, <2>1 DEF NotifyOne, Asleep
  <1>5. CASE UNCHANGED notifierVars
    BY <1>5
  <1> QED  BY <1>1, <1>2, <1>3, <1>4, <1>5 DEF Next, NotifyStep, WaiterStep

\* The waiter of a notifier of one thread never keeps sleeping on the duration
\* it had before shutdown().
THEOREM ForcedReaches ==
  ASSUME OneWaiter PROVE Safety => [](Woken /\ ForcedWakesSleeper)
  <1>1. NotifierInv /\ Woken => ForcedWakesSleeper
    BY DEF Woken, ForcedWakesSleeper
  <1> QED  BY <1>1, NotifierInitInv, NextWoken, NotifierInductive, PTL DEF Safety

-----------------------------------------------------------------------------
(* The loop that runs it: the inductive invariant.                         *)

\* Somebody is about to raise the count, or it is raised.
Announced == count # 0 \/ Arriving # {}

\* The thread is in wait_for() exactly while its loop waits.
Sleeping == \A w \in Waiters : wpc[w] # "out" => lpc[w] = "wait"

\* An element in a queue that the thread has finished with is announced.
Noticed ==
  \A w \in Waiters, q \in Queues :
    /\ Owner[q] = w /\ queued[q] > 0
    /\ \/ lpc[w] = "pop" /\ q \notin scan[w]
       \/ wpc[w] # "out"
    => Announced

LoopInv == TypeOK /\ NotifierInv /\ Sleeping

USE QueuesAssumption
USE DEF loopVars

-----------------------------------------------------------------------------
(* The loop runs the notifier.                                             *)

LEMMA LoopStepIsNotifierStep == TypeOK /\ [LoopNext]_vars => [Next]_notifierVars
  <1> SUFFICES ASSUME TypeOK, [LoopNext]_vars
               PROVE  Next \/ UNCHANGED notifierVars
    OBVIOUS
  <1>1. ASSUME NEW w \in Waiters, LoopStep(w)
        PROVE  Next \/ UNCHANGED notifierVars
    BY <1>1 DEF LoopStep, TestKilled, Pop, CallWait, Waited, Waiting, Next
  <1>2. ASSUME NEW w \in Waiters, Waiting(Expire(w)) \/ Waiting(SpuriousWakeup(w))
        PROVE  Next
    BY <1>2 DEF Waiting, Next
  <1>3. ASSUME NEW c \in Callers,
               \/ CallerStep(c) \/ SweepNext(c)
               \/ \E q \in Queues : Push(c, q)
               \/ \E f \in Forced \cup {NoForce} : SweepBegin(c, f)
        PROVE  Next
    BY <1>3 DEF CallerStep, SweepNext, Push, SweepBegin, Next, TypeOK, NotifierTypeOK
  <1>4. CASE Kill \/ UNCHANGED vars
    BY <1>4 DEF Kill, vars
  <1> QED  BY <1>1, <1>2, <1>3, <1>4 DEF LoopNext

\* The rest of the types, and where the loop is.
LEMMA InitLoop == Init => LoopInv
  <1> SUFFICES ASSUME Init PROVE LoopInv
    OBVIOUS
  <1>1. NotifierInv
    BY NotifierInitInv DEF Init
  <1>2. queued \in [Queues -> 0 .. Capacity]
    BY DEF Init
  <1>3. Sleeping
    BY DEF Init, NotifierInit, Sleeping
  <1> QED  BY <1>1, <1>2, <1>3 DEF Init, LoopInv, NotifierInv, TypeOK

LEMMA NextLoop == LoopInv /\ [LoopNext]_vars => LoopInv'
  <1> SUFFICES ASSUME LoopInv, [LoopNext]_vars PROVE LoopInv'
    OBVIOUS
  <1> USE DEF LoopInv, TypeOK
  <1>1. NotifierInv'
    BY LoopStepIsNotifierStep, NotifierNextInv
  <1>2. NotifierTypeOK'
    BY <1>1 DEF NotifierInv
  <1> DEFINE Here == /\ queued \in [Queues -> 0 .. Capacity]
                     /\ lpc \in [Waiters -> {"test", "pop", "wait", "done"}]
                     /\ scan \in [Waiters -> SUBSET Queues]
                     /\ sweep \in [Callers -> SUBSET Queues]
                     /\ killed \in BOOLEAN /\ overridden \in BOOLEAN
                     /\ Sleeping
  <1>3. ASSUME NEW w \in Waiters, LoopStep(w) PROVE Here'
    <2>1. CASE TestKilled(w)
      BY <2>1 DEF TestKilled, Owns, Sleeping
    <2>2. CASE CallWait(w)
      BY <2>2 DEF CallWait, WaitCall, Sleeping, NotifierTypeOK
    <2>3. CASE Waited(w)
      BY <2>3 DEF Waited, Sleeping
    <2>4. CASE Waiting(WaitStep(w))
      BY <2>4
      DEF Waiting, WaitStep, WaitLock, Relock, Check, Sleeping, NotifierTypeOK
    <2>5. CASE \E q \in Queues : Pop(w, q)
      BY <2>5 DEF Pop, Sleeping
    <2> QED  BY <1>3, <2>1, <2>2, <2>3, <2>4, <2>5 DEF LoopStep
  <1>4. ASSUME NEW w \in Waiters, Waiting(Expire(w)) \/ Waiting(SpuriousWakeup(w))
        PROVE  Here'
    BY <1>4 DEF Waiting, Expire, SpuriousWakeup, Sleeping, NotifierTypeOK
  <1>5. ASSUME NEW c \in Callers, CallerStep(c) PROVE Here'
    <2>1. \A w \in Waiters : wpc'[w] # "out" => wpc[w] # "out"
      BY <1>5 DEF CallerStep, NotifyStep, NotifyLock, NotifyOne, Asleep, NotifierTypeOK
    <2> QED  BY <1>5, <2>1 DEF CallerStep, Sleeping
  <1>6. ASSUME NEW c \in Callers, SweepNext(c) PROVE Here'
    BY <1>6 DEF SweepNext, NotifyCall, Sleeping
  <1>7. ASSUME NEW c \in Callers, NEW q \in Queues, Push(c, q) PROVE Here'
    BY <1>7 DEF Push, NotifyCall, Sleeping
  <1>8. ASSUME NEW c \in Callers, NEW f \in Forced \cup {NoForce}, SweepBegin(c, f)
        PROVE  Here'
    BY <1>8 DEF SweepBegin, NotifyCall, Sleeping
  <1>9. ASSUME Kill \/ UNCHANGED vars PROVE Here'
    <2>1. UNCHANGED <<wpc, queued, lpc, scan, sweep, overridden>>
      BY <1>9 DEF Kill, vars
    <2>2. killed' \in BOOLEAN
      BY <1>9 DEF Kill, vars
    <2> QED  BY <2>1, <2>2 DEF Sleeping
  <1>10. Here'
    BY <1>3, <1>4, <1>5, <1>6, <1>7, <1>8, <1>9 DEF LoopNext
  <1> QED  BY <1>1, <1>2, <1>10

\* The loop's and the notifier's invariant holds of every behaviour.
THEOREM LoopInductive == LoopSpec => []LoopInv
  BY InitLoop, NextLoop, PTL DEF LoopSpec

\* Every variable keeps its type, whoever shares the notifier.
THEOREM TypeCorrect == LoopSpec => []TypeOK
  <1>1. LoopInv => TypeOK
    BY DEF LoopInv
  <1> QED  BY <1>1, LoopInductive, PTL

\* Whatever the loop does to the notifier, the notifier can do.
THEOREM LoopRunsNotifier == LoopSpec => Safety
  <1>1. Init => NotifierInit
    BY DEF Init
  <1> QED
    BY <1>1, LoopStepIsNotifierStep, TypeCorrect, PTL DEF LoopSpec, Safety

\* In particular a subscriber's wait ends only by a push, kick or shutdown that
\* no other wait has consumed, or because its time is up, however many threads
\* share the notifier.
THEOREM LoopKeepsEvent == LoopSpec => Event!Init /\ [][Event!Next]_(Event!vars)
  BY LoopRunsNotifier, EventSafety, PTL

-----------------------------------------------------------------------------
(* One thread that owns its notifier.                                      *)

LEMMA InitNoticed == Init => Noticed
  BY DEF Init, Noticed

LEMMA NextNoticed == OneWaiter /\ LoopInv /\ Noticed /\ [LoopNext]_vars => Noticed'
  <1> SUFFICES ASSUME OneWaiter, LoopInv, Noticed, [LoopNext]_vars PROVE Noticed'
    OBVIOUS
  <1> USE DEF OneWaiter, LoopInv, NotifierInv, TypeOK, NotifierTypeOK,
              Sleeping, Noticed, Announced
  <1>1. ASSUME NEW w \in Waiters, LoopStep(w) PROVE Noticed'
    <2>1. CASE TestKilled(w)
      BY <2>1 DEF TestKilled, Owns, Arriving
    <2>2. CASE CallWait(w)
      BY <2>2 DEF CallWait, WaitCall, Arriving
    <2>3. CASE Waited(w)
      BY <2>3 DEF Waited, Arriving
    <2>4. CASE Waiting(WaitStep(w))
      BY <2>4 DEF Waiting, WaitStep, WaitLock, Relock, Check, Arriving
    <2>5. CASE \E q \in Queues : Pop(w, q)
      BY <2>5 DEF Pop, Arriving
    <2> QED  BY <1>1, <2>1, <2>2, <2>3, <2>4, <2>5 DEF LoopStep
  <1>2. ASSUME NEW w \in Waiters, Waiting(Expire(w)) \/ Waiting(SpuriousWakeup(w))
        PROVE  Noticed'
    BY <1>2 DEF Waiting, Expire, SpuriousWakeup, Arriving
  <1>3. ASSUME NEW c \in Callers, CallerStep(c) PROVE Noticed'
    <2>1. CASE NotifyLock(c)
      BY <2>1, NotifyLockCounts
    <2>2. CASE NotifyOne(c)
      <3>1. Arriving' = Arriving /\ count' = count
        BY <2>2, NotifyOneInv DEF NotifyOne
      <3>2. \A w \in Waiters : wpc'[w] # "out" <=> wpc[w] # "out"
        BY <2>2 DEF NotifyOne, Asleep
      <3> QED  BY <1>3, <3>1, <3>2 DEF CallerStep
    <2> QED  BY <1>3, <2>1, <2>2 DEF CallerStep, NotifyStep
  <1>4. ASSUME NEW c \in Callers, NEW f \in Forced \cup {NoForce}, NotifyCall(c, f)
        PROVE  Noticed'
    BY <1>4, NotifyCallInv
  <1>5. ASSUME NEW c \in Callers,
               \/ SweepNext(c)
               \/ \E q \in Queues : Push(c, q)
               \/ \E f \in Forced \cup {NoForce} : SweepBegin(c, f)
        PROVE  Noticed'
    BY <1>4, <1>5 DEF SweepNext, Push, SweepBegin
  <1>6. CASE Kill \/ UNCHANGED vars
    BY <1>6 DEF Kill, vars, Arriving
  <1> QED  BY <1>1, <1>2, <1>3, <1>5, <1>6 DEF LoopNext

\* It never sleeps on an element: every push that a pop missed has raised the
\* count, or is about to.
THEOREM NeverOversleeps ==
  ASSUME OneWaiter PROVE LoopSpec => []NoLostWakeup
  <1>1. LoopSpec => []Noticed
    BY InitNoticed, NextNoticed, LoopInductive, PTL DEF LoopSpec
  <1>2. LoopSpec => []Woken
    BY LoopRunsNotifier, ForcedReaches, PTL
  <1>3. ASSUME LoopInv, Noticed, Woken PROVE NoLostWakeup
    <2> SUFFICES ASSUME NEW q \in Queues, queued[q] > 0, wpc[Owner[q]] = "asleep"
                 PROVE  \E c \in Callers : cpc[c] \in {"lock", "signal"}
      BY DEF NoLostWakeup
    <2>1. count # 0 \/ Arriving # {}
      BY <1>3 DEF Noticed, Announced
    <2>2. CASE count # 0
      BY <1>3, <2>2 DEF Woken
    <2>3. CASE Arriving # {}
      BY <2>3 DEF Arriving
    <2> QED  BY <2>1, <2>2, <2>3
  <1> QED  BY <1>1, <1>2, <1>3, LoopInductive, PTL

\* It never keeps sleeping on the duration it had before shutdown().
THEOREM ShutdownReaches ==
  ASSUME OneWaiter PROVE LoopSpec => []ForcedWakesSleeper
  BY LoopRunsNotifier, ForcedReaches, PTL
=============================================================================
