----------------------------- MODULE NotifierCv -----------------------------
(***************************************************************************)
(* vdds::notifier_cv (notifier.hpp): a counter of triggers, a mutex and a  *)
(* condition variable.  Subscriber threads call wait_for(), and the        *)
(* threads that push, kick or shut down call notify() or shutdown().       *)
(*                                                                         *)
(* The mutex guards nothing but _count and _ft and is held only to access  *)
(* them, so a locked section is one step; the notify_one() that follows    *)
(* the unlock is another.  A wait on the condition variable ends when it   *)
(* is chosen by a notify_one(), when its time is up, or for no reason.     *)
(*                                                                         *)
(* Durations are numbers; 0 is the zero duration that _ft starts with.     *)
(***************************************************************************)
EXTENDS Naturals, FiniteSets

CONSTANTS
  Waiters,     \* threads that call wait_for()
  Callers,     \* threads that call notify() and shutdown()
  Timeout,     \* the argument of wait_for()
  Forced,      \* the arguments of shutdown()
  NoForce,     \* not a duration: what notify() passes
  CountRange,  \* 2^32, the range of _count
  MaxAhead     \* bound: nobody calls notify() or shutdown() at this _count

ASSUME NotifierAssumption ==
  /\ Waiters \cap Callers = {}
  /\ Timeout \in Nat \ {0} /\ Forced \subseteq Nat /\ Timeout \notin Forced
  /\ NoForce \notin Forced
  /\ CountRange \in Nat \ {0} /\ MaxAhead \in Nat

\* The bound keeps _count from wrapping.
ASSUME AheadAssumption ==
  IsFiniteSet(Callers) /\ MaxAhead + Cardinality(Callers) < CountRange

VARIABLES
  count,    \* _count
  ft,       \* _ft
  wpc,      \* where each waiter is
  limit,    \* the duration its wait was given
  expired,  \* the waiters whose time is up
  cpc,      \* where each caller is
  force     \* the argument of its shutdown(), NoForce in notify()

waiterVars == <<wpc, limit, expired>>
callerVars == <<cpc, force>>
notifierVars == <<count, ft, waiterVars, callerVars>>

-----------------------------------------------------------------------------
(* wait_for                                                                *)

WaitCall(w) ==
  /\ wpc[w] = "out"
  /\ wpc' = [wpc EXCEPT ![w] = "enter"]
  /\ UNCHANGED <<count, ft, limit, expired, callerVars>>

\* Mutant: the counter is not cleared; or the predicate is not there.
CheckKeeps(w, up) ==
  /\ UNCHANGED count
  /\ wpc' = [wpc EXCEPT ![w] = IF count # 0 \/ up THEN "out" ELSE "asleep"]

CheckNoPredicate(w, up) ==
  IF up
  THEN count' = 0 /\ wpc' = [wpc EXCEPT ![w] = "out"]
  ELSE UNCHANGED count /\ wpc' = [wpc EXCEPT ![w] = "asleep"]

\* The end of the locked section: if the predicate holds, or the time is up,
\* clear the counter and return; otherwise sleep.
Check(w, up) ==
  IF count # 0 \/ up
  THEN count' = 0 /\ wpc' = [wpc EXCEPT ![w] = "out"]
  ELSE UNCHANGED count /\ wpc' = [wpc EXCEPT ![w] = "asleep"]

\* Mutant: _ft is ignored.
WaitLockOwn(w) ==
  /\ wpc[w] = "enter"
  /\ limit' = [limit EXCEPT ![w] = Timeout]
  /\ Check(w, FALSE)
  /\ UNCHANGED <<ft, expired, callerVars>>

\* The duration is chosen once, when the wait begins.
WaitLock(w) ==
  /\ wpc[w] = "enter"
  /\ limit' = [limit EXCEPT ![w] = IF ft # 0 THEN ft ELSE Timeout]
  /\ Check(w, FALSE)
  /\ UNCHANGED <<ft, expired, callerVars>>

\* Time also passes for a waiter that is woken and not yet running.
Expire(w) ==
  /\ wpc[w] \in {"asleep", "awake"} /\ w \notin expired
  /\ wpc' = [wpc EXCEPT ![w] = "awake"]
  /\ expired' = expired \cup {w}
  /\ UNCHANGED <<count, ft, limit, callerVars>>

SpuriousWakeup(w) ==
  /\ wpc[w] = "asleep"
  /\ wpc' = [wpc EXCEPT ![w] = "awake"]
  /\ UNCHANGED <<count, ft, limit, expired, callerVars>>

Relock(w) ==
  /\ wpc[w] = "awake"
  /\ Check(w, w \in expired)
  /\ expired' = expired \ {w}
  /\ UNCHANGED <<ft, limit, callerVars>>

-----------------------------------------------------------------------------
(* notify, shutdown                                                        *)

NotifyCall(c, f) ==
  /\ cpc[c] = "out"
  /\ count < MaxAhead
  /\ cpc' = [cpc EXCEPT ![c] = "lock"]
  /\ force' = [force EXCEPT ![c] = f]
  /\ UNCHANGED <<count, ft, waiterVars>>

\* Mutant: shutdown() sets the duration and does not count.
NotifyLockForce(c) ==
  /\ cpc[c] = "lock"
  /\ count' = IF force[c] = NoForce THEN count + 1 ELSE count
  /\ ft' = IF force[c] = NoForce THEN ft ELSE force[c]
  /\ cpc' = [cpc EXCEPT ![c] = "signal"]
  /\ UNCHANGED <<force, waiterVars>>

NotifyLock(c) ==
  /\ cpc[c] = "lock"
  /\ count' = (count + 1) % CountRange
  /\ ft' = IF force[c] = NoForce THEN ft ELSE force[c]
  /\ cpc' = [cpc EXCEPT ![c] = "signal"]
  /\ UNCHANGED <<force, waiterVars>>

Asleep == {w \in Waiters : wpc[w] = "asleep"}

\* Mutant: no notify_one().
NotifyOneNot(c) ==
  /\ cpc[c] = "signal"
  /\ cpc' = [cpc EXCEPT ![c] = "out"]
  /\ UNCHANGED <<count, ft, waiterVars, force>>

NotifyOne(c) ==
  /\ cpc[c] = "signal"
  /\ \/ Asleep = {} /\ UNCHANGED wpc
     \/ \E w \in Asleep : wpc' = [wpc EXCEPT ![w] = "awake"]
  /\ cpc' = [cpc EXCEPT ![c] = "out"]
  /\ UNCHANGED <<count, ft, limit, expired, force>>

-----------------------------------------------------------------------------

NotifierInit ==
  /\ count = 0 /\ ft = 0
  /\ wpc = [w \in Waiters |-> "out"]
  /\ limit = [w \in Waiters |-> Timeout]
  /\ expired = {}
  /\ cpc = [c \in Callers |-> "out"]
  /\ force = [c \in Callers |-> NoForce]

WaitStep(w) == WaitLock(w) \/ Relock(w)
NotifyStep(c) == NotifyLock(c) \/ NotifyOne(c)

Next ==
  \/ \E w \in Waiters : WaitCall(w) \/ WaitStep(w) \/ Expire(w) \/ SpuriousWakeup(w)
  \/ \E c \in Callers : NotifyStep(c) \/ \E f \in Forced \cup {NoForce} : NotifyCall(c, f)

\* Every thread in a call runs, and gets the mutex in the end.  Nothing is
\* said of time: a wait may last for ever unless it is signalled.
Spec ==
  /\ NotifierInit /\ [][Next]_notifierVars
  /\ \A w \in Waiters : WF_notifierVars(WaitStep(w))
  /\ \A c \in Callers : WF_notifierVars(NotifyStep(c))

-----------------------------------------------------------------------------
(* Properties.                                                             *)

NotifierTypeOK ==
  /\ count \in 0 .. CountRange - 1
  /\ ft \in Forced \cup {0}
  /\ wpc \in [Waiters -> {"out", "enter", "asleep", "awake"}]
  /\ limit \in [Waiters -> Forced \cup {Timeout}]
  /\ expired \subseteq Waiters
  /\ cpc \in [Callers -> {"out", "lock", "signal"}]
  /\ force \in [Callers -> Forced \cup {NoForce}]

\* The notifier is an auto-reset event, although notify_one() comes after the
\* unlock and may find nobody, or a waiter that others have overtaken; and a
\* spurious wakeup never ends a wait.
Event == INSTANCE AutoResetEvent WITH
  signal  <- count # 0,
  waiting <- {w \in Waiters : wpc[w] # "out"},
  late    <- expired

ImplementsEvent == Event!Spec

\* A wait that began before shutdown() does not keep sleeping on its old
\* duration: if one does, a caller is on its way to wake it.  (One waiter:
\* notify_one() wakes one.)
ForcedWakesSleeper ==
  \A w \in Waiters :
    wpc[w] = "asleep" /\ ft # 0 /\ limit[w] = Timeout =>
      \E c \in Callers : cpc[c] = "signal"
=============================================================================
