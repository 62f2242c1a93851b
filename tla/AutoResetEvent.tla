--------------------------- MODULE AutoResetEvent ---------------------------
(***************************************************************************)
(* What a notifier promises: a signal that any number of calls can set,    *)
(* and that releases one wait and is cleared by it.  A wait ends only      *)
(* because of the signal or because its time is up; and if there is a      *)
(* signal and somebody waits, somebody returns.                            *)
(***************************************************************************)
CONSTANT Waiters

VARIABLES
  signal,   \* is there a signal that no wait has consumed?
  waiting,  \* who is waiting
  late      \* whose time is up

vars == <<signal, waiting, late>>

Init == signal = FALSE /\ waiting = {} /\ late = {}

Signal ==
  /\ signal' = TRUE
  /\ UNCHANGED <<waiting, late>>

Begin(w) ==
  /\ w \notin waiting
  /\ waiting' = waiting \cup {w}
  /\ UNCHANGED <<signal, late>>

Expire(w) ==
  /\ w \in waiting \ late
  /\ late' = late \cup {w}
  /\ UNCHANGED <<signal, waiting>>

Return(w) ==
  /\ w \in waiting
  /\ signal \/ w \in late
  /\ waiting' = waiting \ {w}
  /\ late' = late \ {w}
  /\ signal' = FALSE

Next == Signal \/ \E w \in Waiters : Begin(w) \/ Expire(w) \/ Return(w)

Spec == Init /\ [][Next]_vars /\ WF_vars(\E w \in Waiters : Return(w))
=============================================================================
