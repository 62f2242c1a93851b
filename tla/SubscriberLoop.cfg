CONSTANTS
  w1 = w1
  q1 = q1
  q2 = q2
  Waiters = {w1}
  Callers = {c1, c2}
  Queues = {q1, q2}
  Owner <- OneThread
  Capacity = 1
  Timeout = 100
  Forced = {1}
  NoForce = NoForce
  CountRange = 16
  MaxAhead = 2
SPECIFICATION LoopSpec
INVARIANTS TypeOK NoLostWakeup ForcedWakesSleeper
PROPERTIES DrainsWhenQuiet StopsWhenQuiet
CHECK_DEADLOCK FALSE
