CONSTANTS
  w1 = w1
  q1 = q1
  q2 = q2
  Waiters = {w1}
  Callers = {c1}
  Queues = {q1}
  Owner <- OneQueue
  Capacity = 1
  Timeout = 100
  Forced = {0}
  NoForce = NoForce
  CountRange = 16
  MaxAhead = 2
SPECIFICATION LoopSpec
PROPERTY StopsWhenQuiet
CHECK_DEADLOCK FALSE
