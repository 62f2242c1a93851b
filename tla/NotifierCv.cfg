CONSTANTS
  Waiters = {w1, w2}
  Callers = {c1, c2}
  Timeout = 100
  Forced = {1}
  NoForce = NoForce
  CountRange = 16
  MaxAhead = 2
SPECIFICATION Spec
PROPERTY ImplementsEvent
