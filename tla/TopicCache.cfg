CONSTANTS
  Pubs = {p1, p2}
  Subs = {s1}
  Services = {k1}
  Waking = {s1}
  CacheCells = {c1, c2}
  None = None
SPECIFICATION PushFairSpec
INVARIANTS TypeOK SnapshotAlive ObjectsAlive OneProducer OneCache NobodyMissed
PROPERTIES PushReturns SwapEndsWhenQuiet
