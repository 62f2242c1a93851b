CONSTANTS
  Pubs = {p1}
  Subs = {s1}
  Services = {}
  Waking = {}
  CacheCells = {c1, c2}
  None = None
SPECIFICATION WeakSpec
INVARIANT NewPushesUseNewCache
