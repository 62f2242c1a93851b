CONSTANTS
  Pubs = {p1, p2}
  Subs = {s1}
  Services = {}
  Waking = {}
  CacheCells = {c1, c2}
  None = None
SPECIFICATION SpinFairSpec
PROPERTY SwapReleases
