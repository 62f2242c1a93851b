CONSTANTS
  Pubs = {p1, p2}
  Subs = {s1}
  Services = {}
  Waking = {}
  CacheCells = {c1, c2}
  None = None
  Capacity = 1
  SpuriousDrop = FALSE
  NoElement = NoElement
  MaxSeqno = 2
  Data <- Element
  NoData = NoElement
  Raw = Raw
  Requested = 1
  StaleLoads = FALSE
  Watched = s1
SPECIFICATION TopicRingSpec
PROPERTIES ImplementsRing ImplementsTopic
