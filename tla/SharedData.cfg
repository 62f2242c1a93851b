CONSTANTS
  Pubs = {p1, p2}
  Subs = {s1}
  Services = {}
  Waking = {s1}
  CacheCells = {c1, c2}
  None = None
  Capacity = 1
  SpuriousDrop = FALSE
  NoElement = NoElement
  MaxSeqno = 2
  Payloads = {x1, x2}
  NoPayload = NoPayload
SPECIFICATION SharedSpec
SYMMETRY Symmetry
INVARIANTS TopicTypeOK OwnOrder SeqnoOrder PayloadReturned
PROPERTY ImplementsDelivery
