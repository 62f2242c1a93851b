CONSTANTS
  Pubs = {p1}
  Subs = {s1}
  Names = {n1, n2}
  Types = {t1, t2}
  Wildcard = any
  Blank = Blank
  MaxTopics = 1
  MaxStrings = 3
  MaxPending = 1
SPECIFICATION ClientsSpec
SYMMETRY Symmetry
INVARIANTS TypeOK ClientsAgree TracesNamed
PROPERTY GraphShowsMembers
