CONSTANTS
  Pubs = {p1}
  Subs = {s1, s2}
  Names = {n1, n2}
  Types = {t1, t2}
  Wildcard = any
  Blank = Blank
  MaxTopics = 2
SPECIFICATION Spec
PROPERTY QueryReports
