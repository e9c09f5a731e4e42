SPECIFICATION Spec
CONSTANTS
  Tasks = {t1}
  Watched = t1
  MaxChannel = 3
  Tabs = {a, b}
  Requests = {r1, r2}
  MaxTokens = 3
  Images = {i1, i2, i3}
  Batches = {b1, b2}
  Sessions = {s1, s2}
  MaxImages = 2
  Checks = {c1, c2}
  MaxKeys = 2
  MaxMisses = 2
SYMMETRY Symmetry
CHECK_DEADLOCK FALSE
INVARIANTS
  
  ReferencesBelong
PROPERTIES
  SessionKept
  CallerRecognised
