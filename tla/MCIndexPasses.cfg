CONSTANTS
  Entries = {1, 2, 3}
  Linked = {}
  Existing = {1, 2, 3}
  Texts = {a}
  None = None
  Tools = {t1}
  Workers = {w1}
  BatchSize = 2
SPECIFICATION FairSpec
INVARIANTS PassDrains
PROPERTIES PassEnds
