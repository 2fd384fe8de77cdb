CONSTANTS
  Entries = {1, 2}
  Linked = {2}
  Existing = {}
  Texts = {a, b}
  None = None
  Tools = {t1, t2}
  Workers = {w1}
  BatchSize = 2
SPECIFICATION Spec
INVARIANTS TypeOK StampMeansCurrent
SYMMETRY CallsAndTexts
