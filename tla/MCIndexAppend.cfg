CONSTANTS
  Entries = {1}
  Linked = {}
  Existing = {}
  Texts = {a, b}
  None = None
  Tools = {t1, t2}
  Workers = {}
  BatchSize = 1
SPECIFICATION Spec
INVARIANTS ReindexWouldHeal
SYMMETRY CallsAndTexts
