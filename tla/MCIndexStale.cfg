CONSTANTS
  Entries = {1}
  Linked = {}
  Existing = {1}
  Texts = {a, b}
  None = None
  Tools = {t1, t2}
  Workers = {}
  BatchSize = 1
SPECIFICATION Spec
INVARIANTS NoStaleVector
SYMMETRY CallsAndTexts
