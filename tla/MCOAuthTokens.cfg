SPECIFICATION Spec
CONSTANTS
  Codes = {c1}
  Pairs = {p1, p2, p3}
  Requests = {r1, r2}
  None = None
  CodeTTL = 0
  AccessTTL = 0
  RefreshTTL = 1
  AgeCap = 2
SYMMETRY Symmetry
INVARIANTS RevokedMeansGone AccessHasRefresh OneLiveRefresh
PROPERTY UsableTokensKept
