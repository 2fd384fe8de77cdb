CONSTANTS
  Jobs = {j1, j2}
  Convs = {c1, c2}
  Sources = {s1}
  None = None
  Requests = {r1, r2}
  Uploads = {u1, u2}
  Pids = {p1, p2}
  u1 = u1
  u2 = u2
  p1 = p1
  p2 = p2
  c1 = c1
  c2 = c2
  s1 = s1
  s2 = s2
  PidOf <- SamePid
  ConvOf <- TwoConvs
  SourceOf <- OneSource
  Bodies <- Apart
  AgeCap = 4
  PendingThreshold = 3
  RunningThreshold = 2
  JobTimeout = 1
  LeaseTTL = 2
  MaxTries = 2
  MaxCrashes = 0
  MaxStops = 0
  MaxRestarts = 0
SPECIFICATION Spec
INVARIANTS OneActivePerSlot EntriesAtMostOnce
PROPERTIES SweepSparesLiveJob
SYMMETRY Interchangeable
