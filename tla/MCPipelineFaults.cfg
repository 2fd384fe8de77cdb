CONSTANTS
  Jobs = {j1}
  Convs = {c1}
  Sources = {s1}
  None = None
  Requests = {r1}
  Uploads = {u1, u2}
  Pids = {p1, p2}
  u1 = u1
  u2 = u2
  p1 = p1
  p2 = p2
  c1 = c1
  c2 = c2
  s1 = s1
  s2 = s2
  PidOf <- PidOfTwin
  ConvOf <- OneConv
  SourceOf <- OneSource
  Bodies <- Together
  AgeCap = 3
  PendingThreshold = 2
  RunningThreshold = 2
  JobTimeout = 1
  LeaseTTL = 2
  MaxTries = 2
  MaxCrashes = 1
  MaxStops = 1
  MaxRestarts = 1
SPECIFICATION FairSpec
INVARIANTS CompletedMeansProcessed WorkerNeverAheadOfRow EntriesOncePerJob DoubleSettleHasCause ResponseAccounts
PROPERTIES ImplementsLifecycle EventuallyClosed
