SPECIFICATION JournalSpec
CONSTANTS
  Saves = {a1, a2, a3}
  Convs = {b1, b2}
  Readers = {r1}
  Pids = {p1}
  Nothing = nothing
  Topics = {b1, b2}
  Paths = {c1, c2}
  Entries = {c1, c2}
  Shelved = {p1}
  Slug <- MCSlug
  Calls = {b1, b2}
  Nil = nil
  LastId = 2
  LastText = 2
  BatchSize = 1
  From = 1
  To = 2
  ServerVersions = {1, 2}
  Bearers = {t1}
  Requests = {a1, a2, a3}
  Ttl = 2
  Flight = 1
  LastTick = 4
  Streams = {a1, a2, a3}
  Cap = 2
  KeyTtl = 1
  LastHour = 2
  LastMissed = 1
  Txns = {b1, b2}
  LockTopics = {c1, c2}
  LockEntries = {1, 2}
  LockConvs = {1}
  Thread <- MCThread
  Span = 2
  Idle = idle
  SEntries = {a1, a2, a3}
  SConvs = {p1}
  Corruptions = {{p1}, {a1, a2, a3}}
  TopRank = 2
  Limit = 2
  Replicas = {b1, b2}
  UserIds = {c1, c2}
  Nobody = nobody
  Posts = {b1, b2}
  MaxAttempts = 2
  Window = 2
  Retention = 2
  LastTime = 3
  LastAttempt = 5
  LastRow = 3
  LastKey = 2
  PageSize = 1
  Writes = {b1, b2}
  Pending = pending
SYMMETRY Symmetry
INVARIANT JournalTypeOK
INVARIANT FilesMatchRows
INVARIANT OneSaveThroughout
INVARIANT BlockedByLateRows
INVARIANT TextsKeptUnlessOvertaken
INVARIANT FinishedRunCovers
INVARIANT AcceptedWhileAlive
INVARIANT FlightsLed
INVARIANT CapUnlessForgotten
INVARIANT TeardownCovers
 
INVARIANT HitsExplained
INVARIANT OperatorAgreed
INVARIANT AnswersFitShape
INVARIANT LimitHolds
INVARIANT PagesPartition
INVARIANT AuditFollowsWrites
PROPERTY DropCarriesRows
PROPERTY ImplementsSaves
CHECK_DEADLOCK FALSE
