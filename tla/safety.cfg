CONSTANTS
  Callers = {"c1", "c2"}
  QueueLimit = 1
  MaxQueued = 4
  Readers = {"t1", "t2", "t3"}
  PoolSize = 2
  MaxCalls = 2
  NoThread = "nobody"
  Keys = {"lifetime", "recent"}
  JobLimit = 1
  MaxJobs = 3
  MaxDirect = 1
  LastTime = 4
  Gap = 1
  ChunkSize = 2
  MaxRestarts = 1
  MaxDeletes = 1
  Games = {"g1", "g2"}
  Unnamed = ""
  MaxReruns = 1
  MaxImports = 2
  MaxFailedChecks = 1
  Rows = {"a", "b", "c", "e"}
  Parent <- RowParents
  Nullable = {"e"}
  RepairPasses = 1
  NoRow = "-"
  FirstVersions = {0, 1, 11, 12}
  MaxStartups = 2
  PageSize = 1
  TotalRows = 2
  MaxQueries = 2
  MaxDetails = 2
  MaxMore = 1
  Files = {"f1"}
  BatchLimit = 1
  MaxAttempts = 2
  MaxCrashes = 1
  MaxTouches = 2
  MaxChanges = 2
  Refreshers = {"r1", "r2"}
  MaxTokens = 3
  MaxClicks = 2
  Requesters = {"render", "settings"}
  LastMoment = 3
  MaxChecks = 3
  HourInSteps = 2
  Versions <- SomeVersions
  MaxReleases = 2
  KeyCodes = {"k1", "k2", "k3"}
  DefaultKey <- KeysAtFirst
  MaxRebinds = 2
  MaxPresses = 1
  MaxUnplugs = 1
  MaxCaptures = 1
  MaxPushes = 2
  Credentials = {"c1", "c2"}
  NoCredential = ""
  MaxUpdates = 2
  MaxLaunches = 2
  MaxFailures = 1
  Milestones = {"m1", "m2"}
  Recorders = {"t1", "t2"}
  TicksAMinute = 2
  MaxOpen = 2
  LastTick = 3
  MaxStarts = 1
  Bodies <- SomeBodies
  RealStarts <- SeasonDays
  Players = {"a", "b"}
  MaxAge = 1
  MaxNotes = 2
  MaxPutAway = 1
  LastDay = 3
  MaxRuns = 2
  Regions = {"eu", "us"}
  NoRegion = ""
  Schedule <- Slots
  Lead = 2
  RefetchAfter = 2
  LastMinute = 3
  MaxSettings = 2
SPECIFICATION PartSpec
INVARIANTS
  WorkersSound
  QueriesAreCurrent
  SessionsRight
  TablesRight
  UploadsRight
  AccountRight
  InputRight
  SettingsRight
PROPERTIES
  StoredIsKept
  OrderIsKept
CHECK_DEADLOCK FALSE
