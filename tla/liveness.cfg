CONSTANTS
  Callers = {"c1", "c2"}
  QueueLimit = 1
  MaxQueued = 2
  Readers = {"t1", "t2"}
  PoolSize = 1
  MaxCalls = 1
  NoThread = "nobody"
  Keys = {"lifetime"}
  JobLimit = 1
  MaxJobs = 2
  MaxDirect = 0
  PageSize = 1
  TotalRows = 1
  MaxQueries = 2
  MaxDetails = 1
  MaxMore = 1
  Files = {"f1", "f2"}
  BatchLimit = 1
  MaxAttempts = 1
  MaxCrashes = 0
  MaxTouches = 1
  MaxChanges = 0
  Refreshers = {"r1", "r2"}
  MaxTokens = 2
  MaxClicks = 1
  Requesters = {"render", "settings"}
  LastMoment = 2
  MaxChecks = 1
  HourInSteps = 2
  KeyCodes = {"k1", "k2"}
  DefaultKey <- KeysAtFirst
  MaxRebinds = 1
  MaxPresses = 1
  MaxUnplugs = 1
  MaxCaptures = 1
  MaxPushes = 0
  Credentials = {"c1"}
  NoCredential = ""
  MaxUpdates = 2
  MaxLaunches = 1
  MaxFailures = 1
  Milestones = {"m1", "m2"}
  Recorders = {"t1"}
  TicksAMinute = 1
  MaxOpen = 1
  LastTick = 0
  MaxStarts = 1
  Regions = {"eu"}
  NoRegion = ""
  Schedule <- Slots
  Lead = 1
  RefetchAfter = 2
  LastMinute = 1
  MaxSettings = 1
  LastMatch = 2
  Games <- TwoConceded
SPECIFICATION FairSpec
PROPERTIES
  NobodyWaitsForever
  AcceptedWorkIsDone
  InputSettles
CHECK_DEADLOCK FALSE
