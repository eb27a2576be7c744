CONSTANTS
  Guids = {g1, g2}
  NoGuid = noGuid
  None = none
  Settings <- Configurations
  Rejoins = TRUE
  MaxGeneration = 2
  MaxSession = 3
SPECIFICATION Spec
INVARIANTS
  GamesCountedAndSaved
  PendingWillCount
  SessionsAreSound
PROPERTIES
  LateResultSparesMatch
CHECK_DEADLOCK FALSE
