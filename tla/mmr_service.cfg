CONSTANTS
  Players = {a1}
  Accounts = {a1, a2}
  Guids = {}
  NoRequest = none
  MaxRetries = 1
  MaxGeneration = 2
  MaxBatch = 2
SPECIFICATION ServiceSpec
INVARIANTS
  ServiceTypeOK
  QueueHoldsOnlyCurrent
  SingleFlight
  NoOrphanEntry
  NoLookupDuringLockout
PROPERTIES
  RetryBudgetOnlyShrinks
  StaleRequestIsInert
  EventBeforeRelease
