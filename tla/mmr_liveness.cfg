CONSTANTS
  Players = {a1}
  Accounts = {a1}
  Guids = {g1}
  NoRequest = none
  MaxRetries = 1
  MaxGeneration = 1
  MaxBatch = 2
SPECIFICATION FairServiceSpec
PROPERTIES
  MatchRequestsEnd
  TrackedRequestsEnd
  StopReturns
