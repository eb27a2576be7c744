CONSTANTS
  Players = {}
  Accounts = {a1}
  Guids = {}
  NoRequest = none
  MaxRetries = 0
  MaxGeneration = 2
  MaxBatch = 2
  MaxJobs = 1
SPECIFICATION FairAccountSpec
PROPERTIES
  RefreshesEnd
