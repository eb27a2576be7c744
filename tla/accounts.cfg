CONSTANTS
  Players = {}
  Accounts = {a1}
  Guids = {}
  NoRequest = none
  MaxRetries = 1
  MaxGeneration = 2
  MaxBatch = 2
  MaxJobs = 3
SPECIFICATION AccountSpec
INVARIANTS
  AccountBookkeeping
  TablesMatchMemory
  RanksAreOfThisAccount
PROPERTIES
  KeepsPromise
