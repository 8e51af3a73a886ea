SPECIFICATION FairSpec
CONSTANTS
  Digests = {d1, d2}
  NoDigest = NoDigest
  None = None
  Reserve = 2
  Costs = {1}
  DailyWei = 4
  MaxCrashes = 2
INVARIANTS
  NonceOnce
  BudgetCovers
  OkMeansExecuted
  BroadcastOnce
PROPERTIES
  JournalPromise
  JournalSettles
