SPECIFICATION GovSpec
CONSTANTS
  alice = alice
  bob = bob
  Members <- MCMembers
  Proposals = {1}
  Unsettled = Unsettled
  MaxNow = 5
  MaxBalance = 3
  Genesis <- RetentionGenesis
  InitialConfig <- RetentionConfig
  Actions <- RetentionActions
  Expirations = {0, 4}
  Amounts = {1}
  MaxSupply = 3
  LastSubmit = 2
INVARIANTS
  TallyExact
PROPERTIES
  PassedMeansRetained
CHECK_DEADLOCK FALSE
