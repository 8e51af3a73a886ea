SPECIFICATION FairGovSpec
CONSTANTS
  alice = alice
  bob = bob
  Members <- MCMembers
  Proposals = {1, 2}
  Unsettled = Unsettled
  MaxNow = 5
  MaxBalance = 2
  Genesis <- QueueGenesis
  InitialConfig <- QueueConfig
  Actions <- QueueActions
  Expirations = {0}
  Amounts = {2}
  MaxSupply = 2
  LastSubmit = 2
INVARIANTS
  QueueComplete
  NeverOvertakesPrev
PROPERTIES
  LifecycleKept
  EveryProposalEnds
CHECK_DEADLOCK FALSE
