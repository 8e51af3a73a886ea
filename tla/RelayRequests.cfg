SPECIFICATION FairSpec
CONSTANTS
  t0 = t0
  Members = {t0}
  T0 = {t0}
  Instances = {i0}
  Operator <- MCOperator
  None = None
  Amount = 1
  FaucetCap = 2
  SettleLimit = 1
  MaxIntents = 2
  MaxChunks = 2
INVARIANTS
  FaucetCovered
  AnsweredRecorded
  ProposedOnce
PROPERTIES
  ExecuteGetsThrough
