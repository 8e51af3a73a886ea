SPECIFICATION TreasurySpec
CONSTANTS
  s1 = s1
  s2 = s2
  pay = pay
  Strategies = {s1, s2}
  Payments = {pay}
  Safe = Safe
  Budget <- MCBudget
  MaxPerRun = 2
  TakeProfit = 100
  StopLoss = 50
  Prices = {1, 2}
  Unit = 1
  Amounts = {1}
  Reward = 2
  Genesis = 2
  MaxMoney = 3
  MaxShares = 4
  MaxBudget = 2
  MaxGiven = 1
SYMMETRY Symmetry
INVARIANTS
  LedgerExact
  NothingLeftBehind
PROPERTIES
  DepositKeepsWorth
  ExitKeepsWorth
CHECK_DEADLOCK FALSE
