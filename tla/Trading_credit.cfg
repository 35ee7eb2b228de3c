SPECIFICATION Spec
CONSTANTS
  Traders = {ann, bob}
  Markets <- TwoMarkets
  TradingFeeBps = 1000
  LpFeeShareBps = 0
  TreasuryFeeShareBps = 10000
  FEE_SCALE = 100
  Cash = 50
  Creators = {ann}
  Calls = {"sell", "fees", "repay", "liquidate"}
  Seeds = {20}
  Amounts = {6, 10}
  CreationFee = 0
  CreditLines <- OneLine
  PhasesUsed <- EndPhases
  Divisors = {1}
  MaxTrades = 3
INVARIANTS
  SetsBacked
  DebtWithinLimit
  DebtIsCreditUsed
CHECK_DEADLOCK FALSE
