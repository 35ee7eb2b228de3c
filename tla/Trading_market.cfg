SPECIFICATION Spec
CONSTANTS
  Traders = {ann, bob}
  Markets <- OneMarket
  TradingFeeBps = 1000
  LpFeeShareBps = 5000
  TreasuryFeeShareBps = 3000
  FEE_SCALE = 100
  Cash = 60
  Creators = {ann, bob}
  Calls = {"liquidity", "fees", "sell", "transfer", "burn"}
  Seeds = {20}
  Amounts = {11}
  CreationFee = 1
  CreditLines <- NoCredit
  PhasesUsed <- Phases
  Divisors = {1}
  MaxTrades = 3
INVARIANTS
  TypeOK
  VaultHoldsBooks
  ClaimsCovered
  LpFeesCovered
  PoolHoldsReserves
SYMMETRY TraderSymmetry
CHECK_DEADLOCK FALSE
