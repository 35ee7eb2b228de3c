SPECIFICATION DeskSpec
CONSTANTS
  Users = {u1, u2}
  Members = {v1}
  MaxMarkets = 1
  MaxRequests = 1
  MaxCases = 1
  Expiry <- ExpiryAtOne
  DisputeWindow <- WindowOfTwo
  BondAmount <- BondOfTen
  Splits <- DefaultSplit
  GovTransitions = {}
  MaxTime = 12
  InitialBalance = 20
  DirectAmounts = {}
  GovActs = {}
  LoneFinalize = FALSE
  ReentryAllowed = TRUE
CHECK_DEADLOCK FALSE
INVARIANT VotesCanBeRevealed
