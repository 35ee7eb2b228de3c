SPECIFICATION Spec
CONSTANTS
  Users = {u1, u2}
  Members = {v1}
  MaxMarkets = 1
  MaxRequests = 1
  MaxCases = 1
  Expiry <- ExpiryAtOne
  DisputeWindow <- WindowOfOne
  BondAmount <- BondOfTen
  Splits <- DefaultSplit
  GovTransitions = {}
  MaxTime = 6
  InitialBalance = 20
  DirectAmounts = {}
  GovActs = {}
  LoneFinalize = FALSE
  ReentryAllowed = FALSE
CHECK_DEADLOCK FALSE
INVARIANT ReportNeverBlocked
