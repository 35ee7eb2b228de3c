SPECIFICATION FairSpec
CONSTANTS
  Users = {u1, u2}
  Members = {v1}
  MaxMarkets = 1
  MaxRequests = 1
  MaxCases = 1
  Expiry <- ExpiryAtOne
  DisputeWindow <- WindowOfOne
  BondAmount <- BondOfSeven
  Splits <- WithAndWithoutCouncil
  GovTransitions <- OperationalTransitions
  MaxTime = 6
  InitialBalance = 9
  DirectAmounts = {2}
  GovActs = {"pause", "split"}
  LoneFinalize = TRUE
  ReentryAllowed = FALSE
CHECK_DEADLOCK FALSE
INVARIANTS
  PhaseAgreement
  OfferedStepsTaken
PROPERTIES
  LifecycleImplemented
  ProposalsSettle
  OutcomesAreFinal
