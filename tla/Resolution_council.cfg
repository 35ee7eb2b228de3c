SPECIFICATION Spec
CONSTANTS
  Users = {u1, u2}
  Members = {v1, v2, v3}
  MaxMarkets = 1
  MaxRequests = 1
  MaxCases = 1
  Expiry <- ExpiryAtOne
  DisputeWindow <- WindowOfOne
  BondAmount <- BondOfTen
  Splits <- DefaultSplit
  GovTransitions = {}
  MaxTime = 6
  InitialBalance = 20
  DirectAmounts = {}
  GovActs = {"member", "sweep"}
  LoneFinalize = TRUE
  ReentryAllowed = TRUE
SYMMETRY Symmetry
CHECK_DEADLOCK FALSE
INVARIANTS
  TypeOK
  BondsFollowRequest
  CouncilDecides
  VaultCoversBonds
  TallyCountsReveals
  RewardsCovered
PROPERTIES
  SealedBallots
