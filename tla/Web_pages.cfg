SPECIFICATION Spec
CONSTANTS
    Accounts = {a, b}
    NoAccount = none
    MaxMoves = 2
    MaxClock = 3
    MaxAmount = 1
    MaxAsked = 1
    MaxInputs = 3
    MaxVersion = 2
    MaxDrops = 2
    MaxEdits = 3
    ActionIds = {1, 2}
    Locks = {t1, t2}
    MinDelay = 1
    GracePeriod = 1
    Delays = {1}
INVARIANTS
    TradeIsWhatWasShown
    PositionsBelongToWallet
    GateOpensForGranted
    GovernanceWaits
PROPERTY
    ViewConverges
CHECK_DEADLOCK FALSE
