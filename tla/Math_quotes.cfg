SPECIFICATION Spec
CONSTANT N = 30
INVARIANTS IsqrtIsFloorRoot QuotesWithinPool
PROPERTY BuyKeepsProduct
CHECK_DEADLOCK FALSE
