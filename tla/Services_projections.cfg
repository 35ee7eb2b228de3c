SPECIFICATION Spec
CONSTANTS
  Users = {u1}
  Dispatchers = {d1}
  Jobs = {j1}
  MaxLedger = 2
  MaxFaults = 1
  MaxReplays = 1
  Replayed = {"amm.lpfee"}
  Transactions = {"buy", "provide", "claim", "liquidate", "escalate", "queue"}
INVARIANTS
  LabelsAreHonest
  ClaimsCountedOnce
PROPERTIES
  RowsConverge
