SPECIFICATION Spec
CONSTANTS
  amm = amm
  vault = vault
  Workers = {w1, w2}
  Contracts = {amm}
  Deployments <- OneDeployment
  StartLedger = 2
  Window = 2
  Margin = 1
  Limit = 2
  Pages = 3
  MaxLedger = 3
  MaxEvents = 2
  MaxFaults = 1
INVARIANTS
  TypeOK
  CheckpointCoversDispatch
  DispatchHasNoGap
PROPERTY LightTrafficIsIndexed
