SPECIFICATION Spec
CONSTANTS
  amm = amm
  vault = vault
  Workers = {w1}
  Contracts = {amm}
  Deployments <- OneDeployment
  StartLedger = 2
  Window = 2
  Margin = 1
  Limit = 3
  Pages = 2
  MaxLedger = 3
  MaxEvents = 1
  MaxFaults = 1
PROPERTY NoLedgerSkipped
