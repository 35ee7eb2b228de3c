SPECIFICATION Spec
CONSTANTS
  Users = {u1}
  MaxAttempts = 2
  Validity = 3
  ResourceFees = {500000}
  Requests = {r1, r2}
  NoRequest = NoRequest
  BaseFee = 2000000
  MaxTotalFee = 10000000
  MaxResourceFee = 8000000
  MaxPerMinute = 1
  MaxPerIpMinute = 2
  DailyBudget = 5000000
  LockTtl = 2
  ReplayTtl = 3
  ConfirmationTimeout = 1
  PollTime = 1
  MaxDays = 2
  MaxFaults = 1
INVARIANTS
  TypeOK
  BudgetCoversSubmissions
  SuccessIsApplied
  NoSilentCharge
  AppWritesAccepted
CHECK_DEADLOCK FALSE
