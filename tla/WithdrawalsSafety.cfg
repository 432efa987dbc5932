SPECIFICATION Spec
CONSTANTS
  u1 = u1
  a1 = a1
  a2 = a2
  a3 = a3
  c1 = c1
  c2 = c2
  Users = {u1}
  Admins = {a1, a2, a3}
  NoAdmin = NoAdmin
  Callers = {c1, c2}
  None = None
  Amounts = {1, 2}
  Adjustments <- MCAdjustments
  MaxCash = 3
  MaxWithdrawals = 2
  RiskLevels = {"low"}
  MinAmount = 1
  MaxAmount = 2
  KycThreshold = 2
  DualThreshold = 2
  AutoMax = 2
  PayoutMode = "hybrid"
  Cooldown = TRUE
SYMMETRY Symmetry
INVARIANTS
  LockedCoversOpen
  PaidOrRefunded
  TwoApprovers
PROPERTIES
  SpendsOnlyAvailable
  SettledIsFinal
