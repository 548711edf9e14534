SPECIFICATION Spec
CONSTANTS
  Users = {u1, u2}
  NoUser = NoUser
  Threads = {t1, t2}
  Tried = {"Disable", "Preserve"}
  Events = {"egress", "login", "later"}
  Groups <- TransferGroups
  Batches <- TakeoverBatches
  RiskScores = {60}
  AuthRequired = TRUE
  MaxApprovals = 1
  Faults = {"crash", "reply_lost"}
  MaxFaults = 1
SYMMETRY Symmetric
INVARIANTS TwoPersonControl ClaimsAreBacked
CHECK_DEADLOCK FALSE
