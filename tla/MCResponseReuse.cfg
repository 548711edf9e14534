SPECIFICATION Spec
CONSTANTS
  Users = {u1, u2}
  NoUser = NoUser
  Threads = {t1, t2}
  Tried = {"Disable"}
  Events = {"egress", "login", "later"}
  Groups <- TransferGroups
  Batches <- NoBatches
  RiskScores = {60}
  AuthRequired = TRUE
  MaxApprovals = 1
  Faults = {}
  MaxFaults = 0
INVARIANTS SingleUse
CHECK_DEADLOCK FALSE
