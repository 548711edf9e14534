SPECIFICATION Spec
CONSTANTS
  Users = {u1, u2}
  NoUser = NoUser
  Threads = {t1}
  Tried = {"Disable", "BlockDestination"}
  Events = {"egress", "login", "later"}
  Groups <- TransferGroups
  Batches <- NoBatches
  RiskScores = {60}
  AuthRequired = TRUE
  MaxApprovals = 2
  Faults = {}
  MaxFaults = 0
PROPERTIES ResolvedIsFinal
CHECK_DEADLOCK FALSE
