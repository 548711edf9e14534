SPECIFICATION Spec
CONSTANTS
  Users = {u1, u2}
  NoUser = NoUser
  Threads = {t1}
  Tried = {"Disable", "BlockDestination", "Escalate"}
  Events = {"egress", "login", "later"}
  Groups <- TransferGroups
  Batches <- TakeoverBatches
  RiskScores = {20, 60}
  AuthRequired = TRUE
  MaxApprovals = 2
  Faults = {"crash", "rejected", "reply_lost"}
  MaxFaults = 2
SYMMETRY Symmetric
INVARIANTS TypeOK ContainedIsEarned ResidualMatches ExecutedOnce ConsumedWithSuccess
PROPERTIES ImplementsCaseLife
CHECK_DEADLOCK FALSE
