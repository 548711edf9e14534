SPECIFICATION Spec
CONSTANTS
  Events = {1,2,3,4,5,6,7,8,9,10}
  Event <- EventTable
  None = "none"
  CorrelationWindow = 60
  MinScore = 5
  MaxSpan = 90
  MinCohesion = 5
  TravelWindow = 60
  FatigueWindow = 10
  PrivilegeWindow = 60
  FatigueThreshold = 2
  Batches <- AllBatches
INVARIANTS TypeOK RowsAreExplained TravelIsCharged FatigueIsSeen PrivilegeIsSeen EdgesAreCompared
CHECK_DEADLOCK FALSE
