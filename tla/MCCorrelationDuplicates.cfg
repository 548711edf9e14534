SPECIFICATION Spec
CONSTANTS
  e1 = e1
  e2 = e2
  e3 = e3
  e4 = e4
  e5 = e5
  Events <- Telemetry
  Time <- Minutes
  User <- Users
  Related <- RelatedEvents
  Own <- OwnFlags
  Travel <- Logins
  Groups <- ConnectedGroups
  Window = 60
  MaxSpan = 90
  Batches <- AllBatches
  Pipelines = {p1}
  CaseIds = {1, 2}
INVARIANT NoDuplicates
CHECK_DEADLOCK FALSE
