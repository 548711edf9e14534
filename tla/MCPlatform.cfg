SPECIFICATION PlatformSpec
CONSTANTS
  Versions = {"1.0", "1.1", "2.0"}
  Shipped = {"1.0", "1.1"}
  Requests = {r1, r2}
  Callers = {c1, c2}
  Attempts = 2
  Threshold = 2
  Recovery = 2
  Margin = 1
  MinCache = 1
  Life = 2
  CaseEvents = {e1, e2}
  Aged = {e1}
  Analysts = {a1, a2}
  Enrichers = {w1, w2}
  Dispositions = {"UNSET", "BENIGN_POSITIVE"}
  ClaimCap = 1
  MaxEntries = 2
  MaxBusy = 2
  EventIds = {1, 2, 3, 4, 5}
  Stamp <- Stamps
  Asked = {0, 2, 9}
  CursorCap = 3
  OffsetCap = 2
INVARIANTS PlatformTypeOK TypeMatchesPlaybook Containable TokenIsValid AnswersAreTrue CitesTheCase TrailIsExact FeedIsComplete
PROPERTIES RiskOnlyRises PromotionsAreSound CircuitRecovers
CHECK_DEADLOCK FALSE
