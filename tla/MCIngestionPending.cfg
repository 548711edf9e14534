SPECIFICATION FairSpec
CONSTANTS
  Keys = {k1}
  NoKey = NoKey
  Handlers = {h1}
  Workers = {w1}
  BatchSize = 1
  MaxAttempts = 1
  Faults = {"crash"}
  MaxFaults = 1
PROPERTY PendingIsRecovered
