SPECIFICATION FairSpec
CONSTANTS
  Keys = {k1, k2}
  NoKey = NoKey
  Handlers = {h1}
  Workers = {w1, w2}
  BatchSize = 2
  MaxAttempts = 2
  Faults = {"crash", "db"}
  MaxFaults = 1
PROPERTIES AcceptedIsDecided StreamDrains ImplementsLedger
