SPECIFICATION Spec
CONSTANTS
  Keys = {k1}
  NoKey = NoKey
  Handlers = {h1}
  Workers = {w1}
  BatchSize = 1
  MaxAttempts = 1
  Faults = {"refused"}
  MaxFaults = 1
INVARIANT AcceptedIsTracked
