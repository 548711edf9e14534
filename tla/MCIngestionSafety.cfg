SPECIFICATION Spec
CONSTANTS
  Keys = {k1, k2}
  NoKey = NoKey
  Handlers = {h1, h2}
  Workers = {w1, w2}
  BatchSize = 2
  MaxAttempts = 2
  Faults = {"crash", "refused", "reply_lost", "db"}
  MaxFaults = 2
SYMMETRY Symmetric
INVARIANTS TypeOK NothingLost CompletedIsStored OneLiveEntry DeadLetterEarned
VIEW AllButAnswers
