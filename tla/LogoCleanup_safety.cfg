SPECIFICATION Spec
CONSTANTS
  Keys = {k1}
  Workers = {w1, w2}
  LeaseTime = 4
  RetryBase = 1
  RetryMax = 4
  QueueDelay = 1
  JobAttempts = 3
  MaxStalls = 1
  MaxLag = 1
  Faults = {"crash", "stall", "storage", "db", "reply"}
  NoKey = NoKey
  NoWorker = NoWorker
SYMMETRY Interchangeable
INVARIANTS
  TypeOK
PROPERTIES
  ImplementsDisposal
