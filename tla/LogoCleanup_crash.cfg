SPECIFICATION FairSpec
CONSTANTS
  Keys = {k1}
  Workers = {w1, w2}
  LeaseTime = 5
  RetryBase = 1
  RetryMax = 4
  QueueDelay = 1
  JobAttempts = 3
  MaxStalls = 1
  MaxLag = 0
  Faults = {"crash"}
  NoKey = NoKey
  NoWorker = NoWorker
PROPERTIES
  CleanedOrGivenUp
