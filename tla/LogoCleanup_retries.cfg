SPECIFICATION FairSpec
CONSTANTS
  Keys = {k1, k2}
  Workers = {w1, w2}
  LeaseTime = 5
  RetryBase = 1
  RetryMax = 4
  QueueDelay = 1
  JobAttempts = 3
  MaxStalls = 1
  MaxLag = 0
  Faults = {"storage"}
  NoKey = NoKey
  NoWorker = NoWorker
PROPERTIES
  CleanedOrGivenUp
