SPECIFICATION FairWSpec
CONSTANTS
  Deliveries = {d1}
  Transactional = {}
  Workers = {w1, w2}
  JobAttempts = 2
  MaxStalls = 1
  Lifetime = 1
  MaxLag = 1
  MaxUpsets = 2
  Upset = {w1}
  Faults = {"crash", "stall", "provider", "key", "db", "reply"}
  NoDelivery = NoDelivery
  NoWorker = NoWorker
INVARIANTS
  WTypeOK
  SuccessIsPersisted
  ClosesQuietly
PROPERTIES
  ImplementsMailing
  EventuallyAnswered
