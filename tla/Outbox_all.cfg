SPECIFICATION FairSpec
CONSTANTS
  Events = {e1, e2}
  Supported = {e1}
  Publishers = {p1, p2}
  Tokens = {1, 2, 3, 4}
  LeaseTime = 2
  RetryBase = 1
  RetryMax = 2
  NoToken = NoToken
  NoEvent = NoEvent
  MaxAttempts = 3
  BatchSize = 2
  MaxLag = 1
  Faults = {"crash", "redis", "db", "reply"}
INVARIANTS
  TypeOK
  SingleHolder
PROPERTIES
  FencedTransitions
  ImplementsHandoff
  EventuallySettled
