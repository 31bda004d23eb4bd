SPECIFICATION Spec
CONSTANTS
  Events = {e1}
  Supported = {e1}
  Publishers = {p1, p2}
  Tokens = {1, 2, 3, 4}
  LeaseTime = 2
  RetryBase = 1
  RetryMax = 2
  NoToken = NoToken
  NoEvent = NoEvent
  MaxAttempts = 2
  BatchSize = 1
  MaxLag = 0
  Faults = {"db"}
INVARIANTS
  PublishingIsRecoverable
