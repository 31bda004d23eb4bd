SPECIFICATION FairSpec
CONSTANTS
  Uploads = {u1, u2, u3}
  Faults = {"crash", "put", "delete", "db"}
INVARIANTS
  TypeOK
  FailureKeepsLogo
  NothingLeaks
PROPERTIES
  ImplementsBranding
  EventuallyAnswered
CHECK_DEADLOCK FALSE
