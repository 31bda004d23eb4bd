SPECIFICATION Spec
CONSTANTS
  Uploads = {u1, u2}
  Faults = {"reply"}
INVARIANTS
  FailureKeepsLogo
SYMMETRY Interchangeable
CHECK_DEADLOCK FALSE
