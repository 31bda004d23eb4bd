CONSTANTS
  Challenges = {c1, c2}
  Emails = {e1}
  Bindings = {b1}
  Requests = {r1, r2}
  Attempts = 2
  RequestPoints = 1
  VerifyPoints = 2
  MaxLost = 1
  Faults = {"redis", "stop"}
  NoChallenge = NoChallenge
  NoKey = NoKey
SPECIFICATION Spec
SYMMETRY Interchangeable
INVARIANTS TypeOK GuessesBounded
PROPERTIES ImplementsOneTimeCode
