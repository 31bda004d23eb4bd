SPECIFICATION Spec
CONSTANTS
  Users = {u1, u2}
  Ids = {n1, n2}
  Sessions = {s1, s2}
  Requests = {r1, r2}
  Proofs = {p1}
  Discords = {d1}
  Emails = {e1, e2}
  Offered <- Everything
  None = None
SYMMETRY Interchangeable
INVARIANTS TypeOK MethodsConsistent SessionsHaveTheirMethod
PROPERTIES ChangedByALiveSession ImplementsCustody LinkedForAProof
CHECK_DEADLOCK FALSE
