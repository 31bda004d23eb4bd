SPECIFICATION FairSpec
CONSTANTS
  Users = {u1}
  Organizations = {o1}
  Scopes = {c1}
  Requests = {p1, p2}
  Pages = {p1, p2}
  Person = u1
  Demands <- Routes
  Given = {"member"}
  Grants <- Refereeing
  Tokens = {t1, t2}
  Nonces = {n1, n2, n3, n4, n5, n6, n7, n8, n9, n10, n11}
  Offered <- Pursued
  MaxChanges = 2
  MaxLost = 1
  None = None
  Absent = Absent
  p1 = p1
  p2 = p2
  c1 = c1
INVARIANTS TypeOK PassesAreEarned PagesAreEarned RotationEndsTokens
PROPERTIES EventuallyLetIn
CHECK_DEADLOCK FALSE
