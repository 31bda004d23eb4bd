CONSTANTS
  Users = {u1, u2, u3}
  Addresses = {a1}
  Duties = {}
  Invitations = {i1, i2}
  Requests = {r1, r2}
  Offered = {"invite", "resend", "withdraw", "accept", "update", "remove", "transfer"}
  Mishaps = {"rollback", "expiry", "removal"}
  None = None
SPECIFICATION Spec
SYMMETRY Interchangeable
INVARIANTS TypeOK SoleOwner SingleUse OneOpenInvitation
PROPERTIES AuthorityAtCommit ImplementsMembership InvitationsAreFinal JoinsByInvitation
CHECK_DEADLOCK FALSE
