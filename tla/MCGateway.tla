----------------------------- MODULE MCGateway ------------------------------
EXTENDS Gateway, TLC

CONSTANTS p1, p2, c1

Pursued ==
  [p \in Pages |-> IF p = p1 THEN {"act"} ELSE Operations \ {"act"}]

Routes ==
  {[permission |-> "organization:members:manage", scope |-> None],
   [permission |-> "tournament:competition:manage", scope |-> c1]}

Refereeing == {[scope |-> c1, role |-> "referee"]}

=============================================================================
