----------------------------- MODULE Membership -----------------------------
(***************************************************************************)
(* What an organization promises about who belongs to it: it has one owner *)
(* for ever, the owner changes only by a transfer to a member, the owner   *)
(* cannot leave, and who has left does not come back.  Everything about    *)
(* invitations, roles and concurrent requests is abstracted away.          *)
(***************************************************************************)
CONSTANT Users

VARIABLES
  owners,    \* the active owners: none before the foundation, then one
  members,   \* the active members, the owner among them
  former     \* users whose membership was revoked

vars == <<owners, members, former>>

Init == owners = {} /\ members = {} /\ former = {}

Found(u) ==
  /\ members = {} /\ former = {}
  /\ owners' = {u} /\ members' = {u}
  /\ UNCHANGED former

Join(u) ==
  /\ owners # {}
  /\ u \notin members \cup former
  /\ members' = members \cup {u}
  /\ UNCHANGED <<owners, former>>

Leave(u) ==
  /\ u \in members \ owners
  /\ members' = members \ {u}
  /\ former' = former \cup {u}
  /\ UNCHANGED owners

Transfer(u, v) ==
  /\ owners = {u} /\ v \in members \ {u}
  /\ owners' = {v}
  /\ UNCHANGED <<members, former>>

Next ==
  \E u \in Users :
    \/ Found(u) \/ Join(u) \/ Leave(u)
    \/ \E v \in Users : Transfer(u, v)

Spec == Init /\ [][Next]_vars

=============================================================================
