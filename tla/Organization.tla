---------------------------- MODULE Organization ----------------------------
(***************************************************************************)
(* Members, roles, ownership and invitations of one organization: the      *)
(* repository functions of packages/database/src/repositories/             *)
(* organizations.ts as the member and invitation services of the API call  *)
(* them.                                                                   *)
(*                                                                         *)
(* A request runs in steps that other requests interleave with.  Its       *)
(* caller's membership is read by the permission guard and again where the *)
(* transaction begins; one step stands for both, because the second read   *)
(* asks for less and whatever changes between the two may as well change   *)
(* after both ("begun").  Then, with one exception, the transaction takes  *)
(* the row lock of the organization, under which it checks and writes.     *)
(* The lock is held to the commit and every other writer of these tables   *)
(* takes it, so what happens under it is one step.  The exception is       *)
(* createInvitation, which takes no lock: it checks the inviter in one     *)
(* statement ("checked") and inserts in a later one.                       *)
(*                                                                         *)
(* Every transaction also appends its audit event and its outbox event.    *)
(* No function of the module reads them: they are left out.                *)
(***************************************************************************)
EXTENDS Naturals, FiniteSets

CONSTANTS
  Users,         \* accounts; a membership is identified by its user, because
                 \* (organization, user) is unique
  Addresses,     \* normalized email addresses
  Duties,        \* operational roles within a scope (role_assignments)
  Invitations,   \* invitation ids; whoever knows the token can name the id
  Requests,      \* concurrent requests in flight
  Offered,       \* the operations that clients call
  Mishaps,       \* what else happens, a subset of MishapKinds
  None           \* SQL null

MemberOperations == {"update", "remove", "transfer"}

InvitationOperations == {"resend", "withdraw", "accept"}

Operations == {"invite"} \cup MemberOperations \cup InvitationOperations

MishapKinds ==
  {"expiry",     \* invitations pass their expiry date
   "removal",    \* users remove a verified address
   "rollback"}   \* transactions fail

ASSUME OrganizationAssumption ==
  /\ Users # {}
  /\ None \notin Users \cup Addresses \cup Invitations
  /\ Offered \subseteq Operations
  /\ Mishaps \subseteq MishapKinds

VARIABLES
  member,        \* member[u]: the organization_memberships row of u
  invitation,    \* invitation[i]: the invitations row i
  verified,      \* verified[a]: the verified_emails row of address a
  request        \* request[r]: what the request in slot r has read so far

vars == <<member, invitation, verified, request>>

OrganizationRoles == {"owner", "admin", "member"}

InvitedRoles == {"admin", "member"}

Memberships ==
  [status : {"absent", "active", "revoked"}, role : OrganizationRoles,
   duties : SUBSET Duties]

NoMembership == [status |-> "absent", role |-> "member", duties |-> {}]

InvitationRows ==
  [state : {"absent", "open", "accepted", "revoked", "superseded"},
   lapsed : BOOLEAN, address : Addresses \cup {None}, role : InvitedRoles,
   duties : SUBSET Duties, acceptedBy : Users \cup {None}]

VerifiedEmails == [user : Users \cup {None}, live : BOOLEAN]

NoInvitation ==
  [state |-> "absent", lapsed |-> FALSE, address |-> None, role |-> "member",
   duties |-> {}, acceptedBy |-> None]

Calls ==
  [stage : {"free", "begun", "checked"},
   op : Operations \cup {"none"}, actor : Users \cup {None},
   target : Users \cup Addresses \cup Invitations \cup {None},
   role : InvitedRoles, duties : SUBSET Duties, timely : BOOLEAN]

NoCall ==
  [stage |-> "free", op |-> "none", actor |-> None, target |-> None,
   role |-> "member", duties |-> {}, timely |-> FALSE]

Init ==
  /\ member = [u \in Users |-> NoMembership]
  /\ invitation = [i \in Invitations |-> NoInvitation]
  /\ verified = [a \in Addresses |-> [user |-> None, live |-> FALSE]]
  /\ request = [r \in Requests |-> NoCall]

-----------------------------------------------------------------------------
(* What the statements select                                              *)

Active == {u \in Users : member[u].status = "active"}

Owners == {u \in Active : member[u].role = "owner"}

Managers == {u \in Active : member[u].role \in {"owner", "admin"}}

Open == {i \in Invitations : invitation[i].state = "open"}

Finish(r) == request' = [request EXCEPT ![r] = NoCall]

-----------------------------------------------------------------------------
(* A request up to its lock                                                *)

\* createOrganization: the founder becomes the owner.
Found(u) ==
  /\ \A v \in Users : member[v].status = "absent"
  /\ member' = [member EXCEPT ![u] = [@ EXCEPT !.status = "active",
                                               !.role = "owner"]]
  /\ UNCHANGED <<invitation, verified, request>>

\* What PermissionGuard demands of the caller.
Permitted(op, u) ==
  CASE op = "transfer" -> u \in Owners
    [] op = "accept" -> TRUE
    [] OTHER -> u \in Managers

TargetsOf(op) ==
  CASE op = "invite" -> Addresses
    [] op \in InvitationOperations ->
         {i \in Invitations : invitation[i].state # "absent"}
    [] OTHER -> {u \in Users : member[u].status # "absent"}

\* The guard lets the call pass, the service reads its clock and the
\* transaction finds the caller's membership.
Begin(r, op, u) ==
  /\ request[r].stage = "free"
  /\ Permitted(op, u)
  /\ \E t \in TargetsOf(op), role \in InvitedRoles, duties \in SUBSET Duties :
       /\ op \notin {"invite", "update"} => role = "member" /\ duties = {}
       /\ request' = [request EXCEPT ![r] =
            [stage |-> "begun", op |-> op, actor |-> u, target |-> t,
             role |-> role, duties |-> duties,
             timely |-> op \in InvitationOperations /\ ~invitation[t].lapsed]]
  /\ UNCHANGED <<member, invitation, verified>>

\* Whatever fails before the commit rolls everything back.
Abort(r) ==
  /\ "rollback" \in Mishaps
  /\ request[r].stage # "free"
  /\ Finish(r)
  /\ UNCHANGED <<member, invitation, verified>>

Begun(r, op) == request[r].stage = "begun" /\ request[r].op = op

-----------------------------------------------------------------------------
(* Invitations                                                             *)

\* createInvitation selects its inviter...
CheckInviter(r) ==
  /\ Begun(r, "invite")
  /\ IF request[r].actor \in Managers
     THEN request' = [request EXCEPT ![r].stage = "checked"]
     ELSE Finish(r)
  /\ UNCHANGED <<member, invitation, verified>>

\* invitations_active_organization_email_unique
AddressFree(a) == \A i \in Open : invitation[i].address # a

NewInvitation(address, role, duties) ==
  [state |-> "open", lapsed |-> FALSE, address |-> address, role |-> role,
   duties |-> duties, acceptedBy |-> None]

\* ... and inserts later, whatever has become of the inviter.  The unique index
\* counts expired invitations too.
InsertInvitation(r) ==
  LET call == request[r]
  IN  /\ call.stage = "checked"
      /\ \/ /\ AddressFree(call.target)
            /\ \E i \in Invitations :
                 /\ invitation[i].state = "absent"
                 /\ invitation' = [invitation EXCEPT ![i] =
                      NewInvitation(call.target, call.role, call.duties)]
         \/ ~AddressFree(call.target) /\ UNCHANGED invitation
      /\ Finish(r)
      /\ UNCHANGED <<member, verified>>

MayResend(call) == call.target \in Open /\ call.timely /\ call.actor \in Managers

\* Bug for the mutation checks: the previous invitation stays open.
ReissuedBeside(i, j) ==
  LET old == invitation[i]
  IN  [invitation EXCEPT ![j] = NewInvitation(old.address, old.role, old.duties)]

Reissued(i, j) ==
  LET old == invitation[i]
  IN  [invitation EXCEPT
         ![i] = [@ EXCEPT !.state = "superseded"],
         ![j] = NewInvitation(old.address, old.role, old.duties)]

\* resendInvitation: a replacement takes the place of the previous invitation.
Resend(r) ==
  LET call == request[r]
  IN  /\ Begun(r, "resend")
      /\ \/ /\ MayResend(call)
            /\ \E i \in Invitations :
                 /\ invitation[i].state = "absent"
                 /\ invitation' = Reissued(call.target, i)
         \/ ~MayResend(call) /\ UNCHANGED invitation
      /\ Finish(r)
      /\ UNCHANGED <<member, verified>>

\* Bug for the mutation checks: whatever its state, the row is revoked.
WithdrawableAlways(i) == invitation[i].state # "absent"

Withdrawable(i) == i \in Open

\* revokeInvitation checks the invitation but not again its actor.
Withdraw(r) ==
  LET i == request[r].target
  IN  /\ Begun(r, "withdraw")
      /\ \/ /\ Withdrawable(i)
            /\ invitation' = [invitation EXCEPT ![i].state = "revoked"]
         \/ ~Withdrawable(i) /\ UNCHANGED invitation
      /\ Finish(r)
      /\ UNCHANGED <<member, verified>>

\* Bug for the mutation checks: only an active membership stands in the way.
MayAcceptAgain(call) ==
  /\ call.target \in Open
  /\ call.timely
  /\ verified[invitation[call.target].address] =
       [user |-> call.actor, live |-> TRUE]
  /\ member[call.actor].status # "active"

\* Bug for the mutation checks: nobody looks at the expiry date.
MayAcceptExpired(call) ==
  /\ call.target \in Open
  /\ verified[invitation[call.target].address] =
       [user |-> call.actor, live |-> TRUE]
  /\ member[call.actor].status = "absent"

\* Bug for the mutation checks: the token alone is enough.
MayAcceptAnyAddress(call) ==
  /\ call.target \in Open
  /\ call.timely
  /\ member[call.actor].status = "absent"

MayAccept(call) ==
  /\ call.target \in Open
  /\ call.timely
  /\ verified[invitation[call.target].address] =
       [user |-> call.actor, live |-> TRUE]
  /\ member[call.actor].status = "absent"

\* Bug for the mutation checks: the invitation does not say who accepted it.
AcceptedByNobody(i, u) ==
  [invitation EXCEPT ![i] = [@ EXCEPT !.state = "accepted"]]

AcceptedBy(i, u) ==
  [invitation EXCEPT ![i] = [@ EXCEPT !.state = "accepted", !.acceptedBy = u]]

\* acceptInvitation
Accept(r) ==
  LET call == request[r]
      i == call.target
      u == call.actor
  IN  /\ Begun(r, "accept")
      /\ \/ /\ MayAccept(call)
            /\ member' = [member EXCEPT ![u] =
                 [status |-> "active", role |-> invitation[i].role,
                  duties |-> invitation[i].duties]]
            /\ invitation' = AcceptedBy(i, u)
         \/ ~MayAccept(call) /\ UNCHANGED <<member, invitation>>
      /\ Finish(r)
      /\ UNCHANGED verified

\* The invitation passes its expiry date.
Lapse(i) ==
  /\ "expiry" \in Mishaps
  /\ i \in Open
  /\ ~invitation[i].lapsed
  /\ invitation' = [invitation EXCEPT ![i].lapsed = TRUE]
  /\ UNCHANGED <<member, verified, request>>

-----------------------------------------------------------------------------
(* Members                                                                 *)

\* Bug for the mutation checks: off by one.
LeavesAnOwnerOffByOne(u) == u \in Owners => Cardinality(Owners) >= 1

\* Neither an update nor a removal may take the last active owner away.
LeavesAnOwner(u) == u \in Owners => Cardinality(Owners) > 1

\* Bug for the mutation checks: the actor read before the lock is trusted.
MayUpdateStale(call) ==
  /\ call.target \in Active
  /\ LeavesAnOwner(call.target)

MayUpdate(call) ==
  /\ call.target \in Active
  /\ call.actor \in Managers
  /\ call.target \in Owners => call.actor \in Owners
  /\ LeavesAnOwner(call.target)

\* updateMembershipRoles replaces the role and every active assignment.
Update(r) ==
  LET call == request[r]
  IN  /\ Begun(r, "update")
      /\ \/ /\ MayUpdate(call)
            /\ member' = [member EXCEPT ![call.target] =
                 [status |-> "active", role |-> call.role,
                  duties |-> call.duties]]
         \/ ~MayUpdate(call) /\ UNCHANGED member
      /\ Finish(r)
      /\ UNCHANGED <<invitation, verified>>

MayRemove(call) ==
  /\ call.target \in Active
  /\ call.actor \in Managers
  /\ LeavesAnOwner(call.target)

\* revokeMembership; the assignments stay in place.
Remove(r) ==
  LET call == request[r]
  IN  /\ Begun(r, "remove")
      /\ \/ /\ MayRemove(call)
            /\ member' = [member EXCEPT ![call.target] =
                 [@ EXCEPT !.status = "revoked"]]
         \/ ~MayRemove(call) /\ UNCHANGED member
      /\ Finish(r)
      /\ UNCHANGED <<invitation, verified>>

MayTransfer(call) ==
  /\ call.actor # call.target
  /\ call.actor \in Owners
  /\ call.target \in Active

\* Bug for the mutation checks: the previous owner keeps the role.
HandedOverKeepingRole(u, v) == [member EXCEPT ![v] = [@ EXCEPT !.role = "owner"]]

HandedOver(u, v) ==
  [member EXCEPT ![v] = [@ EXCEPT !.role = "owner"],
                 ![u] = [@ EXCEPT !.role = "member"]]

\* transferOwnership
Transfer(r) ==
  LET call == request[r]
  IN  /\ Begun(r, "transfer")
      /\ \/ /\ MayTransfer(call)
            /\ member' = HandedOver(call.actor, call.target)
         \/ ~MayTransfer(call) /\ UNCHANGED member
      /\ Finish(r)
      /\ UNCHANGED <<invitation, verified>>

-----------------------------------------------------------------------------
(* Verified addresses, which the identity module owns.  An address belongs *)
(* to the first user who verified it, even after it was removed, and a     *)
(* user has one at a time.                                                 *)

Verify(u, a) ==
  /\ verified[a].user = None
  /\ \A b \in Addresses : verified[b] # [user |-> u, live |-> TRUE]
  /\ verified' = [verified EXCEPT ![a] = [user |-> u, live |-> TRUE]]
  /\ UNCHANGED <<member, invitation, request>>

RemoveAddress(a) ==
  /\ "removal" \in Mishaps
  /\ verified[a].live
  /\ verified' = [verified EXCEPT ![a].live = FALSE]
  /\ UNCHANGED <<member, invitation, request>>

Serve(r) ==
  \/ \E op \in Offered, u \in Users : Begin(r, op, u)
  \/ Abort(r)
  \/ CheckInviter(r) \/ InsertInvitation(r)
  \/ Resend(r) \/ Withdraw(r) \/ Accept(r)
  \/ Update(r) \/ Remove(r) \/ Transfer(r)

Next ==
  \/ \E u \in Users : Found(u) \/ \E a \in Addresses : Verify(u, a)
  \/ \E a \in Addresses : RemoveAddress(a)
  \/ \E i \in Invitations : Lapse(i)
  \/ \E r \in Requests : Serve(r)

Spec == Init /\ [][Next]_vars

-----------------------------------------------------------------------------
(* Correctness                                                             *)

\* Types, and what the CHECK constraints of the schema demand of a row: exactly
\* the accepted invitations name the membership that accepted them.
TypeOK ==
  /\ member \in [Users -> Memberships]
  /\ invitation \in [Invitations -> InvitationRows]
  /\ verified \in [Addresses -> VerifiedEmails]
  /\ request \in [Requests -> Calls]
  /\ \A i \in Invitations :
       invitation[i].state = "accepted" <=> invitation[i].acceptedBy # None

\* From its foundation on an organization has exactly one active owner, however
\* updates, removals and transfers interleave.
SoleOwner ==
  (\E u \in Users : member[u].status # "absent") =>
    \E u \in Users : Owners = {u}

Accepted(i, u) ==
  invitation[i].state = "accepted" /\ invitation[i].acceptedBy = u

\* A token makes one membership and a membership comes from one token: apart
\* from the founder, users and accepted invitations correspond one to one.
SingleUse ==
  /\ \A u \in Users : \A i, j \in Invitations :
       Accepted(i, u) /\ Accepted(j, u) => i = j
  /\ \E founder \in Users : \A u \in Users \ {founder} :
       member[u].status # "absent" <=> \E i \in Invitations : Accepted(i, u)

\* Two calls never leave two invitations for one address that both work.
OneOpenInvitation ==
  \A i, j \in Open : invitation[i].address = invitation[j].address => i = j

\* A membership changes only at the hands of someone who is an active owner or
\* admin at the commit, and the owner's own only at the owner's: what the guard
\* and the transaction read before the lock is not relied on.
AuthorityAtCommit ==
  [][\A u \in Active : member'[u] # member[u] =>
       \E r \in Requests :
         /\ request'[r] # request[r]
         /\ request[r].actor \in Managers
         /\ u \in Owners => request[r].actor = u]_vars

\* The user is accepting the invitation and had asked before it expired.
AcceptsInTime(i, u) ==
  \E r \in Requests :
    /\ Begun(r, "accept")
    /\ request[r].target = i /\ request[r].actor = u
    /\ request[r].timely

\* Only the founder and users whose verified address was invited become members,
\* with the role and the duties of the invitation.  It may have expired while the
\* request waited for the lock, never before the request came.
JoinsByInvitation ==
  [][\A u \in Users \ Active : u \in Active' =>
       \/ \A v \in Users : member[v].status = "absent"
       \/ \E i \in Open :
            /\ AcceptsInTime(i, u)
            /\ verified[invitation[i].address] = [user |-> u, live |-> TRUE]
            /\ member'[u].role = invitation[i].role
            /\ member'[u].duties = invitation[i].duties
            /\ invitation'[i].acceptedBy = u]_vars

\* An invitation that was used, revoked or replaced never works again.
InvitationsAreFinal ==
  [][\A i \in Invitations :
       invitation[i].state \in {"accepted", "revoked", "superseded"} =>
         invitation'[i] = invitation[i]]_vars

\* The organization keeps the membership promises of module Membership.
M == INSTANCE Membership WITH
       owners <- Owners,
       members <- Active,
       former <- {u \in Users : member[u].status = "revoked"}

ImplementsMembership == M!Spec

\* The address of a used token belongs to the member it made, for ever, and an
\* address makes at most one member: whatever is removed, verified or invited
\* again later, the accepted rows still say who joined through which address.
AcceptedAddressIsTheirs ==
  /\ \A u \in Users : \A i \in Invitations :
       Accepted(i, u) => verified[invitation[i].address].user = u
  /\ \A i, j \in Invitations :
       /\ invitation[i].state = "accepted" /\ invitation[j].state = "accepted"
       /\ invitation[i].address = invitation[j].address
       => i = j

\* What the unlocked check of createInvitation (organizations.ts:425) may let
\* through, and no more: whoever issues an invitation belongs to the
\* organization or did until recently, and a replacement comes from somebody
\* who is an owner or admin at the commit.
InvitedFromWithin ==
  [][\A i \in Invitations :
       invitation[i].state = "absent" /\ invitation'[i].state # "absent" =>
         \E r \in Requests :
           /\ request'[r] # request[r]
           /\ member[request[r].actor].status # "absent"
           /\ \/ request[r].stage = "checked"
              \/ request[r].op = "resend" /\ request[r].actor \in Managers]_vars

\* The membership of somebody who left stays as it was when he left: no update,
\* transfer or later invitation touches it.
RevokedIsFinal ==
  [][\A u \in Users : member[u].status = "revoked" => member'[u] = member[u]]_vars

\* Nobody becomes an owner but the founder and whom the owner made one with a
\* transfer: no invitation and no update of roles confers ownership.
OwnershipIsHandedOver ==
  [][\A u \in Owners' \ Owners :
       \/ \A v \in Users : member[v].status = "absent"
       \/ /\ u \in Active
          /\ \E r \in Requests :
               /\ request'[r] # request[r]
               /\ request[r].op = "transfer" /\ request[r].target = u
               /\ Owners = {request[r].actor}]_vars

=============================================================================
