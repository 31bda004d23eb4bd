------------------------- MODULE OrganizationProofs -------------------------
(***************************************************************************)
(* Proofs about Organization for any number of users, addresses, duties,   *)
(* invitations and concurrent requests, whichever operations are offered   *)
(* and whatever mishaps occur.                                             *)
(***************************************************************************)
EXTENDS Organization, FiniteSetTheorems, TLAPS

Founded == \E u \in Users : member[u].status # "absent"

\* A request in flight names what its operation works on.
CallOK(call) ==
  /\ call.op = "invite" => call.actor \in Users /\ call.target \in Addresses
  /\ call.op \in MemberOperations =>
       call.actor \in Users /\ call.target \in Users
  /\ call.op \in InvitationOperations =>
       call.actor \in Users /\ call.target \in Invitations
  /\ call.stage = "checked" => call.op = "invite"

CallsOK == \A r \in Requests : CallOK(request[r])

\* Nobody invites before the organization exists.
InvitesAfterFoundation ==
  /\ \A i \in Invitations : invitation[i].state # "absent" => Founded
  /\ \A r \in Requests : request[r].op = "invite" => Founded

\* Who has accepted an invitation is, or was, a member.
AcceptedAreMembers ==
  \A u \in Users : \A i \in Invitations :
    Accepted(i, u) => member[u].status # "absent"

\* The inductive invariant.
IInv ==
  /\ TypeOK
  /\ CallsOK
  /\ InvitesAfterFoundation
  /\ SoleOwner
  /\ AcceptedAreMembers
  /\ SingleUse
  /\ OneOpenInvitation

-----------------------------------------------------------------------------
(* What a step may do to the memberships.                                  *)

OthersKept(u) == \A v \in Users \ {u} : member'[v] = member[v]

Founds(u) ==
  /\ \A v \in Users : member[v].status = "absent"
  /\ member'[u].status = "active" /\ member'[u].role = "owner"
  /\ OthersKept(u)

Joins(u) ==
  /\ member[u].status = "absent"
  /\ member'[u].status = "active" /\ member'[u].role \in InvitedRoles
  /\ OthersKept(u)

Reassigned(u) ==
  /\ u \in Active \ Owners
  /\ member'[u].status = "active" /\ member'[u].role \in InvitedRoles
  /\ OthersKept(u)

Leaves(u) ==
  /\ u \in Active \ Owners
  /\ member'[u].status = "revoked"
  /\ OthersKept(u)

HandsOver(u, v) ==
  /\ Owners = {u} /\ v \in Active \ {u}
  /\ member'[u].status = "active" /\ member'[u].role = "member"
  /\ member'[v].status = "active" /\ member'[v].role = "owner"
  /\ \A w \in Users \ {u, v} : member'[w] = member[w]

\* The last owner passes neither check that an update or a removal makes.
LEMMA OwnerStays ==
  ASSUME IInv, NEW u \in Owners
  PROVE  Owners = {u} /\ ~LeavesAnOwner(u)
<1>1. u \in Users /\ member[u].status = "active"
  BY DEF Owners, Active
<1>2. Owners = {u}
  BY <1>1 DEF IInv, SoleOwner
<1>3. Cardinality({u}) = 1
  BY FS_Singleton
<1> QED
  BY <1>2, <1>3 DEF LeavesAnOwner

LEMMA AcceptJoins ==
  ASSUME IInv, NEW r \in Requests, Accept(r), member' # member
  PROVE  /\ MayAccept(request[r])
         /\ request[r].actor \in Users /\ request[r].target \in Invitations
         /\ Joins(request[r].actor)
         /\ invitation' = AcceptedBy(request[r].target, request[r].actor)
<1>1. /\ MayAccept(request[r])
      /\ invitation' = AcceptedBy(request[r].target, request[r].actor)
      /\ member' = [member EXCEPT ![request[r].actor] =
           [status |-> "active", role |-> invitation[request[r].target].role,
            duties |-> invitation[request[r].target].duties]]
  BY DEF Accept
<1>2. request[r].actor \in Users /\ request[r].target \in Invitations
  BY DEF Accept, Begun, IInv, CallsOK, CallOK, InvitationOperations
<1>3. invitation[request[r].target].role \in InvitedRoles
  BY <1>2 DEF IInv, TypeOK, InvitationRows
<1> QED
  BY <1>1, <1>2, <1>3 DEF Joins, OthersKept, MayAccept, IInv, TypeOK

LEMMA UpdateReassigns ==
  ASSUME IInv, NEW r \in Requests, Update(r), member' # member
  PROVE  MayUpdate(request[r]) /\ Reassigned(request[r].target)
<1>1. /\ MayUpdate(request[r])
      /\ member' = [member EXCEPT ![request[r].target] =
           [status |-> "active", role |-> request[r].role,
            duties |-> request[r].duties]]
  BY DEF Update
<1>2. request[r].target \in Users /\ request[r].role \in InvitedRoles
  BY DEF Update, Begun, IInv, CallsOK, CallOK, MemberOperations, TypeOK, Calls
<1>3. request[r].target \in Active \ Owners
  BY <1>1, OwnerStays DEF MayUpdate
<1> QED
  BY <1>1, <1>2, <1>3 DEF Reassigned, OthersKept, IInv, TypeOK

LEMMA RemoveLeaves ==
  ASSUME IInv, NEW r \in Requests, Remove(r), member' # member
  PROVE  MayRemove(request[r]) /\ Leaves(request[r].target)
<1>1. /\ MayRemove(request[r])
      /\ member' = [member EXCEPT ![request[r].target] =
           [@ EXCEPT !.status = "revoked"]]
  BY DEF Remove
<1>2. request[r].target \in Users
  BY DEF Remove, Begun, IInv, CallsOK, CallOK, MemberOperations
<1>3. request[r].target \in Active \ Owners
  BY <1>1, OwnerStays DEF MayRemove
<1> QED
  BY <1>1, <1>2, <1>3 DEF Leaves, OthersKept, IInv, TypeOK, Memberships

LEMMA TransferHandsOver ==
  ASSUME IInv, NEW r \in Requests, Transfer(r), member' # member
  PROVE  HandsOver(request[r].actor, request[r].target)
<1>1. /\ MayTransfer(request[r])
      /\ member' = HandedOver(request[r].actor, request[r].target)
  BY DEF Transfer
<1>2. request[r].actor \in Users /\ request[r].target \in Users
  BY DEF Transfer, Begun, IInv, CallsOK, CallOK, MemberOperations
<1>3. /\ Owners = {request[r].actor}
      /\ request[r].target \in Active \ {request[r].actor}
  BY <1>1, OwnerStays DEF MayTransfer
<1>4. member[request[r].actor].status = "active"
      /\ member[request[r].target].status = "active"
  BY <1>3 DEF Owners, Active
<1> QED
  BY <1>1, <1>2, <1>3, <1>4
     DEF HandsOver, HandedOver, IInv, TypeOK, Memberships

LEMMA FoundFounds ==
  ASSUME IInv, NEW u \in Users, Found(u)
  PROVE  Founds(u)
BY DEF Found, Founds, OthersKept, IInv, TypeOK, Memberships

\* Every step changes the memberships in one of these five ways, or not at all.
LEMMA MemberSteps ==
  ASSUME IInv, Next, member' # member
  PROVE  \/ \E u \in Users : Founds(u)
         \/ \E r \in Requests : Accept(r)
         \/ \E u \in Users : Reassigned(u)
         \/ \E u \in Users : Leaves(u)
         \/ \E u, v \in Users : HandsOver(u, v)
<1>1. CASE \E u \in Users : Found(u)
  BY <1>1, FoundFounds
<1>2. CASE \E u \in Users, a \in Addresses : Verify(u, a)
  BY <1>2 DEF Verify
<1>3. CASE \E a \in Addresses : RemoveAddress(a)
  BY <1>3 DEF RemoveAddress
<1>4. CASE \E i \in Invitations : Lapse(i)
  BY <1>4 DEF Lapse
<1>5. ASSUME NEW r \in Requests, Serve(r)
      PROVE  \/ Accept(r)
             \/ \E u \in Users : Reassigned(u)
             \/ \E u \in Users : Leaves(u)
             \/ \E u, v \in Users : HandsOver(u, v)
  <2>1. CASE \E op \in Offered, u \in Users : Begin(r, op, u)
    BY <2>1 DEF Begin
  <2>2. CASE Abort(r) \/ CheckInviter(r) \/ InsertInvitation(r)
    BY <2>2 DEF Abort, CheckInviter, InsertInvitation
  <2>3. CASE Resend(r) \/ Withdraw(r)
    BY <2>3 DEF Resend, Withdraw
  <2>4. CASE Update(r)
    BY <2>4, UpdateReassigns DEF Reassigned, Active
  <2>5. CASE Remove(r)
    BY <2>5, RemoveLeaves DEF Leaves, Active
  <2>6. CASE Transfer(r)
    BY <2>6, TransferHandsOver DEF HandsOver, Active, Owners
  <2> QED
    BY <1>5, <2>1, <2>2, <2>3, <2>4, <2>5, <2>6 DEF Serve
<1> QED
  BY <1>1, <1>2, <1>3, <1>4, <1>5 DEF Next

-----------------------------------------------------------------------------
(* Ownership                                                               *)

LEMMA OwnerPreserved ==
  ASSUME IInv, Next
  PROVE  SoleOwner' /\ (Founded => Founded')
<1>1. CASE member' = member
  BY <1>1 DEF IInv, SoleOwner, Owners, Active, Founded
<1>2. ASSUME NEW u \in Users, Founds(u)
      PROVE  Owners' = {u} /\ Founded'
  BY <1>2 DEF Founds, OthersKept, Owners, Active, Founded
<1>3. ASSUME NEW u \in Users, Founded, OthersKept(u), u \notin Owners,
             member'[u].status \in {"active", "revoked"},
             member'[u].status = "active" => member'[u].role \in InvitedRoles
      PROVE  Owners' = Owners /\ Founded'
  BY <1>3 DEF OthersKept, Owners, Active, Founded, InvitedRoles
<1>4. ASSUME NEW r \in Requests, Accept(r), member' # member
      PROVE  Owners' = Owners /\ Founded /\ Founded'
  <2>1. Joins(request[r].actor) /\ request[r].actor \in Users
    BY <1>4, AcceptJoins
  <2>2. request[r].target \in Open
    BY <1>4, AcceptJoins DEF MayAccept
  <2>3. Founded
    BY <2>2 DEF IInv, InvitesAfterFoundation, Open
  <2>4. request[r].actor \notin Owners
    BY <2>1 DEF Joins, Owners, Active
  <2> QED
    BY <1>3, <2>1, <2>3, <2>4 DEF Joins
<1>5. ASSUME NEW u \in Users, Reassigned(u) \/ Leaves(u)
      PROVE  Owners' = Owners /\ Founded /\ Founded'
  <2>1. Founded
    BY <1>5 DEF Reassigned, Leaves, Founded, Active
  <2> QED
    BY <1>3, <1>5, <2>1 DEF Reassigned, Leaves
<1>6. ASSUME NEW u \in Users, NEW v \in Users, HandsOver(u, v)
      PROVE  Owners' = {v} /\ Founded'
  <2>1. \A w \in Users \ {u, v} : w \notin Owners'
    BY <1>6 DEF HandsOver, Owners, Active
  <2>2. u \notin Owners' /\ v \in Owners'
    BY <1>6 DEF HandsOver, Owners, Active
  <2>3. Founded'
    BY <1>6 DEF HandsOver, Founded
  <2> QED
    BY <2>1, <2>2, <2>3 DEF Owners, Active
<1> QED
  BY <1>1, <1>2, <1>4, <1>5, <1>6, MemberSteps DEF IInv, SoleOwner, Founded

-----------------------------------------------------------------------------
(* Types                                                                   *)

LEMMA NoCallIsCall == NoCall \in Calls /\ CallOK(NoCall)
BY DEF NoCall, Calls, CallOK, InvitedRoles, MemberOperations,
       InvitationOperations

LEMMA BeginTypes ==
  ASSUME IInv, NEW r \in Requests, NEW op \in Offered, NEW u \in Users,
         Begin(r, op, u)
  PROVE  request' \in [Requests -> Calls] /\ CallsOK'
<1>1. PICK t \in TargetsOf(op) : \E role \in InvitedRoles, duties \in SUBSET Duties :
        request' = [request EXCEPT ![r] =
            [stage |-> "begun", op |-> op, actor |-> u, target |-> t,
             role |-> role, duties |-> duties,
             timely |-> op \in InvitationOperations /\ ~invitation[t].lapsed]]
  BY DEF Begin
<1>2. PICK role \in InvitedRoles, duties \in SUBSET Duties :
        request' = [request EXCEPT ![r] =
            [stage |-> "begun", op |-> op, actor |-> u, target |-> t,
             role |-> role, duties |-> duties,
             timely |-> op \in InvitationOperations /\ ~invitation[t].lapsed]]
  BY <1>1
<1>3. op \in Operations
  BY OrganizationAssumption
<1>4. /\ op = "invite" => t \in Addresses
      /\ op \in InvitationOperations => t \in Invitations
      /\ op \in MemberOperations => t \in Users
  BY DEF TargetsOf, InvitationOperations, MemberOperations
<1>5. t \in Users \cup Addresses \cup Invitations
  BY <1>3, <1>4 DEF Operations
<1>6. op \in InvitationOperations => invitation[t].lapsed \in BOOLEAN
  BY <1>4 DEF IInv, TypeOK, InvitationRows
<1> DEFINE timely == op \in InvitationOperations /\ ~invitation[t].lapsed
           call == [stage |-> "begun", op |-> op, actor |-> u, target |-> t,
                    role |-> role, duties |-> duties, timely |-> timely]
<1>7. timely \in BOOLEAN
  BY Zenon
<1> HIDE DEF timely
<1>8. call \in Calls /\ CallOK(call)
  BY <1>2, <1>3, <1>4, <1>5, <1>7 DEF Calls, CallOK
<1>9. request' = [request EXCEPT ![r] = call]
  BY <1>2 DEF timely
<1> HIDE DEF call
<1> QED
  BY <1>8, <1>9 DEF IInv, TypeOK, CallsOK

LEMMA FinishTypes ==
  ASSUME IInv, NEW r \in Requests, Finish(r)
  PROVE  request' \in [Requests -> Calls] /\ CallsOK'
BY NoCallIsCall DEF Finish, IInv, TypeOK, CallsOK

LEMMA CheckTypes ==
  ASSUME IInv, NEW r \in Requests, CheckInviter(r)
  PROVE  request' \in [Requests -> Calls] /\ CallsOK'
<1>1. CASE Finish(r)
  BY <1>1, FinishTypes
<1>2. CASE request' = [request EXCEPT ![r].stage = "checked"]
  <2>1. request[r] \in Calls /\ CallOK(request[r]) /\ request[r].op = "invite"
    BY DEF IInv, TypeOK, CallsOK, CheckInviter, Begun
  <2>2. /\ [request[r] EXCEPT !.stage = "checked"] \in Calls
        /\ CallOK([request[r] EXCEPT !.stage = "checked"])
    BY <2>1 DEF Calls, CallOK
  <2>3. request' = [request EXCEPT ![r] = [request[r] EXCEPT !.stage = "checked"]]
    BY <1>2 DEF IInv, TypeOK
  <2> QED
    BY <2>2, <2>3 DEF IInv, TypeOK, CallsOK
<1> QED
  BY <1>1, <1>2 DEF CheckInviter

LEMMA RequestTypes ==
  ASSUME IInv, Next
  PROVE  request' \in [Requests -> Calls] /\ CallsOK'
<1>1. ASSUME UNCHANGED request
      PROVE  request' \in [Requests -> Calls] /\ CallsOK'
  BY <1>1 DEF IInv, TypeOK, CallsOK
<1>2. ASSUME NEW r \in Requests, Serve(r)
      PROVE  request' \in [Requests -> Calls] /\ CallsOK'
  <2>1. CASE \E op \in Offered, u \in Users : Begin(r, op, u)
    BY <2>1, BeginTypes
  <2>2. CASE CheckInviter(r)
    BY <2>2, CheckTypes
  <2>3. CASE \/ Abort(r) \/ InsertInvitation(r) \/ Resend(r) \/ Withdraw(r)
             \/ Accept(r) \/ Update(r) \/ Remove(r) \/ Transfer(r)
    <3>1. Finish(r)
      BY <2>3 DEF Abort, InsertInvitation, Resend, Withdraw, Accept, Update,
                  Remove, Transfer
    <3> QED
      BY <3>1, FinishTypes
  <2> QED
    BY <1>2, <2>1, <2>2, <2>3 DEF Serve
<1> QED
  BY <1>1, <1>2 DEF Next, Found, Verify, RemoveAddress, Lapse

LEMMA MemberTypes ==
  ASSUME IInv, Next
  PROVE  member' \in [Users -> Memberships]
<1> USE DEF IInv, TypeOK
<1>1. ASSUME UNCHANGED member
      PROVE  member' \in [Users -> Memberships]
  BY <1>1
<1>2. ASSUME NEW u \in Users, Found(u)
      PROVE  member' \in [Users -> Memberships]
  BY <1>2 DEF Found, Memberships, OrganizationRoles
<1>3. ASSUME NEW r \in Requests, Accept(r)
      PROVE  member' \in [Users -> Memberships]
  <2>1. CASE UNCHANGED member
    BY <2>1
  <2>2. CASE member' # member
    <3>1. request[r].actor \in Users /\ request[r].target \in Invitations
      BY <1>3, <2>2, AcceptJoins
    <3>2. invitation[request[r].target] \in InvitationRows
      BY <3>1
    <3>3. member' = [member EXCEPT ![request[r].actor] =
            [status |-> "active", role |-> invitation[request[r].target].role,
             duties |-> invitation[request[r].target].duties]]
      BY <1>3, <2>2 DEF Accept
    <3> QED
      BY <3>1, <3>2, <3>3 DEF Memberships, InvitationRows, InvitedRoles,
                              OrganizationRoles
  <2> QED
    BY <2>1, <2>2
<1>4. ASSUME NEW r \in Requests, Update(r)
      PROVE  member' \in [Users -> Memberships]
  <2>1. request[r] \in Calls
    OBVIOUS
  <2> QED
    BY <1>4, <2>1 DEF Update, Memberships, Calls, InvitedRoles, OrganizationRoles
<1>5. ASSUME NEW r \in Requests, Remove(r) \/ Transfer(r)
      PROVE  member' \in [Users -> Memberships]
  BY <1>5 DEF Remove, Transfer, HandedOver, Memberships, OrganizationRoles
<1> QED
  BY <1>1, <1>2, <1>3, <1>4, <1>5
     DEF Next, Verify, RemoveAddress, Lapse, Serve, Begin, Abort, CheckInviter,
         InsertInvitation, Resend, Withdraw

LEMMA VerifiedTypes ==
  ASSUME IInv, Next
  PROVE  verified' \in [Addresses -> VerifiedEmails]
<1> USE DEF IInv, TypeOK
<1>1. ASSUME NEW u \in Users, NEW a \in Addresses, Verify(u, a)
      PROVE  verified' \in [Addresses -> VerifiedEmails]
  BY <1>1 DEF Verify, VerifiedEmails
<1>2. ASSUME NEW a \in Addresses, RemoveAddress(a)
      PROVE  verified' \in [Addresses -> VerifiedEmails]
  BY <1>2 DEF RemoveAddress, VerifiedEmails
<1>3. ASSUME UNCHANGED verified
      PROVE  verified' \in [Addresses -> VerifiedEmails]
  BY <1>3
<1> QED
  BY <1>1, <1>2, <1>3
     DEF Next, Found, Lapse, Serve, Begin, Abort, CheckInviter,
         InsertInvitation, Resend, Withdraw, Accept, Update, Remove, Transfer

-----------------------------------------------------------------------------
(* What a step may do to the invitations.                                  *)

RestKept(i) == \A k \in Invitations \ {i} : invitation'[k] = invitation[k]

\* A new invitation to an address that no open one names.
Issues(i, a) ==
  /\ invitation[i].state = "absent" /\ AddressFree(a) /\ Founded
  /\ invitation'[i] \in InvitationRows
  /\ invitation'[i].state = "open" /\ invitation'[i].address = a
  /\ invitation'[i].acceptedBy = None
  /\ RestKept(i)

Reissues(i, j) ==
  /\ i \in Open /\ invitation[j].state = "absent"
  /\ invitation'[i] = [invitation[i] EXCEPT !.state = "superseded"]
  /\ invitation'[j] \in InvitationRows
  /\ invitation'[j].state = "open"
  /\ invitation'[j].address = invitation[i].address
  /\ invitation'[j].acceptedBy = None
  /\ \A k \in Invitations \ {i, j} : invitation'[k] = invitation[k]

Revokes(i) ==
  /\ i \in Open
  /\ invitation'[i] = [invitation[i] EXCEPT !.state = "revoked"]
  /\ RestKept(i)

Lapses(i) ==
  /\ i \in Open
  /\ invitation'[i] = [invitation[i] EXCEPT !.lapsed = TRUE]
  /\ RestKept(i)

IsAcceptedBy(i, u) ==
  /\ i \in Open
  /\ invitation'[i] = [invitation[i] EXCEPT !.state = "accepted",
                                            !.acceptedBy = u]
  /\ RestKept(i)
  /\ Joins(u)

LEMMA InsertIssues ==
  ASSUME IInv, NEW r \in Requests, InsertInvitation(r), invitation' # invitation
  PROVE  \E i \in Invitations, a \in Addresses : Issues(i, a)
<1>1. PICK i \in Invitations :
        /\ invitation[i].state = "absent"
        /\ invitation' = [invitation EXCEPT ![i] =
             NewInvitation(request[r].target, request[r].role, request[r].duties)]
  BY DEF InsertInvitation
<1>2. AddressFree(request[r].target) /\ request[r].stage = "checked"
  BY DEF InsertInvitation
<1>3. request[r].op = "invite" /\ request[r].target \in Addresses
  BY <1>2 DEF IInv, CallsOK, CallOK
<1>4. request[r].role \in InvitedRoles /\ request[r].duties \in SUBSET Duties
  BY DEF IInv, TypeOK, Calls
<1>5. NewInvitation(request[r].target, request[r].role, request[r].duties)
        \in InvitationRows
  BY <1>3, <1>4 DEF NewInvitation, InvitationRows
<1>6. Founded
  BY <1>3 DEF IInv, InvitesAfterFoundation
<1>7. Issues(i, request[r].target)
  BY <1>1, <1>2, <1>5, <1>6
     DEF Issues, RestKept, NewInvitation, IInv, TypeOK
<1> QED
  BY <1>3, <1>7

LEMMA ResendReissues ==
  ASSUME IInv, NEW r \in Requests, Resend(r), invitation' # invitation
  PROVE  \E i, j \in Invitations : Reissues(i, j)
<1>1. PICK j \in Invitations :
        invitation[j].state = "absent" /\ invitation' = Reissued(request[r].target, j)
  BY DEF Resend
<1> DEFINE i == request[r].target
<1>2. i \in Open /\ i \in Invitations /\ i # j
  BY <1>1 DEF Resend, MayResend, Open
<1> DEFINE new == NewInvitation(invitation[i].address, invitation[i].role,
                                invitation[i].duties)
<1>3. new \in InvitationRows
  BY <1>2 DEF IInv, TypeOK, InvitationRows, NewInvitation
<1>4. new.state = "open" /\ new.address = invitation[i].address
      /\ new.acceptedBy = None
  BY DEF NewInvitation
<1>5. invitation' = [invitation EXCEPT ![i] = [@ EXCEPT !.state = "superseded"],
                                       ![j] = new]
  BY <1>1 DEF Reissued
<1> HIDE DEF new, i
<1>6. Reissues(i, j)
  BY <1>1, <1>2, <1>3, <1>4, <1>5 DEF Reissues, IInv, TypeOK
<1> QED
  BY <1>2, <1>6

LEMMA WithdrawRevokes ==
  ASSUME IInv, NEW r \in Requests, Withdraw(r), invitation' # invitation
  PROVE  \E i \in Invitations : Revokes(i)
<1>1. request[r].target \in Open
  BY DEF Withdraw, Withdrawable
<1>2. Revokes(request[r].target)
  BY <1>1 DEF Withdraw, Revokes, RestKept, Open, IInv, TypeOK
<1> QED
  BY <1>1, <1>2 DEF Open

LEMMA AcceptAccepts ==
  ASSUME IInv, NEW r \in Requests, Accept(r), member' # member
  PROVE  \E i \in Invitations, u \in Users : IsAcceptedBy(i, u)
<1>1. /\ request[r].actor \in Users /\ request[r].target \in Invitations
      /\ request[r].target \in Open /\ Joins(request[r].actor)
      /\ invitation' = AcceptedBy(request[r].target, request[r].actor)
  BY AcceptJoins DEF MayAccept
<1>2. IsAcceptedBy(request[r].target, request[r].actor)
  BY <1>1 DEF IsAcceptedBy, AcceptedBy, RestKept, IInv, TypeOK
<1> QED
  BY <1>1, <1>2

\* Accepting changes an invitation exactly when it makes a member.
LEMMA AcceptChangesBoth ==
  ASSUME IInv, NEW r \in Requests, Accept(r)
  PROVE  member' = member <=> invitation' = invitation
<1>1. CASE ~MayAccept(request[r])
  BY <1>1 DEF Accept
<1>2. CASE MayAccept(request[r])
  <2>1. request[r].actor \in Users /\ request[r].target \in Invitations
    BY DEF Accept, Begun, IInv, CallsOK, CallOK, InvitationOperations
  <2>2. member' # member
    BY <1>2, <2>1 DEF Accept, MayAccept, IInv, TypeOK
  <2>3. invitation'[request[r].target].state = "accepted"
    <3>1. invitation' = AcceptedBy(request[r].target, request[r].actor)
      BY <2>2, AcceptJoins
    <3>2. invitation[request[r].target] \in InvitationRows
      BY <2>1 DEF IInv, TypeOK
    <3> QED
      BY <2>1, <3>1, <3>2 DEF AcceptedBy, IInv, TypeOK, InvitationRows
  <2>4. invitation[request[r].target].state = "open"
    BY <1>2 DEF MayAccept, Open
  <2> QED
    BY <2>2, <2>3, <2>4
<1> QED
  BY <1>1, <1>2

LEMMA InvitationSteps ==
  ASSUME IInv, Next, invitation' # invitation
  PROVE  \/ \E i \in Invitations, a \in Addresses : Issues(i, a) /\ UNCHANGED member
         \/ \E i, j \in Invitations : Reissues(i, j) /\ UNCHANGED member
         \/ \E i \in Invitations : (Revokes(i) \/ Lapses(i)) /\ UNCHANGED member
         \/ \E i \in Invitations, u \in Users : IsAcceptedBy(i, u)
<1>1. ASSUME NEW i \in Invitations, Lapse(i)
      PROVE  Lapses(i) /\ UNCHANGED member
  BY <1>1 DEF Lapse, Lapses, RestKept, IInv, TypeOK
<1>2. CASE \E r \in Requests : InsertInvitation(r)
  BY <1>2, InsertIssues DEF InsertInvitation
<1>3. CASE \E r \in Requests : Resend(r)
  BY <1>3, ResendReissues DEF Resend
<1>4. CASE \E r \in Requests : Withdraw(r)
  BY <1>4, WithdrawRevokes DEF Withdraw
<1>5. CASE \E r \in Requests : Accept(r)
  BY <1>5, AcceptAccepts, AcceptChangesBoth
<1> QED
  BY <1>1, <1>2, <1>3, <1>4, <1>5
     DEF Next, Found, Verify, RemoveAddress, Serve, Begin, Abort, CheckInviter,
         Update, Remove, Transfer

LEMMA InvitationIsFunction ==
  ASSUME IInv, Next
  PROVE  invitation' = [i \in Invitations |-> invitation'[i]]
<1>1. invitation = [i \in Invitations |-> invitation[i]]
  BY DEF IInv, TypeOK
<1>2. CASE \E r \in Requests : InsertInvitation(r)
  BY <1>1, <1>2 DEF InsertInvitation
<1>3. CASE \E r \in Requests : Resend(r)
  BY <1>1, <1>3 DEF Resend, Reissued
<1>4. CASE \E r \in Requests : Withdraw(r)
  BY <1>1, <1>4 DEF Withdraw
<1>5. CASE \E r \in Requests : Accept(r)
  BY <1>1, <1>5 DEF Accept, AcceptedBy
<1>6. CASE \E i \in Invitations : Lapse(i)
  BY <1>1, <1>6 DEF Lapse
<1>7. CASE UNCHANGED invitation
  BY <1>1, <1>7
<1> QED
  BY <1>2, <1>3, <1>4, <1>5, <1>6, <1>7
     DEF Next, Found, Verify, RemoveAddress, Serve, Begin, Abort, CheckInviter,
         Update, Remove, Transfer

LEMMA InvitationTypes ==
  ASSUME IInv, Next
  PROVE  /\ invitation' \in [Invitations -> InvitationRows]
         /\ \A i \in Invitations :
              invitation'[i].state = "accepted" <=> invitation'[i].acceptedBy # None
<1> DEFINE RowOK(x) == /\ x \in InvitationRows
                       /\ x.state = "accepted" <=> x.acceptedBy # None
<1>1. \A i \in Invitations : RowOK(invitation[i])
  BY DEF IInv, TypeOK
<1>2. ASSUME NEW x \in InvitationRows, RowOK(x), x.state = "open"
      PROVE  /\ RowOK([x EXCEPT !.state = "superseded"])
             /\ RowOK([x EXCEPT !.state = "revoked"])
             /\ RowOK([x EXCEPT !.lapsed = TRUE])
             /\ \A u \in Users :
                  RowOK([x EXCEPT !.state = "accepted", !.acceptedBy = u])
  BY <1>2, OrganizationAssumption DEF InvitationRows
<1>3. \A i \in Open : i \in Invitations /\ invitation[i].state = "open"
  BY DEF Open
<1>4. ASSUME NEW x \in InvitationRows, x.state = "open", x.acceptedBy = None
      PROVE  RowOK(x)
  BY <1>4
<1> HIDE DEF RowOK
<1>5. ASSUME NEW i \in Invitations, NEW a \in Addresses, Issues(i, a)
      PROVE  \A k \in Invitations : RowOK(invitation'[k])
  BY <1>1, <1>4, <1>5 DEF Issues, RestKept
<1>6. ASSUME NEW i \in Invitations, NEW j \in Invitations, Reissues(i, j)
      PROVE  \A k \in Invitations : RowOK(invitation'[k])
  BY <1>1, <1>2, <1>3, <1>4, <1>6 DEF Reissues, IInv, TypeOK
<1>7. ASSUME NEW i \in Invitations, Revokes(i) \/ Lapses(i)
      PROVE  \A k \in Invitations : RowOK(invitation'[k])
  <2>1. i \in Open /\ invitation[i] \in InvitationRows /\ RestKept(i)
    BY <1>3, <1>7 DEF Revokes, Lapses, IInv, TypeOK
  <2>2. invitation'[i] \in {[invitation[i] EXCEPT !.state = "revoked"],
                            [invitation[i] EXCEPT !.lapsed = TRUE]}
    BY <1>7 DEF Revokes, Lapses
  <2>3. RowOK(invitation'[i])
    BY <1>1, <1>2, <1>3, <2>1, <2>2
  <2> QED
    BY <1>1, <2>1, <2>3 DEF RestKept
<1>8. ASSUME NEW i \in Invitations, NEW u \in Users, IsAcceptedBy(i, u)
      PROVE  \A k \in Invitations : RowOK(invitation'[k])
  <2>1. i \in Open /\ invitation[i] \in InvitationRows /\ RestKept(i)
    BY <1>3, <1>8 DEF IsAcceptedBy, IInv, TypeOK
  <2>2. invitation'[i] = [invitation[i] EXCEPT !.state = "accepted",
                                               !.acceptedBy = u]
    BY <1>8 DEF IsAcceptedBy
  <2>3. RowOK(invitation'[i])
    BY <1>1, <1>2, <1>3, <2>1, <2>2
  <2> QED
    BY <1>1, <2>1, <2>3 DEF RestKept
<1>9. \A k \in Invitations : RowOK(invitation'[k])
  BY <1>1, <1>5, <1>6, <1>7, <1>8, InvitationSteps
<1> QED
  BY <1>9, InvitationIsFunction DEF RowOK

\* What the invariant says of invitations survives every step.
LEMMA FoundationPreserved ==
  ASSUME IInv, Next
  PROVE  InvitesAfterFoundation'
<1>1. Founded => Founded'
  BY OwnerPreserved
<1>2. \A i \in Invitations : invitation'[i].state # "absent" => Founded
  <2>1. \A i \in Invitations : invitation[i].state # "absent" => Founded
    BY DEF IInv, InvitesAfterFoundation
  <2>2. ASSUME NEW i \in Invitations, i \in Open
        PROVE  Founded
    BY <2>1, <2>2 DEF Open
  <2> QED
    BY <2>1, <2>2, InvitationSteps
       DEF Issues, Reissues, Revokes, Lapses, IsAcceptedBy
<1>3. \A r \in Requests : request'[r].op = "invite" => Founded
  <2> SUFFICES ASSUME NEW r \in Requests, request'[r].op = "invite"
               PROVE  Founded
    OBVIOUS
  <2>1. CASE request[r].op = "invite"
    BY <2>1 DEF IInv, InvitesAfterFoundation
  <2>2. CASE \E s \in Requests, op \in Offered, u \in Users : Begin(s, op, u)
    <3>1. PICK s \in Requests, op \in Offered, u \in Users : Begin(s, op, u)
      BY <2>2
    <3>2. CASE s = r /\ op = "invite"
      BY <3>1, <3>2 DEF Begin, Permitted, Managers, Active, Founded
    <3>3. CASE ~(s = r /\ op = "invite")
      BY <2>1, <3>1, <3>3 DEF Begin, IInv, TypeOK, InvitesAfterFoundation
    <3> QED
      BY <3>2, <3>3
  <2>3. ASSUME NEW s \in Requests, Finish(s)
        PROVE  Founded
    BY <2>3 DEF Finish, NoCall, IInv, TypeOK, InvitesAfterFoundation
  <2>4. CASE \E s \in Requests : CheckInviter(s)
    BY <2>3, <2>4 DEF CheckInviter, IInv, TypeOK, InvitesAfterFoundation, Calls
  <2>5. CASE UNCHANGED request
    BY <2>1, <2>5
  <2> QED
    BY <2>2, <2>3, <2>4, <2>5
       DEF Next, Found, Verify, RemoveAddress, Lapse, Serve, Abort,
           InsertInvitation, Resend, Withdraw, Accept, Update, Remove, Transfer
<1> QED
  BY <1>1, <1>2, <1>3 DEF InvitesAfterFoundation

LEMMA OneOpenPreserved ==
  ASSUME IInv, Next
  PROVE  OneOpenInvitation'
<1>1. OneOpenInvitation
  BY DEF IInv
<1>2. CASE invitation' = invitation
  BY <1>1, <1>2 DEF OneOpenInvitation, Open
<1>3. ASSUME NEW i \in Invitations, NEW a \in Addresses, Issues(i, a)
      PROVE  OneOpenInvitation'
  BY <1>1, <1>3 DEF OneOpenInvitation, Open, Issues, RestKept, AddressFree
<1>4. ASSUME NEW i \in Invitations, NEW j \in Invitations, Reissues(i, j)
      PROVE  OneOpenInvitation'
  <2>1. invitation'[i].state = "superseded" /\ i # j
    BY <1>4 DEF Reissues, Open, IInv, TypeOK, InvitationRows
  <2>2. Open' = (Open \ {i}) \cup {j}
    BY <1>4, <2>1 DEF Reissues, Open
  <2>3. \A k \in Open \ {i} :
          /\ invitation[k].address # invitation'[j].address
          /\ k # j => invitation'[k].address = invitation[k].address
    BY <1>1, <1>4 DEF Reissues, OneOpenInvitation, Open
  <2>4. j \notin Open
    BY <1>4 DEF Reissues, Open
  <2>5. \A k, l \in Open \ {i} :
          invitation'[k].address = invitation'[l].address => k = l
    BY <1>1, <2>3, <2>4 DEF OneOpenInvitation
  <2> QED
    BY <2>2, <2>3, <2>4, <2>5 DEF OneOpenInvitation
<1>5. ASSUME NEW i \in Invitations,
             Revokes(i) \/ Lapses(i) \/ \E u \in Users : IsAcceptedBy(i, u)
      PROVE  OneOpenInvitation'
  <2>1. invitation'[i].address = invitation[i].address /\ i \in Open
    BY <1>5 DEF Revokes, Lapses, IsAcceptedBy, IInv, TypeOK, InvitationRows
  <2>2. RestKept(i)
    BY <1>5 DEF Revokes, Lapses, IsAcceptedBy
  <2> QED
    BY <1>1, <2>1, <2>2 DEF OneOpenInvitation, Open, RestKept
<1> QED
  BY <1>2, <1>3, <1>4, <1>5, InvitationSteps

LEMMA SingleUsePreserved ==
  ASSUME IInv, Next
  PROVE  AcceptedAreMembers' /\ SingleUse'
<1>1. AcceptedAreMembers /\ SingleUse
  BY DEF IInv
\* Without an acceptance nobody gains or loses an accepted invitation, and only
\* a foundation makes a member.
<1>2. ASSUME NEW u \in Users, NEW i \in Invitations,
             ~ \E k \in Invitations, w \in Users : IsAcceptedBy(k, w)
      PROVE  Accepted(i, u)' <=> Accepted(i, u)
  <2>1. \A k \in Open : k \in Invitations /\ invitation[k].state = "open"
    BY DEF Open
  <2>2. \A k \in Invitations : invitation[k] \in InvitationRows
    BY DEF IInv, TypeOK
  <2>3. CASE invitation' = invitation
    BY <2>3 DEF Accepted
  <2>4. ASSUME NEW k \in Invitations, NEW a \in Addresses, Issues(k, a)
        PROVE  Accepted(i, u)' <=> Accepted(i, u)
    BY <2>4 DEF Issues, RestKept, Accepted
  <2>5. ASSUME NEW k \in Invitations, NEW j \in Invitations, Reissues(k, j)
        PROVE  Accepted(i, u)' <=> Accepted(i, u)
    BY <2>1, <2>2, <2>5 DEF Reissues, Accepted, InvitationRows
  <2>6. ASSUME NEW k \in Invitations, Revokes(k) \/ Lapses(k)
        PROVE  Accepted(i, u)' <=> Accepted(i, u)
    BY <2>1, <2>2, <2>6 DEF Revokes, Lapses, RestKept, Accepted, InvitationRows
  <2> QED
    BY <1>2, <2>3, <2>4, <2>5, <2>6, InvitationSteps
<1>3. ASSUME \A u \in Users : \A i \in Invitations :
               Accepted(i, u)' <=> Accepted(i, u),
             \A u \in Users :
               member'[u].status = "absent" <=> member[u].status = "absent"
      PROVE  AcceptedAreMembers' /\ SingleUse'
  BY <1>1, <1>3 DEF AcceptedAreMembers, SingleUse
<1>4. ASSUME NEW f \in Users, Founds(f),
             \A u \in Users : \A i \in Invitations :
               Accepted(i, u)' <=> Accepted(i, u)
      PROVE  AcceptedAreMembers' /\ SingleUse'
  <2>1. \A u \in Users : \A i \in Invitations : ~Accepted(i, u)
    BY <1>1, <1>4 DEF Founds, AcceptedAreMembers
  <2>2. \A u \in Users \ {f} : member'[u].status = "absent"
    BY <1>4 DEF Founds, OthersKept
  <2> QED
    BY <1>4, <2>1, <2>2 DEF AcceptedAreMembers, SingleUse
<1>5. ASSUME NEW k \in Invitations, NEW w \in Users, IsAcceptedBy(k, w)
      PROVE  AcceptedAreMembers' /\ SingleUse'
  <2>1. /\ invitation[k].state = "open" /\ invitation[k] \in InvitationRows
        /\ Joins(w) /\ RestKept(k)
        /\ invitation'[k] = [invitation[k] EXCEPT !.state = "accepted",
                                                  !.acceptedBy = w]
    BY <1>5 DEF IsAcceptedBy, Open, IInv, TypeOK
  <2>2. \A u \in Users : \A i \in Invitations :
          Accepted(i, u)' <=> Accepted(i, u) \/ (i = k /\ u = w)
    <3>1. invitation'[k].state = "accepted" /\ invitation'[k].acceptedBy = w
      BY <2>1 DEF InvitationRows
    <3>2. \A i \in Invitations : i # k => invitation'[i] = invitation[i]
      BY <2>1 DEF RestKept
    <3> QED
      BY <2>1, <3>1, <3>2 DEF Accepted
  <2>3. \A i \in Invitations : ~Accepted(i, w)
    BY <1>1, <2>1 DEF AcceptedAreMembers, Joins
  <2>4. \A u \in Users :
          member'[u].status # "absent" <=> u = w \/ member[u].status # "absent"
    BY <2>1 DEF Joins, OthersKept
  <2>5. PICK founder \in Users : \A u \in Users \ {founder} :
          member[u].status # "absent" <=> \E i \in Invitations : Accepted(i, u)
    BY <1>1 DEF SingleUse
  <2>6. AcceptedAreMembers'
    BY <1>1, <2>2, <2>4 DEF AcceptedAreMembers
  <2>7. \A u \in Users : \A i, j \in Invitations :
          Accepted(i, u)' /\ Accepted(j, u)' => i = j
    BY <1>1, <2>2, <2>3 DEF SingleUse
  <2>8. \A u \in Users \ {founder} :
          member'[u].status # "absent" <=>
            \E i \in Invitations : Accepted(i, u)'
    <3>1. ASSUME NEW u \in Users \ {founder}
          PROVE  (\E i \in Invitations : Accepted(i, u)') <=>
                   u = w \/ \E i \in Invitations : Accepted(i, u)
      BY <2>2
    <3> QED
      BY <2>4, <2>5, <3>1
  <2> QED
    BY <2>6, <2>7, <2>8 DEF SingleUse
<1>6. ASSUME NEW r \in Requests, Accept(r), member' # member
      PROVE  \E k \in Invitations, w \in Users : IsAcceptedBy(k, w)
  BY <1>6, AcceptAccepts
<1>7. ASSUME \/ member' = member
             \/ \E u \in Users : Reassigned(u) \/ Leaves(u)
             \/ \E u, v \in Users : HandsOver(u, v)
      PROVE  \A u \in Users :
               member'[u].status = "absent" <=> member[u].status = "absent"
  <2>1. \A u \in Active : member[u].status = "active"
    BY DEF Active
  <2>2. \A u \in Owners : u \in Active
    BY DEF Owners
  <2> QED
    BY <1>7, <2>1, <2>2 DEF Reassigned, Leaves, HandsOver, OthersKept
<1> QED
  BY <1>2, <1>3, <1>4, <1>5, <1>6, <1>7, MemberSteps

-----------------------------------------------------------------------------
(* Theorems                                                                *)

LEMMA InitIInv == Init => IInv
<1> SUFFICES ASSUME Init PROVE IInv
  OBVIOUS
<1> USE OrganizationAssumption DEF Init
<1>1. NoMembership \in Memberships /\ NoInvitation \in InvitationRows
  BY DEF NoMembership, Memberships, OrganizationRoles, NoInvitation,
         InvitationRows, InvitedRoles
<1>2. TypeOK
  BY <1>1, NoCallIsCall DEF TypeOK, VerifiedEmails, NoInvitation
<1>3. CallsOK
  BY NoCallIsCall DEF CallsOK
<1>4. InvitesAfterFoundation /\ SoleOwner /\ OneOpenInvitation
  BY DEF InvitesAfterFoundation, SoleOwner, OneOpenInvitation, Open,
         NoMembership, NoInvitation, NoCall
<1>5. AcceptedAreMembers /\ SingleUse
  BY DEF AcceptedAreMembers, SingleUse, Accepted, NoMembership, NoInvitation
<1> QED
  BY <1>2, <1>3, <1>4, <1>5 DEF IInv

LEMMA NextIInv == IInv /\ [Next]_vars => IInv'
<1> SUFFICES ASSUME IInv, [Next]_vars PROVE IInv'
  OBVIOUS
<1>1. CASE Next
  BY <1>1, MemberTypes, InvitationTypes, VerifiedTypes, RequestTypes,
     FoundationPreserved, OwnerPreserved, SingleUsePreserved, OneOpenPreserved
     DEF IInv, TypeOK
<1>2. CASE UNCHANGED vars
  BY <1>2
     DEF vars, IInv, TypeOK, CallsOK, InvitesAfterFoundation, Founded,
         SoleOwner, Owners, Active, AcceptedAreMembers, SingleUse, Accepted,
         OneOpenInvitation, Open
<1> QED
  BY <1>1, <1>2

THEOREM Invariance == Spec => []IInv
BY InitIInv, NextIInv, PTL DEF Spec

\* Types, and the constraint that exactly the accepted invitations name the
\* membership that accepted them (schema/organizations.ts).
THEOREM TypeCorrect == Spec => []TypeOK
<1>1. IInv => TypeOK
  BY DEF IInv
<1> QED
  BY <1>1, Invariance, PTL

\* However updateMembershipRoles, revokeMembership and transferOwnership
\* interleave, an organization has exactly one active owner.
THEOREM OneOwner == Spec => []SoleOwner
<1>1. IInv => SoleOwner
  BY DEF IInv
<1> QED
  BY <1>1, Invariance, PTL

\* However often acceptInvitation is called, a token makes one membership and
\* a membership comes from one token.
THEOREM TokenUsedOnce == Spec => []SingleUse
<1>1. IInv => SingleUse
  BY DEF IInv
<1> QED
  BY <1>1, Invariance, PTL

\* createInvitation and resendInvitation never leave two working invitations
\* for one address, although the former takes no lock.
THEOREM OneWorkingInvitation == Spec => []OneOpenInvitation
<1>1. IInv => OneOpenInvitation
  BY DEF IInv
<1> QED
  BY <1>1, Invariance, PTL

\* A used, revoked or superseded invitation never works again, whichever call
\* that passed the guard before still commits.
THEOREM FinalInvitations == Spec => InvitationsAreFinal
<1>1. ASSUME IInv, Next, invitation' # invitation, NEW i \in Invitations,
             invitation[i].state \in {"accepted", "revoked", "superseded"}
      PROVE  invitation'[i] = invitation[i]
  <2>1. i \notin Open /\ invitation[i].state # "absent"
    BY <1>1 DEF Open
  <2> QED
    BY <1>1, <2>1, InvitationSteps
       DEF Issues, Reissues, Revokes, Lapses, IsAcceptedBy, RestKept
<1>2. IInv /\ [Next]_vars =>
        [\A i \in Invitations :
           invitation[i].state \in {"accepted", "revoked", "superseded"} =>
             invitation'[i] = invitation[i]]_vars
  BY <1>1
<1> QED
  BY Invariance, <1>2, PTL DEF Spec, InvitationsAreFinal

\* updateMembershipRoles, revokeMembership and transferOwnership act with an
\* authority that is good at the commit, whatever was read before the lock.
THEOREM CommitAuthority == Spec => AuthorityAtCommit
<1> DEFINE Authorized(u) ==
             \E r \in Requests :
               /\ request'[r] # request[r]
               /\ request[r].actor \in Managers
               /\ u \in Owners => request[r].actor = u
<1>1. ASSUME IInv, NEW r \in Requests, Finish(r),
             NEW op \in MemberOperations, Begun(r, op)
      PROVE  request'[r] # request[r]
  <2>1. request'[r].stage = "free"
    BY <1>1 DEF Finish, IInv, TypeOK, NoCall
  <2> QED
    BY <1>1, <2>1 DEF Begun
<1>2. \A u \in Owners : u \in Managers /\ u \in Active
  BY DEF Owners, Managers
<1>3. ASSUME IInv, Next, NEW u \in Active, member'[u] # member[u]
      PROVE  Authorized(u)
  <2>1. u \in Users /\ member[u].status = "active" /\ member' # member
    BY <1>3 DEF Active
  <2>2. ~ \E w \in Users : Found(w)
    BY <2>1 DEF Found
  <2>3. ASSUME NEW r \in Requests, Accept(r)
        PROVE  FALSE
    BY <1>3, <2>1, <2>3, AcceptJoins DEF Joins, OthersKept
  <2>4. ASSUME NEW r \in Requests, Update(r)
        PROVE  Authorized(u)
    <3>1. MayUpdate(request[r]) /\ Reassigned(request[r].target)
      BY <1>3, <2>1, <2>4, UpdateReassigns
    <3>2. u = request[r].target /\ u \notin Owners
      BY <1>3, <2>1, <3>1 DEF Reassigned, OthersKept
    <3>3. request'[r] # request[r]
      BY <1>1, <1>3, <2>4 DEF Update, MemberOperations
    <3> QED
      BY <3>1, <3>2, <3>3 DEF MayUpdate
  <2>5. ASSUME NEW r \in Requests, Remove(r)
        PROVE  Authorized(u)
    <3>1. MayRemove(request[r]) /\ Leaves(request[r].target)
      BY <1>3, <2>1, <2>5, RemoveLeaves
    <3>2. u = request[r].target /\ u \notin Owners
      BY <1>3, <2>1, <3>1 DEF Leaves, OthersKept
    <3>3. request'[r] # request[r]
      BY <1>1, <1>3, <2>5 DEF Remove, MemberOperations
    <3> QED
      BY <3>1, <3>2, <3>3 DEF MayRemove
  <2>6. ASSUME NEW r \in Requests, Transfer(r)
        PROVE  Authorized(u)
    <3>1. HandsOver(request[r].actor, request[r].target)
      BY <1>3, <2>1, <2>6, TransferHandsOver
    <3>2. request[r].actor \in Managers /\ (u \in Owners => request[r].actor = u)
      BY <1>2, <3>1 DEF HandsOver
    <3>3. request'[r] # request[r]
      BY <1>1, <1>3, <2>6 DEF Transfer, MemberOperations
    <3> QED
      BY <3>2, <3>3
  <2> QED
    BY <1>3, <2>1, <2>2, <2>3, <2>4, <2>5, <2>6
       DEF Next, Verify, RemoveAddress, Lapse, Serve, Begin, Abort,
           CheckInviter, InsertInvitation, Resend, Withdraw
<1>4. IInv /\ [Next]_vars =>
        [\A u \in Active : member'[u] # member[u] => Authorized(u)]_vars
  BY <1>3
<1> QED
  BY Invariance, <1>4, PTL DEF Spec, AuthorityAtCommit

\* Only the founder and whoever verified the invited address, and asked before the
\* invitation expired, become members, with what it offers (acceptInvitation).
THEOREM OnlyInvited == Spec => JoinsByInvitation
<1> DEFINE Invited(u) ==
             \/ \A v \in Users : member[v].status = "absent"
             \/ \E i \in Open :
                  /\ AcceptsInTime(i, u)
                  /\ verified[invitation[i].address] = [user |-> u, live |-> TRUE]
                  /\ member'[u].role = invitation[i].role
                  /\ member'[u].duties = invitation[i].duties
                  /\ invitation'[i].acceptedBy = u
<1>1. ASSUME IInv, NEW r \in Requests, Accept(r),
             NEW u \in Users \ Active, u \in Active'
      PROVE  Invited(u)
  <2>1. member[u].status # "active" /\ member'[u].status = "active"
    BY <1>1 DEF Active
  <2>2. /\ MayAccept(request[r]) /\ Joins(request[r].actor)
        /\ request[r].actor \in Users /\ request[r].target \in Invitations
        /\ invitation' = AcceptedBy(request[r].target, request[r].actor)
    BY <1>1, <2>1, AcceptJoins
  <2>3. u = request[r].actor
    BY <2>1, <2>2 DEF Joins, OthersKept
  <2>4. /\ member'[u].role = invitation[request[r].target].role
        /\ member'[u].duties = invitation[request[r].target].duties
    BY <1>1, <2>2, <2>3 DEF Accept, IInv, TypeOK
  <2>5. invitation'[request[r].target].acceptedBy = u
    <3>1. invitation[request[r].target] \in InvitationRows
      BY <1>1, <2>2 DEF IInv, TypeOK
    <3>2. invitation \in [Invitations -> InvitationRows]
      BY <1>1 DEF IInv, TypeOK
    <3> QED
      BY <2>2, <2>3, <3>1, <3>2 DEF AcceptedBy, InvitationRows
  <2>6. AcceptsInTime(request[r].target, u)
    BY <1>1, <2>2, <2>3 DEF AcceptsInTime, Accept, MayAccept
  <2> QED
    BY <2>2, <2>3, <2>4, <2>5, <2>6 DEF MayAccept
<1>2. ASSUME IInv, Next, NEW u \in Users \ Active, u \in Active'
      PROVE  Invited(u)
  <2>1. member'[u] # member[u] /\ member' # member
    BY <1>2 DEF Active
  <2>2. ASSUME NEW w \in Users, Reassigned(w) \/ Leaves(w)
        PROVE  FALSE
    BY <1>2, <2>1, <2>2 DEF Reassigned, Leaves, OthersKept, Active
  <2>3. ASSUME NEW v \in Users, NEW w \in Users, HandsOver(v, w)
        PROVE  FALSE
    BY <1>2, <2>1, <2>3 DEF HandsOver, Owners, Active
  <2>4. ASSUME NEW w \in Users, Founds(w)
        PROVE  Invited(u)
    BY <2>4 DEF Founds
  <2> QED
    BY <1>1, <1>2, <2>1, <2>2, <2>3, <2>4, MemberSteps
<1> HIDE DEF Invited
<1>3. IInv /\ [Next]_vars =>
        [\A u \in Users \ Active : u \in Active' => Invited(u)]_vars
  BY <1>2
<1> QED
  BY Invariance, <1>3, PTL DEF Spec, JoinsByInvitation, Invited

-----------------------------------------------------------------------------
(* The refinement of Membership.                                           *)

Former == {u \in Users : member[u].status = "revoked"}

\* An organization keeps the promises of module Membership.
THEOREM Refinement == Spec => ImplementsMembership
<1>1. Init => M!Init
  BY DEF Init, M!Init, NoMembership, Owners, Active
<1>2. ASSUME NEW u \in Users, Founds(u)
      PROVE  M!Found(u)
  BY <1>2 DEF Founds, OthersKept, M!Found, Owners, Active
<1>3. ASSUME IInv, Next, NEW r \in Requests, Accept(r), member' # member
      PROVE  \E u \in Users : M!Join(u)
  <2> DEFINE u == request[r].actor
  <2>1. u \in Users /\ Joins(u) /\ request[r].target \in Open
    BY <1>3, AcceptJoins DEF MayAccept
  <2>2. Owners # {}
    BY <2>1, <1>3 DEF IInv, InvitesAfterFoundation, SoleOwner, Founded, Open
  <2> HIDE DEF u
  <2>3. u \notin Active /\ u \notin Former
    BY <2>1 DEF Joins, Active, Former
  <2>4. Active' = Active \cup {u} /\ Former' = Former
    BY <2>1 DEF Joins, OthersKept, Active, Former
  <2>5. Owners' = Owners
    BY <2>1 DEF Joins, OthersKept, Owners, Active, InvitedRoles
  <2> QED
    BY <2>1, <2>2, <2>3, <2>4, <2>5 DEF M!Join, Former
<1>4. ASSUME NEW u \in Users, Reassigned(u)
      PROVE  UNCHANGED <<Owners, Active, Former>>
  BY <1>4 DEF Reassigned, OthersKept, Owners, Active, Former, InvitedRoles
<1>5. ASSUME NEW u \in Users, Leaves(u)
      PROVE  M!Leave(u)
  <2>1. Active' = Active \ {u} /\ Former' = Former \cup {u}
    BY <1>5 DEF Leaves, OthersKept, Active, Former
  <2>2. Owners' = Owners /\ u \in Active \ Owners
    BY <1>5 DEF Leaves, OthersKept, Owners, Active
  <2> QED
    BY <2>1, <2>2 DEF M!Leave, Former
<1>6. ASSUME NEW u \in Users, NEW v \in Users, HandsOver(u, v)
      PROVE  M!Transfer(u, v)
  <2>1. member[u].status = "active" /\ member[v].status = "active"
    BY <1>6 DEF HandsOver, Owners, Active
  <2>2. Active' = Active /\ Former' = Former
    BY <1>6, <2>1 DEF HandsOver, Active, Former
  <2>3. Owners' = {v}
    BY <1>6, <2>1 DEF HandsOver, Owners, Active
  <2> QED
    BY <1>6, <2>2, <2>3 DEF M!Transfer, HandsOver, Former
<1>7. member' = member => UNCHANGED <<Owners, Active, Former>>
  BY DEF Owners, Active, Former
<1>8. IInv /\ [Next]_vars => M!Next \/ UNCHANGED <<Owners, Active, Former>>
  <2> SUFFICES ASSUME IInv, [Next]_vars, member' # member
               PROVE  M!Next \/ UNCHANGED <<Owners, Active, Former>>
    BY <1>7
  <2>1. Next
    BY DEF vars
  <2> QED
    BY <1>2, <1>3, <1>4, <1>5, <1>6, <2>1, MemberSteps DEF M!Next
<1>9. IInv /\ [Next]_vars => [M!Next]_(M!vars)
  BY <1>8 DEF M!vars, Former
<1> QED
  BY Invariance, <1>1, <1>9, PTL DEF Spec, ImplementsMembership, M!Spec

-----------------------------------------------------------------------------
(* Who acted, and through which address a member joined.                   *)

\* Invitations name an address from their creation on.
InvitationsNameAddresses ==
  \A i \in Invitations :
    invitation[i].state # "absent" => invitation[i].address \in Addresses

\* A used token belongs to the user who verified its address.
AddressesOfMembers ==
  \A u \in Users : \A i \in Invitations :
    Accepted(i, u) => verified[invitation[i].address].user = u

\* A request that needs a permission comes from somebody who is, or was, a
\* member: accepting is the only operation open to strangers.
ActorsBelonged ==
  \A r \in Requests :
    request[r].op \notin {"none", "accept"} =>
      member[request[r].actor].status # "absent"

HistoryInv ==
  /\ InvitationsNameAddresses
  /\ AddressesOfMembers
  /\ ActorsBelonged

LEMMA NamesPreserved ==
  ASSUME IInv, InvitationsNameAddresses, Next
  PROVE  InvitationsNameAddresses'
<1>1. CASE invitation' = invitation
  BY <1>1 DEF InvitationsNameAddresses
<1>2. \A i \in Open : /\ i \in Invitations /\ invitation[i].address \in Addresses
                      /\ invitation[i] \in InvitationRows
  BY DEF Open, InvitationsNameAddresses, IInv, TypeOK
<1>3. ASSUME NEW i \in Invitations, NEW a \in Addresses, Issues(i, a)
      PROVE  InvitationsNameAddresses'
  BY <1>3 DEF Issues, RestKept, InvitationsNameAddresses
<1>4. ASSUME NEW i \in Invitations, NEW j \in Invitations, Reissues(i, j)
      PROVE  InvitationsNameAddresses'
  BY <1>2, <1>4 DEF Reissues, InvitationsNameAddresses, InvitationRows
<1>5. ASSUME NEW i \in Invitations, NEW u \in Users,
             Revokes(i) \/ Lapses(i) \/ IsAcceptedBy(i, u)
      PROVE  InvitationsNameAddresses'
  <2>1. i \in Open /\ RestKept(i)
    BY <1>5 DEF Revokes, Lapses, IsAcceptedBy
  <2>2. invitation'[i].address = invitation[i].address
    BY <1>2, <1>5, <2>1 DEF Revokes, Lapses, IsAcceptedBy, InvitationRows
  <2> QED
    BY <1>2, <2>1, <2>2 DEF RestKept, InvitationsNameAddresses
<1> QED
  BY <1>1, <1>3, <1>4, <1>5, InvitationSteps, OrganizationAssumption

\* verified_emails: an address never changes hands (schema/identity.ts).
LEMMA AddressKeepsUser ==
  ASSUME IInv, Next, NEW a \in Addresses, verified[a].user # None
  PROVE  verified'[a].user = verified[a].user
<1>1. verified \in [Addresses -> VerifiedEmails]
  BY DEF IInv, TypeOK
<1>2. ASSUME NEW u \in Users, NEW b \in Addresses, Verify(u, b)
      PROVE  verified'[a].user = verified[a].user
  BY <1>1, <1>2 DEF Verify
<1>3. ASSUME NEW b \in Addresses, RemoveAddress(b)
      PROVE  verified'[a].user = verified[a].user
  BY <1>1, <1>3 DEF RemoveAddress, VerifiedEmails
<1> QED
  BY <1>2, <1>3
     DEF Next, Found, Lapse, Serve, Begin, Abort, CheckInviter,
         InsertInvitation, Resend, Withdraw, Accept, Update, Remove, Transfer

LEMMA AddressesPreserved ==
  ASSUME IInv, InvitationsNameAddresses, AddressesOfMembers, Next
  PROVE  AddressesOfMembers'
<1> SUFFICES ASSUME NEW u \in Users, NEW i \in Invitations, Accepted(i, u)'
             PROVE  verified'[invitation'[i].address].user = u
  BY DEF AddressesOfMembers
<1>1. u # None
  BY OrganizationAssumption
<1>2. CASE Accepted(i, u)
  <2>1. invitation'[i] = invitation[i]
    <3>1. i \notin Open /\ invitation[i].state # "absent"
      BY <1>2 DEF Accepted, Open
    <3> QED
      BY <3>1, InvitationSteps
         DEF Issues, Reissues, Revokes, Lapses, IsAcceptedBy, RestKept
  <2>2. invitation[i].address \in Addresses
        /\ verified[invitation[i].address].user = u
    BY <1>2 DEF InvitationsNameAddresses, AddressesOfMembers, Accepted
  <2> QED
    BY <1>1, <2>1, <2>2, AddressKeepsUser
<1>3. CASE ~Accepted(i, u)
  <2>1. invitation'[i] # invitation[i] /\ invitation' # invitation
    BY <1>3 DEF Accepted
  <2>2. \E r \in Requests : Accept(r)
    <3>1. invitation'[i].state = "accepted"
      BY DEF Accepted
    <3>2. \A k \in Open : k \in Invitations /\ invitation[k] \in InvitationRows
                          /\ invitation[k].state = "open"
      BY DEF Open, IInv, TypeOK
    <3>3. ASSUME NEW k \in Invitations,
                 \/ \E a \in Addresses : Issues(k, a)
                 \/ \E j \in Invitations : Reissues(k, j)
                 \/ Revokes(k)
                 \/ Lapses(k)
          PROVE  invitation'[i].state # "accepted" \/ invitation'[i] = invitation[i]
      BY <3>2, <3>3 DEF Issues, Reissues, Revokes, Lapses, RestKept, InvitationRows
    <3>4. ASSUME NEW k \in Invitations, Lapse(k)
          PROVE  FALSE
      <4>1. Lapses(k)
        BY <3>4 DEF Lapse, Lapses, RestKept, IInv, TypeOK
      <4> QED
        BY <2>1, <3>1, <3>3, <4>1
    <3>5. ASSUME NEW r \in Requests,
                 InsertInvitation(r) \/ Resend(r) \/ Withdraw(r)
          PROVE  FALSE
      BY <2>1, <3>1, <3>3, <3>5, InsertIssues, ResendReissues, WithdrawRevokes
    <3> QED
      BY <2>1, <3>4, <3>5
         DEF Next, Found, Verify, RemoveAddress, Serve, Begin, Abort,
             CheckInviter, Update, Remove, Transfer
  <2>3. PICK r \in Requests : Accept(r)
    BY <2>2
  <2>4. /\ MayAccept(request[r])
        /\ request[r].actor \in Users /\ request[r].target \in Invitations
        /\ invitation' = AcceptedBy(request[r].target, request[r].actor)
    BY <2>1, <2>3, AcceptJoins, AcceptChangesBoth
  <2>5. /\ invitation \in [Invitations -> InvitationRows]
        /\ \A k \in Invitations : k # request[r].target =>
             invitation'[k] = invitation[k]
    BY <2>4 DEF AcceptedBy, IInv, TypeOK
  <2>6. i = request[r].target
    BY <2>1, <2>5
  <2>7. /\ invitation'[i].acceptedBy = request[r].actor
        /\ invitation'[i].address = invitation[i].address
    BY <2>4, <2>5, <2>6 DEF AcceptedBy, InvitationRows
  <2>8. u = request[r].actor
    BY <2>7 DEF Accepted
  <2>9. verified[invitation[i].address].user = u
    BY <2>4, <2>6, <2>8 DEF MayAccept
  <2> QED
    BY <2>3, <2>7, <2>9 DEF Accept
<1> QED
  BY <1>2, <1>3

\* A row of organization_memberships is never deleted.
LEMMA MembershipStays ==
  ASSUME IInv, Next, NEW u \in Users, member[u].status # "absent"
  PROVE  member'[u].status # "absent"
<1>1. ASSUME NEW r \in Requests, Accept(r), member' # member
      PROVE  member'[u].status # "absent"
  BY <1>1, AcceptJoins DEF Joins, OthersKept
<1>2. ASSUME NEW v \in Users, Founds(v) \/ Reassigned(v) \/ Leaves(v)
      PROVE  member'[u].status # "absent"
  BY <1>2 DEF Founds, Reassigned, Leaves, OthersKept
<1>3. ASSUME NEW v \in Users, NEW w \in Users, HandsOver(v, w)
      PROVE  member'[u].status # "absent"
  BY <1>3 DEF HandsOver
<1> QED
  BY <1>1, <1>2, <1>3, MemberSteps

LEMMA ActorsPreserved ==
  ASSUME IInv, ActorsBelonged, Next
  PROVE  ActorsBelonged'
<1> SUFFICES ASSUME NEW r \in Requests,
                    request'[r].op \notin {"none", "accept"}
             PROVE  member'[request'[r].actor].status # "absent"
  BY DEF ActorsBelonged
<1>1. request \in [Requests -> Calls]
  BY DEF IInv, TypeOK
<1>2. ASSUME request'[r].op = request[r].op, request'[r].actor = request[r].actor
      PROVE  member'[request'[r].actor].status # "absent"
  <2>1. request[r].op \in Operations
    BY <1>1, <1>2 DEF Calls
  <2>2. request[r].actor \in Users
    BY <1>2, <2>1 DEF IInv, CallsOK, CallOK, Operations
  <2> QED
    BY <1>2, <2>2, MembershipStays DEF ActorsBelonged
<1>3. ASSUME NEW s \in Requests, Finish(s)
      PROVE  member'[request'[r].actor].status # "absent"
  BY <1>1, <1>2, <1>3 DEF Finish, NoCall
<1>4. ASSUME NEW s \in Requests, NEW op \in Offered, NEW u \in Users, Begin(s, op, u)
      PROVE  member'[request'[r].actor].status # "absent"
  <2>1. CASE s # r
    BY <1>1, <1>2, <1>4, <2>1 DEF Begin
  <2>2. CASE s = r
    <3>1. request'[r].op = op /\ request'[r].actor = u /\ member' = member
      BY <1>1, <1>4, <2>2 DEF Begin
    <3>2. u \in Managers \/ u \in Owners
      BY <1>4, <3>1 DEF Begin, Permitted
    <3> QED
      BY <3>1, <3>2 DEF Managers, Owners, Active
  <2> QED
    BY <2>1, <2>2
<1>5. ASSUME NEW s \in Requests, CheckInviter(s)
      PROVE  member'[request'[r].actor].status # "absent"
  BY <1>1, <1>2, <1>3, <1>5 DEF CheckInviter, Calls
<1> QED
  BY <1>2, <1>3, <1>4, <1>5
     DEF Next, Found, Verify, RemoveAddress, Lapse, Serve, Abort,
         InsertInvitation, Resend, Withdraw, Accept, Update, Remove, Transfer

THEOREM HistoryInvariance == Spec => []HistoryInv
<1>1. Init => HistoryInv
  BY DEF Init, HistoryInv, InvitationsNameAddresses, AddressesOfMembers,
         ActorsBelonged, Accepted, NoInvitation, NoCall
<1>2. IInv /\ HistoryInv /\ [Next]_vars => HistoryInv'
  <2> SUFFICES ASSUME IInv, HistoryInv, [Next]_vars PROVE HistoryInv'
    OBVIOUS
  <2>1. CASE Next
    BY <2>1, NamesPreserved, AddressesPreserved, ActorsPreserved DEF HistoryInv
  <2>2. CASE UNCHANGED vars
    BY <2>2 DEF vars, HistoryInv, InvitationsNameAddresses, AddressesOfMembers,
                ActorsBelonged, Accepted
  <2> QED
    BY <2>1, <2>2
<1> QED
  BY Invariance, <1>1, <1>2, PTL DEF Spec

\* acceptInvitation consumes the token for the owner of the invited address,
\* and no address ever makes a second member.
THEOREM JoinedThroughOwnAddress == Spec => []AcceptedAddressIsTheirs
<1>1. IInv /\ HistoryInv => AcceptedAddressIsTheirs
  <2> SUFFICES ASSUME IInv, HistoryInv PROVE AcceptedAddressIsTheirs
    OBVIOUS
  <2>1. \A u \in Users : \A i \in Invitations :
          Accepted(i, u) => verified[invitation[i].address].user = u
    BY DEF HistoryInv, AddressesOfMembers
  <2>2. ASSUME NEW i \in Invitations, NEW j \in Invitations,
               invitation[i].state = "accepted", invitation[j].state = "accepted",
               invitation[i].address = invitation[j].address
        PROVE  i = j
    <3>1. /\ invitation[i].acceptedBy \in Users
          /\ invitation[j].acceptedBy \in Users
      BY <2>2 DEF IInv, TypeOK, InvitationRows
    <3>2. /\ Accepted(i, invitation[i].acceptedBy)
          /\ Accepted(j, invitation[j].acceptedBy)
      BY <2>2 DEF Accepted
    <3>3. invitation[i].acceptedBy = invitation[j].acceptedBy
      BY <2>1, <2>2, <3>1, <3>2
    <3> QED
      BY <3>1, <3>2, <3>3 DEF IInv, SingleUse
  <2> QED
    BY <2>1, <2>2 DEF AcceptedAddressIsTheirs
<1> QED
  BY Invariance, HistoryInvariance, <1>1, PTL

\* A finished request has changed.
LEMMA FinishChanges ==
  ASSUME IInv, NEW r \in Requests, Finish(r), request[r].stage # "free"
  PROVE  request'[r] # request[r]
BY DEF Finish, IInv, TypeOK, NoCall

\* createInvitation may insert for an inviter who has just left, never for a
\* stranger, and resendInvitation only for an owner or admin.
THEOREM InvitationsComeFromWithin == Spec => InvitedFromWithin
<1> DEFINE Within ==
             \E r \in Requests :
               /\ request'[r] # request[r]
               /\ member[request[r].actor].status # "absent"
               /\ \/ request[r].stage = "checked"
                  \/ request[r].op = "resend" /\ request[r].actor \in Managers
<1>1. ASSUME IInv, HistoryInv, Next, NEW i \in Invitations,
             invitation[i].state = "absent", invitation'[i].state # "absent"
      PROVE  Within
  <2>1. invitation' # invitation /\ i \notin Open
    BY <1>1 DEF Open
  <2>2. ASSUME NEW r \in Requests, InsertInvitation(r)
        PROVE  Within
    <3>1. request[r].stage = "checked" /\ Finish(r)
      BY <2>2 DEF InsertInvitation
    <3>2. request[r].op = "invite"
      BY <1>1, <3>1 DEF IInv, CallsOK, CallOK
    <3>3. member[request[r].actor].status # "absent"
      BY <1>1, <3>2 DEF HistoryInv, ActorsBelonged
    <3> QED
      BY <1>1, <3>1, <3>3, FinishChanges
  <2>3. ASSUME NEW r \in Requests, Resend(r)
        PROVE  Within
    <3>1. request[r].op = "resend" /\ request[r].stage = "begun" /\ Finish(r)
          /\ request[r].actor \in Managers
      BY <2>1, <2>3 DEF Resend, Begun, MayResend
    <3>2. member[request[r].actor].status # "absent"
      BY <3>1 DEF Managers, Active
    <3> QED
      BY <1>1, <3>1, <3>2, FinishChanges
  <2>4. ASSUME NEW r \in Requests, Withdraw(r)
        PROVE  FALSE
    BY <1>1, <2>1, <2>4, WithdrawRevokes DEF Revokes, RestKept
  <2>5. ASSUME NEW r \in Requests, Accept(r)
        PROVE  FALSE
    BY <1>1, <2>1, <2>5, AcceptAccepts, AcceptChangesBoth DEF IsAcceptedBy, RestKept
  <2>6. ASSUME NEW k \in Invitations, Lapse(k)
        PROVE  FALSE
    BY <1>1, <2>1, <2>6 DEF Lapse, IInv, TypeOK, InvitationRows
  <2> HIDE DEF Within
  <2> QED
    BY <1>1, <2>1, <2>2, <2>3, <2>4, <2>5, <2>6
       DEF Next, Found, Verify, RemoveAddress, Serve, Begin, Abort,
           CheckInviter, Update, Remove, Transfer
<1> HIDE DEF Within
<1>2. IInv /\ HistoryInv /\ [Next]_vars =>
        [\A i \in Invitations :
           invitation[i].state = "absent" /\ invitation'[i].state # "absent" =>
             Within]_vars
  BY <1>1
<1> QED
  BY Invariance, HistoryInvariance, <1>2, PTL DEF Spec, InvitedFromWithin, Within

\* No function of the module writes the membership of somebody who left.
THEOREM LeavingIsFinal == Spec => RevokedIsFinal
<1>1. ASSUME IInv, Next, NEW u \in Users, member[u].status = "revoked"
      PROVE  member'[u] = member[u]
  <2>1. ASSUME NEW r \in Requests, Accept(r), member' # member
        PROVE  member'[u] = member[u]
    BY <1>1, <2>1, AcceptJoins DEF Joins, OthersKept
  <2>2. ASSUME NEW v \in Users, Founds(v) \/ Reassigned(v) \/ Leaves(v)
        PROVE  member'[u] = member[u]
    BY <1>1, <2>2 DEF Founds, Reassigned, Leaves, OthersKept, Active
  <2>3. ASSUME NEW v \in Users, NEW w \in Users, HandsOver(v, w)
        PROVE  member'[u] = member[u]
    BY <1>1, <2>3 DEF HandsOver, Owners, Active
  <2> QED
    BY <1>1, <2>1, <2>2, <2>3, MemberSteps
<1>2. IInv /\ [Next]_vars =>
        [\A u \in Users : member[u].status = "revoked" => member'[u] = member[u]]_vars
  BY <1>1 DEF vars
<1> QED
  BY Invariance, <1>2, PTL DEF Spec, RevokedIsFinal

\* transferOwnership is the only way to ownership after the foundation.
THEOREM OwnershipComesFromTheOwner == Spec => OwnershipIsHandedOver
<1> DEFINE HandedTo(u) ==
             \/ \A v \in Users : member[v].status = "absent"
             \/ /\ u \in Active
                /\ \E r \in Requests :
                     /\ request'[r] # request[r]
                     /\ request[r].op = "transfer" /\ request[r].target = u
                     /\ Owners = {request[r].actor}
<1>1. ASSUME IInv, Next, NEW u \in Owners', u \notin Owners
      PROVE  HandedTo(u)
  <2>1. u \in Users /\ member' # member
    BY <1>1 DEF Owners, Active
  <2>2. ASSUME NEW r \in Requests, Transfer(r)
        PROVE  HandedTo(u)
    <3>1. HandsOver(request[r].actor, request[r].target)
      BY <1>1, <2>1, <2>2, TransferHandsOver
    <3>2. u = request[r].target
      BY <1>1, <2>1, <3>1 DEF HandsOver, Owners, Active
    <3>3. request[r].op = "transfer" /\ request'[r] # request[r]
      BY <1>1, <2>2, FinishChanges DEF Transfer, Begun
    <3> QED
      BY <3>1, <3>2, <3>3 DEF HandsOver
  <2>3. ASSUME NEW w \in Users, OthersKept(w),
               member'[w].status = "active" => member'[w].role \in InvitedRoles
        PROVE  FALSE
    BY <1>1, <2>1, <2>3 DEF OthersKept, Owners, Active, InvitedRoles
  <2>4. ASSUME NEW r \in Requests, Accept(r) \/ Update(r) \/ Remove(r)
        PROVE  FALSE
    <3>1. CASE Accept(r)
      BY <1>1, <2>1, <2>3, <3>1, AcceptJoins DEF Joins
    <3>2. CASE Update(r)
      BY <1>1, <2>1, <2>3, <3>2, UpdateReassigns DEF Reassigned, Active
    <3>3. CASE Remove(r)
      BY <1>1, <2>1, <2>3, <3>3, RemoveLeaves DEF Leaves, Active
    <3> QED
      BY <2>4, <3>1, <3>2, <3>3
  <2>5. ASSUME NEW w \in Users, Found(w)
        PROVE  HandedTo(u)
    BY <2>5 DEF Found
  <2> HIDE DEF HandedTo
  <2> QED
    BY <1>1, <2>1, <2>2, <2>4, <2>5
       DEF Next, Verify, RemoveAddress, Lapse, Serve, Begin, Abort,
           CheckInviter, InsertInvitation, Resend, Withdraw
<1> HIDE DEF HandedTo
<1>2. IInv /\ [Next]_vars => [\A u \in Owners' \ Owners : HandedTo(u)]_vars
  BY <1>1
<1> QED
  BY Invariance, <1>2, PTL DEF Spec, OwnershipIsHandedOver, HandedTo

=============================================================================
