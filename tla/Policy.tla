------------------------------- MODULE Policy -------------------------------
(***************************************************************************)
(* The permission policy of packages/authorization: what the roles of a    *)
(* member allow.  No state: module Access asks it with rows of the         *)
(* database, read at different moments.                                    *)
(***************************************************************************)
CONSTANTS
  Users,           \* account ids
  Organizations,   \* organization ids
  Scopes,          \* authorization scopes (tournaments) of the organizations
  None

ASSUME PolicyAssumption == None \notin {"owner", "admin"}

OrganizationPermissions ==
  {"organization:settings:manage", "organization:members:manage",
   "organization:roles:manage", "organization:ownership:transfer",
   "organization:audit:read", "organization:audit:self:read"}

TournamentPermissions ==
  {"tournament:competition:read", "tournament:competition:manage",
   "tournament:registrations:read", "tournament:registrations:manage",
   "tournament:broadcast:read", "tournament:broadcast:manage",
   "tournament:statistics:read", "tournament:statistics:export"}

Permissions == OrganizationPermissions \cup TournamentPermissions

OrganizationRoles == {"owner", "admin"}

OperationalRoles == {"referee", "registrations", "broadcast", "analyst"}

Statuses == {"active", "revoked"}

\* A question: may this actor use this permission here?
Inputs ==
  [actor : Users, organization : Organizations, scope : Scopes \cup {None},
   permission : Permissions]

Assignments ==
  [organization : Organizations, scope : Scopes, role : OperationalRoles,
   status : Statuses]

\* What is known of the actor when it is asked.
Snapshots ==
  [actor : Users, organization : Organizations, status : Statuses,
   role : OrganizationRoles \cup {None}, assignments : SUBSET Assignments]

OrganizationRolePermissions ==
  [owner |-> Permissions,
   admin |-> Permissions \ {"organization:ownership:transfer"}]

OperationalRolePermissions ==
  [referee |->
     {"organization:audit:self:read", "tournament:competition:read",
      "tournament:competition:manage", "tournament:statistics:read"},
   registrations |->
     {"organization:audit:self:read", "tournament:registrations:read",
      "tournament:registrations:manage", "tournament:statistics:read"},
   broadcast |->
     {"organization:audit:self:read", "tournament:broadcast:read",
      "tournament:broadcast:manage", "tournament:statistics:read"},
   analyst |->
     {"organization:audit:self:read", "tournament:competition:read",
      "tournament:registrations:read", "tournament:broadcast:read",
      "tournament:statistics:read", "tournament:statistics:export"}]

OrganizationRoleAllows(permission, role) ==
  role # None /\ permission \in OrganizationRolePermissions[role]

OperationalRoleAllows(input, assignments) ==
  /\ input.scope # None
  /\ \E a \in assignments :
       /\ a.status = "active"
       /\ a.organization = input.organization /\ a.scope = input.scope
       /\ input.permission \in OperationalRolePermissions[a.role]

\* Values outside the vocabulary are refused; those of Inputs and Snapshots are in it.
Can(input, snapshot) ==
  /\ snapshot.status = "active"
  /\ input.actor = snapshot.actor
  /\ input.organization = snapshot.organization
  /\ \/ /\ input.permission \in OrganizationPermissions
        /\ input.scope = None
        /\ \/ input.permission = "organization:audit:self:read"
           \/ OrganizationRoleAllows(input.permission, snapshot.role)
     \/ /\ input.permission \in TournamentPermissions
        /\ input.scope # None
        /\ \/ OrganizationRoleAllows(input.permission, snapshot.role)
           \/ OperationalRoleAllows(input, snapshot.assignments)

=============================================================================
