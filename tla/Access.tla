------------------------------- MODULE Access -------------------------------
(***************************************************************************)
(* What PermissionGuard and the audit trail let one person see and do.     *)
(* Both read the membership in one statement and something else in a later *)
(* one, while others change roles or remove the person: check[r] is how    *)
(* far request r has come, member and assigned are the rows.               *)
(*                                                                         *)
(* The service behind the guard looks again where it matters (module       *)
(* Organization); here the question is what the guard lets through.        *)
(***************************************************************************)
EXTENDS Policy

CONSTANTS
  Requests,        \* requests in flight
  Person,          \* whose requests they are
  Demands,         \* what the routes demand, a set of [permission, scope]
  Given,           \* organization roles that members are given
  Grants           \* operational roles that they are given, a set of [scope, role]

ASSUME AccessAssumption ==
  /\ None \notin Demands \cup Organizations \cup Scopes
  /\ Given \subseteq OrganizationRoles \cup {"member"}
  /\ Grants \subseteq [scope : Scopes, role : OperationalRoles]

VARIABLES
  member,          \* member[o]: the person's organization_memberships row
  assigned,        \* assigned[o]: the person's active role_assignments
  check,           \* check[r]: what is decided on r
  earned           \* earned[r]: what the rows have justified since r was there

accessVars == <<member, assigned, check, earned>>

Members ==
  [status : Statuses \cup {"none"}, role : OrganizationRoles \cup {"member", None}]

NoMember == [status |-> "none", role |-> None]

\* status and role are what the first statement found.
Checks ==
  [pc : {"none", "membership", "assignments", "allowed", "denied",
         "resolve", "viewer", "rows", "listed"},
   organization : Organizations \cup {None},
   demand : Demands \cup {None},
   status : Statuses \cup {None},
   role : OrganizationRoles \cup {None},
   visible : {"none", "self", "all"}]

NoCheck == [pc |-> "none", organization |-> None, demand |-> None,
            status |-> None, role |-> None, visible |-> "none"]

AccessInit ==
  /\ member = [o \in Organizations |-> NoMember]
  /\ assigned = [o \in Organizations |-> {}]
  /\ check = [r \in Requests |-> NoCheck]
  /\ earned = [r \in Requests |-> {}]

-----------------------------------------------------------------------------
(* Reading the rows                                                        *)

\* A plain member has no organization role.
RoleOf(row) == IF row.role \in OrganizationRoles THEN row.role ELSE None

\* The second statement; without an active membership it is not executed.
Loaded(o, status) ==
  IF status = "active"
  THEN {[organization |-> o, scope |-> g.scope, role |-> g.role,
         status |-> "active"] : g \in assigned[o]}
  ELSE {}

\* AuthorizationService.can, with a membership that was read earlier
Allows(o, demand, status, role) ==
  Can([actor |-> Person, organization |-> o, scope |-> demand.scope,
       permission |-> demand.permission],
      [actor |-> Person, organization |-> o, status |-> status, role |-> role,
       assignments |-> Loaded(o, status)])

\* No membership at all counts as a revoked one.
StatusOf(row) == IF row.status = "active" THEN "active" ELSE "revoked"

\* What the guard would say if it read everything at once.
AllowsNow(o, demand) == Allows(o, demand, StatusOf(member[o]), RoleOf(member[o]))

\* Bug for the mutation checks: the row of a former member counts, too.
VisibleToRole(row) ==
  IF row.status = "none" THEN "none"
  ELSE IF RoleOf(row) # None THEN "all" ELSE "self"

\* Members see their own entries, owners and admins those of everybody.
VisibleTo(row) ==
  IF row.status # "active" THEN "none"
  ELSE IF RoleOf(row) # None THEN "all" ELSE "self"

\* What a look at all rows at once would justify now.
Justified(r) ==
  LET c == check[r]
      row == member[c.organization]
  IN  {j \in {"pass", "self", "all"} :
         /\ c.pc # "none"
         /\ j = "pass" => c.demand # None /\ AllowsNow(c.organization, c.demand)
         /\ j = "self" => row.status = "active"
         /\ j = "all" => row.status = "active" /\ row.role \in {"owner", "admin"}}

-----------------------------------------------------------------------------
(* What others do meanwhile                                                *)

\* acceptInvitation: somebody who was removed is not admitted again.
Join(o, role, grants) ==
  /\ member[o].status = "none"
  /\ member' = [member EXCEPT ![o] = [status |-> "active", role |-> role]]
  /\ assigned' = [assigned EXCEPT ![o] = grants]
  /\ UNCHANGED check

\* updateMembershipRoles: the assignments are replaced, too.
Update(o, role, grants) ==
  /\ member[o].status = "active" /\ member[o].role # "owner"
  /\ member' = [member EXCEPT ![o] = [status |-> "active", role |-> role]]
  /\ assigned' = [assigned EXCEPT ![o] = grants]
  /\ <<member, assigned>>' # <<member, assigned>>
  /\ UNCHANGED check

\* transferOwnership, to the person or away; the assignments stay.
Transfer(o) ==
  /\ member[o].status = "active"
  /\ \/ member[o].role # "owner"
        /\ member' = [member EXCEPT ![o] = [status |-> "active", role |-> "owner"]]
     \/ member[o].role = "owner"
        /\ member' = [member EXCEPT ![o] = [status |-> "active", role |-> "member"]]
  /\ UNCHANGED <<assigned, check>>

\* revokeMembership: the assignments stay active, which is why they count for
\* nothing without the membership.
Remove(o) ==
  /\ member[o].status = "active" /\ member[o].role # "owner"
  /\ member' = [member EXCEPT ![o] = [status |-> "revoked", role |-> member[o].role]]
  /\ UNCHANGED <<assigned, check>>

Drift ==
  \E o \in Organizations :
    \/ \E role \in Given, grants \in SUBSET Grants :
         Join(o, role, grants) \/ Update(o, role, grants)
    \/ Transfer(o)
    \/ Remove(o)

-----------------------------------------------------------------------------
(* PermissionGuard                                                         *)

Advances(r, c) ==
  /\ check' = [check EXCEPT ![r] = c]
  /\ UNCHANGED <<member, assigned>>

\* The organization of the route, named by the proxy's header as well.
Begin(r, o, demand) ==
  /\ check[r] = NoCheck
  /\ Advances(r, [NoCheck EXCEPT !.pc = "membership", !.organization = o,
                                 !.demand = demand])

\* Bug for the mutation checks: a membership is read whatever its status.
ReadAnyMembership(r) ==
  LET o == check[r].organization
  IN  /\ check[r].pc = "membership"
      /\ Advances(r, [check[r] EXCEPT !.pc = "assignments",
                        !.status = IF member[o].status = "none" THEN "revoked" ELSE "active",
                        !.role = RoleOf(member[o])])

\* loadAuthorizationSnapshot, first statement
ReadMembership(r) ==
  LET o == check[r].organization
  IN  /\ check[r].pc = "membership"
      /\ Advances(r, [check[r] EXCEPT !.pc = "assignments",
                                      !.status = StatusOf(member[o]),
                                      !.role = RoleOf(member[o])])

\* Second statement, and the decision
ReadAssignments(r) ==
  LET c == check[r]
  IN  /\ c.pc = "assignments"
      /\ \/ /\ Allows(c.organization, c.demand, c.status, c.role)
            /\ Advances(r, [NoCheck EXCEPT !.pc = "allowed",
                              !.organization = c.organization, !.demand = c.demand])
         \/ /\ ~Allows(c.organization, c.demand, c.status, c.role)
            /\ Advances(r, [NoCheck EXCEPT !.pc = "denied",
                              !.organization = c.organization, !.demand = c.demand])

-----------------------------------------------------------------------------
(* The audit trail                                                         *)

\* The route demands a session only: the trail looks at the membership itself.
BeginAudit(r, o) ==
  /\ check[r] = NoCheck
  /\ Advances(r, [NoCheck EXCEPT !.pc = "resolve", !.organization = o])

\* resolveVisibility
Resolve(r) ==
  LET c == check[r]
      v == VisibleTo(member[c.organization])
  IN  /\ c.pc = "resolve"
      /\ \/ v = "none" /\ Advances(r, [c EXCEPT !.pc = "denied"])
         \/ v # "none" /\ Advances(r, [c EXCEPT !.pc = "viewer", !.visible = v])

\* Of two answers the narrower one: a filter by the own membership stays.
Narrower(v, w) ==
  IF v = "none" \/ w = "none" THEN "none"
  ELSE IF v = "self" \/ w = "self" THEN "self" ELSE "all"

\* listVisiblePage, first statement: the role once more
ReadViewer(r) ==
  LET c == check[r]
  IN  /\ c.pc = "viewer"
      /\ Advances(r, [c EXCEPT !.pc = "rows",
                        !.visible = Narrower(c.visible, VisibleTo(member[c.organization]))])

\* The page and its total
ReadRows(r) ==
  /\ check[r].pc = "rows"
  /\ Advances(r, [check[r] EXCEPT !.pc = "listed"])

CheckStep(r) ==
  \/ ReadMembership(r)
  \/ ReadAssignments(r)
  \/ Resolve(r)
  \/ ReadViewer(r)
  \/ ReadRows(r)

\* The request is answered.
Finish(r) == Advances(r, NoCheck)

\* The ghost: added to every step of the system.
Earns ==
  earned' = [r \in Requests |->
               IF check'[r].pc = "none" THEN {}
               ELSE (IF check[r].pc = "none" THEN {} ELSE earned[r]) \cup Justified(r)']

-----------------------------------------------------------------------------
(* Properties                                                              *)

\* The rows and the decisions have their form.
AccessTypeOK ==
  /\ member \in [Organizations -> Members]
  /\ assigned \in [Organizations -> SUBSET Grants]
  /\ check \in [Requests -> Checks]
  /\ earned \in [Requests -> SUBSET {"pass", "self", "all"}]

\* The guard reads membership and assignments in two statements and removal leaves
\* the assignments active.  It still lets nobody through who was not entitled to
\* pass, by the rows of one moment since the request came.
PassesAreEarned ==
  \A r \in Requests : check[r].pc = "allowed" => "pass" \in earned[r]

\* Nor does the trail show what the viewer's role did not allow at a moment since the
\* request came, although it looks at the role twice and at the rows afterwards.
PagesAreEarned ==
  \A r \in Requests :
    check[r].pc = "listed" /\ check[r].visible # "none" =>
      check[r].visible \in earned[r]

=============================================================================
