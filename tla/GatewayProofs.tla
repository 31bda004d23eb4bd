---------------------------- MODULE GatewayProofs ---------------------------
(***************************************************************************)
(* Proofs about Gateway for any number of pages, organizations, scopes,    *)
(* demands and grants: what the permission guard lets through and what the *)
(* audit trail shows was earned, and a rotation ends the tokens.           *)
(***************************************************************************)
EXTENDS Gateway, FiniteSetTheorems, TLAPS

-----------------------------------------------------------------------------
(* The policy, as far as the guard asks it                                 *)

ByMembership(d, role) ==
  \/ /\ d.permission \in OrganizationPermissions /\ d.scope = None
     /\ \/ d.permission = "organization:audit:self:read"
        \/ OrganizationRoleAllows(d.permission, role)
  \/ /\ d.permission \in TournamentPermissions /\ d.scope # None
     /\ OrganizationRoleAllows(d.permission, role)

ByDuty(o, d) ==
  /\ d.permission \in TournamentPermissions /\ d.scope # None
  /\ \E g \in assigned[o] :
       g.scope = d.scope /\ d.permission \in OperationalRolePermissions[g.role]

\* Without an active membership nothing is allowed; with one, the membership that was
\* read or a duty that is assigned now has to allow it.
LEMMA Allowance ==
  ASSUME NEW o, NEW d, NEW status, NEW role
  PROVE  Allows(o, d, status, role) <=>
           status = "active" /\ (ByMembership(d, role) \/ ByDuty(o, d))
<1>1. CASE status # "active"
  BY <1>1 DEF Allows, Can
<1>2. CASE status = "active"
  <2> DEFINE input == [actor |-> Person, organization |-> o, scope |-> d.scope,
                       permission |-> d.permission]
  <2>1. OperationalRoleAllows(input, Loaded(o, status)) <=>
          /\ d.scope # None
          /\ \E g \in assigned[o] :
               g.scope = d.scope /\ d.permission \in OperationalRolePermissions[g.role]
    <3> DEFINE row(g) == [organization |-> o, scope |-> g.scope, role |-> g.role,
                          status |-> "active"]
    <3>1. Loaded(o, status) = {row(g) : g \in assigned[o]}
      BY <1>2, Zenon DEF Loaded
    <3>2. \A g : row(g).status = "active" /\ row(g).organization = o
                  /\ row(g).scope = g.scope /\ row(g).role = g.role
      OBVIOUS
    <3>3. input.scope = d.scope /\ input.organization = o
            /\ input.permission = d.permission
      OBVIOUS
    <3>4. OperationalRoleAllows(input, Loaded(o, status)) <=>
            /\ d.scope # None
            /\ \E a \in Loaded(o, status) :
                 /\ a.status = "active" /\ a.organization = o /\ a.scope = d.scope
                 /\ d.permission \in OperationalRolePermissions[a.role]
      BY <3>3, Zenon DEF OperationalRoleAllows
    <3> HIDE DEF row, input
    <3>5. ASSUME NEW a \in Loaded(o, status),
                 a.scope = d.scope, d.permission \in OperationalRolePermissions[a.role]
          PROVE  \E g \in assigned[o] :
                   g.scope = d.scope /\ d.permission \in OperationalRolePermissions[g.role]
      <4>1. PICK g \in assigned[o] : a = row(g)
        BY <3>1
      <4> QED
        BY <4>1, <3>2, <3>5
    <3>6. ASSUME NEW g \in assigned[o], g.scope = d.scope,
                 d.permission \in OperationalRolePermissions[g.role]
          PROVE  \E a \in Loaded(o, status) :
                   /\ a.status = "active" /\ a.organization = o /\ a.scope = d.scope
                   /\ d.permission \in OperationalRolePermissions[a.role]
      <4>1. row(g) \in Loaded(o, status)
        BY <3>1
      <4> QED
        BY <4>1, <3>2, <3>6
    <3> QED
      BY <3>4, <3>5, <3>6
  <2> QED
    BY <1>2, <2>1, SMT DEF Allows, Can, ByMembership, ByDuty
<1> QED
  BY <1>1, <1>2

-----------------------------------------------------------------------------
(* The policy, for every question and everything known of the actor        *)

\* The assignments that a question is about.
Relevant(input, assignments) ==
  {a \in assignments : /\ a.status = "active"
                       /\ a.organization = input.organization
                       /\ a.scope = input.scope}

Knowing(s, role, assignments) ==
  [actor |-> s.actor, organization |-> s.organization, status |-> s.status,
   role |-> role, assignments |-> assignments]

LEMMA KnowingFields ==
  ASSUME NEW s, NEW role, NEW duties
  PROVE  /\ Knowing(s, role, duties).actor = s.actor
         /\ Knowing(s, role, duties).organization = s.organization
         /\ Knowing(s, role, duties).status = s.status
         /\ Knowing(s, role, duties).role = role
         /\ Knowing(s, role, duties).assignments = duties
BY DEF Knowing

\* Assignments that were revoked, and those of other organizations or other scopes,
\* count for nothing (operationalRoleAllows, packages/authorization/src/index.ts:123).
THEOREM OnlyRelevantDutiesCount ==
  ASSUME NEW input \in Inputs, NEW s \in Snapshots
  PROVE  Can(input, s) <=>
           Can(input, Knowing(s, s.role, Relevant(input, s.assignments)))
<1>1. OperationalRoleAllows(input, s.assignments) <=>
        OperationalRoleAllows(input, Relevant(input, s.assignments))
  BY DEF OperationalRoleAllows, Relevant
<1> QED
  BY <1>1, KnowingFields DEF Can

\* A further assignment never takes a permission away.
THEOREM DutiesOnlyAdd ==
  ASSUME NEW input \in Inputs, NEW s \in Snapshots, NEW more \in SUBSET Assignments,
         Can(input, s)
  PROVE  Can(input, Knowing(s, s.role, s.assignments \cup more))
<1>1. OperationalRoleAllows(input, s.assignments) =>
        OperationalRoleAllows(input, s.assignments \cup more)
  BY DEF OperationalRoleAllows
<1> QED
  BY <1>1, KnowingFields DEF Can

LEMMA AdminAllows ==
  ASSUME NEW permission \in Permissions
  PROVE  /\ OrganizationRoleAllows(permission, "owner")
         /\ OrganizationRoleAllows(permission, "admin") <=>
              permission # "organization:ownership:transfer"
BY PolicyAssumption DEF OrganizationRoleAllows, OrganizationRolePermissions

\* Neither does a higher organization role: owners may all that admins may, and admins
\* all that any assignment allows.
THEOREM PromotionOnlyAdds ==
  ASSUME NEW input \in Inputs, NEW s \in Snapshots, Can(input, s),
         NEW role \in OrganizationRoles, role = "owner" \/ s.role # "owner"
  PROVE  Can(input, Knowing(s, role, s.assignments))
<1>1. input.permission \in Permissions
  BY DEF Inputs
<1>2. s.role \in OrganizationRoles \cup {None}
  BY DEF Snapshots
<1>3. OrganizationRoleAllows(input.permission, s.role) =>
        OrganizationRoleAllows(input.permission, role)
  <2>1. CASE role = "owner"
    BY <1>1, <2>1, AdminAllows
  <2>2. CASE role = "admin" /\ s.role # "owner"
    BY <1>2, <2>2 DEF OrganizationRoles, OrganizationRoleAllows
  <2> QED
    BY <2>1, <2>2 DEF OrganizationRoles
<1> QED
  BY <1>3, KnowingFields DEF Can

\* Ownership is transferred by an active owner and by nobody else, whatever has been
\* assigned.
THEOREM OnlyOwnersTransfer ==
  ASSUME NEW input \in Inputs, NEW s \in Snapshots,
         input.permission = "organization:ownership:transfer", Can(input, s)
  PROVE  s.status = "active" /\ s.role = "owner" /\ input.scope = None
<1>1. input.permission \in Permissions /\ s.role \in OrganizationRoles \cup {None}
  BY DEF Inputs, Snapshots
<1>2. input.permission \notin TournamentPermissions
  BY DEF TournamentPermissions
<1>3. input.scope = None /\ OrganizationRoleAllows(input.permission, s.role)
  BY <1>2 DEF Can
<1>4. s.role # "admin" /\ s.role # None
  BY <1>1, <1>3, AdminAllows DEF OrganizationRoleAllows
<1> QED
  BY <1>1, <1>3, <1>4 DEF Can, OrganizationRoles

\* Members without an organization role and without an assignment for the scope may
\* look at what they did themselves, and nothing else.
THEOREM PlainMembersSeeThemselves ==
  ASSUME NEW input \in Inputs, NEW s \in Snapshots, s.role = None,
         Relevant(input, s.assignments) = {}, Can(input, s)
  PROVE  input.permission = "organization:audit:self:read"
<1>1. ~OperationalRoleAllows(input, s.assignments)
  BY DEF OperationalRoleAllows, Relevant
<1> QED
  BY <1>1 DEF Can, OrganizationRoleAllows

-----------------------------------------------------------------------------
(* What a step does to the rows and the decisions                          *)

Ended == {"allowed", "denied", "listed"}

AccessStep ==
  \/ UNCHANGED <<member, assigned, check>>
  \/ Drift
  \/ \E r \in Requests :
       \/ CheckStep(r)
       \/ \E o \in Organizations :
            BeginAudit(r, o) \/ \E d \in Demands : Begin(r, o, d)
       \/ check[r].pc \in Ended /\ Finish(r)

LEMMA StepShape ==
  ASSUME Next
  PROVE  AccessStep /\ Earns
<1>1. Earns
  BY DEF Next
<1>2. ASSUME NEW p \in Pages, Step(p)
      PROVE  AccessStep
  BY <1>2, RequestsArePages DEF Step, Alone, Enter, Pass, Decide, Handle, AccessStep, Ended
<1>3. AccessStep
  BY <1>2 DEF Next, Fault, AccessStep
<1> QED
  BY <1>1, <1>3

LEMMA EarnedStep ==
  ASSUME Earns, NEW r \in Requests
  PROVE  /\ check'[r].pc = "none" => earned'[r] = {}
         /\ check'[r].pc # "none" => Justified(r)' \subseteq earned'[r]
         /\ check'[r].pc # "none" /\ check[r].pc # "none" => earned[r] \subseteq earned'[r]
         /\ earned'[r] \subseteq earned[r] \cup Justified(r)'
BY DEF Earns

LEMMA EarnedType ==
  ASSUME AccessTypeOK, Earns
  PROVE  earned' \in [Requests -> SUBSET {"pass", "self", "all"}]
<1>1. ASSUME NEW r \in Requests
      PROVE  earned'[r] \subseteq {"pass", "self", "all"}
  <2>1. Justified(r)' \subseteq {"pass", "self", "all"}
    BY DEF Justified
  <2> QED
    BY <2>1, EarnedStep DEF AccessTypeOK
<1>2. earned' = [r \in Requests |-> earned'[r]]
  BY DEF Earns
<1> QED
  BY <1>1, <1>2

-----------------------------------------------------------------------------
(* Types of Access                                                         *)

LEMMA NoCheckType == NoCheck \in Checks
BY DEF NoCheck, Checks

LEMMA RowTypes ==
  ASSUME AccessTypeOK, NEW o \in Organizations
  PROVE  /\ member[o] \in Members
         /\ StatusOf(member[o]) \in Statuses
         /\ RoleOf(member[o]) \in OrganizationRoles \cup {None}
         /\ VisibleTo(member[o]) \in {"none", "self", "all"}
BY DEF AccessTypeOK, Members, StatusOf, RoleOf, VisibleTo, Statuses

\* Whoever asks has a question, until it is answered.
Asked ==
  \A r \in Requests :
    /\ check[r].pc # "none" => check[r].organization \in Organizations
    /\ check[r].pc \in {"membership", "assignments", "allowed"} =>
         check[r].demand \in Demands

Moved(r, c) ==
  /\ c \in Checks
  /\ c.pc # "none" => c.organization \in Organizations
  /\ c.pc \in {"membership", "assignments", "allowed"} => c.demand \in Demands
  /\ Advances(r, c)

LEMMA MovesTyped ==
  ASSUME AccessTypeOK, Asked, NEW r \in Requests,
         \/ CheckStep(r)
         \/ \E o \in Organizations :
              BeginAudit(r, o) \/ \E d \in Demands : Begin(r, o, d)
         \/ check[r].pc \in Ended /\ Finish(r)
  PROVE  \E c : Moved(r, c)
<1> DEFINE c == check[r]
           o == c.organization
<1>1. c \in Checks
  BY DEF AccessTypeOK
<1>2. c.pc # "none" => o \in Organizations
  BY DEF Asked
<1>3. CASE \E x \in Organizations :
             BeginAudit(r, x) \/ \E d \in Demands : Begin(r, x, d)
  <2>1. PICK x \in Organizations :
          BeginAudit(r, x) \/ \E d \in Demands : Begin(r, x, d)
    BY <1>3
  <2>2. CASE BeginAudit(r, x)
    <3>1. [NoCheck EXCEPT !.pc = "resolve", !.organization = x] \in Checks
      BY DEF NoCheck, Checks
    <3> QED
      BY <2>2, <3>1 DEF BeginAudit, Moved, NoCheck
  <2>3. CASE \E d \in Demands : Begin(r, x, d)
    <3>1. PICK d \in Demands : Begin(r, x, d)
      BY <2>3
    <3>2. [NoCheck EXCEPT !.pc = "membership", !.organization = x, !.demand = d]
            \in Checks
      BY DEF NoCheck, Checks
    <3> QED
      BY <3>1, <3>2 DEF Begin, Moved, NoCheck
  <2> QED
    BY <2>1, <2>2, <2>3
<1>4. CASE ReadMembership(r)
  <2> DEFINE new == [c EXCEPT !.pc = "assignments", !.status = StatusOf(member[o]),
                              !.role = RoleOf(member[o])]
  <2>1. o \in Organizations /\ c.demand \in Demands
    BY <1>4 DEF ReadMembership, Asked
  <2>2. StatusOf(member[o]) \in Statuses /\ RoleOf(member[o]) \in OrganizationRoles \cup {None}
    BY <2>1, RowTypes
  <2>3. new \in Checks /\ new.organization = o /\ new.demand = c.demand
    BY <1>1, <2>2 DEF Checks
  <2> QED
    BY <1>4, <2>1, <2>3 DEF ReadMembership, Moved
<1>5. CASE ReadAssignments(r)
  <2>1. o \in Organizations /\ c.demand \in Demands
    BY <1>5 DEF ReadAssignments, Asked
  <2>2. \A pc \in {"allowed", "denied"} :
          LET new == [NoCheck EXCEPT !.pc = pc, !.organization = o, !.demand = c.demand]
          IN  new \in Checks /\ new.organization = o /\ new.demand = c.demand
    BY <2>1 DEF NoCheck, Checks
  <2> QED
    BY <1>5, <2>1, <2>2 DEF ReadAssignments, Moved, NoCheck
<1>6. CASE Resolve(r) \/ ReadViewer(r) \/ ReadRows(r)
  <2>1. o \in Organizations
    BY <1>2, <1>6 DEF Resolve, ReadViewer, ReadRows
  <2>2. \A v \in {"none", "self", "all"} :
          \A pc \in {"denied", "viewer", "rows", "listed"} :
            /\ [c EXCEPT !.pc = pc, !.visible = v] \in Checks
            /\ [c EXCEPT !.pc = pc, !.visible = v].organization = o
            /\ [c EXCEPT !.pc = pc, !.visible = v].pc = pc
            /\ [c EXCEPT !.pc = pc] \in Checks
            /\ [c EXCEPT !.pc = pc].organization = o
            /\ [c EXCEPT !.pc = pc].pc = pc
    BY <1>1 DEF Checks
  <2>3. VisibleTo(member[o]) \in {"none", "self", "all"}
    BY <2>1, RowTypes
  <2>4. Narrower(c.visible, VisibleTo(member[o])) \in {"none", "self", "all"}
    BY DEF Narrower
  <2> HIDE DEF c, o
  <2>5. CASE Resolve(r)
    BY <2>5, <2>1, <2>2, <2>3 DEF Resolve, Moved, c, o
  <2>6. CASE ReadViewer(r)
    BY <2>6, <2>1, <2>2, <2>4 DEF ReadViewer, Moved, c, o
  <2>7. CASE ReadRows(r)
    BY <2>7, <2>1, <2>2 DEF ReadRows, Moved, c, o
  <2> QED
    BY <1>6, <2>5, <2>6, <2>7
<1>7. CASE check[r].pc \in Ended /\ Finish(r)
  BY <1>7, NoCheckType DEF Finish, Moved, NoCheck
<1> QED
  BY <1>3, <1>4, <1>5, <1>6, <1>7 DEF CheckStep

LEMMA DriftTyped ==
  ASSUME AccessTypeOK, Drift
  PROVE  /\ check' = check
         /\ member' \in [Organizations -> Members]
         /\ assigned' \in [Organizations -> SUBSET Grants]
<1>1. PICK o \in Organizations :
        \/ \E role \in Given, grants \in SUBSET Grants :
             Join(o, role, grants) \/ Update(o, role, grants)
        \/ Transfer(o)
        \/ Remove(o)
  BY DEF Drift
<1>2. \A s \in Statuses, role \in OrganizationRoles \cup {"member", None} :
        [status |-> s, role |-> role] \in Members
  BY DEF Members
<1>3. member[o].role \in OrganizationRoles \cup {"member", None}
  BY DEF AccessTypeOK, Members
<1>4. CASE \E role \in Given, grants \in SUBSET Grants :
             Join(o, role, grants) \/ Update(o, role, grants)
  <2>1. PICK role \in Given, grants \in SUBSET Grants :
          Join(o, role, grants) \/ Update(o, role, grants)
    BY <1>4
  <2>2. [status |-> "active", role |-> role] \in Members
    BY <1>2, AccessAssumption DEF Statuses
  <2> QED
    BY <2>1, <2>2 DEF Join, Update, AccessTypeOK
<1>5. CASE Transfer(o)
  <2>1. /\ [status |-> "active", role |-> "owner"] \in Members
        /\ [status |-> "active", role |-> "member"] \in Members
    BY <1>2 DEF Statuses, OrganizationRoles
  <2> QED
    BY <1>5, <2>1 DEF Transfer, AccessTypeOK
<1>6. CASE Remove(o)
  <2>1. [status |-> "revoked", role |-> member[o].role] \in Members
    BY <1>2, <1>3 DEF Statuses
  <2> QED
    BY <1>6, <2>1 DEF Remove, AccessTypeOK
<1> QED
  BY <1>1, <1>4, <1>5, <1>6

AccessTyped == AccessTypeOK /\ Asked

LEMMA AccessTypesKept ==
  ASSUME AccessTyped, AccessStep, Earns
  PROVE  AccessTyped'
<1> USE DEF AccessTyped
<1>1. earned' \in [Requests -> SUBSET {"pass", "self", "all"}]
  BY EarnedType
<1>2. CASE UNCHANGED <<member, assigned, check>>
  BY <1>1, <1>2 DEF AccessTypeOK, Asked
<1>3. CASE Drift
  BY <1>1, <1>3, DriftTyped DEF AccessTypeOK, Asked
<1>4. ASSUME NEW r \in Requests, NEW c, Moved(r, c)
      PROVE  AccessTyped'
  BY <1>1, <1>4 DEF AccessTypeOK, Asked, Moved, Advances
<1> QED
  BY <1>2, <1>3, <1>4, MovesTyped DEF AccessStep

LEMMA AccessTypesFirst == AccessInit => AccessTyped
<1>1. NoMember \in Members
  BY DEF NoMember, Members
<1> QED
  BY <1>1, NoCheckType DEF AccessInit, AccessTyped, AccessTypeOK, Asked, NoCheck

-----------------------------------------------------------------------------
(* What is let through, and what is shown, was justified                   *)

\* The membership that was found first, with the assignments of now.
Granted(c) ==
  c.status = "active" /\ (ByMembership(c.demand, c.role) \/ ByDuty(c.organization, c.demand))

Entitling(o, d) ==
  /\ member[o].status = "active"
  /\ ByMembership(d, RoleOf(member[o])) \/ ByDuty(o, d)

LEMMA JustifiedPass ==
  ASSUME NEW r
  PROVE  "pass" \in Justified(r) <=>
           /\ check[r].pc # "none" /\ check[r].demand # None
           /\ Entitling(check[r].organization, check[r].demand)
<1>1. \A o, d : AllowsNow(o, d) <=> Entitling(o, d)
  BY Allowance DEF AllowsNow, Entitling, StatusOf
<1> QED
  BY <1>1 DEF Justified

LEMMA JustifiedPassNext ==
  ASSUME NEW r
  PROVE  "pass" \in Justified(r)' <=>
           /\ check'[r].pc # "none" /\ check'[r].demand # None
           /\ Entitling(check[r].organization, check[r].demand)'
<1>1. ("pass" \in Justified(r) <=>
         /\ check[r].pc # "none" /\ check[r].demand # None
         /\ Entitling(check[r].organization, check[r].demand))'
  BY JustifiedPass, PTL
<1> QED
  BY <1>1

\* Between the two statements of the guard it holds already that what it found first
\* grants, with the assignments of now, no more than was earned; so it does, of the
\* page, from the first look at the role on.
Sound(r) ==
  LET c == check[r]
  IN  /\ c.pc = "assignments" /\ Granted(c) => "pass" \in earned[r]
      /\ c.pc = "allowed" => "pass" \in earned[r]
      /\ c.pc \in {"viewer", "rows", "listed"} /\ c.visible # "none" =>
           c.visible \in earned[r]

AccessInv == AccessTyped /\ \A r \in Requests : Sound(r)

\* Whoever is given a duty is active then.
LEMMA DriftIsSound ==
  ASSUME AccessInv, Drift, Earns, NEW r \in Requests
  PROVE  Sound(r)'
<1> DEFINE c == check[r]
           o == c.organization
           d == c.demand
<1>1. check' = check
  BY DriftTyped DEF AccessInv, AccessTyped
<1>2. c.pc # "none" => earned[r] \subseteq earned'[r]
  BY <1>1, EarnedStep
<1>3. ASSUME c.pc = "assignments", Granted(c)', ~Granted(c)
      PROVE  "pass" \in earned'[r]
  <2>1. o \in Organizations /\ d \in Demands /\ d # None
    BY <1>3, AccessAssumption DEF AccessInv, AccessTyped, Asked
  <2>2. c.status = "active" /\ ByDuty(o, d)' /\ ~ByDuty(o, d)
    BY <1>1, <1>3 DEF Granted, ByDuty, ByMembership
  <2>3. assigned'[o] # assigned[o]
    BY <1>1, <2>2 DEF ByDuty
  <2>4. member'[o].status = "active"
    <3>1. PICK x \in Organizations :
            \/ \E role \in Given, grants \in SUBSET Grants :
                 Join(x, role, grants) \/ Update(x, role, grants)
            \/ Transfer(x)
            \/ Remove(x)
      BY DEF Drift
    <3>2. PICK role \in Given, grants \in SUBSET Grants :
            Join(x, role, grants) \/ Update(x, role, grants)
      BY <2>3, <3>1 DEF Transfer, Remove
    <3>3. x = o
      BY <2>1, <2>3, <3>2 DEF Join, Update, AccessInv, AccessTyped, AccessTypeOK
    <3> QED
      BY <2>1, <3>2, <3>3 DEF Join, Update, AccessInv, AccessTyped, AccessTypeOK
  <2>5. Entitling(o, d)'
    BY <1>1, <2>2, <2>4 DEF Entitling
  <2>6. "pass" \in Justified(r)'
    BY <1>1, <1>3, <2>1, <2>5, JustifiedPassNext
  <2> QED
    BY <1>1, <1>3, <2>6, EarnedStep
<1> QED
  BY <1>1, <1>2, <1>3 DEF AccessInv, Sound

LEMMA OthersStaySound ==
  ASSUME AccessInv, Earns, NEW r \in Requests, check'[r] = check[r],
         UNCHANGED <<member, assigned>>
  PROVE  Sound(r)'
<1>1. check[r].pc # "none" => earned[r] \subseteq earned'[r]
  BY EarnedStep
<1>2. Granted(check[r])' <=> Granted(check[r])
  BY DEF Granted, ByDuty, ByMembership
<1> QED
  BY <1>1, <1>2 DEF AccessInv, Sound

Showing(o) == VisibleTo(member[o])

\* The rows justify what the role that is read now makes visible.
LEMMA JustifiedPage ==
  ASSUME NEW r \in Requests
  PROVE  AccessTyped /\ check[r].pc # "none" /\ Showing(check[r].organization) # "none" =>
           {"self", Showing(check[r].organization)} \subseteq Justified(r)
<1> SUFFICES ASSUME AccessTyped, check[r].pc # "none",
                    Showing(check[r].organization) # "none"
             PROVE  {"self", Showing(check[r].organization)} \subseteq Justified(r)
  OBVIOUS
<1>1. member[check[r].organization] \in Members
  BY RowTypes DEF AccessTyped, Asked
<1> QED
  BY <1>1 DEF Justified, Showing, VisibleTo, RoleOf, OrganizationRoles

LEMMA JustifiedPageNext ==
  ASSUME NEW r \in Requests
  PROVE  AccessTyped' /\ check'[r].pc # "none" /\ Showing(check[r].organization)' # "none" =>
           {"self", Showing(check[r].organization)'} \subseteq Justified(r)'
<1>1. (AccessTyped /\ check[r].pc # "none" /\ Showing(check[r].organization) # "none" =>
         {"self", Showing(check[r].organization)} \subseteq Justified(r))'
  BY JustifiedPage, PTL
<1> QED
  BY <1>1

LEMMA OwnMoveIsSound ==
  ASSUME AccessInv, AccessTyped', Earns, NEW r \in Requests,
         \/ CheckStep(r)
         \/ \E o \in Organizations :
              BeginAudit(r, o) \/ \E d \in Demands : Begin(r, o, d)
         \/ check[r].pc \in Ended /\ Finish(r)
  PROVE  Sound(r)'
<1> DEFINE c == check[r]
           o == c.organization
<1>1. c \in Checks /\ check \in [Requests -> Checks]
  BY DEF AccessInv, AccessTyped, AccessTypeOK
<1>2. CASE \/ \E x \in Organizations :
                BeginAudit(r, x) \/ \E d \in Demands : Begin(r, x, d)
           \/ c.pc \in Ended /\ Finish(r)
  <2>1. check'[r].pc \in {"membership", "resolve", "none"}
    <3>1. ASSUME NEW x \in Organizations, BeginAudit(r, x)
          PROVE  check'[r].pc = "resolve"
      BY <1>1, <3>1 DEF BeginAudit, Advances, NoCheck
    <3>2. ASSUME NEW x \in Organizations, NEW d \in Demands, Begin(r, x, d)
          PROVE  check'[r].pc = "membership"
      BY <1>1, <3>2 DEF Begin, Advances, NoCheck
    <3>3. Finish(r) => check'[r].pc = "none"
      BY <1>1 DEF Finish, Advances, NoCheck
    <3> QED
      BY <1>2, <3>1, <3>2, <3>3
  <2> QED
    BY <2>1 DEF Sound
<1>3. CASE ReadMembership(r)
  <2>1. /\ check'[r].pc = "assignments" /\ check'[r].organization = o
        /\ check'[r].demand = c.demand
        /\ check'[r].status = StatusOf(member[o]) /\ check'[r].role = RoleOf(member[o])
        /\ UNCHANGED <<member, assigned>>
    BY <1>1, <1>3 DEF ReadMembership, Advances, Checks
  <2>2. check'[r].demand # None
    BY <1>3, <2>1, AccessAssumption
    DEF ReadMembership, AccessInv, AccessTyped, Asked
  <2>3. Granted(check[r])' => Entitling(check[r].organization, check[r].demand)'
    BY <2>1 DEF Granted, Entitling, StatusOf, ByDuty, ByMembership, RoleOf
  <2> QED
    BY <2>1, <2>2, <2>3, JustifiedPassNext, EarnedStep DEF Sound
<1>4. CASE ReadAssignments(r)
  <2>1. Allows(o, c.demand, c.status, c.role) => Granted(c)
    BY Allowance DEF Granted
  <2>2. /\ check'[r].pc \in {"allowed", "denied"}
        /\ check'[r].pc = "allowed" => Granted(c)
    BY <1>1, <1>4, <2>1 DEF ReadAssignments, Advances, NoCheck
  <2> QED
    BY <1>4, <2>2, EarnedStep DEF Sound, AccessInv, ReadAssignments
<1>5. CASE Resolve(r) \/ ReadViewer(r)
  <2> DEFINE v == VisibleTo(member[o])
  <2>1. \A pc \in {"denied", "viewer", "rows"}, w \in {"none", "self", "all"} :
          LET new == [c EXCEPT !.pc = pc, !.visible = w]
              early == [c EXCEPT !.pc = pc]
          IN  /\ new.pc = pc /\ new.organization = o /\ new.visible = w
              /\ early.pc = pc /\ early.organization = o
    BY <1>1 DEF Checks
  <2>2. v \in {"none", "self", "all"} /\ Narrower(c.visible, v) \in {"none", "self", "all"}
    BY <1>5, RowTypes DEF Resolve, ReadViewer, AccessInv, AccessTyped, Asked, Narrower
  <2> HIDE DEF v
  <2>3. /\ check'[r].pc \in {"denied", "viewer", "rows"}
        /\ check'[r].organization = o
        /\ UNCHANGED member
        /\ \/ check'[r].pc = "denied"
           \/ check'[r].visible = v
           \/ c.pc = "viewer" /\ check'[r].visible = Narrower(c.visible, v)
    <3>1. CASE Resolve(r)
      <4>1. \/ check' = [check EXCEPT ![r] = [c EXCEPT !.pc = "denied"]]
            \/ check' = [check EXCEPT ![r] = [c EXCEPT !.pc = "viewer", !.visible = v]]
        BY <3>1, Zenon DEF Resolve, Advances, v
      <4>2. UNCHANGED member
        BY <3>1 DEF Resolve, Advances
      <4> DEFINE early == [c EXCEPT !.pc = "denied"]
                 new == [c EXCEPT !.pc = "viewer", !.visible = v]
      <4>3. /\ early.pc = "denied" /\ early.organization = o
            /\ new.pc = "viewer" /\ new.organization = o /\ new.visible = v
        BY <2>1, <2>2
      <4> HIDE DEF early, new
      <4>4. check'[r] \in {early, new}
        BY <1>1, <4>1 DEF early, new
      <4> QED
        BY <4>2, <4>3, <4>4
    <3>2. CASE ReadViewer(r)
      <4> DEFINE w == Narrower(c.visible, v)
                 new == [c EXCEPT !.pc = "rows", !.visible = w]
      <4>1. new.pc = "rows" /\ new.organization = o /\ new.visible = w
        BY <2>1, <2>2
      <4>2. c.pc = "viewer" /\ check' = [check EXCEPT ![r] = new] /\ UNCHANGED member
        BY <3>2, Zenon DEF ReadViewer, Advances, v
      <4> HIDE DEF new, w
      <4>3. check'[r] = new
        BY <1>1, <4>2
      <4> QED
        BY <4>1, <4>2, <4>3 DEF w
    <3> QED
      BY <1>5, <3>1, <3>2
  <2>6. v # "none" => {"self", v} \subseteq earned'[r]
    <3>1. Showing(check[r].organization)' = v
      BY <2>3 DEF Showing, VisibleTo, RoleOf, v
    <3> QED
      BY <2>3, <3>1, JustifiedPageNext, EarnedStep
  <2>4. v \in {"none", "self", "all"} /\ c.visible \in {"none", "self", "all"}
    BY <1>1, <2>2 DEF Checks
  <2>5. Narrower(c.visible, v) # "none" => v # "none" /\ Narrower(c.visible, v) \in {"self", v}
    BY <2>4 DEF Narrower
  <2> QED
    BY <2>3, <2>5, <2>6 DEF Sound
<1>6. CASE ReadRows(r)
  <2>1. check'[r].pc = "listed" /\ check'[r].visible = c.visible /\ c.pc = "rows"
    BY <1>1, <1>6 DEF ReadRows, Advances, Checks
  <2> QED
    BY <2>1, EarnedStep DEF Sound, AccessInv
<1> QED
  BY <1>2, <1>3, <1>4, <1>5, <1>6 DEF CheckStep

LEMMA AccessInvKept ==
  ASSUME AccessInv, AccessStep, Earns
  PROVE  AccessInv'
<1>1. AccessTyped'
  BY AccessTypesKept DEF AccessInv
<1>2. ASSUME NEW r \in Requests
      PROVE  Sound(r)'
  <2>1. CASE UNCHANGED <<member, assigned, check>>
    BY <2>1, OthersStaySound
  <2>2. CASE Drift
    BY <2>2, DriftIsSound
  <2>3. ASSUME NEW q \in Requests,
               \/ CheckStep(q)
               \/ \E o \in Organizations :
                    BeginAudit(q, o) \/ \E d \in Demands : Begin(q, o, d)
               \/ check[q].pc \in Ended /\ Finish(q)
        PROVE  Sound(r)'
    <3>1. PICK c : Moved(q, c)
      BY <2>3, MovesTyped DEF AccessInv, AccessTyped
    <3>2. CASE q = r
      BY <1>1, <2>3, <3>2, OwnMoveIsSound
    <3>3. CASE q # r
      BY <3>1, <3>3, OthersStaySound DEF Moved, Advances, AccessInv, AccessTyped, AccessTypeOK
    <3> QED
      BY <3>2, <3>3
  <2> QED
    BY <2>1, <2>2, <2>3 DEF AccessStep
<1> QED
  BY <1>1, <1>2 DEF AccessInv

LEMMA AccessInvariance == Spec => []AccessInv
<1>1. Init => AccessInv
  BY AccessTypesFirst DEF Init, AccessInv, Sound, AccessInit, NoCheck
<1>2. AccessInv /\ [Next]_vars => AccessInv'
  <2>1. ASSUME AccessInv, UNCHANGED vars
        PROVE  AccessInv'
    BY <2>1 DEF vars, accessVars, AccessInv, AccessTyped, AccessTypeOK, Asked, Sound,
                Granted, ByDuty, ByMembership
  <2> QED
    BY <2>1, StepShape, AccessInvKept
<1> QED
  BY <1>1, <1>2, PTL DEF Spec

\* The guard lets nobody through whom the rows of no moment since his request came
\* would have let through (permission.guard.ts, authorization.ts:48).
THEOREM PassesEarned == Spec => []PassesAreEarned
<1>1. AccessInv => PassesAreEarned
  BY DEF AccessInv, Sound, PassesAreEarned
<1> QED
  BY <1>1, AccessInvariance, PTL

\* The audit trail shows nobody more than his role of some moment since his request came
\* would have shown (audit.service.ts, audit.ts).
THEOREM PagesEarned == Spec => []PagesAreEarned
<1>1. AccessInv => PagesAreEarned
  BY DEF AccessInv, Sound, PagesAreEarned
<1> QED
  BY <1>1, AccessInvariance, PTL

-----------------------------------------------------------------------------
(* There is always a new nonce                                             *)

LEMMA ImageBound ==
  ASSUME NEW S, IsFiniteSet(S), NEW f, DOMAIN f = S
  PROVE  LET T == {f[x] : x \in S}
         IN  IsFiniteSet(T) /\ Cardinality(T) <= Cardinality(S)
<1> DEFINE T == {f[x] : x \in S}
           g == [x \in S |-> f[x]]
<1>1. g \in Surjection(S, T)
  BY DEF Surjection
<1> HIDE DEF T, g
<1>2. IsFiniteSet(T) /\ Cardinality(T) <= Cardinality(S)
  BY <1>1, FS_Surjection
<1> QED
  BY <1>2 DEF T

LEMMA UnionBound ==
  ASSUME NEW S, NEW T, NEW m \in Nat, NEW n \in Nat,
         IsFiniteSet(S), Cardinality(S) <= m, IsFiniteSet(T), Cardinality(T) <= n
  PROVE  IsFiniteSet(S \cup T) /\ Cardinality(S \cup T) <= m + n
<1>1. /\ IsFiniteSet(S \cup T)
      /\ Cardinality(S \cup T) = Cardinality(S) + Cardinality(T) - Cardinality(S \cap T)
  BY FS_Union
<1>2. Cardinality(S \cap T) \in Nat /\ Cardinality(S) \in Nat /\ Cardinality(T) \in Nat
  BY FS_CardinalityType, FS_Subset
<1> QED
  BY <1>1, <1>2

LEMMA NonceLeft ==
  /\ FreshNonce \in Nonces
  /\ FreshNonce \notin {jar.preauth, jar.secret}
  /\ \A q \in Pages : ~Uses(q, FreshNonce)
<1> DEFINE N == Cardinality(Pages)
           A == {page[q].context : q \in Pages}
           B == {page[q].secret : q \in Pages}
           C == {page[q].sets.preauth : q \in Pages}
           D == {page[q].sets.secret : q \in Pages}
           J == {jar.preauth, jar.secret}
           U == J \cup ((A \cup B) \cup (C \cup D))
<1>1. N \in Nat /\ IsFiniteSet(Pages) /\ IsFiniteSet(Nonces) /\ Cardinality(Nonces) \in Nat
        /\ Cardinality(Nonces) > 2 + 4 * N
  BY BrowserAssumption, FS_CardinalityType
<1>2. IsFiniteSet(A) /\ Cardinality(A) <= N
  <2> DEFINE f == [q \in Pages |-> page[q].context]
  <2>1. A = {f[q] : q \in Pages} /\ DOMAIN f = Pages
    OBVIOUS
  <2> HIDE DEF f, A, N
  <2> QED
    BY <1>1, <2>1, ImageBound DEF N
<1>3. IsFiniteSet(B) /\ Cardinality(B) <= N
  <2> DEFINE f == [q \in Pages |-> page[q].secret]
  <2>1. B = {f[q] : q \in Pages} /\ DOMAIN f = Pages
    OBVIOUS
  <2> HIDE DEF f, B, N
  <2> QED
    BY <1>1, <2>1, ImageBound DEF N
<1>4. IsFiniteSet(C) /\ Cardinality(C) <= N
  <2> DEFINE f == [q \in Pages |-> page[q].sets.preauth]
  <2>1. C = {f[q] : q \in Pages} /\ DOMAIN f = Pages
    OBVIOUS
  <2> HIDE DEF f, C, N
  <2> QED
    BY <1>1, <2>1, ImageBound DEF N
<1>5. IsFiniteSet(D) /\ Cardinality(D) <= N
  <2> DEFINE f == [q \in Pages |-> page[q].sets.secret]
  <2>1. D = {f[q] : q \in Pages} /\ DOMAIN f = Pages
    OBVIOUS
  <2> HIDE DEF f, D, N
  <2> QED
    BY <1>1, <2>1, ImageBound DEF N
<1>6. IsFiniteSet(J) /\ Cardinality(J) <= 2
  <2>1. IsFiniteSet({jar.preauth}) /\ Cardinality({jar.preauth}) = 1
    BY FS_Singleton
  <2>2. J = {jar.preauth} \cup {jar.secret}
    OBVIOUS
  <2> HIDE DEF J
  <2> QED
    BY <2>1, <2>2, FS_AddElement
<1> HIDE DEF N, A, B, C, D, J
<1>7. IsFiniteSet(A \cup B) /\ Cardinality(A \cup B) <= N + N
  BY <1>1, <1>2, <1>3, UnionBound
<1>8. IsFiniteSet(C \cup D) /\ Cardinality(C \cup D) <= N + N
  BY <1>1, <1>4, <1>5, UnionBound
<1>9. /\ IsFiniteSet((A \cup B) \cup (C \cup D))
      /\ Cardinality((A \cup B) \cup (C \cup D)) <= (N + N) + (N + N)
  <2>1. N + N \in Nat
    BY <1>1
  <2> QED
    BY <1>7, <1>8, <2>1, UnionBound
<1>10. IsFiniteSet(U) /\ Cardinality(U) <= 2 + ((N + N) + (N + N))
  <2>1. 2 \in Nat /\ (N + N) + (N + N) \in Nat
    BY <1>1
  <2> QED
    BY <1>6, <1>9, <2>1, UnionBound
<1>11. ~(Nonces \subseteq U)
  <2> HIDE DEF U
  <2>1. SUFFICES ASSUME Nonces \subseteq U PROVE FALSE
    OBVIOUS
  <2>2. Cardinality(Nonces) <= Cardinality(U) /\ Cardinality(U) \in Nat
    BY <1>10, <2>1, FS_Subset, FS_CardinalityType
  <2> QED
    BY <1>1, <1>10, <2>2
<1>12. \E n \in Nonces : n \notin {jar.preauth, jar.secret} /\ \A q \in Pages : ~Uses(q, n)
  <2>1. PICK n \in Nonces : n \notin U
    BY <1>11
  <2> QED
    BY <2>1 DEF A, B, C, D, J, Uses
<1> QED
  BY <1>12 DEF FreshNonce

-----------------------------------------------------------------------------
(* Types of Browser                                                        *)

Fields ==
  {"pc", "op", "context", "secret", "session", "genuine", "sets", "done", "stale"}

IsRecord(g) == g = [x \in Fields |-> g[x]]

LEMMA PageRecord ==
  ASSUME NEW g, IsRecord(g),
         g.pc \in {"idle", "asked", "ready", "sent", "admitted", "replied"},
         g.op \in Operations \cup {"none"},
         g.context \in Tokens \cup Nonces \cup {Absent},
         g.secret \in Nonces \cup {Absent}, g.session \in Tokens \cup {Absent},
         g.genuine \in BOOLEAN, g.sets \in SetCookies, g.done \in BOOLEAN,
         g.stale \in BOOLEAN
  PROVE  g \in PageStates
BY SMT DEF IsRecord, Fields, PageStates

LEMMA PageFields ==
  ASSUME NEW g \in PageStates
  PROVE  /\ IsRecord(g)
         /\ g.pc \in {"idle", "asked", "ready", "sent", "admitted", "replied"}
         /\ g.op \in Operations \cup {"none"}
         /\ g.context \in Tokens \cup Nonces \cup {Absent}
         /\ g.secret \in Nonces \cup {Absent} /\ g.session \in Tokens \cup {Absent}
         /\ g.genuine \in BOOLEAN /\ g.sets \in SetCookies /\ g.done \in BOOLEAN
         /\ g.stale \in BOOLEAN
BY SMT DEF IsRecord, Fields, PageStates

LEMMA IdleFields ==
  /\ IsRecord(Idle)
  /\ Idle.pc = "idle" /\ Idle.op = "none" /\ Idle.context = Absent
  /\ Idle.secret = Absent /\ Idle.session = Absent /\ Idle.genuine = FALSE
  /\ Idle.sets = Unchanged /\ Idle.done = FALSE /\ Idle.stale = FALSE
BY SMT DEF IsRecord, Fields, Idle

\* What the steps make of the state of a page.
ReplyState(op, done, sets) ==
  [Idle EXCEPT !.pc = "replied", !.op = op, !.done = done, !.sets = sets]

IsReplyState(h, op, done, sets) ==
  /\ IsRecord(h)
  /\ h.pc = "replied" /\ h.op = op /\ h.done = done /\ h.sets = sets
  /\ h.context = Absent /\ h.secret = Absent /\ h.session = Absent
  /\ h.genuine = FALSE /\ h.stale = FALSE

LEMMA Replying ==
  ASSUME NEW op, NEW done, NEW sets
  PROVE  IsReplyState(ReplyState(op, done, sets), op, done, sets)
<1> DEFINE h == ReplyState(op, done, sets)
<1>1. IsRecord(h)
  BY IdleFields, Zenon DEF IsRecord, ReplyState
<1> QED
  BY <1>1, IdleFields, SMT DEF IsRecord, Fields, ReplyState, IsReplyState

AskState(context, secret, sets) ==
  [Idle EXCEPT !.pc = "asked", !.context = context, !.secret = secret,
               !.sets = sets]

IsAskState(h, context, secret, sets) ==
  /\ IsRecord(h)
  /\ h.pc = "asked" /\ h.context = context /\ h.secret = secret /\ h.sets = sets
  /\ h.op = "none" /\ h.done = FALSE /\ h.session = Absent
  /\ h.genuine = FALSE /\ h.stale = FALSE

LEMMA Asking ==
  ASSUME NEW context, NEW secret, NEW sets
  PROVE  IsAskState(AskState(context, secret, sets), context, secret, sets)
<1> DEFINE h == AskState(context, secret, sets)
<1>1. IsRecord(h)
  BY IdleFields, Zenon DEF IsRecord, AskState
<1> QED
  BY <1>1, IdleFields, SMT DEF IsRecord, Fields, AskState, IsAskState

PostState(op, session, genuine, stale) ==
  [Idle EXCEPT !.pc = "sent", !.op = op, !.session = session,
               !.genuine = genuine, !.stale = stale]

IsPostState(h, op, session, genuine, stale) ==
  /\ IsRecord(h)
  /\ h.pc = "sent" /\ h.op = op /\ h.session = session
  /\ h.genuine = genuine /\ h.stale = stale
  /\ h.context = Absent /\ h.secret = Absent /\ h.sets = Unchanged /\ h.done = FALSE

LEMMA Posting ==
  ASSUME NEW op, NEW session, NEW genuine, NEW stale
  PROVE  IsPostState(PostState(op, session, genuine, stale), op, session, genuine, stale)
<1> DEFINE h == PostState(op, session, genuine, stale)
<1>1. IsRecord(h)
  BY IdleFields, Zenon DEF IsRecord, PostState
<1> QED
  BY <1>1, IdleFields, SMT DEF IsRecord, Fields, PostState, IsPostState

LEMMA SetCookiesTypes ==
  /\ Unchanged \in SetCookies /\ Cleared \in SetCookies /\ NoCookies \in Cookies
  /\ \A preauth \in Nonces \cup {"keep"}, secret \in Nonces \cup {"keep"} :
       [Unchanged EXCEPT !.preauth = preauth, !.secret = secret] \in SetCookies
  /\ \A t \in Tokens : Rotated(t) \in SetCookies
BY NonceLeft DEF Unchanged, Cleared, NoCookies, SetCookies, Cookies, Rotated

LEMMA IdleType == Idle \in PageStates
BY PageRecord, IdleFields, SetCookiesTypes

LEMMA AfterType ==
  ASSUME jar \in Cookies, NEW sets \in SetCookies
  PROVE  /\ After(sets) \in Cookies
         /\ \A k \in {"session", "preauth", "secret"} :
              After(sets)[k] = IF sets[k] = "keep" THEN jar[k] ELSE sets[k]
<1>1. DOMAIN jar = {"session", "preauth", "secret"}
  BY DEF Cookies
<1>2. After(sets) = [k \in {"session", "preauth", "secret"} |->
                       IF sets[k] = "keep" THEN jar[k] ELSE sets[k]]
  BY <1>1 DEF After
<1>3. After(sets) = [session |-> IF sets.session = "keep" THEN jar.session ELSE sets.session,
                     preauth |-> IF sets.preauth = "keep" THEN jar.preauth ELSE sets.preauth,
                     secret |-> IF sets.secret = "keep" THEN jar.secret ELSE sets.secret]
  BY <1>2
<1> QED
  BY <1>2, <1>3 DEF Cookies, SetCookies

LEMMA FreshTokenType ==
  ASSUME Unused # {}
  PROVE  FreshToken \in Tokens /\ token[FreshToken] = "unused"
BY DEF FreshToken, Unused

-----------------------------------------------------------------------------
(* A rotation ends the tokens of before                                    *)

\* What a request of a page g looks like while the secret of the cookies is s: a token
\* belongs to a session or to a nonce that stands for it; an answer with a token opens
\* no session; an answer that opens one brings a secret; a token that another page has
\* made stale belonged to a session and to a secret that is replaced, or to no session.
PageFine(g, s) ==
  /\ g.pc \in {"asked", "ready"} => g.context \in Tokens \cup Nonces /\ g.secret \in Nonces
  /\ g.pc = "asked" =>
       /\ g.sets.session = "keep" /\ g.sets.secret # Absent
       /\ g.context \in Tokens => g.sets.secret = "keep"
  /\ g.pc \notin {"asked", "replied"} => g.sets.secret = "keep"
  /\ g.pc = "replied" =>
       /\ g.sets.session = "keep" => g.sets.secret = "keep"
       /\ g.sets.session = Absent => g.sets.secret = Absent
       /\ g.sets.session \in Tokens => g.sets.secret \in Nonces
  /\ g.pc \in {"asked", "ready"} /\ g.stale /\ g.context \in Tokens => g.secret # s
  /\ g.pc = "sent" /\ g.stale => g.op \notin Safe /\ (g.genuine => g.session = Absent)
  /\ g.pc = "admitted" /\ g.stale => g.op \in Public

\* A secret that is under way to the browser is not there yet, and no other page has it.
UnderWay(p, n) ==
  /\ n # jar.secret
  /\ \A q \in Pages \ {p} : page[q].secret # n /\ page[q].sets.secret # n

BrowserInv ==
  /\ jar \in Cookies /\ page \in [Pages -> PageStates]
  /\ jar.session # Absent => jar.secret # Absent
  /\ \A p \in Pages : PageFine(page[p], jar.secret)
  /\ \A p \in Pages : page[p].sets.secret \in Nonces => UnderWay(p, page[p].sets.secret)

\* One page goes on and the cookies stay.
LEMMA PageGoesOn ==
  ASSUME BrowserInv, UNCHANGED jar, NEW p \in Pages, NEW g \in PageStates, Moves(p, g),
         PageFine(g, jar.secret),
         g.sets.secret \in Nonces => UnderWay(p, g.sets.secret),
         \A q \in Pages \ {p} : g.secret \in Nonces => page[q].sets.secret # g.secret
  PROVE  BrowserInv'
<1>1. /\ page' \in [Pages -> PageStates] /\ page'[p] = g
      /\ \A q \in Pages \ {p} : page'[q] = page[q]
  BY DEF Moves, BrowserInv
<1>2. ASSUME NEW q \in Pages
      PROVE  PageFine(page[q], jar.secret)'
  BY <1>1 DEF BrowserInv, PageFine
<1>3. ASSUME NEW q \in Pages, page'[q].sets.secret \in Nonces
      PROVE  UnderWay(q, page[q].sets.secret)'
  BY <1>1, <1>3 DEF BrowserInv, UnderWay
<1> QED
  BY <1>1, <1>2, <1>3 DEF BrowserInv

LEMMA FreshIsUnderWay ==
  ASSUME NEW p \in Pages
  PROVE  UnderWay(p, FreshNonce) /\ page[p].secret # FreshNonce
BY NonceLeft DEF UnderWay, Uses

LEMMA AnswersKeep ==
  ASSUME BrowserInv, UNCHANGED jar, NEW p \in Pages, page[p].pc \in {"sent", "admitted"},
         NEW done \in BOOLEAN, NEW sets, Answers(p, done, sets),
         sets \in {Unchanged, Cleared} \/ \E t \in Tokens : sets = Rotated(t)
  PROVE  BrowserInv'
<1> DEFINE g == ReplyState(page[p].op, done, sets)
<1>1. sets \in SetCookies
  BY SetCookiesTypes
<1>2. page[p].op \in Operations \cup {"none"}
  BY DEF BrowserInv, PageStates
<1>3. /\ IsRecord(g)
      /\ g.pc = "replied" /\ g.op = page[p].op /\ g.done = done /\ g.sets = sets
      /\ g.context = Absent /\ g.secret = Absent /\ g.session = Absent
      /\ g.genuine = FALSE /\ g.stale = FALSE
  <2>1. IsReplyState(g, page[p].op, done, sets)
    BY Replying
  <2> QED
    BY <2>1 DEF IsReplyState
<1> HIDE DEF g
<1>4. g \in PageStates
  BY <1>1, <1>2, <1>3, PageRecord
<1>5. /\ sets.session = "keep" => sets.secret = "keep"
      /\ sets.session = Absent => sets.secret = Absent
      /\ sets.session \in Tokens => sets.secret \in Nonces
      /\ sets.secret \in {"keep", Absent, FreshNonce}
  BY NonceLeft, BrowserAssumption DEF Unchanged, Cleared, NoCookies, Rotated
<1>6. PageFine(g, jar.secret)
  BY <1>3, <1>5 DEF PageFine
<1>7. g.sets = sets /\ g.secret = Absent
  BY <1>3
<1>8. g.secret \notin Nonces /\ (sets.secret \in Nonces => UnderWay(p, sets.secret))
  BY <1>5, <1>7, FreshIsUnderWay, BrowserAssumption
<1>9. Moves(p, g)
  BY DEF Answers, g, ReplyState
<1> QED
  BY <1>4, <1>6, <1>7, <1>8, <1>9, PageGoesOn

LEMMA StoppingKeeps ==
  ASSUME BrowserInv, UNCHANGED jar, NEW p \in Pages, Moves(p, Idle)
  PROVE  BrowserInv'
<1>1. PageFine(Idle, jar.secret) /\ Idle.sets.secret = "keep" /\ Idle.secret = Absent
  BY DEF PageFine, Idle, Unchanged
<1> QED
  BY <1>1, IdleType, PageGoesOn, BrowserAssumption

LEMMA AskKeeps ==
  ASSUME BrowserInv, NEW p \in Pages, Ask(p)
  PROVE  BrowserInv'
<1> DEFINE preauth == IF ContextOf(jar) = Absent THEN FreshNonce ELSE "keep"
           context == IF preauth = "keep" THEN ContextOf(jar) ELSE preauth
           secret == IF Minted = "keep" THEN jar.secret ELSE Minted
           sets == [Unchanged EXCEPT !.preauth = preauth, !.secret = Minted]
           g == AskState(context, secret, sets)
<1>1. FreshNonce \in Nonces /\ FreshNonce # "keep"
  BY NonceLeft, BrowserAssumption
<1>2. jar \in Cookies
  BY DEF BrowserInv
<1>3. /\ jar.session \in Tokens \cup {Absent} /\ jar.preauth \in Nonces \cup {Absent}
      /\ jar.secret \in Nonces \cup {Absent}
  BY <1>2 DEF Cookies
<1>4. context \in Tokens \cup Nonces /\ preauth \in Nonces \cup {"keep"}
  BY <1>1, <1>3 DEF ContextOf
<1>5. /\ secret \in Nonces /\ Minted \in {"keep", FreshNonce}
      /\ Minted = "keep" => jar.secret # Absent /\ secret = jar.secret
      /\ Minted = FreshNonce => secret = FreshNonce
  BY <1>1, <1>3 DEF Minted
<1>6. sets \in SetCookies /\ sets.session = "keep" /\ sets.secret = Minted
  <2>1. sets \in SetCookies
    BY <1>1, <1>4, <1>5, SetCookiesTypes
  <2> QED
    BY <2>1 DEF Unchanged
<1>7. context \in Tokens => Minted = "keep"
  <2>1. context \in Tokens => jar.session # Absent
    BY <1>1, <1>3, BrowserAssumption DEF ContextOf
  <2>2. jar.session # Absent => jar.secret # Absent
    BY DEF BrowserInv
  <2> QED
    BY <2>1, <2>2 DEF Minted
<1>8. Moves(p, g) /\ UNCHANGED jar
  BY DEF Ask, AskState
<1> HIDE DEF preauth, context, secret, sets
<1>13. /\ IsRecord(g)
       /\ g.pc = "asked" /\ g.context = context /\ g.secret = secret
       /\ g.sets = sets /\ g.op = "none" /\ g.done = FALSE /\ g.session = Absent
       /\ g.genuine = FALSE /\ g.stale = FALSE
  <2>1. IsAskState(g, context, secret, sets)
    BY Asking
  <2> QED
    BY <2>1 DEF IsAskState
<1> HIDE DEF g
<1>9. g \in PageStates
  BY <1>4, <1>5, <1>6, <1>13, PageRecord
<1>10. PageFine(g, jar.secret)
  BY <1>1, <1>4, <1>5, <1>6, <1>7, <1>13, BrowserAssumption DEF PageFine
<1>11. g.sets.secret \in Nonces => UnderWay(p, g.sets.secret)
  <2>1. g.sets.secret = Minted
    BY <1>6, <1>13
  <2> QED
    BY <1>5, <2>1, FreshIsUnderWay, BrowserAssumption
<1>12. ASSUME NEW q \in Pages \ {p}
       PROVE  page[q].sets.secret # g.secret
  <2>1. CASE secret = FreshNonce
    BY <2>1, <1>13, FreshIsUnderWay, <1>12, NonceLeft DEF Uses
  <2>2. CASE secret = jar.secret
    BY <1>5, <1>13, <2>2, <1>12 DEF BrowserInv, UnderWay
  <2> QED
    BY <1>5, <2>1, <2>2
<1> QED
  BY <1>8, <1>9, <1>10, <1>11, <1>12, PageGoesOn

LEMMA PostKeeps ==
  ASSUME BrowserInv, NEW p \in Pages, NEW op \in Operations, Post(p, op)
  PROVE  BrowserInv'
<1> DEFINE g == PostState(op, jar.session, Matches(p), page[p].stale)
<1>1. page[p] \in PageStates /\ jar \in Cookies
  BY DEF BrowserInv
<1>2. Matches(p) \in BOOLEAN
  BY Zenon DEF Matches
<1>3. IsPostState(g, op, jar.session, Matches(p), page[p].stale)
  BY Posting
<1>4. Moves(p, g) /\ UNCHANGED jar /\ op \notin Safe
  BY DEF Post, PostState
<1> HIDE DEF g
<1>5. jar.session \in Tokens \cup {Absent}
  BY <1>1 DEF Cookies
<1>6. page[p].stale \in BOOLEAN /\ page[p].context \in Tokens \cup Nonces \cup {Absent}
  BY <1>1, PageFields
<1>7. g \in PageStates
  BY <1>2, <1>3, <1>5, <1>6, PageRecord, SetCookiesTypes DEF IsPostState
<1>8. g.sets.secret = "keep" /\ g.secret = Absent
  BY <1>3 DEF IsPostState, Unchanged
<1>9. ASSUME page[p].stale, Matches(p)
      PROVE  jar.session = Absent
  <2>1. page[p].pc = "ready" /\ PageFine(page[p], jar.secret)
    BY DEF Post, BrowserInv
  <2>2. page[p].secret = jar.secret /\ page[p].context = ContextOf(jar)
    BY <1>9 DEF Matches
  <2>3. page[p].context \notin Tokens
    BY <1>9, <2>1, <2>2 DEF PageFine
  <2> QED
    BY <1>5, <2>2, <2>3 DEF ContextOf
<1>10. PageFine(g, jar.secret)
  <2>1. g.pc = "sent" /\ g.op = op /\ g.session = jar.session /\ g.stale = page[p].stale
    BY <1>3 DEF IsPostState
  <2>2. g.genuine = Matches(p)
    BY <1>3 DEF IsPostState
  <2>3. g.stale /\ g.genuine => g.session = Absent
    BY <1>2, <1>6, <1>9, <2>1, <2>2
  <2> QED
    BY <1>4, <1>8, <2>1, <2>3 DEF PageFine
<1> QED
  BY <1>4, <1>7, <1>8, <1>10, PageGoesOn, BrowserAssumption

LEMMA LookKeeps ==
  ASSUME BrowserInv, NEW p \in Pages, Look(p)
  PROVE  BrowserInv'
<1> DEFINE g == [Idle EXCEPT !.pc = "sent", !.op = "audit", !.session = jar.session]
<1>1. jar.session \in Tokens \cup {Absent}
  BY DEF BrowserInv, Cookies
<1>2. Moves(p, g) /\ UNCHANGED jar
  BY DEF Look
<1>3. IsRecord(g)
  BY IdleFields, Zenon DEF IsRecord
<1>4. /\ g.pc = "sent" /\ g.op = "audit" /\ g.session = jar.session
      /\ g.genuine = FALSE /\ g.stale = FALSE
      /\ g.context = Absent /\ g.secret = Absent /\ g.sets = Unchanged /\ g.done = FALSE
  BY IdleFields, SMT DEF IsRecord, Fields
<1> HIDE DEF g
<1>5. g \in PageStates
  BY <1>1, <1>3, <1>4, PageRecord, SetCookiesTypes DEF Operations
<1>6. PageFine(g, jar.secret) /\ g.sets.secret = "keep"
  BY <1>4 DEF PageFine, Unchanged
<1> QED
  BY <1>2, <1>4, <1>5, <1>6, PageGoesOn, BrowserAssumption

LEMMA AdmitKeeps ==
  ASSUME BrowserInv, NEW p \in Pages, Admit(p)
  PROVE  BrowserInv'
<1> DEFINE g == [page[p] EXCEPT !.pc = "admitted", !.genuine = FALSE]
<1>1. page[p] \in PageStates /\ PageFine(page[p], jar.secret) /\ page[p].pc = "sent"
  BY DEF BrowserInv, Admit
<1>2. IsRecord(page[p])
  BY <1>1, PageFields
<1>3. Moves(p, g) /\ UNCHANGED jar
  BY DEF Admit
<1>4. IsRecord(g)
  BY <1>2, Zenon DEF IsRecord
<1>5. /\ g.pc = "admitted" /\ g.genuine = FALSE /\ g.op = page[p].op
      /\ g.context = page[p].context /\ g.secret = page[p].secret
      /\ g.session = page[p].session /\ g.sets = page[p].sets
      /\ g.done = page[p].done /\ g.stale = page[p].stale
  BY <1>2, SMT DEF IsRecord, Fields
<1> HIDE DEF g
<1>6. g \in PageStates
  BY <1>1, <1>4, <1>5, PageFields, PageRecord
<1>7. g.sets.secret = "keep"
  BY <1>1, <1>5 DEF PageFine
<1>8. page[p].stale => page[p].op \in Public
  BY <1>1 DEF PageFine, Admit, Passes, Live
<1>9. PageFine(g, jar.secret)
  BY <1>5, <1>7, <1>8 DEF PageFine
<1>10. ASSUME NEW q \in Pages \ {p}, g.secret \in Nonces
       PROVE  page[q].sets.secret # g.secret
  BY <1>5, <1>10 DEF BrowserInv, UnderWay
<1> QED
  BY <1>3, <1>6, <1>7, <1>9, <1>10, PageGoesOn, BrowserAssumption

LEMMA AccountKeeps ==
  ASSUME BrowserInv, NEW p \in Pages, Account(p)
  PROVE  BrowserInv'
<1>1. page[p].session \in Tokens \cup {Absent}
  BY PageFields DEF BrowserInv
<1>2. CASE SignIn(p)
  BY <1>2, FreshTokenType, AnswersKeep DEF SignIn, Handling
<1>3. CASE Secure(p)
  BY <1>3, FreshTokenType, AnswersKeep DEF Secure, Handling
<1>4. CASE StepUp(p)
  <2>1. page[p].session \in Tokens
    BY <1>1, <1>4 DEF StepUp, Live
  <2> QED
    BY <1>4, <2>1, AnswersKeep DEF StepUp, Handling
<1>5. CASE Logout(p)
  BY <1>5, AnswersKeep DEF Logout, Handling
<1>6. CASE RevokeOthers(p)
  BY <1>6, AnswersKeep DEF RevokeOthers, Handling
<1>7. CASE Send(p)
  BY <1>7, AnswersKeep DEF Send, Handling
<1>8. CASE TooLate(p)
  BY <1>8, AnswersKeep DEF TooLate
<1> QED
  BY <1>2, <1>3, <1>4, <1>5, <1>6, <1>7, <1>8 DEF Account

\* The answer with the token opens no session, and no other page has its secret.
LEMMA ReceiveKeeps ==
  ASSUME BrowserInv, NEW p \in Pages, Receive(p)
  PROVE  BrowserInv'
<1> DEFINE g == [page[p] EXCEPT !.pc = "ready", !.sets = Unchanged]
           n == page[p].sets.secret
<1>1. /\ page[p] \in PageStates /\ PageFine(page[p], jar.secret)
      /\ page[p].pc = "asked" /\ jar \in Cookies
  BY DEF BrowserInv, Receive
<1>2. IsRecord(page[p]) /\ page[p].sets \in SetCookies
  BY <1>1, PageFields
<1>3. Moves(p, g) /\ jar' = After(page[p].sets)
  BY DEF Receive
<1>4. IsRecord(g)
  BY <1>2, Zenon DEF IsRecord
<1>5. /\ g.pc = "ready" /\ g.sets = Unchanged /\ g.op = page[p].op
      /\ g.context = page[p].context /\ g.secret = page[p].secret
      /\ g.session = page[p].session /\ g.genuine = page[p].genuine
      /\ g.done = page[p].done /\ g.stale = page[p].stale
  BY <1>2, SMT DEF IsRecord, Fields
<1> HIDE DEF g
<1>6. g \in PageStates
  BY <1>1, <1>4, <1>5, PageFields, PageRecord, SetCookiesTypes
<1>7. /\ jar' \in Cookies
      /\ jar'.session = IF page[p].sets.session = "keep" THEN jar.session
                        ELSE page[p].sets.session
      /\ jar'.secret = IF n = "keep" THEN jar.secret ELSE n
  BY <1>1, <1>2, <1>3, AfterType
<1>8. jar'.session = jar.session
  BY <1>1, <1>7 DEF PageFine
<1>9. jar'.session # Absent => jar'.secret # Absent
  BY <1>1, <1>7, <1>8 DEF BrowserInv, PageFine
<1>10. n = "keep" \/ n \in Nonces
  BY <1>1, <1>2 DEF PageFine, SetCookies
<1>11. page' \in [Pages -> PageStates] /\ page'[p] = g
       /\ \A q \in Pages \ {p} : page'[q] = page[q]
  BY <1>3, <1>6 DEF Moves, BrowserInv
<1>12. g.sets.secret = "keep"
  BY <1>5 DEF Unchanged
<1>13. ASSUME NEW q \in Pages
       PROVE  PageFine(page[q], jar.secret)'
  <2>1. CASE q = p
    <3>1. PageFine(g, jar'.secret)
      BY <1>1, <1>5, <1>7, <1>12 DEF PageFine
    <3> QED
      BY <1>11, <2>1, <3>1 DEF PageFine
  <2>2. CASE q # p
    <3>1. PageFine(page[q], jar.secret)
      BY DEF BrowserInv
    <3>2. n \in Nonces => page[q].secret # n
      BY <2>2 DEF BrowserInv, UnderWay
    <3>3. PageFine(page[q], jar'.secret)
      BY <1>7, <1>10, <3>1, <3>2 DEF PageFine
    <3> QED
      BY <1>11, <2>2, <3>3 DEF PageFine
  <2> QED
    BY <2>1, <2>2
<1>14. ASSUME NEW q \in Pages, page'[q].sets.secret \in Nonces
       PROVE  UnderWay(q, page[q].sets.secret)'
  <2> DEFINE m == page[q].sets.secret
  <2>1. q # p /\ page'[q] = page[q]
    BY <1>11, <1>12, <1>14, BrowserAssumption
  <2>2. m # jar.secret /\ \A r \in Pages \ {q} : page[r].secret # m /\ page[r].sets.secret # m
    BY <1>14, <2>1 DEF BrowserInv, UnderWay
  <2>3. m # jar'.secret
    BY <1>7, <2>1, <2>2
  <2>4. ASSUME NEW r \in Pages \ {q}
        PROVE  page'[r].secret # m /\ page'[r].sets.secret # m
    BY <1>5, <1>11, <1>12, <1>14, <2>1, <2>2, <2>4, BrowserAssumption
  <2> QED
    BY <2>1, <2>3, <2>4 DEF UnderWay
<1> QED
  BY <1>7, <1>9, <1>11, <1>13, <1>14 DEF BrowserInv

LEMMA OutdatedFields ==
  ASSUME NEW g \in PageStates
  PROVE  /\ [g EXCEPT !.stale = TRUE] \in PageStates
         /\ [g EXCEPT !.stale = TRUE].pc = g.pc
         /\ [g EXCEPT !.stale = TRUE].op = g.op
         /\ [g EXCEPT !.stale = TRUE].context = g.context
         /\ [g EXCEPT !.stale = TRUE].secret = g.secret
         /\ [g EXCEPT !.stale = TRUE].sets = g.sets
<1> DEFINE h == [g EXCEPT !.stale = TRUE]
<1>1. IsRecord(g)
  BY PageFields
<1>2. IsRecord(h)
  BY <1>1, Zenon DEF IsRecord
<1>3. /\ h.pc = g.pc /\ h.op = g.op /\ h.context = g.context /\ h.secret = g.secret
      /\ h.session = g.session /\ h.genuine = g.genuine /\ h.sets = g.sets
      /\ h.done = g.done /\ h.stale = TRUE
  BY <1>1, SMT DEF IsRecord, Fields
<1> HIDE DEF h
<1>4. h \in PageStates
  BY <1>2, <1>3, PageFields, PageRecord
<1> QED
  BY <1>3, <1>4 DEF h

\* The answer brings a new secret, or none, and every token of before belongs to another.
LEMMA DeliverKeeps ==
  ASSUME BrowserInv, NEW p \in Pages, Deliver(p)
  PROVE  BrowserInv'
<1> DEFINE sets == page[p].sets
           n == sets.secret
<1>1. /\ page[p] \in PageStates /\ PageFine(page[p], jar.secret)
      /\ page[p].pc = "replied" /\ jar \in Cookies /\ jar' = After(sets)
  BY DEF BrowserInv, Deliver
<1>2. sets \in SetCookies
  BY <1>1, PageFields
<1>3. /\ jar' \in Cookies
      /\ jar'.session = IF sets.session = "keep" THEN jar.session ELSE sets.session
      /\ jar'.secret = IF n = "keep" THEN jar.secret ELSE n
  BY <1>1, <1>2, AfterType
<1>4. /\ sets.session \in Tokens \cup {Absent, "keep"}
      /\ sets.session = "keep" => n = "keep"
      /\ sets.session = Absent => n = Absent
      /\ sets.session \in Tokens => n \in Nonces
  BY <1>1, <1>2 DEF PageFine, SetCookies
<1>5. jar'.session # Absent => jar'.secret # Absent
  BY <1>3, <1>4, BrowserAssumption DEF BrowserInv
<1>6. /\ page' \in [Pages -> PageStates] /\ page'[p] = Idle
      /\ \A q \in Pages \ {p} :
           /\ page'[q].secret = page[q].secret /\ page'[q].sets = page[q].sets
           /\ page'[q].pc = page[q].pc /\ page'[q].op = page[q].op
           /\ page'[q].context = page[q].context
           /\ \/ page'[q] = page[q] /\ sets.session = "keep"
              \/ page'[q] = page[q] /\ page[q].pc \notin {"asked", "ready"}
              \/ page[q].pc \in {"asked", "ready"} /\ sets.session # "keep"
  <2>1. page \in [Pages -> PageStates]
    BY DEF BrowserInv
  <2>2. CASE sets.session = "keep"
    BY <2>1, <2>2, IdleType DEF Deliver
  <2>3. CASE sets.session # "keep"
    <3>1. page' = Outdated(p)
      BY <2>3 DEF Deliver
    <3>2. page'[p] = Idle
      BY <3>1 DEF Outdated
    <3>3. ASSUME NEW q \in Pages \ {p}
          PROVE  page'[q] = IF page[q].pc \in {"asked", "ready"}
                            THEN [page[q] EXCEPT !.stale = TRUE] ELSE page[q]
      BY <3>1 DEF Outdated
    <3>4. ASSUME NEW q \in Pages
          PROVE  page'[q] \in PageStates
      BY <2>1, <3>2, <3>3, IdleType, OutdatedFields
    <3>5. page' = [q \in Pages |-> page'[q]]
      BY <3>1 DEF Outdated
    <3>6. page' \in [Pages -> PageStates]
      BY <3>4, <3>5
    <3>7. ASSUME NEW q \in Pages \ {p}
          PROVE  /\ page'[q].secret = page[q].secret /\ page'[q].sets = page[q].sets
                 /\ page'[q].pc = page[q].pc /\ page'[q].op = page[q].op
                 /\ page'[q].context = page[q].context
                 /\ \/ page'[q] = page[q] /\ page[q].pc \notin {"asked", "ready"}
                    \/ page[q].pc \in {"asked", "ready"}
      BY <2>1, <3>3, OutdatedFields
    <3> QED
      BY <2>3, <3>2, <3>6, <3>7
  <2> QED
    BY <2>2, <2>3
<1>7. Idle.sets.secret = "keep" /\ Idle.secret = Absent /\ PageFine(Idle, jar'.secret)
  BY IdleFields DEF PageFine, Unchanged
<1>8. ASSUME NEW q \in Pages
      PROVE  PageFine(page[q], jar.secret)'
  <2>1. CASE q = p
    BY <1>6, <1>7, <2>1 DEF PageFine
  <2>2. CASE q # p
    <3>1. PageFine(page[q], jar.secret)
      BY DEF BrowserInv
    <3>2. n \in Nonces => page[q].secret # n
      BY <2>2 DEF BrowserInv, UnderWay
    <3>3. CASE page'[q] = page[q] /\ sets.session = "keep"
      BY <1>3, <1>4, <3>1, <3>3 DEF PageFine
    <3>4. CASE page'[q] = page[q] /\ page[q].pc \notin {"asked", "ready"}
      BY <3>1, <3>4 DEF PageFine
    <3>5. CASE page[q].pc \in {"asked", "ready"} /\ sets.session # "keep"
      <4>1. page[q].secret \in Nonces
        BY <3>1, <3>5 DEF PageFine
      <4>2. page[q].secret # jar'.secret
        BY <1>3, <1>4, <3>2, <3>5, <4>1, BrowserAssumption
      <4>3. PageFine(page'[q], jar'.secret)
        BY <1>6, <2>2, <3>1, <3>5, <4>2 DEF PageFine
      <4> QED
        BY <4>3 DEF PageFine
    <3> QED
      BY <1>6, <2>2, <3>3, <3>4, <3>5
  <2> QED
    BY <2>1, <2>2
<1>9. ASSUME NEW q \in Pages, page'[q].sets.secret \in Nonces
      PROVE  UnderWay(q, page[q].sets.secret)'
  <2> DEFINE m == page[q].sets.secret
  <2>1. q # p /\ page'[q].sets.secret = m
    BY <1>6, <1>7, <1>9, BrowserAssumption
  <2>2. m # jar.secret /\ \A r \in Pages \ {q} : page[r].secret # m /\ page[r].sets.secret # m
    BY <1>9, <2>1 DEF BrowserInv, UnderWay
  <2>3. m # jar'.secret
    BY <1>3, <2>1, <2>2
  <2>4. ASSUME NEW r \in Pages \ {q}
        PROVE  page'[r].secret # m /\ page'[r].sets.secret # m
    BY <1>6, <1>7, <1>9, <2>1, <2>2, <2>4, BrowserAssumption
  <2> QED
    BY <2>1, <2>3, <2>4 DEF UnderWay
<1> QED
  BY <1>3, <1>5, <1>6, <1>8, <1>9 DEF BrowserInv

-----------------------------------------------------------------------------
(* The types of Browser, and a request inside the guard                    *)

LEMMA RefuseKeeps ==
  ASSUME BrowserInv, NEW p \in Pages, Refuse(p)
  PROVE  BrowserInv'
BY AnswersKeep DEF Refuse

LEMMA RespondKeeps ==
  ASSUME BrowserInv, NEW p \in Pages, NEW allowed \in BOOLEAN, Respond(p, allowed)
  PROVE  BrowserInv'
BY AnswersKeep DEF Respond

LEMMA FaultKeeps ==
  ASSUME BrowserInv, NEW p \in Pages, Discard(p) \/ Lose(p)
  PROVE  BrowserInv'
BY StoppingKeeps DEF Discard, Lose

\* What the forms send.
LEMMA FormsPost ==
  ASSUME NEW p \in Pages, Forms(p)
  PROVE  \E op \in Operations : Post(p, op)
<1>1. /\ "sign-in" \in Operations /\ "step-up" \in Operations /\ "secure" \in Operations
      /\ "logout" \in Operations /\ "revoke-others" \in Operations
      /\ "send" \in Operations /\ "act" \in Operations
  BY DEF Operations, SessionChanges
<1> QED
  BY <1>1 DEF Forms, SignInForm, CallbackForm, IdentityForm, SessionCard, SessionsPanel,
              CreateForm, AcceptForm, MemberForm, RoleEditor, InvitationForm, LogoForm

LEMMA BrowserInvKept ==
  ASSUME BrowserInv, Next
  PROVE  BrowserInv'
<1>1. ASSUME UNCHANGED <<jar, page>>
      PROVE  BrowserInv'
  BY <1>1 DEF BrowserInv, UnderWay
<1>2. ASSUME NEW p \in Pages, Step(p)
      PROVE  BrowserInv'
  <2>1. CASE Alone(p)
    <3>1. CASE Forms(p)
      BY <3>1, FormsPost, PostKeeps
    <3> QED
      BY <2>1, <3>1, AskKeeps, ReceiveKeeps, LookKeeps, RefuseKeeps, AccountKeeps,
         DeliverKeeps DEF Alone
  <2>2. CASE Enter(p) \/ Pass(p)
    BY <2>2, AdmitKeeps DEF Enter, Pass
  <2>3. CASE Decide(p)
    BY <1>1, <2>3 DEF Decide, browserVars
  <2>4. CASE Handle(p)
    <3>1. (check[p].pc # "denied") \in BOOLEAN
      OBVIOUS
    <3> QED
      BY <2>4, <3>1, RespondKeeps DEF Handle
  <2> QED
    BY <1>2, <2>1, <2>2, <2>3, <2>4 DEF Step
<1>3. ASSUME NEW p \in Pages, Fault(p)
      PROVE  BrowserInv'
  BY <1>3, FaultKeeps DEF Fault
<1>4. CASE Drift /\ UNCHANGED browserVars
  BY <1>1, <1>4 DEF browserVars
<1>5. CASE \E t \in Tokens : EndElsewhere(t)
  BY <1>1, <1>5 DEF EndElsewhere
<1> QED
  BY <1>2, <1>3, <1>4, <1>5 DEF Next

LEMMA BrowserInvFirst == BrowserInit => BrowserInv
<1> SUFFICES ASSUME BrowserInit
             PROVE  BrowserInv
  OBVIOUS
<1>1. Idle.sets.secret = "keep" /\ PageFine(Idle, jar.secret)
  BY IdleFields DEF PageFine, Unchanged
<1>2. /\ jar \in Cookies /\ jar.session = Absent
      /\ page \in [Pages -> PageStates] /\ \A p \in Pages : page[p] = Idle
  BY IdleType, SetCookiesTypes DEF BrowserInit, NoCookies
<1>3. "keep" \notin Nonces
  BY BrowserAssumption
<1> QED
  BY <1>1, <1>2, <1>3 DEF BrowserInv

\* The other half of BrowserTypeOK
Bounded ==
  /\ token \in [Tokens -> {"unused", "live", "dead"}]
  /\ changes \in 0..MaxChanges
  /\ lost \in 0..MaxLost

LEMMA BoundedKept ==
  ASSUME Bounded, Next
  PROVE  Bounded'
<1>1. ASSUME UNCHANGED <<token, changes, lost>>
      PROVE  Bounded'
  BY <1>1 DEF Bounded
<1>2. ASSUME NEW p \in Pages, NEW op \in Operations, Post(p, op)
      PROVE  Bounded'
  BY <1>2, BrowserAssumption DEF Post, Bounded
<1>3. ASSUME NEW p \in Pages, Account(p)
      PROVE  Bounded'
  BY <1>3 DEF Account, SignIn, Secure, StepUp, Logout, RevokeOthers, Send, TooLate, Bounded
<1>4. ASSUME NEW p \in Pages, Step(p)
      PROVE  Bounded'
  <2>1. CASE Alone(p)
    <3>1. CASE Forms(p)
      BY <1>2, <3>1, FormsPost
    <3>2. CASE Account(p)
      BY <1>3, <3>2
    <3> QED
      BY <1>1, <2>1, <3>1, <3>2 DEF Alone, Ask, Receive, Look, Refuse, Deliver
  <2> QED
    BY <1>1, <1>4, <2>1 DEF Step, Enter, Pass, Admit, Decide, browserVars, Handle, Respond
<1>5. ASSUME NEW p \in Pages, Fault(p)
      PROVE  Bounded'
  BY <1>5, BrowserAssumption DEF Fault, Discard, Lose, Bounded
<1>6. CASE Drift /\ UNCHANGED browserVars
  BY <1>1, <1>6 DEF browserVars
<1>7. CASE \E t \in Tokens : EndElsewhere(t)
  BY <1>7, BrowserAssumption DEF EndElsewhere, Bounded
<1> QED
  BY <1>4, <1>5, <1>6, <1>7 DEF Next

Decided(g) == g.pc = "admitted" /\ g.op \in {"act", "audit"}

Agreeing == \A p \in Pages : Inside(p) <=> Decided(page[p])

\* No step of these takes a request to the guard or away from it.
LEMMA AsideSteps ==
  ASSUME BrowserInv, NEW p \in Pages, Alone(p) \/ Fault(p)
  PROVE  /\ ~Decided(page[p]) /\ ~Decided(page'[p])
         /\ \A q \in Pages \ {p} :
              page'[q].pc = page[q].pc /\ page'[q].op = page[q].op
<1>1. page \in [Pages -> PageStates]
  BY DEF BrowserInv
<1>2. ASSUME NEW g, Moves(p, g)
      PROVE  page'[p] = g /\ \A q \in Pages \ {p} : page'[q] = page[q]
  BY <1>1, <1>2 DEF Moves
<1>3. Idle.pc = "idle"
  BY IdleFields
<1>4. ASSUME NEW done, NEW sets, Answers(p, done, sets)
      PROVE  page'[p].pc = "replied" /\ \A q \in Pages \ {p} : page'[q] = page[q]
  <2>1. Moves(p, ReplyState(page[p].op, done, sets))
    BY <1>4 DEF Answers, ReplyState
  <2>2. IsReplyState(ReplyState(page[p].op, done, sets), page[p].op, done, sets)
    BY Replying
  <2> QED
    BY <1>2, <2>1, <2>2 DEF IsReplyState
<1>5. CASE Ask(p)
  <2>1. PICK context, secret, sets : Moves(p, AskState(context, secret, sets))
    BY <1>5 DEF Ask, AskState
  <2>2. AskState(context, secret, sets).pc = "asked"
    <3>1. IsAskState(AskState(context, secret, sets), context, secret, sets)
      BY Asking
    <3> QED
      BY <3>1 DEF IsAskState
  <2> QED
    BY <1>2, <1>3, <1>5, <2>1, <2>2 DEF Ask, Decided
<1>6. CASE Receive(p)
  <2>1. [page[p] EXCEPT !.pc = "ready", !.sets = Unchanged].pc = "ready"
    <3>1. IsRecord(page[p])
      BY <1>1, PageFields
    <3> QED
      BY <3>1 DEF IsRecord, Fields
  <2> QED
    BY <1>2, <1>6, <2>1 DEF Receive, Decided
<1>7. CASE Forms(p)
  <2>1. PICK op \in Operations : Post(p, op)
    BY <1>7, FormsPost
  <2> DEFINE g == PostState(op, jar.session, Matches(p), page[p].stale)
  <2>2. Moves(p, g)
    BY <2>1 DEF Post, PostState
  <2>3. IsPostState(g, op, jar.session, Matches(p), page[p].stale)
    BY Posting
  <2>4. g.pc = "sent"
    BY <2>3 DEF IsPostState
  <2> HIDE DEF g
  <2> QED
    BY <1>2, <2>1, <2>2, <2>4 DEF Post, Decided
<1>8. CASE Look(p)
  <2>1. [Idle EXCEPT !.pc = "sent", !.op = "audit", !.session = jar.session].pc = "sent"
    BY IdleFields DEF IsRecord, Fields
  <2> QED
    BY <1>2, <1>3, <1>8, <2>1 DEF Look, Decided
<1>9. CASE Refuse(p)
  BY <1>4, <1>9 DEF Refuse, Decided
<1>10. CASE Account(p)
  BY <1>4, <1>10 DEF Account, SignIn, Secure, StepUp, Logout, RevokeOthers, Send, TooLate,
                     Handling, Decided
<1>11. CASE Deliver(p)
  <2>1. CASE page[p].sets.session = "keep"
    BY <1>1, <1>3, <1>11, <2>1 DEF Deliver, Decided
  <2>2. CASE page[p].sets.session # "keep"
    <3>1. page' = Outdated(p) /\ page[p].pc = "replied"
      BY <1>11, <2>2 DEF Deliver
    <3>2. page'[p] = Idle
      BY <3>1 DEF Outdated
    <3>3. ASSUME NEW q \in Pages \ {p}
          PROVE  page'[q] \in {page[q], [page[q] EXCEPT !.stale = TRUE]}
      BY <3>1 DEF Outdated
    <3> QED
      BY <1>1, <1>3, <3>1, <3>2, <3>3, OutdatedFields DEF Decided
  <2> QED
    BY <2>1, <2>2
<1>12. CASE Discard(p) \/ Lose(p)
  BY <1>2, <1>3, <1>12 DEF Discard, Lose, Decided
<1> QED
  BY <1>5, <1>6, <1>7, <1>8, <1>9, <1>10, <1>11, <1>12 DEF Alone, Fault

LEMMA AgreeingKept ==
  ASSUME BrowserInv, AccessTyped, Agreeing, Next
  PROVE  Agreeing'
<1>1. page \in [Pages -> PageStates] /\ check \in [Pages -> Checks]
  BY RequestsArePages DEF BrowserInv, AccessTyped, AccessTypeOK
<1>2. ASSUME NEW p \in Pages, Alone(p) \/ Fault(p)
      PROVE  Agreeing'
  <2>1. check' = check
    BY <1>2 DEF Alone, Fault
  <2> QED
    BY <1>2, <2>1, AsideSteps DEF Agreeing, Inside, Decided
<1>3. ASSUME NEW p \in Pages, Admit(p)
      PROVE  /\ page'[p].pc = "admitted" /\ page'[p].op = page[p].op
             /\ ~Decided(page[p])
             /\ \A q \in Pages \ {p} : page'[q] = page[q]
  <2> DEFINE g == [page[p] EXCEPT !.pc = "admitted", !.genuine = FALSE]
  <2>1. IsRecord(page[p])
    BY <1>1, PageFields
  <2>2. g.pc = "admitted" /\ g.op = page[p].op
    BY <2>1 DEF IsRecord, Fields
  <2>3. Moves(p, g) /\ page[p].pc = "sent"
    BY <1>3 DEF Admit
  <2> HIDE DEF g
  <2> QED
    BY <1>1, <2>2, <2>3 DEF Moves, Decided
<1>4. ASSUME NEW p \in Pages, NEW c, Advances(p, c)
      PROVE  check'[p] = c /\ \A q \in Pages \ {p} : check'[q] = check[q]
  BY <1>1, <1>4 DEF Advances
<1>5. ASSUME NEW p \in Pages, Enter(p)
      PROVE  Agreeing'
  <2>1. /\ page[p].op \in {"act", "audit"}
        /\ check[p].pc = "none" /\ check'[p].pc # "none"
        /\ \A q \in Pages \ {p} : check'[q] = check[q]
    <3>1. PICK o \in Organizations :
            \/ page[p].op = "act" /\ \E d \in Demands : Begin(p, o, d)
            \/ page[p].op = "audit" /\ BeginAudit(p, o)
      BY <1>5 DEF Enter
    <3>2. NoCheck.pc = "none"
      BY DEF NoCheck
    <3>3. CASE page[p].op = "act" /\ \E d \in Demands : Begin(p, o, d)
      <4>1. PICK d \in Demands : Begin(p, o, d)
        BY <3>3
      <4> DEFINE new == [NoCheck EXCEPT !.pc = "membership", !.organization = o, !.demand = d]
      <4>2. Advances(p, new) /\ check[p] = NoCheck
        BY <4>1 DEF Begin
      <4>3. new.pc = "membership"
        BY DEF NoCheck
      <4> HIDE DEF new
      <4> QED
        BY <1>4, <3>2, <3>3, <4>2, <4>3
    <3>4. CASE page[p].op = "audit" /\ BeginAudit(p, o)
      <4> DEFINE new == [NoCheck EXCEPT !.pc = "resolve", !.organization = o]
      <4>1. Advances(p, new) /\ check[p] = NoCheck
        BY <3>4 DEF BeginAudit
      <4>2. new.pc = "resolve"
        BY DEF NoCheck
      <4> HIDE DEF new
      <4> QED
        BY <1>4, <3>2, <3>4, <4>1, <4>2
    <3> QED
      BY <3>1, <3>3, <3>4
  <2> QED
    BY <1>3, <1>5, <2>1 DEF Enter, Agreeing, Inside, Decided
<1>6. ASSUME NEW p \in Pages, Pass(p)
      PROVE  Agreeing'
  BY <1>3, <1>6 DEF Pass, Agreeing, Inside, Decided
<1>7. ASSUME NEW p \in Pages, Decide(p)
      PROVE  Agreeing'
  <2>1. PICK c : Moved(p, c)
    BY <1>7, RequestsArePages, MovesTyped DEF Decide, AccessTyped
  <2>2. /\ check[p].pc # "none" /\ check'[p].pc # "none"
        /\ \A q \in Pages \ {p} : check'[q] = check[q]
    <3>1. check[p] \in Checks
      BY <1>1
    <3>2. CASE ReadMembership(p)
      <4> DEFINE new == [check[p] EXCEPT !.pc = "assignments",
                                  !.status = StatusOf(member[check[p].organization]),
                                  !.role = RoleOf(member[check[p].organization])]
      <4>1. Advances(p, new) /\ check[p].pc # "none"
        BY <3>2 DEF ReadMembership
      <4>2. new.pc = "assignments"
        BY <3>1 DEF Checks
      <4> HIDE DEF new
      <4> QED
        BY <1>4, <4>1, <4>2
    <3>3. CASE ReadAssignments(p)
      <4>1. PICK pc \in {"allowed", "denied"} :
              Advances(p, [NoCheck EXCEPT !.pc = pc, !.organization = check[p].organization,
                                          !.demand = check[p].demand])
        BY <3>3 DEF ReadAssignments
      <4> DEFINE new == [NoCheck EXCEPT !.pc = pc, !.organization = check[p].organization,
                                        !.demand = check[p].demand]
      <4>2. Advances(p, new) /\ check[p].pc # "none"
        BY <3>3, <4>1 DEF ReadAssignments
      <4>3. new.pc = pc
        BY DEF NoCheck
      <4> HIDE DEF new
      <4> QED
        BY <1>4, <4>1, <4>2, <4>3
    <3>4. CASE Resolve(p)
      <4> DEFINE v == VisibleTo(member[check[p].organization])
                 denied == [check[p] EXCEPT !.pc = "denied"]
                 viewer == [check[p] EXCEPT !.pc = "viewer", !.visible = v]
      <4>1. (Advances(p, denied) \/ Advances(p, viewer)) /\ check[p].pc # "none"
        BY <3>4 DEF Resolve
      <4>2. denied.pc = "denied" /\ viewer.pc = "viewer"
        BY <3>1 DEF Checks
      <4> HIDE DEF denied, viewer
      <4> QED
        BY <1>4, <4>1, <4>2
    <3>5. CASE ReadViewer(p)
      <4> DEFINE new == [check[p] EXCEPT !.pc = "rows",
                        !.visible = Narrower(check[p].visible,
                                             VisibleTo(member[check[p].organization]))]
      <4>1. Advances(p, new) /\ check[p].pc # "none"
        BY <3>5 DEF ReadViewer
      <4>2. new.pc = "rows"
        BY <3>1 DEF Checks
      <4> HIDE DEF new
      <4> QED
        BY <1>4, <4>1, <4>2
    <3>6. CASE ReadRows(p)
      <4> DEFINE new == [check[p] EXCEPT !.pc = "listed"]
      <4>1. Advances(p, new) /\ check[p].pc # "none"
        BY <3>6 DEF ReadRows
      <4>2. new.pc = "listed"
        BY <3>1 DEF Checks
      <4> HIDE DEF new
      <4> QED
        BY <1>4, <4>1, <4>2
    <3> QED
      BY <1>7, <3>2, <3>3, <3>4, <3>5, <3>6 DEF Decide, CheckStep
  <2>3. page' = page
    BY <1>7 DEF Decide, browserVars
  <2> QED
    BY <2>2, <2>3 DEF Agreeing, Inside
<1>8. ASSUME NEW p \in Pages, Handle(p)
      PROVE  Agreeing'
  <2>1. check'[p].pc = "none" /\ \A q \in Pages \ {p} : check'[q] = check[q]
    BY <1>4, <1>8 DEF Handle, Finish, NoCheck
  <2>2. PICK done : Moves(p, ReplyState(page[p].op, done, Unchanged))
    BY <1>8 DEF Handle, Respond, Answers, ReplyState
  <2>3. ReplyState(page[p].op, done, Unchanged).pc = "replied"
    <3>1. IsReplyState(ReplyState(page[p].op, done, Unchanged), page[p].op, done, Unchanged)
      BY Replying
    <3> QED
      BY <3>1 DEF IsReplyState
  <2>4. page'[p].pc = "replied" /\ \A q \in Pages \ {p} : page'[q] = page[q]
    BY <1>1, <2>2, <2>3 DEF Moves
  <2> QED
    BY <2>1, <2>4 DEF Agreeing, Inside, Decided
<1>9. CASE Drift /\ UNCHANGED browserVars
  BY <1>9, DriftTyped DEF AccessTyped, browserVars, Agreeing, Inside
<1>10. CASE \E t \in Tokens : EndElsewhere(t) /\ UNCHANGED <<member, assigned, check>>
  BY <1>10 DEF EndElsewhere, Agreeing, Inside
<1> QED
  BY <1>2, <1>5, <1>6, <1>7, <1>8, <1>9, <1>10 DEF Next, Step

GatewayInv == AccessInv /\ BrowserInv /\ Bounded /\ Agreeing

LEMMA GatewayInvariance == Spec => []GatewayInv
<1>1. Init => BrowserInv /\ Bounded /\ Agreeing
  <2>1. Init => Agreeing
    BY RequestsArePages, IdleFields
    DEF Init, BrowserInit, AccessInit, Agreeing, Inside, Decided, NoCheck
  <2>2. Init => Bounded
    BY BrowserAssumption DEF Init, BrowserInit, Bounded
  <2> QED
    BY <2>1, <2>2, BrowserInvFirst DEF Init
<1>2. AccessInv /\ BrowserInv /\ Bounded /\ Agreeing /\ [Next]_vars
        => (BrowserInv /\ Bounded /\ Agreeing)'
  <2>1. ASSUME BrowserInv, Bounded, Agreeing, UNCHANGED vars
        PROVE  (BrowserInv /\ Bounded /\ Agreeing)'
    BY <2>1 DEF vars, browserVars, accessVars, BrowserInv, UnderWay, Bounded, Agreeing, Inside
  <2>2. ASSUME AccessInv, BrowserInv, Bounded, Agreeing, Next
        PROVE  (BrowserInv /\ Bounded /\ Agreeing)'
    BY <2>2, BrowserInvKept, BoundedKept, AgreeingKept DEF AccessInv
  <2> QED
    BY <2>1, <2>2
<1> QED
  BY <1>1, <1>2, AccessInvariance, PTL DEF Spec, GatewayInv

\* Cookies, tokens, pages, rows and decisions have their form, and a request belongs to
\* an organization exactly while the guard or the trail decides on it.
THEOREM TypeCorrect == Spec => []TypeOK
<1>1. GatewayInv => TypeOK
  BY DEF GatewayInv, AccessInv, AccessTyped, BrowserInv, Bounded, Agreeing, Decided, TypeOK,
         BrowserTypeOK
<1> QED
  BY <1>1, GatewayInvariance, PTL

\* After a rotation no token that another page had asked for earlier passes CsrfGuard on
\* a route with a session (csrf.service.ts, csrf.guard.ts, session-cookie.ts).
THEOREM TokensEnd == Spec => []RotationEndsTokens
<1>1. GatewayInv => RotationEndsTokens
  BY DEF GatewayInv, BrowserInv, PageFine, RotationEndsTokens
<1> QED
  BY <1>1, GatewayInvariance, PTL

=============================================================================
