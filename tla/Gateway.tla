------------------------------ MODULE Gateway -------------------------------
(***************************************************************************)
(* The way of a request: module Browser sends it and brings the answer     *)
(* back, module Access decides what it may do in an organization.  The     *)
(* guards run in the order SessionGuard, CsrfGuard, PermissionGuard.       *)
(***************************************************************************)
EXTENDS Browser, Access

ASSUME RequestsArePages == Requests = Pages

vars == <<browserVars, accessVars>>

Init == BrowserInit /\ AccessInit

Inside(p) == check[p].pc # "none"

\* PermissionGuard sees a request that the other guards admitted.
Enter(p) ==
  /\ Admit(p)
  /\ \E o \in Organizations :
       \/ page[p].op = "act" /\ \E d \in Demands : Begin(p, o, d)
       \/ page[p].op = "audit" /\ BeginAudit(p, o)

\* Routes without an organization demand nothing more than the session.
Pass(p) ==
  /\ page[p].op \notin {"act", "audit"}
  /\ Admit(p)
  /\ UNCHANGED <<member, assigned, check>>

Handle(p) ==
  /\ check[p].pc \in {"allowed", "denied", "listed"}
  /\ Respond(p, check[p].pc # "denied")
  /\ Finish(p)

Alone(p) ==
  /\ \/ Ask(p)
     \/ Receive(p)
     \/ Forms(p)
     \/ Look(p)
     \/ Refuse(p)
     \/ Account(p)
     \/ Deliver(p)
  /\ UNCHANGED <<member, assigned, check>>

Decide(p) == CheckStep(p) /\ UNCHANGED browserVars

\* The page goes on.
Step(p) == Alone(p) \/ Enter(p) \/ Pass(p) \/ Decide(p) \/ Handle(p)

Fault(p) == (Discard(p) \/ Lose(p)) /\ UNCHANGED <<member, assigned, check>>

Next ==
  /\ \/ \E p \in Pages : Step(p) \/ Fault(p)
     \/ Drift /\ UNCHANGED browserVars
     \/ \E t \in Tokens : EndElsewhere(t) /\ UNCHANGED <<member, assigned, check>>
  /\ Earns

Spec == Init /\ [][Next]_vars

\* On these pages the user goes on trying; all others may be left at any moment.
Patient == {p \in Pages : Offered[p] = {"act"}}

\* They are served: the browser sends, the API and the proxy answer.
FairSpec == Spec /\ \A p \in Patient : WF_<<browserVars, check>>(Step(p))

-----------------------------------------------------------------------------

\* The request of p belongs to an organization exactly while Access decides on it.
TypeOK ==
  /\ BrowserTypeOK
  /\ AccessTypeOK
  /\ \A p \in Pages :
       Inside(p) <=> page[p].pc = "admitted" /\ page[p].op \in {"act", "audit"}

SignedIn == Live(jar.session)

Entitled ==
  \A o \in Organizations, d \in Demands : AllowsNow(o, d)

LetIn(p) == Handling(p, "act") /\ check[p].pc = "allowed"

\* Pages that acquire tokens at once make each other's useless, and so does every
\* change of the session.  Still a page that goes on trying is let in again and again,
\* unless the person is signed out, or not entitled, again and again.
EventuallyLetIn ==
  <>[](SignedIn /\ Entitled) => \A p \in Patient : []<>LetIn(p)

=============================================================================
