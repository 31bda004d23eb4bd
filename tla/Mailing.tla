------------------------------ MODULE Mailing -------------------------------
(***************************************************************************)
(* What the notification queue promises: of each message at most one mail  *)
(* leaves, and only of one that was requested; its outcome is recorded     *)
(* once, and "delivered" only of a message whose mail left.                *)
(***************************************************************************)
EXTENDS Naturals

CONSTANT Messages

VARIABLES
  mails,         \* mails[m]: the mails that left for m
  outcome        \* outcome[m]: what is on record

vars == <<mails, outcome>>

Init ==
  /\ mails = [m \in Messages |-> 0]
  /\ outcome = [m \in Messages |-> "absent"]

Request(m) ==
  /\ outcome[m] = "absent"
  /\ outcome' = [outcome EXCEPT ![m] = "pending"]
  /\ UNCHANGED mails

\* A mail that was being sent when its message expired may leave late.
Mail(m) ==
  /\ outcome[m] # "absent" /\ mails[m] = 0
  /\ mails' = [mails EXCEPT ![m] = 1]
  /\ UNCHANGED outcome

Deliver(m) ==
  /\ outcome[m] = "pending" /\ mails[m] = 1
  /\ outcome' = [outcome EXCEPT ![m] = "delivered"]
  /\ UNCHANGED mails

Expire(m) ==
  /\ outcome[m] = "pending"
  /\ outcome' = [outcome EXCEPT ![m] = "expired"]
  /\ UNCHANGED mails

Next == \E m \in Messages : Request(m) \/ Mail(m) \/ Deliver(m) \/ Expire(m)

Spec == Init /\ [][Next]_vars

=============================================================================
