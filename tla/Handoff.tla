------------------------------ MODULE Handoff ------------------------------
(***************************************************************************)
(* What the transactional outbox promises to the rest of the platform, and *)
(* nothing about how: an event written with a business change is committed *)
(* to be handed to the job queue, it reaches the queue at least once, and  *)
(* the outbox calls it published only after it did.                        *)
(***************************************************************************)

CONSTANT Events      \* outbox events a business transaction may append

VARIABLES
  committed,         \* events whose business transaction committed
  handed,            \* events the job queue has accepted at least once
  acknowledged       \* events the outbox reports as published

vars == <<committed, handed, acknowledged>>

Init ==
  /\ committed = {}
  /\ handed = {}
  /\ acknowledged = {}

Commit(e) ==
  /\ e \notin committed
  /\ committed' = committed \cup {e}
  /\ UNCHANGED <<handed, acknowledged>>

\* Handing over again an event that the queue already knows is a stutter.
Hand(e) ==
  /\ e \in committed
  /\ handed' = handed \cup {e}
  /\ UNCHANGED <<committed, acknowledged>>

Acknowledge(e) ==
  /\ e \in handed
  /\ acknowledged' = acknowledged \cup {e}
  /\ UNCHANGED <<committed, handed>>

Next == \E e \in Events : Commit(e) \/ Hand(e) \/ Acknowledge(e)

Spec == Init /\ [][Next]_vars

=============================================================================
