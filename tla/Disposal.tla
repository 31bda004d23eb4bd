------------------------------ MODULE Disposal ------------------------------
(***************************************************************************)
(* What happens to stored objects that nobody needs any more: an object is *)
(* condemned once, only condemned objects are deleted, and one is recorded *)
(* as gone only when it is.                                                *)
(***************************************************************************)
CONSTANT Keys

VARIABLES
  stored,      \* the objects in the bucket
  condemned,   \* objects somebody has ordered to delete
  recorded     \* objects whose deletion is on record

vars == <<stored, condemned, recorded>>

Init == stored \subseteq Keys /\ condemned = {} /\ recorded = {}

\* The order may come from somebody whose own attempt to delete the object
\* failed, without saying whether it had an effect.
Condemn(k) ==
  /\ k \notin condemned
  /\ condemned' = condemned \cup {k}
  /\ stored' \in {stored, stored \ {k}}
  /\ UNCHANGED recorded

Dispose(k) ==
  /\ k \in condemned
  /\ stored' = stored \ {k}
  /\ UNCHANGED <<condemned, recorded>>

Record(k) ==
  /\ k \in condemned \ stored
  /\ recorded' = recorded \cup {k}
  /\ UNCHANGED <<stored, condemned>>

Next == \E k \in Keys : Condemn(k) \/ Dispose(k) \/ Record(k)

Spec == Init /\ [][Next]_vars

=============================================================================
