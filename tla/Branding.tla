------------------------------ MODULE Branding ------------------------------
(***************************************************************************)
(* What an organization promises about its logo: it shows at most one, an  *)
(* object that is stored; a logo gives way only to another one; and only   *)
(* an object that is not shown is ever removed.                            *)
(***************************************************************************)
CONSTANT Uploads

VARIABLES
  stored,      \* the objects in the bucket
  shown        \* the logo shown, as a set of at most one object

vars == <<stored, shown>>

Init == stored = {} /\ shown = {}

Put(u) == stored' = stored \cup {u} /\ UNCHANGED shown

Show(u) == u \in stored /\ shown' = {u} /\ UNCHANGED stored

Remove(u) == u \notin shown /\ stored' = stored \ {u} /\ UNCHANGED shown

Next == \E u \in Uploads : Put(u) \/ Show(u) \/ Remove(u)

Spec == Init /\ [][Next]_vars

=============================================================================
