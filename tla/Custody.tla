------------------------------ MODULE Custody -------------------------------
(***************************************************************************)
(* Who a sign-in method belongs to: a method has one holder at a time; one *)
(* that was removed is retired for ever; whoever once held a method always *)
(* holds one, whatever is linked, exchanged or removed.                    *)
(***************************************************************************)
CONSTANTS Methods, Persons, Nobody

VARIABLES
  holder,        \* holder[m]: the account that m opens
  retired        \* methods that were removed

vars == <<holder, retired>>

Init ==
  /\ holder = [m \in Methods |-> Nobody]
  /\ retired = {}

Free(m) == holder[m] = Nobody /\ m \notin retired

\* A new account, or a further method of an old one.
Take(m, u) ==
  /\ Free(m)
  /\ holder' = [holder EXCEPT ![m] = u]
  /\ UNCHANGED retired

\* The address of an account is exchanged; the old one is free again.
Exchange(m, n) ==
  /\ holder[m] # Nobody /\ Free(n)
  /\ holder' = [holder EXCEPT ![n] = holder[m], ![m] = Nobody]
  /\ UNCHANGED retired

Retire(m) ==
  /\ holder[m] # Nobody
  /\ \E n \in Methods \ {m} : holder[n] = holder[m]
  /\ holder' = [holder EXCEPT ![m] = Nobody]
  /\ retired' = retired \cup {m}

Next ==
  \E m \in Methods :
    /\ holder'[m] # holder[m]
    /\ \/ \E u \in Persons : Take(m, u)
       \/ \E n \in Methods : Exchange(m, n)
       \/ Retire(m)

Spec == Init /\ [][Next]_vars

=============================================================================
