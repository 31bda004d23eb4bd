--------------------------- MODULE MCOrganization ---------------------------
(* Instances of Organization for TLC. *)
EXTENDS Organization, TLC

\* Users, addresses, invitation ids and request slots are interchangeable.
Interchangeable ==
  Permutations(Users) \cup Permutations(Addresses)
    \cup Permutations(Invitations) \cup Permutations(Requests)

=============================================================================
