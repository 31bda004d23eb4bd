----------------------------- MODULE MCChallenge ----------------------------
(* Instances of Challenge for TLC. *)
EXTENDS Challenge, TLC

\* Rows and request slots are interchangeable.
Interchangeable ==
  Permutations(Challenges) \cup Permutations(Requests)

=============================================================================
