----------------------------- MODULE MCAccount ------------------------------
EXTENDS Account, TLC

Everything == Operations

Interchangeable ==
  Permutations(Users) \cup Permutations(Ids) \cup Permutations(Sessions)
    \cup Permutations(Requests) \cup Permutations(Emails)

=============================================================================
