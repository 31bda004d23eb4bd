------------------------------ MODULE MCOutbox ------------------------------
(* Instances of Outbox for TLC. *)
EXTENDS Outbox, TLC

\* Interchangeable processes; events differ in what mapEvent says of them.
PublisherSymmetry == Permutations(Publishers)

=============================================================================
