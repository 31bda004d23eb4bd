------------------------------- MODULE MCLogo -------------------------------
(* Instances of Logo for TLC. *)
EXTENDS Logo, TLC

\* Uploads are interchangeable.
Interchangeable == Permutations(Uploads)

=============================================================================
