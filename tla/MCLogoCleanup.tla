--------------------------- MODULE MCLogoCleanup ----------------------------
(* Instances of LogoCleanup for TLC. *)
EXTENDS LogoCleanup, TLC

\* Worker processes are interchangeable, and so are objects.
Interchangeable == Permutations(Workers) \cup Permutations(Keys)

=============================================================================
