----------------------------- MODULE MCEditorial -----------------------------
(* Editorial on small instances, for TLC. *)
EXTENDS Editorial, TLC

CONSTANTS r1, r2

\* Requests are told apart only by their slots, zonings only by equality.
ThisSymmetry == Permutations({r1, r2})
ZoningSymmetry == Permutations(Zonings)
=============================================================================
