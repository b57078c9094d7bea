------------------------------ MODULE MCFixity ------------------------------
(* Fixity on small instances, for TLC. *)
EXTENDS Fixity

\* The identifiers are random: here they disagree with the order of the names.
IdOrder == [f \in Files |-> 3 - f]
=============================================================================
