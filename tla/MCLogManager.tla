---------------------------- MODULE MCLogManager ----------------------------
(* Model values of the log. *)
EXTENDS LogManager

Symmetry == Permutations(Session)
=============================================================================
