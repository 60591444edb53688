-------------------------- MODULE MCOperationalErrors --------------------------
(* Three overlapping captures of two operations, a warning and a critical kind. *)
EXTENDS OperationalErrors, TLC

CONSTANTS c1, c2, c3

Alike == Permutations({c1, c2, c3})

=============================================================================
