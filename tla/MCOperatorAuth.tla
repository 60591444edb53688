-------------------------- MODULE MCOperatorAuth --------------------------
(* The administrator has a one-time-code secret, the viewer has none.       *)
EXTENDS OperatorAuth

CONSTANTS admin, viewer, r1

MCTotp == {admin}

=============================================================================
