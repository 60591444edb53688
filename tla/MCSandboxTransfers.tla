------------------------- MODULE MCSandboxTransfers -------------------------
(* SandboxTransfers with one or two client references and overlapping calls. *)
EXTENDS SandboxTransfers

CONSTANTS c1, c2, c3, ref1, ref2

=============================================================================
