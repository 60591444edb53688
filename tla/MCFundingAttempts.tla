------------------------- MODULE MCFundingAttempts -------------------------
(* FundingAttempts with one to three expectations and two calls that overlap. *)
EXTENDS FundingAttempts, TLC

CONSTANTS w1, w2, e1, e2, e3

Alike == Permutations({w1, w2})

=============================================================================
