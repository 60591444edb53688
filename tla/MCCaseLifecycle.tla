-------------------------- MODULE MCCaseLifecycle --------------------------
(* A case up to its first plan, with two credits that match alike, or with   *)
(* one that may be pending first after a declined top-up; and one through    *)
(* two plans of one payout each, or through one whose receipt may be         *)
(* reversed, with one reconcile call.                                        *)
EXTENDS CaseLifecycle, TLC

CONSTANTS r1, credit, twin

\* A validated package: an expectation that may be replaced, observations that fail.
Reviewed(rec, credits, moves) ==
  [record |-> rec, failures |-> {"RECONCILABLE", "UNRESOLVABLE"},
   declines |-> {"REJECTED", "INFORMATION_REQUIRED"}, credits |-> credits, moves |-> moves,
   plans |-> 1, calls |-> {}]

\* Funding is matched already and approved.
Planned(c, failures, moves, plans) ==
  [record |-> Approved(c), failures |-> failures, declines |-> {"REJECTED"}, credits |-> {c},
   moves |-> moves, plans |-> plans, calls |-> Reconcilers]

MCOrigins ==
  {Reviewed(Validated, Credits, {"COMPLETED", "REVERTED"})}
  \cup {Reviewed(Declined, {c}, {"PENDING", "COMPLETED", "REVERTED"}) : c \in Credits}
  \cup {Planned(c, {}, {}, 2) : c \in Credits} \cup {Planned(c, {}, {"REVERTED"}, 1) : c \in Credits}
MCFailing == {Planned(credit, {"RECONCILABLE", "UNRESOLVABLE"}, {"REVERTED"}, 2)}

\* The origins treat the two credits alike.
Alike == Permutations(Credits)

=============================================================================
