------------------------- MODULE SequentialPayouts -------------------------
(***************************************************************************)
(* What executing a funding plan promises, whatever process does it: the   *)
(* plan's payouts are tried one at a time and in order, each of them once, *)
(* only while the plan is open, and the next one only after the last was   *)
(* paid; a plan is closed as RECONCILED when all its payouts are paid, and *)
(* as FAILED when the last one was refused, or was given up, or when there *)
(* is none outstanding.  A payout that was given up may still be accepted, *)
(* paid or refused, before the plan is closed or after.                    *)
(***************************************************************************)
EXTENDS Naturals

CONSTANTS Plans,  \* funding plans
          N       \* payouts of each plan

VARIABLES tried,    \* payouts begun, per plan
          asked,    \* those of them the provider has accepted
          paid,     \* those of them it has completed
          refused,  \* the last of them has failed
          givenUp,  \* nothing more is done about the last payout tried
          phase     \* NEW, OPEN, RECONCILED or FAILED

pvars == <<tried, asked, paid, refused, givenUp, phase>>

Init == /\ tried = [p \in Plans |-> 0]
        /\ asked = [p \in Plans |-> 0]
        /\ paid = [p \in Plans |-> 0]
        /\ refused = [p \in Plans |-> FALSE]
        /\ givenUp = [p \in Plans |-> FALSE]
        /\ phase = [p \in Plans |-> "NEW"]

Open(p) ==
  /\ phase[p] = "NEW"
  /\ phase' = [phase EXCEPT ![p] = "OPEN"]
  /\ UNCHANGED <<tried, asked, paid, refused, givenUp>>

Try(p) ==
  /\ phase[p] = "OPEN" /\ ~givenUp[p]
  /\ tried[p] = paid[p] /\ tried[p] < N
  /\ tried' = [tried EXCEPT ![p] = @ + 1]
  /\ UNCHANGED <<asked, paid, refused, givenUp, phase>>

\* The provider accepts the payout that was tried and may decide it at once.
Ask(p) ==
  /\ asked[p] < tried[p] /\ (phase[p] = "OPEN" \/ givenUp[p])
  /\ asked' = [asked EXCEPT ![p] = @ + 1]
  /\ \/ UNCHANGED <<paid, refused>>
     \/ paid' = [paid EXCEPT ![p] = @ + 1] /\ UNCHANGED refused
     \/ refused' = [refused EXCEPT ![p] = TRUE] /\ UNCHANGED paid
  /\ UNCHANGED <<tried, givenUp, phase>>

Undecided(p) == asked[p] = paid[p] + 1 /\ ~refused[p] /\ (phase[p] = "OPEN" \/ givenUp[p])

Refuse(p) ==
  /\ Undecided(p)
  /\ refused' = [refused EXCEPT ![p] = TRUE]
  /\ UNCHANGED <<tried, asked, paid, givenUp, phase>>

Complete(p) ==
  /\ Undecided(p)
  /\ paid' = [paid EXCEPT ![p] = @ + 1]
  /\ UNCHANGED <<tried, asked, refused, givenUp, phase>>

GiveUp(p) ==
  /\ phase[p] = "OPEN" /\ tried[p] > 0
  /\ givenUp' = [givenUp EXCEPT ![p] = TRUE]
  /\ UNCHANGED <<tried, asked, paid, refused, phase>>

Close(p) ==
  /\ phase[p] = "OPEN"
  /\ \/ paid[p] = N /\ ~givenUp[p] /\ phase' = [phase EXCEPT ![p] = "RECONCILED"]
     \/ /\ refused[p] \/ givenUp[p] \/ (tried[p] = paid[p] /\ paid[p] < N)
        /\ phase' = [phase EXCEPT ![p] = "FAILED"]
  /\ UNCHANGED <<tried, asked, paid, refused, givenUp>>

Next == \E p \in Plans : Open(p) \/ Try(p) \/ Ask(p) \/ Complete(p) \/ Refuse(p) \/ GiveUp(p) \/ Close(p)

Spec == Init /\ [][Next]_pvars

=============================================================================
