------------------------ MODULE ExecutionLock_proofs ------------------------
(***************************************************************************)
(* Proofs about ExecutionLock for every set of cases, plan versions and    *)
(* workers and every number of claims.                                     *)
(*                                                                         *)
(* The three safety invariants are not inductive by themselves.  LockInv   *)
(* adds what they rest on: the shape of a row, that only a submitted plan  *)
(* has a row, that a plan is submitted by one call, that claim tokens are  *)
(* unique, and how the last writer is bounded by the current holder.       *)
(***************************************************************************)
EXTENDS ExecutionLock, TLAPS

RowShape ==
  \A c \in Cases :
    /\ Reserved(c) => row[c].ver \in Versions
    /\ row[c].state # "RECONCILING" => row[c].token = 0

PlanOfRow ==
  \A c \in Cases : Reserved(c) => plan[c][row[c].ver] # "UNSUBMITTED"

OneExecutor ==
  /\ \A e \in executing : plan[e.c][e.v] # "UNSUBMITTED"
  /\ \A e, f \in executing : e.c = f.c /\ e.v = f.v => e = f

UniqueTokens ==
  /\ \A c \in Cases : row[c].token <= issued
  /\ \A r \in reconciling : r.token <= issued
  /\ \A r, s \in reconciling : r.token = s.token => r = s

ClosedIsFinal == \A r \in reconciling : r.closed => plan[r.c][r.v] \in Final

WriterBound ==
  \A c \in Cases :
    /\ lastWriter[c] <= issued
    /\ row[c].state = "ACTIVE" => lastWriter[c] = 0
    /\ row[c].state = "RECONCILING" => lastWriter[c] <= row[c].token

LockInv ==
  /\ TypeOK
  /\ RowShape
  /\ OneReservation
  /\ PlanOfRow
  /\ ExecutingIsReserved
  /\ OneExecutor
  /\ UniqueTokens
  /\ ClosedIsFinal
  /\ WriterBound

----------------------------------------------------------------------------

\* The constants a row can hold are of the row's type.
LEMMA RowTypes ==
  /\ NoRow \in Row
  /\ \A v \in Versions : NewRow(v) \in Row /\ ReadyRow(v) \in Row
  /\ \A v \in Versions, t \in Nat : ClaimedRow(v, t) \in Row
  BY LockAssumption DEF NoRow, NewRow, ReadyRow, ClaimedRow, Row, LockStates

\* Nobody holds a lock before the first step.
LEMMA InitLockInv == Init => LockInv
  <1> SUFFICES ASSUME Init PROVE LockInv
    OBVIOUS
  <1>1. TypeOK
    BY RowTypes DEF Init, TypeOK, PlanStates, Final
  <1>2. RowShape /\ OneReservation /\ PlanOfRow
    BY DEF Init, RowShape, OneReservation, PlanOfRow, NoRow, Reserved
  <1>3. ExecutingIsReserved /\ OneExecutor /\ ClosedIsFinal
    BY DEF Init, ExecutingIsReserved, OneExecutor, ClosedIsFinal
  <1>4. UniqueTokens /\ WriterBound
    BY DEF Init, UniqueTokens, WriterBound, NoRow
  <1>5. QED
    BY <1>1, <1>2, <1>3, <1>4 DEF LockInv
----------------------------------------------------------------------------
(* Every action preserves LockInv: one step per conjunct.                  *)

\* A reservation is granted only when both tables are empty, so it is alone.
LEMMA ReserveStep ==
  ASSUME LockInv, NEW w \in Workers, NEW c \in Cases, NEW v \in Versions, Reserve(w, c, v)
  PROVE  LockInv'
  <1>1. TypeOK'
    BY RowTypes DEF Reserve, LockInv, TypeOK, Execution, PlanStates
  <1>2. RowShape'
    BY DEF Reserve, PilotFree, LockInv, TypeOK, RowShape, Row, Reserved, NoRow, NewRow,
         ReadyRow, ClaimedRow, NewClaim, Final
  <1>3. OneReservation'
    BY DEF Reserve, PilotFree, LockInv, TypeOK, RowShape, OneReservation, Row,
         Reserved, NoRow, NewRow, ReadyRow, ClaimedRow, NewClaim, Final
  <1>4. PlanOfRow'
    BY DEF Reserve, PilotFree, LockInv, TypeOK, RowShape, PlanOfRow, Row, Reserved,
         NoRow, NewRow, ReadyRow, ClaimedRow, NewClaim, Final
  <1>5. ExecutingIsReserved'
    BY DEF Reserve, PilotFree, LockInv, TypeOK, RowShape, ExecutingIsReserved,
         ClosedIsFinal, Row, Reserved, NoRow, NewRow, ReadyRow, ClaimedRow, NewClaim,
         Final
  <1>6. OneExecutor'
    BY DEF Reserve, PilotFree, LockInv, TypeOK, OneExecutor, Row, Execution, Final
  <1>7. UniqueTokens'
    BY DEF Reserve, PilotFree, LockInv, TypeOK, UniqueTokens, Row, NoRow, NewRow,
         ReadyRow, ClaimedRow, NewClaim, Claim
  <1>8. ClosedIsFinal'
    BY DEF Reserve, PilotFree, LockInv, TypeOK, ClosedIsFinal, Row, Claim, Final
  <1>9. WriterBound'
    BY DEF Reserve, PilotFree, LockInv, TypeOK, RowShape, UniqueTokens, WriterBound,
         Row, NoRow, NewRow, ReadyRow, ClaimedRow, NewClaim, Claim
  <1>10. QED
    BY <1>1, <1>2, <1>3, <1>4, <1>5, <1>6, <1>7, <1>8, <1>9 DEF LockInv

\* A heartbeat renews a lease and changes no holder.
LEMMA HeartbeatExecutionStep ==
  ASSUME LockInv, NEW e \in executing, HeartbeatExecution(e)
  PROVE  LockInv'
  <1>1. TypeOK'
    BY RowTypes DEF HeartbeatExecution, OwnsActive, LockInv, TypeOK, Row, LockStates,
         Execution, Claim, PlanStates, Final
  <1>2. RowShape'
    BY DEF HeartbeatExecution, OwnsActive, LockInv, TypeOK, RowShape, Row, Reserved,
         NoRow, NewRow, ReadyRow, ClaimedRow, NewClaim, Final
  <1>3. OneReservation'
    BY DEF HeartbeatExecution, OwnsActive, LockInv, TypeOK, RowShape, OneReservation,
         Row, Reserved, NoRow, NewRow, ReadyRow, ClaimedRow, NewClaim, Final
  <1>4. PlanOfRow'
    BY DEF HeartbeatExecution, OwnsActive, LockInv, TypeOK, RowShape, PlanOfRow, Row,
         Reserved, NoRow, NewRow, ReadyRow, ClaimedRow, NewClaim, Final
  <1>5. ExecutingIsReserved'
    BY DEF HeartbeatExecution, OwnsActive, LockInv, TypeOK, RowShape,
         ExecutingIsReserved, ClosedIsFinal, Row, Reserved, NoRow, NewRow, ReadyRow,
         ClaimedRow, NewClaim, Final
  <1>6. OneExecutor'
    BY DEF HeartbeatExecution, OwnsActive, LockInv, TypeOK, OneExecutor, Row,
         Execution, Final
  <1>7. UniqueTokens'
    BY DEF HeartbeatExecution, OwnsActive, LockInv, TypeOK, UniqueTokens, Row, NoRow,
         NewRow, ReadyRow, ClaimedRow, NewClaim, Claim
  <1>8. ClosedIsFinal'
    BY DEF HeartbeatExecution, OwnsActive, LockInv, TypeOK, ClosedIsFinal, Row, Claim, Final
  <1>9. WriterBound'
    BY DEF HeartbeatExecution, OwnsActive, LockInv, TypeOK, RowShape, UniqueTokens,
         WriterBound, Row, NoRow, NewRow, ReadyRow, ClaimedRow, NewClaim, Claim
  <1>10. QED
    BY <1>1, <1>2, <1>3, <1>4, <1>5, <1>6, <1>7, <1>8, <1>9 DEF LockInv

\* The submission worker writes only while its row is ACTIVE.
LEMMA SaveByExecutorStep ==
  ASSUME LockInv, NEW e \in executing, SaveByExecutor(e)
  PROVE  LockInv'
  <1>1. TypeOK'
    BY RowTypes DEF SaveByExecutor, OwnsActive, LockInv, TypeOK, Row, LockStates,
         Execution, Claim, PlanStates, Final
  <1>2. RowShape'
    BY DEF SaveByExecutor, OwnsActive, LockInv, TypeOK, RowShape, Row, Reserved, NoRow,
         NewRow, ReadyRow, ClaimedRow, NewClaim, Final
  <1>3. OneReservation'
    BY DEF SaveByExecutor, OwnsActive, LockInv, TypeOK, RowShape, OneReservation, Row,
         Reserved, NoRow, NewRow, ReadyRow, ClaimedRow, NewClaim, Final
  <1>4. PlanOfRow'
    BY DEF SaveByExecutor, OwnsActive, LockInv, TypeOK, RowShape, PlanOfRow, Row,
         Reserved, NoRow, NewRow, ReadyRow, ClaimedRow, NewClaim, Final
  <1>5. ExecutingIsReserved'
    BY DEF SaveByExecutor, OwnsActive, LockInv, TypeOK, RowShape, ExecutingIsReserved,
         ClosedIsFinal, Row, Reserved, NoRow, NewRow, ReadyRow, ClaimedRow, NewClaim,
         Final
  <1>6. OneExecutor'
    BY DEF SaveByExecutor, OwnsActive, LockInv, TypeOK, OneExecutor, Row, Execution, Final
  <1>7. UniqueTokens'
    BY DEF SaveByExecutor, OwnsActive, LockInv, TypeOK, UniqueTokens, Row, NoRow,
         NewRow, ReadyRow, ClaimedRow, NewClaim, Claim
  <1>8. ClosedIsFinal'
    BY DEF SaveByExecutor, OwnsActive, LockInv, TypeOK, ClosedIsFinal, Row, Claim, Final
  <1>9. WriterBound'
    BY DEF SaveByExecutor, OwnsActive, LockInv, TypeOK, RowShape, UniqueTokens,
         WriterBound, Row, NoRow, NewRow, ReadyRow, ClaimedRow, NewClaim, Claim
  <1>10. QED
    BY <1>1, <1>2, <1>3, <1>4, <1>5, <1>6, <1>7, <1>8, <1>9 DEF LockInv

\* The end of an execution hands its own row over, finds the row taken, or
\* releases the rows of a plan that is already settled.
LEMMA FinishExecutionStep ==
  ASSUME LockInv, NEW e \in executing, FinishExecution(e)
  PROVE  LockInv'
  <1>1. OneExecutor'
    BY DEF FinishExecution, LockInv, TypeOK, OneExecutor, Row, Execution, Final
  <1>2. ClosedIsFinal'
    BY DEF FinishExecution, LockInv, TypeOK, ClosedIsFinal, Row, Claim, Final
  <1>3. CASE /\ OwnsActive(e)
               /\ row' = [row EXCEPT ![e.c] = ReadyRow(e.v)]
               /\ pilot' = pilot
    <2>1. TypeOK'
      BY <1>3, RowTypes DEF FinishExecution, OwnsActive, LockInv, TypeOK, Row,
           LockStates, Execution, Claim, PlanStates, Final
    <2>2. RowShape'
      BY <1>3 DEF FinishExecution, OwnsActive, LockInv, TypeOK, RowShape, Row,
           Reserved, NoRow, NewRow, ReadyRow, ClaimedRow, NewClaim, Final, Execution
    <2>3. OneReservation'
      BY <1>3 DEF FinishExecution, OwnsActive, LockInv, TypeOK, RowShape,
           OneReservation, Row, Reserved, NoRow, NewRow, ReadyRow, ClaimedRow,
           NewClaim, Final, Execution
    <2>4. PlanOfRow'
      BY <1>3 DEF FinishExecution, OwnsActive, LockInv, TypeOK, RowShape, PlanOfRow,
           Row, Reserved, NoRow, NewRow, ReadyRow, ClaimedRow, NewClaim, Final,
           Execution
    <2>5. ExecutingIsReserved'
      BY <1>3 DEF FinishExecution, OwnsActive, LockInv, TypeOK, RowShape,
           ExecutingIsReserved, ClosedIsFinal, Row, Reserved, NoRow, NewRow, ReadyRow,
           ClaimedRow, NewClaim, Final, Execution
    <2>6. UniqueTokens'
      BY <1>3 DEF FinishExecution, OwnsActive, LockInv, TypeOK, UniqueTokens, Row,
           NoRow, NewRow, ReadyRow, ClaimedRow, NewClaim, Claim, Execution
    <2>7. WriterBound'
      BY <1>3 DEF FinishExecution, OwnsActive, LockInv, TypeOK, RowShape, UniqueTokens,
           WriterBound, Row, NoRow, NewRow, ReadyRow, ClaimedRow, NewClaim, Claim,
           Execution
    <2>8. QED
      BY <1>1, <1>2, <2>1, <2>2, <2>3, <2>4, <2>5, <2>6, <2>7 DEF LockInv
  <1>4. CASE row' = row /\ pilot' = pilot
    <2>1. TypeOK'
      BY <1>4, RowTypes DEF FinishExecution, LockInv, TypeOK, Row, LockStates,
           Execution, Claim, PlanStates, Final
    <2>2. RowShape'
      BY <1>4 DEF FinishExecution, LockInv, TypeOK, RowShape, Row, Reserved, NoRow,
           NewRow, ReadyRow, ClaimedRow, NewClaim, Final, Execution
    <2>3. OneReservation'
      BY <1>4 DEF FinishExecution, LockInv, TypeOK, RowShape, OneReservation, Row,
           Reserved, NoRow, NewRow, ReadyRow, ClaimedRow, NewClaim, Final, Execution
    <2>4. PlanOfRow'
      BY <1>4 DEF FinishExecution, LockInv, TypeOK, RowShape, PlanOfRow, Row, Reserved,
           NoRow, NewRow, ReadyRow, ClaimedRow, NewClaim, Final, Execution
    <2>5. ExecutingIsReserved'
      BY <1>4 DEF FinishExecution, LockInv, TypeOK, RowShape, ExecutingIsReserved,
           ClosedIsFinal, Row, Reserved, NoRow, NewRow, ReadyRow, ClaimedRow, NewClaim,
           Final, Execution
    <2>6. UniqueTokens'
      BY <1>4 DEF FinishExecution, LockInv, TypeOK, UniqueTokens, Row, NoRow, NewRow,
           ReadyRow, ClaimedRow, NewClaim, Claim, Execution
    <2>7. WriterBound'
      BY <1>4 DEF FinishExecution, LockInv, TypeOK, RowShape, UniqueTokens,
           WriterBound, Row, NoRow, NewRow, ReadyRow, ClaimedRow, NewClaim, Claim,
           Execution
    <2>8. QED
      BY <1>1, <1>2, <2>1, <2>2, <2>3, <2>4, <2>5, <2>6, <2>7 DEF LockInv
  <1>5. CASE /\ plan[e.c][e.v] \in Final
               /\ row' = RowAfterRelease(e.c, e.v)
               /\ pilot' = PilotAfterRelease(e.c, e.v)
    <2>1. TypeOK'
      BY <1>5, RowTypes DEF FinishExecution, RowAfterRelease, PilotAfterRelease,
           LockInv, TypeOK, Row, LockStates, Execution, Claim, PlanStates, Final
    <2>2. RowShape'
      BY <1>5 DEF FinishExecution, RowAfterRelease, PilotAfterRelease, LockInv, TypeOK,
           RowShape, Row, Reserved, NoRow, NewRow, ReadyRow, ClaimedRow, NewClaim,
           Final, Execution
    <2>3. OneReservation'
      BY <1>5 DEF FinishExecution, RowAfterRelease, PilotAfterRelease, LockInv, TypeOK,
           RowShape, OneReservation, Row, Reserved, NoRow, NewRow, ReadyRow,
           ClaimedRow, NewClaim, Final, Execution
    <2>4. PlanOfRow'
      BY <1>5 DEF FinishExecution, RowAfterRelease, PilotAfterRelease, LockInv, TypeOK,
           RowShape, PlanOfRow, Row, Reserved, NoRow, NewRow, ReadyRow, ClaimedRow,
           NewClaim, Final, Execution
    <2>5. ExecutingIsReserved'
      BY <1>5 DEF FinishExecution, RowAfterRelease, PilotAfterRelease, LockInv, TypeOK,
           RowShape, ExecutingIsReserved, ClosedIsFinal, Row, Reserved, NoRow, NewRow,
           ReadyRow, ClaimedRow, NewClaim, Final, Execution
    <2>6. UniqueTokens'
      BY <1>5 DEF FinishExecution, RowAfterRelease, PilotAfterRelease, LockInv, TypeOK,
           UniqueTokens, Row, NoRow, NewRow, ReadyRow, ClaimedRow, NewClaim, Claim,
           Execution
    <2>7. WriterBound'
      BY <1>5 DEF FinishExecution, RowAfterRelease, PilotAfterRelease, LockInv, TypeOK,
           RowShape, UniqueTokens, WriterBound, Row, NoRow, NewRow, ReadyRow,
           ClaimedRow, NewClaim, Claim, Execution
    <2>8. QED
      BY <1>1, <1>2, <2>1, <2>2, <2>3, <2>4, <2>5, <2>6, <2>7 DEF LockInv
  <1>6. QED
    BY <1>3, <1>4, <1>5 DEF FinishExecution, HandOver

\* A claim replaces the token by one never issued before.
LEMMA ClaimReadyStep ==
  ASSUME LockInv, NEW w \in Workers, NEW c \in Cases, NEW v \in Versions, ClaimReady(w, c, v)
  PROVE  LockInv'
  <1>1. TypeOK'
    <2>1. NextToken \in Nat
      BY DEF NextToken, LockInv, TypeOK
    <2>2. row' \in [Cases -> Row]
      BY <2>1, RowTypes DEF ClaimReady, Grant, LockInv, TypeOK
    <2>3. NewClaim(w, c, v, NextToken) \in Claim
      BY <2>1 DEF NewClaim, Claim
    <2>4. QED
      BY <2>1, <2>2, <2>3 DEF ClaimReady, Grant, NextToken, LockInv, TypeOK
  <1>2. RowShape'
    BY DEF ClaimReady, Grant, NextToken, LockInv, TypeOK, RowShape, Row, Reserved,
         NoRow, NewRow, ReadyRow, ClaimedRow, NewClaim, Final
  <1>3. OneReservation'
    BY DEF ClaimReady, Grant, NextToken, LockInv, TypeOK, RowShape, OneReservation,
         Row, Reserved, NoRow, NewRow, ReadyRow, ClaimedRow, NewClaim, Final
  <1>4. PlanOfRow'
    BY DEF ClaimReady, Grant, NextToken, LockInv, TypeOK, RowShape, PlanOfRow, Row,
         Reserved, NoRow, NewRow, ReadyRow, ClaimedRow, NewClaim, Final
  <1>5. ExecutingIsReserved'
    BY DEF ClaimReady, Grant, NextToken, LockInv, TypeOK, RowShape,
         ExecutingIsReserved, ClosedIsFinal, Row, Reserved, NoRow, NewRow, ReadyRow,
         ClaimedRow, NewClaim, Final
  <1>6. OneExecutor'
    BY DEF ClaimReady, Grant, NextToken, LockInv, TypeOK, OneExecutor, Row, Execution, Final
  <1>7. UniqueTokens'
    <2>1. NewClaim(w, c, v, NextToken).token = issued + 1
      BY DEF NewClaim, NextToken
    <2>2. \A r \in reconciling : r.token \in Nat /\ r.token <= issued
      BY DEF LockInv, TypeOK, UniqueTokens, Claim
    <2>3. \A r, s \in reconciling' : r.token = s.token => r = s
      BY <2>1, <2>2 DEF ClaimReady, Grant, LockInv, TypeOK, UniqueTokens
    <2>4. \A r \in reconciling' : r.token <= issued'
      BY <2>1, <2>2 DEF ClaimReady, Grant, LockInv, TypeOK
    <2>5. \A d \in Cases : row'[d].token <= issued'
      BY DEF ClaimReady, Grant, NextToken, ClaimedRow, LockInv, TypeOK, UniqueTokens, Row
    <2>6. QED
      BY <2>3, <2>4, <2>5 DEF UniqueTokens
  <1>8. ClosedIsFinal'
    <2>1. ~NewClaim(w, c, v, NextToken).closed
      BY DEF NewClaim
    <2>2. QED
      BY <2>1 DEF ClaimReady, Grant, LockInv, ClosedIsFinal
  <1>9. WriterBound'
    BY DEF ClaimReady, Grant, NextToken, LockInv, TypeOK, RowShape, UniqueTokens,
         WriterBound, Row, NoRow, NewRow, ReadyRow, ClaimedRow, NewClaim, Claim
  <1>10. QED
    BY <1>1, <1>2, <1>3, <1>4, <1>5, <1>6, <1>7, <1>8, <1>9 DEF LockInv

\* A takeover does the same to a holder whose lease has run out.
LEMMA ClaimStaleStep ==
  ASSUME LockInv, NEW w \in Workers, NEW c \in Cases, NEW v \in Versions, ClaimStale(w, c, v)
  PROVE  LockInv'
  <1>1. TypeOK'
    <2>1. NextToken \in Nat
      BY DEF NextToken, LockInv, TypeOK
    <2>2. row' \in [Cases -> Row]
      BY <2>1, RowTypes DEF ClaimStale, Grant, LockInv, TypeOK
    <2>3. NewClaim(w, c, v, NextToken) \in Claim
      BY <2>1 DEF NewClaim, Claim
    <2>4. QED
      BY <2>1, <2>2, <2>3 DEF ClaimStale, Grant, NextToken, LockInv, TypeOK
  <1>2. RowShape'
    BY DEF ClaimStale, Grant, NextToken, LockInv, TypeOK, RowShape, Row, Reserved,
         NoRow, NewRow, ReadyRow, ClaimedRow, NewClaim, Final
  <1>3. OneReservation'
    BY DEF ClaimStale, Grant, NextToken, LockInv, TypeOK, RowShape, OneReservation,
         Row, Reserved, NoRow, NewRow, ReadyRow, ClaimedRow, NewClaim, Final
  <1>4. PlanOfRow'
    BY DEF ClaimStale, Grant, NextToken, LockInv, TypeOK, RowShape, PlanOfRow, Row,
         Reserved, NoRow, NewRow, ReadyRow, ClaimedRow, NewClaim, Final
  <1>5. ExecutingIsReserved'
    BY DEF ClaimStale, Grant, NextToken, LockInv, TypeOK, RowShape,
         ExecutingIsReserved, ClosedIsFinal, Row, Reserved, NoRow, NewRow, ReadyRow,
         ClaimedRow, NewClaim, Final
  <1>6. OneExecutor'
    BY DEF ClaimStale, Grant, NextToken, LockInv, TypeOK, OneExecutor, Row, Execution, Final
  <1>7. UniqueTokens'
    <2>1. NewClaim(w, c, v, NextToken).token = issued + 1
      BY DEF NewClaim, NextToken
    <2>2. \A r \in reconciling : r.token \in Nat /\ r.token <= issued
      BY DEF LockInv, TypeOK, UniqueTokens, Claim
    <2>3. \A r, s \in reconciling' : r.token = s.token => r = s
      BY <2>1, <2>2 DEF ClaimStale, Grant, LockInv, TypeOK, UniqueTokens
    <2>4. \A r \in reconciling' : r.token <= issued'
      BY <2>1, <2>2 DEF ClaimStale, Grant, LockInv, TypeOK
    <2>5. \A d \in Cases : row'[d].token <= issued'
      BY DEF ClaimStale, Grant, NextToken, ClaimedRow, LockInv, TypeOK, UniqueTokens, Row
    <2>6. QED
      BY <2>3, <2>4, <2>5 DEF UniqueTokens
  <1>8. ClosedIsFinal'
    <2>1. ~NewClaim(w, c, v, NextToken).closed
      BY DEF NewClaim
    <2>2. QED
      BY <2>1 DEF ClaimStale, Grant, LockInv, ClosedIsFinal
  <1>9. WriterBound'
    BY DEF ClaimStale, Grant, NextToken, LockInv, TypeOK, RowShape, UniqueTokens,
         WriterBound, Row, NoRow, NewRow, ReadyRow, ClaimedRow, NewClaim, Claim
  <1>10. QED
    BY <1>1, <1>2, <1>3, <1>4, <1>5, <1>6, <1>7, <1>8, <1>9 DEF LockInv

\* A heartbeat of a claim renews a lease and changes no holder.
LEMMA HeartbeatClaimStep ==
  ASSUME LockInv, NEW r \in reconciling, HeartbeatClaim(r)
  PROVE  LockInv'
  <1>1. TypeOK'
    BY RowTypes DEF HeartbeatClaim, OwnsClaim, LockInv, TypeOK, Row, LockStates,
         Execution, Claim, PlanStates, Final
  <1>2. RowShape'
    BY DEF HeartbeatClaim, OwnsClaim, LockInv, TypeOK, RowShape, Row, Reserved, NoRow,
         NewRow, ReadyRow, ClaimedRow, NewClaim, Final
  <1>3. OneReservation'
    BY DEF HeartbeatClaim, OwnsClaim, LockInv, TypeOK, RowShape, OneReservation, Row,
         Reserved, NoRow, NewRow, ReadyRow, ClaimedRow, NewClaim, Final
  <1>4. PlanOfRow'
    BY DEF HeartbeatClaim, OwnsClaim, LockInv, TypeOK, RowShape, PlanOfRow, Row,
         Reserved, NoRow, NewRow, ReadyRow, ClaimedRow, NewClaim, Final
  <1>5. ExecutingIsReserved'
    BY DEF HeartbeatClaim, OwnsClaim, LockInv, TypeOK, RowShape, ExecutingIsReserved,
         ClosedIsFinal, Row, Reserved, NoRow, NewRow, ReadyRow, ClaimedRow, NewClaim,
         Final
  <1>6. OneExecutor'
    BY DEF HeartbeatClaim, OwnsClaim, LockInv, TypeOK, OneExecutor, Row, Execution, Final
  <1>7. UniqueTokens'
    BY DEF HeartbeatClaim, OwnsClaim, LockInv, TypeOK, UniqueTokens, Row, NoRow,
         NewRow, ReadyRow, ClaimedRow, NewClaim, Claim
  <1>8. ClosedIsFinal'
    BY DEF HeartbeatClaim, OwnsClaim, LockInv, TypeOK, ClosedIsFinal, Row, Claim, Final
  <1>9. WriterBound'
    BY DEF HeartbeatClaim, OwnsClaim, LockInv, TypeOK, RowShape, UniqueTokens,
         WriterBound, Row, NoRow, NewRow, ReadyRow, ClaimedRow, NewClaim, Claim
  <1>10. QED
    BY <1>1, <1>2, <1>3, <1>4, <1>5, <1>6, <1>7, <1>8, <1>9 DEF LockInv

\* The reconciliation worker writes only under its own token.
LEMMA SaveOpenStep ==
  ASSUME LockInv, NEW r \in reconciling, SaveOpen(r)
  PROVE  LockInv'
  <1>1. TypeOK'
    BY RowTypes DEF SaveOpen, OwnsClaim, LockInv, TypeOK, Row, LockStates, Execution,
         Claim, PlanStates, Final
  <1>2. RowShape'
    BY DEF SaveOpen, OwnsClaim, LockInv, TypeOK, RowShape, Row, Reserved, NoRow,
         NewRow, ReadyRow, ClaimedRow, NewClaim, Final
  <1>3. OneReservation'
    BY DEF SaveOpen, OwnsClaim, LockInv, TypeOK, RowShape, OneReservation, Row,
         Reserved, NoRow, NewRow, ReadyRow, ClaimedRow, NewClaim, Final
  <1>4. PlanOfRow'
    BY DEF SaveOpen, OwnsClaim, LockInv, TypeOK, RowShape, PlanOfRow, Row, Reserved,
         NoRow, NewRow, ReadyRow, ClaimedRow, NewClaim, Final
  <1>5. ExecutingIsReserved'
    BY DEF SaveOpen, OwnsClaim, LockInv, TypeOK, RowShape, ExecutingIsReserved,
         ClosedIsFinal, Row, Reserved, NoRow, NewRow, ReadyRow, ClaimedRow, NewClaim,
         Final
  <1>6. OneExecutor'
    BY DEF SaveOpen, OwnsClaim, LockInv, TypeOK, OneExecutor, Row, Execution, Final
  <1>7. UniqueTokens'
    BY DEF SaveOpen, OwnsClaim, LockInv, TypeOK, UniqueTokens, Row, NoRow, NewRow,
         ReadyRow, ClaimedRow, NewClaim, Claim
  <1>8. ClosedIsFinal'
    BY DEF SaveOpen, OwnsClaim, LockInv, TypeOK, ClosedIsFinal, Row, Claim, Final
  <1>9. WriterBound'
    BY DEF SaveOpen, OwnsClaim, LockInv, TypeOK, RowShape, UniqueTokens, WriterBound,
         Row, NoRow, NewRow, ReadyRow, ClaimedRow, NewClaim, Claim
  <1>10. QED
    BY <1>1, <1>2, <1>3, <1>4, <1>5, <1>6, <1>7, <1>8, <1>9 DEF LockInv

\* The settling save keeps the reservation of the plan it settles.
LEMMA CloseStep ==
  ASSUME LockInv, NEW r \in reconciling, NEW o \in Final, Close(r, o)
  PROVE  LockInv'
  <1>1. TypeOK'
    BY RowTypes DEF Close, OwnsClaim, LockInv, TypeOK, Row, LockStates, Execution,
         Claim, PlanStates, Final
  <1>2. RowShape'
    BY DEF Close, OwnsClaim, LockInv, TypeOK, RowShape, Row, Reserved, NoRow, NewRow,
         ReadyRow, ClaimedRow, NewClaim, Final
  <1>3. OneReservation'
    BY DEF Close, OwnsClaim, LockInv, TypeOK, RowShape, OneReservation, Row, Reserved,
         NoRow, NewRow, ReadyRow, ClaimedRow, NewClaim, Final
  <1>4. PlanOfRow'
    BY DEF Close, OwnsClaim, LockInv, TypeOK, RowShape, PlanOfRow, Row, Reserved,
         NoRow, NewRow, ReadyRow, ClaimedRow, NewClaim, Final
  <1>5. ExecutingIsReserved'
    BY DEF Close, OwnsClaim, LockInv, TypeOK, RowShape, ExecutingIsReserved,
         ClosedIsFinal, Row, Reserved, NoRow, NewRow, ReadyRow, ClaimedRow, NewClaim,
         Final
  <1>6. OneExecutor'
    BY DEF Close, OwnsClaim, LockInv, TypeOK, OneExecutor, Row, Execution, Final
  <1>7. UniqueTokens'
    <2>1. reconciling' = (reconciling \ {r}) \cup {[r EXCEPT !.closed = TRUE]}
      BY DEF Close
    <2>2. [r EXCEPT !.closed = TRUE].token = r.token
      BY DEF LockInv, TypeOK, Claim
    <2>3. row' = row /\ issued' = issued
      BY DEF Close
    <2>4. QED
      BY <2>1, <2>2, <2>3 DEF LockInv, TypeOK, UniqueTokens
  <1>8. ClosedIsFinal'
    BY DEF Close, OwnsClaim, LockInv, TypeOK, ClosedIsFinal, Row, Claim, Final
  <1>9. WriterBound'
    BY DEF Close, OwnsClaim, LockInv, TypeOK, RowShape, UniqueTokens, WriterBound, Row,
         NoRow, NewRow, ReadyRow, ClaimedRow, NewClaim, Claim
  <1>10. QED
    BY <1>1, <1>2, <1>3, <1>4, <1>5, <1>6, <1>7, <1>8, <1>9 DEF LockInv

\* Only the rows of a settled plan are deleted, by its own version.
LEMMA ReleaseReservationStep ==
  ASSUME LockInv, NEW r \in reconciling, ReleaseReservation(r)
  PROVE  LockInv'
  <1>1. TypeOK'
    BY RowTypes DEF ReleaseReservation, RowAfterRelease, PilotAfterRelease, LockInv,
         TypeOK, Row, LockStates, Execution, Claim, PlanStates, Final
  <1>2. RowShape'
    BY DEF ReleaseReservation, RowAfterRelease, PilotAfterRelease, LockInv, TypeOK,
         RowShape, Row, Reserved, NoRow, NewRow, ReadyRow, ClaimedRow, NewClaim, Final
  <1>3. OneReservation'
    BY DEF ReleaseReservation, RowAfterRelease, PilotAfterRelease, LockInv, TypeOK,
         RowShape, OneReservation, Row, Reserved, NoRow, NewRow, ReadyRow, ClaimedRow,
         NewClaim, Final
  <1>4. PlanOfRow'
    BY DEF ReleaseReservation, RowAfterRelease, PilotAfterRelease, LockInv, TypeOK,
         RowShape, PlanOfRow, Row, Reserved, NoRow, NewRow, ReadyRow, ClaimedRow,
         NewClaim, Final
  <1>5. ExecutingIsReserved'
    BY DEF ReleaseReservation, RowAfterRelease, PilotAfterRelease, LockInv, TypeOK,
         RowShape, ExecutingIsReserved, ClosedIsFinal, Row, Reserved, NoRow, NewRow,
         ReadyRow, ClaimedRow, NewClaim, Final
  <1>6. OneExecutor'
    BY DEF ReleaseReservation, RowAfterRelease, PilotAfterRelease, LockInv, TypeOK,
         OneExecutor, Row, Execution, Final
  <1>7. UniqueTokens'
    BY DEF ReleaseReservation, RowAfterRelease, PilotAfterRelease, LockInv, TypeOK,
         UniqueTokens, Row, NoRow, NewRow, ReadyRow, ClaimedRow, NewClaim, Claim
  <1>8. ClosedIsFinal'
    BY DEF ReleaseReservation, RowAfterRelease, PilotAfterRelease, LockInv, TypeOK,
         ClosedIsFinal, Row, Claim, Final
  <1>9. WriterBound'
    BY DEF ReleaseReservation, RowAfterRelease, PilotAfterRelease, LockInv, TypeOK,
         RowShape, UniqueTokens, WriterBound, Row, NoRow, NewRow, ReadyRow, ClaimedRow,
         NewClaim, Claim
  <1>10. QED
    BY <1>1, <1>2, <1>3, <1>4, <1>5, <1>6, <1>7, <1>8, <1>9 DEF LockInv

\* A claim is given back only by the holder of its token.
LEMMA ReleaseClaimStep ==
  ASSUME LockInv, NEW r \in reconciling, ReleaseClaim(r)
  PROVE  LockInv'
  <1>1. TypeOK'
    <2>1. row' \in [Cases -> Row]
      <3>1. CASE OwnsClaim(r)
        BY <3>1, RowTypes DEF ReleaseClaim, LockInv, TypeOK, Claim
      <3>2. CASE ~OwnsClaim(r)
        BY <3>2 DEF ReleaseClaim, LockInv, TypeOK
      <3>3. QED
        BY <3>1, <3>2
    <2>2. QED
      BY <2>1 DEF ReleaseClaim, LockInv, TypeOK
  <1>2. RowShape'
    BY DEF ReleaseClaim, OwnsClaim, LockInv, TypeOK, RowShape, Row, Reserved, NoRow,
         NewRow, ReadyRow, ClaimedRow, NewClaim, Final
  <1>3. OneReservation'
    BY DEF ReleaseClaim, OwnsClaim, LockInv, TypeOK, RowShape, OneReservation, Row,
         Reserved, NoRow, NewRow, ReadyRow, ClaimedRow, NewClaim, Final
  <1>4. PlanOfRow'
    BY DEF ReleaseClaim, OwnsClaim, LockInv, TypeOK, RowShape, PlanOfRow, Row,
         Reserved, NoRow, NewRow, ReadyRow, ClaimedRow, NewClaim, Final
  <1>5. ExecutingIsReserved'
    BY DEF ReleaseClaim, OwnsClaim, LockInv, TypeOK, RowShape, ExecutingIsReserved,
         ClosedIsFinal, Row, Reserved, NoRow, NewRow, ReadyRow, ClaimedRow, NewClaim,
         Final
  <1>6. OneExecutor'
    BY DEF ReleaseClaim, OwnsClaim, LockInv, TypeOK, OneExecutor, Row, Execution, Final
  <1>7. UniqueTokens'
    BY DEF ReleaseClaim, OwnsClaim, LockInv, TypeOK, UniqueTokens, Row, NoRow, NewRow,
         ReadyRow, ClaimedRow, NewClaim, Claim
  <1>8. ClosedIsFinal'
    BY DEF ReleaseClaim, OwnsClaim, LockInv, TypeOK, ClosedIsFinal, Row, Claim, Final
  <1>9. WriterBound'
    BY DEF ReleaseClaim, OwnsClaim, LockInv, TypeOK, RowShape, UniqueTokens,
         WriterBound, Row, NoRow, NewRow, ReadyRow, ClaimedRow, NewClaim, Claim
  <1>10. QED
    BY <1>1, <1>2, <1>3, <1>4, <1>5, <1>6, <1>7, <1>8, <1>9 DEF LockInv

\* The passing of time changes no holder.
LEMMA LeaseExpiresStep ==
  ASSUME LockInv, NEW c \in Cases, LeaseExpires(c)
  PROVE  LockInv'
  <1>1. TypeOK'
    BY RowTypes DEF LeaseExpires, LockInv, TypeOK, Row, LockStates, Execution, Claim,
         PlanStates, Final
  <1>2. RowShape'
    BY DEF LeaseExpires, LockInv, TypeOK, RowShape, Row, Reserved, NoRow, NewRow,
         ReadyRow, ClaimedRow, NewClaim, Final
  <1>3. OneReservation'
    BY DEF LeaseExpires, LockInv, TypeOK, RowShape, OneReservation, Row, Reserved,
         NoRow, NewRow, ReadyRow, ClaimedRow, NewClaim, Final
  <1>4. PlanOfRow'
    BY DEF LeaseExpires, LockInv, TypeOK, RowShape, PlanOfRow, Row, Reserved, NoRow,
         NewRow, ReadyRow, ClaimedRow, NewClaim, Final
  <1>5. ExecutingIsReserved'
    BY DEF LeaseExpires, LockInv, TypeOK, RowShape, ExecutingIsReserved, ClosedIsFinal,
         Row, Reserved, NoRow, NewRow, ReadyRow, ClaimedRow, NewClaim, Final
  <1>6. OneExecutor'
    BY DEF LeaseExpires, LockInv, TypeOK, OneExecutor, Row, Execution, Final
  <1>7. UniqueTokens'
    BY DEF LeaseExpires, LockInv, TypeOK, UniqueTokens, Row, NoRow, NewRow, ReadyRow,
         ClaimedRow, NewClaim, Claim
  <1>8. ClosedIsFinal'
    BY DEF LeaseExpires, LockInv, TypeOK, ClosedIsFinal, Row, Claim, Final
  <1>9. WriterBound'
    BY DEF LeaseExpires, LockInv, TypeOK, RowShape, UniqueTokens, WriterBound, Row,
         NoRow, NewRow, ReadyRow, ClaimedRow, NewClaim, Claim
  <1>10. QED
    BY <1>1, <1>2, <1>3, <1>4, <1>5, <1>6, <1>7, <1>8, <1>9 DEF LockInv

\* Recovery at startup deletes only the rows of settled plans.
LEMMA RestartStep ==
  ASSUME LockInv, NEW w \in Workers, Restart(w)
  PROVE  LockInv'
  <1>1. TypeOK'
    BY RowTypes DEF Restart, Recoverable, LockInv, TypeOK, Row, LockStates, Execution,
         Claim, PlanStates, Final
  <1>2. RowShape'
    BY DEF Restart, Recoverable, LockInv, TypeOK, RowShape, Row, Reserved, NoRow,
         NewRow, ReadyRow, ClaimedRow, NewClaim, Final
  <1>3. OneReservation'
    BY DEF Restart, Recoverable, LockInv, TypeOK, RowShape, OneReservation, Row,
         Reserved, NoRow, NewRow, ReadyRow, ClaimedRow, NewClaim, Final
  <1>4. PlanOfRow'
    BY DEF Restart, Recoverable, LockInv, TypeOK, RowShape, PlanOfRow, Row, Reserved,
         NoRow, NewRow, ReadyRow, ClaimedRow, NewClaim, Final
  <1>5. ExecutingIsReserved'
    BY DEF Restart, Recoverable, LockInv, TypeOK, RowShape, ExecutingIsReserved,
         ClosedIsFinal, Row, Reserved, NoRow, NewRow, ReadyRow, ClaimedRow, NewClaim,
         Final
  <1>6. OneExecutor'
    BY DEF Restart, Recoverable, LockInv, TypeOK, OneExecutor, Row, Execution, Final
  <1>7. UniqueTokens'
    BY DEF Restart, Recoverable, LockInv, TypeOK, UniqueTokens, Row, NoRow, NewRow,
         ReadyRow, ClaimedRow, NewClaim, Claim
  <1>8. ClosedIsFinal'
    BY DEF Restart, Recoverable, LockInv, TypeOK, ClosedIsFinal, Row, Claim, Final
  <1>9. WriterBound'
    BY DEF Restart, Recoverable, LockInv, TypeOK, RowShape, UniqueTokens, WriterBound,
         Row, NoRow, NewRow, ReadyRow, ClaimedRow, NewClaim, Claim
  <1>10. QED
    BY <1>1, <1>2, <1>3, <1>4, <1>5, <1>6, <1>7, <1>8, <1>9 DEF LockInv

----------------------------------------------------------------------------
(* The theorems.                                                           *)

\* LockInv is inductive.
LEMMA NextLockInv == LockInv /\ [Next]_vars => LockInv'
  <1> SUFFICES ASSUME LockInv, [Next]_vars PROVE LockInv'
    OBVIOUS
  <1>1. ASSUME NEW w \in Workers, NEW c \in Cases, NEW v \in Versions,
               Reserve(w, c, v) \/ ClaimReady(w, c, v) \/ ClaimStale(w, c, v)
        PROVE  LockInv'
    BY <1>1, ReserveStep, ClaimReadyStep, ClaimStaleStep
  <1>2. CASE ExecutorStep
    BY <1>2, HeartbeatExecutionStep, SaveByExecutorStep, FinishExecutionStep DEF ExecutorStep
  <1>3. CASE ReconcilerStep
    BY <1>3, HeartbeatClaimStep, SaveOpenStep, CloseStep, ReleaseReservationStep,
       ReleaseClaimStep DEF ReconcilerStep
  <1>4. ASSUME NEW c \in Cases, LeaseExpires(c) PROVE LockInv'
    BY <1>4, LeaseExpiresStep
  <1>5. ASSUME NEW w \in Workers, Restart(w) PROVE LockInv'
    BY <1>5, RestartStep
  <1>6. CASE UNCHANGED vars
    BY <1>6 DEF vars, LockInv, TypeOK, RowShape, OneReservation, PlanOfRow, Reserved,
       ExecutingIsReserved, OneExecutor, UniqueTokens, ClosedIsFinal, WriterBound
  <1>7. QED
    BY <1>1, <1>2, <1>3, <1>4, <1>5, <1>6 DEF Next

\* LockInv holds in every reachable state.
THEOREM LockInvariant == Spec => []LockInv
  <1>1. QED
    BY InitLockInv, NextLockInv, PTL DEF Spec

\* The tables and calls stay well typed, for any number of claims.
THEOREM TypeCorrect == Spec => []TypeOK
  <1>1. LockInv => TypeOK
    BY DEF LockInv
  <1>2. QED
    BY <1>1, LockInvariant, PTL

\* At most one case is reserved in the system, and both tables say so.
THEOREM ReservationIsUnique == Spec => []OneReservation
  <1>1. LockInv => OneReservation
    BY DEF LockInv
  <1>2. QED
    BY <1>1, LockInvariant, PTL

\* No crash, takeover or late finisher frees the reservation of a plan that
\* is still EXECUTING.
THEOREM ExecutingStaysReserved == Spec => []ExecutingIsReserved
  <1>1. LockInv => ExecutingIsReserved
    BY DEF LockInv
  <1>2. QED
    BY <1>1, LockInvariant, PTL

\* At most one call is accepted as the writer of a case.
THEOREM WriterIsUnique == Spec => []SingleWriter
  <1>1. LockInv => SingleWriter
    <2> SUFFICES ASSUME LockInv PROVE SingleWriter
      OBVIOUS
    <2>1. \A e, f \in executing : e.c = f.c /\ OwnsActive(e) /\ OwnsActive(f) => e = f
      BY DEF LockInv, OneExecutor, OwnsActive
    <2>2. \A r, s \in reconciling : r.c = s.c /\ OwnsClaim(r) /\ OwnsClaim(s) => r = s
      BY DEF LockInv, UniqueTokens, OwnsClaim
    <2>3. \A e \in executing, r \in reconciling : ~(e.c = r.c /\ OwnsActive(e) /\ OwnsClaim(r))
      BY DEF OwnsActive, OwnsClaim
    <2>4. QED
      BY <2>1, <2>2, <2>3 DEF SingleWriter
  <1>2. QED
    BY <1>1, LockInvariant, PTL

\* A guarded write never comes from a holder older than the last one.
THEOREM WritesAreFenced == Spec => FencedWrites
  <1> DEFINE Fenced == \A c \in Cases : lastWriter'[c] < lastWriter[c] => ~Reserved(c)
  <1>1. ASSUME LockInv, [Next]_vars PROVE Fenced \/ UNCHANGED vars
    <2>1. ASSUME NEW w \in Workers, NEW c \in Cases, NEW v \in Versions, Reserve(w, c, v)
          PROVE  Fenced
      BY <1>1, <2>1 DEF Reserve, LockInv, TypeOK
    <2>2. ASSUME NEW e \in executing, SaveByExecutor(e) PROVE Fenced
      BY <1>1, <2>2 DEF SaveByExecutor, OwnsActive, LockInv, TypeOK, WriterBound
    <2>3. ASSUME NEW r \in reconciling, SaveOpen(r) PROVE Fenced
      BY <1>1, <2>3 DEF SaveOpen, OwnsClaim, LockInv, TypeOK, WriterBound, Claim
    <2>4. ASSUME NEW r \in reconciling, NEW o \in Final, Close(r, o) PROVE Fenced
      BY <1>1, <2>4 DEF Close, OwnsClaim, LockInv, TypeOK, WriterBound, Claim
    <2>5. CASE UNCHANGED lastWriter
      BY <1>1, <2>5 DEF LockInv, TypeOK
    <2>6. QED
      BY <1>1, <2>1, <2>2, <2>3, <2>4, <2>5
         DEF Next, ExecutorStep, ReconcilerStep, HeartbeatExecution, FinishExecution,
             ClaimReady, ClaimStale, Grant, HeartbeatClaim, ReleaseReservation,
             ReleaseClaim, LeaseExpires, Restart
  <1>2. QED
    BY <1>1, LockInvariant, PTL DEF Spec, FencedWrites

=============================================================================
