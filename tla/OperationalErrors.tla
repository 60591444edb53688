--------------------------- MODULE OperationalErrors ---------------------------
(***************************************************************************)
(* OperationalErrorMonitor over the operational_errors table: every        *)
(* provider operation runs inside capture, which records its failure or,   *)
(* on success, resolves the open errors of the operation.  Captures of one *)
(* operation overlap; the table survives restarts.                         *)
(***************************************************************************)
EXTENDS Naturals

CONSTANTS
  Operations, Kinds,  \* operations; kinds of error (a fingerprint is a pair)
  Critical,           \* the kinds of critical severity
  Calls,              \* captures that may overlap
  MaxCrashes          \* bound: restarts of the server

ASSUME ErrorAssumption == Critical \subseteq Kinds /\ MaxCrashes \in Nat

VARIABLES
  rows,    \* operational_errors: state of each fingerprint
  call,    \* the captures under way, and the failures they began after
  failed,  \* history: the failures of each operation since its last success
  crashes

vars == <<rows, call, failed, crashes>>

None == "NONE"
Fingerprints == Operations \X Kinds
Idle == [op |-> None, seen |-> {}]

Init ==
  /\ rows = [f \in Fingerprints |-> None]
  /\ call = [c \in Calls |-> Idle]
  /\ failed = [o \in Operations |-> {}]
  /\ crashes = 0

Begin(c, o) ==
  /\ call[c] = Idle
  /\ call' = [call EXCEPT ![c] = [op |-> o, seen |-> {k \in Kinds : rows[o, k] = "open"}]]
  /\ UNCHANGED <<rows, failed, crashes>>

\* Mutant: an error that was resolved once is only counted.
Reopened_OnlyNew(state) == IF state = None THEN "open" ELSE state
\* recordOperationalError: the row of a fingerprint is opened again.
Reopened(state) == "open"

Fails(c, k) ==
  LET o == call[c].op IN
  /\ call[c] # Idle
  /\ rows' = [rows EXCEPT ![<<o, k>>] = Reopened(@)]
  /\ failed' = [failed EXCEPT ![o] = @ \cup {k}]
  /\ call' = [call EXCEPT ![c] = Idle]
  /\ UNCHANGED crashes

\* resolveOperationalErrors.
ResolvedBy(o) == {f \in Fingerprints : f[1] = o /\ rows[f] = "open"}

Succeeds(c) ==
  LET o == call[c].op IN
  /\ call[c] # Idle
  /\ rows' = [f \in Fingerprints |-> IF f \in ResolvedBy(o) THEN "resolved" ELSE rows[f]]
  /\ failed' = [failed EXCEPT ![o] = {}]
  /\ call' = [call EXCEPT ![c] = Idle]
  /\ UNCHANGED crashes

\* What was under way leaves no trace.
Crash ==
  /\ crashes < MaxCrashes /\ crashes' = crashes + 1
  /\ call' = [c \in Calls |-> Idle]
  /\ UNCHANGED <<rows, failed>>

Next ==
  \/ \E c \in Calls :
       \/ \E o \in Operations : Begin(c, o)
       \/ \E k \in Kinds : Fails(c, k)
       \/ Succeeds(c)
  \/ Crash

Spec == Init /\ [][Next]_vars

\* operationalErrorReport.
Open(K) == \E f \in Fingerprints : f[2] \in K /\ rows[f] = "open"
Health == IF Open(Critical) THEN "blocked" ELSE IF Open(Kinds) THEN "degraded" ELSE "clear"

----------------------------------------------------------------------------
(* Properties.                                                             *)

\* Rows, captures and histories are well formed.
TypeOK ==
  /\ rows \in [Fingerprints -> {None, "open", "resolved"}]
  /\ call \in [Calls -> [op: Operations \cup {None}, seen: SUBSET Kinds]]
  /\ failed \in [Operations -> SUBSET Kinds]

\* The report says blocked, degraded or clear by what failed and did not
\* succeed since, through overlapping captures, repeated errors and restarts.
HealthFollowsOutcomes ==
  LET pending == UNION {failed[o] : o \in Operations}
  IN Health = IF pending \cap Critical # {} THEN "blocked"
              ELSE IF pending # {} THEN "degraded" ELSE "clear"

----------------------------------------------------------------------------
(* Promises of the documents and comments that the code does not keep.     *)

\* "Do not submit a transfer until ... a subsequent successful check resolves
\* it" (docs/ERROR_MONITORING_AND_OUTAGE_ROADMAP.md): what resolves an error
\* began after the error was open.
ResolvedBySubsequentCheck ==
  [][\A o \in Operations, k \in Kinds :
       rows[o, k] = "open" /\ rows'[o, k] = "resolved" =>
         \E c \in Calls : call[c].op = o /\ call'[c] = Idle /\ k \in call[c].seen]_vars

=============================================================================
