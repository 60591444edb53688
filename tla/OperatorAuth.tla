---------------------------- MODULE OperatorAuth ----------------------------
(***************************************************************************)
(* OperatorAuth: sign-in, sessions, the second factor and the confirmation *)
(* of an action that moves money.  Every operation is synchronous, so each *)
(* is one step.  Sessions and failure counts live in the process; the      *)
(* factors that were used are rows of the transfer store and survive it.   *)
(* Time is counted in steps of the one-time codes.                         *)
(***************************************************************************)
EXTENDS Integers, Sequences, FiniteSetsExt

CONSTANTS
  Admin, Viewer,    \* the two accounts of the credential file
  Totp,             \* the accounts with a one-time-code secret
  RecoveryCodes,
  LoginWindow, MaximumLoginFailures, IdleTimeout, AbsoluteTimeout,
  MaxClock, MaxSessions, MaxAttempts, MaxCrashes  \* bounds of the model

Users == {Admin, Viewer}

ASSUME AuthAssumption ==
  /\ Admin # Viewer /\ Totp \subseteq Users
  /\ {LoginWindow, MaximumLoginFailures, IdleTimeout, AbsoluteTimeout} \subseteq Nat \ {0}
  /\ {MaxClock, MaxSessions, MaxAttempts, MaxCrashes} \subseteq Nat

VARIABLES
  clock,
  sessions,  \* every session opened, in order; a closed one is out of the map
  failures,  \* key -> the failures that still count, numbered within their moment
  spent,     \* operator_totp_steps and operator_recovery_codes_used
  grants,    \* history: how often each factor was accepted
  denials,   \* history: all failures since the last success or restart
  attempts,  \* failures and factors accepted, for the bound
  ended,     \* history: sessions signed out, refused or lost in a restart
  crashes

vars == <<clock, sessions, failures, spent, grants, denials, attempts, ended, crashes>>

Keys == ({"login"} \X Users) \cup {<<"reauth", Admin>>}
Steps == -1..(MaxClock + 1)
Factors == Totp \X ({"step"} \X Steps \cup {"recovery"} \X RecoveryCodes)
Failures == (0..MaxAttempts) \X (0..MaxClock)
Session == [user: Users, created: 0..MaxClock, seen: 0..MaxClock, open: BOOLEAN]

Init ==
  /\ clock = 0 /\ sessions = <<>> /\ spent = {} /\ grants = [f \in Factors |-> 0]
  /\ failures = [k \in Keys |-> {}] /\ denials = [k \in Keys |-> {}]
  /\ ended = {} /\ attempts = 0 /\ crashes = 0

----------------------------------------------------------------------------
(* Failed attempts.                                                        *)

\* The list of times is a set of numbered times.
Recent(k) == {f \in failures[k] : clock - f[2] < LoginWindow}

\* Mutant: the failures kept are those of the present moment.
Limited_Now(k) == Cardinality({f \in failures[k] : f[2] = clock}) >= MaximumLoginFailures
Limited(k) == Cardinality(Recent(k)) >= MaximumLoginFailures

Attempt == attempts < MaxAttempts /\ attempts' = attempts + 1

Failure(k) == <<Cardinality({f \in failures[k] : f[2] = clock}), clock>>

Deny(k) ==
  /\ Attempt
  /\ failures' = [failures EXCEPT ![k] = Recent(k) \cup {Failure(k)}]
  /\ denials' = [denials EXCEPT ![k] = @ \cup {Failure(k)}]

Clear(k) ==
  /\ failures' = [failures EXCEPT ![k] = {}]
  /\ denials' = [denials EXCEPT ![k] = {}]

----------------------------------------------------------------------------
(* verifyMfa.                                                              *)

\* A code of the present step or of a neighbour; or a recovery code.
Matching(u) ==
  {f \in Factors : f[1] = u /\ (f[2][1] = "step" => f[2][2] \in (clock - 1)..(clock + 1))}

\* Mutant: the row of a code is not looked at.
Unused_Any(f) == TRUE
Unused(f) == f \notin spent

\* The factor f of u is accepted: INSERT OR IGNORE made a row for it.
VerifyMfa(u, f) ==
  /\ f \in Matching(u) /\ Unused(f) /\ Attempt
  /\ spent' = spent \cup {f} /\ grants' = [grants EXCEPT ![f] = @ + 1]

NoFactor == UNCHANGED <<spent, grants, attempts>>

\* An account without a secret has no second factor.
SecondFactor(u) == IF u \in Totp THEN \E f \in Factors : VerifyMfa(u, f) ELSE NoFactor

----------------------------------------------------------------------------
(* authenticate.                                                           *)

Expired(i) ==
  \/ clock - sessions[i].seen > IdleTimeout
  \/ clock - sessions[i].created > AbsoluteTimeout

Accepted(i) == sessions[i].open /\ ~Expired(i)
Touched(i) == [sessions EXCEPT ![i].seen = clock]

\* Mutant: the session is marked as seen before its age is looked at.
Dropped_Touched(i) == Touched(i)
Dropped(i) == [sessions EXCEPT ![i].open = FALSE]

----------------------------------------------------------------------------
(* The operations.                                                         *)

Login(u) ==
  /\ ~Limited(<<"login", u>>) /\ Len(sessions) < MaxSessions
  /\ SecondFactor(u) /\ Clear(<<"login", u>>)
  /\ sessions' = Append(sessions, [user |-> u, created |-> clock, seen |-> clock, open |-> TRUE])
  /\ UNCHANGED <<clock, ended, crashes>>

\* The password is wrong, or the second factor is.
LoginDenied(u) ==
  /\ ~Limited(<<"login", u>>) /\ Deny(<<"login", u>>)
  /\ UNCHANGED <<clock, sessions, spent, grants, ended, crashes>>

\* A request the session is accepted for; the role, the token of the form and
\* the origin may still be refused, with no other effect.
Served(i) ==
  /\ Accepted(i) /\ sessions' = Touched(i)
  /\ UNCHANGED <<clock, failures, spent, grants, denials, ended, crashes, attempts>>

Refused(i) ==
  /\ ~Accepted(i) /\ sessions' = Dropped(i) /\ ended' = ended \cup {i}
  /\ UNCHANGED <<clock, failures, spent, grants, denials, crashes, attempts>>

Logout(i) ==
  /\ Accepted(i)
  /\ sessions' = [Touched(i) EXCEPT ![i].open = FALSE] /\ ended' = ended \cup {i}
  /\ UNCHANGED <<clock, failures, spent, grants, denials, crashes, attempts>>

\* The authorization or the execution of a plan, or the submission of a
\* transfer: the administrator's password, and a factor of its own.
Confirm(i) ==
  /\ Accepted(i) /\ sessions[i].user = Admin /\ ~Limited(<<"reauth", Admin>>)
  /\ sessions' = Touched(i)
  /\ Clear(<<"reauth", Admin>>) /\ SecondFactor(Admin)
  /\ UNCHANGED <<clock, ended, crashes>>

\* The password is right and the factor is not: the count is cleared as well.
FactorDenied(i) ==
  /\ Accepted(i) /\ sessions[i].user = Admin /\ ~Limited(<<"reauth", Admin>>)
  /\ Admin \in Totp /\ sessions' = Touched(i) /\ Clear(<<"reauth", Admin>>)
  /\ UNCHANGED <<clock, spent, grants, ended, crashes, attempts>>

PasswordDenied(i) ==
  /\ Accepted(i) /\ sessions[i].user = Admin /\ ~Limited(<<"reauth", Admin>>)
  /\ sessions' = Touched(i) /\ Deny(<<"reauth", Admin>>)
  /\ UNCHANGED <<clock, spent, grants, ended, crashes>>

Tick ==
  /\ clock < MaxClock /\ clock' = clock + 1
  /\ UNCHANGED <<sessions, failures, spent, grants, denials, ended, crashes, attempts>>

\* The process restarts: both maps are empty.
Restart ==
  /\ crashes < MaxCrashes /\ crashes' = crashes + 1
  /\ sessions' = [i \in DOMAIN sessions |-> [sessions[i] EXCEPT !.open = FALSE]]
  /\ ended' = DOMAIN sessions
  /\ failures' = [k \in Keys |-> {}] /\ denials' = [k \in Keys |-> {}]
  /\ UNCHANGED <<clock, spent, grants, attempts>>

Next ==
  \/ \E u \in Users : Login(u) \/ LoginDenied(u)
  \/ \E i \in DOMAIN sessions :
       \/ Served(i) \/ Refused(i) \/ Logout(i)
       \/ Confirm(i) \/ FactorDenied(i) \/ PasswordDenied(i)
  \/ Tick \/ Restart

Spec == Init /\ [][Next]_vars

----------------------------------------------------------------------------
(* Properties.                                                             *)

\* Sessions carry times up to now, a failure list only keys it knows, and
\* every factor accepted or recorded belongs to an account with a secret.
TypeOK ==
  /\ clock \in 0..MaxClock /\ crashes \in 0..MaxCrashes
  /\ sessions \in Seq(Session) /\ ended \in SUBSET (DOMAIN sessions)
  /\ failures \in [Keys -> SUBSET Failures] /\ denials \in [Keys -> SUBSET Failures]
  /\ spent \in SUBSET Factors /\ grants \in [Factors -> Nat]

\* A one-time code or recovery code opens one session or confirms one action:
\* never a second one, in this process or after a restart (verifyMfa and the
\* tables behind recordTotpStep and consumeRecoveryCode).
FactorsAreUsedOnce ==
  \A f \in Factors : grants[f] <= 1

\* Between two successes no key has more than five failures in any fifteen
\* minutes, however the attempts are spread (login, verifyAdminPassword).
DenialsAreBounded ==
  \A k \in Keys : \A t \in 0..MaxClock :
    Cardinality({d \in denials[k] : d[2] <= t /\ t - d[2] < LoginWindow}) <= MaximumLoginFailures

\* A session that was signed out, refused once, or lost in a restart is never
\* served again (authenticate, logout).
EndedSessionsStayEnded ==
  [][\A i \in ended : sessions'[i].seen = sessions[i].seen]_vars

=============================================================================
