--------------------------- MODULE ProviderClient ---------------------------
(***************************************************************************)
(* RevolutSandboxClient: concurrent calls that share one cached access     *)
(* token and one refresh in flight, retry a read twice after a transient   *)
(* failure and once after a 401, and send a money-moving POST once.  A     *)
(* refresh makes the provider forget the token before it.                  *)
(***************************************************************************)
EXTENDS Naturals, FiniteSets

CONSTANTS
  Reads,         \* calls that may be retried
  Posts,         \* calls made with retry: false
  MaxTokens,     \* bound: tokens issued
  MaxFaults,     \* bound: lost, throttled or failed exchanges
  MaxExpiries,   \* bound: cached tokens that come within REFRESH_MARGIN_MS
  MaxRevocations \* bound: tokens replaced from outside the service

ASSUME ClientAssumption ==
  /\ Reads \cap Posts = {}
  /\ {MaxTokens, MaxFaults, MaxExpiries, MaxRevocations} \subseteq Nat

VARIABLES
  cached,    \* cachedToken while it is usable, else 0
  refresh,   \* tokenRefreshInFlight
  valid,     \* the token the provider accepts
  calls,     \* the callers of request
  issued, faults, expiries, revocations

bounds == <<expiries, revocations>>
clientVars == <<cached, refresh, valid, calls, issued, faults, expiries, revocations>>

Callers == Reads \cup Posts
MAX_TRANSIENT_RETRIES == 2

NoRefresh == [st |-> "NONE", tok |-> 0]
NewCall == [pc |-> "IDLE", tok |-> 0, answer |-> "NONE", authRetried |-> FALSE,
            transient |-> 0, sends |-> 0]

ClientInit ==
  /\ cached = 0 /\ valid = 0 /\ refresh = NoRefresh
  /\ calls = [c \in Callers |-> NewCall]
  /\ issued = 0 /\ faults = 0 /\ expiries = 0 /\ revocations = 0

Set(c, rec) == calls' = [calls EXCEPT ![c] = rec]
Ended(c, pc) == [NewCall EXCEPT !.pc = pc, !.sends = calls[c].sends]
Fault == faults < MaxFaults /\ faults' = faults + 1

----------------------------------------------------------------------------
(* getAccessToken and refreshAccessToken.                                  *)

\* Start a refresh, or wait for the one in flight.
Joined == IF refresh = NoRefresh THEN [st |-> "ASKED", tok |-> 0] ELSE refresh

\* Each caller makes one call.
BeginRequest(c) ==
  /\ calls[c].pc = "IDLE"
  /\ IF cached # 0
     THEN Set(c, [calls[c] EXCEPT !.pc = "SEND", !.tok = cached]) /\ UNCHANGED refresh
     ELSE Set(c, [calls[c] EXCEPT !.pc = "JOIN"]) /\ refresh' = Joined
  /\ UNCHANGED <<cached, valid, issued, faults, bounds>>

\* The provider answers the refresh (external).
IssueToken ==
  /\ refresh.st = "ASKED" /\ issued < MaxTokens
  /\ issued' = issued + 1 /\ valid' = issued + 1
  /\ refresh' = [st |-> "ANSWERED", tok |-> issued + 1]
  /\ UNCHANGED <<cached, calls, faults, bounds>>

\* Mutant: a caller that comes back after a 401 is not resumed.
Waiting_FirstTime == {c \in Callers : calls[c].pc = "JOIN" /\ ~calls[c].authRetried}
Waiting == {c \in Callers : calls[c].pc = "JOIN"}

\* The promise settles: every caller that awaits it goes on.
RefreshDone ==
  /\ refresh.st = "ANSWERED"
  /\ cached' = refresh.tok
  /\ refresh' = NoRefresh
  /\ calls' = [c \in Callers |->
       IF c \in Waiting THEN [calls[c] EXCEPT !.pc = "SEND", !.tok = refresh.tok] ELSE calls[c]]
  /\ UNCHANGED <<valid, issued, faults, bounds>>

RefreshFails ==
  /\ refresh # NoRefresh /\ Fault
  /\ refresh' = NoRefresh
  /\ calls' = [c \in Callers |->
       IF c \in Waiting THEN Ended(c, "FAILED") ELSE calls[c]]
  /\ UNCHANGED <<cached, valid, issued, bounds>>

----------------------------------------------------------------------------
(* request.                                                                *)

Send(c) ==
  /\ calls[c].pc = "SEND"
  /\ Set(c, [calls[c] EXCEPT !.pc = "SENT", !.sends = @ + 1])
  /\ UNCHANGED <<cached, refresh, valid, issued, faults, bounds>>

\* What comes back (external): LOST is a timeout or a broken connection,
\* BUSY a 429 or 5xx, REFUSED any other error or an unreadable body.
Answered(c) ==
  /\ calls[c].pc = "SENT"
  /\ \/ /\ Set(c, [calls[c] EXCEPT !.pc = "ANSWER",
                     !.answer = IF calls[c].tok = valid THEN "OK" ELSE "401"])
        /\ UNCHANGED faults
     \/ /\ Fault
        /\ \E a \in {"LOST", "BUSY", "REFUSED"} :
             Set(c, [calls[c] EXCEPT !.pc = "ANSWER", !.answer = a])
  /\ UNCHANGED <<cached, refresh, valid, issued, bounds>>

\* Mutant: retry: false is not looked at.
MayRetry_Always(c) == TRUE
MayRetry(c) == c \in Reads

RetriesLeft(c) == calls[c].transient < MAX_TRANSIENT_RETRIES

Finish(c) ==
  /\ calls[c].pc = "ANSWER" /\ calls[c].answer \in {"OK", "REFUSED"}
  /\ Set(c, Ended(c, IF calls[c].answer = "OK" THEN "DONE" ELSE "FAILED"))
  /\ UNCHANGED <<cached, refresh, valid, issued, faults, bounds>>

\* After the first 401 the cached token is dropped, whichever it is by now.
Unauthorized(c) ==
  /\ calls[c].pc = "ANSWER" /\ calls[c].answer = "401"
  /\ IF MayRetry(c) /\ ~calls[c].authRetried
     THEN /\ Set(c, [calls[c] EXCEPT !.pc = "JOIN", !.tok = 0, !.answer = "NONE", !.authRetried = TRUE])
          /\ cached' = 0 /\ refresh' = Joined
     ELSE Set(c, Ended(c, "FAILED")) /\ UNCHANGED <<cached, refresh>>
  /\ UNCHANGED <<valid, issued, faults, bounds>>

\* The delayed retry sends the same token again.
Transient(c) ==
  /\ calls[c].pc = "ANSWER" /\ calls[c].answer \in {"LOST", "BUSY"}
  /\ IF MayRetry(c) /\ RetriesLeft(c)
     THEN Set(c, [calls[c] EXCEPT !.pc = "SEND", !.answer = "NONE", !.transient = @ + 1])
     ELSE Set(c, Ended(c, "FAILED"))
  /\ UNCHANGED <<cached, refresh, valid, issued, faults, bounds>>

----------------------------------------------------------------------------
(* Time and other users of the refresh token (external).                   *)

\* The margin is longer than a call with its retries: no call outlives it.
Expire ==
  /\ cached # 0 /\ expiries < MaxExpiries
  /\ expiries' = expiries + 1
  /\ cached' = 0
  /\ UNCHANGED <<refresh, valid, calls, issued, faults, revocations>>

\* The console's refresh helper replaces the token.
Revoke ==
  /\ valid # 0 /\ revocations < MaxRevocations
  /\ revocations' = revocations + 1
  /\ valid' = 0
  /\ UNCHANGED <<cached, refresh, calls, issued, faults, expiries>>

CallStep(c) == BeginRequest(c) \/ Send(c) \/ Answered(c) \/ Finish(c) \/ Unauthorized(c) \/ Transient(c)
RefreshStep == IssueToken \/ RefreshDone \/ RefreshFails

ClientNext == (\E c \in Callers : CallStep(c)) \/ RefreshStep \/ Expire \/ Revoke

ClientSpec == ClientInit /\ [][ClientNext]_clientVars

\* An exchange ends after API_TIMEOUT_MS at the latest.
FairSpec == ClientSpec /\ WF_clientVars(RefreshStep) /\ \A c \in Callers : WF_clientVars(CallStep(c))

----------------------------------------------------------------------------
(* Properties.                                                             *)

\* Tokens and calls are well formed, and a caller that waits for a token has a
\* refresh to wait for.
ClientTypeOK ==
  /\ (\E c \in Callers : calls[c].pc = "JOIN") => refresh # NoRefresh
  /\ {cached, valid} \subseteq 0..MaxTokens
  /\ refresh \in [st: {"NONE", "ASKED", "ANSWERED"}, tok: 0..MaxTokens]
  /\ calls \in [Callers ->
       [pc: {"IDLE", "JOIN", "SEND", "SENT", "ANSWER", "DONE", "FAILED"}, tok: 0..MaxTokens,
        answer: {"NONE", "OK", "401", "LOST", "BUSY", "REFUSED"}, authRetried: BOOLEAN,
        transient: 0..MAX_TRANSIENT_RETRIES, sends: Nat]]

\* Whatever mix of 401s, throttling and lost answers it meets, a call that
\* moves money is sent once, and a read four times at most.
SendsBounded ==
  /\ \A c \in Posts : calls[c].sends <= 1
  /\ \A c \in Reads : calls[c].sends <= 4

\* Every call that has begun ends.
CallsEnd == \A c \in Callers : calls[c].pc # "IDLE" ~> calls[c].pc \in {"DONE", "FAILED"}

----------------------------------------------------------------------------
(* Promises of the documents and comments that the code does not keep.     *)

\* A read fails only if an exchange failed or someone outside replaced the
\* token: the client's own refreshes never cost a caller its second try.
ReadsSurviveRefreshes ==
  faults = 0 /\ revocations = 0 => \A c \in Reads : calls[c].pc # "FAILED"

=============================================================================
