------------------------- MODULE OperatorAuth_proofs -------------------------
(***************************************************************************)
(* Proofs about OperatorAuth for any number of codes, sessions, attempts   *)
(* and restarts and any limits.                                            *)
(*                                                                         *)
(* FactorsAreUsedOnce rests on FactorInv: the history of grants and the    *)
(* stored rows agree, because the row and the grant are one step and a     *)
(* restart keeps the rows.  EndedSessionsStayEnded rests on SessionInv: an *)
(* ended session is out of the map, and only a login puts one in.          *)
(* DenialsAreBounded rests on DenialInv: a failure that is pruned from its *)
(* list is too old for every window that is still to come.                 *)
(***************************************************************************)
EXTENDS OperatorAuth, FiniteSetTheorems, TLAPS

FactorInv ==
  /\ spent \in SUBSET Factors /\ grants \in [Factors -> Nat]
  /\ \A f \in Factors : grants[f] = IF f \in spent THEN 1 ELSE 0

SessionInv ==
  /\ clock \in 0..MaxClock
  /\ sessions \in Seq(Session) /\ ended \in SUBSET (DOMAIN sessions)
  /\ \A i \in ended : ~sessions[i].open

----------------------------------------------------------------------------
(* Factors.                                                                *)

\* A factor is accepted only with a new row of its own.
LEMMA VerifyMfaStep ==
  ASSUME FactorInv, NEW u \in Users, NEW f \in Factors, VerifyMfa(u, f)
  PROVE  FactorInv'
  <1>1. f \in Factors /\ f \notin spent /\ grants[f] = 0
    BY DEF VerifyMfa, Unused, FactorInv
  <1>2. spent' = spent \cup {f} /\ grants' = [grants EXCEPT ![f] = grants[f] + 1]
    BY DEF VerifyMfa
  <1>3. spent' \in SUBSET Factors /\ grants' \in [Factors -> Nat]
    BY <1>1, <1>2 DEF FactorInv
  <1>4. ASSUME NEW g \in Factors
        PROVE  grants'[g] = IF g \in spent' THEN 1 ELSE 0
    <2>1. CASE g = f
      BY <2>1, <1>1, <1>2 DEF FactorInv
    <2>2. CASE g # f
      BY <2>2, <1>1, <1>2 DEF FactorInv
    <2>3. QED
      BY <2>1, <2>2
  <1>5. QED
    BY <1>3, <1>4 DEF FactorInv

\* A second factor that is accepted was not spent before.
LEMMA SecondFactorStep ==
  ASSUME FactorInv, NEW u \in Users, SecondFactor(u)
  PROVE  FactorInv'
  <1>1. CASE u \in Totp
    BY <1>1, VerifyMfaStep DEF SecondFactor
  <1>2. CASE u \notin Totp
    BY <1>2 DEF SecondFactor, NoFactor, FactorInv
  <1>3. QED
    BY <1>1, <1>2

\* Every step keeps FactorInv.
LEMMA FactorStep ==
  ASSUME FactorInv, [Next]_vars
  PROVE  FactorInv'
  <1>1. CASE \E u \in Users : Login(u)
    BY <1>1, SecondFactorStep DEF Login
  <1>2. CASE \E i \in DOMAIN sessions : Confirm(i)
    BY <1>2, SecondFactorStep DEF Confirm, Users
  <1>3. CASE UNCHANGED <<spent, grants>>
    BY <1>3 DEF FactorInv
  <1>4. (\E u \in Users : LoginDenied(u)) => UNCHANGED <<spent, grants>>
    BY DEF LoginDenied
  <1>5. ASSUME NEW i \in DOMAIN sessions,
               \/ Served(i) \/ Refused(i) \/ Logout(i) \/ FactorDenied(i) \/ PasswordDenied(i)
        PROVE  UNCHANGED <<spent, grants>>
    BY <1>5 DEF Served, Refused, Logout, FactorDenied, PasswordDenied
  <1>6. Tick \/ Restart \/ UNCHANGED vars => UNCHANGED <<spent, grants>>
    BY DEF Tick, Restart, vars
  <1>7. QED
    BY <1>1, <1>2, <1>3, <1>4, <1>5, <1>6 DEF Next

\* No one-time code and no recovery code is ever accepted a second time
\* (verifyMfa, recordTotpStep, consumeRecoveryCode).
THEOREM FactorUsedOnce == Spec => []FactorsAreUsedOnce
  <1>1. Init => FactorInv
    BY DEF Init, FactorInv
  <1>2. FactorInv /\ [Next]_vars => FactorInv'
    BY FactorStep
  <1>3. FactorInv => FactorsAreUsedOnce
    BY DEF FactorInv, FactorsAreUsedOnce
  <1>4. QED
    BY <1>1, <1>2, <1>3, PTL DEF Spec

----------------------------------------------------------------------------
(* Sessions.                                                               *)

\* Changing one field of one session leaves the others and their number alone.
LEMMA SessionUpdate ==
  ASSUME SessionInv, NEW i \in DOMAIN sessions, NEW s \in Session
  PROVE  LET t == [sessions EXCEPT ![i] = s] IN
         /\ t \in Seq(Session) /\ DOMAIN t = DOMAIN sessions /\ t[i] = s
         /\ \A j \in DOMAIN sessions : j # i => t[j] = sessions[j]
  BY DEF SessionInv

\* What a request does to the map: it is served, or its session goes.
LEMMA RequestUpdates ==
  ASSUME SessionInv, NEW i \in DOMAIN sessions
  PROVE  /\ sessions[i] \in Session /\ clock \in 0..MaxClock
         /\ [sessions[i] EXCEPT !.seen = clock] \in Session
         /\ [sessions[i] EXCEPT !.open = FALSE] \in Session
         /\ [[sessions[i] EXCEPT !.seen = clock] EXCEPT !.open = FALSE] \in Session
         /\ Touched(i) = [sessions EXCEPT ![i] = [sessions[i] EXCEPT !.seen = clock]]
         /\ Dropped(i) = [sessions EXCEPT ![i] = [sessions[i] EXCEPT !.open = FALSE]]
  <1>1. sessions[i] \in Session /\ clock \in 0..MaxClock
    BY DEF SessionInv
  <1>2. [sessions[i] EXCEPT !.seen = clock] \in Session
    BY <1>1 DEF Session
  <1>3. [sessions[i] EXCEPT !.open = FALSE] \in Session
    BY <1>1 DEF Session
  <1>4. [[sessions[i] EXCEPT !.seen = clock] EXCEPT !.open = FALSE] \in Session
    BY <1>2 DEF Session
  <1>5. /\ Touched(i) = [sessions EXCEPT ![i] = [sessions[i] EXCEPT !.seen = clock]]
        /\ Dropped(i) = [sessions EXCEPT ![i] = [sessions[i] EXCEPT !.open = FALSE]]
    BY DEF Touched, Dropped
  <1>6. QED
    BY <1>1, <1>2, <1>3, <1>4, <1>5

\* A session that is served was open, and stays so with a new time.
LEMMA TouchStep ==
  ASSUME SessionInv, NEW i \in DOMAIN sessions, Accepted(i), sessions' = Touched(i),
         UNCHANGED <<clock, ended>>
  PROVE  /\ SessionInv'
         /\ \A j \in ended : sessions'[j].seen = sessions[j].seen
  <1>1. i \notin ended
    BY DEF SessionInv, Accepted
  <1>2. PICK s \in Session : sessions' = [sessions EXCEPT ![i] = s]
    BY RequestUpdates
  <1>3. /\ sessions' \in Seq(Session) /\ DOMAIN sessions' = DOMAIN sessions
        /\ \A j \in DOMAIN sessions : j # i => sessions'[j] = sessions[j]
    BY <1>2, SessionUpdate
  <1>4. ended \subseteq DOMAIN sessions
    BY DEF SessionInv
  <1>5. \A j \in ended : sessions'[j] = sessions[j]
    BY <1>1, <1>3, <1>4
  <1>6. QED
    BY <1>3, <1>5 DEF SessionInv

\* A session that is refused or signed out leaves the map.
LEMMA DropStep ==
  ASSUME SessionInv, NEW i \in DOMAIN sessions, NEW s \in Session, ~s.open,
         s.seen = sessions[i].seen \/ sessions[i].open,
         sessions' = [sessions EXCEPT ![i] = s], ended' = ended \cup {i}, clock' = clock
  PROVE  /\ SessionInv'
         /\ \A j \in ended : sessions'[j].seen = sessions[j].seen
  <1>1. /\ sessions' \in Seq(Session) /\ DOMAIN sessions' = DOMAIN sessions
        /\ sessions'[i] = s
        /\ \A j \in DOMAIN sessions : j # i => sessions'[j] = sessions[j]
    BY SessionUpdate
  <1>2. ended \subseteq DOMAIN sessions
    BY DEF SessionInv
  <1>3. \A j \in ended' : ~sessions'[j].open
    BY <1>1, <1>2 DEF SessionInv
  <1>4. \A j \in ended : sessions'[j].seen = sessions[j].seen
    BY <1>1, <1>2 DEF SessionInv
  <1>5. QED
    BY <1>1, <1>2, <1>3, <1>4 DEF SessionInv

\* Every step keeps SessionInv, and a session that ended is not used again.
LEMMA SessionStep ==
  ASSUME SessionInv, [Next]_vars
  PROVE  /\ SessionInv'
         /\ \A j \in ended : sessions'[j].seen = sessions[j].seen
  <1>1. ASSUME UNCHANGED <<clock, sessions, ended>>
        PROVE  /\ SessionInv'
               /\ \A j \in ended : sessions'[j].seen = sessions[j].seen
    BY <1>1 DEF SessionInv
  <1>2. ASSUME NEW u \in Users, Login(u)
        PROVE  /\ SessionInv'
               /\ \A j \in ended : sessions'[j].seen = sessions[j].seen
    <2> DEFINE s == [user |-> u, created |-> clock, seen |-> clock, open |-> TRUE]
    <2>1. s \in Session
      BY DEF SessionInv, Session
    <2>2. sessions' = Append(sessions, s) /\ UNCHANGED <<clock, ended>>
      BY <1>2 DEF Login
    <2> HIDE DEF s
    <2>3. /\ sessions' \in Seq(Session) /\ DOMAIN sessions \subseteq DOMAIN sessions'
          /\ \A j \in DOMAIN sessions : sessions'[j] = sessions[j]
      BY <2>1, <2>2 DEF SessionInv
    <2>4. ended \subseteq DOMAIN sessions
      BY DEF SessionInv
    <2>5. \A j \in ended : sessions'[j] = sessions[j]
      BY <2>3, <2>4
    <2>6. QED
      BY <2>2, <2>3, <2>4, <2>5 DEF SessionInv
  <1>3. ASSUME NEW i \in DOMAIN sessions,
               Served(i) \/ Confirm(i) \/ FactorDenied(i) \/ PasswordDenied(i)
        PROVE  /\ SessionInv'
               /\ \A j \in ended : sessions'[j].seen = sessions[j].seen
    <2>1. Accepted(i) /\ sessions' = Touched(i) /\ UNCHANGED <<clock, ended>>
      BY <1>3 DEF Served, Confirm, FactorDenied, PasswordDenied
    <2>2. QED
      BY <2>1, TouchStep
  <1>4. ASSUME NEW i \in DOMAIN sessions, Refused(i)
        PROVE  /\ SessionInv'
               /\ \A j \in ended : sessions'[j].seen = sessions[j].seen
    <2> DEFINE s == [sessions[i] EXCEPT !.open = FALSE]
    <2>1. s \in Session /\ sessions' = [sessions EXCEPT ![i] = s]
      BY <1>4, RequestUpdates DEF Refused
    <2>2. sessions[i] \in Session
      BY RequestUpdates
    <2>3. ~s.open /\ s.seen = sessions[i].seen
      BY <2>2 DEF Session
    <2>4. ended' = ended \cup {i} /\ clock' = clock
      BY <1>4 DEF Refused
    <2> HIDE DEF s
    <2>5. QED
      BY <2>1, <2>3, <2>4, DropStep
  <1>5. ASSUME NEW i \in DOMAIN sessions, Logout(i)
        PROVE  /\ SessionInv'
               /\ \A j \in ended : sessions'[j].seen = sessions[j].seen
    <2> DEFINE s == [[sessions[i] EXCEPT !.seen = clock] EXCEPT !.open = FALSE]
    <2>1. sessions[i] \in Session /\ s \in Session
      BY RequestUpdates
    <2>2. sessions' = [[sessions EXCEPT ![i] = [sessions[i] EXCEPT !.seen = clock]]
                         EXCEPT ![i].open = FALSE]
      BY <1>5, RequestUpdates DEF Logout
    <2>3. sessions' = [sessions EXCEPT ![i] = s]
      BY <2>2 DEF SessionInv
    <2>4. ~s.open
      BY <2>1 DEF Session
    <2>5. ended' = ended \cup {i} /\ clock' = clock /\ sessions[i].open
      BY <1>5 DEF Logout, Accepted
    <2> HIDE DEF s
    <2>6. QED
      BY <2>1, <2>3, <2>4, <2>5, DropStep
  <1>6. ASSUME Tick
        PROVE  /\ SessionInv'
               /\ \A j \in ended : sessions'[j].seen = sessions[j].seen
    <2>1. clock' \in 0..MaxClock
      BY <1>6, AuthAssumption DEF Tick, SessionInv
    <2>2. QED
      BY <1>6, <2>1 DEF Tick, SessionInv
  <1>7. ASSUME Restart
        PROVE  /\ SessionInv'
               /\ \A j \in ended : sessions'[j].seen = sessions[j].seen
    <2>1. /\ sessions' = [i \in DOMAIN sessions |-> [sessions[i] EXCEPT !.open = FALSE]]
          /\ ended' = DOMAIN sessions /\ clock' = clock
      BY <1>7 DEF Restart
    <2>2. \A i \in DOMAIN sessions : [sessions[i] EXCEPT !.open = FALSE] \in Session
      BY RequestUpdates
    <2>3. DOMAIN sessions = 1..Len(sessions) /\ Len(sessions) \in Nat
      BY DEF SessionInv
    <2>4. sessions' \in Seq(Session) /\ DOMAIN sessions' = DOMAIN sessions
      BY <2>1, <2>2, <2>3
    <2>5. \A i \in DOMAIN sessions :
            ~sessions'[i].open /\ sessions'[i].seen = sessions[i].seen
      <3>1. SUFFICES ASSUME NEW i \in DOMAIN sessions
                     PROVE  ~sessions'[i].open /\ sessions'[i].seen = sessions[i].seen
        OBVIOUS
      <3>2. sessions[i] \in Session /\ sessions'[i] = [sessions[i] EXCEPT !.open = FALSE]
        BY <2>1, RequestUpdates
      <3>3. QED
        BY <3>2 DEF Session
    <2>6. QED
      BY <2>1, <2>4, <2>5 DEF SessionInv
  <1>8. (\E u \in Users : LoginDenied(u)) \/ UNCHANGED vars
           => UNCHANGED <<clock, sessions, ended>>
    BY DEF LoginDenied, vars
  <1>9. QED
    BY <1>1, <1>2, <1>3, <1>4, <1>5, <1>6, <1>7, <1>8 DEF Next

\* A session once signed out, refused or lost in a restart is served by no
\* later request, whatever the order of requests and restarts (authenticate).
THEOREM EndedStaysEnded == Spec => EndedSessionsStayEnded
  <1>1. Init => SessionInv
    BY AuthAssumption DEF Init, SessionInv
  <1>2. SessionInv /\ [Next]_vars => SessionInv'
    BY SessionStep
  <1>3. SessionInv /\ [Next]_vars => [\A i \in ended : sessions'[i].seen = sessions[i].seen]_vars
    BY SessionStep
  <1>4. QED
    BY <1>1, <1>2, <1>3, PTL DEF Spec, EndedSessionsStayEnded

----------------------------------------------------------------------------
(* Failed attempts.                                                        *)

\* A list keeps every failure that can still be in a window with one to come,
\* none is of the future, and no window is over the limit.
Window(fs, t) == {f \in fs : f[2] <= t /\ t - f[2] < LoginWindow}

Bounded(fs) == \A t \in 0..MaxClock : Cardinality(Window(fs, t)) <= MaximumLoginFailures

DenialInv ==
  /\ clock \in 0..MaxClock
  /\ failures \in [Keys -> SUBSET (Nat \X (0..MaxClock))]
  /\ denials \in [Keys -> SUBSET (Nat \X (0..MaxClock))]
  /\ \A k \in Keys :
       /\ IsFiniteSet(denials[k]) /\ failures[k] \subseteq denials[k]
       /\ \A d \in denials[k] : d[2] <= clock /\ (clock - d[2] < LoginWindow => d \in failures[k])
       /\ Bounded(denials[k])

\* Nothing has failed yet, or the count was cleared.
LEMMA NothingFailed == Bounded({}) /\ IsFiniteSet({})
  <1>1. \A t : Window({}, t) = {}
    BY DEF Window
  <1>2. MaximumLoginFailures \in Nat
    BY AuthAssumption DEF AuthAssumption
  <1>3. QED
    BY <1>1, <1>2, FS_EmptySet DEF Bounded

\* One failure more: in the windows that end now or later there are, before it,
\* only the failures that login has just counted.
LEMMA DenyStep ==
  ASSUME DenialInv, NEW k \in Keys, ~Limited(k), Deny(k), clock' = clock
  PROVE  DenialInv'
  <1> DEFINE d == Failure(k)
             new == denials[k] \cup {d}
  <1>1. /\ clock \in 0..MaxClock /\ clock \in Nat /\ MaxClock \in Nat /\ LoginWindow \in Nat \ {0}
        /\ MaximumLoginFailures \in Nat
    BY AuthAssumption DEF AuthAssumption, DenialInv
  <1>2. /\ failures[k] \in SUBSET (Nat \X (0..MaxClock)) /\ denials[k] \in SUBSET (Nat \X (0..MaxClock))
        /\ IsFiniteSet(denials[k]) /\ failures[k] \subseteq denials[k]
        /\ \A e \in denials[k] : e[2] <= clock /\ (clock - e[2] < LoginWindow => e \in failures[k])
        /\ Bounded(denials[k])
    BY DEF DenialInv
  <1>3. d \in Nat \X (0..MaxClock) /\ d[2] = clock
    <2> DEFINE same == {f \in failures[k] : f[2] = clock}
    <2>1. IsFiniteSet(same)
      BY <1>2, FS_Subset, same \in SUBSET denials[k]
    <2>2. Cardinality(same) \in Nat
      BY <2>1, FS_CardinalityType
    <2>3. QED
      BY <1>1, <2>2 DEF Failure
  <1>4. /\ failures' = [failures EXCEPT ![k] = Recent(k) \cup {d}]
        /\ denials' = [denials EXCEPT ![k] = new]
    BY DEF Deny
  <1>5. Recent(k) \in SUBSET failures[k] /\ IsFiniteSet(Recent(k))
    <2>1. Recent(k) \in SUBSET failures[k]
      BY DEF Recent
    <2>2. QED
      BY <1>2, <2>1, FS_Subset
  <1>6. Cardinality(Recent(k)) \in Nat /\ Cardinality(Recent(k)) < MaximumLoginFailures
    <2>1. Cardinality(Recent(k)) \in Nat
      BY <1>5, FS_CardinalityType
    <2>2. QED
      BY <1>1, <2>1 DEF Limited
  <1>7. /\ IsFiniteSet(Recent(k) \cup {d})
        /\ Cardinality(Recent(k) \cup {d}) \in Nat
        /\ Cardinality(Recent(k) \cup {d}) <= MaximumLoginFailures
    <2>1. /\ IsFiniteSet(Recent(k) \cup {d})
          /\ Cardinality(Recent(k) \cup {d}) \in {Cardinality(Recent(k)), Cardinality(Recent(k)) + 1}
      BY <1>5, FS_AddElement
    <2>2. QED
      BY <1>1, <1>6, <2>1
  <1> HIDE DEF d
  <1>8. ASSUME NEW t \in 0..MaxClock
        PROVE  Cardinality(Window(new, t)) <= MaximumLoginFailures
    <2>1. CASE t < clock
      <3>1. Window(new, t) = Window(denials[k], t)
        BY <1>1, <1>3, <2>1 DEF Window
      <3>2. QED
        BY <1>2, <3>1 DEF Bounded
    <2>2. CASE t >= clock
      <3>1. Window(new, t) \in SUBSET (Recent(k) \cup {d})
        <4>1. SUFFICES ASSUME NEW e \in denials[k], e[2] <= t, t - e[2] < LoginWindow PROVE e \in Recent(k)
          BY DEF Window
        <4>2. e[2] \in Nat
          BY <1>2
        <4>3. clock - e[2] < LoginWindow
          BY <1>1, <2>2, <4>1, <4>2
        <4>4. QED
          BY <1>2, <4>3 DEF Recent
      <3>2. IsFiniteSet(Window(new, t)) /\ Cardinality(Window(new, t)) <= Cardinality(Recent(k) \cup {d})
        BY <1>7, <3>1, FS_Subset
      <3>3. Cardinality(Window(new, t)) \in Nat
        BY <3>2, FS_CardinalityType
      <3>4. QED
        BY <1>1, <1>7, <3>2, <3>3
    <2>3. QED
      BY <1>1, <2>1, <2>2
  <1>9. IsFiniteSet(new)
    BY <1>2, FS_AddElement
  <1> HIDE DEF new
  <1>10. /\ failures'[k] = Recent(k) \cup {d} /\ denials'[k] = new /\ d \in new
         /\ \A j \in Keys \ {k} : failures'[j] = failures[j] /\ denials'[j] = denials[j]
    BY <1>4 DEF DenialInv, new
  <1>11. /\ failures' \in [Keys -> SUBSET (Nat \X (0..MaxClock))]
         /\ denials' \in [Keys -> SUBSET (Nat \X (0..MaxClock))]
    <2>1. Recent(k) \cup {d} \in SUBSET (Nat \X (0..MaxClock)) /\ new \in SUBSET (Nat \X (0..MaxClock))
      BY <1>2, <1>3, <1>5 DEF new
    <2>2. QED
      BY <1>4, <2>1 DEF DenialInv
  <1>12. /\ Recent(k) \cup {d} \subseteq new
         /\ \A e \in new : e[2] <= clock /\ (clock - e[2] < LoginWindow => e \in Recent(k) \cup {d})
    BY <1>1, <1>2, <1>3, <1>5 DEF new, Recent
  <1>13. Bounded(new)
    BY <1>8 DEF Bounded
  <1>14. ASSUME NEW j \in Keys
         PROVE  /\ IsFiniteSet(denials'[j]) /\ failures'[j] \subseteq denials'[j]
                /\ \A e \in denials'[j] : e[2] <= clock /\ (clock - e[2] < LoginWindow => e \in failures'[j])
                /\ Bounded(denials'[j])
    <2>1. CASE j = k
      BY <1>9, <1>10, <1>12, <1>13, <2>1
    <2>2. CASE j # k
      BY <1>10, <2>2 DEF DenialInv
    <2>3. QED
      BY <2>1, <2>2
  <1>15. QED
    BY <1>1, <1>11, <1>14 DEF DenialInv, Bounded, Window

\* The right password: the count starts again.
LEMMA ClearStep ==
  ASSUME DenialInv, NEW k \in Keys, Clear(k), clock' = clock
  PROVE  DenialInv'
  <1>1. /\ failures'[k] = {} /\ denials'[k] = {}
        /\ \A j \in Keys \ {k} : failures'[j] = failures[j] /\ denials'[j] = denials[j]
        /\ failures' \in [Keys -> SUBSET (Nat \X (0..MaxClock))]
        /\ denials' \in [Keys -> SUBSET (Nat \X (0..MaxClock))]
    BY DEF Clear, DenialInv
  <1>2. ASSUME NEW j \in Keys
        PROVE  /\ IsFiniteSet(denials'[j]) /\ failures'[j] \subseteq denials'[j]
               /\ \A e \in denials'[j] : e[2] <= clock /\ (clock - e[2] < LoginWindow => e \in failures'[j])
               /\ Bounded(denials'[j])
    <2>1. CASE j = k
      BY <1>1, <2>1, NothingFailed
    <2>2. CASE j # k
      BY <1>1, <2>2 DEF DenialInv
    <2>3. QED
      BY <2>1, <2>2
  <1>3. QED
    BY <1>1, <1>2 DEF DenialInv, Bounded, Window

\* Every step keeps DenialInv.
LEMMA DenialStep ==
  ASSUME DenialInv, [Next]_vars
  PROVE  DenialInv'
  <1>1. \A u \in Users : <<"login", u>> \in Keys
    BY DEF Keys
  <1>2. <<"reauth", Admin>> \in Keys
    BY DEF Keys
  <1>3. ASSUME NEW u \in Users, Login(u) PROVE DenialInv'
    BY <1>1, <1>3, ClearStep DEF Login
  <1>4. ASSUME NEW u \in Users, LoginDenied(u) PROVE DenialInv'
    BY <1>1, <1>4, DenyStep DEF LoginDenied
  <1>5. ASSUME NEW i \in DOMAIN sessions, Confirm(i) \/ FactorDenied(i) PROVE DenialInv'
    BY <1>2, <1>5, ClearStep DEF Confirm, FactorDenied
  <1>6. ASSUME NEW i \in DOMAIN sessions, PasswordDenied(i) PROVE DenialInv'
    BY <1>2, <1>6, DenyStep DEF PasswordDenied
  <1>7. ASSUME UNCHANGED <<clock, failures, denials>> PROVE DenialInv'
    BY <1>7 DEF DenialInv, Bounded, Window
  <1>8. ASSUME NEW i \in DOMAIN sessions, Served(i) \/ Refused(i) \/ Logout(i)
        PROVE  UNCHANGED <<clock, failures, denials>>
    BY <1>8 DEF Served, Refused, Logout
  <1>9. CASE Tick
    <2>1. clock' \in 0..MaxClock /\ clock' = clock + 1 /\ UNCHANGED <<failures, denials>>
      BY <1>9, AuthAssumption DEF Tick, AuthAssumption, DenialInv
    <2>2. LoginWindow \in Nat /\ clock \in Nat
      BY AuthAssumption DEF AuthAssumption, DenialInv
    <2>3. \A k \in Keys : \A e \in denials[k] :
            e[2] \in Nat /\ e[2] <= clock' /\ (clock' - e[2] < LoginWindow => e \in failures[k])
      <3>1. SUFFICES ASSUME NEW k \in Keys, NEW e \in denials[k]
                     PROVE  e[2] \in Nat /\ e[2] <= clock' /\ (clock' - e[2] < LoginWindow => e \in failures[k])
        OBVIOUS
      <3>2. e \in Nat \X (0..MaxClock) /\ e[2] <= clock /\ (clock - e[2] < LoginWindow => e \in failures[k])
        BY DEF DenialInv
      <3>3. QED
        BY <2>1, <2>2, <3>2
    <2>4. QED
      BY <2>1, <2>3 DEF DenialInv, Bounded, Window
  <1>10. CASE Restart
    <2>1. failures' = [k \in Keys |-> {}] /\ denials' = [k \in Keys |-> {}] /\ clock' = clock
      BY <1>10 DEF Restart
    <2>2. QED
      BY <2>1, NothingFailed DEF DenialInv, Bounded, Window
  <1>11. CASE UNCHANGED vars
    BY <1>7, <1>11 DEF vars
  <1>12. QED
    BY <1>3, <1>4, <1>5, <1>6, <1>7, <1>8, <1>9, <1>10, <1>11 DEF Next

\* However attempts are spread over the minutes, and although a list of failures
\* is pruned with every new one, no window holds more than the limit (login,
\* verifyAdminPassword).
THEOREM DenialsStayBounded == Spec => []DenialsAreBounded
  <1>1. Init => DenialInv
    <2>1. SUFFICES ASSUME Init PROVE DenialInv
      OBVIOUS
    <2>2. clock = 0 /\ failures = [k \in Keys |-> {}] /\ denials = [k \in Keys |-> {}] /\ MaxClock \in Nat
      BY <2>1, AuthAssumption DEF Init, AuthAssumption
    <2>3. QED
      BY <2>2, NothingFailed DEF DenialInv
  <1>2. DenialInv /\ [Next]_vars => DenialInv'
    BY DenialStep
  <1>3. DenialInv => DenialsAreBounded
    BY DEF DenialInv, DenialsAreBounded, Bounded, Window
  <1>4. QED
    BY <1>1, <1>2, <1>3, PTL DEF Spec

=============================================================================
