------------------------ MODULE CredentialPoolProofs ------------------------
(***************************************************************************)
(* Proofs about CredentialPool, for any set of credentials, providers and  *)
(* sessions and any timing: its invariants and InvalidStaysUnused.         *)
(***************************************************************************)
EXTENDS CredentialPool, FiniteSetTheorems, TLAPS

Health == Eligible \cup Invalid \cup {"RATE_LIMITED"}
Breakers == {"CLOSED", "OPEN", "HALF_OPEN"}

\* What Assign leaves behind, whatever health and breakers it starts from: the
\* session goes to `to`, which is usable if it is a credential.
Moved(s, to) ==
  /\ to \in Creds \cup {None}
  /\ bound' = [bound EXCEPT ![s] = to]
  /\ left' \in [Sessions -> 0..LeaseTime]
  /\ \A c \in Creds : active'[c] = IF c = to THEN Vacated(s)[c] + 1
                                             ELSE Vacated(s)[c]
  /\ active' \in [Creds -> Nat]

\* `st` and `ci` are the health and the breakers the step hands to Assign.
After(s, st, ci) ==
  /\ state' \in [Creds -> Health]
  /\ circuit' \in [Creds -> Breakers]
  /\ \A c \in Creds : \/ state'[c] = st[c]
                      \/ st[c] = "RATE_LIMITED" /\ state'[c] = "HEALTHY"
  /\ \A c \in Creds : circuit'[c] = "CLOSED" <=> ci[c] = "CLOSED"
  /\ \E to \in Creds \cup {None} :
       Moved(s, to) /\ (to # None => Usable(state'[to], circuit'[to]))

LEMMA VacatedType ==
  ASSUME TypeOK, NEW s \in Sessions
  PROVE  Vacated(s) \in [Creds -> Nat]
BY DEF TypeOK, Vacated

LEMMA AssignMoves ==
  ASSUME TypeOK, NEW s \in Sessions, NEW p \in Providers,
         NEW st \in [Creds -> Health], NEW ci \in [Creds -> Breakers],
         Assign(s, p, st, ci)
  PROVE  After(s, st, ci)
<1> DEFINE health == [c \in Creds |-> IF Provider[c] = p
                                        THEN Healed(st[c], cooldown'[c]) ELSE st[c]]
           breaker == [c \in Creds |-> IF Provider[c] = p
                                         THEN Probed(ci[c], reopen'[c]) ELSE ci[c]]
           rows == {c \in Creds : Provider[c] = p /\ Usable(health[c], breaker[c])}
<1>1. state' = health /\ circuit' = breaker
  BY DEF Assign
<1>2. /\ state' \in [Creds -> Health]
      /\ \A c \in Creds : \/ state'[c] = st[c]
                          \/ st[c] = "RATE_LIMITED" /\ state'[c] = "HEALTHY"
  BY <1>1 DEF Healed, Health, Eligible
<1>3. /\ circuit' \in [Creds -> Breakers]
      /\ \A c \in Creds : circuit'[c] = "CLOSED" <=> ci[c] = "CLOSED"
  BY <1>1 DEF Probed, Breakers
<1>4. \E to \in Creds \cup {None} :
         Moved(s, to) /\ (to # None => Usable(state'[to], circuit'[to]))
  <2>1. \/ \E c \in rows :
             /\ bound' = [bound EXCEPT ![s] = c]
             /\ left' = [left EXCEPT ![s] = LeaseTime]
             /\ active' = [Vacated(s) EXCEPT ![c] = @ + 1]
        \/ /\ bound' = [bound EXCEPT ![s] = None]
           /\ left' = [left EXCEPT ![s] = 0]
           /\ active' = Vacated(s)
    BY DEF Assign
  <2>2. CASE \E c \in rows :
             /\ bound' = [bound EXCEPT ![s] = c]
             /\ left' = [left EXCEPT ![s] = LeaseTime]
             /\ active' = [Vacated(s) EXCEPT ![c] = @ + 1]
    <3>1. PICK c \in rows : /\ bound' = [bound EXCEPT ![s] = c]
                            /\ left' = [left EXCEPT ![s] = LeaseTime]
                            /\ active' = [Vacated(s) EXCEPT ![c] = @ + 1]
      BY <2>2
    <3>2. c \in Creds /\ Usable(health[c], breaker[c])
      OBVIOUS
    <3>3. Moved(s, c)
      BY <3>1, <3>2, VacatedType, PoolAssumption DEF Moved, TypeOK
    <3>4. c # None
      BY <3>2, PoolAssumption
    <3> QED
      BY <3>2, <3>3, <3>4, <1>1
  <2>3. CASE /\ bound' = [bound EXCEPT ![s] = None]
             /\ left' = [left EXCEPT ![s] = 0]
             /\ active' = Vacated(s)
    <3>1. Moved(s, None)
      BY <2>3, VacatedType, PoolAssumption DEF Moved, TypeOK
    <3> QED
      BY <3>1
  <2> QED
    BY <2>1, <2>2, <2>3
<1> QED
  BY <1>2, <1>3, <1>4 DEF After

\* What a step of a session on its binding does: record_failure and select go
\* through Assign, release_session to no credential at all.
LEMMA ReleaseMoves ==
  ASSUME TypeOK, NEW s \in Sessions, ReleaseSession(s)
  PROVE  Moved(s, None)
BY VacatedType, PoolAssumption DEF ReleaseSession, Moved, TypeOK

-----------------------------------------------------------------------------
\* The counts of the credentials follow the sessions.
LEMMA UsersAreFinite ==
  ASSUME NEW c \in Creds
  PROVE  IsFiniteSet(Users(c)) /\ Cardinality(Users(c)) \in Nat
BY PoolAssumption, FS_Subset, FS_CardinalityType DEF Users

LEMMA MovedCounts ==
  ASSUME TypeOK, ActiveIsCount, NEW s \in Sessions,
         NEW to \in Creds \cup {None}, Moved(s, to)
  PROVE  ActiveIsCount'
<1> SUFFICES ASSUME NEW c \in Creds
             PROVE  active'[c] = Baseline[c] + Cardinality(Users(c)')
  BY DEF ActiveIsCount
<1>1. /\ IsFiniteSet(Users(c)) /\ Cardinality(Users(c)) \in Nat
      /\ active[c] = Baseline[c] + Cardinality(Users(c)) /\ Baseline[c] \in Nat
  BY UsersAreFinite, PoolAssumption DEF ActiveIsCount
<1>2. Users(c)' = IF c = to THEN Users(c) \cup {s} ELSE Users(c) \ {s}
  BY DEF Users, Moved, TypeOK
<1>3. /\ s \in Users(c) <=> bound[s] = c
      /\ IsFiniteSet(Users(c) \ {s})
      /\ Cardinality(Users(c) \ {s}) =
           IF bound[s] = c THEN Cardinality(Users(c)) - 1 ELSE Cardinality(Users(c))
  BY <1>1, FS_RemoveElement DEF Users
<1>4. Cardinality(Users(c) \ {s}) \in Nat
  BY <1>3, FS_CardinalityType
<1>5. Vacated(s)[c] = Baseline[c] + Cardinality(Users(c) \ {s})
  BY <1>1, <1>3, <1>4 DEF Vacated
<1>6. Users(c) \cup {s} = (Users(c) \ {s}) \cup {s}
  OBVIOUS
<1>7. Cardinality((Users(c) \ {s}) \cup {s}) = Cardinality(Users(c) \ {s}) + 1
  BY <1>3, FS_AddElement
<1>8. active'[c] = IF c = to THEN Vacated(s)[c] + 1 ELSE Vacated(s)[c]
  BY DEF Moved
<1>9. Users(c)' = IF c = to THEN (Users(c) \ {s}) \cup {s} ELSE Users(c) \ {s}
  BY <1>2, <1>6
<1>10. CASE c = to
  <2>1. /\ Cardinality(Users(c)') = Cardinality(Users(c) \ {s}) + 1
        /\ active'[c] = Baseline[c] + Cardinality(Users(c) \ {s}) + 1
    BY <1>5, <1>7, <1>8, <1>9, <1>10
  <2> QED
    BY <2>1, <1>1, <1>4
<1>11. CASE c # to
  BY <1>5, <1>8, <1>9, <1>11
<1> QED
  BY <1>10, <1>11

-----------------------------------------------------------------------------
\* The four steps that go through Assign.
LEMMA AssignMovesAlways ==
  TypeOK =>
    \A s \in Sessions, p \in Providers,
       st \in [Creds -> Health], ci \in [Creds -> Breakers] :
      Assign(s, p, st, ci) => After(s, st, ci)
BY AssignMoves

LEMMA SelectMoves ==
  ASSUME TypeOK, NEW s \in Sessions, NEW p \in Providers, Select(s, p)
  PROVE  After(s, state, circuit)
BY AssignMovesAlways DEF TypeOK, Select, Health, Breakers

LEMMA BadStateMoves ==
  ASSUME TypeOK, NEW s \in Sessions, NEW error \in DOMAIN StateAfter,
         RecordBadState(s, error)
  PROVE  /\ bound[s] \in Creds
         /\ After(s, [state EXCEPT ![bound[s]] = StateAfter[error]], circuit)
<1> DEFINE st == [state EXCEPT ![bound[s]] = StateAfter[error]]
<1>1. bound[s] \in Creds /\ Provider[bound[s]] \in Providers
  BY PoolAssumption DEF TypeOK, RecordBadState
<1>2. StateAfter[error] \in Health
  BY DEF StateAfter, Health, Eligible, Invalid
<1>3. st \in [Creds -> Health] /\ circuit \in [Creds -> Breakers]
  BY <1>1, <1>2 DEF TypeOK, Health, Breakers
<1>4. Assign(s, Provider[bound[s]], st, circuit)
  BY DEF RecordBadState
<1> HIDE DEF st
<1>5. After(s, st, circuit)
  BY <1>1, <1>3, <1>4, AssignMovesAlways
<1> QED
  BY <1>1, <1>5 DEF st

LEMMA RateLimitMoves ==
  ASSUME TypeOK, NEW s \in Sessions, NEW retryAfter \in 0..MaxRetryAfter,
         RecordRateLimit(s, retryAfter)
  PROVE  /\ bound[s] \in Creds
         /\ After(s, [state EXCEPT ![bound[s]] = "RATE_LIMITED"], circuit)
<1> DEFINE st == [state EXCEPT ![bound[s]] = "RATE_LIMITED"]
<1>1. bound[s] \in Creds /\ Provider[bound[s]] \in Providers
  BY PoolAssumption DEF TypeOK, RecordRateLimit
<1>2. st \in [Creds -> Health] /\ circuit \in [Creds -> Breakers]
  BY <1>1 DEF TypeOK, Health, Breakers
<1>3. Assign(s, Provider[bound[s]], st, circuit)
  BY DEF RecordRateLimit
<1> HIDE DEF st
<1>4. After(s, st, circuit)
  BY <1>1, <1>2, <1>3, AssignMovesAlways
<1> QED
  BY <1>1, <1>4 DEF st

LEMMA TrippingMoves ==
  ASSUME TypeOK, NEW s \in Sessions, RecordTripping(s)
  PROVE  /\ bound[s] \in Creds
         /\ After(s, state, [circuit EXCEPT ![bound[s]] = "OPEN"])
<1> DEFINE ci == [circuit EXCEPT ![bound[s]] = "OPEN"]
<1>1. bound[s] \in Creds /\ Provider[bound[s]] \in Providers
  BY PoolAssumption DEF TypeOK, RecordTripping
<1>2. state \in [Creds -> Health] /\ ci \in [Creds -> Breakers]
  BY <1>1 DEF TypeOK, Health, Breakers
<1>3. Assign(s, Provider[bound[s]], state, ci)
  BY DEF RecordTripping
<1> HIDE DEF ci
<1>4. After(s, state, ci)
  BY <1>1, <1>2, <1>3, AssignMovesAlways
<1> QED
  BY <1>1, <1>4 DEF ci

-----------------------------------------------------------------------------
\* What a step through Assign means for the type and the counts.
LEMMA AfterType ==
  ASSUME TypeOK, NEW s \in Sessions, NEW st, NEW ci, After(s, st, ci),
         failures' \in [Creds -> 0..Threshold],
         cooldown' \in [Creds -> 0..MaxRetryAfter],
         reopen' \in [Creds -> 0..CircuitTime]
  PROVE  TypeOK'
BY DEF TypeOK, After, Moved, Health, Breakers

LEMMA AfterCounts ==
  ASSUME TypeOK, ActiveIsCount, NEW s \in Sessions, NEW st, NEW ci,
         After(s, st, ci)
  PROVE  ActiveIsCount'
BY MovedCounts DEF After

\* Type correctness of every step.
LEMMA TypeStep ==
  ASSUME TypeOK, [Next]_vars
  PROVE  TypeOK'
<1> USE DEF Health, Breakers
<1>1. ASSUME NEW s \in Sessions, NEW p \in Providers, Reuse(s, p)
      PROVE  TypeOK'
  <2>1. bound[s] \in Creds
    BY <1>1 DEF Reuse, Keeps, TypeOK
  <2> QED
    BY <1>1, <2>1 DEF Reuse, TypeOK, sessionVars, Healed, Probed, Eligible
<1>2. ASSUME NEW s \in Sessions, NEW p \in Providers, Select(s, p)
      PROVE  TypeOK'
  <2>1. UNCHANGED <<failures, cooldown, reopen>>
    BY <1>2 DEF Select
  <2> QED
    BY <1>2, <2>1, SelectMoves, AfterType DEF TypeOK
<1>3. ASSUME NEW s \in Sessions, RecordSuccess(s)
      PROVE  TypeOK'
  BY <1>3, PoolAssumption DEF RecordSuccess, TypeOK, sessionVars, Healed, Eligible
<1>4. ASSUME NEW s \in Sessions, NEW error \in DOMAIN StateAfter,
             RecordBadState(s, error)
      PROVE  TypeOK'
  <2>1. UNCHANGED <<failures, cooldown, reopen>>
    BY <1>4 DEF RecordBadState
  <2> QED
    BY <1>4, <2>1, BadStateMoves, AfterType DEF TypeOK
<1>5. ASSUME NEW s \in Sessions, NEW retryAfter \in 0..MaxRetryAfter,
             RecordRateLimit(s, retryAfter)
      PROVE  TypeOK'
  <2>1. /\ UNCHANGED <<failures, reopen>>
        /\ cooldown' \in [Creds -> 0..MaxRetryAfter]
    BY <1>5 DEF RecordRateLimit, TypeOK
  <2> QED
    BY <1>5, <2>1, RateLimitMoves, AfterType DEF TypeOK
<1>6. ASSUME NEW s \in Sessions, RecordTransient(s)
      PROVE  TypeOK'
  BY <1>6, PoolAssumption DEF RecordTransient, TypeOK, sessionVars
<1>7. ASSUME NEW s \in Sessions, RecordTripping(s)
      PROVE  TypeOK'
  <2>1. /\ failures' \in [Creds -> 0..Threshold]
        /\ reopen' \in [Creds -> 0..CircuitTime]
        /\ UNCHANGED cooldown
    BY <1>7, PoolAssumption DEF RecordTripping, TypeOK
  <2> QED
    BY <1>7, <2>1, TrippingMoves, AfterType DEF TypeOK
<1>8. ASSUME NEW s \in Sessions, ReleaseSession(s)
      PROVE  TypeOK'
  BY <1>8, ReleaseMoves DEF ReleaseSession, Moved, TypeOK, credVars
<1>9. ASSUME Snapshot
      PROVE  TypeOK'
  BY <1>9 DEF Snapshot, TypeOK, sessionVars, Healed, Probed, Eligible
<1>10. ASSUME Tick
       PROVE  TypeOK'
  <2>1. /\ \A c \in Creds : Less(cooldown[c]) \in 0..MaxRetryAfter
        /\ \A c \in Creds : Less(reopen[c]) \in 0..CircuitTime
        /\ \A s \in Sessions : Less(left[s]) \in 0..LeaseTime
    BY PoolAssumption DEF TypeOK, Less
  <2> QED
    BY <1>10, <2>1 DEF Tick, TypeOK
<1>11. CASE UNCHANGED vars
  BY <1>11 DEF TypeOK, vars, credVars, sessionVars
<1> QED
  BY <1>1, <1>2, <1>3, <1>4, <1>5, <1>6, <1>7, <1>8, <1>9, <1>10, <1>11
     DEF Next, SessionStep

LEMMA TypeInit == Init => TypeOK
BY PoolAssumption DEF Init, TypeOK, Eligible

\* The health of the credentials, their breakers, the counts and the bindings
\* have their types in every reachable state.
THEOREM TypeCorrect == Spec => []TypeOK
BY TypeInit, TypeStep, PTL DEF Spec

-----------------------------------------------------------------------------
LEMMA CountStep ==
  ASSUME TypeOK, ActiveIsCount, [Next]_vars
  PROVE  ActiveIsCount'
<1>1. ASSUME NEW s \in Sessions, NEW p \in Providers, Select(s, p)
      PROVE  ActiveIsCount'
  BY <1>1, SelectMoves, AfterCounts
<1>2. ASSUME NEW s \in Sessions, NEW error \in DOMAIN StateAfter,
             RecordBadState(s, error)
      PROVE  ActiveIsCount'
  BY <1>2, BadStateMoves, AfterCounts
<1>3. ASSUME NEW s \in Sessions, NEW retryAfter \in 0..MaxRetryAfter,
             RecordRateLimit(s, retryAfter)
      PROVE  ActiveIsCount'
  BY <1>3, RateLimitMoves, AfterCounts
<1>4. ASSUME NEW s \in Sessions, RecordTripping(s)
      PROVE  ActiveIsCount'
  BY <1>4, TrippingMoves, AfterCounts
<1>5. ASSUME NEW s \in Sessions, ReleaseSession(s)
      PROVE  ActiveIsCount'
  BY <1>5, ReleaseMoves, MovedCounts
<1>6. ASSUME UNCHANGED <<active, bound>>
      PROVE  ActiveIsCount'
  BY <1>6 DEF ActiveIsCount, Users
<1>7. CASE Snapshot \/ Tick \/ UNCHANGED vars
  BY <1>6, <1>7 DEF Snapshot, Tick, vars, sessionVars
<1>8. CASE \E s \in Sessions : SessionStep(s)
  <2>1. PICK s \in Sessions : SessionStep(s)
    BY <1>8
  <2>2. CASE \E p \in Providers : Reuse(s, p)
    BY <1>6, <2>2 DEF Reuse, sessionVars
  <2>3. CASE RecordSuccess(s) \/ RecordTransient(s)
    BY <1>6, <2>3 DEF RecordSuccess, RecordTransient, sessionVars
  <2> QED
    BY <1>1, <1>2, <1>3, <1>4, <1>5, <2>1, <2>2, <2>3 DEF SessionStep
<1> QED
  BY <1>7, <1>8 DEF Next

LEMMA CountInit == Init => ActiveIsCount
<1> SUFFICES ASSUME Init, NEW c \in Creds
             PROVE  active[c] = Baseline[c] + Cardinality(Users(c))
  BY DEF ActiveIsCount
<1>1. Users(c) = {}
  BY PoolAssumption DEF Init, Users
<1> QED
  BY <1>1, FS_EmptySet, PoolAssumption DEF Init

\* No order of selections, failures and releases loses or doubles a count.
THEOREM CountsAreRight == Spec => []ActiveIsCount
BY CountInit, CountStep, TypeCorrect, PTL DEF Spec

-----------------------------------------------------------------------------
\* A breaker that is not CLOSED stays so until a success sets the failures of
\* its credential back.
LEMMA CircuitStep ==
  ASSUME TypeOK, CircuitMatchesFailures, [Next]_vars
  PROVE  CircuitMatchesFailures'
<1> USE DEF CircuitMatchesFailures
<1>1. ASSUME NEW s \in Sessions, NEW ci, NEW st, After(s, st, ci),
             \A c \in Creds : ci[c] = "CLOSED" <=> failures'[c] < Threshold
      PROVE  CircuitMatchesFailures'
  BY <1>1 DEF After
<1>2. ASSUME NEW s \in Sessions, NEW p \in Providers, Select(s, p)
      PROVE  CircuitMatchesFailures'
  <2>1. failures' = failures
    BY <1>2 DEF Select
  <2> QED
    BY <1>1, <1>2, <2>1, SelectMoves
<1>3. ASSUME NEW s \in Sessions, NEW error \in DOMAIN StateAfter,
             RecordBadState(s, error)
      PROVE  CircuitMatchesFailures'
  <2>1. failures' = failures
    BY <1>3 DEF RecordBadState
  <2> QED
    BY <1>1, <1>3, <2>1, BadStateMoves
<1>4. ASSUME NEW s \in Sessions, NEW retryAfter \in 0..MaxRetryAfter,
             RecordRateLimit(s, retryAfter)
      PROVE  CircuitMatchesFailures'
  <2>1. failures' = failures
    BY <1>4 DEF RecordRateLimit
  <2> QED
    BY <1>1, <1>4, <2>1, RateLimitMoves
<1>5. ASSUME NEW s \in Sessions, RecordTripping(s)
      PROVE  CircuitMatchesFailures'
  <2> DEFINE ci == [circuit EXCEPT ![bound[s]] = "OPEN"]
  <2>1. bound[s] \in Creds /\ After(s, state, ci)
    BY <1>5, TrippingMoves
  <2>2. failures' = [failures EXCEPT ![bound[s]] = Threshold]
    BY <1>5 DEF RecordTripping
  <2>3. \A c \in Creds : ci[c] = "CLOSED" <=> failures'[c] < Threshold
    BY <2>1, <2>2, PoolAssumption DEF TypeOK
  <2> HIDE DEF ci
  <2> QED
    BY <1>1, <2>1, <2>3
<1>6. ASSUME NEW s \in Sessions, RecordTransient(s)
      PROVE  CircuitMatchesFailures'
  BY <1>6, PoolAssumption DEF RecordTransient, TypeOK
<1>7. ASSUME NEW s \in Sessions, RecordSuccess(s)
      PROVE  CircuitMatchesFailures'
  BY <1>7, PoolAssumption DEF RecordSuccess, TypeOK
<1>8. ASSUME NEW s \in Sessions, NEW p \in Providers, Reuse(s, p)
      PROVE  CircuitMatchesFailures'
  BY <1>8 DEF Reuse, Probed, TypeOK
<1>9. ASSUME NEW s \in Sessions, ReleaseSession(s)
      PROVE  CircuitMatchesFailures'
  BY <1>9 DEF ReleaseSession, credVars
<1>10. CASE Snapshot
  BY <1>10 DEF Snapshot, Probed, TypeOK
<1>11. CASE Tick \/ UNCHANGED vars
  BY <1>11 DEF Tick, vars, credVars
<1> QED
  BY <1>2, <1>3, <1>4, <1>5, <1>6, <1>7, <1>8, <1>9, <1>10, <1>11
     DEF Next, SessionStep

LEMMA CircuitInit == Init => CircuitMatchesFailures
BY PoolAssumption DEF Init, CircuitMatchesFailures

\* Whoever reports the failures, and in whatever order they arrive, a breaker
\* is closed exactly below the threshold.
THEOREM BreakersAreRight == Spec => []CircuitMatchesFailures
BY CircuitInit, CircuitStep, TypeCorrect, PTL DEF Spec

-----------------------------------------------------------------------------
LEMMA InvalidStep ==
  ASSUME TypeOK, [Next]_vars, NEW c \in Creds,
         state[c] \in Invalid, Users(c) = {}
  PROVE  state'[c] = state[c] /\ Users(c)' = {}
<1> DEFINE Stays == state'[c] = state[c] /\ Users(c)' = {}
<1>1. /\ \A s \in Sessions : bound[s] # c
      /\ state[c] # "RATE_LIMITED" /\ state[c] \notin Eligible
  BY DEF Users, Invalid, Eligible
<1>2. ASSUME NEW s \in Sessions, NEW ci, NEW st, After(s, st, ci),
             st[c] = state[c]
      PROVE  Stays
  <2>1. state'[c] = state[c]
    BY <1>1, <1>2 DEF After
  <2>2. PICK to \in Creds \cup {None} :
          Moved(s, to) /\ (to # None => Usable(state'[to], circuit'[to]))
    BY <1>2 DEF After
  <2>3. to # c
    BY <1>1, <2>1, <2>2, PoolAssumption DEF Usable
  <2>4. Users(c)' = {}
    BY <1>1, <2>2, <2>3 DEF Moved, Users, TypeOK
  <2> QED
    BY <2>1, <2>4
<1>3. ASSUME NEW s \in Sessions, NEW p \in Providers, Select(s, p)
      PROVE  Stays
  BY <1>2, <1>3, SelectMoves
<1>4. ASSUME NEW s \in Sessions, NEW error \in DOMAIN StateAfter,
             RecordBadState(s, error)
      PROVE  Stays
  <2> DEFINE st == [state EXCEPT ![bound[s]] = StateAfter[error]]
  <2>1. After(s, st, circuit) /\ st[c] = state[c]
    BY <1>1, <1>4, BadStateMoves DEF TypeOK
  <2> HIDE DEF st
  <2> QED
    BY <1>2, <2>1
<1>5. ASSUME NEW s \in Sessions, NEW retryAfter \in 0..MaxRetryAfter,
             RecordRateLimit(s, retryAfter)
      PROVE  Stays
  <2> DEFINE st == [state EXCEPT ![bound[s]] = "RATE_LIMITED"]
  <2>1. After(s, st, circuit) /\ st[c] = state[c]
    BY <1>1, <1>5, RateLimitMoves DEF TypeOK
  <2> HIDE DEF st
  <2> QED
    BY <1>2, <2>1
<1>6. ASSUME NEW s \in Sessions, RecordTripping(s)
      PROVE  Stays
  BY <1>2, <1>6, TrippingMoves
<1>7. ASSUME UNCHANGED bound, state'[c] = state[c]
      PROVE  Stays
  BY <1>7 DEF Users
<1>8. ASSUME NEW s \in Sessions, NEW p \in Providers, Reuse(s, p)
      PROVE  Stays
  BY <1>1, <1>7, <1>8 DEF Reuse, TypeOK, sessionVars
<1>9. ASSUME NEW s \in Sessions, RecordSuccess(s)
      PROVE  Stays
  BY <1>1, <1>7, <1>9 DEF RecordSuccess, TypeOK, sessionVars
<1>10. ASSUME NEW s \in Sessions, RecordTransient(s)
       PROVE  Stays
  BY <1>7, <1>10 DEF RecordTransient, sessionVars
<1>11. ASSUME NEW s \in Sessions, ReleaseSession(s)
       PROVE  Stays
  <2>1. state' = state /\ bound' = [bound EXCEPT ![s] = None]
    BY <1>11 DEF ReleaseSession, credVars
  <2>2. \A r \in Sessions : bound'[r] # c
    BY <1>1, <2>1, PoolAssumption DEF TypeOK
  <2> QED
    BY <2>1, <2>2 DEF Users
<1>12. CASE Snapshot
  BY <1>1, <1>7, <1>12 DEF Snapshot, Healed, sessionVars
<1>13. CASE Tick \/ UNCHANGED vars
  BY <1>7, <1>13 DEF Tick, vars, credVars, sessionVars
<1> QED
  BY <1>3, <1>4, <1>5, <1>6, <1>8, <1>9, <1>10, <1>11, <1>12, <1>13
     DEF Next, SessionStep

\* A credential that failed for good is not given out again.
THEOREM InvalidIsFinal == Spec => InvalidStaysUnused
<1>1. TypeOK /\ [Next]_vars =>
        [\A c \in Creds :
           state[c] \in Invalid /\ Users(c) = {} =>
             state'[c] = state[c] /\ Users(c)' = {}]_vars
  BY InvalidStep
<1> QED
  BY <1>1, TypeCorrect, PTL DEF Spec, InvalidStaysUnused
=============================================================================
