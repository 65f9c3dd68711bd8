--------------------------- MODULE CredentialPool ---------------------------
(***************************************************************************)
(* ProviderExecutionManager (src/src/fa3_model_router_provider_execution.  *)
(* py): which credential of a provider each session uses, the health of    *)
(* the credentials and their circuit breakers.                             *)
(*                                                                         *)
(* The manager belongs to one process and its methods are atomic, but the  *)
(* sessions share the credentials: what one session reports of a request   *)
(* comes after anything the others did to the same credential.             *)
(*                                                                         *)
(* Time is what remains of each deadline: `now >= until` is a remainder of *)
(* 0.  Deadlines are looked at only where the code calls _refresh.  The    *)
(* count of failures is compared with the threshold only, so it stops      *)
(* there.  Quota pressure and digests, which do not change, may order the  *)
(* credentials of the best state in any way.                               *)
(***************************************************************************)
EXTENDS Integers, FiniteSets

CONSTANTS Creds,         \* credential references
          Sessions,
          Providers,
          Provider,      \* Provider[c]: candidate.provider_id
          Baseline,      \* Baseline[c]: candidate.active_sessions
          Threshold,     \* circuit_threshold
          LeaseTime,     \* lease_ttl_seconds
          CircuitTime,   \* circuit_cooldown_seconds
          MaxRetryAfter, \* bound on retry_after_seconds
          None

ASSUME PoolAssumption ==
  /\ IsFiniteSet(Sessions)
  /\ Provider \in [Creds -> Providers]
  /\ Baseline \in [Creds -> Nat]
  /\ Threshold \in Nat \ {0}
  /\ LeaseTime \in Nat \ {0}
  /\ CircuitTime \in Nat \ {0}
  /\ MaxRetryAfter \in Nat
  /\ None \notin Creds

VARIABLES state,     \* state[c]: health of the credential
          failures,  \* failures[c]: failures since the last success
          circuit,   \* circuit[c]: its circuit breaker
          active,    \* active[c]: sessions counted on it
          cooldown,  \* what remains of cooldown_until
          reopen,    \* what remains of circuit_until
          bound,     \* bound[s]: the credential the session is bound to
          left       \* what remains of the lease of the session

credVars == <<state, failures, circuit, cooldown, reopen>>
sessionVars == <<active, bound, left>>
vars == <<credVars, sessionVars>>

Eligible == {"HEALTHY", "DEGRADED", "QUOTA_LOW"}

Invalid == {"AUTH_INVALID", "QUOTA_EXHAUSTED"}

TypeOK ==
  /\ state \in [Creds -> Eligible \cup Invalid \cup {"RATE_LIMITED"}]
  /\ failures \in [Creds -> 0..Threshold]
  /\ circuit \in [Creds -> {"CLOSED", "OPEN", "HALF_OPEN"}]
  /\ active \in [Creds -> Nat]
  /\ cooldown \in [Creds -> 0..MaxRetryAfter]
  /\ reopen \in [Creds -> 0..CircuitTime]
  /\ bound \in [Sessions -> Creds \cup {None}]
  /\ left \in [Sessions -> 0..LeaseTime]

Init ==
  /\ state \in [Creds -> Eligible]
  /\ failures = [c \in Creds |-> 0]
  /\ circuit = [c \in Creds |-> "CLOSED"]
  /\ active = Baseline
  /\ cooldown = [c \in Creds |-> 0]
  /\ reopen = [c \in Creds |-> 0]
  /\ bound = [s \in Sessions |-> None]
  /\ left = [s \in Sessions |-> 0]

-----------------------------------------------------------------------------
\* _refresh, its two halves.  The mutants heal what no cooldown ends, and close
\* the circuit without a success.
MutHealed(st, rest) == IF st \notin Eligible /\ rest = 0 THEN "HEALTHY" ELSE st
Healed(st, rest) == IF st = "RATE_LIMITED" /\ rest = 0 THEN "HEALTHY" ELSE st

MutProbed(ci, rest) == IF ci = "OPEN" /\ rest = 0 THEN "CLOSED" ELSE ci
Probed(ci, rest) == IF ci = "OPEN" /\ rest = 0 THEN "HALF_OPEN" ELSE ci

Usable(st, ci) == st \in Eligible /\ ci # "OPEN"

\* The counts after _release_binding(s); the mutant forgets to count.
MutVacated(s) == active
Vacated(s) ==
  [c \in Creds |-> IF bound[s] = c /\ active[c] > 0 THEN active[c] - 1
                                                    ELSE active[c]]

Rank(st) == CASE st = "HEALTHY" -> 0 [] st = "DEGRADED" -> 1 [] OTHER -> 2

\* select for a session that is to get a new binding: the pool of the provider
\* is refreshed, and one of the best that are usable is taken.
Assign(s, p, st, ci) ==
  LET health == [c \in Creds |-> IF Provider[c] = p THEN Healed(st[c], cooldown'[c])
                                                    ELSE st[c]]
      breaker == [c \in Creds |-> IF Provider[c] = p THEN Probed(ci[c], reopen'[c])
                                                     ELSE ci[c]]
      rows == {c \in Creds : Provider[c] = p /\ Usable(health[c], breaker[c])}
  IN /\ state' = health
     /\ circuit' = breaker
     /\ \/ \E c \in rows :
             /\ \A d \in rows : Rank(health[c]) <= Rank(health[d])
             /\ bound' = [bound EXCEPT ![s] = c]
             /\ left' = [left EXCEPT ![s] = LeaseTime]
             /\ active' = [Vacated(s) EXCEPT ![c] = @ + 1]
        \/ /\ rows = {}
           /\ bound' = [bound EXCEPT ![s] = None]
           /\ left' = [left EXCEPT ![s] = 0]
           /\ active' = Vacated(s)

\* The binding of s is one that select(provider_id = p) would use again.
Keeps(s, p) ==
  /\ bound[s] # None
  /\ left[s] > 0
  /\ Provider[bound[s]] = p
  /\ Usable(Healed(state[bound[s]], cooldown[bound[s]]),
            Probed(circuit[bound[s]], reopen[bound[s]]))

Reuse(s, p) ==
  /\ Keeps(s, p)
  /\ state' = [state EXCEPT ![bound[s]] = Healed(@, cooldown[bound[s]])]
  /\ circuit' = [circuit EXCEPT ![bound[s]] = Probed(@, reopen[bound[s]])]
  /\ UNCHANGED <<failures, cooldown, reopen, sessionVars>>

Select(s, p) ==
  /\ ~Keeps(s, p)
  /\ UNCHANGED <<failures, cooldown, reopen>>
  /\ Assign(s, p, state, circuit)

RecordSuccess(s) ==
  LET c == bound[s]
      health == Healed(state[c], cooldown[c])
  IN /\ c # None
     /\ failures' = [failures EXCEPT ![c] = 0]
     /\ circuit' = [circuit EXCEPT ![c] = "CLOSED"]
     /\ state' = [state EXCEPT ![c] = IF health = "DEGRADED" THEN "HEALTHY"
                                                             ELSE health]
     /\ UNCHANGED <<cooldown, reopen, sessionVars>>

\* record_failure with AUTH, QUOTA or MODEL_UNAVAILABLE.
StateAfter == [AUTH |-> "AUTH_INVALID", QUOTA |-> "QUOTA_EXHAUSTED",
               MODEL_UNAVAILABLE |-> "DEGRADED"]

RecordBadState(s, error) ==
  /\ bound[s] # None
  /\ UNCHANGED <<failures, cooldown, reopen>>
  /\ Assign(s, Provider[bound[s]],
            [state EXCEPT ![bound[s]] = StateAfter[error]], circuit)

RecordRateLimit(s, retryAfter) ==
  /\ bound[s] # None
  /\ cooldown' = [cooldown EXCEPT ![bound[s]] = retryAfter]
  /\ UNCHANGED <<failures, reopen>>
  /\ Assign(s, Provider[bound[s]],
            [state EXCEPT ![bound[s]] = "RATE_LIMITED"], circuit)

\* TRANSIENT_NETWORK or PROVIDER_5XX, below the threshold and from it on.
RecordTransient(s) ==
  /\ bound[s] # None
  /\ failures[bound[s]] + 1 < Threshold
  /\ failures' = [failures EXCEPT ![bound[s]] = @ + 1]
  /\ UNCHANGED <<state, circuit, cooldown, reopen, sessionVars>>

RecordTripping(s) ==
  /\ bound[s] # None
  /\ failures[bound[s]] + 1 >= Threshold
  /\ failures' = [failures EXCEPT ![bound[s]] = Threshold]
  /\ reopen' = [reopen EXCEPT ![bound[s]] = CircuitTime]
  /\ UNCHANGED cooldown
  /\ Assign(s, Provider[bound[s]], state,
            [circuit EXCEPT ![bound[s]] = "OPEN"])

ReleaseSession(s) ==
  /\ bound[s] # None
  /\ bound' = [bound EXCEPT ![s] = None]
  /\ left' = [left EXCEPT ![s] = 0]
  /\ active' = Vacated(s)
  /\ UNCHANGED credVars

\* safe_snapshot refreshes every credential.
Snapshot ==
  /\ state' = [c \in Creds |-> Healed(state[c], cooldown[c])]
  /\ circuit' = [c \in Creds |-> Probed(circuit[c], reopen[c])]
  /\ UNCHANGED <<failures, cooldown, reopen, sessionVars>>

Less(n) == IF n = 0 THEN 0 ELSE n - 1

Tick ==
  /\ cooldown' = [c \in Creds |-> Less(cooldown[c])]
  /\ reopen' = [c \in Creds |-> Less(reopen[c])]
  /\ left' = [s \in Sessions |-> Less(left[s])]
  /\ UNCHANGED <<state, failures, circuit, active, bound>>

SessionStep(s) ==
  \/ \E p \in Providers : Reuse(s, p) \/ Select(s, p)
  \/ RecordSuccess(s)
  \/ \E error \in DOMAIN StateAfter : RecordBadState(s, error)
  \/ \E retryAfter \in 0..MaxRetryAfter : RecordRateLimit(s, retryAfter)
  \/ RecordTransient(s) \/ RecordTripping(s) \/ ReleaseSession(s)

Next == Snapshot \/ Tick \/ \E s \in Sessions : SessionStep(s)

Spec == Init /\ [][Next]_vars

-----------------------------------------------------------------------------
Users(c) == {s \in Sessions : bound[s] = c}

\* The sessions counted on a credential are those the manager started with and
\* those bound to it: no path of select, record_failure or release_session
\* leaves a count behind or takes one twice.
ActiveIsCount ==
  \A c \in Creds : active[c] = Baseline[c] + Cardinality(Users(c))

\* A circuit is closed as long as fewer failures in a row than the threshold
\* were reported, whichever sessions reported them: record_success,
\* record_failure and _refresh.
CircuitMatchesFailures ==
  \A c \in Creds : circuit[c] = "CLOSED" <=> failures[c] < Threshold

\* A credential whose authentication or quota failed, once the sessions that
\* still used it have left it, stays as it is and gets no session again: there
\* is no cooldown for it in _refresh and no report about it any more.
InvalidStaysUnused ==
  [][\A c \in Creds :
       state[c] \in Invalid /\ Users(c) = {} =>
         state'[c] = state[c] /\ Users(c)' = {}]_vars
=============================================================================
