-------------------------- MODULE ActionDispatcher --------------------------
(***************************************************************************)
(* ActionDispatcher.execute of the Unified Action Fabric                   *)
(* (src/src/fa3_uaf.py): one governed call from the approval to the        *)
(* releases of its finally block.  The provider is the business of a       *)
(* module that EXTENDS this one: it takes a call in phase "acquired" to    *)
(* "answered" or, when it raises, to "unwinding".                          *)
(*                                                                         *)
(* One caller at a time: the repository builds a dispatcher in a process   *)
(* that makes its calls one after the other.  A call that is refused       *)
(* before its approval is consumed changes nothing and has no action.      *)
(***************************************************************************)
EXTENDS Naturals, FiniteSets

CONSTANTS Actions,    \* action ids of the registry
          Approved,   \* those whose contract requires an approval
          Targets,    \* what a call acts on
          MaxGrants,  \* bound on the approval grants ever issued
          Secrets     \* secret references a call may carry

ASSUME DispatcherAssumption ==
  /\ Approved \subseteq Actions
  /\ MaxGrants \in Nat

VARIABLES phase,      \* where the current call is
          call,       \* its request
          consumed,   \* grants the approval authority has seen used
          resource,   \* the call holds an HRB lease: resource_lease
          secrets     \* the secret projection leases it holds

dispatcherVars == <<phase, call, consumed, resource, secrets>>

Grants == 1..MaxGrants

Phases == {"idle", "admitted", "acquired", "provider", "answered", "unwinding"}

Calls == [action : Actions, target : Targets, grant : Grants \cup {0},
          secrets : SUBSET Secrets]

NoCall == [action |-> "none", grant |-> 0, secrets |-> {}]

DispatcherTypeOK ==
  /\ phase \in Phases
  /\ call \in Calls \cup {NoCall}
  /\ consumed \subseteq Grants
  /\ resource \in BOOLEAN
  /\ secrets \subseteq call.secrets

DispatcherInit ==
  /\ phase = "idle"
  /\ call = NoCall
  /\ consumed = {}
  /\ resource = FALSE
  /\ secrets = {}

\* verify_approval confirms a grant and consumes it (the mutant only confirms).
MutConsume(c) == UNCHANGED consumed
Consume(c) ==
  consumed' = consumed \cup (IF c.action \in Approved THEN {c.grant} ELSE {})

\* Grants are numbered in the order they are first used, so a call carries one
\* that was used before or the next one.
Presentable(c) ==
  IF c.action \in Approved
    THEN /\ c.grant \in Grants \ consumed
         /\ c.grant <= Cardinality(consumed) + 1
    ELSE c.grant = 0

\* execute, up to the selection of a provider: authorized and approved.
Admit(c) ==
  /\ phase = "idle"
  /\ Presentable(c)
  /\ Consume(c)
  /\ call' = c
  /\ phase' = "admitted"
  /\ UNCHANGED <<resource, secrets>>

\* select finds no connected provider, or the decision names one that is not a
\* candidate: the call is over and its grant is spent.
Unserved(c) ==
  /\ phase = "idle"
  /\ Presentable(c)
  /\ c.grant # 0
  /\ Consume(c)
  /\ UNCHANGED <<phase, call, resource, secrets>>

\* acquire_resources, an HRB lease or a denial.
AcquireResource ==
  /\ phase = "admitted"
  /\ resource' = TRUE
  /\ phase' = "acquired"
  /\ UNCHANGED <<call, consumed, secrets>>

\* Every way out of the try block goes through the finally block; the mutant
\* takes the denials out of it.
MutRaise == phase' = "idle"
Raise == phase' = "unwinding"

DenyResource ==
  /\ phase = "admitted"
  /\ Raise
  /\ UNCHANGED <<call, consumed, resource, secrets>>

\* The loop over secret_refs: one projection lease each, until one is denied.
AcquireSecret(s) ==
  /\ phase = "acquired"
  /\ s \in call.secrets \ secrets
  /\ secrets' = secrets \cup {s}
  /\ UNCHANGED <<phase, call, consumed, resource>>

DenySecret ==
  /\ phase = "acquired"
  /\ secrets # call.secrets
  /\ Raise
  /\ UNCHANGED <<call, consumed, resource, secrets>>

Equipped == phase = "acquired" /\ secrets = call.secrets

\* The evidence sink takes the receipt, or the output or the sink is refused,
\* after the action took place.
Record ==
  /\ phase = "answered"
  /\ Raise
  /\ UNCHANGED <<call, consumed, resource, secrets>>

\* finally: the secret leases first, in reverse order, then the resource lease.
ReleaseSecret(s) ==
  /\ phase = "unwinding"
  /\ s \in secrets
  /\ secrets' = secrets \ {s}
  /\ UNCHANGED <<phase, call, consumed, resource>>

Finish ==
  /\ secrets' = {}
  /\ resource' = FALSE
  /\ phase' = "idle"
  /\ call' = NoCall
  /\ UNCHANGED consumed

ReleaseResource ==
  /\ phase = "unwinding"
  /\ secrets = {}
  /\ Finish

\* A release that raises leaves the finally block at once: whatever the call
\* still held is lost, given back by nobody.
ReleaseRaises ==
  /\ phase = "unwinding"
  /\ secrets # {} \/ resource
  /\ Finish

\* What the dispatcher does of itself once a call is admitted.
DispatcherStep ==
  \/ AcquireResource \/ DenyResource \/ DenySecret
  \/ Record \/ ReleaseResource \/ ReleaseRaises
  \/ \E s \in Secrets : AcquireSecret(s) \/ ReleaseSecret(s)

\* However a call ends, the HRB lease and the secret leases it took were given
\* back, or a release hook raised: the finally block of
\* ActionDispatcher.execute.
GivenBack == phase = "idle" => ~resource /\ secrets = {}
=============================================================================
