----------------------------- MODULE HrbEviction -----------------------------
(***************************************************************************)
(* An eviction together with the parties that answer it: the hook that     *)
(* revokes and zeroizes secret projections                                 *)
(* (src/src/fa3_hrb_lease_lifecycle.py, SecretBrokerProjectionLifecycleHook), *)
(* the Secret Broker's ProjectionLeaseStore behind its socket              *)
(* (src/src/fa3_secret_broker.py), the systemd/cgroup adapter and the      *)
(* workload that runs in the scope.  The ledger is LeaseLedger; this       *)
(* module says what each external call of evict may return and do.         *)
(*                                                                         *)
(* The broker serves one request at a time, so a request is one action; a  *)
(* reply can be lost, or never come, after the request took effect.  The   *)
(* workload asks for projections, writes copies of them to files, tells    *)
(* the broker about one file after the other and exits whenever it likes:  *)
(* that code is outside the repository.  renew keeps the runtime binding,  *)
(* so one scope serves every generation of a lease.                        *)
(***************************************************************************)
EXTENDS LeaseLedger

CONSTANTS NoProjection,
          MaxCopies     \* bound on the files that a workload writes of one secret

ASSUME ProjectionAssumption ==
  NoProjection \notin Projections /\ MaxCopies \in Nat

VARIABLES store,     \* the broker's SecretProjectionLease table
          file,      \* file[p][c]: what became of copy c of projected secret p
          workload,  \* workload[l]: what runs in the scope of l
          signalled, \* signalled[l]: an eviction sent it TERM or KILL
          freed,     \* freed[l]: release_resources was called for it
          hook       \* where the hook is in its loop over the projections

worldVars == <<store, file, workload, signalled, freed, hook>>
vars == <<ledgerVars, worldVars>>

\* The files that hold a projected secret, numbered as they are written.
Copies == 1..MaxCopies
NoCopy == 0

Entry == [state : {"NONE", "ACTIVE", "REVOKED", "ZEROIZED"},
          lease : Leases \cup {NoLease}, generation : 0..MaxGeneration,
          artifact : Copies \cup {NoCopy}]

NoEntry == [state |-> "NONE", lease |-> NoLease, generation |-> 0,
            artifact |-> NoCopy]

IdleHook == [at |-> "IDLE", ref |-> NoProjection, target |-> NoCopy, todo |-> {}]

\* STUCK: the broker took a request and does not answer it.
HookSteps == {"IDLE", "REVOKE", "ZEROIZE", "ACK", "STUCK"}

Hook == [at : HookSteps, ref : Projections \cup {NoProjection},
         target : Copies \cup {NoCopy}, todo : SUBSET Projections]

WorldInit ==
  /\ store = [p \in Projections |-> NoEntry]
  /\ file = [p \in Projections |-> [c \in Copies |-> "none"]]
  /\ workload = [l \in Leases |-> "running"]
  /\ signalled = [l \in Leases |-> FALSE]
  /\ freed = [l \in Leases |-> FALSE]
  /\ hook = IdleHook

-----------------------------------------------------------------------------
(* The Secret Broker and the workload.                                     *)

\* get with a projection_lease_request: the broker takes the lease id and the
\* generation from the request and does not ask the HRB about them.
IssueProjection(p, l, g) ==
  /\ store[p].state = "NONE"
  /\ workload[l] = "running"
  /\ records[l][g].state # "NONE"
  /\ store' = [store EXCEPT ![p] = [state |-> "ACTIVE", lease |-> l,
                                    generation |-> g, artifact |-> NoCopy]]
  /\ UNCHANGED <<ledgerVars, file, workload, signalled, freed, hook>>

\* The workload writes the secret it was given to a file below /run.  A file
\* that it removes or changes makes HookZeroize fail, which it may anyway.
WriteFile(p, c) ==
  /\ store[p].state # "NONE"
  /\ workload[store[p].lease] = "running"
  /\ \A d \in Copies : file[p][d] = "none" <=> c <= d
  /\ file' = [file EXCEPT ![p][c] = "written"]
  /\ UNCHANGED <<ledgerVars, store, workload, signalled, freed, hook>>

MutBindable(p) == store[p].state # "NONE"

\* projection_bind_artifact needs an ACTIVE projection lease.  It can also be
\* refused for an expired lease: then nothing happens.
Bindable(p) == store[p].state = "ACTIVE"

\* The entry has room for one artifact: that of an earlier bind is forgotten.
BindArtifact(p, c) ==
  /\ file[p][c] = "written"
  /\ Bindable(p)
  /\ store' = [store EXCEPT ![p].artifact = c]
  /\ UNCHANGED <<ledgerVars, file, workload, signalled, freed, hook>>

WorkloadExit(l) ==
  /\ workload[l] = "running"
  /\ workload' = [workload EXCEPT ![l] = "gone"]
  /\ UNCHANGED <<ledgerVars, store, file, signalled, freed, hook>>

-----------------------------------------------------------------------------
(* The hook: for each attached projection revoke, zeroize, acknowledge.    *)

\* A failed request, a lost reply or an exception ends the hook: the
\* projections it has not reached stay as they are.
HookGivesUp ==
  /\ EvictSecrets(FALSE)
  /\ hook' = IdleHook

\* A request that is not answered: _request sets no timeout and waits.
HookWaits ==
  /\ hook' = [hook EXCEPT !.at = "STUCK"]
  /\ UNCHANGED ledgerVars

HookBegin ==
  /\ eviction.call = "SECRETS"
  /\ hook.at = "IDLE"
  /\ hook' = [IdleHook EXCEPT !.at = "REVOKE", !.todo = 
                records[eviction.lease][eviction.generation].refs]
  /\ UNCHANGED <<ledgerVars, store, file, workload, signalled, freed>>

\* The store compares the lease, the generation and the binding digest.
BoundToEvictee(p) ==
  /\ store[p].lease = eviction.lease
  /\ store[p].generation = eviction.generation

\* The reply names the artifact as it is now.
HookRevoke(p) ==
  /\ hook.at = "REVOKE"
  /\ p \in hook.todo
  /\ \/ /\ BoundToEvictee(p)
        /\ store[p].state \in {"ACTIVE", "REVOKED"}
        /\ store' = [store EXCEPT ![p].state = "REVOKED"]
        /\ \/ /\ hook' = [hook EXCEPT !.at = IF store[p].artifact = NoCopy
                                             THEN "ACK" ELSE "ZEROIZE",
                                      !.ref = p,
                                      !.target = store[p].artifact]
              /\ UNCHANGED ledgerVars
           \/ HookGivesUp \/ HookWaits   \* the reply is lost, or is not sent
     \/ /\ HookGivesUp \/ HookWaits      \* refused, no connection, or no answer
        /\ UNCHANGED store
  /\ UNCHANGED <<file, workload, signalled, freed>>

\* Overwrite and unlink the file the broker named, or fail on it.
HookZeroize ==
  /\ hook.at = "ZEROIZE"
  /\ \/ /\ file[hook.ref][hook.target] = "written"
        /\ file' = [file EXCEPT ![hook.ref][hook.target] = "unlinked"]
        /\ hook' = [hook EXCEPT !.at = "ACK"]
        /\ UNCHANGED ledgerVars
     \/ HookGivesUp /\ UNCHANGED file
  /\ UNCHANGED <<store, workload, signalled, freed>>

MutReturnAfterFirst == [IdleHook EXCEPT !.at = "REVOKE"]

\* The loop goes on with the refs that are left.
NextRef == [IdleHook EXCEPT !.at = "REVOKE", !.todo = hook.todo \ {hook.ref}]

HookAck ==
  /\ hook.at = "ACK"
  /\ \/ /\ BoundToEvictee(hook.ref)
        /\ store[hook.ref].state = "REVOKED"
        /\ store' = [store EXCEPT ![hook.ref].state = "ZEROIZED",
                                  ![hook.ref].artifact = NoCopy]
        /\ \/ hook' = NextRef /\ UNCHANGED ledgerVars
           \/ HookGivesUp \/ HookWaits
     \/ (HookGivesUp \/ HookWaits) /\ UNCHANGED store
  /\ UNCHANGED <<file, workload, signalled, freed>>

\* The end of the broker's connection: the hook gets an empty reply and raises.
BrokerCloses ==
  /\ hook.at = "STUCK"
  /\ HookGivesUp
  /\ UNCHANGED <<store, file, workload, signalled, freed>>

HookSucceeds ==
  /\ hook.at = "REVOKE"
  /\ hook.todo = {}
  /\ EvictSecrets(TRUE)
  /\ hook' = IdleHook
  /\ UNCHANGED <<store, file, workload, signalled, freed>>

-----------------------------------------------------------------------------
(* The systemd/cgroup adapter.                                             *)

\* verify_binding finds the bound process in the bound cgroup, or fails.
CheckBinding ==
  /\ \E bound \in BOOLEAN :
       /\ bound => workload[eviction.lease] = "running"
       /\ EvictBinding(bound)
  /\ UNCHANGED worldVars

\* TERM to the scope, then a group-level kill.  Either may fail, and on an
\* empty scope TERM may fail as well.
Terminate ==
  /\ \E ok \in BOOLEAN, sent \in BOOLEAN :
       /\ ok => sent
       /\ EvictTerminate(ok)
       /\ signalled' = [signalled EXCEPT ![eviction.lease] = @ \/ sent]
  /\ UNCHANGED <<store, file, workload, freed, hook>>

MutWaitForDeath(l) == {TRUE} \cap {workload[l] = "gone"}

\* verify_dead answers within its timeout: dead only of a workload that is
\* gone, not dead if it does not see that in time.
DeathAnswers(l) == {FALSE} \cup ({TRUE} \cap {workload[l] = "gone"})

\* cleanup and release_resources are called only for a dead workload.
VerifyDead ==
  /\ \E dead \in DeathAnswers(eviction.lease), released \in BOOLEAN :
       /\ EvictVerify(dead, released)
       /\ freed' = [freed EXCEPT ![eviction.lease] = @ \/ dead]
  /\ UNCHANGED <<store, file, workload, signalled, hook>>

-----------------------------------------------------------------------------
\* The eviction in progress; its thread holds the ledger lock.
EvictionStep ==
  \/ HookBegin
  \/ \E p \in Projections : HookRevoke(p)
  \/ HookZeroize
  \/ HookAck
  \/ HookSucceeds
  \/ eviction.call = "BINDING" /\ CheckBinding
  \/ eviction.call = "TERMINATE" /\ Terminate
  \/ eviction.call = "VERIFY" /\ VerifyDead

\* The broker mints the random ids: one that it did not issue yet is known to
\* nobody who could attach it.
Minted == {p \in Projections : store[p].state # "NONE"}

LedgerStep ==
  /\ (\E l \in Leases : Method(l)) \/ Environment
  /\ \A l \in Leases, g \in Generations : records'[l][g].refs \subseteq Minted
  /\ UNCHANGED worldVars

WorldStep ==
  \/ \E p \in Projections :
       \/ \E l \in Leases, g \in Generations : IssueProjection(p, l, g)
       \/ \E c \in Copies : WriteFile(p, c) \/ BindArtifact(p, c)
  \/ \E l \in Leases : WorkloadExit(l)
  \/ BrokerCloses

SystemInit == Init /\ WorldInit

SystemNext == EvictionStep \/ LedgerStep \/ WorldStep

\* The thread in evict runs on.  The adapter's calls return (subprocesses and
\* bounded loops); nothing makes a broker answer that does not, or end.
SystemSpec == SystemInit /\ [][SystemNext]_vars /\ WF_vars(EvictionStep)

-----------------------------------------------------------------------------
(* Properties.                                                             *)

\* Every variable of the parties keeps its type, and the hook is in its loop
\* only while evict waits for it.
WorldTypeOK ==
  /\ store \in [Projections -> Entry]
  /\ file \in [Projections -> [Copies -> {"none", "written", "unlinked"}]]
  /\ workload \in [Leases -> {"running", "gone"}]
  /\ signalled \in [Leases -> BOOLEAN]
  /\ freed \in [Leases -> BOOLEAN]
  /\ hook \in Hook
  /\ hook.at # "IDLE" => eviction.call = "SECRETS"
  /\ hook.at \in {"ZEROIZE", "ACK"} => hook.ref \in hook.todo

\* EVICTED certifies the whole teardown: the workload is gone, its resources
\* were released, and the broker holds every projection attached to the
\* generation as zeroized, whatever was lost or raced on the way.
EvictedMeansReclaimed ==
  \A l \in Leases, g \in Generations :
    records[l][g].state = "EVICTED" =>
      /\ workload[l] = "gone"
      /\ freed[l]
      /\ \A p \in records[l][g].refs : store[p].state = "ZEROIZED"

\* A projection becomes ZEROIZED only when the file that the broker has bound to it
\* is not on disk, and nothing is bound to it from then on: no bind can slip in
\* between revoke, zeroization and acknowledgement.  It says nothing of a file
\* whose bind was replaced by a later one: the broker has forgotten it.
ZeroizedFileIsGone ==
  [][\A p \in Projections : store'[p].state = "ZEROIZED" =>
       /\ store'[p].artifact = NoCopy
       /\ store[p].artifact # NoCopy =>
            file[p][store[p].artifact] # "written"]_vars

\* The workload is signalled only when each projection attached to the
\* generation is zeroized, or the failure to do so is recorded and the
\* generation cannot end EVICTED.
SecretsBeforeSignal ==
  [][\A l \in Leases :
       ~signalled[l] /\ signalled'[l] =>
         \/ eviction.failed
         \/ \A p \in records[l][eviction.generation].refs :
              store[p].state = "ZEROIZED"]_vars

\* An eviction that took the ledger lock gives it back with a final state, whether
\* requests are refused, replies lost or the workload refuses to die, unless the
\* Secret Broker leaves a request unanswered for ever and keeps the connection:
\* then the ledger stays locked.
EvictionConcludes ==
  []<>(hook.at # "STUCK") =>
    \A l \in Leases, g \in Generations :
      eviction.lease = l /\ eviction.generation = g
        ~> records[l][g].state \in Terminal /\ LockFree

\* The contract asks for revoke and zeroize when the workload exits: once the
\* current generation is EVICTED nothing attached to the lease in any of its
\* generations may still be projected.  A renewal drops the attached ids.
NothingOutlivesEviction ==
  \A l \in Leases :
    current[l] > 0 /\ records[l][current[l]].state = "EVICTED" =>
      \A g \in 1..current[l] : \A p \in records[l][g].refs :
        store[p].state # "ACTIVE"
=============================================================================
