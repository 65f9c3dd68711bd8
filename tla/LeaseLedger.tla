----------------------------- MODULE LeaseLedger -----------------------------
(***************************************************************************)
(* The lease ledger of the Host Resource Broker                            *)
(* (src/src/fa3_hrb_lease_lifecycle.py): class LeaseLedger, whose records  *)
(* the keyring authenticates, and the hash-chained evidence log that       *)
(* receives one event per finished eviction.                               *)
(*                                                                         *)
(* Every ledger method runs under the ledger's re-entrant lock, so each is *)
(* one action, except evict: it calls the secret hook and the runtime      *)
(* adapter while it holds the lock, and during those calls time passes,    *)
(* the keyring (which has a lock of its own) is rotated and retired, and   *)
(* the world outside moves.  Evict is therefore split at its external      *)
(* calls, and `eviction` is the holder of the lock between two pieces.     *)
(* What a call returns is a parameter of the piece: here it is chosen      *)
(* freely, and HrbEviction supplies the Secret Broker and the systemd      *)
(* adapter that really answer.                                             *)
(*                                                                         *)
(* Left out: the contents of the runtime binding, the UTC timestamps and   *)
(* the state history (audit data that no guard reads).                     *)
(***************************************************************************)
EXTENDS LeaseKeyring, Naturals, Sequences

CONSTANTS Leases,         \* lease ids
          NoLease,        \* no lease id
          MaxGeneration,  \* bound on the generations of one lease
          Projections,    \* ids of secret projection leases
          MaxBoot         \* bound on the number of reboots

ASSUME LedgerAssumption ==
  /\ MaxGeneration \in Nat \ {0}
  /\ MaxBoot \in Nat
  /\ NoLease \notin Leases

VARIABLES records,    \* records[l][g]: the record of generation g of lease l
          current,    \* current[l]: the current generation of l, 0 if none
          boot,       \* the identity of the running boot
          eviction,   \* the eviction that holds the ledger lock
          evidence    \* the events handed to the evidence authority

ledgerVars == <<records, current, keyringVars, boot, eviction, evidence>>

-----------------------------------------------------------------------------
Generations == 1..MaxGeneration
Boots == 0..MaxBoot

Usable == {"ISSUED", "ACTIVE"}
Terminal == {"EVICTED", "QUARANTINED"}

\* The states a record rests in.  EVICTION_FAILED is passed through on the
\* way to QUARANTINED inside one critical section.
States == Usable \cup {"REVOKING", "EVICTING", "VERIFYING"} \cup Terminal

Record == [state : States \cup {"NONE"}, signer : KeyIds, boot : Boots,
           expired : BOOLEAN, refs : SUBSET Projections,
           restartBlocked : BOOLEAN, supersededBy : 0..MaxGeneration]

NoRecord == [state |-> "NONE", signer |-> FirstKey, boot |-> 0,
             expired |-> FALSE, refs |-> {}, restartBlocked |-> FALSE,
             supersededBy |-> 0]

\* The external call evict is about to make.
Calls == {"SECRETS", "BINDING", "TERMINATE", "VERIFY"}

NoEviction == [call |-> "NONE", lease |-> NoLease, generation |-> 0,
               failed |-> FALSE]

Eviction == [call : Calls, lease : Leases, generation : Generations,
             failed : BOOLEAN]

Event == [lease : Leases, generation : Generations, state : Terminal]

Init ==
  /\ records = [l \in Leases |-> [g \in Generations |-> NoRecord]]
  /\ current = [l \in Leases |-> 0]
  /\ KeyringInit
  /\ boot = 0
  /\ eviction = NoEviction
  /\ evidence = <<>>

-----------------------------------------------------------------------------
(* Guards and record updates shared by the methods.                        *)

LockFree == eviction = NoEviction

\* assert_current_valid: same boot, and the monotonic deadline not reached.
Fresh(r) == r.boot = boot /\ ~r.expired

MutAnyGeneration(l, g) == records[l][g].state # "NONE"

\* _require_current
IsCurrent(l, g) == g = current[l] /\ records[l][g].state # "NONE"

Store(l, g, r) == records' = [records EXCEPT ![l][g] = r]

IssuedRecord == Signed([NoRecord EXCEPT !.state = "ISSUED", !.boot = boot])

MutSupersededStaysActive(r, g) == Signed([r EXCEPT !.supersededBy = g + 1])

\* renew leaves the old record REVOKING without going through begin_revoke.
SupersededRecord(r, g) ==
  Signed([r EXCEPT !.state = "REVOKING", !.supersededBy = g + 1])

MutRevokableForever(r) == r.state # "NONE"

\* begin_revoke accepts a usable record, and a revoking one again.
Revokable(r) == r.state \in Usable \cup {"REVOKING"}

MutRestartStaysOpen(r) == Signed([r EXCEPT !.state = "REVOKING"])

\* begin_revoke: no new admission or restart from here on.
RevokingRecord(r) ==
  Signed([r EXCEPT !.state = "REVOKING", !.restartBlocked = TRUE])

\* TRANSITIONS: only an ISSUED record may become ACTIVE.
Activatable(r) == r.state = "ISSUED"

-----------------------------------------------------------------------------
(* The methods that do not leave the critical section.                     *)

\* issue with the generation every caller leaves at 1.
Issue(l) ==
  /\ LockFree
  /\ records[l][1].state = "NONE"
  /\ Store(l, 1, IssuedRecord)
  /\ current' = [current EXCEPT ![l] = 1]
  /\ UNCHANGED <<keyringVars, boot, eviction, evidence>>

\* activate reads neither the boot id nor the deadline.
Activate(l, g) ==
  /\ LockFree
  /\ IsCurrent(l, g)
  /\ Trusted(records[l][g])
  /\ Activatable(records[l][g])
  /\ Store(l, g, Signed([records[l][g] EXCEPT !.state = "ACTIVE"]))
  /\ UNCHANGED <<current, keyringVars, boot, eviction, evidence>>

\* renew: the successor has the same runtime binding, a new deadline and no
\* secret projection.
Renew(l, g) ==
  /\ LockFree
  /\ IsCurrent(l, g)
  /\ Trusted(records[l][g])
  /\ Fresh(records[l][g])
  /\ records[l][g].state = "ACTIVE"
  /\ g < MaxGeneration
  /\ records' = [records EXCEPT
       ![l][g] = SupersededRecord(@, g),
       ![l][g + 1] = [IssuedRecord EXCEPT !.state = "ACTIVE"]]
  /\ current' = [current EXCEPT ![l] = g + 1]
  /\ UNCHANGED <<keyringVars, boot, eviction, evidence>>

\* attach_secret_projection_lease; an id that is already there changes nothing.
Attach(l, g, p) ==
  /\ LockFree
  /\ IsCurrent(l, g)
  /\ Trusted(records[l][g])
  /\ Fresh(records[l][g])
  /\ records[l][g].state = "ACTIVE"
  /\ p \notin records[l][g].refs
  /\ Store(l, g, Signed([records[l][g] EXCEPT !.refs = @ \cup {p}]))
  /\ UNCHANGED <<current, keyringVars, boot, eviction, evidence>>

\* What begin_revoke checks, by itself or as the first step of evict.
MayRevoke(l, g) ==
  /\ LockFree
  /\ IsCurrent(l, g)
  /\ Trusted(records[l][g])
  /\ Revokable(records[l][g])

\* begin_revoke called by itself, or evict whose adapter registry has no
\* adapter for the backend: the exception leaves the record revoking.
BeginRevoke(l, g) ==
  /\ MayRevoke(l, g)
  /\ Store(l, g, RevokingRecord(records[l][g]))
  /\ UNCHANGED <<current, keyringVars, boot, eviction, evidence>>

-----------------------------------------------------------------------------
(* evict, cut at its calls to the secret hook and the runtime adapter.     *)

\* The record reaches its final state, the event is appended and the lock is
\* released.
Conclude(l, g, r, final) ==
  /\ Store(l, g, Signed([r EXCEPT !.state = final]))
  /\ evidence' = Append(evidence,
                        [lease |-> l, generation |-> g, state |-> final])
  /\ eviction' = NoEviction
  /\ UNCHANGED <<current, keyringVars, boot>>

\* begin_revoke and adapter.block_restart: a scope that can be restarted is
\* quarantined at once, with its secrets and its processes left alone.
EvictBegin(l, g, restartBlocked) ==
  /\ MayRevoke(l, g)
  /\ \/ /\ restartBlocked
        /\ Store(l, g, RevokingRecord(records[l][g]))
        /\ eviction' = [call |-> "SECRETS", lease |-> l, generation |-> g,
                        failed |-> FALSE]
        /\ UNCHANGED <<current, keyringVars, boot, evidence>>
     \/ /\ ~restartBlocked
        /\ Conclude(l, g, RevokingRecord(records[l][g]), "QUARANTINED")

\* The holder of the lock comes back from a call; `next` is its next call.
Proceed(called, next, ok) ==
  /\ eviction.call = called
  /\ eviction' = [eviction EXCEPT !.call = next,
                                  !.failed = @ \/ ~ok]

\* secret_hook.revoke_and_zeroize: a failure is remembered, and the workload
\* is contained all the same.
EvictSecrets(ok) ==
  /\ Proceed("SECRETS", "BINDING", ok)
  /\ UNCHANGED <<records, current, keyringVars, boot, evidence>>

\* adapter.verify_binding: a mismatch ends the eviction without any kill.
EvictBinding(bound) ==
  LET l == eviction.lease
      g == eviction.generation
  IN  \/ /\ bound
         /\ Proceed("BINDING", "TERMINATE", TRUE)
         /\ Store(l, g, Signed([records[l][g] EXCEPT !.state = "EVICTING"]))
         /\ UNCHANGED <<current, keyringVars, boot, evidence>>
      \/ /\ ~bound
         /\ eviction.call = "BINDING"
         /\ Conclude(l, g, records[l][g], "QUARANTINED")

\* adapter.terminate and adapter.group_kill.
EvictTerminate(ok) ==
  LET l == eviction.lease
      g == eviction.generation
  IN  /\ Proceed("TERMINATE", "VERIFY", ok)
      /\ Store(l, g, Signed([records[l][g] EXCEPT !.state = "VERIFYING"]))
      /\ UNCHANGED <<current, keyringVars, boot, evidence>>

MutOutcomeIgnoresFailures(dead, released) ==
  IF dead /\ released THEN "EVICTED" ELSE "QUARANTINED"

\* No failure may have been recorded on the way.
Outcome(dead, released) ==
  IF dead /\ released /\ ~eviction.failed THEN "EVICTED" ELSE "QUARANTINED"

\* adapter.verify_dead, and when it is dead adapter.cleanup and
\* adapter.release_resources (`released`: both succeeded).
EvictVerify(dead, released) ==
  LET l == eviction.lease
      g == eviction.generation
  IN  /\ eviction.call = "VERIFY"
      /\ Conclude(l, g, records[l][g], Outcome(dead, released))

-----------------------------------------------------------------------------
(* The keyring and the clock move whoever holds the ledger lock.           *)

Rotate(k) ==
  /\ RotateKey(k)
  /\ UNCHANGED <<records, current, boot, eviction, evidence>>

Retire(k) ==
  /\ RetireKey(k)
  /\ UNCHANGED <<records, current, boot, eviction, evidence>>

\* The monotonic clock reaches the deadline of a record; no method asks for it
\* once the record is revoking.
Expire(l, g) ==
  /\ records[l][g].state \in Usable
  /\ ~records[l][g].expired
  /\ Store(l, g, [records[l][g] EXCEPT !.expired = TRUE])
  /\ UNCHANGED <<current, keyringVars, boot, eviction, evidence>>

\* The boot id the ledger reads changes.
Reboot ==
  /\ boot < MaxBoot
  /\ boot' = boot + 1
  /\ UNCHANGED <<records, current, keyringVars, eviction, evidence>>

-----------------------------------------------------------------------------
Method(l) ==
  \/ Issue(l)
  \/ \E g \in Generations :
       \/ Activate(l, g)
       \/ Renew(l, g)
       \/ \E p \in Projections : Attach(l, g, p)
       \/ BeginRevoke(l, g)
       \/ \E restartBlocked \in BOOLEAN : EvictBegin(l, g, restartBlocked)

Environment ==
  \/ \E k \in KeyIds : Rotate(k) \/ Retire(k)
  \/ \E l \in Leases, g \in Generations : Expire(l, g)
  \/ Reboot

Next ==
  \/ \E l \in Leases : Method(l)
  \/ \E ok \in BOOLEAN : EvictSecrets(ok) \/ EvictBinding(ok)
                           \/ EvictTerminate(ok)
  \/ \E dead, released \in BOOLEAN : EvictVerify(dead, released)
  \/ Environment

Spec == Init /\ [][Next]_ledgerVars

-----------------------------------------------------------------------------
(* Properties.                                                             *)

\* Every variable keeps its type.
TypeOK ==
  /\ records \in [Leases -> [Generations -> Record]]
  /\ current \in [Leases -> 0..MaxGeneration]
  /\ keys \in SUBSET KeyIds
  /\ activeKey \in keys
  /\ boot \in Boots
  /\ eviction \in Eviction \cup {NoEviction}
  /\ evidence \in Seq(Event)

\* The generations of a lease form one chain: all those before the current
\* one were superseded by their successor and are revoking, none after it
\* exists.  So a lease has at most one usable generation and the ledger
\* grants it under its current number only.
GenerationChain ==
  \A l \in Leases, g \in Generations :
    /\ g < current[l] => /\ records[l][g].state = "REVOKING"
                         /\ records[l][g].supersededBy = g + 1
    /\ g = current[l] => /\ records[l][g].state # "NONE"
                         /\ records[l][g].supersededBy = 0
    /\ g > current[l] => records[l][g] = NoRecord

\* The state of the evicted record while the holder of the lock is in a call.
StateDuring(call) ==
  CASE call = "TERMINATE" -> "EVICTING"
    [] call = "VERIFY" -> "VERIFYING"
    [] OTHER -> "REVOKING"

\* A generation is torn down only by the eviction that holds the lock, on the
\* current generation, in step with its calls, and after restarts were blocked;
\* a record that reached a final state was blocked as well.
TeardownIsGuarded ==
  \A l \in Leases, g \in Generations :
    LET r == records[l][g]
        held == eviction.lease = l /\ eviction.generation = g
    IN  /\ held => /\ g = current[l]
                   /\ r.state = StateDuring(eviction.call)
        /\ r.state \in {"EVICTING", "VERIFYING"} => held
        /\ held \/ r.state \in Terminal => r.restartBlocked

\* The evidence log holds exactly one event for each generation that reached a
\* final state, it names that state, and there is none for any other.
OneFinalEvent ==
  /\ \A i \in DOMAIN evidence :
       /\ records[evidence[i].lease][evidence[i].generation].state
            = evidence[i].state
       /\ \A j \in DOMAIN evidence :
            /\ evidence[i].lease = evidence[j].lease
            /\ evidence[i].generation = evidence[j].generation
            => i = j
  /\ \A l \in Leases, g \in Generations :
       records[l][g].state \in Terminal =>
         \E i \in DOMAIN evidence :
           evidence[i].lease = l /\ evidence[i].generation = g

\* A generation that left ISSUED and ACTIVE never comes back to them, through
\* retries, renewals and evictions of any generation of any lease.
NeverUsableAgain ==
  [][\A l \in Leases, g \in Generations :
       records[l][g].state \notin Usable \cup {"NONE"} =>
         records'[l][g].state \notin Usable]_ledgerVars

\* A record whose key was retired is frozen, but for the eviction that had
\* authenticated it before the key was retired: nothing else than the clock
\* touches it.
RetiredKeyFreezes ==
  [][\A l \in Leases, g \in Generations :
       /\ records[l][g].state # "NONE"
       /\ records[l][g].signer \notin keys
       =>
         \/ eviction.lease = l /\ eviction.generation = g
         \/ [records'[l][g] EXCEPT !.expired = records[l][g].expired]
              = records[l][g]]_ledgerVars

\* An eviction that recorded a failure ends in quarantine, never in EVICTED.
FailureQuarantines ==
  [][\A l \in Leases, g \in Generations :
       eviction.failed /\ eviction.lease = l /\ eviction.generation = g =>
         records'[l][g].state # "EVICTED"]_ledgerVars

\* The ledger implements the abstract lifecycle.
PhaseOf(state) ==
  CASE state = "NONE" -> "absent"
    [] state = "ISSUED" -> "pending"
    [] state = "ACTIVE" -> "live"
    [] state = "EVICTED" -> "reclaimed"
    [] state = "QUARANTINED" -> "quarantined"
    [] OTHER -> "draining"

Lifecycle == INSTANCE LeaseLifecycle WITH
  newest <- current,
  phase <- [l \in Leases |->
              [g \in Generations |-> PhaseOf(records[l][g].state)]]

\* Every step of the ledger is a step of LeaseLifecycle or leaves it alone.
ImplementsLifecycle == Lifecycle!LifecycleSpec
=============================================================================
