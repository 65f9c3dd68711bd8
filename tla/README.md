# A TLA+ verification project for Final-Architecture-v3.0

The repository is a large governance and runtime code base: about 400 Python
files in `src/src`, a few C++ daemons in `src/apps`, a browser extension, and
several thousand canonical JSON documents, registries and tests.  More than half
of the Python files are one-shot validators (`*_gate.py`) and collectors of host
facts (`*current_host*`), which keep no state.  The program's own core is a small
set of stateful parts that hand out and take back authority over a host: leases,
secrets, approvals, candidate branches, browser tabs, credentials, the mode of
the workstation.  This project models those, starting with the ones where a wrong
interleaving costs most.

Paths below are relative to the repository (`src/...` is its `src` directory).

## 1. Inventory

Components in bold are modelled.

| Component | State | Operations | What is hard |
|---|---|---|---|
| **HRB lease ledger** `src/fa3_hrb_lease_lifecycle.py` (`LeaseLedger`, `LeaseKeyring`, `HashChainEvidenceSink`) | records by (lease, generation), current generation, HMAC keys, boot id, evidence chain | issue, activate, renew, attach, begin_revoke, evict; rotate, retire | evict calls out to two parties under the lock; the keyring has another lock; partial failure of a long teardown; renewals |
| **Secret projections** `src/fa3_secret_broker.py` (`ProjectionLeaseStore`), hook and systemd adapter in `src/fa3_hrb_lease_lifecycle.py` | projection leases, bound files, scope, pidfds | issue, bind_artifact, revoke, zeroized; verify_binding, terminate, group_kill, verify_dead | lost replies, a bind that races a revoke, a workload that exits or does not die |
| **Secret Broker vault** `src/fa3_secret_broker.py` (`SecretStore`) | object files, index file | put (rotate), delete (revoke) | two files that must agree; errors before and after a rename; a crash between any two file operations |
| **Composite leases** `src/fa3_hrb_composite_lease.py` | registered parents, children, allocation counts | register_parent, derive, release, revoke_parent | repeated registration, cascade over children with retired keys |
| **Integration broker** `src/fa3_integration_broker.py` | flock, inbox, ledger, candidate branches, worktrees, main | process_once, integrate | several processes, check before lock, cleanup in `finally`, crashes |
| **UAF dispatcher** `src/fa3_uaf.py` (`ActionDispatcher`) | one call: approval, secret and resource leases, evidence | execute | the approval is spent before anything is acquired; release in `finally` after a failure at any step |
| **Browser session** `src/fa3_browser_session_provider.py`, `src/fa3_browser_session_bridge.py`, `browser/fa3-session-extension/service_worker.js`, parts of `src/fa3_browser_action_runtime.py` | waiters, bindings and mutation ledger; promise chain, session, tab leases, timers | start, stop, borrow, return, observe, execute | timeouts with late answers and late effects; a connection that breaks; a rejected chain; pages that change between check and effect |
| **Credential execution manager** `src/fa3_model_router_provider_execution.py` | health, breaker and session count of each credential, bindings | select, record_success, record_failure, release_session, safe_snapshot | reports of one session change what the others use; cooldowns and lease times |
| **Workload Mode** `apps/workload-mode/src` (daemon, workmoderun, bridge, indicator), Blender add-on | workloads, pidfd watches, peers, GameMode, published state | RegisterWorkload, ReleaseWorkload, Hello, Status, notifiers | a process that ends before, while or after it is registered; calls that time out and take effect; restart of the daemon; signals around an answer |
| **Journal** `src/fa3_os_runtime.py`, `src/fa3_os_context_policy.py`, `apps/fa3-control-center/src/JournalService.cpp` | the log `active.jsonl`, archives, retention trash | ingest, selective_erase, authorized_retrieve; recordEvent, softDeleteEvent, archiveAll, restoreArchive, retireArchive | two programs append to one file and only one takes the lock; rotation under an open descriptor; torn lines; restore against erasure |
| **Developer coordination** `src/fa3_developer_agent_coordination.py`, `src/fa3_codex_adapter.py` | worktrees, branches, workers; the index of the shared working tree | run: allocate, spawn, collect, integrate, cleanup | patches applied one by one, people in the same working tree, timeouts that disagree, crashes |
| Authenticated approval `src/fa3_authenticated_approval.py` | consumption ledger file | verify, consume_promotion_receipts | read, check and rewrite without a lock |
| HRB acquire/admission bridges `libexec/*.py` | none | start the broker, validate its answer | an issued lease nobody revokes |
| Agent workload, goal execution, task scope closure, federation, orchestration, decision fabric, engine selection, accelerator guard, application lifecycle, modular runtime, donor import | little or none | validate or choose | pure functions mostly |
| Static gates, collectors, canonical data, donor registries, QML/GTK user interfaces | none | - | not a subject for a state machine |

How they interact.  The HRB grants a lease whose record is authenticated by the
keyring; the workload runs in a systemd scope bound to the lease and gets secrets
from the Secret Broker as *projection leases* that name the HRB lease and its
generation; eviction calls the hook, which revokes the projections over the
broker's socket, and then the systemd adapter; the result goes to the evidence
log.  The composite issuer derives child leases under an HRB parent with the same
keyring.  (Ledger records carry `authority_id` and no `issuer`, which
`register_parent` demands, so a ledger record cannot itself be registered: the
two modules share the keyring (`LeaseKeyring`) and nothing else, and are not composed here.)  The
integration broker shares only the git repository with people and other broker
processes.  The dispatcher of the Unified Action Fabric verifies and consumes an
approval, takes a resource lease and secret leases through hooks, calls a provider
and records evidence; the browser session provider is such a provider and is
modelled together with it.  Workload Mode shares the session bus with its clients
and nothing with the rest.  The processes of the FA3 OS runtime and the Control
Center share the journal's log file; a coordinator shares a repository and its
working tree with people.

`PROJECT.json` lists every component with its status and, under `hazards`, what
is hard to test in this code, each at its line, with the property that would
catch it or the reason why there is none.

## 2. Modules

| Module | Models | Relation |
|---|---|---|
| `LeaseLifecycle` | what the HRB promises of a lease: one newest generation, no way back from draining, one of two final phases | abstract specification |
| `LeaseKeyring` | `LeaseKeyring`: active key, accepted keys, rotation, retirement | extended by the two modules that sign with it |
| `LeaseLedger` | `LeaseLedger`, evidence sink | EXTENDS `LeaseKeyring`; implements `LeaseLifecycle` (`ImplementsLifecycle`) |
| `HrbEviction` | Secret Broker projections, the hook, the adapter, the workload | EXTENDS `LeaseLedger` and supplies the answers to its external calls |
| `SecretStore` | `SecretStore.put` and `delete` with their file operations | on its own |
| `CompositeLease` | `CompositeLeaseIssuer`, `derive_child_lease`, `cascade_revocation` | EXTENDS `LeaseKeyring` |
| `CandidateDelivery` | what the integration broker promises: one candidate of a proposal at a time, in the order of the approvals, standing until it is merged | abstract specification |
| `IntegrationBroker` | `FA3IntegrationBroker`, people, the kernel's flock | implements `CandidateDelivery` (`ImplementsDelivery`) |
| `ActionDispatcher` | `ActionDispatcher.execute` around a provider | used by `BrowserSession` |
| `BrowserSession` | provider, bridge server, service worker, pages | EXTENDS `ActionDispatcher` and is its provider |
| `CredentialPool` | `ProviderExecutionManager` | on its own |
| `WorkloadMode` | `workmoded` and its clients | on its own |
| `Journal` | the OS runtime's and the Control Center's work on the log and its archives | on its own |
| `AgentCoordination` | `Coordinator.run` with workers of the Codex adapter, and people | on its own |
| `HrbProofs`, `*Proofs` | - | theorems about the three modules of the HRB, and about the module they are named after (section 4) |
| `MC*` | TLC instances, symmetry | EXTEND the module they check |

A definition named `Mut...` is the mutated form of the definition after it; no
action uses it (section 3).

**LeaseLedger.**  `records[l][g]` is `_records[(l, g)]`, `current` is
`_current`; a record keeps the fields some guard reads (state, signing key, boot
id, deadline passed or not, attached projection ids, restart flag, successor).
Every method holds the re-entrant lock from start to end, so a method is one
action; an operation refused by a guard changes nothing and is no step.  `evict`
is the exception: it calls the hook and the adapter while it holds the lock.  The
rest of the ledger waits, but the keyring, the clock and the world do not.  Evict
is cut at those calls (`EvictBegin`, `EvictSecrets`, `EvictBinding`,
`EvictTerminate`, `EvictVerify`); the variable `eviction` is the thread that
holds the lock.  What a call returns is a parameter of the action.  In
`LeaseLedger` it is any value, so what is checked and proved there holds for
every adapter and every hook.  `EVICTION_FAILED` is entered and left inside one
critical section and is no resting state; an exception out of `for_binding` (or
`block_restart`) leaves the record as `BeginRevoke` does.  `issue` is called with
generation 1 only, as by all its callers.

**HrbEviction.**  The Secret Broker serves one request at a time, so each request
is one action; the reply can be lost after it took effect, which ends the hook
(`HookGivesUp`), or never come (`HookWaits`): then the hook waits, in the lock of the
ledger, until the broker closes the connection (`BrokerCloses`), which nothing makes
it do.  `file[p][c]` is copy `c` of a projected secret on disk; the workload may write
several and bind one after the other (`BindArtifact`), and the entry keeps the last
one only, as `bind_artifact` does.  `renew` copies the runtime binding, so one scope serves all
generations of a lease.  `verify_dead` says dead only of a workload that is gone
and may fail to see it in time.  The random ids are `Minted` by the broker: an id
that was never issued cannot be attached.  A workload that is gone does not come
back.

**SecretStore.**  The broker serves one request at a time, so one put or delete is
in progress, cut at its file operations (`PutObject`, `PutIndex`, `PutOld`,
`PutRollback`, `DropObject`, `DropEntry`).  `_atomic_write` may fail before its
rename, when nothing happened, or after it (the sync of the directory), when the
rename stands; an unlink may fail before or after it too; `Crash` is possible
before each.  A value is identified with its object file, whose name is random in
the code and here one that neither a file nor the index holds.  `suspect` (files
that a failed or killed call left) and `marred` (secrets with an unfinished delete,
or an error met once the index or the old object was touched) are history and
say what the properties except.  Those exceptions are what the code does: after an
error past the rename of the index, a refused put may have lost the secret, against
`SECRET_ROTATION_ATOMIC_VERSIONED_REPLACEMENT_REQUIRED`
(`canonical/secret-broker-enforcement.json:53`), and after a delete that was killed
between its two steps every put of that id is refused until delete is repeated.
The version and dates kept with a secret are left out.

**CompositeLease.**  One budget number stands for the vector of numeric
resources, which the code treats alike; one set `scope` for the fields that must
be contained in the parent's.  `granted[p]` is what the HRB has granted parent
`p`, one entry per generation (`Grant`, with any budget and scope); `Register`
takes a copy of any of them, an old one after a newer one included, as the code
does.  What the children hold is counted as a set of units (`Units`), so that the
sum over them is a cardinality.

**IntegrationBroker.**  A broker is one process that runs `process_once`:
`Take` (read and validate), `Look` (does the branch exist, before the flock),
`Acquire` (flock and first check of main), `AddWorktree`, `Commit` (patches,
gates, commit), `Recheck`, `Record` (PR_READY), `RemoveWorktree` and
`ReleaseLock` (the `finally` block).  Each step may fail as the code may, and the
process may be killed between any two.  `_write_event` may raise when its event is in
the file already, and the `finally` block then deletes the branch the event names.
The commands of that block run with `check=False`: a worktree may stay in git's list
(`stale`), so that git takes its branch to be checked out, or the branch may stay
(`LeavesBranch`).  A commit is identified with the approval
it was built from.  People approve (a new version replaces the old one in the
inbox), push, edit the main working tree and merge.  The checks on the content of
a proposal are one nondeterministic denial.  `INTEGRATION_FAILED` events are left
out, since nothing reads them; files are taken in any order, where the code sorts
them.  Two variables are history: `spoilt`, the proposals for which a broker saw no
branch while another was past the same test and those with an event whose writing
raised, and `undeleted`, those that a failing cleanup left a branch of.
`CandidateDelivery` knows the approvals, the commit
on each candidate branch, the events, the merges and main: it says what people may rely
on for a proposal that is not spoilt, and that for a spoilt one the order of its events
still holds.

**ActionDispatcher.**  One caller at a time: `execute` is a synchronous method.
`Admit` is everything up to the selection of a provider, with the approval
verified and consumed; a refusal before the consumption changes nothing and is no
step, one after it (`Unserved`) spends the grant.  The resource lease, each secret
lease and each release of the `finally` block are steps of their own, each of
which may be denied or raise.  A release hook that raises leaves the `finally`
block at once (`ReleaseRaises`): what the call still held is given back by nobody,
and the model stops following it.

**BrowserSession.**  `queue` holds the requests chained on `requestSerial`, the
first of which is served (`Begin...`, then the effect, then `PostReply`); `own`
marks the request whose id is in `_pending`.  `pageExecute` is cut where it awaits
the injection of its script (`PageExecute`, `PageEffect`), so that pages may
navigate in between.  A page is its origin and its content, which also stand for
the fingerprint; a binding (`Token`) is a tab, a revision and a page.  The delivery
of an answer and its posting are one step; while there is no connection, and
between two ports, an answer may be lost.  The targets of calls are tabs of the
user; tabs of the agent window, human assistance, the inventory of tabs and
`wait_event` are left out, and an action outside the borrowed scope is treated as
a target that is not found (`TargetMissing`).  `Renew` is a new bridge and a new
provider, with an empty mutation ledger and revisions from one; the grants are the
approval authority's and survive it.  The bags `uses` and `acted` are history.

**CredentialPool.**  The methods are atomic; the interleaving is that of the
sessions.  A deadline is what remains of it, and `Tick` lets time pass; the count
of failures stops at the threshold, with which alone it is compared.  Credentials
of the same rank may be taken in any order, where the code compares quota pressure
and digests that do not change.

**WorkloadMode.**  The daemon is an event loop that takes its messages in order.
`phase` cuts `main` between taking the name and watching the bus.  Calls of the
clients go to `inbox` and may time out with the message still there; programs are
killed, processes end, the daemon crashes and comes back empty.  A mode is the set
of its domains.  Consecutive signals that say the same are kept once; the list of
coexisting tuners is only the publication it causes; registration without a pid
and the reuse of pids are left out.  Three history variables name what the code
does not promise: `blind` (`pidfd_open` failed, on a process that was gone or, for
want of descriptors or memory, on one that lives: the workload is registered, nobody
watches its process and only its release takes it out), `missed` (a bridge that greeted and died before the daemon watched the bus
stays its authority), `told` (a restarted daemon tells the indicator nothing until
something changes).

**Journal.**  A log is the set of its lines; the order of lines is read by no
property.  An append of the OS runtime is two steps, the opening and the write
under flock, since the Control Center renames an empty file over the log without
that lock; `active.file` tells which file a descriptor belongs to, and is `None` while
there is no log.  The process creates the log as it opens it; the Control Center looks
for it (`EnsureLayout`) and then opens it with truncation (`CreateLog`), which takes
the lines away that were written in between.  A write may fail
before, in the middle of, or after its line (`DiskFills`); a torn tail garbles the
next line.  `appendObject` in the Control Center reports what `QFile::write` put into
its buffer.  `effective_events` reads the log twice (`ReadTombstones`,
`ReadEvents`).  `createArchive` is cut at its two renames, a restore at each event.
A retrieval is modelled by its widest answer, an erasure by any choice of events.
`acked`, `erased`, `unsafe`, `doubled` and `cut` are history: what was reported as
done, and the lines and archives that met one of the conditions the code does not
handle.  The text of an event, redaction, scopes, the gateway's authorization and
digests of archives are left out, as are `build_enrichment_projection`, queries,
export, print and share, which derive something else from the log and write to other
files.

**AgentCoordination.**  Runs follow one another; the constructor's commit is
`run.base`, and the commit, the index and the working tree of the repository are
`repo`.  The agents of a loop are taken in any order.  A worker changes the one file
of its task or fails, as `codex_worker_main` checks.  A file has parts, each as large
as a hunk with its context; a diff changes some parts of one file, and fits a version
of the file in which these are as they were in the commit the run began with
(`Fits`).  `git apply --check` asks this of the working tree; `git apply --index` asks
that the file is the same in index and working tree, too, and merges: what others
changed in other parts stays (`Merged`).  Each git command is one step.  Any step may fail (`StepFails`, which is part of no fairness), and the
process may be killed.  A worker terminated by `cleanup` leaves its codex process
(`"orphan"`); the built-in fixture has no such child.  Mailboxes are private to a run
and left out, as is what a refused message does beyond failing the run.  `touched`
and `mine` follow what people did, part by part.  Two hunks whose contexts overlap are
one part here, and git's search for a context that has moved is left out: lines that
moved are the same part.

## 3. Runs

| Run | Bounds | Shows |
|---|---|---|
| `lease_ledger` | 2 leases, 2 generations, 2 keys, 1 projection, 1 reboot; 1,187,000 states | `GenerationChain`, `TeardownIsGuarded`, `OneFinalEvent`, `RetiredKeyFreezes`; refinement of `LeaseLifecycle` |
| `hrb_eviction` | 1 lease, 2 generations, 2 projections with 2 files each, 1 reboot; 442,000 states | `EvictedMeansReclaimed`, `ZeroizedFileIsGone`, `SecretsBeforeSignal`, and that an eviction ends unless a request stays unanswered for ever (`EvictionConcludes`) |
| `secret_store` | 3 secrets, 5 object names; 1,900 states up to symmetry | `IndexMatchesObjects`, `AnswerIsTrue` |
| `composite` | 1 parent, 2 generations granted with budgets up to 2, 3 children, 2 keys; 1,830,000 states | `AllocationIsSum`, `GenerationWithinParent` |
| `broker` | 3 brokers at once, 1 proposal, 2 approvals, 1 push or merge; 967,000 states | `DeliverableUnlessSpoilt`, `ReadyOnce`, `NoBranchIsLeftBehind`; refinement of `CandidateDelivery`; and that a pass ends (`PassEnds`) |
| `browser_session` | 1 tab, 2 origins, 3 grants, 1 secret, 2 queued requests, 1 change of the page; 634,000 states | `SeesOwnEffects`, `AtMostOnce`, `OneUsePerGrant`, `ReceiptIsOwn`, `GivenBack`; `CallEnds`, `BorrowEnds` |
| `credential_pool` | 2 sessions, 3 credentials of 2 providers, threshold 2, times of 1; 1,738,000 states | `ActiveIsCount`, `CircuitMatchesFailures`, `InvalidStaysUnused` |
| `workload_mode` | a wrapped program and Blender, 1 life of the bridge, 2 waiting calls, 2 waiting signals, 1 outside event; 2,647,000 states | `DaemonIsCoherent`; `GhostsLeave`, `AuthorityFollowsBridge`, `ViewCatchesUp` |
| `journal` | 2 OS processes, 1 archive, 3 events of all kinds, a disk that may fill up; 15,063,000 states up to symmetry | `AcknowledgedIsKept`, `ErasedIsHidden`, `OnePlace`, `RestoresAreAudited` |
| `coordination` | 2 agents, 3 files of 2 parts, 2 jobs, 2 runs, 2 acts of people; 2,633,000 states | `IntegratedIsInHead`, `EditsSurvive`, `CommitIsAccounted`; `RunEnds` |
| `hrb_renewal`, `composite_cascade` | as small as shows it | the disagreements of section 6 |

Type invariants are proved (section 4).  Each property
of a passing run has a mutant in `PROJECT.json`: a definition of the model changed as a
plausible bug would change the code, under which TLC finds the property violated.

Why the bounds suffice.  Two generations are one renewal, and every guard looks at
one generation and its successor; the second lease exercises the one lock that
serializes evictions, and two keys make rotation and retirement possible.  Two
projections make the hook's loop fail between its first and second element.
Three secrets and five names let several failed calls leave files behind while two
other secrets look on.  Three children and a budget of 2 let a child be refused
while another is released.  Three brokers are needed for the longest race found:
the loser deletes the winner's branch and a third starts over.  A queue of two
holds a late request and a new one; three grants are a borrow, an action and its
repetition.  A change of the page is what makes a binding stale.  Two sessions at
a threshold of two make a breaker trip by reports of both, and the second provider
is where a rebinding goes.  Two waiting calls let a registration be followed by its
release in the inbox, two signals let one be read after the answer to Status; with
one, a program that publishes could wait for ever on the bound.  Three events are an
event, its tombstone and the audit of a retrieval or restore; two processes erase and
retrieve at once; one archive is sealed, restored and retired, and what a second one
adds (`OnePlace` between archives) is proved.  Two files of one projected secret are what a repeated bind
needs.  A third file of the repository is one that only people change; two parts are a
hunk and an edit beside it; two acts of people are an edit and its commit, or two edits
of which a patch meets one.  `Plans` is a choice of diffs (`MCPlans`): two files, one of
them in one part only, and two parts of one file, which a run must refuse.  What more
files, diffs and acts of people add is proved (`AgentCoordinationProofs`).

`MaxGeneration`, `MaxBoot`, `MaxHead`, `MaxVersion`, `MaxRunning`, `MaxBudget`, `MaxGrant`, `MaxGrants`,
`MaxQueue`, `MaxChanges`, `MaxCopies`, `MaxRetryAfter`, `MaxInbox`, `MaxSignals`, `MaxEvents`,
`MaxId`, `MaxRuns` and `MaxEdits` bound otherwise unbounded counters and appear as
guards or types.  Symmetry is used only over leases, projections, children, secrets, object names, sessions, processes and
archives, and in no run that checks liveness.

Deadlock is checked for the ledger, the composite issuer, the credential pool and the
journal, which always have a step to take (the keyring, the clock, a reader).  It is off in
`HrbEviction`, `IntegrationBroker`, `BrowserSession`, `WorkloadMode` and
`AgentCoordination`, where a finite world really stops: every lease final and each
workload gone, each broker done or dead, all grants and changes of pages spent, all
programs over, all runs made; and in
`SecretStore`, whose finite set of names may be used up by files left behind.

### Fairness

* `HrbEviction`: `WF_vars(EvictionStep)`.  The thread inside `evict` runs on where it
  can: the adapter's calls are subprocesses and a loop bounded by `verify_dead`'s
  timeout.  The hook's socket has *no* timeout, so a request that is not answered is a
  state of the model (`"STUCK"`) that the thread cannot leave; `BrokerCloses`, the end
  of the connection, has no fairness.  `EvictionConcludes` says so in its premise: the
  eviction ends if no request stays unanswered for ever.  Without that premise it is
  false of the code, as the hazard list says.  No fairness is asked of the workload: it
  may ignore its signals.
* `IntegrationBroker`: `WF_vars(BrokerStep(b))` for each broker.  A started process
  runs on: git and the gates end, and the flock is eventually granted, which needs
  no strong fairness, since each broker takes the lock once per proposal of its
  finite pass.  `Start`, `Crash` and people have no fairness.
* `BrowserSession`: the calling thread, the service worker and the timer of each
  tab go on (`CallerStep`, `WorkerStep`, `Expire`).  The timeout of
  `waiter.get(timeout=...)` is a step of the caller, so no answer is assumed to
  come.  Callers that call, pages that change and connections that come back have
  no fairness.
* `AgentCoordination`: the process of a run goes on: git ends and `communicate`
  returns or times out after 30 seconds.  Workers and people have no fairness.
* `WorkloadMode`: systemd starts the daemon again (`Restart=on-failure`), the
  event loops of daemon, bridge and indicator handle what is there, a call that
  waits times out, and a workmoderun whose child ended comes to its release.
  Nothing makes a program start or end, and crashes are finitely many
  (`MaxEvents`).  Properties are of the form `<>[]`: what holds once the programs
  are quiet.

## 4. Proofs

The theorems hold for all values of the constants under the assumptions named in
the modules (`LedgerAssumption`, `SecretAssumption`, `PoolAssumption`, ...).  Each
rests on one inductive invariant, which TLC also confirmed on the instance of the
run before it was proved.

* `HrbProofs`, part 1 (`LeaseLedger`): `IInv == TypeOK /\ GenerationChain /\ TeardownIsGuarded /\
  OneFinalEvent`.  None of the last three is inductive alone.  That an eviction
  touches the current generation only (part of `TeardownIsGuarded`) is what keeps
  the chain when it concludes; the chain says that no record exists above the
  current generation, which keeps the guard when a renewal creates one; and that a
  record under eviction is not final gives the uniqueness of the final event.
  Steps that store one record are handled by common lemmas (`TouchKeepsChain`,
  `TouchKeepsEvents`, `QuietKeepsTeardown`), the ends of an eviction by
  `ConcludeKeepsIInv`, renewal by `RenewKeepsIInv`.  The action properties
  `NoReactivation`, `RetirementFreezes` and `FailureIsNeverEvicted` share one
  argument: `RecordsMove` shows that a step treats each record in one of four ways
  (`MayBecome`).  `Refinement` is `Spec => ImplementsLifecycle`: every piece of an
  eviction but the last is a stutter or the abstract `Drain`.  (The first and the
  third of these action properties are proved and no longer run: the refinement
  implies the first.)
* `HrbProofs`, part 2 (`HrbEviction`): `LedgerInside` shows that the composed system
  behaves as the ledger alone, with particular answers, so all of the above holds of it
  and is used as a fact about each step.  Added are `HookFollows` (what the hook passed
  is zeroized, what it holds is revoked, and its target is what is bound to it),
  `ZeroizedIsForgotten` (nothing is bound to a zeroized projection) and `CleanOrFailed`
  (an eviction past its secrets has recorded a failure or zeroized them all): without
  them nothing connects the broker's projections with the record when it becomes
  EVICTED.  `NoZeroizedFileIsLeft` is an action property: a file that was zeroized may be
  joined by others that the workload writes and can bind no more, so only the step that
  acknowledges can speak of the file.  All safety properties of the run are proved.
* `HrbProofs`, part 3 (`CompositeLease`): `IssuerInv` adds that the
  registered parent is a copy of what was granted, that each child is under a granted
  generation, and that a generation is granted once (`TermsAreKept`): so `derive`
  measures a child against the terms of its own generation.  What `derive` and `release` add to and take from the
  allocation count is the cardinality of one child's slice of `Units` (`AddedSlice`,
  `AmountAddsUp`), which spares the induction over the children.  `CountsAreSums` and
  `GenerationsFit` follow for any number of parents, children and grants.
* `SecretStoreProofs`: `IInv` adds to the types and `IndexMatchesObjects` what the
  call in progress holds at each file step (`CallAgrees`) and that a file left
  behind is nobody's.  Both invariants and `AnswerIsTrue` follow.
* `CredentialPoolProofs`: the properties are inductive with the types; the work is
  in `AssignMoves`, which says what `select` leaves whatever the pool looks like,
  and in the cardinality of the users of a credential when one of them moves.
* `IntegrationBrokerProofs`: `BrokerInv` adds to the types what a broker at each step
  has in hand; that nothing is approved against a commit still to come; that two brokers
  at one proposal have spoilt it (`RaceIsNoted`); that a broker whose proposal is not
  spoilt works on one with no event waiting (`NothingPending`); and that a branch which
  git takes to be checked out in a worktree that is gone was left by a failed cleanup,
  or belongs to an event (`StaleIsAccounted`): without it nothing says whose branch
  stays when git refuses to delete it.  `FlockIsExclusive`,
  `BranchesBelongToSomebody`, `OnlyTheSpoiltLoseDelivery`, `OneEventPerApproval` and
  `EventsFollowApprovals` follow for any number of brokers and proposals.
  `DeliveryRefinement` is `Spec => ImplementsDelivery`.  It needs one more invariant,
  `ApprovalsAreGiven`: a version of a proposal stands for one approval, in the inbox, in
  the hand of a broker and in the ledger, so that an event for the version of an earlier
  one is the same event, which `ReadyOnce` excludes.  (`ReadyInOrder` is proved and no
  longer run: the refinement implies it of each event that is written.)
* `BrowserSessionProofs`: `SessionInv` says where a grant and a token are: a grant
  is in the call, in one request of the queue, or in what was done with it
  (`GrantsTravelOnce`); a token in the queue has not been acted on
  (`TokensAreFresh`); the caller waits for the last request of the queue, which is
  empty once it has its answer (`Waiting`); an action is sent to an empty queue
  (`ActIsFirst`); and a good answer comes after its effect (`AnswersTell`).
  `SeesOwnEffects`, `AtMostOnce`, `OneUsePerGrant`, `ReceiptIsOwn` and `GivenBack`
  follow for any number of tabs, pages and grants and any length of the queue.
* `JournalProofs`: `JournalInv` adds that a line is written under an id nothing else
  has, also while a process still holds it (`FreshIds`), so that a log which lost an
  event by a rotation cannot get it back under that id; that an event somebody erased,
  or has written the tombstone of, is hidden or not in the log (`AllCovered`), which is
  what makes two readings at different moments harmless; and where the lines are during
  a rotation (`Rotating`).  All steps that append share what `Grown` says of them.  The
  four properties of the run follow for any number of processes, archives and events.
* `AgentCoordinationProofs`: `CoordinationInv` adds that a person's edit is a content
  nobody wrote before, so that no hunk fits a *part* that holds one, although diffs are
  merged into files that hold edits in other parts (`EditsAreNew`); that what a run
  applied stays staged, part by part, until somebody touches it (`AppliedStands`); and
  that what is staged during a run has an origin (`StagedIsAccounted`).  The three
  safety properties of the run follow for any agents, files, parts, diffs, runs and
  acts of people.
* `WorkloadModeProofs`: `ModeInv` adds that a message is from a program that has been
  started or about a bridge (`Deliverable`, `ProcessesStart`), and where the indicator
  stands (`Shown`): the last signal it has not read is the daemon's state, and there is
  one while it waits for an answer and has been told anything.  `DaemonIsCoherent`
  follows for any workloads, lives of the bridge and lengths of the queues.

Only model-checked:

* the liveness properties (`EvictionConcludes`, `PassEnds`, `CallEnds`,
  `BorrowEnds`, `RunEnds` and the three of `WorkloadMode`), since the prover has no
  rules for fairness and ENABLED;
* the bounds on revisions in `BrowserSession`'s `TypeOK` (its other parts are in
  `Types`, proved with the invariant).

## 5. Not modelled

HMAC and SHA-256 are taken as perfect: a record carries the id of its key.
Wall-clock timestamps, state histories and the wording of reasons are audit data.
The contents of runtime bindings are one answer of `verify_binding`.  The Secret
Broker's policies and peer checks keep no state a request depends on.
`evaluate_reservation_plan` is a pure check of a document and later work.  The HRB
keeps its ledger in memory and has no recovery code: a restarted HRB is a new one.
The disk of the integration broker does not lose a file that was written: an event is
there from the moment its writing ended.

The consumption ledger of authenticated approvals
(`src/fa3_authenticated_approval.py`) is one read, check and rewrite of a file by a
command that a person starts.  Two of them at once
may both find a receipt unused, but a model would consist of that one race and say no
more than this sentence.  The
acquire and admission bridges start a broker program that is not in the
repository.  The accelerator guard, the federation, orchestration, decision and
goal modules, and the gates validate documents or choose between them without
state of their own; collectors read the host; registries and user interfaces have
no state to explore.  These validators are most of the lines of the repository.

## 6. Where code and documents disagree

| Run, property | What happens |
|---|---|
| `hrb_renewal`, `NothingOutlivesEviction` | `renew` drops the attached projections; after the successor is EVICTED they are still ACTIVE in the Secret Broker, against `workload_exit_or_cgroup_release: REVOKE_AND_ZEROIZE` |
| `composite_cascade`, `NoChildAfterRevocation` | a child whose key was retired makes `revoke_parent` raise before it stores anything, against `parent_revocation_cascades` |

Behaviours that are in the models, that a reader of the documents may not expect, and
that have no run of their own:

* The integration broker looks for the candidate branch before it takes the flock: the
  loser of the race deletes the branch of a recorded PR_READY, and with a third broker
  the approval becomes PR_READY twice.  The same comes of a `_write_event` that raises
  when its event is in the file (`fsync`).  A cleanup whose `git worktree remove` or
  `git branch -D` fails leaves the branch, and each later pass denies the proposal.
* The Secret Broker keeps the last artifact bound to a projection.  The file of an earlier
  bind is forgotten: the eviction zeroizes the last one and ends in EVICTED with the
  other on disk.  `ZeroizedFileIsGone` is about the file that is bound, and
  `EvictedMeansReclaimed` about the broker's record.
* A Secret Broker that takes a request and neither answers nor closes holds the ledger
  lock for ever.
* A `pidfd_open` that fails, on a living process too, leaves a workload that is
  registered until somebody releases it.
* An answer that cannot be posted rejects the promise chain of the browser extension:
  every later request of that worker, a session.stop among them, waits for ever.
* A line written while `createArchive` rotates is in neither the archive nor the new
  log; one written to a log that was created after `ensureLayout` had found none is
  truncated away.  `restoreArchive` gives restored events new ids, which the tombstones do not
  name, so that erased text is retrieved again.
* A failed run of the coordinator leaves its patches staged, and the next run commits
  them with its own.  A run waits 30 seconds for a worker that gives codex up to 1800;
  `cleanup` ends the worker, and codex runs on.

The properties that hold are stated so that none of this touches them:
`EvictedMeansReclaimed` speaks of the projections attached to the evicted
generation, `GenerationWithinParent` of the children of one generation,
`DeliverableUnlessSpoilt` and `ReadyOnce` of proposals that are not `spoilt`,
`NoBranchIsLeftBehind` excepts the `undeleted` and those of dead brokers, `BorrowEnds`
speaks of tabs, whose timers do not go through the chain, `GhostsLeave` excepts the
`blind`, `AcknowledgedIsKept` and `ErasedIsHidden` speak of lines that met none of the
four dangers (`unsafe`: a rotation, the creation of the log, a torn tail, a full disk)
and of ids and not of texts, `CommitIsAccounted` of what was staged before.

Also seen: `activate` looks neither at the boot id nor at the deadline of an issued
lease, and the children of all registrations of a parent together may exceed its
present budget.

## 7. Plan

Done: the lease ledger with its abstract specification and proofs; the eviction
with its parties and proofs; the vault with proofs; the composite issuer with
proofs; the integration broker with its abstract specification and proofs; a
dispatch of the action fabric with the browser session and proofs; the
credential pool with proofs; Workload Mode with proofs; the journal with proofs;
developer coordination with proofs.

Next, in this order:

1. `ReservationPlan`: `evaluate_reservation_plan` as an operator against a
   reference definition.
2. An abstract specification of a dispatch that `BrowserSession` implements.
3. Human assistance and the agent window in `BrowserSession`.
4. The promotion of a provider with its consumption ledger and runtime status.
