-------------------------- MODULE IntegrationBroker --------------------------
(***************************************************************************)
(* The integration broker (src/src/fa3_integration_broker.py) turns a      *)
(* proposal that a human approved into a candidate branch and records a    *)
(* PR_READY event; main is moved by people only.                           *)
(*                                                                         *)
(* A broker is one process that runs process_once.  It shares with other   *)
(* processes and with people the repository (main, candidate branches,     *)
(* worktrees), the inbox and the append-only ledger, and takes a flock on  *)
(* the repository after it has looked whether the branch exists.  It may   *)
(* be killed between any two steps: the kernel then drops the flock, and   *)
(* its worktree stays.  The commands of its cleanup may fail; what remains  *)
(* of its worktree then is an entry in git's list, for its directory goes. *)
(*                                                                         *)
(* A commit is the approval it was built from.  The checks on the content  *)
(* of a proposal and on its patches, the gates and every failing command   *)
(* are one nondeterministic failure of the step they belong to; the        *)
(* INTEGRATION_FAILED events are left out, for nothing reads them.         *)
(***************************************************************************)
EXTENDS Naturals, FiniteSets

CONSTANTS Brokers,      \* broker processes, each started once
          Proposals,    \* proposal ids
          NoBroker,     \* nobody holds the lock
          NoProposal,   \* a broker between two proposals
          MaxHead,      \* bound on the commits of main
          MaxVersion,   \* bound on the approvals of one proposal
          MaxRunning    \* how many brokers run at a time

ASSUME BrokerAssumption ==
  /\ MaxHead \in Nat
  /\ MaxVersion \in Nat \ {0}
  /\ MaxRunning \in Nat \ {0}
  /\ NoBroker \notin Brokers
  /\ NoProposal \notin Proposals

VARIABLES head,       \* the commit main is at
          mainReady,  \* main is checked out and its working tree is clean
          inbox,      \* inbox[p]: the approval in the inbox, version 0 if none
          branch,     \* branch[p]: what the candidate branch of p points at
          ready,      \* the PR_READY events of the ledger
          submitted,  \* those of them that were submitted and merged
          lock,       \* the broker that holds the flock
          stale,      \* proposals whose branch git takes to be checked out in a
                      \* worktree that is gone
          broker,     \* broker[b]: where process b is
          spoilt,     \* history: the proposals two brokers were past Look for, and
                      \* those with an event whose writing raised after all
          undeleted   \* history: proposals that a failing cleanup left a branch of

repository == <<head, mainReady, inbox, branch, stale>>
ledger == <<ready, submitted>>
history == <<spoilt, undeleted>>
vars == <<repository, ledger, lock, broker, history>>

Approval == [version : 0..MaxVersion, base : 0..MaxHead]
NoApproval == [version |-> 0, base |-> 0]

\* A branch that was just created points at the approved base.
Branch == [kind : {"none", "base", "commit"}, approval : Approval]
NoBranch == [kind |-> "none", approval |-> NoApproval]

Event == [proposal : Proposals, approval : Approval]

Steps == {"idle", "next", "look", "wait", "add", "commit", "recheck", "record",
          "cleanup", "release", "done", "dead"}

\* The steps of a broker inside the flock.
Locked == {"add", "commit", "recheck", "record", "cleanup", "release"}

Broker == [at : Steps, todo : SUBSET Proposals,
           job : Proposals \cup {NoProposal}, read : Approval,
           worktree : BOOLEAN, prepared : BOOLEAN]

Init ==
  /\ head = 0
  /\ mainReady = TRUE
  /\ inbox = [p \in Proposals |-> NoApproval]
  /\ branch = [p \in Proposals |-> NoBranch]
  /\ ready = {}
  /\ submitted = {}
  /\ lock = NoBroker
  /\ stale = {}
  /\ broker = [b \in Brokers |->
                 [at |-> "idle", todo |-> {}, job |-> NoProposal,
                  read |-> NoApproval, worktree |-> FALSE, prepared |-> FALSE]]
  /\ spoilt = {} /\ undeleted = {}

-----------------------------------------------------------------------------
Running == {b \in Brokers : broker[b].at \notin {"idle", "done", "dead"}}

Waiting == {p \in Proposals : inbox[p].version > 0}

Exists(p) == branch[p].kind # "none"

\* A worktree that git knows has the candidate branch of p checked out; that of a
\* dead broker stays where it was.
CheckedOut(p) ==
  p \in stale \/ \E b \in Brokers : broker[b].job = p /\ broker[b].worktree

Goto(b, step) == broker' = [broker EXCEPT ![b].at = step]

\* integrate returns or raises, and its locals are gone.
Return(b) ==
  broker' = [broker EXCEPT ![b] =
               [at |-> "next", todo |-> @.todo, job |-> NoProposal,
                read |-> NoApproval, worktree |-> FALSE, prepared |-> FALSE]]

\* _main_preconditions
MutIgnoresBase(b) == mainReady

MainIsAsApproved(b) == mainReady /\ head = broker[b].read.base

\* process_once lists the inbox.
Start(b) ==
  /\ broker[b].at = "idle"
  /\ Cardinality(Running) < MaxRunning
  /\ broker' = [broker EXCEPT ![b].at = "next", ![b].todo = Waiting]
  /\ UNCHANGED <<repository, ledger, lock, history>>

\* integrate reads and validates the proposal; one that is denied is done with.
Take(b, p) ==
  /\ broker[b].at = "next"
  /\ p \in broker[b].todo
  /\ \/ broker' = [broker EXCEPT ![b].at = "look",
                                 ![b].todo = @ \ {p},
                                 ![b].job = p,
                                 ![b].read = inbox[p]]
     \/ broker' = [broker EXCEPT ![b].todo = @ \ {p}]
  /\ UNCHANGED <<repository, ledger, lock, history>>

\* Another broker has looked for the same branch and is not done with it.
Contended(b) ==
  \E o \in Brokers \ {b} :
    broker[o].job = broker[b].job /\ broker[o].at \in {"wait"} \cup Locked

\* A proposal whose branch exists is denied; the lock is not held yet.
Look(b) ==
  /\ broker[b].at = "look"
  /\ IF Exists(broker[b].job) THEN Return(b) ELSE Goto(b, "wait")
  /\ spoilt' = IF ~Exists(broker[b].job) /\ Contended(b)
               THEN spoilt \cup {broker[b].job} ELSE spoilt
  /\ UNCHANGED <<repository, ledger, lock, undeleted>>

Finish(b) ==
  /\ broker[b].at = "next"
  /\ broker[b].todo = {}
  /\ Goto(b, "done")
  /\ UNCHANGED <<repository, ledger, lock, history>>

\* flock, then the first look at main, which fails outside the try block.
Acquire(b) ==
  /\ broker[b].at = "wait"
  /\ lock = NoBroker
  /\ \/ /\ MainIsAsApproved(b)
        /\ lock' = b
        /\ Goto(b, "add")
     \/ /\ ~MainIsAsApproved(b)
        /\ Return(b)
        /\ UNCHANGED lock
  /\ UNCHANGED <<repository, ledger, history>>

\* git worktree add -b: makes the branch and checks it out.  It fails if the branch
\* exists by now, and may fail before it makes the branch or after.
AddWorktree(b) ==
  LET p == broker[b].job
      made == [branch EXCEPT ![p] = [kind |-> "base", approval |-> broker[b].read]]
  IN  /\ broker[b].at = "add"
      /\ \/ /\ ~Exists(p)
            /\ branch' = made
            /\ broker' = [broker EXCEPT ![b].at = "commit", ![b].worktree = TRUE]
         \/ /\ Goto(b, "cleanup")
            /\ branch' \in IF Exists(p) THEN {branch} ELSE {branch, made}
      /\ UNCHANGED <<head, mainReady, inbox, stale, ledger, lock, history>>

\* Apply the patches, run both gates, commit.
Commit(b) ==
  /\ broker[b].at = "commit"
  /\ \/ /\ branch' = [branch EXCEPT ![broker[b].job].kind = "commit"]
        /\ Goto(b, "recheck")
     \/ Goto(b, "cleanup") /\ UNCHANGED branch
  /\ UNCHANGED <<head, mainReady, inbox, stale, ledger, lock, history>>

MutTrustsWhatItRead(b) == MainIsAsApproved(b)

\* The proposal is still the one that was read, and main is as approved.
StillApproved(b) ==
  inbox[broker[b].job] = broker[b].read /\ MainIsAsApproved(b)

Recheck(b) ==
  /\ broker[b].at = "recheck"
  /\ Goto(b, IF StillApproved(b) THEN "record" ELSE "cleanup")
  /\ UNCHANGED <<repository, ledger, lock, history>>

EventOf(b) == [proposal |-> broker[b].job, approval |-> broker[b].read]

\* _write_event writes the PR_READY event; or it raises and leaves none, or one
\* that does not parse; or it raises when all of the event is in its file (fsync),
\* and the broker then goes on as if there were none.
Record(b) ==
  /\ broker[b].at = "record"
  /\ \/ /\ ready' = ready \cup {EventOf(b)}
        /\ broker' = [broker EXCEPT ![b].at = "cleanup", ![b].prepared = TRUE]
        /\ UNCHANGED spoilt
     \/ Goto(b, "cleanup") /\ UNCHANGED <<ready, spoilt>>
     \/ /\ ready' = ready \cup {EventOf(b)}
        /\ Goto(b, "cleanup")
        /\ spoilt' = spoilt \cup {broker[b].job}
  /\ UNCHANGED <<repository, submitted, lock, undeleted>>

\* finally: remove the worktree and prune the list of worktrees.  No result is
\* looked at; git worktree prune drops those whose directory is gone ...
RemoveWorktree(b) ==
  /\ broker[b].at = "cleanup"
  /\ \E left \in {FALSE, broker[b].worktree} :
       broker' = [broker EXCEPT ![b].at = "release", ![b].worktree = left]
  /\ stale' \in {stale, {}}
  /\ UNCHANGED <<head, mainReady, inbox, branch, ledger, lock, history>>

MutKeepsBranch(b) == FALSE

MutDeletesAlways(b) == ~CheckedOut(broker[b].job)

\* ... and, if nothing was prepared, the branch, whoever made it; git refuses
\* while a worktree has it checked out.
DeletesBranch(b) == ~broker[b].prepared /\ ~CheckedOut(broker[b].job)

\* The worktree was not removed, or git branch -D fails: its result is not looked
\* at either.
LeavesBranch(b) ==
  /\ ~broker[b].prepared
  /\ undeleted' = undeleted \cup {broker[b].job}
  /\ UNCHANGED branch

\* The directory of the worktree goes with its TemporaryDirectory, and the flock.
ReleaseLock(b) ==
  LET p == broker[b].job
  IN  /\ broker[b].at = "release"
      /\ \/ /\ broker[b].worktree => broker[b].prepared
            /\ branch' = IF DeletesBranch(b)
                         THEN [branch EXCEPT ![p] = NoBranch] ELSE branch
            /\ UNCHANGED undeleted
         \/ LeavesBranch(b)
      /\ stale' = IF broker[b].worktree THEN stale \cup {p} ELSE stale
      /\ Return(b)
      /\ lock' = NoBroker
      /\ UNCHANGED <<head, mainReady, inbox, ledger, spoilt>>

MutLockOutlives(b) == lock

\* The flock of a process that is killed goes with it.
LockAfterDeath(b) == IF lock = b THEN NoBroker ELSE lock

Crash(b) ==
  /\ b \in Running
  /\ broker' = [broker EXCEPT ![b].at = "dead", ![b].todo = {},
                              ![b].read = NoApproval, ![b].prepared = FALSE]
  /\ lock' = LockAfterDeath(b)
  /\ UNCHANGED <<repository, ledger, history>>

-----------------------------------------------------------------------------
(* People.                                                                 *)

\* A human approves a proposal, or a new version of it, against main as it is.
Approve(p) ==
  /\ inbox[p].version < MaxVersion
  /\ inbox' = [inbox EXCEPT ![p] = [version |-> @.version + 1, base |-> head]]
  /\ UNCHANGED <<head, mainReady, branch, stale, ledger, lock, broker, history>>

\* Somebody pushes to main, or leaves its working tree dirty or clean.
Push ==
  /\ head < MaxHead
  /\ head' = head + 1
  /\ UNCHANGED <<mainReady, inbox, branch, stale, ledger, lock, broker, history>>

Edit ==
  /\ mainReady' = ~mainReady
  /\ UNCHANGED <<head, inbox, branch, stale, ledger, lock, broker, history>>

\* The candidate branch is submitted and merged, and then dropped or kept.
Submit(e) ==
  LET p == e.proposal
  IN  /\ e \in ready \ submitted
      /\ Exists(p)
      /\ head < MaxHead
      /\ head' = head + 1
      /\ submitted' = submitted \cup {e}
      /\ branch' \in {branch} \cup
           IF CheckedOut(p) THEN {} ELSE {[branch EXCEPT ![p] = NoBranch]}
      /\ UNCHANGED <<mainReady, inbox, stale, ready, lock, broker, history>>

-----------------------------------------------------------------------------
BrokerStep(b) ==
  \/ \E p \in Proposals : Take(b, p)
  \/ Look(b)
  \/ Finish(b)
  \/ Acquire(b)
  \/ AddWorktree(b)
  \/ Commit(b)
  \/ Recheck(b)
  \/ Record(b)
  \/ RemoveWorktree(b)
  \/ ReleaseLock(b)

People ==
  \/ \E p \in Proposals : Approve(p)
  \/ Push
  \/ Edit
  \/ \E e \in ready : Submit(e)

Next == (\E b \in Brokers : Start(b) \/ BrokerStep(b) \/ Crash(b)) \/ People

\* A process that was started runs on: git and the gates end.
Spec == Init /\ [][Next]_vars /\ \A b \in Brokers : WF_vars(BrokerStep(b))

-----------------------------------------------------------------------------
(* Properties.                                                             *)

\* Every variable keeps its type, and the flock is held by exactly the broker
\* that is inside it.
TypeOK ==
  /\ head \in 0..MaxHead
  /\ mainReady \in BOOLEAN
  /\ inbox \in [Proposals -> Approval]
  /\ branch \in [Proposals -> Branch]
  /\ ready \subseteq Event
  /\ submitted \subseteq ready
  /\ stale \subseteq Proposals
  /\ spoilt \subseteq Proposals /\ undeleted \subseteq Proposals
  /\ broker \in [Brokers -> Broker]
  /\ \A b \in Brokers : broker[b].at \in Locked <=> lock = b

\* A candidate branch belongs to a PR_READY event, or to the broker that is at
\* work on it, or a broker died on it, or a command of its cleanup failed
\* (undeleted): no other failed integration leaves a branch behind that would deny
\* the next attempt.
NoBranchIsLeftBehind ==
  \A p \in Proposals : Exists(p) =>
    \/ \E e \in ready : e.proposal = p /\ e.approval = branch[p].approval
    \/ \E b \in Brokers : /\ broker[b].job = p
                          /\ broker[b].at \in Locked \cup {"dead"}
    \/ p \in undeleted

\* The ledger promises a branch that people can submit: until then it is there
\* and carries the commit of the approval.  Two ways break the promise (spoilt): two
\* brokers that looked for the same branch at the same time, for the test is made
\* before the flock, and a _write_event that raised after its event was written.
\* Nothing else does: no other failing step, a cleanup that fails, a broker killed
\* inside or outside the flock, the branch of a dead one, a newer approval or a
\* push.
DeliverableUnlessSpoilt ==
  \A e \in ready \ submitted : e.proposal \notin spoilt =>
    branch[e.proposal] = [kind |-> "commit", approval |-> e.approval]

\* An approval becomes PR_READY once, through retries, crashes, failing cleanups and
\* merges, unless its proposal is spoilt in one of those two ways.
ReadyOnce ==
  \A b \in Brokers : broker[b].at = "record" /\ broker[b].job \notin spoilt =>
    EventOf(b) \notin ready

\* No PR_READY for an approval follows one for a later approval of the same
\* proposal, whoever waits with an earlier version, deletes or dies meanwhile.
ReadyInOrder ==
  \A b \in Brokers : \A e \in ready :
    broker[b].at = "record" /\ e.proposal = broker[b].job =>
      e.approval.version <= broker[b].read.version

\* The commit that people find on the candidate branch of p.
Candidate(p) ==
  IF branch[p].kind = "commit" THEN branch[p].approval ELSE NoApproval

Delivery == INSTANCE CandidateDelivery
  WITH main <- head, newest <- inbox, delivered <- ready, merged <- submitted,
       candidate <- [p \in Proposals |-> Candidate(p)]

\* The brokers together, killed or not, keep the promise of CandidateDelivery:
\* only what a human approved is prepared and recorded, a recorded candidate is
\* there until it is merged, each approval is recorded once, in order and after
\* the earlier ones of its proposal were merged, and no broker moves main.  Of
\* proposals that were spoilt, by two brokers at once or by an event whose writing
\* raised, only the order holds.
ImplementsDelivery == Delivery!DeliverySpec

\* A pass over the inbox ends, whoever else works on the repository and
\* whichever broker dies with the lock.
PassEnds ==
  \A b \in Brokers :
    broker[b].at = "next" ~> broker[b].at \in {"done", "dead"}
=============================================================================
