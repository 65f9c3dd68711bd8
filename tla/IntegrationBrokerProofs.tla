----------------------- MODULE IntegrationBrokerProofs -----------------------
(***************************************************************************)
(* Theorems about the integration broker, for any number of brokers,       *)
(* proposals, commits, approvals and brokers at a time.  Five facts that   *)
(* no property states carry the argument: what a broker at a step has in   *)
(* hand (InHand), that nothing is approved against a commit still to come  *)
(* (FromThePast), that two brokers at one proposal have spoilt it          *)
(* (RaceIsNoted), that a broker at a proposal that is not spoilt has no    *)
(* event of it to be submitted (NothingPending), and whose the branches    *)
(* are that a worktree which is gone keeps (StaleIsAccounted).             *)
(***************************************************************************)
EXTENDS IntegrationBroker, TLAPS

\* A broker past Look, before it is done with the proposal.
Engaged == {"wait"} \cup Locked

\* What broker b has in hand at the step it is at.
InHandOf(b) ==
  /\ broker[b].at \in {"look"} \cup Engaged => broker[b].job \in Proposals
  /\ broker[b].prepared => broker[b].at \in {"cleanup", "release"}
  /\ broker[b].worktree =>
       broker[b].at \in {"commit", "recheck", "record", "cleanup", "release", "dead"}
  /\ broker[b].at \in {"commit", "recheck", "record"} => broker[b].worktree
  /\ broker[b].worktree /\ broker[b].at # "dead" =>
       /\ Exists(broker[b].job)
       /\ branch[broker[b].job].approval = broker[b].read
  /\ broker[b].at \in {"recheck", "record"} =>
       branch[broker[b].job].kind = "commit"
  /\ broker[b].prepared =>
       /\ EventOf(b) \in ready
       /\ Exists(broker[b].job) => branch[broker[b].job].approval = broker[b].read

InHand == \A b \in Brokers : InHandOf(b)

\* Approvals and events refer to commits main has had, and to approvals the
\* inbox has had; a submitted event has moved main on.
FromThePast ==
  /\ \A p \in Proposals : inbox[p].base <= head
  /\ \A e \in ready : /\ e.approval.version <= inbox[e.proposal].version
                      /\ e.approval.base <= head
  /\ \A e \in submitted : e.approval.base < head
  /\ \A b \in Brokers :
       broker[b].at \in {"look"} \cup Engaged =>
         /\ broker[b].read.version <= inbox[broker[b].job].version
         /\ broker[b].read.base <= head

\* Two brokers past Look with the same proposal: the second saw the first.
RaceIsNoted ==
  \A b, o \in Brokers :
    /\ b # o
    /\ broker[b].at \in Engaged
    /\ broker[o].at \in Engaged
    /\ broker[b].job = broker[o].job
    => broker[b].job \in spoilt

\* A broker that has prepared nothing for a proposal that is not spoilt has no event
\* of it waiting to be submitted.
NothingPending ==
  \A b \in Brokers : \A e \in ready \ submitted :
    /\ broker[b].at \in Engaged
    /\ ~broker[b].prepared
    /\ e.proposal = broker[b].job
    => e.proposal \in spoilt

\* A branch that git takes to be checked out in a worktree that is gone is still
\* there; an event names it, or the cleanup that left it failed.
StaleIsAccounted ==
  \A p \in stale :
    /\ Exists(p)
    /\ \/ \E e \in ready : e.proposal = p /\ e.approval = branch[p].approval
       \/ p \in undeleted

\* The inductive invariant.
BrokerInv ==
  /\ TypeOK
  /\ InHand
  /\ FromThePast
  /\ RaceIsNoted
  /\ NothingPending
  /\ StaleIsAccounted
  /\ NoBranchIsLeftBehind
  /\ DeliverableUnlessSpoilt
  /\ ReadyOnce
  /\ ReadyInOrder

-----------------------------------------------------------------------------
(* Steps of one broker.                                                    *)

\* integrate takes up a proposal, or denies it.
LEMMA TakeKeeps ==
  ASSUME BrokerInv, NEW b \in Brokers, NEW p \in Proposals, Take(b, p)
  PROVE  BrokerInv'
<1>0. /\ UNCHANGED <<head, mainReady, inbox, branch, stale, ready, submitted, lock,
                     spoilt, undeleted>>
      /\ broker[b].at = "next"
  BY DEF Take, repository, ledger, history
<1>1. \A o \in Brokers : o # b => broker'[o] = broker[o]
  BY DEF Take, BrokerInv, TypeOK
<1>2. /\ broker' \in [Brokers -> Broker]
      /\ \/ /\ broker'[b].at = "look" /\ broker'[b].job = p
            /\ broker'[b].read = inbox[p]
            /\ broker'[b].prepared = broker[b].prepared
            /\ broker'[b].worktree = broker[b].worktree
         \/ /\ broker'[b].at = "next" /\ broker'[b].job = broker[b].job
            /\ broker'[b].read = broker[b].read
            /\ broker'[b].prepared = broker[b].prepared
            /\ broker'[b].worktree = broker[b].worktree
  BY DEF Take, BrokerInv, TypeOK, Broker, Steps
<1>3. TypeOK'
  BY <1>0, <1>1, <1>2 DEF BrokerInv, TypeOK, Locked
<1>4. InHand'
  BY <1>0, <1>1, <1>2 DEF BrokerInv, InHand, InHandOf, Engaged, Locked, Exists, EventOf
<1>5. FromThePast'
  <2>1. inbox[p].version <= inbox[p].version /\ inbox[p].base <= head
    BY DEF BrokerInv, FromThePast, TypeOK, Approval
  <2> QED  BY <1>0, <1>1, <1>2, <2>1 DEF BrokerInv, FromThePast, Engaged, Locked
<1>6. RaceIsNoted' /\ NothingPending'
  BY <1>0, <1>1, <1>2 DEF BrokerInv, RaceIsNoted, NothingPending, Engaged, Locked
<1>7. NoBranchIsLeftBehind' /\ StaleIsAccounted'
  BY <1>0, <1>1, <1>2
     DEF BrokerInv, NoBranchIsLeftBehind, StaleIsAccounted, Exists, Locked
<1>8. DeliverableUnlessSpoilt' /\ ReadyOnce' /\ ReadyInOrder'
  BY <1>0, <1>1, <1>2
     DEF BrokerInv, DeliverableUnlessSpoilt, ReadyOnce, ReadyInOrder, EventOf
<1> QED  BY <1>3, <1>4, <1>5, <1>6, <1>7, <1>8 DEF BrokerInv

LEMMA NoApprovalIs == NoApproval \in Approval
BY BrokerAssumption DEF NoApproval, Approval

\* A call of integrate that returns has nothing in hand.
LEMMA ReturnClears ==
  ASSUME TypeOK, NEW b \in Brokers, Return(b)
  PROVE  /\ broker' \in [Brokers -> Broker]
         /\ broker'[b].at = "next" /\ broker'[b].todo = broker[b].todo
         /\ ~broker'[b].prepared /\ ~broker'[b].worktree
         /\ \A o \in Brokers : o # b => broker'[o] = broker[o]
<1> DEFINE empty == [at |-> "next", todo |-> broker[b].todo, job |-> NoProposal,
                     read |-> NoApproval, worktree |-> FALSE, prepared |-> FALSE]
<1>1. broker \in [Brokers -> Broker] /\ broker[b] \in Broker
  BY DEF TypeOK
<1>2. empty \in Broker
  BY <1>1, NoApprovalIs DEF Broker, Steps
<1>3. broker' = [broker EXCEPT ![b] = empty]
  BY DEF Return
<1> HIDE DEF empty
<1>4. /\ broker' \in [Brokers -> Broker] /\ broker'[b] = empty
      /\ \A o \in Brokers : o # b => broker'[o] = broker[o]
  BY <1>1, <1>2, <1>3
<1> QED  BY <1>4 DEF empty

\* A broker starts, ends its pass or is killed: its proposal and its worktree stay
\* what they were.
LEMMA StartFinishCrashKeep ==
  ASSUME BrokerInv, NEW b \in Brokers, Start(b) \/ Finish(b) \/ Crash(b)
  PROVE  BrokerInv'
<1>0. UNCHANGED <<head, mainReady, inbox, branch, stale, ready, submitted, spoilt,
                     undeleted>>
  BY DEF Start, Finish, Crash, repository, ledger, history
<1>1. \A o \in Brokers : o # b => broker'[o] = broker[o]
  BY DEF Start, Finish, Crash, Goto, BrokerInv, TypeOK
<1>2. /\ broker' \in [Brokers -> Broker]
      /\ broker'[b].job = broker[b].job
      /\ broker'[b].worktree = broker[b].worktree
      /\ \/ /\ broker[b].at \in {"idle", "next"} /\ lock' = lock
            /\ broker'[b].at \in {"next", "done"}
            /\ broker'[b].read = broker[b].read
            /\ broker'[b].prepared = broker[b].prepared
         \/ /\ broker'[b].at = "dead" /\ lock' = LockAfterDeath(b)
            /\ ~broker'[b].prepared
  BY NoApprovalIs DEF Start, Finish, Crash, Goto, Waiting, BrokerInv, TypeOK, Broker, Steps
<1>3. TypeOK'
  BY <1>0, <1>1, <1>2, BrokerAssumption DEF BrokerInv, TypeOK, Locked, LockAfterDeath
<1>4. InHand'
  BY <1>0, <1>1, <1>2 DEF BrokerInv, InHand, InHandOf, Engaged, Locked, Exists, EventOf
<1>5. FromThePast'
  BY <1>0, <1>1, <1>2 DEF BrokerInv, FromThePast, Engaged, Locked
<1>6. RaceIsNoted' /\ NothingPending'
  BY <1>0, <1>1, <1>2 DEF BrokerInv, RaceIsNoted, NothingPending, Engaged, Locked
<1>7. NoBranchIsLeftBehind' /\ StaleIsAccounted'
  BY <1>0, <1>1, <1>2
     DEF BrokerInv, NoBranchIsLeftBehind, StaleIsAccounted, Exists, Locked
<1>8. DeliverableUnlessSpoilt' /\ ReadyOnce' /\ ReadyInOrder'
  BY <1>0, <1>1, <1>2
     DEF BrokerInv, DeliverableUnlessSpoilt, ReadyOnce, ReadyInOrder, EventOf
<1> QED  BY <1>3, <1>4, <1>5, <1>6, <1>7, <1>8 DEF BrokerInv

\* A broker that sees no branch of its proposal: no event of it is waiting, or
\* it is spoilt; and whoever else is past Look is noted.
LEMMA LookKeeps ==
  ASSUME BrokerInv, NEW b \in Brokers, Look(b)
  PROVE  BrokerInv'
<1>0. /\ UNCHANGED <<head, mainReady, inbox, branch, stale, ready, submitted, lock,
                     undeleted>>
      /\ broker[b].at = "look"
      /\ broker[b].job \in Proposals
      /\ spoilt \subseteq spoilt'
      /\ spoilt' \subseteq Proposals
  BY DEF Look, Return, Goto, BrokerInv, TypeOK, InHand, InHandOf, repository, ledger,
         history
<1>1. \A o \in Brokers : o # b => broker'[o] = broker[o]
  BY ReturnClears DEF Look, Goto, BrokerInv, TypeOK
<1>2. /\ broker' \in [Brokers -> Broker]
      /\ ~broker'[b].prepared /\ ~broker'[b].worktree
      /\ \/ broker'[b].at = "next"
         \/ /\ broker'[b].at = "wait"
            /\ broker'[b].job = broker[b].job
            /\ broker'[b].read = broker[b].read
            /\ branch[broker[b].job].kind = "none"
            /\ Contended(b) => broker[b].job \in spoilt'
  <2>1. ~broker[b].prepared /\ ~broker[b].worktree
    BY <1>0 DEF BrokerInv, InHand, InHandOf
  <2>2. CASE Return(b)  BY <2>2, ReturnClears DEF BrokerInv
  <2>3. CASE ~Exists(broker[b].job) /\ Goto(b, "wait")
    BY <2>1, <2>3 DEF Look, Goto, Exists, BrokerInv, TypeOK, Broker, Steps
  <2> QED  BY <2>2, <2>3 DEF Look
<1>3. TypeOK'
  BY <1>0, <1>1, <1>2 DEF BrokerInv, TypeOK, Locked
<1>4. InHand'
  BY <1>0, <1>1, <1>2 DEF BrokerInv, InHand, InHandOf, Engaged, Locked, Exists, EventOf
<1>5. FromThePast'
  BY <1>0, <1>1, <1>2 DEF BrokerInv, FromThePast, Engaged, Locked
<1>6. RaceIsNoted'
  BY <1>0, <1>1, <1>2 DEF BrokerInv, RaceIsNoted, Engaged, Locked, Contended
<1>7. NothingPending'
  <2>1. \A e \in ready \ submitted : e.proposal \notin spoilt =>
          branch[e.proposal].kind = "commit"
    <3> SUFFICES ASSUME NEW e \in ready \ submitted, e.proposal \notin spoilt
                 PROVE  branch[e.proposal].kind = "commit"
      OBVIOUS
    <3>1. branch[e.proposal] = [kind |-> "commit", approval |-> e.approval]
      BY DEF BrokerInv, DeliverableUnlessSpoilt
    <3> QED  BY <3>1
  <2> QED  BY <1>0, <1>1, <1>2, <2>1 DEF BrokerInv, NothingPending, Engaged, Locked
<1>8. NoBranchIsLeftBehind' /\ StaleIsAccounted'
  BY <1>0, <1>1, <1>2
     DEF BrokerInv, NoBranchIsLeftBehind, StaleIsAccounted, Exists, Locked
<1>9. DeliverableUnlessSpoilt' /\ ReadyOnce' /\ ReadyInOrder'
  BY <1>0, <1>1, <1>2
     DEF BrokerInv, DeliverableUnlessSpoilt, ReadyOnce, ReadyInOrder, EventOf
<1> QED  BY <1>3, <1>4, <1>5, <1>6, <1>7, <1>8, <1>9 DEF BrokerInv

\* The flock: taken when nobody has it.
LEMMA AcquireKeeps ==
  ASSUME BrokerInv, NEW b \in Brokers, Acquire(b)
  PROVE  BrokerInv'
<1>0. /\ UNCHANGED <<head, mainReady, inbox, branch, stale, ready, submitted, spoilt,
                     undeleted>>
      /\ broker[b].at = "wait"
      /\ lock = NoBroker
  BY DEF Acquire, repository, ledger, history
<1>1. \A o \in Brokers : o # b => broker'[o] = broker[o]
  BY ReturnClears DEF Acquire, Goto, BrokerInv, TypeOK
<1>2. /\ broker' \in [Brokers -> Broker]
      /\ ~broker'[b].prepared /\ ~broker'[b].worktree /\ ~broker[b].prepared
      /\ \/ broker'[b].at = "next" /\ lock' = lock
         \/ /\ broker'[b].at = "add" /\ broker'[b].job = broker[b].job
            /\ broker'[b].read = broker[b].read /\ lock' = b
  <2>1. ~broker[b].prepared /\ ~broker[b].worktree
    BY <1>0 DEF BrokerInv, InHand, InHandOf
  <2>2. CASE Return(b) /\ lock' = lock
    BY <2>1, <2>2, ReturnClears DEF BrokerInv
  <2>3. CASE Goto(b, "add") /\ lock' = b
    BY <2>1, <2>3 DEF Goto, BrokerInv, TypeOK, Broker, Steps
  <2> QED  BY <2>2, <2>3 DEF Acquire
<1>3. TypeOK'
  BY <1>0, <1>1, <1>2, BrokerAssumption DEF BrokerInv, TypeOK, Locked
<1>4. InHand'
  BY <1>0, <1>1, <1>2 DEF BrokerInv, InHand, InHandOf, Engaged, Locked, Exists, EventOf
<1>5. FromThePast'
  BY <1>0, <1>1, <1>2 DEF BrokerInv, FromThePast, Engaged, Locked
<1>6. RaceIsNoted' /\ NothingPending'
  BY <1>0, <1>1, <1>2 DEF BrokerInv, RaceIsNoted, NothingPending, Engaged, Locked
<1>7. NoBranchIsLeftBehind' /\ StaleIsAccounted'
  BY <1>0, <1>1, <1>2
     DEF BrokerInv, NoBranchIsLeftBehind, StaleIsAccounted, Exists, Locked
<1>8. DeliverableUnlessSpoilt' /\ ReadyOnce' /\ ReadyInOrder'
  BY <1>0, <1>1, <1>2
     DEF BrokerInv, DeliverableUnlessSpoilt, ReadyOnce, ReadyInOrder, EventOf
<1> QED  BY <1>3, <1>4, <1>5, <1>6, <1>7, <1>8 DEF BrokerInv

\* Inside the flock nobody else is.
LEMMA Alone ==
  ASSUME BrokerInv, NEW b \in Brokers, broker[b].at \in Locked
  PROVE  /\ lock = b
         /\ \A o \in Brokers : o # b => broker[o].at \notin Locked
         /\ broker[b].job \in Proposals
BY DEF BrokerInv, TypeOK, InHand, InHandOf, Engaged

\* The branches of others keep their witness while broker b works on its own.
LEMMA WitnessStays ==
  ASSUME BrokerInv, NEW b \in Brokers, ready \subseteq ready',
         broker'[b].job = broker[b].job, broker'[b].at \in Locked,
         \A o \in Brokers : o # b => broker'[o] = broker[o],
         \A q \in Proposals : q # broker[b].job => branch'[q] = branch[q],
         undeleted \subseteq undeleted'
  PROVE  NoBranchIsLeftBehind'
<1> SUFFICES ASSUME NEW q \in Proposals, Exists(q)'
             PROVE  \/ \E e \in ready' : e.proposal = q /\ e.approval = branch'[q].approval
                    \/ \E o \in Brokers : /\ broker'[o].job = q
                                          /\ broker'[o].at \in Locked \cup {"dead"}
                    \/ q \in undeleted'
  BY DEF NoBranchIsLeftBehind
<1>1. CASE q = broker[b].job
  BY <1>1
<1>2. CASE q # broker[b].job
  <2>1. branch'[q] = branch[q] /\ Exists(q)
    BY <1>2 DEF Exists
  <2>2. CASE \E e \in ready : e.proposal = q /\ e.approval = branch[q].approval
    BY <2>1, <2>2
  <2>3. ASSUME NEW o \in Brokers, broker[o].job = q,
               broker[o].at \in Locked \cup {"dead"}
        PROVE  broker'[o] = broker[o]
    BY <1>2, <2>3
  <2> QED  BY <2>1, <2>2, <2>3 DEF BrokerInv, NoBranchIsLeftBehind
<1> QED  BY <1>1, <1>2

\* git worktree add: a branch of its own, where none was.
LEMMA AddWorktreeKeeps ==
  ASSUME BrokerInv, NEW b \in Brokers, AddWorktree(b)
  PROVE  BrokerInv'
<1> DEFINE p == broker[b].job
<1>0. /\ UNCHANGED <<head, mainReady, inbox, stale, ready, submitted, lock, spoilt,
                     undeleted>>
      /\ broker[b].at = "add"
  BY DEF AddWorktree, repository, ledger, history
<1>a. /\ lock = b
      /\ \A o \in Brokers : o # b => broker[o].at \notin Locked
      /\ p \in Proposals
      /\ ~broker[b].prepared
      /\ ~broker[b].worktree
  BY <1>0, Alone DEF Locked, BrokerInv, InHand, InHandOf
<1>1. \A o \in Brokers : o # b => broker'[o] = broker[o]
  BY DEF AddWorktree, Goto, BrokerInv, TypeOK
<1>2. /\ broker' \in [Brokers -> Broker]
      /\ branch' \in [Proposals -> Branch]
      /\ \A q \in Proposals : q # p => branch'[q] = branch[q]
      /\ broker'[b].job = p
      /\ broker'[b].read = broker[b].read
      /\ ~broker'[b].prepared
      /\ \/ /\ broker'[b].at = "commit" /\ broker'[b].worktree
            /\ branch[p].kind = "none"
            /\ branch'[p] = [kind |-> "base", approval |-> broker[b].read]
         \/ /\ broker'[b].at = "cleanup" /\ ~broker'[b].worktree
            /\ branch[p].kind = "none" \/ branch'[p] = branch[p]
  <2> DEFINE new == [kind |-> "base", approval |-> broker[b].read]
             made == [branch EXCEPT ![p] = new]
  <2>1. broker \in [Brokers -> Broker] /\ branch \in [Proposals -> Branch]
    BY DEF BrokerInv, TypeOK
  <2>2. new \in Branch
    BY <2>1 DEF Branch, Broker
  <2>3. made \in [Proposals -> Branch] /\ made[p] = new
    BY <1>a, <2>1, <2>2
  <2>4. \A q \in Proposals : q # p => made[q] = branch[q]
    BY <2>1
  <2>5. \/ /\ branch[p].kind = "none" /\ branch' = made
           /\ broker' = [broker EXCEPT ![b].at = "commit", ![b].worktree = TRUE]
        \/ /\ broker' = [broker EXCEPT ![b].at = "cleanup"]
           /\ branch' = branch \/ (branch' = made /\ branch[p].kind = "none")
    BY DEF AddWorktree, Goto, Exists
  <2> HIDE DEF made
  <2>6. CASE /\ branch[p].kind = "none" /\ branch' = made
             /\ broker' = [broker EXCEPT ![b].at = "commit", ![b].worktree = TRUE]
    <3>1. /\ broker' \in [Brokers -> Broker]
          /\ broker'[b].job = p /\ broker'[b].read = broker[b].read
          /\ broker'[b].prepared = broker[b].prepared
          /\ broker'[b].at = "commit" /\ broker'[b].worktree
      BY <2>1, <2>6 DEF Broker, Steps
    <3> QED  BY <1>a, <2>3, <2>4, <2>6, <3>1
  <2>7. CASE /\ broker' = [broker EXCEPT ![b].at = "cleanup"]
             /\ branch' = branch \/ (branch' = made /\ branch[p].kind = "none")
    <3>1. /\ broker' \in [Brokers -> Broker]
          /\ broker'[b].job = p /\ broker'[b].read = broker[b].read
          /\ broker'[b].prepared = broker[b].prepared
          /\ broker'[b].at = "cleanup" /\ broker'[b].worktree = broker[b].worktree
      BY <2>1, <2>7 DEF Broker, Steps
    <3> QED  BY <1>a, <2>1, <2>3, <2>4, <2>7, <3>1
  <2> QED  BY <2>5, <2>6, <2>7
<1> HIDE DEF p
<1>3. TypeOK'
  BY <1>0, <1>1, <1>2, <1>a DEF BrokerInv, TypeOK, Locked
<1>4. InHand'
  <2>1. InHandOf(b)'
    BY <1>0, <1>2, <1>a DEF InHandOf, Engaged, Locked, Exists
  <2>2. ASSUME NEW o \in Brokers, o # b PROVE InHandOf(o)'
    BY <1>0, <1>1, <1>a, <2>2
       DEF BrokerInv, InHand, InHandOf, Engaged, Locked, Exists, EventOf
  <2> QED  BY <2>1, <2>2 DEF InHand
<1>5. FromThePast'
  BY <1>0, <1>1, <1>2 DEF BrokerInv, FromThePast, Engaged, Locked, p
<1>6. RaceIsNoted' /\ NothingPending'
  BY <1>0, <1>1, <1>2, <1>a
     DEF BrokerInv, RaceIsNoted, NothingPending, Engaged, Locked, p
<1>7. NoBranchIsLeftBehind' /\ StaleIsAccounted'
  <2>1. NoBranchIsLeftBehind'
    BY <1>0, <1>1, <1>2, WitnessStays DEF Locked, p
  <2>2. \A q \in stale : branch'[q] = branch[q]
    BY <1>2, <1>a DEF BrokerInv, StaleIsAccounted, Exists, TypeOK
  <2> QED  BY <1>0, <2>1, <2>2 DEF BrokerInv, StaleIsAccounted, Exists
<1>8. DeliverableUnlessSpoilt'
  BY <1>0, <1>1, <1>2, <1>a
     DEF BrokerInv, DeliverableUnlessSpoilt, TypeOK, Event
<1>9. ReadyOnce' /\ ReadyInOrder'
  BY <1>0, <1>1, <1>2 DEF BrokerInv, ReadyOnce, ReadyInOrder, EventOf
<1> QED  BY <1>3, <1>4, <1>5, <1>6, <1>7, <1>8, <1>9 DEF BrokerInv

\* The commit on the branch, or a failure before it.
LEMMA CommitKeeps ==
  ASSUME BrokerInv, NEW b \in Brokers, Commit(b)
  PROVE  BrokerInv'
<1> DEFINE p == broker[b].job
<1>0. /\ UNCHANGED <<head, mainReady, inbox, stale, ready, submitted, lock, spoilt,
                     undeleted>>
      /\ broker[b].at = "commit"
  BY DEF Commit, repository, ledger, history
<1>a. /\ lock = b
      /\ \A o \in Brokers : o # b => broker[o].at \notin Locked
      /\ p \in Proposals
      /\ ~broker[b].prepared
      /\ broker[b].worktree
      /\ branch[p].approval = broker[b].read
      /\ branch[p].kind # "none"
  BY <1>0, Alone DEF Locked, BrokerInv, InHand, InHandOf, Exists
<1>1. \A o \in Brokers : o # b => broker'[o] = broker[o]
  BY DEF Commit, Goto, BrokerInv, TypeOK
<1>2. /\ broker' \in [Brokers -> Broker]
      /\ branch' \in [Proposals -> Branch]
      /\ \A q \in Proposals : q # p => branch'[q] = branch[q]
      /\ broker'[b].job = p
      /\ broker'[b].read = broker[b].read
      /\ ~broker'[b].prepared
      /\ broker'[b].worktree
      /\ branch'[p].approval = broker[b].read
      /\ branch'[p].kind # "none"
      /\ \/ broker'[b].at = "recheck" /\ branch'[p].kind = "commit"
         \/ broker'[b].at = "cleanup"
  <2>1. broker \in [Brokers -> Broker] /\ branch \in [Proposals -> Branch]
    BY DEF BrokerInv, TypeOK
  <2>2. /\ broker' \in [Brokers -> Broker]
        /\ broker'[b].job = p
        /\ broker'[b].read = broker[b].read
        /\ broker'[b].prepared = broker[b].prepared
        /\ broker'[b].worktree = broker[b].worktree
    BY <2>1 DEF Commit, Goto, Broker, Steps
  <2>3. \/ broker'[b].at = "cleanup" /\ branch' = branch
        \/ /\ broker'[b].at = "recheck"
           /\ branch' = [branch EXCEPT ![p].kind = "commit"]
    BY <2>1 DEF Commit, Goto, Broker, Steps
  <2>4. CASE broker'[b].at = "cleanup" /\ branch' = branch
    BY <1>a, <2>1, <2>2, <2>4
  <2>5. CASE /\ broker'[b].at = "recheck"
             /\ branch' = [branch EXCEPT ![p].kind = "commit"]
    <3>1. branch[p] \in Branch
      BY <1>a, <2>1
    <3>2. /\ branch'[p] \in Branch
          /\ branch'[p].kind = "commit"
          /\ branch'[p].approval = branch[p].approval
      BY <1>a, <2>1, <2>5, <3>1 DEF Branch
    <3> QED  BY <1>a, <2>1, <2>2, <2>5, <3>2
  <2> QED  BY <2>3, <2>4, <2>5
<1> HIDE DEF p
<1>3. TypeOK'
  BY <1>0, <1>1, <1>2, <1>a DEF BrokerInv, TypeOK, Locked
<1>4. InHand'
  <2>1. InHandOf(b)'
    BY <1>0, <1>2, <1>a DEF InHandOf, Engaged, Locked, Exists
  <2>2. ASSUME NEW o \in Brokers, o # b PROVE InHandOf(o)'
    BY <1>0, <1>1, <1>2, <1>a, <2>2
       DEF BrokerInv, InHand, InHandOf, Engaged, Locked, Exists, EventOf, TypeOK,
           Event
  <2> QED  BY <2>1, <2>2 DEF InHand
<1>5. FromThePast'
  BY <1>0, <1>1, <1>2 DEF BrokerInv, FromThePast, Engaged, Locked, p
<1>6. RaceIsNoted' /\ NothingPending'
  BY <1>0, <1>1, <1>2, <1>a
     DEF BrokerInv, RaceIsNoted, NothingPending, Engaged, Locked, p
<1>7. NoBranchIsLeftBehind' /\ StaleIsAccounted'
  <2>1. NoBranchIsLeftBehind'
    BY <1>0, <1>1, <1>2, WitnessStays DEF Locked, p
  <2>2. \A q \in stale :
          /\ branch'[q].approval = branch[q].approval
          /\ branch[q].kind # "none" => branch'[q].kind # "none"
    BY <1>2, <1>a DEF BrokerInv, TypeOK
  <2>3. StaleIsAccounted'
    <3> SUFFICES ASSUME NEW q \in stale
                 PROVE  /\ branch'[q].kind # "none"
                        /\ \/ \E e \in ready : /\ e.proposal = q
                                               /\ e.approval = branch'[q].approval
                           \/ q \in undeleted
      BY <1>0 DEF StaleIsAccounted, Exists
    <3>1. /\ branch[q].kind # "none"
          /\ \/ \E e \in ready : e.proposal = q /\ e.approval = branch[q].approval
             \/ q \in undeleted
      BY DEF BrokerInv, StaleIsAccounted, Exists
    <3>2. branch'[q].approval = branch[q].approval /\ branch'[q].kind # "none"
      BY <2>2, <3>1
    <3> QED  BY <3>1, <3>2
  <2> QED  BY <2>1, <2>3
<1>8. DeliverableUnlessSpoilt'
  <2>1. \A e \in ready \ submitted : e.proposal = p => e.proposal \in spoilt
    BY <1>0, <1>a DEF BrokerInv, NothingPending, Engaged, Locked, p
  <2> QED  BY <1>0, <1>2, <2>1 DEF BrokerInv, DeliverableUnlessSpoilt, TypeOK, Event
<1>9. ReadyOnce' /\ ReadyInOrder'
  BY <1>0, <1>1, <1>2 DEF BrokerInv, ReadyOnce, ReadyInOrder, EventOf
<1> QED  BY <1>3, <1>4, <1>5, <1>6, <1>7, <1>8, <1>9 DEF BrokerInv

\* The second look at the proposal and at main: an event of the approval that
\* was submitted has moved main on, and one that waits is of a spoilt proposal.
LEMMA RecheckKeeps ==
  ASSUME BrokerInv, NEW b \in Brokers, Recheck(b)
  PROVE  BrokerInv'
<1>0. /\ UNCHANGED <<head, mainReady, inbox, branch, stale, ready, submitted, lock,
                     spoilt, undeleted>>
      /\ broker[b].at = "recheck"
  BY DEF Recheck, repository, ledger, history
<1>1. \A o \in Brokers : o # b => broker'[o] = broker[o]
  BY DEF Recheck, Goto, BrokerInv, TypeOK
<1>2. /\ broker' \in [Brokers -> Broker]
      /\ broker'[b].job = broker[b].job
      /\ broker'[b].read = broker[b].read
      /\ broker'[b].prepared = broker[b].prepared
      /\ broker'[b].worktree = broker[b].worktree
      /\ \/ /\ broker'[b].at = "record"
            /\ inbox[broker[b].job] = broker[b].read
            /\ head = broker[b].read.base
         \/ broker'[b].at = "cleanup"
  BY DEF Recheck, StillApproved, MainIsAsApproved, Goto, BrokerInv, TypeOK,
         Broker, Steps
<1>3. TypeOK'
  BY <1>0, <1>1, <1>2 DEF BrokerInv, TypeOK, Locked
<1>4. InHand'
  BY <1>0, <1>1, <1>2 DEF BrokerInv, InHand, InHandOf, Engaged, Locked, Exists, EventOf
<1>5. FromThePast'
  BY <1>0, <1>1, <1>2 DEF BrokerInv, FromThePast, Engaged, Locked
<1>6. RaceIsNoted' /\ NothingPending'
  BY <1>0, <1>1, <1>2 DEF BrokerInv, RaceIsNoted, NothingPending, Engaged, Locked
<1>7. NoBranchIsLeftBehind' /\ StaleIsAccounted'
  BY <1>0, <1>1, <1>2
     DEF BrokerInv, NoBranchIsLeftBehind, StaleIsAccounted, Exists, Locked
<1>8. DeliverableUnlessSpoilt'
  BY <1>0 DEF BrokerInv, DeliverableUnlessSpoilt
<1>9. ReadyOnce'
  <2> SUFFICES ASSUME NEW o \in Brokers, broker'[o].at = "record",
                      broker'[o].job \notin spoilt, EventOf(o)' \in ready
               PROVE  FALSE
    BY <1>0 DEF ReadyOnce
  <2>1. CASE o # b
    BY <1>0, <1>1, <2>1 DEF BrokerInv, ReadyOnce, EventOf
  <2>2. CASE o = b
    <3>1. EventOf(b) \in ready /\ broker[b].job \notin spoilt
      BY <1>2, <2>2 DEF EventOf
    <3>2. EventOf(b) \in submitted
      BY <1>0, <3>1
         DEF BrokerInv, NothingPending, InHand, InHandOf, Engaged, Locked, EventOf
    <3>3. broker[b].read.base < head
      BY <3>2 DEF BrokerInv, FromThePast, EventOf
    <3>4. head = broker[b].read.base /\ head \in Nat
      BY <1>2, <2>2, BrokerAssumption DEF BrokerInv, TypeOK
    <3> QED  BY <3>3, <3>4
  <2> QED  BY <2>1, <2>2
<1>a. ReadyInOrder'
  <2> SUFFICES ASSUME NEW o \in Brokers, broker'[o].at = "record",
                      NEW e \in ready, e.proposal = broker'[o].job
               PROVE  e.approval.version <= broker'[o].read.version
    BY <1>0 DEF ReadyInOrder
  <2>1. CASE o # b
    BY <1>0, <1>1, <2>1 DEF BrokerInv, ReadyInOrder
  <2>2. CASE o = b
    BY <1>2, <2>2 DEF BrokerInv, FromThePast
  <2> QED  BY <2>1, <2>2
<1> QED  BY <1>3, <1>4, <1>5, <1>6, <1>7, <1>8, <1>9, <1>a DEF BrokerInv

\* The event, or a failure to write it, or an event and a failure all the same.
LEMMA RecordKeeps ==
  ASSUME BrokerInv, NEW b \in Brokers, Record(b)
  PROVE  BrokerInv'
<1> DEFINE p == broker[b].job
<1>0. /\ UNCHANGED <<head, mainReady, inbox, branch, stale, submitted, lock, undeleted>>
      /\ spoilt \subseteq spoilt' /\ spoilt' \subseteq spoilt \cup {p}
      /\ broker[b].at = "record"
  BY DEF Record, repository, ledger, history
<1>a. /\ lock = b
      /\ \A o \in Brokers : o # b => broker[o].at \notin Locked
      /\ p \in Proposals
      /\ broker[b].read \in Approval
      /\ branch[p] = [kind |-> "commit", approval |-> broker[b].read]
      /\ broker[b].worktree
      /\ broker[b].read.version <= inbox[p].version
      /\ broker[b].read.base <= head
  <2>1. lock = b /\ (\A o \in Brokers : o # b => broker[o].at \notin Locked) /\ p \in Proposals
    BY <1>0, Alone DEF Locked
  <2>2. /\ broker[b].worktree
        /\ branch[p].kind = "commit"
        /\ branch[p].approval = broker[b].read
    BY <1>0 DEF BrokerInv, InHand, InHandOf
  <2>3. branch[p] \in Branch /\ broker[b].read \in Approval
    BY <2>1 DEF BrokerInv, TypeOK, Broker
  <2>4. broker[b].read.version <= inbox[p].version /\ broker[b].read.base <= head
    BY <1>0 DEF BrokerInv, FromThePast, Engaged, Locked
  <2> QED  BY <2>1, <2>2, <2>3, <2>4 DEF Branch
<1>1. \A o \in Brokers : o # b => broker'[o] = broker[o]
  BY DEF Record, Goto, BrokerInv, TypeOK
<1>2. /\ broker' \in [Brokers -> Broker]
      /\ broker'[b].at = "cleanup"
      /\ broker'[b].job = p
      /\ broker'[b].read = broker[b].read
      /\ broker'[b].worktree
      /\ \/ ready' = ready \cup {EventOf(b)} /\ broker'[b].prepared
         \/ ready' = ready /\ ~broker'[b].prepared
         \/ /\ ready' = ready \cup {EventOf(b)} /\ ~broker'[b].prepared
            /\ p \in spoilt'
  BY <1>0, <1>a DEF Record, Goto, BrokerInv, TypeOK, Broker, Steps, InHand, InHandOf
<1>e. /\ EventOf(b) \in Event
      /\ EventOf(b).proposal = p
      /\ EventOf(b).approval = broker[b].read
  BY <1>a DEF EventOf, Event
<1>f. EventOf(b)' = EventOf(b) /\ ready \subseteq ready'
  BY <1>2 DEF EventOf
<1> HIDE DEF p
<1>3. TypeOK'
  BY <1>0, <1>1, <1>2, <1>a, <1>e DEF BrokerInv, TypeOK, Locked
<1>4. InHand'
  <2>1. InHandOf(b)'
    BY <1>0, <1>2, <1>a, <1>f DEF InHandOf, Engaged, Locked, Exists
  <2>2. ASSUME NEW o \in Brokers, o # b PROVE InHandOf(o)'
    BY <1>0, <1>1, <1>2, <1>a, <2>2
       DEF BrokerInv, InHand, InHandOf, Engaged, Locked, Exists, EventOf
  <2> QED  BY <2>1, <2>2 DEF InHand
<1>5. FromThePast'
  BY <1>0, <1>1, <1>2, <1>a, <1>e DEF BrokerInv, FromThePast, Engaged, Locked, p
<1>6. RaceIsNoted'
  BY <1>0, <1>1, <1>2 DEF BrokerInv, RaceIsNoted, Engaged, Locked, p
<1>7. NothingPending'
  <2> SUFFICES ASSUME NEW o \in Brokers, NEW e \in ready' \ submitted,
                      broker'[o].at \in Engaged, ~broker'[o].prepared,
                      e.proposal = broker'[o].job
               PROVE  e.proposal \in spoilt'
    BY <1>0 DEF NothingPending
  <2>1. CASE e \in ready
    BY <1>0, <1>1, <1>2, <2>1 DEF BrokerInv, NothingPending, Engaged, Locked, p, InHand, InHandOf
  <2>2. CASE e = EventOf(b) /\ broker'[b].prepared
    <3>1. o # b
      BY <2>2
    <3> QED  BY <1>0, <1>1, <1>e, <2>2, <3>1
             DEF BrokerInv, RaceIsNoted, Engaged, Locked, p
  <2>3. CASE e = EventOf(b) /\ p \in spoilt'
    BY <1>e, <2>3
  <2> QED  BY <1>2, <2>1, <2>2, <2>3
<1>8. NoBranchIsLeftBehind' /\ StaleIsAccounted'
  <2>1. NoBranchIsLeftBehind'
    BY <1>0, <1>1, <1>2, <1>f, WitnessStays DEF Locked, p
  <2> QED  BY <1>0, <1>f, <2>1 DEF BrokerInv, StaleIsAccounted, Exists
<1>9. DeliverableUnlessSpoilt'
  BY <1>0, <1>2, <1>a, <1>e DEF BrokerInv, DeliverableUnlessSpoilt
<1>b. ReadyOnce' /\ ReadyInOrder'
  <2>1. \A o \in Brokers : broker'[o].at # "record"
    BY <1>1, <1>2, <1>a DEF Locked
  <2> QED  BY <2>1 DEF ReadyOnce, ReadyInOrder
<1> QED  BY <1>3, <1>4, <1>5, <1>6, <1>7, <1>8, <1>9, <1>b DEF BrokerInv

\* finally, first half: the worktree goes, or stays.
LEMMA RemoveWorktreeKeeps ==
  ASSUME BrokerInv, NEW b \in Brokers, RemoveWorktree(b)
  PROVE  BrokerInv'
<1>0. /\ UNCHANGED <<head, mainReady, inbox, branch, ready, submitted, lock, spoilt,
                     undeleted>>
      /\ stale' \subseteq stale
      /\ broker[b].at = "cleanup"
  BY DEF RemoveWorktree, repository, ledger, history
<1>1. \A o \in Brokers : o # b => broker'[o] = broker[o]
  BY DEF RemoveWorktree, BrokerInv, TypeOK
<1>2. /\ broker' \in [Brokers -> Broker]
      /\ broker'[b].at = "release"
      /\ broker'[b].job = broker[b].job
      /\ broker'[b].read = broker[b].read
      /\ broker'[b].prepared = broker[b].prepared
      /\ broker'[b].worktree => broker[b].worktree
  <2>1. PICK left \in {FALSE, broker[b].worktree} :
          broker' = [broker EXCEPT ![b].at = "release", ![b].worktree = left]
    BY DEF RemoveWorktree
  <2>2. broker \in [Brokers -> Broker] /\ left \in BOOLEAN
    BY DEF BrokerInv, TypeOK, Broker
  <2>3. /\ broker' \in [Brokers -> Broker]
        /\ broker'[b].at = "release"
        /\ broker'[b].job = broker[b].job
        /\ broker'[b].read = broker[b].read
        /\ broker'[b].prepared = broker[b].prepared
        /\ broker'[b].worktree = left
    BY <2>1, <2>2 DEF Broker, Steps
  <2> QED  BY <2>3
<1>3. TypeOK'
  BY <1>0, <1>1, <1>2 DEF BrokerInv, TypeOK, Locked
<1>4. InHand'
  BY <1>0, <1>1, <1>2 DEF BrokerInv, InHand, InHandOf, Engaged, Locked, Exists, EventOf
<1>5. FromThePast'
  BY <1>0, <1>1, <1>2 DEF BrokerInv, FromThePast, Engaged, Locked
<1>6. RaceIsNoted' /\ NothingPending'
  BY <1>0, <1>1, <1>2 DEF BrokerInv, RaceIsNoted, NothingPending, Engaged, Locked
<1>7. NoBranchIsLeftBehind' /\ StaleIsAccounted'
  BY <1>0, <1>1, <1>2
     DEF BrokerInv, NoBranchIsLeftBehind, StaleIsAccounted, Exists, Locked
<1>8. DeliverableUnlessSpoilt' /\ ReadyOnce' /\ ReadyInOrder'
  BY <1>0, <1>1, <1>2
     DEF BrokerInv, DeliverableUnlessSpoilt, ReadyOnce, ReadyInOrder, EventOf
<1> QED  BY <1>3, <1>4, <1>5, <1>6, <1>7, <1>8 DEF BrokerInv

\* finally, second half: the branch goes unless it was prepared, or a worktree has
\* it, or a command failed; then the flock.
LEMMA ReleaseLockKeeps ==
  ASSUME BrokerInv, NEW b \in Brokers, ReleaseLock(b)
  PROVE  BrokerInv'
<1> DEFINE p == broker[b].job
<1>0. /\ UNCHANGED <<head, mainReady, inbox, ready, submitted, spoilt>>
      /\ broker[b].at = "release"
      /\ lock' = NoBroker
      /\ undeleted \subseteq undeleted'
  BY DEF ReleaseLock, LeavesBranch, ledger
<1>a. /\ lock = b
      /\ \A o \in Brokers : o # b => broker[o].at \notin Locked
      /\ p \in Proposals
  BY <1>0, Alone DEF Locked
<1>b. /\ broker[b].worktree =>
           Exists(p) /\ branch[p].approval = broker[b].read
      /\ broker[b].prepared =>
           /\ EventOf(b) \in ready
           /\ Exists(p) => branch[p].approval = broker[b].read
  BY <1>0 DEF BrokerInv, InHand, InHandOf
<1>1. \A o \in Brokers : o # b => broker'[o] = broker[o]
  BY ReturnClears DEF ReleaseLock, BrokerInv
<1>2. /\ broker' \in [Brokers -> Broker]
      /\ broker'[b].at = "next"
      /\ ~broker'[b].worktree /\ ~broker'[b].prepared
  BY ReturnClears DEF ReleaseLock, BrokerInv
<1>3. /\ branch' \in [Proposals -> Branch]
      /\ \A q \in Proposals : q # p => branch'[q] = branch[q]
      /\ \/ DeletesBranch(b) /\ branch'[p] = NoBranch
         \/ /\ branch'[p] = branch[p]
            /\ broker[b].prepared \/ CheckedOut(p) \/ p \in undeleted'
      /\ broker[b].worktree => broker[b].prepared \/ p \in undeleted'
  <2>1. NoBranch \in Branch
    BY NoApprovalIs DEF NoBranch, Branch
  <2>2. CASE LeavesBranch(b)
    BY <1>a, <2>2 DEF LeavesBranch, BrokerInv, TypeOK
  <2>3. CASE /\ broker[b].worktree => broker[b].prepared
             /\ branch' = IF DeletesBranch(b)
                          THEN [branch EXCEPT ![p] = NoBranch] ELSE branch
    BY <1>a, <2>1, <2>3 DEF DeletesBranch, BrokerInv, TypeOK
  <2> QED  BY <2>2, <2>3 DEF ReleaseLock
<1>c. /\ undeleted' \subseteq undeleted \cup {p}
      /\ stale' \subseteq stale \cup {p}
      /\ p \in stale' => p \in stale \/ broker[b].worktree
  BY DEF ReleaseLock, LeavesBranch
<1>4. /\ DeletesBranch(b) => p \notin stale
      /\ \A o \in Brokers : broker[o].worktree /\ broker[o].job = p =>
           (o = b \/ broker[o].at = "dead") /\ ~DeletesBranch(b)
  BY <1>a DEF BrokerInv, InHand, InHandOf, Locked, DeletesBranch, CheckedOut
<1> HIDE DEF p
<1>5. TypeOK'
  BY <1>0, <1>1, <1>2, <1>3, <1>a, <1>c, BrokerAssumption DEF BrokerInv, TypeOK, Locked
<1>6. InHand'
  <2>1. InHandOf(b)'
    BY <1>2 DEF InHandOf, Engaged, Locked
  <2>2. ASSUME NEW o \in Brokers, o # b PROVE InHandOf(o)'
    BY <1>0, <1>1, <1>3, <1>4, <1>a, <2>2
       DEF BrokerInv, InHand, InHandOf, Engaged, Locked, Exists, EventOf
  <2> QED  BY <2>1, <2>2 DEF InHand
<1>7. FromThePast' /\ RaceIsNoted' /\ NothingPending'
  BY <1>0, <1>1, <1>2
     DEF BrokerInv, FromThePast, RaceIsNoted, NothingPending, Engaged, Locked
<1>d. StaleIsAccounted'
  <2> SUFFICES ASSUME NEW q \in stale'
               PROVE  /\ Exists(q)'
                      /\ \/ \E e \in ready : /\ e.proposal = q
                                             /\ e.approval = branch'[q].approval
                         \/ q \in undeleted'
    BY <1>0 DEF StaleIsAccounted
  <2>1. CASE q \in stale
    <3>1. branch'[q] = branch[q]
      BY <1>3, <1>4, <2>1 DEF BrokerInv, TypeOK
    <3> QED  BY <1>0, <2>1, <3>1 DEF BrokerInv, StaleIsAccounted, Exists
  <2>2. CASE q \notin stale
    <3>1. q = p /\ broker[b].worktree
      BY <1>c, <2>2
    <3>2. branch'[p] = branch[p] /\ Exists(p) /\ branch[p].approval = broker[b].read
      BY <1>3, <1>4, <1>b, <3>1 DEF p
    <3>3. broker[b].prepared => EventOf(b) \in ready
      BY <1>b
    <3> QED  BY <1>3, <3>1, <3>2, <3>3 DEF EventOf, Exists, p
  <2> QED  BY <2>1, <2>2
<1>8. NoBranchIsLeftBehind'
  <2> SUFFICES ASSUME NEW q \in Proposals, Exists(q)'
               PROVE  \/ \E e \in ready : e.proposal = q /\ e.approval = branch'[q].approval
                      \/ \E o \in Brokers : /\ broker'[o].job = q
                                            /\ broker'[o].at \in Locked \cup {"dead"}
                      \/ q \in undeleted'
    BY <1>0 DEF NoBranchIsLeftBehind
  <2>1. branch'[q] = branch[q] /\ Exists(q)
    BY <1>3 DEF Exists, NoBranch
  <2>2. CASE q = p
    <3>1. broker[b].prepared \/ CheckedOut(p) \/ p \in undeleted'
      BY <1>3, <2>1, <2>2 DEF Exists, NoBranch
    <3>2. CASE broker[b].prepared
      <4>1. EventOf(b) \in ready /\ branch[p].approval = broker[b].read
        BY <1>b, <2>1, <2>2, <3>2
      <4> QED  BY <2>1, <2>2, <4>1 DEF EventOf, p
    <3>3. CASE p \in stale
      BY <1>0, <2>1, <2>2, <3>3 DEF BrokerInv, StaleIsAccounted
    <3>4. ASSUME NEW o \in Brokers, broker[o].job = p, broker[o].worktree
          PROVE  \/ broker[b].prepared \/ p \in undeleted'
                 \/ broker'[o].job = p /\ broker'[o].at = "dead"
      <4>1. CASE o = b  BY <1>3, <3>4, <4>1
      <4>2. CASE o # b  BY <1>1, <1>4, <3>4, <4>2
      <4> QED  BY <4>1, <4>2
    <3> QED  BY <2>2, <3>1, <3>2, <3>3, <3>4 DEF CheckedOut
  <2>3. CASE q # p
    <3>1. ASSUME NEW o \in Brokers, broker[o].job = q,
                 broker[o].at \in Locked \cup {"dead"}
          PROVE  broker'[o] = broker[o]
      BY <1>1, <2>3, <3>1 DEF p
    <3> QED  BY <1>0, <2>1, <3>1 DEF BrokerInv, NoBranchIsLeftBehind
  <2> QED  BY <2>2, <2>3
<1>9. DeliverableUnlessSpoilt'
  <2> SUFFICES ASSUME NEW e \in ready \ submitted, e.proposal \notin spoilt
               PROVE  branch'[e.proposal] = [kind |-> "commit", approval |-> e.approval]
    BY <1>0 DEF DeliverableUnlessSpoilt
  <2>1. branch[e.proposal] = [kind |-> "commit", approval |-> e.approval]
    BY DEF BrokerInv, DeliverableUnlessSpoilt
  <2>2. e.proposal \in Proposals
    BY DEF BrokerInv, TypeOK, Event
  <2>3. CASE DeletesBranch(b)
    <3>1. e.proposal # p
      BY <1>0, <2>3
         DEF BrokerInv, NothingPending, Engaged, Locked, DeletesBranch, p
    <3> QED  BY <1>3, <2>1, <2>2, <3>1
  <2>4. CASE ~DeletesBranch(b)
    BY <1>3, <2>1, <2>2, <2>4
  <2> QED  BY <2>3, <2>4
<1>e. ReadyOnce' /\ ReadyInOrder'
  BY <1>0, <1>1, <1>2 DEF BrokerInv, ReadyOnce, ReadyInOrder, EventOf
<1> QED  BY <1>5, <1>6, <1>7, <1>8, <1>9, <1>d, <1>e DEF BrokerInv

-----------------------------------------------------------------------------
(* People.                                                                 *)

\* A new approval is against main as it is, and later than every event.
LEMMA ApproveKeeps ==
  ASSUME BrokerInv, NEW p \in Proposals, Approve(p)
  PROVE  BrokerInv'
<1>0. /\ UNCHANGED <<head, mainReady, branch, stale, ready, submitted, lock, broker,
                     spoilt, undeleted>>
      /\ inbox[p].version < MaxVersion
      /\ inbox' = [inbox EXCEPT ![p] = [version |-> @.version + 1, base |-> head]]
  BY DEF Approve, repository, ledger, history
<1>1. /\ inbox' \in [Proposals -> Approval]
      /\ inbox'[p].version = inbox[p].version + 1
      /\ inbox'[p].base = head
      /\ \A q \in Proposals : q # p => inbox'[q] = inbox[q]
      /\ \A q \in Proposals : inbox[q] \in Approval
  BY <1>0, BrokerAssumption DEF BrokerInv, TypeOK, Approval
<1>2. TypeOK'
  BY <1>0, <1>1 DEF BrokerInv, TypeOK
<1>3. FromThePast'
  <2>1. \A q \in Proposals : /\ inbox'[q].base <= head
                             /\ inbox[q].version <= inbox'[q].version
                             /\ inbox[q].version \in Nat
                             /\ inbox'[q].version \in Nat
    BY <1>1, BrokerAssumption DEF BrokerInv, FromThePast, TypeOK, Approval
  <2>2. /\ \A e \in ready : e.proposal \in Proposals /\ e.approval.version \in Nat
        /\ \A b \in Brokers : broker[b].read.version \in Nat
    BY BrokerAssumption DEF BrokerInv, TypeOK, Event, Approval, Broker
  <2>3. \A b \in Brokers : broker[b].at \in {"look"} \cup Engaged =>
                             broker[b].job \in Proposals
    BY DEF BrokerInv, InHand, InHandOf
  <2>4. \A e \in ready : e.approval.version <= inbox'[e.proposal].version
    BY <2>1, <2>2 DEF BrokerInv, FromThePast
  <2>5. \A b \in Brokers : broker[b].at \in {"look"} \cup Engaged =>
          broker[b].read.version <= inbox'[broker[b].job].version
    BY <2>1, <2>2, <2>3 DEF BrokerInv, FromThePast
  <2> QED  BY <1>0, <2>1, <2>4, <2>5 DEF BrokerInv, FromThePast
<1>4. InHand'
  BY <1>0 DEF BrokerInv, InHand, InHandOf, Exists, EventOf
<1>5. RaceIsNoted' /\ NothingPending' /\ NoBranchIsLeftBehind' /\ StaleIsAccounted'
  BY <1>0 DEF BrokerInv, RaceIsNoted, NothingPending, NoBranchIsLeftBehind,
              StaleIsAccounted, Exists
<1>6. DeliverableUnlessSpoilt' /\ ReadyOnce' /\ ReadyInOrder'
  BY <1>0 DEF BrokerInv, DeliverableUnlessSpoilt, ReadyOnce, ReadyInOrder, EventOf
<1> QED  BY <1>2, <1>3, <1>4, <1>5, <1>6 DEF BrokerInv

\* Main moves on, its working tree changes.
LEMMA PushEditKeep ==
  ASSUME BrokerInv, Push \/ Edit
  PROVE  BrokerInv'
<1>0. /\ UNCHANGED <<inbox, branch, stale, ready, submitted, lock, broker, spoilt,
                     undeleted>>
      /\ head' \in 0..MaxHead /\ head <= head'
      /\ mainReady' \in BOOLEAN
  <2>1. head \in 0..MaxHead /\ mainReady \in BOOLEAN
    BY DEF BrokerInv, TypeOK
  <2>2. CASE Push
    BY <2>1, <2>2, BrokerAssumption DEF Push, ledger, history
  <2>3. CASE Edit
    BY <2>1, <2>3, BrokerAssumption DEF Edit, ledger, history
  <2> QED  BY <2>2, <2>3
<1>2. TypeOK'
  BY <1>0 DEF BrokerInv, TypeOK
<1>3. FromThePast'
  <2>1. /\ head \in Nat /\ head' \in Nat
        /\ \A p \in Proposals : inbox[p].base \in Nat
        /\ \A e \in ready : e.approval.base \in Nat
        /\ \A b \in Brokers : broker[b].read.base \in Nat
    BY <1>0, BrokerAssumption DEF BrokerInv, TypeOK, Event, Approval, Broker
  <2>2. submitted \subseteq ready
    BY DEF BrokerInv, TypeOK
  <2> QED  BY <1>0, <2>1, <2>2 DEF BrokerInv, FromThePast
<1>4. InHand'
  BY <1>0 DEF BrokerInv, InHand, InHandOf, Exists, EventOf
<1>5. RaceIsNoted' /\ NothingPending' /\ NoBranchIsLeftBehind' /\ StaleIsAccounted'
  BY <1>0 DEF BrokerInv, RaceIsNoted, NothingPending, NoBranchIsLeftBehind,
              StaleIsAccounted, Exists
<1>6. DeliverableUnlessSpoilt' /\ ReadyOnce' /\ ReadyInOrder'
  BY <1>0 DEF BrokerInv, DeliverableUnlessSpoilt, ReadyOnce, ReadyInOrder, EventOf
<1> QED  BY <1>2, <1>3, <1>4, <1>5, <1>6 DEF BrokerInv

\* A merge: the branch may go, and main is past what was approved.
LEMMA SubmitKeeps ==
  ASSUME BrokerInv, NEW e \in ready, Submit(e)
  PROVE  BrokerInv'
<1> DEFINE p == e.proposal
<1>0. /\ UNCHANGED <<mainReady, inbox, stale, ready, lock, broker, spoilt, undeleted>>
      /\ e \in ready \ submitted
      /\ head' = head + 1 /\ head' \in 0..MaxHead /\ head \in Nat
      /\ submitted' = submitted \cup {e}
      /\ p \in Proposals
      /\ submitted \subseteq ready
  BY BrokerAssumption DEF Submit, BrokerInv, TypeOK, Event, history
<1>1. /\ branch' \in [Proposals -> Branch]
      /\ \A q \in Proposals : q # p => branch'[q] = branch[q]
      /\ \/ branch'[p] = branch[p]
         \/ ~CheckedOut(p) /\ branch'[p] = NoBranch
  <2>1. NoBranch \in Branch
    BY BrokerAssumption DEF NoBranch, NoApproval, Branch, Approval
  <2>2. \/ branch' = branch
        \/ ~CheckedOut(p) /\ branch' = [branch EXCEPT ![p] = NoBranch]
    BY DEF Submit
  <2>3. branch \in [Proposals -> Branch]
    BY DEF BrokerInv, TypeOK
  <2> QED  BY <1>0, <2>1, <2>2, <2>3
<1>2. TypeOK'
  BY <1>0, <1>1 DEF BrokerInv, TypeOK
<1>3. FromThePast'
  <2>1. /\ head \in Nat /\ head' \in Nat
        /\ \A q \in Proposals : inbox[q].base \in Nat
        /\ \A f \in ready : f.approval.base \in Nat
        /\ \A b \in Brokers : broker[b].read.base \in Nat
    BY <1>0, BrokerAssumption DEF BrokerInv, TypeOK, Event, Approval, Broker
  <2> QED  BY <1>0, <2>1 DEF BrokerInv, FromThePast
<1>4. InHand'
  <2> SUFFICES ASSUME NEW b \in Brokers PROVE InHandOf(b)'
    BY DEF InHand
  <2>1. broker[b].worktree /\ broker[b].job = p => branch'[p] = branch[p]
    BY <1>1 DEF CheckedOut
  <2>2. broker[b].at \in {"look"} \cup Engaged => broker[b].job \in Proposals
    BY DEF BrokerInv, InHand, InHandOf
  <2>3. broker[b].at \in {"look"} \cup Engaged =>
          \/ branch'[broker[b].job] = branch[broker[b].job]
          \/ broker[b].job = p /\ branch'[p].kind = "none"
    BY <1>1, <2>2 DEF NoBranch
  <2> QED  BY <1>0, <2>1, <2>2, <2>3
           DEF BrokerInv, InHand, InHandOf, Exists, EventOf, Engaged, Locked
<1>5. RaceIsNoted' /\ NothingPending'
  BY <1>0 DEF BrokerInv, RaceIsNoted, NothingPending
<1>6. NoBranchIsLeftBehind' /\ StaleIsAccounted'
  <2>1. NoBranchIsLeftBehind'
    BY <1>0, <1>1 DEF BrokerInv, NoBranchIsLeftBehind, Exists, NoBranch
  <2>2. \A q \in stale : branch'[q] = branch[q]
    BY <1>1 DEF BrokerInv, TypeOK, CheckedOut
  <2> QED  BY <1>0, <2>1, <2>2 DEF BrokerInv, StaleIsAccounted, Exists
<1>7. DeliverableUnlessSpoilt'
  <2> SUFFICES ASSUME NEW f \in ready \ submitted', f.proposal \notin spoilt
               PROVE  branch'[f.proposal] = [kind |-> "commit", approval |-> f.approval]
    BY <1>0 DEF DeliverableUnlessSpoilt
  <2>1. f \in ready \ submitted /\ f # e
    BY <1>0
  <2>2. branch[f.proposal] = [kind |-> "commit", approval |-> f.approval]
    BY <2>1 DEF BrokerInv, DeliverableUnlessSpoilt
  <2>3. f.proposal # p
    <3> SUFFICES ASSUME f.proposal = p PROVE FALSE
      OBVIOUS
    <3>1. branch[p] = [kind |-> "commit", approval |-> e.approval]
      BY <1>0 DEF BrokerInv, DeliverableUnlessSpoilt
    <3>2. f.approval = e.approval
      BY <2>2, <3>1
    <3> QED  BY <1>0, <2>1, <3>2 DEF BrokerInv, TypeOK, Event
  <2>4. f.proposal \in Proposals
    BY DEF BrokerInv, TypeOK, Event
  <2> QED  BY <1>1, <2>2, <2>3, <2>4
<1>8. ReadyOnce' /\ ReadyInOrder'
  BY <1>0 DEF BrokerInv, ReadyOnce, ReadyInOrder, EventOf
<1> QED  BY <1>2, <1>3, <1>4, <1>5, <1>6, <1>7, <1>8 DEF BrokerInv

-----------------------------------------------------------------------------
(* The theorems.                                                           *)

\* Nothing is engaged, recorded or approved at the start.
LEMMA InitBrokerInv == Init => BrokerInv
<1> SUFFICES ASSUME Init PROVE BrokerInv
  OBVIOUS
<1>1. TypeOK
  BY BrokerAssumption
     DEF Init, TypeOK, Approval, NoApproval, Branch, NoBranch, Event, Broker,
         Steps, Locked
<1>2. InHand /\ FromThePast /\ RaceIsNoted /\ NothingPending /\ StaleIsAccounted
  BY BrokerAssumption
     DEF Init, InHand, InHandOf, FromThePast, RaceIsNoted, NothingPending,
         StaleIsAccounted, Engaged, Locked, NoApproval
<1>3. /\ NoBranchIsLeftBehind
      /\ DeliverableUnlessSpoilt
      /\ ReadyOnce
      /\ ReadyInOrder
  BY DEF Init, NoBranchIsLeftBehind, DeliverableUnlessSpoilt, ReadyOnce,
         ReadyInOrder, Exists, NoBranch
<1> QED  BY <1>1, <1>2, <1>3 DEF BrokerInv

\* Every step of a broker, a crash and people keep the invariant.
LEMMA NextBrokerInv ==
  ASSUME BrokerInv, [Next]_vars
  PROVE  BrokerInv'
<1>1. ASSUME NEW b \in Brokers, Start(b) \/ BrokerStep(b) \/ Crash(b)
      PROVE  BrokerInv'
  BY <1>1, TakeKeeps, StartFinishCrashKeep, LookKeeps, AcquireKeeps,
     AddWorktreeKeeps, CommitKeeps, RecheckKeeps, RecordKeeps,
     RemoveWorktreeKeeps, ReleaseLockKeeps DEF BrokerStep
<1>2. CASE People
  BY <1>2, ApproveKeeps, PushEditKeep, SubmitKeeps DEF People
<1>3. CASE UNCHANGED vars
  BY <1>3 DEF vars, repository, ledger, history, BrokerInv, TypeOK, InHand, InHandOf,
              FromThePast, RaceIsNoted, NothingPending, StaleIsAccounted, CheckedOut,
              NoBranchIsLeftBehind, DeliverableUnlessSpoilt,
              ReadyOnce, ReadyInOrder, Exists, EventOf
<1> QED  BY <1>1, <1>2, <1>3 DEF Next

\* The inductive invariant of the broker, its people and its crashes.
THEOREM BrokerInvariance == Spec => []BrokerInv
  BY InitBrokerInv, NextBrokerInv, PTL DEF Spec

\* Every variable keeps its type, and the flock is held by exactly the broker
\* that is inside it, through crashes.
THEOREM FlockIsExclusive == Spec => []TypeOK
  BY BrokerInvariance, PTL DEF BrokerInv

\* A failed integration leaves no branch behind that would deny the next one, but
\* for one whose cleanup failed too.
THEOREM BranchesBelongToSomebody == Spec => []NoBranchIsLeftBehind
  BY BrokerInvariance, PTL DEF BrokerInv

\* Two brokers at one branch, and an event whose writing raised, are the only ways
\* to an event without its branch.
THEOREM OnlyTheSpoiltLoseDelivery == Spec => []DeliverableUnlessSpoilt
  BY BrokerInvariance, PTL DEF BrokerInv

\* An approval of a proposal that is not spoilt becomes PR_READY once.
THEOREM OneEventPerApproval == Spec => []ReadyOnce
  BY BrokerInvariance, PTL DEF BrokerInv

\* The events of a proposal follow the order of its approvals.
THEOREM EventsFollowApprovals == Spec => []ReadyInOrder
  BY BrokerInvariance, PTL DEF BrokerInv

-----------------------------------------------------------------------------
(* The refinement of CandidateDelivery.  It needs to know which approvals  *)
(* the brokers and the ledger hold: those that were given.                 *)

Active == {"look"} \cup Engaged

\* What a broker reads has been approved, and a version of a proposal stands for
\* one approval, whoever holds it.
ApprovalsAreGiven ==
  /\ \A b \in Brokers : broker[b].todo \subseteq Waiting
  /\ \A b \in Brokers :
       broker[b].at \in Active =>
         /\ broker[b].read.version > 0
         /\ broker[b].read.version = inbox[broker[b].job].version =>
              broker[b].read = inbox[broker[b].job]
  /\ \A e \in ready :
       e.approval.version = inbox[e.proposal].version =>
         e.approval = inbox[e.proposal]
  /\ \A b \in Brokers : \A e \in ready :
       /\ broker[b].at \in Active
       /\ e.proposal = broker[b].job
       /\ e.approval.version = broker[b].read.version
       => e.approval = broker[b].read
  /\ \A b, o \in Brokers :
       /\ broker[b].at \in Active
       /\ broker[o].at \in Active
       /\ broker[b].job = broker[o].job
       /\ broker[b].read.version = broker[o].read.version
       => broker[b].read = broker[o].read

\* A step that leaves inbox and ledger, and what the brokers at work read.
LEMMA SameApprovals ==
  ASSUME ApprovalsAreGiven, UNCHANGED <<inbox, ready>>,
         \A b \in Brokers :
           /\ broker'[b].todo \subseteq broker[b].todo \cup Waiting
           /\ broker'[b].at \in Active =>
                /\ broker[b].at \in Active
                /\ broker'[b].job = broker[b].job
                /\ broker'[b].read = broker[b].read
  PROVE  ApprovalsAreGiven'
  BY DEF ApprovalsAreGiven, Waiting

\* Take reads what is in the inbox.
LEMMA TakeReadsGiven ==
  ASSUME BrokerInv, ApprovalsAreGiven, NEW b \in Brokers, NEW p \in Proposals,
         Take(b, p)
  PROVE  ApprovalsAreGiven'
<1>1. /\ UNCHANGED <<inbox, ready>>
      /\ p \in broker[b].todo
      /\ broker[b].at = "next"
  BY DEF Take, repository, ledger, history
<1>2. \A o \in Brokers : o # b => broker'[o] = broker[o]
  BY DEF Take, BrokerInv, TypeOK
<1>3. CASE broker' = [broker EXCEPT ![b].todo = @ \ {p}]
  <2>1. /\ broker'[b].todo \subseteq broker[b].todo
        /\ broker'[b].at = "next"
    BY <1>1, <1>3 DEF BrokerInv, TypeOK, Broker
  <2> QED
    BY <1>1, <1>2, <2>1, SameApprovals DEF Active, Engaged, Locked
<1>4. CASE broker' = [broker EXCEPT ![b].at = "look", ![b].todo = @ \ {p},
                                    ![b].job = p, ![b].read = inbox[p]]
  <2>1. /\ broker'[b].todo \subseteq broker[b].todo
        /\ broker'[b].at = "look"
        /\ broker'[b].job = p
        /\ broker'[b].read = inbox[p]
    BY <1>1, <1>4 DEF BrokerInv, TypeOK, Broker
  <2>2. inbox[p].version > 0
    BY <1>1 DEF ApprovalsAreGiven, Waiting
  <2> QED  BY <1>1, <1>2, <2>1, <2>2 DEF ApprovalsAreGiven, Waiting
<1> QED  BY <1>3, <1>4 DEF Take

\* A recorded event carries what its broker read.
LEMMA RecordOfGiven ==
  ASSUME BrokerInv, ApprovalsAreGiven, NEW b \in Brokers, Record(b)
  PROVE  ApprovalsAreGiven'
<1>1. /\ UNCHANGED inbox
      /\ broker[b].at = "record"
      /\ broker[b].at \in Active
      /\ ready' \subseteq ready \cup {EventOf(b)}
  BY DEF Record, Active, Engaged, Locked, repository
<1>2. \A o \in Brokers :
        /\ broker'[o].todo = broker[o].todo
        /\ broker'[o].at \in Active => broker[o].at \in Active
        /\ broker'[o].job = broker[o].job
        /\ broker'[o].read = broker[o].read
  <2>1. broker \in [Brokers -> Broker]
    BY DEF BrokerInv, TypeOK
  <2>2. CASE broker' = [broker EXCEPT ![b].at = "cleanup", ![b].prepared = TRUE]
    BY <1>1, <2>1, <2>2 DEF Broker
  <2>3. CASE broker' = [broker EXCEPT ![b].at = "cleanup"]
    BY <1>1, <2>1, <2>3 DEF Broker
  <2> QED  BY <2>2, <2>3 DEF Record, Goto
<1>3. EventOf(b).proposal = broker[b].job /\ EventOf(b).approval = broker[b].read
  BY DEF EventOf
<1> QED  BY <1>1, <1>2, <1>3 DEF ApprovalsAreGiven, Waiting

\* A new approval has a version that nobody holds.
LEMMA ApproveGives ==
  ASSUME BrokerInv, ApprovalsAreGiven, NEW p \in Proposals, Approve(p)
  PROVE  ApprovalsAreGiven'
<1>1. /\ UNCHANGED <<ready, broker>>
      /\ inbox'[p].version = inbox[p].version + 1
      /\ \A q \in Proposals : q # p => inbox'[q] = inbox[q]
  BY DEF Approve, BrokerInv, TypeOK, ledger
<1>2. inbox[p].version \in Nat
  BY BrokerAssumption DEF BrokerInv, TypeOK, Approval
<1>3. Waiting \subseteq Waiting'
  BY <1>1, <1>2 DEF Waiting
<1>4. \A e \in ready : /\ e.proposal \in Proposals
                       /\ e.approval.version \in Nat
                       /\ e.approval.version <= inbox[e.proposal].version
  BY BrokerAssumption DEF BrokerInv, TypeOK, Event, Approval, FromThePast
<1>5. \A b \in Brokers :
        broker[b].at \in Active =>
          /\ broker[b].job \in Proposals
          /\ broker[b].read.version \in Nat
          /\ broker[b].read.version <= inbox[broker[b].job].version
  BY BrokerAssumption
     DEF BrokerInv, TypeOK, Broker, Approval, InHand, InHandOf, FromThePast, Active
<1>6. /\ \A e \in ready : e.proposal = p => e.approval.version # inbox'[p].version
      /\ \A b \in Brokers :
           broker[b].at \in Active /\ broker[b].job = p =>
             broker[b].read.version # inbox'[p].version
  BY <1>1, <1>2, <1>4, <1>5
<1> QED  BY <1>1, <1>3, <1>4, <1>5, <1>6 DEF ApprovalsAreGiven

\* The other steps of a broker read nothing.
LEMMA OtherStepsReadNothing ==
  ASSUME BrokerInv, ApprovalsAreGiven, NEW b \in Brokers,
         \/ Start(b) \/ Finish(b) \/ Crash(b) \/ Look(b) \/ Acquire(b)
         \/ AddWorktree(b) \/ Commit(b) \/ Recheck(b) \/ RemoveWorktree(b)
         \/ ReleaseLock(b)
  PROVE  ApprovalsAreGiven'
<1>1. UNCHANGED <<inbox, ready>>
  BY DEF Start, Finish, Crash, Look, Acquire, AddWorktree, Commit, Recheck,
         RemoveWorktree, ReleaseLock, repository, ledger
<1>2. \A o \in Brokers : o # b => broker'[o] = broker[o]
  BY DEF Start, Finish, Crash, Look, Acquire, AddWorktree, Commit, Recheck,
         RemoveWorktree, ReleaseLock, Goto, Return, BrokerInv, TypeOK
<1>3. CASE Start(b) \/ Finish(b) \/ Crash(b)
  <2>1. /\ broker'[b].todo \subseteq broker[b].todo \cup Waiting
        /\ broker'[b].at \in {"next", "done", "dead"}
    BY <1>3 DEF Start, Finish, Crash, Goto, BrokerInv, TypeOK, Broker
  <2> QED
    BY <1>1, <1>2, <2>1, SameApprovals DEF Active, Engaged, Locked
<1>4. CASE \/ Look(b) \/ Acquire(b) \/ AddWorktree(b) \/ Commit(b) \/ Recheck(b)
           \/ RemoveWorktree(b) \/ ReleaseLock(b)
  <2>1. broker[b].at \in Active
    BY <1>4 DEF Look, Acquire, AddWorktree, Commit, Recheck, RemoveWorktree,
                ReleaseLock, Active, Engaged, Locked
  <2>2. /\ broker'[b].todo = broker[b].todo
        /\ \/ broker'[b].at = "next"
           \/ broker'[b].job = broker[b].job /\ broker'[b].read = broker[b].read
    BY <1>4, ReturnClears DEF Look, Acquire, AddWorktree, Commit, Recheck, RemoveWorktree,
                ReleaseLock, Goto, BrokerInv, TypeOK, Broker
  <2> QED
    BY <1>1, <1>2, <2>1, <2>2, SameApprovals DEF Active, Engaged, Locked
<1> QED  BY <1>3, <1>4

\* Every step keeps the approvals given.
LEMMA NextGiven ==
  ASSUME BrokerInv, ApprovalsAreGiven, [Next]_vars
  PROVE  ApprovalsAreGiven'
<1>1. ASSUME NEW b \in Brokers, Start(b) \/ BrokerStep(b) \/ Crash(b)
      PROVE  ApprovalsAreGiven'
  BY <1>1, TakeReadsGiven, RecordOfGiven, OtherStepsReadNothing DEF BrokerStep
<1>2. CASE People
  <2>1. CASE Push \/ Edit \/ \E e \in ready : Submit(e)
    <3>1. UNCHANGED <<inbox, ready, broker>>
      BY <2>1 DEF Push, Edit, Submit, ledger
    <3> QED  BY <3>1, SameApprovals
  <2> QED  BY <1>2, <2>1, ApproveGives DEF People
<1>3. CASE UNCHANGED vars
  BY <1>3, SameApprovals DEF vars, repository, ledger
<1> QED  BY <1>1, <1>2, <1>3 DEF Next

\* The candidates as CandidateDelivery sees them.
Candidates == [p \in Proposals |-> Candidate(p)]

\* Each step is a step of CandidateDelivery or a stutter.
Maps == [Delivery!DeliveryNext]_Delivery!deliveryVars

\* A step that moves one branch moves one candidate.
LEMMA CandidateMoves ==
  ASSUME NEW p \in Proposals, NEW new, Candidate(p)' = new,
         \A q \in Proposals : q # p => branch'[q] = branch[q]
  PROVE  Candidates' = [Candidates EXCEPT ![p] = new]
<1>1. \A q \in Proposals : q # p => Candidate(q)' = Candidate(q)
  BY DEF Candidate
<1> QED  BY <1>1 DEF Candidates

\* A step that moves none of what CandidateDelivery sees.
LEMMA StutterMaps ==
  ASSUME UNCHANGED <<head, inbox, ready, submitted, spoilt>>, Candidates' = Candidates
  PROVE  Maps
  BY DEF Maps, Delivery!deliveryVars, Candidates

\* What a broker works on has no event to be submitted, or is spoilt.
LEMMA EngagedIsSettled ==
  ASSUME BrokerInv, NEW b \in Brokers, broker[b].at \in Engaged, ~broker[b].prepared
  PROVE  Delivery!Settled(broker[b].job)
  BY DEF BrokerInv, NothingPending, Delivery!Settled, Delivery!Open

\* What a broker at work has read was given, and is one of the approvals that
\* the abstract steps range over.
LEMMA ReadIsGiven ==
  ASSUME BrokerInv, ApprovalsAreGiven, NEW b \in Brokers, broker[b].at \in Engaged
  PROVE  /\ broker[b].job \in Proposals
         /\ Delivery!Given(broker[b].job, broker[b].read)
         /\ broker[b].read \in [version : 0..inbox[broker[b].job].version,
                                base : 0..head]
<1> DEFINE p == broker[b].job
<1>1. p \in Proposals
  BY DEF BrokerInv, InHand, InHandOf
<1>2. /\ broker[b].read \in Approval
      /\ inbox[p] \in Approval
      /\ head \in Nat
  BY <1>1, BrokerAssumption DEF BrokerInv, TypeOK, Broker
<1>3. /\ broker[b].read.version > 0
      /\ broker[b].read.version = inbox[p].version => broker[b].read = inbox[p]
  BY DEF ApprovalsAreGiven, Active
<1>4. broker[b].read.version <= inbox[p].version /\ broker[b].read.base <= head
  BY DEF BrokerInv, FromThePast
<1> HIDE DEF p
<1>5. /\ broker[b].read.version \in 1..inbox[p].version
      /\ broker[b].read \in [version : 0..inbox[p].version, base : 0..head]
  BY <1>2, <1>3, <1>4, BrokerAssumption DEF Approval
<1> QED  BY <1>1, <1>3, <1>4, <1>5 DEF Delivery!Given, p

\* git worktree add -b makes a branch, and no candidate yet.
LEMMA AddWorktreeMaps ==
  ASSUME BrokerInv, NEW b \in Brokers, AddWorktree(b)
  PROVE  Maps
<1>1. UNCHANGED <<head, inbox, ready, submitted, spoilt>>
  BY DEF AddWorktree, repository, ledger, history
<1>p. PICK p \in Proposals : p = broker[b].job
  BY DEF AddWorktree, BrokerInv, InHand, InHandOf, Engaged, Locked
<1>2. CASE UNCHANGED branch
  BY <1>1, <1>2, StutterMaps DEF Candidates, Candidate
<1>3. CASE /\ ~Exists(p)
           /\ branch' = [branch EXCEPT ![p] = [kind |-> "base",
                                               approval |-> broker[b].read]]
  <2>1. /\ branch'[p].kind = "base"
        /\ \A q \in Proposals : q # p => branch'[q] = branch[q]
    BY <1>3 DEF BrokerInv, TypeOK
  <2>2. \A q \in Proposals : Candidate(q)' = Candidate(q)
    BY <1>3, <2>1 DEF Candidate, Exists
  <2> QED  BY <1>1, <2>2, StutterMaps DEF Candidates
<1> QED  BY <1>p, <1>2, <1>3 DEF AddWorktree

\* The commit is the candidate: Prepare.
LEMMA CommitMaps ==
  ASSUME BrokerInv, ApprovalsAreGiven, NEW b \in Brokers, Commit(b)
  PROVE  Maps
<1>1. /\ UNCHANGED <<head, inbox, ready, submitted, spoilt>>
      /\ broker[b].at = "commit" /\ broker[b].at \in Engaged
  BY DEF Commit, Engaged, Locked, ledger, history
<1>p. PICK p \in Proposals, a \in Approval : p = broker[b].job /\ a = broker[b].read
  BY <1>1 DEF BrokerInv, TypeOK, Broker, InHand, InHandOf
<1>2. CASE UNCHANGED branch
  BY <1>1, <1>2, StutterMaps DEF Candidates, Candidate
<1>3. CASE branch' = [branch EXCEPT ![p].kind = "commit"]
  <2>1. /\ Delivery!Given(p, a)
        /\ a \in [version : 0..inbox[p].version, base : 0..head]
    BY <1>1, <1>p, ReadIsGiven
  <2>2. Delivery!Settled(p)
    <3>1. ~broker[b].prepared
      BY <1>1 DEF BrokerInv, InHand, InHandOf
    <3> QED  BY <1>1, <1>p, <3>1, EngagedIsSettled
  <2>3. branch[p].approval = a /\ branch[p] \in Branch
    BY <1>1, <1>p DEF BrokerInv, TypeOK, InHand, InHandOf
  <2>4. /\ branch'[p].kind = "commit"
        /\ branch'[p].approval = a
        /\ \A q \in Proposals : q # p => branch'[q] = branch[q]
    BY <1>3, <2>3 DEF BrokerInv, TypeOK, Branch
  <2>5. Candidate(p)' = a
    BY <2>4 DEF Candidate
  <2>6. Candidates' = [Candidates EXCEPT ![p] = a]
    BY <2>4, <2>5, CandidateMoves
  <2>7. Delivery!Prepare(p, a)
    BY <1>1, <2>1, <2>2, <2>6 DEF Delivery!Prepare, Candidates
  <2> QED  BY <2>1, <2>7 DEF Maps, Delivery!DeliveryNext
<1> QED  BY <1>p, <1>2, <1>3 DEF Commit

\* PR_READY: the candidate is delivered, for the first time unless it is spoilt.
LEMMA RecordMaps ==
  ASSUME BrokerInv, ApprovalsAreGiven, NEW b \in Brokers, Record(b)
  PROVE  Maps
<1> DEFINE p == broker[b].job
           a == broker[b].read
<1>1. /\ UNCHANGED <<head, inbox, branch, submitted>>
      /\ broker[b].at = "record" /\ broker[b].at \in Engaged
      /\ ~broker[b].prepared
  BY DEF Record, Engaged, Locked, BrokerInv, InHand, InHandOf, repository
<1>2. /\ p \in Proposals
      /\ Delivery!Given(p, a)
      /\ a \in [version : 0..inbox[p].version, base : 0..head]
  BY <1>1, ReadIsGiven
<1>3. Candidates' = Candidates
  BY <1>1 DEF Candidates, Candidate
<1>4. CASE UNCHANGED <<ready, spoilt>>
  BY <1>1, <1>3, <1>4, StutterMaps
<1>5. CASE ready' = ready \cup {EventOf(b)} /\ spoilt' \in {spoilt, spoilt \cup {p}}
  <2>1. Delivery!Settled(p)
    BY <1>1, EngagedIsSettled
  <2>2. Candidate(p) = a
    BY <1>1 DEF BrokerInv, InHand, InHandOf, Candidate
  <2>3. ASSUME NEW e \in ready, e.proposal = p
        PROVE  \/ e.approval.version < a.version
               \/ p \in spoilt /\ e.approval.version = a.version
    <3>1. e.approval.version <= a.version
      BY <1>1, <2>3 DEF BrokerInv, ReadyInOrder
    <3>2. e.approval.version \in Nat /\ a.version \in Nat
      BY BrokerAssumption DEF BrokerInv, TypeOK, Event, Approval, Broker
    <3>3. ASSUME e.approval.version = a.version PROVE p \in spoilt
      <4>1. e.approval = a
        BY <1>1, <2>3, <3>3 DEF ApprovalsAreGiven, Active
      <4>2. e = EventOf(b)
        BY <2>3, <4>1 DEF EventOf, BrokerInv, TypeOK, Event
      <4> QED  BY <1>1, <4>2 DEF BrokerInv, ReadyOnce
    <3> QED  BY <3>1, <3>2, <3>3
  <2>4. Candidates[p] = a
    BY <1>2, <2>2 DEF Candidates
  <2>5. Delivery!Deliver(p, a)
    BY <1>1, <1>2, <1>3, <1>5, <2>1, <2>3, <2>4
       DEF Delivery!Deliver, Candidates, EventOf
  <2> QED  BY <1>2, <2>5 DEF Maps, Delivery!DeliveryNext
<1> QED  BY <1>4, <1>5 DEF Record

\* finally: a branch for which nothing was prepared is discarded.
LEMMA ReleaseLockMaps ==
  ASSUME BrokerInv, NEW b \in Brokers, ReleaseLock(b)
  PROVE  Maps
<1>1. /\ UNCHANGED <<head, inbox, ready, submitted, spoilt>>
      /\ broker[b].at \in Engaged
  BY DEF ReleaseLock, Engaged, Locked, ledger
<1>p. PICK p \in Proposals : p = broker[b].job
  BY <1>1 DEF BrokerInv, InHand, InHandOf
<1>2. CASE UNCHANGED branch
  BY <1>1, <1>2, StutterMaps DEF Candidates, Candidate
<1>3. CASE DeletesBranch(b) /\ branch' = [branch EXCEPT ![p] = NoBranch]
  <2>1. Delivery!Settled(p)
    BY <1>1, <1>p, <1>3, EngagedIsSettled DEF DeletesBranch
  <2>2. /\ branch'[p] = NoBranch
        /\ \A q \in Proposals : q # p => branch'[q] = branch[q]
    BY <1>3 DEF BrokerInv, TypeOK
  <2>3. Candidate(p)' = NoApproval
    BY <2>2 DEF Candidate, NoBranch
  <2>4. Candidates' = [Candidates EXCEPT ![p] = NoApproval]
    BY <2>2, <2>3, CandidateMoves
  <2>5. Delivery!Discard(p)
    BY <1>1, <2>1, <2>4 DEF Delivery!Discard, Candidates
  <2> QED  BY <1>1, <2>5 DEF Maps, Delivery!DeliveryNext
<1> QED  BY <1>p, <1>2, <1>3 DEF ReleaseLock, LeavesBranch

\* The other steps of a broker show only that it spoils a proposal, if it does.
LEMMA OtherBrokerStepsMap ==
  ASSUME BrokerInv, NEW b \in Brokers,
         \/ Start(b) \/ Finish(b) \/ Crash(b) \/ Look(b) \/ Acquire(b)
         \/ Recheck(b) \/ RemoveWorktree(b) \/ \E p \in Proposals : Take(b, p)
  PROVE  Maps
<1>1. UNCHANGED <<head, inbox, branch, ready, submitted>>
  BY DEF Start, Finish, Crash, Look, Acquire, Recheck, RemoveWorktree, Take,
         repository, ledger
<1>2. Candidates' = Candidates
  BY <1>1 DEF Candidates, Candidate
<1>3. CASE spoilt' = spoilt
  BY <1>1, <1>2, <1>3, StutterMaps
<1>4. CASE Look(b) /\ spoilt' = spoilt \cup {broker[b].job}
  <2>1. broker[b].job \in Proposals
    BY <1>4 DEF Look, BrokerInv, InHand, InHandOf
  <2>2. Delivery!Spoil(broker[b].job)
    BY <1>1, <1>2, <1>4 DEF Delivery!Spoil, Candidates
  <2> QED  BY <2>1, <2>2 DEF Maps, Delivery!DeliveryNext
<1> QED
  BY <1>3, <1>4 DEF Start, Finish, Crash, Look, Acquire, Recheck, RemoveWorktree, Take,
                    history

\* People approve, push, edit and merge.
LEMMA PeopleMap ==
  ASSUME BrokerInv, People
  PROVE  Maps
<1>1. ASSUME NEW p \in Proposals, Approve(p) PROVE Maps
  <2>1. Candidates' = Candidates
    BY <1>1 DEF Approve, Candidates, Candidate
  <2>2. Delivery!Approve(p)
    BY <1>1, <2>1 DEF Approve, ledger, history, Delivery!Approve, Candidates
  <2> QED  BY <2>2 DEF Maps, Delivery!DeliveryNext
<1>2. CASE Push
  <2>1. Candidates' = Candidates
    BY <1>2 DEF Push, Candidates, Candidate
  <2>2. Delivery!Push
    BY <1>2, <2>1 DEF Push, ledger, history, Delivery!Push, Candidates
  <2> QED  BY <2>2 DEF Maps, Delivery!DeliveryNext
<1>3. CASE Edit
  <2>1. Candidates' = Candidates
    BY <1>3 DEF Edit, Candidates, Candidate
  <2> QED  BY <1>3, <2>1, StutterMaps DEF Edit, ledger, history
<1>4. ASSUME NEW e \in ready, Submit(e) PROVE Maps
  <2> DEFINE p == e.proposal
  <2>1. /\ UNCHANGED <<inbox, ready, spoilt>>
        /\ e \in ready \ submitted
        /\ submitted' = submitted \cup {e}
        /\ head' = head + 1
        /\ branch' \in {branch, [branch EXCEPT ![p] = NoBranch]}
    BY <1>4 DEF Submit, history
  <2>2. p \in Proposals
    BY DEF BrokerInv, TypeOK, Event
  <2>3. Candidates[p] = e.approval \/ p \in spoilt
    <3>1. p \notin spoilt => branch[p] = [kind |-> "commit", approval |-> e.approval]
      BY <2>1 DEF BrokerInv, DeliverableUnlessSpoilt
    <3>2. p \notin spoilt => Candidate(p) = e.approval
      BY <3>1 DEF Candidate
    <3> QED  BY <2>2, <3>2 DEF Candidates
  <2> HIDE DEF p
  <2>4. Candidates' \in {Candidates, [Candidates EXCEPT ![p] = NoApproval]}
    <3>1. CASE branch' = branch
      BY <3>1 DEF Candidates, Candidate
    <3>2. CASE branch' = [branch EXCEPT ![p] = NoBranch]
      <4>1. /\ branch'[p] = NoBranch
            /\ \A q \in Proposals : q # p => branch'[q] = branch[q]
        BY <2>2, <3>2 DEF BrokerInv, TypeOK
      <4>2. Candidate(p)' = NoApproval
        BY <4>1 DEF Candidate, NoBranch
      <4> QED  BY <2>2, <4>1, <4>2, CandidateMoves
    <3> QED  BY <2>1, <3>1, <3>2
  <2>5. Delivery!Merge(e)
    BY <2>1, <2>3, <2>4 DEF Delivery!Merge, Candidates, p
  <2> QED  BY <2>5 DEF Maps, Delivery!DeliveryNext
<1> QED  BY <1>1, <1>2, <1>3, <1>4 DEF People

\* The brokers, whoever of them is killed, and people implement CandidateDelivery.
THEOREM DeliveryRefinement == Spec => ImplementsDelivery
<1>1. Init => Delivery!DeliveryInit /\ ApprovalsAreGiven
  <2> SUFFICES ASSUME Init PROVE Delivery!DeliveryInit /\ ApprovalsAreGiven
    OBVIOUS
  <2>1. \A p \in Proposals : Candidate(p) = NoApproval
    BY DEF Init, Candidate, NoBranch
  <2>2. Delivery!DeliveryInit
    BY <2>1 DEF Init, Delivery!DeliveryInit
  <2>3. ApprovalsAreGiven
    BY DEF Init, ApprovalsAreGiven, Active, Engaged, Locked
  <2> QED  BY <2>2, <2>3
<1>2. BrokerInv /\ ApprovalsAreGiven /\ [Next]_vars => ApprovalsAreGiven'
  BY NextGiven
<1>3. BrokerInv /\ ApprovalsAreGiven /\ [Next]_vars
        => [Delivery!DeliveryNext]_Delivery!deliveryVars
  <2> SUFFICES ASSUME BrokerInv, ApprovalsAreGiven, [Next]_vars PROVE Maps
    BY DEF Maps
  <2>1. ASSUME NEW b \in Brokers, Start(b) \/ BrokerStep(b) \/ Crash(b) PROVE Maps
    BY <2>1, AddWorktreeMaps, CommitMaps, RecordMaps, ReleaseLockMaps,
       OtherBrokerStepsMap DEF BrokerStep
  <2>2. CASE People
    BY <2>2, PeopleMap
  <2>3. CASE UNCHANGED vars
    BY <2>3, StutterMaps DEF vars, repository, ledger, history, Candidates, Candidate
  <2> QED  BY <2>1, <2>2, <2>3 DEF Next
<1> QED
  BY <1>1, <1>2, <1>3, BrokerInvariance, PTL
     DEF Spec, ImplementsDelivery, Delivery!DeliverySpec
=============================================================================
