-------------------------- MODULE CandidateDelivery --------------------------
(***************************************************************************)
(* What the integration broker promises to the people who approve and      *)
(* merge, with nothing of processes, locks and worktrees: an approved      *)
(* proposal gets a candidate, a recorded candidate stands until it is      *)
(* merged, a proposal has one of them at a time and they come in the order *)
(* of the approvals, once each; main moves by pushes and merges only.      *)
(* A proposal may be spoilt, by those at work on it or in the moment it is *)
(* recorded; then only the order is promised.                              *)
(* IntegrationBroker implements this module.                               *)
(***************************************************************************)
EXTENDS Naturals

CONSTANTS Proposals, NoApproval

VARIABLES main,       \* how many commits main has had
          newest,     \* newest[p]: the last approval of p
          candidate,  \* candidate[p]: the approval whose commit can be merged
          delivered,  \* the candidates that were recorded as ready
          merged,     \* those of them that were merged
          spoilt      \* the proposals that were spoilt

deliveryVars == <<main, newest, candidate, delivered, merged, spoilt>>

DeliveryInit ==
  /\ main = 0
  /\ newest = [p \in Proposals |-> NoApproval]
  /\ candidate = [p \in Proposals |-> NoApproval]
  /\ delivered = {} /\ merged = {} /\ spoilt = {}

Open(p) == {e \in delivered \ merged : e.proposal = p}

\* p has no recorded candidate that is still to be merged, or is spoilt.
Settled(p) == Open(p) = {} \/ p \in spoilt

Approve(p) ==
  /\ newest' = [newest EXCEPT ![p] = [version |-> @.version + 1, base |-> main]]
  /\ UNCHANGED <<main, candidate, delivered, merged, spoilt>>

Push ==
  /\ main' = main + 1
  /\ UNCHANGED <<newest, candidate, delivered, merged, spoilt>>

Spoil(p) ==
  /\ spoilt' = spoilt \cup {p}
  /\ UNCHANGED <<main, newest, candidate, delivered, merged>>

\* An approval was given; only the last one can have the last version.
Given(p, approval) ==
  /\ approval.version \in 1..newest[p].version
  /\ approval.version = newest[p].version => approval = newest[p]
  /\ approval.base <= main

Prepare(p, approval) ==
  /\ Given(p, approval)
  /\ Settled(p)
  /\ candidate' = [candidate EXCEPT ![p] = approval]
  /\ UNCHANGED <<main, newest, delivered, merged, spoilt>>

Discard(p) ==
  /\ Settled(p)
  /\ candidate' = [candidate EXCEPT ![p] = NoApproval]
  /\ UNCHANGED <<main, newest, delivered, merged, spoilt>>

Deliver(p, approval) ==
  /\ Given(p, approval)
  /\ Settled(p)
  /\ \A e \in delivered :
       e.proposal = p =>
         \/ e.approval.version < approval.version
         \/ p \in spoilt /\ e.approval.version = approval.version
  /\ candidate[p] = approval
  /\ delivered' = delivered \cup {[proposal |-> p, approval |-> approval]}
  /\ spoilt' \in {spoilt, spoilt \cup {p}}
  /\ UNCHANGED <<main, newest, candidate, merged>>

\* The candidate may be dropped with its merge.
Merge(e) ==
  /\ e \in delivered \ merged
  /\ candidate[e.proposal] = e.approval \/ e.proposal \in spoilt
  /\ merged' = merged \cup {e}
  /\ main' = main + 1
  /\ candidate' \in {candidate, [candidate EXCEPT ![e.proposal] = NoApproval]}
  /\ UNCHANGED <<newest, delivered, spoilt>>

DeliveryNext ==
  \/ Push
  \/ \E p \in Proposals :
       \/ Approve(p) \/ Spoil(p) \/ Discard(p)
       \/ \E approval \in [version : 0..newest[p].version, base : 0..main] :
            Prepare(p, approval) \/ Deliver(p, approval)
  \/ \E e \in delivered : Merge(e)

DeliverySpec == DeliveryInit /\ [][DeliveryNext]_deliveryVars
=============================================================================
