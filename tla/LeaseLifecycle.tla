--------------------------- MODULE LeaseLifecycle ---------------------------
(***************************************************************************)
(* What the Host Resource Broker (HRB) promises of a lease, with nothing   *)
(* of how it keeps the promise: a lease is a succession of generations,    *)
(* only the newest generation can be usable, a generation that starts to   *)
(* drain never becomes usable again, and the newest generation ends in     *)
(* exactly one of two final phases.  LeaseLedger implements this module.   *)
(***************************************************************************)
EXTENDS Naturals

CONSTANTS Leases,         \* lease ids
          MaxGeneration   \* bound on the generations of one lease

VARIABLES newest,  \* newest[l]: the newest generation of l, 0 before the first
          phase    \* phase[l][g]: how far generation g of lease l has come

lifecycleVars == <<newest, phase>>

Generations == 1..MaxGeneration

Usable == {"pending", "live"}
Final == {"reclaimed", "quarantined"}
Phases == {"absent", "draining"} \cup Usable \cup Final

LifecycleInit ==
  /\ newest = [l \in Leases |-> 0]
  /\ phase = [l \in Leases |-> [g \in Generations |-> "absent"]]

Move(l, g, from, to) ==
  /\ phase[l][g] \in from
  /\ phase' = [phase EXCEPT ![l][g] = to]

\* The first generation is granted and waits to be activated.
Grant(l) ==
  /\ newest[l] = 0
  /\ Move(l, 1, {"absent"}, "pending")
  /\ newest' = [newest EXCEPT ![l] = 1]

Start(l) ==
  /\ newest[l] > 0
  /\ Move(l, newest[l], {"pending"}, "live")
  /\ UNCHANGED newest

\* In one step the live generation drains and its successor is live.
Succeed(l) ==
  /\ newest[l] \in 1..(MaxGeneration - 1)
  /\ phase[l][newest[l]] = "live"
  /\ phase' = [phase EXCEPT ![l][newest[l]] = "draining",
                            ![l][newest[l] + 1] = "live"]
  /\ newest' = [newest EXCEPT ![l] = @ + 1]

Drain(l) ==
  /\ newest[l] > 0
  /\ Move(l, newest[l], Usable, "draining")
  /\ UNCHANGED newest

\* Reclaiming may begin on a generation that is still usable: revocation and
\* quarantine can be one step of the broker.
Conclude(l, outcome) ==
  /\ newest[l] > 0
  /\ Move(l, newest[l], Usable \cup {"draining"}, outcome)
  /\ UNCHANGED newest

LifecycleNext ==
  \E l \in Leases :
    \/ Grant(l)
    \/ Start(l)
    \/ Succeed(l)
    \/ Drain(l)
    \/ \E outcome \in Final : Conclude(l, outcome)

LifecycleSpec == LifecycleInit /\ [][LifecycleNext]_lifecycleVars
=============================================================================
