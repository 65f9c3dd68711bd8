--------------------------- MODULE CompositeLease ---------------------------
(***************************************************************************)
(* The derived-lease allocator of the Host Resource Broker                 *)
(* (src/src/fa3_hrb_composite_lease.py): class CompositeLeaseIssuer with   *)
(* derive_child_lease and cascade_revocation, over the keyring that        *)
(* authenticates parents and children.                                     *)
(*                                                                         *)
(* A budget stands for the vector of numeric resources, each of which is   *)
(* checked and counted in the same way; `scope` for what must be contained *)
(* in the parent (scope, accelerators, expiry).  Amounts are bounded by    *)
(* MaxBudget, the generations of one parent by MaxGrant.                   *)
(***************************************************************************)
EXTENDS LeaseKeyring, Naturals, FiniteSets

CONSTANTS Parents,        \* parent lease ids
          Children,       \* child lease ids
          Scopes,         \* what a lease may cover
          MaxBudget,      \* bound on a parent's budget
          MaxGrant        \* bound on the generations of one parent

ASSUME CompositeAssumption ==
  /\ MaxBudget \in Nat \ {0}
  /\ MaxGrant \in Nat \ {0}

VARIABLES granted,    \* granted[p]: the terms on which the HRB granted p, one
                      \* for each generation
          parents,    \* parents[p]: the registered parent lease
          children,   \* children[p][c]: the derived lease c of p
          allocated,  \* allocated[p]: what the issuer counts as given out
          asked       \* asked[p]: a revocation of p was asked for since it
                      \* was last registered (history, read by no action)

issuerTables == <<granted, parents, children, allocated, asked>>
issuerVars == <<issuerTables, keyringVars>>

ParentLease == [state : {"NONE", "ACTIVE", "REVOKING"},
                generation : 0..MaxGrant, budget : 0..MaxBudget,
                scope : SUBSET Scopes, signer : KeyIds]

Grant == [generation : 1..MaxGrant, budget : 0..MaxBudget,
          scope : SUBSET Scopes]

ActiveParent == [state : {"ACTIVE"}, generation : 1..MaxGrant,
                 budget : 0..MaxBudget, scope : SUBSET Scopes, signer : KeyIds]

ChildLease == [state : {"NONE", "ISSUED", "REVOKING"},
               parentGeneration : 0..MaxGrant, amount : 0..MaxBudget,
               scope : SUBSET Scopes, signer : KeyIds]

NoParent == [state |-> "NONE", generation |-> 0, budget |-> 0,
             scope |-> {}, signer |-> FirstKey]

NoChild == [state |-> "NONE", parentGeneration |-> 0, amount |-> 0,
            scope |-> {}, signer |-> FirstKey]

IssuerInit ==
  /\ granted = [p \in Parents |-> {}]
  /\ parents = [p \in Parents |-> NoParent]
  /\ children = [p \in Parents |-> [c \in Children |-> NoChild]]
  /\ allocated = [p \in Parents |-> 0]
  /\ asked = [p \in Parents |-> FALSE]
  /\ KeyringInit

Known(p) == {c \in Children : children[p][c].state # "NONE"}

-----------------------------------------------------------------------------
Terms(lease) == [generation |-> lease.generation, budget |-> lease.budget,
                 scope |-> lease.scope]

\* register_parent takes any ACTIVE parent that verifies: a generation the HRB
\* has just granted, or a copy of one it granted before, whether or not that was
\* revoked or succeeded since.  Children and allocation of an earlier
\* registration stay.
Register(p, lease) ==
  /\ \A terms \in granted[p] :
       terms.generation = lease.generation => terms = Terms(lease)
  /\ Trusted(lease)
  /\ granted' = [granted EXCEPT ![p] = @ \cup {Terms(lease)}]
  /\ parents' = [parents EXCEPT ![p] = lease]
  /\ asked' = [asked EXCEPT ![p] = FALSE]
  /\ UNCHANGED <<children, allocated, keyringVars>>

\* derive_child_lease refuses a parent that is not ACTIVE.
MayDerive(p) == parents[p].state = "ACTIVE"

MutFitsAlone(p, amount) == amount <= parents[p].budget

\* The child and all the issuer has given out fit in the parent's budget.
Fits(p, amount) == amount + allocated[p] <= parents[p].budget

\* derive
Derive(p, c, amount, scope) ==
  /\ MayDerive(p)
  /\ Trusted(parents[p])
  /\ scope \subseteq parents[p].scope
  /\ Fits(p, amount)
  /\ children[p][c].state = "NONE"
  /\ children' = [children EXCEPT ![p][c] =
       [state |-> "ISSUED", parentGeneration |-> parents[p].generation,
        amount |-> amount, scope |-> scope, signer |-> activeKey]]
  /\ allocated' = [allocated EXCEPT ![p] = @ + amount]
  /\ UNCHANGED <<granted, parents, asked, keyringVars>>

MutKeptChild(lease) == Signed(lease)

\* A released child leaves the issuer's table.
ReleasedChild(lease) == NoChild

MaxZero(n, m) == IF n > m THEN n - m ELSE 0

\* release; the subtraction stops at zero.
Release(p, c) ==
  /\ children[p][c].state # "NONE"
  /\ Trusted(children[p][c])
  /\ allocated' = [allocated EXCEPT ![p] = MaxZero(@, children[p][c].amount)]
  /\ children' = [children EXCEPT ![p][c] = ReleasedChild(@)]
  /\ UNCHANGED <<granted, parents, asked, keyringVars>>

\* cascade_revocation on one child.
RevokedChild(lease) == Signed([lease EXCEPT !.state = "REVOKING"])

\* revoke_parent: the parent is signed anew, then every child must verify; one
\* that does not makes the call raise before anything is stored.
RevokeParent(p) ==
  /\ parents[p].state # "NONE"
  /\ asked' = [asked EXCEPT ![p] = TRUE]
  /\ \/ /\ \A c \in Known(p) : Trusted(children[p][c])
        /\ parents' = [parents EXCEPT ![p] =
                         Signed([@ EXCEPT !.state = "REVOKING"])]
        /\ children' = [children EXCEPT ![p] =
             [c \in Children |-> IF c \in Known(p) THEN RevokedChild(@[c])
                                                   ELSE @[c]]]
     \/ /\ \E c \in Known(p) : ~Trusted(children[p][c])
        /\ UNCHANGED <<parents, children>>
  /\ UNCHANGED <<granted, allocated, keyringVars>>

\* The keyring moves by itself.
KeyringStep ==
  /\ \E k \in KeyIds : RotateKey(k) \/ RetireKey(k)
  /\ UNCHANGED issuerTables

IssuerNext ==
  \/ \E p \in Parents :
       \/ \E lease \in ActiveParent : Register(p, lease)
       \/ \E c \in Children, amount \in 0..MaxBudget, scope \in SUBSET Scopes :
            Derive(p, c, amount, scope)
       \/ \E c \in Children : Release(p, c)
       \/ RevokeParent(p)
  \/ KeyringStep

IssuerSpec == IssuerInit /\ [][IssuerNext]_issuerVars

-----------------------------------------------------------------------------
(* Properties.                                                             *)

\* The units of budget that the children S hold, each unit counted apart; their
\* number is the sum of the amounts.
Units(p, S) ==
  {u \in S \X (1..MaxBudget) : u[2] <= children[p][u[1]].amount}

AmountOf(p, S) == Cardinality(Units(p, S))

\* Every variable keeps its type; the count never runs out of range.
IssuerTypeOK ==
  /\ granted \in [Parents -> SUBSET Grant]
  /\ parents \in [Parents -> ParentLease]
  /\ children \in [Parents -> [Children -> ChildLease]]
  /\ allocated \in [Parents -> 0..MaxBudget]
  /\ asked \in [Parents -> BOOLEAN]
  /\ activeKey \in keys
  /\ keys \subseteq KeyIds

\* What the issuer counts is the sum over the children in its table, through
\* releases, repeated registrations and revocations: the cut at zero in
\* release never hides a second release of the same child.
AllocationIsSum ==
  \A p \in Parents : allocated[p] = AmountOf(p, Known(p))

\* The children of p derived under one of its generations.
Under(p, generation) ==
  {c \in Known(p) : children[p][c].parentGeneration = generation}

\* The children derived under a generation of a parent fit in the budget and
\* the scope that generation was granted, whichever generation is registered and
\* however often it changed.
GenerationWithinParent ==
  \A p \in Parents : \A terms \in granted[p] :
    /\ AmountOf(p, Under(p, terms.generation)) <= terms.budget
    /\ \A c \in Under(p, terms.generation) :
         children[p][c].scope \subseteq terms.scope

\* The contract: revoking the parent revokes the children.  A child whose key
\* was retired makes revoke_parent raise, and the parent goes on deriving.
NoChildAfterRevocation ==
  [][\A p \in Parents, c \in Children :
       asked[p] /\ children[p][c].state = "NONE" =>
         children'[p][c].state = "NONE"]_issuerVars
=============================================================================
