--------------------------- MODULE MCLeaseLedger ---------------------------
(* TLC instance of LeaseLedger.  The evidence log is bounded by the number *)
(* of generations (OneFinalEvent), so no state constraint is needed.       *)
EXTENDS LeaseLedger, TLC

Symmetry == Permutations(Leases) \cup Permutations(Projections)
=============================================================================
