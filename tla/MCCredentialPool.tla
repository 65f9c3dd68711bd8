-------------------------- MODULE MCCredentialPool --------------------------
(* TLC instance of CredentialPool: one provider with two credentials and   *)
(* one with one.                                                           *)
EXTENDS CredentialPool, TLC

CONSTANTS a, b, x, p, q

MCProvider == (a :> p) @@ (b :> p) @@ (x :> q)
MCBaseline == (a :> 1) @@ (b :> 0) @@ (x :> 0)
Symmetry == Permutations(Sessions)
=============================================================================
