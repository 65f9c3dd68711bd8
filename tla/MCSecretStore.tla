---------------------------- MODULE MCSecretStore ----------------------------
(* TLC instance of SecretStore: three secrets, so that a call for one      *)
(* could harm another, and names enough for files left behind by several   *)
(* failed calls.                                                           *)
EXTENDS SecretStore, TLC

Symmetry == Permutations(Objects) \cup Permutations(Secrets)
=============================================================================
