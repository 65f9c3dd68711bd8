-------------------------- MODULE MCCompositeLease --------------------------
(* TLC instance of CompositeLease.  Parents share nothing but the keyring, *)
(* so one parent with three children and two registrations is the          *)
(* interesting case.                                                       *)
EXTENDS CompositeLease, TLC

Symmetry == Permutations(Children)
=============================================================================
