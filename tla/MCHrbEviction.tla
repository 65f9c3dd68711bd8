--------------------------- MODULE MCHrbEviction ---------------------------
(* TLC instance of HrbEviction: one lease renewed once, two projections,    *)
(* each with two copies in files.                                          *)
EXTENDS HrbEviction
=============================================================================
