-------------------------- MODULE MCAgentCoordination --------------------------
(* TLC instances of AgentCoordination.                                          *)
EXTENDS AgentCoordination, TLC

CONSTANTS a1, a2, p1, p2, h1, h2

Diff(p, H) == [path |-> p, parts |-> H]

\* Diffs of two files, one of them on a part and one on the whole file, and two diffs of
\* parts of one file, which no run integrates.
MCPlans ==
  {(a1 :> Diff(p1, {h1}) @@ a2 :> Diff(p2, {h1, h2})),
   (a1 :> Diff(p1, {h1}) @@ a2 :> Diff(p1, {h2}))}
=============================================================================
