----------------------------- MODULE MCPipeline -----------------------------
(* Small values for the graphs of Pipeline.                                *)
EXTENDS Pipeline

CONSTANTS stride, asvs, c1, c2

MCClaimsOf == [f \in Frameworks |-> IF f = stride THEN {c1, c2} ELSE {c1}]

Graph(entry, passes, compact) ==
  [entry |-> entry, asserts |-> passes, reads |-> passes, compact |-> compact]

MCBuilds == {Graph("extract", TRUE, TRUE), Graph("head-only", TRUE, FALSE),
             Graph("head-only", FALSE, TRUE), Graph("resume", FALSE, FALSE)}
=============================================================================
