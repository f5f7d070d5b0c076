----------------------------- MODULE MCPipeline -----------------------------
(* Instances of Pipeline for TLC.                                          *)
EXTENDS Pipeline

CONSTANTS n1, n2

\* The second commit moves a stack to n2, which ran none before.
MovedStack == [c \in Commits |-> IF c = 1 THEN {n1} ELSE {n1, n2}]

OneOfEach == [n \in Nodes |-> IF n = n1 THEN "changes" ELSE "always"]
=============================================================================
