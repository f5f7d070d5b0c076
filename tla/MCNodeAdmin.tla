---------------------------- MODULE MCNodeAdmin ----------------------------
(* Instances of NodeAdmin for TLC.                                         *)
EXTENDS NodeAdmin

CONSTANTS n1, n1a, agent, agent2, box

\* Two homes on one host, the second where 'node add' suggests it, and two
\* nodes of which one's name continues the other's.
OneHost == [p \in Places |-> box]
SuggestedHome == {<<agent, agent2>>}
OneOrBoth == {{n1a}, {n1, n1a}}
TwoStarts ==
  {[pins |-> [e \in Envs |-> {n1, n1a}], sealed |-> Envs],
   [pins |-> [e \in Envs |-> {n1a}], sealed |-> Envs \ {1}]}
DashedName == {<<n1, n1a>>}
=============================================================================
