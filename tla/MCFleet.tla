------------------------------ MODULE MCFleet ------------------------------
(* Instances of Fleet for TLC.                                             *)
EXTENDS Fleet, TLC

CONSTANTS n1, n2, web, batch, app

Unpinned == [p \in Projects |-> {}]
Anywhere == [listed |-> TRUE, nodes |-> {}, pins |-> Unpinned]
Nowhere == [listed |-> FALSE, nodes |-> {}, pins |-> Unpinned]

Repo(first, batchAt, webAt) ==
  [defined |-> [e \in Envs |-> e = 1 => first],
   at |-> [e \in Envs |-> [s \in Stacks |->
             IF e = 1 /\ s = batch THEN batchAt
             ELSE IF e = 2 /\ s = web THEN webAt ELSE Nowhere]],
   stack |-> [s \in Stacks |-> [projects |-> Projects, proxy |-> TRUE]]]

\* The project of web is pinned to n2, though its stack could run anywhere, and
\* the first environment runs batch on n1; or the whole of web has moved to n1
\* and the first environment is dropped.
ProjectPinned ==
  Repo(TRUE, [Anywhere EXCEPT !.nodes = {n1}],
       [Anywhere EXCEPT !.pins = [p \in Projects |-> {n2}]])
StackMoved == Repo(FALSE, Nowhere, [Anywhere EXCEPT !.nodes = {n1}])

MovingLayouts == {ProjectPinned, StackMoved}

\* The variables a project of this node is deployed with, one name and two values in
\* every scope: the last scope of the table that declares it gives the value.
V == INSTANCE Variables

Maps == UNION {[N -> {1, 2}] : N \in SUBSET {"x"}}
ScopesAgree ==
  \A L \in [1..7 -> Maps] :
    LET scope(i) == [variables |-> L[i], nodeVariables |-> [n \in {n1} |-> L[i + 1]]]
        placed == [projects |-> [p \in {app} |-> scope(6)]] @@ scope(4)
        resolved == V!ResolveVariables(L[1], scope(2), placed, app, n1)
        declaring == {i \in 1..7 : "x" \in DOMAIN L[i]}
    IN resolved = IF declaring = {} THEN V!Nothing
                  ELSE L[CHOOSE i \in declaring : \A j \in declaring : j <= i]
ASSUME ScopesAgree

\* Two services whose names become one leave it to the order of a map which image wins.
Shared == [s \in {"my-app", "my_app"} |-> [image |-> s, tag |-> s]]
ASSUME Cardinality(V!buildEnv(V!Nothing, V!Nothing, Shared, [s \in DOMAIN Shared |-> "MY_APP"])) = 2

\* The project of the first environment never comes up.
BrokenBatch == {[env |-> 1, stack |-> batch, project |-> app]}
=============================================================================
