--------------------------- MODULE VariablesProofs ---------------------------
(* What Variables promises for every map, proved.                          *)
EXTENDS Variables, Integers, TLAPS

Has(f, k, v) == k \in DOMAIN f /\ f[k] = v

LEMMA LayerHas ==
  ASSUME NEW f, NEW g, NEW k, NEW v, Has(g, k, v)
  PROVE  Has(Over(f, g), k, v)
BY DEF Has, Over

LEMMA BaseHas ==
  ASSUME NEW f, NEW g, NEW k, NEW v, Has(f, k, v), k \notin DOMAIN g
  PROVE  Has(Over(f, g), k, v)
BY DEF Has, Over

Scopes(defaults, env, placement, project, node) ==
  LET own == Project(placement, project)
  IN << defaults, env.variables, NodeVars(env, node),
        placement.variables, NodeVars(placement, node),
        own.variables, NodeVars(own, node) >>

(***************************************************************************)
(* "A narrower scope wins over a broader one", and "within a scope, the    *)
(* per-node layer wins over the all-nodes one" (docs, variable             *)
(* resolution): every variable some scope declares has the value of the    *)
(* last scope of the table that declares it, whatever is declared where.   *)
(***************************************************************************)
THEOREM NarrowestScopeWins ==
  ASSUME NEW defaults, NEW env, NEW placement, NEW project, NEW node,
         NEW i \in 1..7, NEW k, NEW v,
         Has(Scopes(defaults, env, placement, project, node)[i], k, v),
         \A j \in 1..7 : j > i =>
           k \notin DOMAIN Scopes(defaults, env, placement, project, node)[j]
  PROVE  Has(ResolveVariables(defaults, env, placement, project, node), k, v)
<1> DEFINE own == Project(placement, project)
           L == Scopes(defaults, env, placement, project, node)
           m1 == Over(L[1], L[2])
           m2 == Over(m1, L[3])
           m3 == Over(m2, L[4])
           m4 == Over(m3, L[5])
           m5 == Over(m4, L[6])
           m6 == Over(m5, L[7])
<1>1. ResolveVariables(defaults, env, placement, project, node) = m6
  <2>1. /\ L[1] = defaults /\ L[2] = env.variables /\ L[3] = NodeVars(env, node)
        /\ L[4] = placement.variables /\ L[5] = NodeVars(placement, node)
        /\ L[6] = own.variables /\ L[7] = NodeVars(own, node)
    BY DEF Scopes
  <2> QED BY <2>1 DEF ResolveVariables, Scoped
<1> HIDE DEF L
<1>2. i \in {1, 2, 3, 4, 5, 6, 7} /\ Has(L[i], k, v)
  BY DEF L
<1>3. \A j \in {2, 3, 4, 5, 6, 7} : j > i => k \notin DOMAIN L[j]
  BY DEF L
<1>4. CASE i = 7
  BY <1>1, <1>2, <1>4, LayerHas
<1>5. CASE i = 6
  <2>1. Has(m5, k, v)
    BY <1>2, <1>5, LayerHas
  <2> QED BY <1>1, <1>3, <1>5, <2>1, BaseHas
<1>6. ASSUME Has(m4, k, v), i \in {1, 2, 3, 4, 5}
      PROVE  Has(m6, k, v)
  <2>1. Has(m5, k, v)
    BY <1>3, <1>6, BaseHas
  <2> QED BY <1>3, <1>6, <2>1, BaseHas
<1>7. CASE i = 5
  <2>1. Has(m4, k, v)
    BY <1>2, <1>7, LayerHas
  <2> QED BY <1>1, <1>6, <1>7, <2>1
<1>8. CASE i = 4
  <2>1. Has(m3, k, v)
    BY <1>2, <1>8, LayerHas
  <2>2. Has(m4, k, v)
    BY <1>3, <1>8, <2>1, BaseHas
  <2> QED BY <1>1, <1>6, <1>8, <2>2
<1>9. ASSUME Has(m2, k, v), i \in {1, 2, 3}
      PROVE  Has(m6, k, v)
  <2>1. Has(m3, k, v)
    BY <1>3, <1>9, BaseHas
  <2>2. Has(m4, k, v)
    BY <1>3, <1>9, <2>1, BaseHas
  <2> QED BY <1>6, <1>9, <2>2
<1>10. CASE i = 3
  <2>1. Has(m2, k, v)
    BY <1>2, <1>10, LayerHas
  <2> QED BY <1>1, <1>9, <1>10, <2>1
<1>11. CASE i \in {1, 2}
  <2>1. Has(m1, k, v)
    BY <1>2, <1>3, <1>11, LayerHas, BaseHas
  <2>2. Has(m2, k, v)
    BY <1>3, <1>11, <2>1, BaseHas
  <2> QED BY <1>1, <1>9, <1>11, <2>2
<1> QED BY <1>2, <1>4, <1>5, <1>7, <1>8, <1>10, <1>11

(***************************************************************************)
(* "User variables can never break image injection" (buildEnv): whatever   *)
(* the scopes and the secrets declare, a service whose variable name is    *)
(* its own is deployed with the image and the tag of the desired state.    *)
(***************************************************************************)
THEOREM DesiredImagesArrive ==
  ASSUME NEW identity, NEW vars, NEW desired, NEW var,
         NEW extra \in buildEnv(identity, vars, desired, var),
         NEW outer, NEW nodeName,
         NEW s \in DOMAIN desired,
         \A t \in DOMAIN desired : var[t] = var[s] => t = s
  PROVE  /\ Has(Environ(outer, nodeName, extra), <<var[s], "_IMAGE">>, desired[s].image)
         /\ Has(Environ(outer, nodeName, extra), <<var[s], "_TAG">>, desired[s].tag)
<1>1. PICK last \in LastVisited(desired, var) :
        extra = Over(Over(vars, identity), Images(desired, var, last))
  BY DEF buildEnv
<1>2. last[var[s]] = s
  <2>1. last[var[s]] \in DOMAIN desired /\ var[last[var[s]]] = var[s]
    BY DEF LastVisited
  <2> QED BY <2>1
<1>3. /\ Has(Images(desired, var, last), <<var[s], "_IMAGE">>, desired[s].image)
      /\ Has(Images(desired, var, last), <<var[s], "_TAG">>, desired[s].tag)
  BY <1>2 DEF Images, ImageVars, Has
<1>4. ASSUME NEW k, NEW v, Has(Images(desired, var, last), k, v)
      PROVE  Has(Environ(outer, nodeName, extra), k, v)
  <2>1. Has(extra, k, v)
    BY <1>1, <1>4, LayerHas
  <2> QED BY <2>1, LayerHas DEF Environ
<1> QED BY <1>3, <1>4

(***************************************************************************)
(* The fingerprint of a project is taken of what buildEnv returns. When no *)
(* two services share a variable name that is one environment, in whatever *)
(* order the maps are visited: an unchanged repository is not redeployed.  *)
(***************************************************************************)
THEOREM OneEnvironment ==
  ASSUME NEW identity, NEW vars, NEW desired, NEW var,
         \A s, t \in DOMAIN desired : var[s] = var[t] => s = t,
         NEW e1 \in buildEnv(identity, vars, desired, var),
         NEW e2 \in buildEnv(identity, vars, desired, var)
  PROVE  e1 = e2
<1>1. ASSUME NEW f \in LastVisited(desired, var), NEW g \in LastVisited(desired, var)
      PROVE  f = g
  BY <1>1 DEF LastVisited
<1> QED BY <1>1 DEF buildEnv

(***************************************************************************)
(* Of the built-ins, NODE_NAME gives way: when a scope or a secret         *)
(* declares it, the containers see that value, for Deploy puts the node's  *)
(* name before the declared variables.                                     *)
(***************************************************************************)
THEOREM DeclaredNodeNameWins ==
  ASSUME NEW value, NEW useRepo \in BOOLEAN, NEW vars, NEW desired, NEW var,
         NEW extra \in buildEnv(Identity(value, useRepo), vars, desired, var),
         NEW outer, NEW nodeName, NEW v,
         Has(vars, <<"NODE_NAME", "">>, v)
  PROVE  Has(Environ(outer, nodeName, extra), <<"NODE_NAME", "">>, v)
<1> DEFINE identity == Identity(value, useRepo)
           k == <<"NODE_NAME", "">>
<1>1. PICK last \in LastVisited(desired, var) :
        extra = Over(Over(vars, identity), Images(desired, var, last))
  BY DEF buildEnv
<1>2. k \notin DOMAIN Images(desired, var, last)
  BY DEF Images, ImageVars
<1>3. k \notin DOMAIN identity
  BY DEF Identity
<1> HIDE DEF k, identity
<1>4. Has(Over(vars, identity), k, v)
  BY <1>3, BaseHas DEF k
<1>5. Has(extra, k, v)
  BY <1>1, <1>2, <1>4, BaseHas DEF identity
<1>6. Has(Environ(outer, nodeName, extra), k, v)
  BY <1>5, LayerHas DEF Environ
<1> QED BY <1>6 DEF k
=============================================================================
