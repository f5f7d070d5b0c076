------------------------------ MODULE Variables ------------------------------
(***************************************************************************)
(* Which value of a variable a compose file sees: the scopes of            *)
(* ResolveVariables (internal/repo/repo.go), the secrets over them, the    *)
(* built-ins and images of buildEnv (internal/reconcile/reconcile.go), and *)
(* the environment runtime.Deploy starts docker with.                      *)
(*                                                                         *)
(* A map is a function. The name of a variable is a pair of what comes     *)
(* before its suffix and the suffix: <<"FRONTEND", "_IMAGE">>, or          *)
(* <<"PROXY_DIR", "">>. Go visits a map in any order: where the order      *)
(* matters, a result is a set of maps.                                     *)
(***************************************************************************)

Over(base, layer) ==
  [k \in DOMAIN base \cup DOMAIN layer |-> IF k \in DOMAIN layer THEN layer[k] ELSE base[k]]

Nothing == [k \in {} |-> k]

NodeVars(scope, node) ==
  IF node \in DOMAIN scope.nodeVariables THEN scope.nodeVariables[node] ELSE Nothing

\* A project that is not listed has no variables of its own.
Project(placement, project) ==
  IF project \in DOMAIN placement.projects THEN placement.projects[project]
  ELSE [variables |-> Nothing, nodeVariables |-> Nothing]

Scoped(vars, scope, node) == Over(Over(vars, scope.variables), NodeVars(scope, node))

ResolveVariables(defaults, env, placement, project, node) ==
  Scoped(Scoped(Scoped(defaults, env, node), placement, node),
         Project(placement, project), node)

\* The secrets win over every declared variable.
projectVars(resolved, secrets) == Over(resolved, secrets)

-----------------------------------------------------------------------------
(* desired[s] is the image and tag of service s, var[s] is EnvVarName(s).  *)

ImageVars(desired, var) == {var[s] : s \in DOMAIN desired} \X {"_IMAGE", "_TAG"}

\* When services share a name, the last one visited leaves its image and tag.
LastVisited(desired, var) ==
  {last \in [{var[s] : s \in DOMAIN desired} -> DOMAIN desired] :
     \A v \in DOMAIN last : var[last[v]] = v}

Images(desired, var, last) ==
  [k \in ImageVars(desired, var) |->
     IF k[2] = "_IMAGE" THEN desired[last[k[1]]].image ELSE desired[last[k[1]]].tag]

\* value[n]: what this project has for n. Without naming.repo there is no REPO_NAME.
Identity(value, useRepo) ==
  [k \in ({"ENV_NAME", "STACK_NAME", "PROJECT_NAME", "STACK_PREFIX", "PROJECT_PREFIX", "PROXY_DIR"}
            \cup (IF useRepo THEN {"REPO_NAME"} ELSE {})) \X {""} |-> value[k[1]]]

buildEnv(identity, vars, desired, var) ==
  {Over(Over(vars, identity), Images(desired, var, last)) : last \in LastVisited(desired, var)}

\* exec gives the last of equal names: extraEnv follows NODE_NAME.
Environ(outer, nodeName, extraEnv) == Over(Over(outer, nodeName), extraEnv)
=============================================================================
