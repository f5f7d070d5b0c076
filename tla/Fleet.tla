------------------------------- MODULE Fleet -------------------------------
(***************************************************************************)
(* Which projects of an environment run on which node. Git places stacks   *)
(* and projects on nodes by pins; every node's run deploys what is placed  *)
(* on it and, when asked to prune, tears down what no longer is; a         *)
(* controller triggers the nodes of an environment one after the other.    *)
(*                                                                         *)
(* Modelled code: the environment loop of Run, runNode, runController,     *)
(* reconcileTargets, reconcileRepo, desiredIdentities, pruneOrphans        *)
(* (internal/reconcile/reconcile.go) and the placement predicates of       *)
(* internal/repo/repo.go, for one followed repo. How one project is        *)
(* deployed is BlueGreen and Delivery; here it has containers or it has    *)
(* none. Stacks and projects are worked through in any order, except that  *)
(* a stack's managed proxy comes after its projects.                       *)
(***************************************************************************)
EXTENDS Naturals, FiniteSets

CONSTANTS
  Nodes,
  EnvCount,     \* environments, numbered in the order they are sorted in
  Stacks, Projects,
  Proxy,        \* the managed proxy of a stack, a project of its own
  Layouts,      \* the contents the deployed branch can have
  Broken,       \* units whose deploy always fails
  Nobody,       \* no node
  MaxOperator,  \* bound: pushes, manual runs and controller runs
  MaxFaults     \* bound: failures and killed runs

Envs == 1..EnvCount

\* env.yml and stack.yml. An empty pin places on every node.
Placement == [listed : BOOLEAN, nodes : SUBSET Nodes, pins : [Projects -> SUBSET Nodes]]
Stack == [projects : SUBSET Projects, proxy : BOOLEAN]
Layout == [defined : [Envs -> BOOLEAN], at : [Envs -> [Stacks -> Placement]],
           stack : [Stacks -> Stack]]

Unit == [env : Envs, stack : Stacks, project : Projects \cup {Proxy}]

ASSUME NamesAssumption == EnvCount \in Nat \ {0} /\ Proxy \notin Projects /\ Nobody \notin Nodes
ASSUME LayoutsAssumption == Layouts # {} /\ Layouts \subseteq Layout /\ Broken \subseteq Unit
ASSUME FleetBoundsAssumption == MaxOperator \in Nat /\ MaxFaults \in Nat

VARIABLES
  desired,  \* the layout at the head of the branch
  up,       \* up[n]: the units that have containers on n
  run,      \* run[n]: the run on n, which holds n's lock, with its checkout
  ctl,      \* the controller's run
  operator, faults

vars == <<desired, up, run, ctl, operator, faults>>

-----------------------------------------------------------------------------
(* Placement.                                                              *)

Admits(pin, n) == pin = {} \/ n \in pin

StackRunsOn(l, e, s, n) == l.at[e][s].listed /\ Admits(l.at[e][s].nodes, n)
ProjectRunsOn(l, e, s, p, n) ==
  StackRunsOn(l, e, s, n) /\ Admits(l.at[e][s].pins[p], n)
stackHasProjectOn(l, e, s, n) ==
  \E p \in l.stack[s].projects : ProjectRunsOn(l, e, s, p, n)
RunsOnNode(l, e, n) == \E s \in Stacks : StackRunsOn(l, e, s, n)

\* Mutant: the managed proxy is left out of the desired identities.
IdentitiesWithoutProxy(l, e, n) ==
  {u \in Unit : /\ u.env = e
                /\ u.project \in l.stack[u.stack].projects
                /\ ProjectRunsOn(l, e, u.stack, u.project, n)}

\* What prune compares with: the projects placed on n, and the proxy of every
\* stack that has one of its projects there.
desiredIdentities(l, e, n) ==
  {u \in Unit :
     /\ u.env = e
     /\ StackRunsOn(l, e, u.stack, n)
     /\ \/ /\ u.project \in l.stack[u.stack].projects
           /\ ProjectRunsOn(l, e, u.stack, u.project, n)
        \/ /\ u.project = Proxy /\ l.stack[u.stack].proxy
           /\ \E p \in l.stack[u.stack].projects : ProjectRunsOn(l, e, u.stack, p, n)}

\* Mutant: the stack's own pin decides whether its proxy is deployed.
WorkByStackPin(l, e, n) ==
  {u \in Unit :
     /\ l.defined[e] /\ u.env = e
     /\ StackRunsOn(l, e, u.stack, n)
     /\ \/ /\ u.project \in l.stack[u.stack].projects
           /\ ProjectRunsOn(l, e, u.stack, u.project, n)
        \/ u.project = Proxy /\ l.stack[u.stack].proxy}

\* What reconcileRepo goes through for environment e on n.
Work(l, e, n) ==
  {u \in Unit :
     /\ l.defined[e] /\ u.env = e
     /\ RunsOnNode(l, e, n)
     /\ StackRunsOn(l, e, u.stack, n)
     /\ stackHasProjectOn(l, e, u.stack, n)
     /\ \/ /\ u.project \in l.stack[u.stack].projects
           /\ ProjectRunsOn(l, e, u.stack, u.project, n)
        \/ u.project = Proxy /\ l.stack[u.stack].proxy}

\* Mutant: pruning does not widen the set of nodes that are triggered.
HostsOnly(l, e, prune) == {n \in Nodes : l.defined[e] /\ RunsOnNode(l, e, n)}

\* Mutant: a target that names no node is kept.
UnnamedKept(l, e, prune) ==
  {n \in Nodes \cup {Nobody} : l.defined[e] /\ (prune \/ RunsOnNode(l, e, n))}

\* With prune every node of the inventory is triggered, to find its orphans.
reconcileTargets(l, e, prune) ==
  {n \in Nodes : l.defined[e] /\ (prune \/ RunsOnNode(l, e, n))}

-----------------------------------------------------------------------------
Idle == [pc |-> "idle", at |-> CHOOSE l \in Layouts : TRUE, env |-> 1, left |-> {},
         narrow |-> FALSE, prune |-> FALSE, todo |-> {}, failed |-> FALSE]
Run == [pc : {"idle", "work", "prune"}, at : Layouts, env : Envs,
        left : SUBSET Envs, narrow : BOOLEAN, prune : BOOLEAN,
        todo : SUBSET Unit, failed : BOOLEAN]
Off == [on |-> FALSE, env |-> 1, prune |-> FALSE, todo |-> {},
        waiting |-> Nobody, failed |-> FALSE, clean |-> TRUE]
Controller ==
  [on : BOOLEAN, env : Envs, prune : BOOLEAN, todo : SUBSET Nodes,
   waiting : Nodes \cup {Nobody}, failed : BOOLEAN, clean : BOOLEAN]

Init ==
  /\ desired \in Layouts
  /\ up = [n \in Nodes |-> {}]
  /\ run = [n \in Nodes |-> Idle]
  /\ ctl = Off
  /\ operator = 0 /\ faults = 0

Fault == faults < MaxFaults /\ faults' = faults + 1
Operates == operator < MaxOperator /\ operator' = operator + 1

\* Something happened that the controller's answer cannot account for.
Muddled == ctl' = [ctl EXCEPT !.clean = ~ctl.on]

-----------------------------------------------------------------------------
(* A node's run.                                                           *)

\* runNode pulls the branch again for each environment of the run.
Enter(n, e, left, scope, narrow, prune) ==
  run' = [run EXCEPT ![n] =
               [pc |-> "work", at |-> desired, env |-> e, left |-> left,
                narrow |-> narrow, prune |-> prune,
                todo |-> Work(desired, e, n) \cap scope, failed |-> FALSE]]

IsFirst(e, E) == e \in E /\ \A f \in E : e <= f

\* cron: every environment the repo defines, one after the other, no prune.
BeginAll(n) ==
  /\ run[n].pc = "idle"
  /\ LET envs == {e \in Envs : desired.defined[e]} IN
       \E e \in Envs : IsFirst(e, envs) /\ Enter(n, e, envs \ {e}, Unit, FALSE, FALSE)
  /\ UNCHANGED <<desired, up, ctl, operator, faults>>

\* kompensator reconcile <env> --prune, or narrowed to a stack or a project.
BeginOne(n, e) ==
  /\ run[n].pc = "idle"
  /\ Operates
  /\ \/ Enter(n, e, {}, Unit, FALSE, TRUE)
     \/ \E s \in Stacks :
          Enter(n, e, {}, [env : {e}, stack : {s}, project : Projects \cup {Proxy}],
                TRUE, TRUE)
     \/ \E s \in Stacks, p \in Projects :
          Enter(n, e, {}, [env : {e}, stack : {s}, project : {p}], TRUE, TRUE)
  /\ UNCHANGED <<desired, up, ctl, faults>>

\* The proxy fronts the stack's projects and is deployed after them.
Turn(n, u) ==
  /\ run[n].pc = "work" /\ u \in run[n].todo
  /\ u.project = Proxy => \A v \in run[n].todo : v.stack = u.stack => v = u

Deploy(n, u) ==
  /\ Turn(n, u) /\ u \notin Broken
  /\ up' = [up EXCEPT ![n] = @ \cup {u}]
  /\ run' = [run EXCEPT ![n].todo = @ \ {u}]
  /\ UNCHANGED <<desired, ctl, operator, faults>>

\* Mutant: the first failure ends the loop over the projects.
FirstFailureEnds(n, u) ==
  /\ \E started \in {{}, {u}} : up' = [up EXCEPT ![n] = @ \cup started]
  /\ run' = [run EXCEPT ![n].todo = {}, ![n].failed = TRUE]
  /\ UNCHANGED <<desired, ctl, operator>>

\* A project that fails is counted, and the run goes on with the next one.
CountFailure(n, u) ==
  /\ \E started \in {{}, {u}} : up' = [up EXCEPT ![n] = @ \cup started]
  /\ run' = [run EXCEPT ![n].todo = @ \ {u}, ![n].failed = TRUE]
  /\ UNCHANGED <<desired, ctl, operator>>

BrokenFails(n, u) ==
  Turn(n, u) /\ u \in Broken /\ CountFailure(n, u) /\ UNCHANGED faults
DeployFails(n, u) ==
  Turn(n, u) /\ u \notin Broken /\ Fault /\ CountFailure(n, u)

\* reconcileRepo returns an error halfway: no more deploys, but the run prunes.
AbortRepo(n) ==
  /\ run[n].pc = "work"
  /\ run[n].at.defined[run[n].env] /\ RunsOnNode(run[n].at, run[n].env, n)
  /\ Fault
  /\ run' = [run EXCEPT ![n].todo = {}, ![n].failed = TRUE]
  /\ UNCHANGED <<desired, up, ctl, operator>>

\* A narrowed run never prunes, nor does one of an environment the repo dropped.
Prunes(n) == run[n].prune /\ ~run[n].narrow /\ run[n].at.defined[run[n].env]

\* pruneOrphans lists what runs for this environment and is not desired.
ListOrphans(n) ==
  /\ run[n].pc = "work" /\ run[n].todo = {}
  /\ Prunes(n)
  /\ run' = [run EXCEPT ![n].pc = "prune",
               ![n].todo = {u \in up[n] : u.env = run[n].env}
                             \ desiredIdentities(run[n].at, run[n].env, n)]
  /\ UNCHANGED <<desired, up, ctl, operator, faults>>

\* pruneOrphans returns an error, which is logged and not counted.
ListFails(n) ==
  /\ run[n].pc = "work" /\ run[n].todo = {}
  /\ Prunes(n)
  /\ Fault
  /\ run' = [run EXCEPT ![n].pc = "prune"]
  /\ Muddled
  /\ UNCHANGED <<desired, up, operator>>

Down(n, u) ==
  /\ run[n].pc = "prune" /\ u \in run[n].todo
  /\ up' = [up EXCEPT ![n] = @ \ {u}]
  /\ run' = [run EXCEPT ![n].todo = @ \ {u}]
  /\ UNCHANGED <<desired, ctl, operator, faults>>

\* A failed teardown is logged; the run does not fail because of it.
DownFails(n, u) ==
  /\ run[n].pc = "prune" /\ u \in run[n].todo
  /\ Fault
  /\ run' = [run EXCEPT ![n].todo = @ \ {u}]
  /\ Muddled
  /\ UNCHANGED <<desired, up, operator>>

EnvDone(n) ==
  /\ run[n].todo = {}
  /\ run[n].pc = "prune" \/ (run[n].pc = "work" /\ ~Prunes(n))

NextEnv(n) ==
  /\ EnvDone(n)
  /\ ~run[n].failed /\ run[n].left # {}
  /\ \E e \in Envs :
       /\ IsFirst(e, run[n].left)
       /\ Enter(n, e, run[n].left \ {e}, Unit, FALSE, run[n].prune)
  /\ UNCHANGED <<desired, up, ctl, operator, faults>>

\* The exit code reaches a controller that waits for this run.
Leave(n, failed) ==
  /\ run' = [run EXCEPT ![n] = Idle]
  /\ ctl' = IF ctl.waiting = n
              THEN [ctl EXCEPT !.waiting = Nobody, !.failed = @ \/ failed]
              ELSE ctl

\* The first environment that fails ends the run.
Finish(n) ==
  /\ EnvDone(n)
  /\ run[n].failed \/ run[n].left = {}
  /\ Leave(n, run[n].failed)
  /\ UNCHANGED <<desired, up, operator, faults>>

\* The process is killed, or the next environment's pull fails.
Kill(n) ==
  /\ run[n].pc # "idle"
  /\ Fault
  /\ Leave(n, TRUE)
  /\ UNCHANGED <<desired, up, operator>>

-----------------------------------------------------------------------------
(* The controller: kompensator reconcile <env> [--prune] on its own home.  *)

BeginController(e, prune) ==
  /\ ~ctl.on
  /\ Operates
  /\ ctl' = [Off EXCEPT !.on = TRUE, !.env = e, !.prune = prune,
                        !.todo = reconcileTargets(desired, e, prune)]
  /\ UNCHANGED <<desired, up, run, faults>>

triggerReconcile(n) ==
  /\ ctl.on /\ ctl.waiting = Nobody /\ n \in ctl.todo
  /\ run[n].pc = "idle"
  /\ Enter(n, ctl.env, {}, Unit, FALSE, ctl.prune)
  /\ ctl' = [ctl EXCEPT !.todo = @ \ {n}, !.waiting = n]
  /\ UNCHANGED <<desired, up, operator, faults>>

\* The node is busy with another run: its agent skips and reports success.
TriggerSkipped(n) ==
  /\ ctl.on /\ ctl.waiting = Nobody /\ n \in ctl.todo
  /\ run[n].pc # "idle"
  /\ ctl' = [ctl EXCEPT !.todo = @ \ {n}, !.clean = FALSE]
  /\ UNCHANGED <<desired, up, run, operator, faults>>

ControllerEnds ==
  /\ ctl.on /\ ctl.waiting = Nobody /\ ctl.todo = {}
  /\ ctl' = Off
  /\ UNCHANGED <<desired, up, run, operator, faults>>

-----------------------------------------------------------------------------
Push(l) ==
  /\ Operates
  /\ l # desired
  /\ desired' = l
  /\ Muddled
  /\ UNCHANGED <<up, run, faults>>

\* A unit's containers are removed behind kompensator's back.
Lose(n, u) ==
  /\ u \in up[n]
  /\ Fault
  /\ up' = [up EXCEPT ![n] = @ \ {u}]
  /\ Muddled
  /\ UNCHANGED <<desired, run, operator>>

RunStep(n) ==
  \/ \E u \in run[n].todo : Deploy(n, u) \/ BrokenFails(n, u) \/ Down(n, u)
  \/ ListOrphans(n) \/ NextEnv(n) \/ Finish(n)
ControllerStep ==
  (\E n \in ctl.todo : triggerReconcile(n) \/ TriggerSkipped(n)) \/ ControllerEnds

Next ==
  \/ \E n \in Nodes :
       \/ BeginAll(n) \/ RunStep(n) \/ AbortRepo(n) \/ ListFails(n) \/ Kill(n)
       \/ \E e \in Envs : BeginOne(n, e)
       \/ \E u \in run[n].todo : DeployFails(n, u) \/ DownFails(n, u)
       \/ \E u \in up[n] : Lose(n, u)
  \/ \E e \in Envs, prune \in BOOLEAN : BeginController(e, prune)
  \/ ControllerStep
  \/ \E l \in Layouts : Push(l)

Spec == Init /\ [][Next]_vars

(* cron starts full runs on every node again and again; calls return.      *)
FairSpec ==
  /\ Spec
  /\ \A n \in Nodes : WF_vars(BeginAll(n)) /\ WF_vars(RunStep(n))
  /\ WF_vars(ControllerStep)

-----------------------------------------------------------------------------
(* Properties.                                                             *)

TypeOK ==
  /\ desired \in Layouts
  /\ up \in [Nodes -> SUBSET Unit]
  /\ run \in [Nodes -> Run]
  /\ ctl \in Controller
  /\ operator \in 0..MaxOperator /\ faults \in 0..MaxFaults

(***************************************************************************)
(* A run never starts what a prune from the same checkout would tear down: *)
(* the loop that deploys and the set that prune compares with agree, down  *)
(* to the managed proxy of a stack whose projects are all pinned away.     *)
(***************************************************************************)
DeploysOnlyDesired ==
  [][\A n \in Nodes : \A u \in up'[n] \ up[n] :
       run[n].at.defined[u.env] /\ u \in desiredIdentities(run[n].at, u.env, n)]_vars

(***************************************************************************)
(* Only a run that looked at the whole environment tears anything down,    *)
(* only units of that environment, and never one that a run from the same  *)
(* checkout would deploy.                                                  *)
(***************************************************************************)
PruneSpares ==
  [][faults' = faults => \A n \in Nodes : \A u \in up[n] \ up'[n] :
       /\ ~run[n].narrow /\ u.env = run[n].env
       /\ u \notin Work(run[n].at, u.env, n)]_vars

(***************************************************************************)
(* Self-healing by cron alone: everything placed on a node that can run    *)
(* does in the end run there, in spite of failing siblings, unless a       *)
(* broken unit holds up an environment that is reconciled before.          *)
(***************************************************************************)
Unblocked(n, e) ==
  /\ desired.defined[e]
  /\ \A f \in 1..(e - 1) :
       desired.defined[f] => desiredIdentities(desired, f, n) \cap Broken = {}
PlacedUnitsRun ==
  \A n \in Nodes, e \in Envs :
    <>[]Unblocked(n, e)
      => <>[](desiredIdentities(desired, e, n) \ Broken \subseteq up[n])

(***************************************************************************)
(* When a controller run reports success and nothing interfered (no push,  *)
(* no busy node, no failed teardown), every node of the inventory runs     *)
(* what the head places on it; with --prune it runs nothing else.          *)
(***************************************************************************)
Running(n, e) == {u \in up[n] : u.env = e}
ControllerReportsDone ==
  [][ctl.on /\ ~ctl'.on /\ ~ctl.failed /\ ctl.clean /\ desired.defined[ctl.env] =>
       \A n \in Nodes :
         /\ desiredIdentities(desired, ctl.env, n) \subseteq up[n]
         /\ ctl.prune => Running(n, ctl.env) = desiredIdentities(desired, ctl.env, n)]_vars
=============================================================================
