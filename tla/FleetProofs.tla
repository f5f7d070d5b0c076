---------------------------- MODULE FleetProofs ----------------------------
(***************************************************************************)
(* Fleet, for any nodes, layouts and bounds: types, and the agreement of   *)
(* what a run deploys with what its prune would tear down, and what the    *)
(* success that a controller reports stands for.                           *)
(***************************************************************************)
EXTENDS Fleet, TLAPS

(***************************************************************************)
(* The loop of reconcileRepo and desiredIdentities describe the same set   *)
(* of an environment the repository defines.                               *)
(***************************************************************************)
LEMMA WorkIsDesired ==
  ASSUME NEW l, NEW e, NEW n
  PROVE  /\ Work(l, e, n) \subseteq Unit
         /\ \A u \in Work(l, e, n) : l.defined[e] /\ u.env = e
         /\ Work(l, e, n) \subseteq desiredIdentities(l, e, n)
         /\ l.defined[e] => Work(l, e, n) = desiredIdentities(l, e, n)
<1>1. Work(l, e, n) \subseteq desiredIdentities(l, e, n)
  BY DEF Work, desiredIdentities, stackHasProjectOn
<1>2. ASSUME l.defined[e], NEW u \in desiredIdentities(l, e, n)
      PROVE  u \in Work(l, e, n)
  <2>1. /\ u \in Unit /\ u.env = e /\ StackRunsOn(l, e, u.stack, n)
        /\ u.stack \in Stacks
    BY DEF desiredIdentities, Unit
  <2>2. RunsOnNode(l, e, n)
    BY <2>1 DEF RunsOnNode
  <2>3. stackHasProjectOn(l, e, u.stack, n)
    BY DEF desiredIdentities, stackHasProjectOn
  <2> QED
    BY <1>2, <2>1, <2>2, <2>3 DEF Work, desiredIdentities
<1>3. /\ Work(l, e, n) \subseteq Unit
      /\ \A u \in Work(l, e, n) : l.defined[e] /\ u.env = e
  BY DEF Work
<1> QED
  BY <1>1, <1>2, <1>3

-----------------------------------------------------------------------------
(* Types.                                                                  *)

LEMMA IdleType == Idle \in Run
<1>1. (CHOOSE l \in Layouts : TRUE) \in Layouts
  BY LayoutsAssumption
<1>2. 1 \in Envs
  BY NamesAssumption DEF Envs
<1> QED
  BY <1>1, <1>2 DEF Idle, Run

LEMMA OffType == Off \in Controller
<1>1. 1 \in Envs
  BY NamesAssumption DEF Envs
<1> QED
  BY <1>1 DEF Off, Controller

\* Entering an environment starts a well-formed run.
LEMMA EnterType ==
  ASSUME TypeOK, NEW n \in Nodes, NEW e \in Envs, NEW left \in SUBSET Envs, NEW scope,
         NEW narrow \in BOOLEAN, NEW prune \in BOOLEAN,
         Enter(n, e, left, scope, narrow, prune)
  PROVE  run' \in [Nodes -> Run]
<1>1. Work(desired, e, n) \cap scope \in SUBSET Unit
  BY WorkIsDesired
<1>2. [pc |-> "work", at |-> desired, env |-> e, left |-> left, narrow |-> narrow,
       prune |-> prune, todo |-> Work(desired, e, n) \cap scope, failed |-> FALSE] \in Run
  BY <1>1 DEF Run, TypeOK
<1> QED
  BY <1>2 DEF Enter, TypeOK

\* Taking a unit off the list, in the three forms the run does it.
LEMMA TodoType ==
  ASSUME TypeOK, NEW n \in Nodes, NEW S \in SUBSET Unit
  PROVE  /\ [run EXCEPT ![n].todo = S] \in [Nodes -> Run]
         /\ [run EXCEPT ![n].todo = S, ![n].failed = TRUE] \in [Nodes -> Run]
         /\ [run EXCEPT ![n].pc = "prune", ![n].todo = S] \in [Nodes -> Run]
         /\ [run EXCEPT ![n].pc = "prune"] \in [Nodes -> Run]
<1>1. run[n] \in Run /\ run \in [Nodes -> Run]
  BY DEF TypeOK
<1>2. /\ [run[n] EXCEPT !.todo = S] \in Run
      /\ [[run[n] EXCEPT !.todo = S] EXCEPT !.failed = TRUE] \in Run
      /\ [[run[n] EXCEPT !.pc = "prune"] EXCEPT !.todo = S] \in Run
      /\ [run[n] EXCEPT !.pc = "prune"] \in Run
  BY <1>1 DEF Run
<1>3. /\ [run EXCEPT ![n].todo = S] = [run EXCEPT ![n] = [run[n] EXCEPT !.todo = S]]
      /\ [run EXCEPT ![n].todo = S, ![n].failed = TRUE]
           = [run EXCEPT ![n] = [[run[n] EXCEPT !.todo = S] EXCEPT !.failed = TRUE]]
      /\ [run EXCEPT ![n].pc = "prune", ![n].todo = S]
           = [run EXCEPT ![n] = [[run[n] EXCEPT !.pc = "prune"] EXCEPT !.todo = S]]
      /\ [run EXCEPT ![n].pc = "prune"] = [run EXCEPT ![n] = [run[n] EXCEPT !.pc = "prune"]]
  BY <1>1 DEF Run
<1> QED
  BY <1>1, <1>2, <1>3

\* What a run's end leaves of the run and of the controller.
LEMMA LeaveType ==
  ASSUME TypeOK, NEW n \in Nodes, NEW failed \in BOOLEAN, Leave(n, failed)
  PROVE  run' \in [Nodes -> Run] /\ ctl' \in Controller
<1>1. run' \in [Nodes -> Run]
  BY IdleType DEF Leave, TypeOK
<1>2. (ctl.failed \/ failed) \in BOOLEAN
  OBVIOUS
<1>3. ctl' \in Controller
  BY <1>2 DEF Leave, TypeOK, Controller
<1> QED
  BY <1>1, <1>3

LEMMA MuddledType ==
  ASSUME TypeOK, Muddled
  PROVE  ctl' \in Controller
<1>1. (~ctl.on) \in BOOLEAN
  OBVIOUS
<1> QED
  BY <1>1 DEF Muddled, TypeOK, Controller

LEMMA CountersType ==
  ASSUME TypeOK
  PROVE  /\ Operates => operator' \in 0..MaxOperator
         /\ Fault => faults' \in 0..MaxFaults
BY FleetBoundsAssumption DEF TypeOK, Operates, Fault

LEMMA TypeInit == Init => TypeOK
BY IdleType, OffType, FleetBoundsAssumption DEF Init, TypeOK

LEMMA TypeStep ==
  ASSUME TypeOK, [Next]_vars
  PROVE  TypeOK'
<1> USE DEF TypeOK
<1>1. ASSUME NEW n \in Nodes, BeginAll(n)
      PROVE  TypeOK'
  <2>1. PICK e \in Envs :
          Enter(n, e, {f \in Envs : desired.defined[f]} \ {e}, Unit, FALSE, FALSE)
    BY <1>1 DEF BeginAll
  <2>2. run' \in [Nodes -> Run]
    BY <2>1, EnterType
  <2> QED
    BY <1>1, <2>2 DEF BeginAll
<1>2. ASSUME NEW n \in Nodes, NEW e \in Envs, BeginOne(n, e)
      PROVE  TypeOK'
  <2>1. \E scope : \E narrow \in BOOLEAN : Enter(n, e, {}, scope, narrow, TRUE)
    <3>1. CASE Enter(n, e, {}, Unit, FALSE, TRUE)
      BY <3>1
    <3>2. CASE \E s \in Stacks :
                 Enter(n, e, {}, [env : {e}, stack : {s}, project : Projects \cup {Proxy}],
                       TRUE, TRUE)
      BY <3>2
    <3>3. CASE \E s \in Stacks, p \in Projects :
                 Enter(n, e, {}, [env : {e}, stack : {s}, project : {p}], TRUE, TRUE)
      BY <3>3
    <3> QED
      BY <1>2, <3>1, <3>2, <3>3 DEF BeginOne
  <2>2. run' \in [Nodes -> Run]
    BY <2>1, EnterType
  <2> QED
    BY <1>2, <2>2, CountersType DEF BeginOne
<1>3. ASSUME NEW n \in Nodes, NEW u \in run[n].todo, Deploy(n, u) \/ Down(n, u)
      PROVE  TypeOK'
  <2>1. run[n].todo \subseteq Unit /\ run[n].todo \ {u} \in SUBSET Unit
    BY DEF Run
  <2>2. run' = [run EXCEPT ![n].todo = run[n].todo \ {u}]
    BY <1>3 DEF Deploy, Down
  <2>3. run' \in [Nodes -> Run]
    BY <2>1, <2>2, TodoType
  <2>4. up' \in [Nodes -> SUBSET Unit]
    <3>1. CASE up' = [up EXCEPT ![n] = @ \cup {u}]
      BY <2>1, <3>1
    <3>2. CASE up' = [up EXCEPT ![n] = @ \ {u}]
      BY <3>2
    <3> QED
      BY <1>3, <3>1, <3>2 DEF Deploy, Down
  <2> QED
    BY <1>3, <2>3, <2>4 DEF Deploy, Down
<1>4. ASSUME NEW n \in Nodes, NEW u \in run[n].todo, BrokenFails(n, u) \/ DeployFails(n, u)
      PROVE  TypeOK'
  <2>1. run[n].todo \subseteq Unit
    BY DEF Run
  <2>2. CountFailure(n, u)
    BY <1>4 DEF BrokenFails, DeployFails
  <2>3. run' \in [Nodes -> Run]
    BY <2>1, <2>2, TodoType DEF CountFailure
  <2>4. up' \in [Nodes -> SUBSET Unit]
    BY <2>1, <2>2 DEF CountFailure
  <2>5. faults' \in 0..MaxFaults
    BY <1>4, CountersType DEF BrokenFails, DeployFails
  <2> QED
    BY <2>2, <2>3, <2>4, <2>5 DEF CountFailure
<1>5. ASSUME NEW n \in Nodes, AbortRepo(n)
      PROVE  TypeOK'
  <2>1. run' \in [Nodes -> Run]
    BY <1>5, TodoType DEF AbortRepo
  <2> QED
    BY <1>5, <2>1, CountersType DEF AbortRepo
<1>6. ASSUME NEW n \in Nodes, ListOrphans(n)
      PROVE  TypeOK'
  <2>1. {u \in up[n] : u.env = run[n].env} \ desiredIdentities(run[n].at, run[n].env, n)
          \in SUBSET Unit
    OBVIOUS
  <2>2. run' \in [Nodes -> Run]
    BY <1>6, <2>1, TodoType DEF ListOrphans
  <2> QED
    BY <1>6, <2>2 DEF ListOrphans
<1>7. ASSUME NEW n \in Nodes, ListFails(n)
      PROVE  TypeOK'
  <2>1. run' \in [Nodes -> Run]
    BY <1>7, TodoType DEF ListFails
  <2> QED
    BY <1>7, <2>1, MuddledType, CountersType DEF ListFails
<1>8. ASSUME NEW n \in Nodes, NEW u \in run[n].todo, DownFails(n, u)
      PROVE  TypeOK'
  <2>1. run[n].todo \subseteq Unit
    BY DEF Run
  <2>2. run' \in [Nodes -> Run]
    BY <1>8, <2>1, TodoType DEF DownFails
  <2> QED
    BY <1>8, <2>2, MuddledType, CountersType DEF DownFails
<1>9. ASSUME NEW n \in Nodes, NextEnv(n)
      PROVE  TypeOK'
  <2>1. PICK e \in Envs :
          Enter(n, e, run[n].left \ {e}, Unit, FALSE, run[n].prune)
    BY <1>9 DEF NextEnv
  <2>2. run[n].left \ {e} \in SUBSET Envs /\ run[n].prune \in BOOLEAN
    BY DEF Run
  <2>3. run' \in [Nodes -> Run]
    BY <2>1, <2>2, EnterType
  <2> QED
    BY <1>9, <2>3 DEF NextEnv
<1>10. ASSUME NEW n \in Nodes, Finish(n) \/ Kill(n)
       PROVE  TypeOK'
  <2>1. run[n].failed \in BOOLEAN
    BY DEF Run
  <2>2. run' \in [Nodes -> Run] /\ ctl' \in Controller
    BY <1>10, <2>1, LeaveType DEF Finish, Kill
  <2>3. faults' \in 0..MaxFaults
    BY <1>10, CountersType DEF Finish, Kill
  <2> QED
    BY <1>10, <2>2, <2>3 DEF Finish, Kill
<1>11. ASSUME NEW n \in Nodes, NEW u \in up[n], Lose(n, u)
       PROVE  TypeOK'
  BY <1>11, MuddledType, CountersType DEF Lose
<1>12. ASSUME NEW e \in Envs, NEW prune \in BOOLEAN, BeginController(e, prune)
       PROVE  TypeOK'
  <2>1. reconcileTargets(desired, e, prune) \in SUBSET Nodes
    BY DEF reconcileTargets
  <2>2. ctl' \in Controller
    BY <1>12, <2>1, OffType DEF BeginController, Controller, Off
  <2> QED
    BY <1>12, <2>2, CountersType DEF BeginController
<1>13. ASSUME NEW n \in ctl.todo, triggerReconcile(n)
       PROVE  TypeOK'
  <2>1. n \in Nodes /\ ctl.env \in Envs /\ ctl.prune \in BOOLEAN
    BY DEF Controller
  <2>2. Enter(n, ctl.env, {}, Unit, FALSE, ctl.prune)
    BY <1>13 DEF triggerReconcile
  <2>3. run' \in [Nodes -> Run]
    BY <2>1, <2>2, EnterType
  <2>4. ctl' \in Controller
    BY <1>13, <2>1 DEF triggerReconcile, Controller
  <2> QED
    BY <1>13, <2>3, <2>4 DEF triggerReconcile
<1>14. ASSUME NEW n \in ctl.todo, TriggerSkipped(n)
       PROVE  TypeOK'
  BY <1>14 DEF TriggerSkipped, Controller
<1>15. CASE ControllerEnds
  BY <1>15, OffType DEF ControllerEnds
<1>16. ASSUME NEW l \in Layouts, Push(l)
       PROVE  TypeOK'
  BY <1>16, MuddledType, CountersType DEF Push
<1>17. CASE UNCHANGED vars
  BY <1>17 DEF vars
<1> QED
  BY <1>1, <1>2, <1>3, <1>4, <1>5, <1>6, <1>7, <1>8, <1>9, <1>10, <1>11, <1>12, <1>13,
     <1>14, <1>15, <1>16, <1>17 DEF Next, RunStep, ControllerStep

(***************************************************************************)
(* Every state of the fleet is well formed.                                *)
(***************************************************************************)
THEOREM TypeCorrect == Spec => []TypeOK
<1>1. TypeOK /\ [Next]_vars => TypeOK'
  BY TypeStep
<1> QED
  BY TypeInit, <1>1, PTL DEF Spec

-----------------------------------------------------------------------------
(* The list a run works off.                                               *)

(***************************************************************************)
(* While a run deploys, its list holds only what its checkout places on    *)
(* the node; while it prunes, only units of its environment that the       *)
(* checkout does not place there, and it is no narrowed run. The checkout  *)
(* does not change under a run, which is what makes this inductive.        *)
(***************************************************************************)
ListInv ==
  \A n \in Nodes :
    /\ run[n].pc = "work" =>
         \A u \in run[n].todo : u \in Work(run[n].at, run[n].env, n)
    /\ run[n].pc = "prune" =>
         /\ ~run[n].narrow
         /\ \A u \in run[n].todo :
              u.env = run[n].env /\ u \notin desiredIdentities(run[n].at, run[n].env, n)

\* A run that enters an environment lists what is to be done there.
LEMMA EnterList ==
  ASSUME TypeOK, ListInv, NEW n \in Nodes, NEW e, NEW left, NEW scope, NEW narrow, NEW prune,
         Enter(n, e, left, scope, narrow, prune)
  PROVE  ListInv'
<1>1. run' = [run EXCEPT ![n] = run'[n]]
  BY DEF Enter, TypeOK
<1>2. /\ run'[n].pc = "work" /\ run'[n].at = desired /\ run'[n].env = e
      /\ run'[n].todo = Work(desired, e, n) \cap scope
  BY DEF Enter, TypeOK
<1>3. \A m \in Nodes : m # n => run'[m] = run[m]
  BY <1>1 DEF TypeOK
<1> QED
  BY <1>2, <1>3 DEF ListInv

\* A shorter list of the same run keeps the invariant.
LEMMA ShorterList ==
  ASSUME TypeOK, ListInv, NEW n \in Nodes, run' \in [Nodes -> Run],
         \A m \in Nodes : m # n => run'[m] = run[m],
         run'[n].todo \subseteq run[n].todo,
         run'[n].pc = run[n].pc, run'[n].at = run[n].at, run'[n].env = run[n].env,
         run'[n].narrow = run[n].narrow
  PROVE  ListInv'
BY DEF ListInv

\* A run that ends has no list.
LEMMA LeaveList ==
  ASSUME TypeOK, ListInv, NEW n \in Nodes, NEW failed, Leave(n, failed)
  PROVE  ListInv'
<1>1. run'[n] = Idle /\ \A m \in Nodes : m # n => run'[m] = run[m]
  BY DEF Leave, TypeOK
<1> QED
  BY <1>1 DEF ListInv, Idle

LEMMA ListStep ==
  ASSUME TypeOK, ListInv, [Next]_vars
  PROVE  ListInv'
<1>1. ASSUME NEW n \in Nodes, BeginAll(n)
      PROVE  ListInv'
  BY <1>1, EnterList DEF BeginAll
<1>2. ASSUME NEW n \in Nodes, NEW e \in Envs, BeginOne(n, e)
      PROVE  ListInv'
  BY <1>2, EnterList DEF BeginOne
<1>3. ASSUME NEW n \in Nodes, NEW u \in run[n].todo, Deploy(n, u) \/ Down(n, u)
      PROVE  ListInv'
  <2>1. run' = [run EXCEPT ![n].todo = run[n].todo \ {u}]
    BY <1>3 DEF Deploy, Down
  <2>2. run' \in [Nodes -> Run]
    BY <2>1, TodoType DEF TypeOK, Run
  <2> QED
    BY <2>1, <2>2, ShorterList DEF TypeOK, Run
<1>4. ASSUME NEW n \in Nodes, NEW u \in run[n].todo, BrokenFails(n, u) \/ DeployFails(n, u)
      PROVE  ListInv'
  <2>1. run' = [run EXCEPT ![n].todo = run[n].todo \ {u}, ![n].failed = TRUE]
    BY <1>4 DEF BrokenFails, DeployFails, CountFailure
  <2>2. run' \in [Nodes -> Run]
    BY <2>1, TodoType DEF TypeOK, Run
  <2> QED
    BY <2>1, <2>2, ShorterList DEF TypeOK, Run
<1>5. ASSUME NEW n \in Nodes, AbortRepo(n)
      PROVE  ListInv'
  <2>1. run' = [run EXCEPT ![n].todo = {}, ![n].failed = TRUE]
    BY <1>5 DEF AbortRepo
  <2>2. run' \in [Nodes -> Run]
    BY <2>1, TodoType
  <2> QED
    BY <2>1, <2>2, ShorterList DEF TypeOK, Run
<1>6. ASSUME NEW n \in Nodes, ListOrphans(n)
      PROVE  ListInv'
  <2>1. /\ \A m \in Nodes : m # n => run'[m] = run[m]
        /\ run'[n].pc = "prune" /\ run'[n].at = run[n].at /\ run'[n].env = run[n].env
        /\ run'[n].narrow = run[n].narrow
        /\ run'[n].todo = {u \in up[n] : u.env = run[n].env}
                            \ desiredIdentities(run[n].at, run[n].env, n)
    BY <1>6 DEF ListOrphans, TypeOK, Run
  <2>2. ~run[n].narrow
    BY <1>6 DEF ListOrphans, Prunes
  <2> QED
    BY <2>1, <2>2 DEF ListInv
<1>7. ASSUME NEW n \in Nodes, ListFails(n)
      PROVE  ListInv'
  <2>1. /\ \A m \in Nodes : m # n => run'[m] = run[m]
        /\ run'[n].pc = "prune" /\ run'[n].narrow = run[n].narrow /\ run'[n].todo = {}
    BY <1>7 DEF ListFails, TypeOK, Run
  <2>2. ~run[n].narrow
    BY <1>7 DEF ListFails, Prunes
  <2> QED
    BY <2>1, <2>2 DEF ListInv
<1>8. ASSUME NEW n \in Nodes, NEW u \in run[n].todo, DownFails(n, u)
      PROVE  ListInv'
  <2>1. run' = [run EXCEPT ![n].todo = run[n].todo \ {u}]
    BY <1>8 DEF DownFails
  <2>2. run' \in [Nodes -> Run]
    BY <2>1, TodoType DEF TypeOK, Run
  <2> QED
    BY <2>1, <2>2, ShorterList DEF TypeOK, Run
<1>9. ASSUME NEW n \in Nodes, NextEnv(n)
      PROVE  ListInv'
  BY <1>9, EnterList DEF NextEnv
<1>10. ASSUME NEW n \in Nodes, Finish(n) \/ Kill(n)
       PROVE  ListInv'
  BY <1>10, LeaveList DEF Finish, Kill
<1>11. ASSUME NEW n \in ctl.todo, triggerReconcile(n)
       PROVE  ListInv'
  <2>1. n \in Nodes
    BY DEF TypeOK, Controller
  <2> QED
    BY <1>11, <2>1, EnterList DEF triggerReconcile
<1>12. ASSUME UNCHANGED run
       PROVE  ListInv'
  BY <1>12 DEF ListInv
<1>13. ASSUME \/ \E n \in Nodes : \E u \in up[n] : Lose(n, u)
              \/ \E e \in Envs, prune \in BOOLEAN : BeginController(e, prune)
              \/ \E n \in ctl.todo : TriggerSkipped(n)
              \/ ControllerEnds
              \/ \E l \in Layouts : Push(l)
              \/ UNCHANGED vars
       PROVE  UNCHANGED run
  BY <1>13 DEF Lose, BeginController, TriggerSkipped, ControllerEnds, Push, vars
<1> QED
  BY <1>1, <1>2, <1>3, <1>4, <1>5, <1>6, <1>7, <1>8, <1>9, <1>10, <1>11, <1>12, <1>13
     DEF Next, RunStep, ControllerStep

LEMMA ListInvariant == Spec => [](TypeOK /\ ListInv)
<1>1. Init => ListInv
  BY DEF Init, ListInv, Idle
<1>2. TypeOK /\ ListInv /\ [Next]_vars => ListInv'
  BY ListStep
<1>3. TypeOK /\ [Next]_vars => TypeOK'
  BY TypeStep
<1> QED
  BY TypeInit, <1>1, <1>2, <1>3, PTL DEF Spec

-----------------------------------------------------------------------------
(* What appears and what disappears.                                       *)

Appeared(n) == up'[n] \ up[n]
Removed(n) == up[n] \ up'[n]

\* Only a deploy makes containers appear, and only of the unit at hand.
LEMMA AppearsByDeploy ==
  ASSUME TypeOK, [Next]_vars, NEW n \in Nodes, NEW u \in Appeared(n)
  PROVE  run[n].pc = "work" /\ u \in run[n].todo
<1>1. ASSUME NEW m \in Nodes, NEW v \in run[m].todo,
             Deploy(m, v) \/ BrokenFails(m, v) \/ DeployFails(m, v)
      PROVE  run[n].pc = "work" /\ u \in run[n].todo
  <2>1. run[m].pc = "work"
    BY <1>1 DEF Deploy, BrokenFails, DeployFails, Turn
  <2>2. PICK started \in {{}, {v}} : up' = [up EXCEPT ![m] = up[m] \cup started]
    BY <1>1 DEF Deploy, BrokenFails, DeployFails, CountFailure
  <2>3. n = m /\ u = v
    BY <2>2 DEF Appeared, TypeOK
  <2> QED
    BY <1>1, <2>1, <2>3
<1>2. ASSUME NEW m \in Nodes, NEW v,
             up' = [up EXCEPT ![m] = @ \ {v}]
      PROVE  FALSE
  BY <1>2 DEF Appeared, TypeOK
<1>3. ASSUME UNCHANGED up
      PROVE  FALSE
  BY <1>3 DEF Appeared
<1>4. ASSUME NEW m \in Nodes,
             BeginAll(m) \/ ListOrphans(m) \/ NextEnv(m) \/ Finish(m) \/ AbortRepo(m)
               \/ ListFails(m) \/ Kill(m)
      PROVE  UNCHANGED up
  BY <1>4 DEF BeginAll, ListOrphans, NextEnv, Finish, AbortRepo, ListFails, Kill
<1>5. ASSUME NEW m \in Nodes, NEW e \in Envs, BeginOne(m, e)
      PROVE  UNCHANGED up
  BY <1>5 DEF BeginOne
<1>6. ASSUME NEW m, NEW v, DownFails(m, v)
      PROVE  UNCHANGED up
  BY <1>6 DEF DownFails
<1>7. ASSUME \/ \E e \in Envs, prune \in BOOLEAN : BeginController(e, prune)
             \/ \E m \in ctl.todo : triggerReconcile(m) \/ TriggerSkipped(m)
             \/ ControllerEnds
             \/ \E l \in Layouts : Push(l)
             \/ UNCHANGED vars
      PROVE  UNCHANGED up
  BY <1>7 DEF BeginController, triggerReconcile, TriggerSkipped, ControllerEnds, Push, vars
<1>8. ASSUME NEW m \in Nodes, NEW v, Down(m, v) \/ Lose(m, v)
      PROVE  up' = [up EXCEPT ![m] = @ \ {v}]
  BY <1>8 DEF Down, Lose
<1> QED
  BY <1>1, <1>2, <1>3, <1>4, <1>5, <1>6, <1>7, <1>8 DEF Next, RunStep, ControllerStep

\* Unless they are lost, only the teardown of a listed orphan removes containers.
LEMMA RemovedByPrune ==
  ASSUME TypeOK, [Next]_vars, \A m, v : ~Lose(m, v), NEW n \in Nodes, NEW u \in Removed(n)
  PROVE  run[n].pc = "prune" /\ u \in run[n].todo
<1>1. ASSUME NEW m \in Nodes, NEW v \in run[m].todo, Down(m, v)
      PROVE  run[n].pc = "prune" /\ u \in run[n].todo
  <2>1. n = m /\ u = v
    BY <1>1 DEF Down, Removed, TypeOK
  <2> QED
    BY <1>1, <2>1 DEF Down
<1>2. ASSUME NEW m \in Nodes, NEW started, up' = [up EXCEPT ![m] = @ \cup started]
      PROVE  FALSE
  BY <1>2 DEF Removed, TypeOK
<1>3. ASSUME UNCHANGED up
      PROVE  FALSE
  BY <1>3 DEF Removed
<1>4. ASSUME NEW m \in Nodes, NEW v, Deploy(m, v) \/ BrokenFails(m, v) \/ DeployFails(m, v)
      PROVE  \E started : up' = [up EXCEPT ![m] = @ \cup started]
  BY <1>4 DEF Deploy, BrokenFails, DeployFails, CountFailure
<1>5. ASSUME NEW m \in Nodes,
             BeginAll(m) \/ ListOrphans(m) \/ NextEnv(m) \/ Finish(m) \/ AbortRepo(m)
               \/ ListFails(m) \/ Kill(m)
      PROVE  UNCHANGED up
  BY <1>5 DEF BeginAll, ListOrphans, NextEnv, Finish, AbortRepo, ListFails, Kill
<1>6. ASSUME NEW m \in Nodes, NEW e \in Envs, BeginOne(m, e)
      PROVE  UNCHANGED up
  BY <1>6 DEF BeginOne
<1>7. ASSUME NEW m, NEW v, DownFails(m, v)
      PROVE  UNCHANGED up
  BY <1>7 DEF DownFails
<1>8. ASSUME \/ \E e \in Envs, prune \in BOOLEAN : BeginController(e, prune)
             \/ \E m \in ctl.todo : triggerReconcile(m) \/ TriggerSkipped(m)
             \/ ControllerEnds
             \/ \E l \in Layouts : Push(l)
             \/ UNCHANGED vars
      PROVE  UNCHANGED up
  BY <1>8 DEF BeginController, triggerReconcile, TriggerSkipped, ControllerEnds, Push, vars
<1>9. ASSUME NEW m, NEW v, Lose(m, v)
      PROVE  FALSE
  BY <1>9
<1> QED
  BY <1>1, <1>2, <1>3, <1>4, <1>5, <1>6, <1>7, <1>8, <1>9 DEF Next, RunStep, ControllerStep

(***************************************************************************)
(* A run never starts what a prune from the same checkout would tear down. *)
(***************************************************************************)
THEOREM NeverDeploysOrphans == Spec => DeploysOnlyDesired
<1>1. ASSUME TypeOK, ListInv, [Next]_vars
      PROVE  \A n \in Nodes : \A u \in up'[n] \ up[n] :
               run[n].at.defined[u.env] /\ u \in desiredIdentities(run[n].at, u.env, n)
  <2> TAKE n \in Nodes
  <2> TAKE u \in up'[n] \ up[n]
  <2>1. run[n].pc = "work" /\ u \in run[n].todo
    BY <1>1, AppearsByDeploy DEF Appeared
  <2>2. u \in Work(run[n].at, run[n].env, n)
    BY <1>1, <2>1 DEF ListInv
  <2> QED
    BY <2>2, WorkIsDesired
<1>2. TypeOK /\ ListInv /\ [Next]_vars =>
        [\A n \in Nodes : \A u \in up'[n] \ up[n] :
           run[n].at.defined[u.env] /\ u \in desiredIdentities(run[n].at, u.env, n)]_vars
  BY <1>1
<1> QED
  BY <1>2, ListInvariant, PTL DEF Spec, DeploysOnlyDesired

(***************************************************************************)
(* Short of a fault, nothing is torn down but by a run that looked at the  *)
(* whole environment, of that environment, and never what a run from the   *)
(* same checkout would deploy.                                             *)
(***************************************************************************)
THEOREM PruneIsSafe == Spec => PruneSpares
<1>1. ASSUME TypeOK, ListInv, [Next]_vars, faults' = faults
      PROVE  \A n \in Nodes : \A u \in up[n] \ up'[n] :
               /\ ~run[n].narrow /\ u.env = run[n].env
               /\ u \notin Work(run[n].at, u.env, n)
  <2> TAKE n \in Nodes
  <2> TAKE u \in up[n] \ up'[n]
  <2>0. \A m, v : ~Lose(m, v)
    BY <1>1, FleetBoundsAssumption DEF Lose, Fault, TypeOK
  <2>1. run[n].pc = "prune" /\ u \in run[n].todo
    BY <1>1, <2>0, RemovedByPrune DEF Removed
  <2>2. /\ ~run[n].narrow /\ u.env = run[n].env
        /\ u \notin desiredIdentities(run[n].at, run[n].env, n)
    BY <1>1, <2>1 DEF ListInv
  <2> QED
    BY <2>2, WorkIsDesired
<1>2. TypeOK /\ ListInv /\ [Next]_vars =>
        [faults' = faults => \A n \in Nodes : \A u \in up[n] \ up'[n] :
           /\ ~run[n].narrow /\ u.env = run[n].env
           /\ u \notin Work(run[n].at, u.env, n)]_vars
  BY <1>1
<1> QED
  BY <1>2, ListInvariant, PTL DEF Spec, PruneSpares

-----------------------------------------------------------------------------
(* What the controller's success stands for.                               *)

\* The report would be a success and is about an environment of the head.
Trusted == ctl.on /\ ~ctl.failed /\ ctl.clean /\ desired.defined[ctl.env]

Wanted(n) == desiredIdentities(desired, ctl.env, n)
Settled(n) ==
  Wanted(n) \subseteq up[n] /\ (ctl.prune => Running(n, ctl.env) = Wanted(n))

\* Not asked, because nothing is placed there and nothing is to be pruned.
Unconcerned(n) == ~ctl.prune /\ Wanted(n) = {}

\* Has answered. Any run there since then works from the head.
Answered(n) == Settled(n) /\ (run[n].pc # "idle" => run[n].at = desired)

\* Works for the controller, and has not failed but is this far, or has failed.
Asked(n) ==
  /\ ctl.waiting = n
  /\ run[n].pc # "idle" /\ run[n].at = desired /\ run[n].env = ctl.env
  /\ ~run[n].narrow /\ run[n].prune = ctl.prune /\ run[n].left = {}
  /\ \/ run[n].failed
     \/ run[n].pc = "work" /\ Wanted(n) \ run[n].todo \subseteq up[n]
     \/ /\ run[n].pc = "prune" /\ Wanted(n) \subseteq up[n]
        /\ Running(n, ctl.env) \ Wanted(n) \subseteq run[n].todo

(***************************************************************************)
(* While the controller can still report success, every node is to be      *)
(* triggered, is not concerned, works for it or has answered.              *)
(***************************************************************************)
ReportInv ==
  Trusted => \A n \in Nodes :
               n \in ctl.todo \/ Unconcerned(n) \/ Answered(n) \/ Asked(n)

\* Nothing happens behind the back of a controller that can report success.
LEMMA UndisturbedController ==
  ASSUME TypeOK, [Next]_vars, Trusted, Trusted'
  PROVE  /\ desired' = desired /\ ctl'.env = ctl.env /\ ctl'.prune = ctl.prune
         /\ \A n, u : ~Lose(n, u) /\ ~DownFails(n, u) /\ ~ListFails(n) /\ ~TriggerSkipped(n)
         /\ \A n \in Nodes : ctl.waiting = n => ~Kill(n)
<1>1. ~Muddled
  BY DEF Trusted, Muddled, TypeOK, Controller
<1>2. ASSUME NEW n, TriggerSkipped(n)
      PROVE  FALSE
  BY <1>2 DEF TriggerSkipped, Trusted, TypeOK, Controller
<1>3. ASSUME NEW n \in Nodes, ctl.waiting = n, Leave(n, TRUE)
      PROVE  FALSE
  BY <1>3 DEF Leave, Trusted, TypeOK, Controller
<1>4. \A n, u : ~Lose(n, u) /\ ~DownFails(n, u) /\ ~ListFails(n)
  BY <1>1 DEF Lose, DownFails, ListFails
<1>5. \A l : ~Push(l)
  BY <1>1 DEF Push
<1>6. ASSUME NEW n, NEW failed, Leave(n, failed)
      PROVE  ctl'.env = ctl.env /\ ctl'.prune = ctl.prune
  BY <1>6 DEF Leave, TypeOK, Controller
<1>7. ASSUME NEW n \in Nodes,
             \/ BeginAll(n) \/ AbortRepo(n) \/ ListOrphans(n) \/ NextEnv(n) \/ Finish(n) \/ Kill(n)
             \/ \E e \in Envs : BeginOne(n, e)
             \/ \E u \in run[n].todo : \/ Deploy(n, u) \/ BrokenFails(n, u) \/ Down(n, u)
                                       \/ DeployFails(n, u)
      PROVE  desired' = desired /\ ctl'.env = ctl.env /\ ctl'.prune = ctl.prune
  BY <1>6, <1>7
     DEF BeginAll, AbortRepo, ListOrphans, NextEnv, Finish, Kill, BeginOne, Deploy, BrokenFails,
         DeployFails, CountFailure, Down
<1>8. ASSUME NEW n, triggerReconcile(n)
      PROVE  desired' = desired /\ ctl'.env = ctl.env /\ ctl'.prune = ctl.prune
  BY <1>8 DEF triggerReconcile, TypeOK, Controller
<1>9. \A e, prune : ~BeginController(e, prune)
  BY DEF BeginController, Trusted
<1>10. ~ControllerEnds
  BY DEF ControllerEnds, Trusted, Off
<1>11. ASSUME UNCHANGED vars
       PROVE  desired' = desired /\ ctl'.env = ctl.env /\ ctl'.prune = ctl.prune
  BY <1>11 DEF vars
<1> QED
  BY <1>2, <1>3, <1>4, <1>5, <1>7, <1>8, <1>9, <1>10, <1>11
     DEF Next, RunStep, ControllerStep, Kill

\* A node the step is not about, and what the controller knows of it.
Unaffected(n) ==
  /\ run'[n] = run[n] /\ up'[n] = up[n]
  /\ n \in ctl.todo => n \in ctl'.todo
  /\ ctl.waiting = n => ctl'.waiting = n

\* What can happen to a node while the controller can report success.
TrustedStepOf(n) ==
  \/ BeginAll(n) \/ AbortRepo(n) \/ ListOrphans(n) \/ NextEnv(n) \/ Finish(n) \/ Kill(n)
  \/ \E e \in Envs : BeginOne(n, e)
  \/ \E u \in run[n].todo : \/ Deploy(n, u) \/ BrokenFails(n, u) \/ Down(n, u)
                            \/ DeployFails(n, u)

LEMMA StepOfOneNode ==
  ASSUME TypeOK, [Next]_vars, Trusted, Trusted', NEW n \in Nodes
  PROVE  Unaffected(n) \/ TrustedStepOf(n) \/ triggerReconcile(n)
<1>1. ASSUME NEW m \in Nodes, m # n, TrustedStepOf(m)
      PROVE  Unaffected(n)
  <2>1. run'[n] = run[n] /\ up'[n] = up[n]
    BY <1>1 DEF TrustedStepOf, BeginAll, AbortRepo, ListOrphans, NextEnv, Finish, Kill, BeginOne,
                Enter, Leave, Deploy, BrokenFails, DeployFails, CountFailure, Down, TypeOK
  <2>2. ctl' = ctl \/ \E failed : Leave(m, failed)
    BY <1>1 DEF TrustedStepOf, BeginAll, AbortRepo, ListOrphans, NextEnv, Finish, Kill, BeginOne,
                Deploy, BrokenFails, DeployFails, CountFailure, Down
  <2>3. ctl'.todo = ctl.todo /\ (ctl.waiting = n => ctl'.waiting = n)
    BY <1>1, <2>2 DEF Leave, TypeOK, Controller
  <2> QED
    BY <2>1, <2>3 DEF Unaffected
<1>2. ASSUME NEW m \in ctl.todo, m # n, triggerReconcile(m)
      PROVE  Unaffected(n)
  <2>1. ctl'.todo = ctl.todo \ {m} /\ ctl.waiting = Nobody /\ n # Nobody
    BY <1>2, NamesAssumption DEF triggerReconcile, TypeOK, Controller
  <2>2. run'[n] = run[n] /\ up'[n] = up[n]
    BY <1>2 DEF triggerReconcile, Enter, TypeOK
  <2> QED
    BY <1>2, <2>1, <2>2 DEF Unaffected
<1>3. ASSUME UNCHANGED vars
      PROVE  Unaffected(n)
  BY <1>3 DEF vars, Unaffected
<1>4. /\ \A m, u : ~Lose(m, u) /\ ~DownFails(m, u) /\ ~ListFails(m) /\ ~TriggerSkipped(m)
      /\ ~ControllerEnds /\ \A e, prune : ~BeginController(e, prune)
  BY UndisturbedController DEF ControllerEnds, BeginController, Trusted, Off
<1>5. \A l : ~Push(l)
  BY DEF Push, Muddled, Trusted, TypeOK, Controller
<1> QED
  BY <1>1, <1>2, <1>3, <1>4, <1>5 DEF Next, RunStep, ControllerStep, TrustedStepOf

\* Containers of a node that works from the head come and go as the head says.
LEMMA SettledStaysSo ==
  ASSUME TypeOK, ListInv, [Next]_vars, Trusted, Trusted', NEW n \in Nodes,
         run[n].pc # "idle" => run[n].at = desired
  PROVE  /\ Wanted(n)' = Wanted(n)
         /\ Settled(n) => Settled(n)'
         /\ Wanted(n) \cap up[n] \subseteq up'[n]
<1>1. Wanted(n)' = Wanted(n) /\ ctl'.env = ctl.env /\ ctl'.prune = ctl.prune
  BY UndisturbedController DEF Wanted
<1>2. \A u \in Wanted(n) : u.env = ctl.env
  BY DEF Wanted, desiredIdentities
<1>3. ASSUME NEW u \in Removed(n)
      PROVE  u \notin Wanted(n)
  <2>1. run[n].pc = "prune" /\ u \in run[n].todo
    BY <1>3, RemovedByPrune, UndisturbedController
  <2> QED
    BY <1>2, <2>1 DEF ListInv, Wanted
<1>4. ASSUME NEW u \in Appeared(n), u.env = ctl.env
      PROVE  u \in Wanted(n)
  <2>1. run[n].pc = "work" /\ u \in run[n].todo
    BY <1>4, AppearsByDeploy
  <2>2. u \in Work(desired, run[n].env, n)
    BY <2>1 DEF ListInv
  <2> QED
    BY <1>4, <2>2, WorkIsDesired DEF Wanted
<1> QED
  BY <1>1, <1>2, <1>3, <1>4 DEF Settled, Running, Removed, Appeared

\* Runs that start while the controller can report success pull its head.
LEMMA AnsweredStaysSo ==
  ASSUME TypeOK, ListInv, [Next]_vars, Trusted, Trusted', NEW n \in Nodes, Answered(n)
  PROVE  Answered(n)'
<1>1. Settled(n)' /\ desired' = desired
  BY SettledStaysSo, UndisturbedController DEF Answered
<1>2. ASSUME NEW e, NEW left, NEW scope, NEW narrow, NEW prune,
             Enter(n, e, left, scope, narrow, prune)
      PROVE  run'[n].at = desired
  BY <1>2 DEF Enter, TypeOK
<1>3. ASSUME BeginAll(n) \/ NextEnv(n) \/ triggerReconcile(n) \/ \E e \in Envs : BeginOne(n, e)
      PROVE  run'[n].at = desired
  BY <1>2, <1>3 DEF BeginAll, NextEnv, triggerReconcile, BeginOne
<1>4. ASSUME Finish(n) \/ Kill(n)
      PROVE  run'[n].pc = "idle"
  BY <1>4 DEF Finish, Kill, Leave, Idle, TypeOK
<1>5. ASSUME \/ AbortRepo(n) \/ ListOrphans(n)
             \/ \E u \in run[n].todo : \/ Deploy(n, u) \/ BrokenFails(n, u) \/ Down(n, u)
                                       \/ DeployFails(n, u)
      PROVE  run'[n].at = run[n].at /\ run[n].pc # "idle"
  <2>1. CASE AbortRepo(n)
    BY <2>1 DEF AbortRepo, TypeOK, Run
  <2>2. CASE ListOrphans(n)
    BY <2>2 DEF ListOrphans, TypeOK, Run
  <2>3. ASSUME NEW u \in run[n].todo, Deploy(n, u) \/ Down(n, u)
        PROVE  run'[n].at = run[n].at /\ run[n].pc # "idle"
    <3>1. run' = [run EXCEPT ![n].todo = run[n].todo \ {u}] /\ run[n].pc # "idle"
      BY <2>3 DEF Deploy, Down, Turn
    <3> QED
      BY <3>1 DEF TypeOK, Run
  <2>4. ASSUME NEW u \in run[n].todo, BrokenFails(n, u) \/ DeployFails(n, u)
        PROVE  run'[n].at = run[n].at /\ run[n].pc # "idle"
    <3>1. /\ run' = [run EXCEPT ![n].todo = run[n].todo \ {u}, ![n].failed = TRUE]
          /\ run[n].pc # "idle"
      BY <2>4 DEF BrokenFails, DeployFails, CountFailure, Turn
    <3> QED
      BY <3>1 DEF TypeOK, Run
  <2> QED
    BY <1>5, <2>1, <2>2, <2>3, <2>4
<1>6. ASSUME Unaffected(n)
      PROVE  run'[n] = run[n]
  BY <1>6 DEF Unaffected
<1> QED
  BY <1>1, <1>3, <1>4, <1>5, <1>6, StepOfOneNode DEF TrustedStepOf, Answered

\* A node that is triggered starts with everything the head places on it to do.
LEMMA TriggeredIsAsked ==
  ASSUME TypeOK, [Next]_vars, Trusted, Trusted', NEW n \in Nodes, triggerReconcile(n)
  PROVE  Asked(n)'
<1>1. /\ run'[n].pc = "work" /\ run'[n].at = desired /\ run'[n].env = ctl.env
      /\ ~run'[n].narrow /\ run'[n].prune = ctl.prune /\ run'[n].left = {}
      /\ run'[n].todo = Work(desired, ctl.env, n) \cap Unit
  BY DEF triggerReconcile, Enter, TypeOK
<1>2. ctl'.waiting = n
  BY DEF triggerReconcile, TypeOK, Controller
<1>3. Wanted(n)' = Work(desired, ctl.env, n) /\ Work(desired, ctl.env, n) \subseteq Unit
  BY UndisturbedController, WorkIsDesired DEF Wanted, Trusted
<1> QED
  BY <1>1, <1>2, <1>3, UndisturbedController DEF Asked

\* The run the controller waits for works on, fails, or ends with the answer.
LEMMA AskedAnswers ==
  ASSUME TypeOK, ListInv, [Next]_vars, Trusted, Trusted', NEW n \in Nodes, Asked(n)
  PROVE  Asked(n)' \/ Answered(n)'
<1> DEFINE Same == /\ run'[n].at = run[n].at /\ run'[n].env = run[n].env
                   /\ run'[n].narrow = run[n].narrow /\ run'[n].prune = run[n].prune
                   /\ run'[n].left = run[n].left /\ run'[n].pc # "idle" /\ ctl' = ctl
<1>1. /\ desired' = desired /\ ctl'.env = ctl.env /\ ctl'.prune = ctl.prune
      /\ Wanted(n)' = Wanted(n) /\ Wanted(n) \cap up[n] \subseteq up'[n]
  BY UndisturbedController, SettledStaysSo DEF Asked
<1>2. ASSUME Unaffected(n)
      PROVE  Asked(n)'
  BY <1>1, <1>2 DEF Unaffected, Asked, Running
<1>3. ASSUME Same, run'[n].failed
      PROVE  Asked(n)'
  BY <1>1, <1>3 DEF Asked
<1>4. ASSUME NEW u \in run[n].todo, Deploy(n, u)
      PROVE  Asked(n)'
  <2>1. /\ run[n].pc = "work" /\ up'[n] = up[n] \cup {u}
        /\ run'[n] = [run[n] EXCEPT !.todo = run[n].todo \ {u}] /\ ctl' = ctl
    BY <1>4 DEF Deploy, Turn, TypeOK
  <2>2. Same /\ run'[n].pc = "work" /\ run'[n].failed = run[n].failed
        /\ run'[n].todo = run[n].todo \ {u}
    BY <2>1 DEF TypeOK, Run
  <2> QED
    BY <1>1, <2>1, <2>2 DEF Asked
<1>5. ASSUME AbortRepo(n) \/ \E u \in run[n].todo : BrokenFails(n, u) \/ DeployFails(n, u)
      PROVE  Asked(n)'
  <2>1. PICK todo : /\ run' = [run EXCEPT ![n].todo = todo, ![n].failed = TRUE]
                    /\ run[n].pc # "idle" /\ ctl' = ctl
    BY <1>5 DEF AbortRepo, BrokenFails, DeployFails, CountFailure, Turn
  <2>2. Same /\ run'[n].failed
    BY <2>1 DEF TypeOK, Run
  <2> QED
    BY <1>3, <2>2
<1>6. ASSUME ListOrphans(n)
      PROVE  Asked(n)'
  <2>1. /\ run[n].pc = "work" /\ run[n].todo = {} /\ up' = up
        /\ Same /\ run'[n].pc = "prune" /\ run'[n].failed = run[n].failed
        /\ run'[n].todo = {u \in up[n] : u.env = run[n].env}
                            \ desiredIdentities(run[n].at, run[n].env, n)
    BY <1>6 DEF ListOrphans, TypeOK, Run
  <2> QED
    BY <1>1, <2>1 DEF Asked, Running, Wanted
<1>7. ASSUME NEW u \in run[n].todo, Down(n, u)
      PROVE  Asked(n)'
  <2>1. /\ run[n].pc = "prune" /\ up'[n] = up[n] \ {u}
        /\ run'[n] = [run[n] EXCEPT !.todo = run[n].todo \ {u}] /\ ctl' = ctl
    BY <1>7 DEF Down, TypeOK
  <2>2. Same /\ run'[n].pc = "prune" /\ run'[n].failed = run[n].failed
        /\ run'[n].todo = run[n].todo \ {u}
    BY <2>1 DEF TypeOK, Run
  <2> QED
    BY <1>1, <2>1, <2>2 DEF Asked, Running
<1>8. ASSUME Finish(n)
      PROVE  Answered(n)'
  <2>1. run'[n].pc = "idle" /\ up' = up
    BY <1>8 DEF Finish, Leave, Idle, TypeOK
  <2>2. ~run[n].failed
    BY <1>8 DEF Finish, Leave, Asked, Trusted, TypeOK, Controller, Run
  <2>3. /\ run[n].todo = {}
        /\ run[n].pc = "prune" \/ (run[n].pc = "work" /\ ~Prunes(n))
    BY <1>8 DEF Finish, EnvDone
  <2>4. run[n].pc = "work" => ~ctl.prune
    BY <2>3 DEF Prunes, Asked, Trusted
  <2>5. Wanted(n) \subseteq up[n]
    BY <2>2, <2>3 DEF Asked
  <2>6. ctl.prune => Running(n, ctl.env) = Wanted(n)
    BY <2>2, <2>3, <2>4, <2>5 DEF Asked, Running, Wanted, desiredIdentities
  <2> QED
    BY <1>1, <2>1, <2>5, <2>6 DEF Answered, Settled, Running
<1>9. /\ ~BeginAll(n) /\ ~NextEnv(n) /\ ~Kill(n) /\ ~triggerReconcile(n)
      /\ \A e \in Envs : ~BeginOne(n, e)
  BY UndisturbedController
     DEF Asked, BeginAll, NextEnv, triggerReconcile, BeginOne
<1> QED
  BY <1>2, <1>4, <1>5, <1>6, <1>7, <1>8, <1>9, StepOfOneNode DEF TrustedStepOf

\* Who is not triggered has nothing of the environment to run.
LEMMA TargetsAreConcerned ==
  ASSUME NEW l, NEW e, NEW prune, NEW n \in Nodes, l.defined[e],
         n \notin reconcileTargets(l, e, prune)
  PROVE  ~prune /\ desiredIdentities(l, e, n) = {}
<1>1. ~prune /\ ~RunsOnNode(l, e, n)
  BY DEF reconcileTargets
<1>2. Work(l, e, n) = {}
  BY <1>1 DEF Work
<1> QED
  BY <1>1, <1>2, WorkIsDesired

LEMMA ReportStep ==
  ASSUME TypeOK, ListInv, ReportInv, [Next]_vars
  PROVE  ReportInv'
<1>1. ASSUME Trusted, Trusted', NEW n \in Nodes, n \notin ctl'.todo
      PROVE  Unconcerned(n)' \/ Answered(n)' \/ Asked(n)'
  <2>1. CASE n \in ctl.todo
    <3>1. triggerReconcile(n)
      <4>1. ~Unaffected(n)
        BY <1>1, <2>1 DEF Unaffected
      <4>2. ctl' = ctl \/ (\E failed : Leave(n, failed)) \/ ~TrustedStepOf(n)
        BY DEF TrustedStepOf, BeginAll, AbortRepo, ListOrphans, NextEnv, Finish, Kill, BeginOne,
               Deploy, BrokenFails, DeployFails, CountFailure, Down
      <4>3. ~TrustedStepOf(n)
        BY <1>1, <2>1, <4>2 DEF Leave, TypeOK, Controller
      <4> QED
        BY <1>1, <4>1, <4>3, StepOfOneNode
    <3> QED
      BY <1>1, <3>1, TriggeredIsAsked
  <2>2. CASE Unconcerned(n)
    BY <1>1, <2>2, UndisturbedController DEF Unconcerned, Wanted
  <2>3. CASE Answered(n)
    BY <1>1, <2>3, AnsweredStaysSo
  <2>4. CASE Asked(n)
    BY <1>1, <2>4, AskedAnswers
  <2> QED
    BY <1>1, <2>1, <2>2, <2>3, <2>4 DEF ReportInv
<1>2. ASSUME ~Trusted, Trusted'
      PROVE  \E e \in Envs, prune \in BOOLEAN : BeginController(e, prune)
  <2>1. ~Muddled /\ ~ControllerEnds
    BY <1>2 DEF Muddled, ControllerEnds, Trusted, Off, TypeOK, Controller
  <2>2. \A n, failed : ~(Leave(n, failed) /\ UNCHANGED desired)
    BY <1>2 DEF Leave, Trusted, TypeOK, Controller
  <2>3. \A n : ~(TriggerSkipped(n) \/ triggerReconcile(n))
    BY <1>2 DEF TriggerSkipped, triggerReconcile, Trusted, TypeOK, Controller
  <2>4. ~(UNCHANGED <<desired, ctl>>)
    BY <1>2 DEF Trusted
  <2>5. ASSUME NEW n \in Nodes,
               \/ BeginAll(n) \/ RunStep(n) \/ AbortRepo(n) \/ ListFails(n) \/ Kill(n)
               \/ \E e \in Envs : BeginOne(n, e)
               \/ \E u \in run[n].todo : DeployFails(n, u) \/ DownFails(n, u)
               \/ \E u \in up[n] : Lose(n, u)
        PROVE  FALSE
    BY <2>1, <2>2, <2>4, <2>5
       DEF BeginAll, RunStep, AbortRepo, ListOrphans, ListFails, NextEnv, Finish, Kill, BeginOne,
           Deploy, BrokenFails, DeployFails, CountFailure, Down, DownFails, Lose
  <2>6. ~(\E l \in Layouts : Push(l)) /\ ~(UNCHANGED vars)
    BY <2>1, <2>4 DEF Push, vars
  <2> QED
    BY <2>1, <2>3, <2>5, <2>6 DEF Next, ControllerStep
<1>3. ASSUME ~Trusted, Trusted', NEW n \in Nodes, n \notin ctl'.todo
      PROVE  Unconcerned(n)'
  <2>1. PICK e \in Envs, prune \in BOOLEAN : BeginController(e, prune)
    BY <1>2, <1>3
  <2>2. /\ desired' = desired /\ ctl'.env = e /\ ctl'.prune = prune
        /\ ctl'.todo = reconcileTargets(desired, e, prune)
    BY <2>1 DEF BeginController, Off
  <2>3. desired.defined[e]
    BY <1>3, <2>2 DEF Trusted
  <2>4. ~prune /\ desiredIdentities(desired, e, n) = {}
    BY <1>3, <2>2, <2>3, TargetsAreConcerned
  <2> QED
    BY <2>2, <2>4 DEF Unconcerned, Wanted
<1> QED
  BY <1>1, <1>3 DEF ReportInv

(***************************************************************************)
(* A controller run that reports success, with nothing interfering, leaves *)
(* every node of the inventory with what the head places on it, whatever   *)
(* cron and operators run there meanwhile; with --prune, with nothing else *)
(* of that environment.                                                    *)
(***************************************************************************)
THEOREM SuccessIsEveryNodesSuccess == Spec => ControllerReportsDone
<1> DEFINE Done ==
      ctl.on /\ ~ctl'.on /\ ~ctl.failed /\ ctl.clean /\ desired.defined[ctl.env] =>
        \A n \in Nodes :
          /\ desiredIdentities(desired, ctl.env, n) \subseteq up[n]
          /\ ctl.prune => Running(n, ctl.env) = desiredIdentities(desired, ctl.env, n)
<1>1. ASSUME TypeOK, [Next]_vars, ctl.on, ~ctl'.on
      PROVE  ControllerEnds
  <2>1. /\ ~Muddled /\ \A n, failed : ~Leave(n, failed)
        /\ \A n : ~triggerReconcile(n) /\ ~TriggerSkipped(n)
    BY <1>1 DEF Muddled, Leave, triggerReconcile, TriggerSkipped, TypeOK, Controller
  <2>2. ~(UNCHANGED ctl) /\ \A e, prune : ~BeginController(e, prune)
    BY <1>1 DEF BeginController
  <2>3. ASSUME NEW n \in Nodes,
               \/ BeginAll(n) \/ RunStep(n) \/ AbortRepo(n) \/ ListFails(n) \/ Kill(n)
               \/ \E e \in Envs : BeginOne(n, e)
               \/ \E u \in run[n].todo : DeployFails(n, u) \/ DownFails(n, u)
               \/ \E u \in up[n] : Lose(n, u)
        PROVE  FALSE
    BY <2>1, <2>2, <2>3
       DEF BeginAll, RunStep, AbortRepo, ListOrphans, ListFails, NextEnv, Finish, Kill, BeginOne,
           Deploy, BrokenFails, DeployFails, CountFailure, Down, DownFails, Lose
  <2> QED
    BY <1>1, <2>1, <2>2, <2>3 DEF Next, ControllerStep, Push, vars
<1>2. ASSUME TypeOK, ReportInv, [Next]_vars
      PROVE  Done
  <2>1. SUFFICES ASSUME ctl.on, ~ctl'.on, ~ctl.failed, ctl.clean, desired.defined[ctl.env],
                        NEW n \in Nodes
                 PROVE  /\ Wanted(n) \subseteq up[n]
                        /\ ctl.prune => Running(n, ctl.env) = Wanted(n)
    BY DEF Wanted
  <2>2. ctl.waiting = Nobody /\ ctl.todo = {}
    BY <1>1, <1>2, <2>1 DEF ControllerEnds
  <2>3. Unconcerned(n) \/ Answered(n)
    BY <1>2, <2>1, <2>2, NamesAssumption DEF ReportInv, Trusted, Asked
  <2> QED
    BY <2>3 DEF Unconcerned, Answered, Settled
<1>3. Init => ReportInv
  BY DEF Init, ReportInv, Trusted, Off
<1>4. TypeOK /\ ListInv /\ ReportInv /\ [Next]_vars => ReportInv'
  BY ReportStep
<1>5. TypeOK /\ ReportInv /\ [Next]_vars => [Done]_vars
  BY <1>2
<1> QED
  BY <1>3, <1>4, <1>5, ListInvariant, PTL DEF Spec, ControllerReportsDone

-----------------------------------------------------------------------------
(* What has converged stays so.                                            *)

\* A run works from the checkout it started with, or from the head it enters.
LEMMA CheckoutKept ==
  ASSUME TypeOK, [Next]_vars, NEW n \in Nodes, run'[n].pc # "idle"
  PROVE  run'[n].at = desired \/ (run[n].pc # "idle" /\ run'[n].at = run[n].at)
<1>1. ASSUME NEW m \in Nodes, NEW e, NEW left, NEW scope, NEW narrow, NEW prune,
             Enter(m, e, left, scope, narrow, prune)
      PROVE  run'[n].at = desired \/ run'[n] = run[n]
  BY <1>1 DEF Enter, TypeOK
<1>2. ASSUME NEW m \in Nodes, BeginAll(m) \/ NextEnv(m) \/ \E e \in Envs : BeginOne(m, e)
      PROVE  run'[n].at = desired \/ run'[n] = run[n]
  BY <1>1, <1>2 DEF BeginAll, NextEnv, BeginOne
<1>3. ASSUME NEW m \in ctl.todo, triggerReconcile(m)
      PROVE  run'[n].at = desired \/ run'[n] = run[n]
  <2>1. m \in Nodes
    BY DEF TypeOK, Controller
  <2> QED
    BY <1>1, <1>3, <2>1 DEF triggerReconcile
<1>4. ASSUME NEW m \in Nodes, Finish(m) \/ Kill(m)
      PROVE  run'[n] = run[n]
  BY <1>4 DEF Finish, Kill, Leave, Idle, TypeOK
<1>5. ASSUME NEW m \in Nodes, AbortRepo(m) \/ ListOrphans(m) \/ ListFails(m)
      PROVE  run[n].pc # "idle" /\ run'[n].at = run[n].at
  BY <1>5 DEF AbortRepo, ListOrphans, ListFails, TypeOK, Run
<1>6. ASSUME NEW m \in Nodes, NEW u \in run[m].todo,
             \/ Deploy(m, u) \/ Down(m, u) \/ DownFails(m, u)
             \/ BrokenFails(m, u) \/ DeployFails(m, u)
      PROVE  run[n].pc # "idle" /\ run'[n].at = run[n].at
  <2>1. /\ \/ run' = [run EXCEPT ![m].todo = run[m].todo \ {u}]
           \/ run' = [run EXCEPT ![m].todo = run[m].todo \ {u}, ![m].failed = TRUE]
        /\ run[m].pc # "idle"
    BY <1>6 DEF Deploy, Down, DownFails, BrokenFails, DeployFails, CountFailure, Turn
  <2> QED
    BY <2>1 DEF TypeOK, Run
<1>7. ASSUME \/ \E m \in Nodes : \E u \in up[m] : Lose(m, u)
             \/ \E e \in Envs, prune \in BOOLEAN : BeginController(e, prune)
             \/ \E m \in ctl.todo : TriggerSkipped(m)
             \/ ControllerEnds
             \/ \E l \in Layouts : Push(l)
             \/ UNCHANGED vars
      PROVE  run' = run
  BY <1>7 DEF Lose, BeginController, TriggerSkipped, ControllerEnds, Push, vars
<1> QED
  BY <1>2, <1>3, <1>4, <1>5, <1>6, <1>7 DEF Next, RunStep, ControllerStep

(***************************************************************************)
(* The node has what the head places on it, but for what cannot be         *)
(* deployed, and nothing else of the environment, and no run of an older   *)
(* checkout is at work there.                                              *)
(***************************************************************************)
Converged(n, e) ==
  /\ desiredIdentities(desired, e, n) \ Broken \subseteq Running(n, e)
  /\ Running(n, e) \subseteq desiredIdentities(desired, e, n)
  /\ run[n].pc # "idle" => run[n].at = desired

StaysConverged ==
  [][\A n \in Nodes, e \in Envs :
       Converged(n, e) /\ desired' = desired /\ (\A u \in up[n] : ~Lose(n, u))
         => Converged(n, e)']_vars

(***************************************************************************)
(* The safety half of self-healing: whatever cron, operators and the       *)
(* controller start on a converged node, narrowed, pruning, failing or     *)
(* killed, neither starts nor stops a unit that the head decides about,    *)
(* until the head moves or containers are lost.                            *)
(***************************************************************************)
THEOREM ConvergedNodeStaysSo == Spec => StaysConverged
<1>1. ASSUME TypeOK, ListInv, [Next]_vars, NEW n \in Nodes, NEW e \in Envs,
             Converged(n, e), desired' = desired, \A u \in up[n] : ~Lose(n, u)
      PROVE  Converged(n, e)'
  <2>1. ASSUME NEW u \in Removed(n)
        PROVE  u \notin desiredIdentities(desired, e, n)
    <3>1. \A m, v : Lose(m, v) => up'[n] = up[n]
      BY <1>1 DEF Lose, TypeOK
    <3>2. run[n].pc = "prune" /\ u \in run[n].todo
      BY <1>1, <3>1, RemovedByPrune DEF Removed
    <3>3. u \notin desiredIdentities(desired, run[n].env, n) /\ u.env = run[n].env
      BY <1>1, <3>2 DEF ListInv, Converged
    <3> QED
      BY <3>3 DEF desiredIdentities
  <2>2. ASSUME NEW u \in Appeared(n), u.env = e
        PROVE  u \in desiredIdentities(desired, e, n)
    <3>1. run[n].pc = "work" /\ u \in run[n].todo
      BY <1>1, AppearsByDeploy
    <3>2. u \in Work(desired, run[n].env, n)
      BY <1>1, <3>1 DEF ListInv, Converged
    <3> QED
      BY <2>2, <3>2, WorkIsDesired
  <2>3. run'[n].pc # "idle" => run'[n].at = desired'
    BY <1>1, CheckoutKept DEF Converged
  <2> QED
    BY <1>1, <2>1, <2>2, <2>3 DEF Converged, Running, Removed, Appeared
<1>2. TypeOK /\ ListInv /\ [Next]_vars =>
        [\A n \in Nodes, e \in Envs :
           Converged(n, e) /\ desired' = desired /\ (\A u \in up[n] : ~Lose(n, u))
             => Converged(n, e)']_vars
  BY <1>1
<1> QED
  BY <1>2, ListInvariant, PTL DEF Spec, StaysConverged
=============================================================================
