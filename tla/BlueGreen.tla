------------------------------ MODULE BlueGreen ------------------------------
(***************************************************************************)
(* One Blue/Green project of a stack on one node, reconciled over and over *)
(* by runs that hold the home lock (so one run at a time), while operators *)
(* push new desired states, containers become healthy, fail and exit, and  *)
(* a run can be cut off after any of its calls.                            *)
(*                                                                         *)
(* Modelled code: reconcileProject and blueGreenProject with everything    *)
(* they call (internal/reconcile/reconcile.go), the compose operations of  *)
(* internal/runtime/docker.go as far as their effect on containers goes,   *)
(* and the per-binding file of internal/proxy/traefik.go.                  *)
(***************************************************************************)
EXTENDS Naturals, Sequences, FiniteSets

CONSTANTS
  Services,     \* services of the project that carry a desired image
  Configs,      \* fingerprints the desired state can have (compose file + env)
  Image,        \* Image[k]: the image references fingerprint k asks for
  Unfit,        \* fingerprints whose containers never pass their health check
  Bindings,     \* the services the project's proxy bindings route, in order
  None,         \* no fingerprint, no color
  MaxOperator,  \* bound: git pushes and forced runs
  MaxFaults     \* bound: container failures and interrupted calls

ASSUME ServicesAssumption == IsFiniteSet(Services) /\ Services # {}
ASSUME ConfigsAssumption == None \notin Configs /\ Unfit \subseteq Configs
ASSUME NoneAssumption == None \notin {"blue", "green"}
ASSUME BindingsAssumption == Bindings \in Seq(Services)
ASSUME BoundsAssumption == MaxOperator \in Nat /\ MaxFaults \in Nat

VARIABLES
  desired,    \* fingerprint of the desired state at the head of the branch
  box,        \* box[c][s]: the container of service s in color c
  routes,     \* routes[b]: what the proxy's file for binding b points at
  hash,       \* fingerprint recorded in the node's status document
  run,        \* the reconcile run in progress, or the idle record
  result,     \* how the last finished run counted the project
  vetted,     \* ghost: colors found healthy and matching since their deploy
  operator,   \* operator actions so far
  faults      \* faults so far

vars == <<desired, box, routes, hash, run, result, vetted, operator, faults>>

-----------------------------------------------------------------------------
(* Colors, containers, routes and runs.                                    *)

Colors == {"blue", "green"}

\* Mutant: the empty color is not mapped to a slot.
OtherColorOfTwo(c) == CASE c = "blue" -> "green" [] c = "green" -> "blue"
                        [] OTHER -> None

\* runtime.OtherColor: only blue maps to green, so a first deploy lands in blue.
OtherColor(c) == IF c = "blue" THEN "green" ELSE "blue"

Absent == [cfg |-> None, st |-> "absent"]
Container ==
  [cfg : Configs, st : {"unready", "healthy", "exited"}] \cup {Absent}

BindingIds == 1..Len(Bindings)

\* A route names a color; live says that the addresses in the file belong to
\* containers that run now (a recreated container has a new address).
Route == [color : Colors \cup {None}, live : BOOLEAN]

Phases == {"deploy", "wait", "check", "switch", "record"}
Paths == {"inSync", "deploy"}
Idle == [pc |-> "idle", path |-> "deploy", want |-> None, seen |-> {},
         keep |-> "blue", next |-> 1]
Run == [pc : Phases, path : Paths, want : Configs, seen : SUBSET Colors,
        keep : Colors, next : 1..(Len(Bindings) + 1)] \cup {Idle}

\* docker ps: the containers of color c that run, whatever their health.
Up(c) == {s \in Services : box[c][s].st \in {"unready", "healthy"}}

\* imagesMatch(running[c], desiredRefs) for the references fingerprint k asks.
imagesMatch(c, k) ==
  /\ Up(c) # {}
  /\ \A s \in Services : s \in Up(c) /\ Image[box[c][s].cfg] = Image[k]

runningByColor == {c \in Colors : Up(c) # {}}

\* The colors are tried in the order of runtime.Colors: blue first.
FirstColor(S) == IF "blue" \in S THEN "blue"
                 ELSE IF "green" \in S THEN "green" ELSE None
colorServing(k) == FirstColor({c \in Colors : imagesMatch(c, k)})
currentColor == FirstColor(runningByColor)

\* Mutant: matching images alone count as in sync.
InSyncByImages(k) == colorServing(k) # None

InSync(k) == colorServing(k) # None /\ hash = k

\* runtime.WaitHealthy returns nil: something runs and all that runs is healthy.
AllHealthy(c) ==
  /\ Up(c) # {}
  /\ \A s \in Up(c) : box[c][s].st = "healthy"

\* Routes to a container that is being replaced or removed lose their address.
Disconnect(c, S) ==
  [b \in BindingIds |-> IF routes[b].color = c /\ Bindings[b] \in S
                          THEN [routes[b] EXCEPT !.live = FALSE]
                          ELSE routes[b]]

Fault == faults < MaxFaults /\ faults' = faults + 1

-----------------------------------------------------------------------------
Init ==
  /\ desired \in Configs
  /\ box = [c \in Colors |-> [s \in Services |-> Absent]]
  /\ routes = [b \in BindingIds |-> [color |-> None, live |-> FALSE]]
  /\ hash = None
  /\ run = Idle
  /\ result = "none"
  /\ vetted = {}
  /\ operator = 0
  /\ faults = 0

(***************************************************************************)
(* The run. It reads the branch head and the running containers once, at   *)
(* its start; what it decides then it carries through to the end.          *)
(***************************************************************************)

\* In sync: only the route is re-asserted and a stale other color stopped.
BeginInSync ==
  /\ run = Idle
  /\ InSync(desired)
  /\ run' = [pc |-> "switch", path |-> "inSync", want |-> desired,
             seen |-> runningByColor, keep |-> colorServing(desired),
             next |-> 1]
  /\ UNCHANGED <<desired, box, routes, hash, result, vetted, operator, faults>>

\* Drift: the deploy goes to the color opposite to the current one.
StartDeploy ==
  /\ run = Idle
  /\ run' = [pc |-> "deploy", path |-> "deploy", want |-> desired,
             seen |-> runningByColor, keep |-> OtherColor(currentColor),
             next |-> 1]
  /\ UNCHANGED <<desired, box, routes, hash, result, vetted, faults>>

\* Mutant: the in-sync check no longer ends the run.
DeployAnyway == StartDeploy /\ UNCHANGED operator

BeginDeploy == ~InSync(desired) /\ StartDeploy /\ UNCHANGED operator

\* kompensator reconcile --force
BeginForced ==
  /\ operator < MaxOperator
  /\ operator' = operator + 1
  /\ StartDeploy

Fails == run' = Idle /\ result' = "failed"

\* Mutant: the fingerprint is recorded before the deploy has proved itself.
DeployRecordingFirst ==
  /\ run.pc = "deploy"
  /\ box' = [box EXCEPT ![run.keep] =
               [s \in Services |-> [cfg |-> run.want, st |-> "unready"]]]
  /\ routes' = Disconnect(run.keep, Services)
  /\ vetted' = vetted \ {run.keep}
  /\ run' = [run EXCEPT !.pc = "wait"]
  /\ hash' = run.want
  /\ UNCHANGED <<desired, result, operator, faults>>

\* docker compose up --force-recreate of the whole target color.
Deploy ==
  /\ run.pc = "deploy"
  /\ box' = [box EXCEPT ![run.keep] =
               [s \in Services |-> [cfg |-> run.want, st |-> "unready"]]]
  /\ routes' = Disconnect(run.keep, Services)
  /\ vetted' = vetted \ {run.keep}
  /\ run' = [run EXCEPT !.pc = "wait"]
  /\ UNCHANGED <<desired, hash, result, operator, faults>>

\* The same call failing halfway: some services recreated, some only removed.
DeployFails ==
  /\ run.pc = "deploy"
  /\ Fault
  /\ \E made \in SUBSET Services : \E lost \in SUBSET (Services \ made) :
       /\ box' = [box EXCEPT ![run.keep] =
                    [s \in Services |->
                       IF s \in made THEN [cfg |-> run.want, st |-> "unready"]
                       ELSE IF s \in lost THEN Absent ELSE @[s]]]
       /\ routes' = Disconnect(run.keep, made \cup lost)
  /\ vetted' = vetted \ {run.keep}
  /\ Fails
  /\ UNCHANGED <<desired, hash, operator>>

WaitHealthy ==
  /\ run.pc = "wait"
  /\ AllHealthy(run.keep)
  /\ run' = [run EXCEPT !.pc = "check"]
  /\ UNCHANGED <<desired, box, routes, hash, result, vetted, operator, faults>>

\* Mutant: an unhealthy color is reported, and the run goes on.
WaitFailsWarns ==
  /\ run.pc = "wait"
  /\ ~AllHealthy(run.keep)
  /\ Up(run.keep) = {} \/ \E s \in Up(run.keep) : box[run.keep][s].cfg \in Unfit
  /\ run' = [run EXCEPT !.pc = "switch"]
  /\ UNCHANGED <<desired, box, routes, hash, result, vetted, operator, faults>>

\* No container is left, or the deadline passes before an unfit one is healthy.
WaitFails ==
  /\ run.pc = "wait"
  /\ ~AllHealthy(run.keep)
  /\ Up(run.keep) = {} \/ \E s \in Up(run.keep) : box[run.keep][s].cfg \in Unfit
  /\ Fails
  /\ UNCHANGED <<desired, box, routes, hash, vetted, operator, faults>>

\* A fit container misses the deadline (healthTimeout): a fault of the host.
WaitTimesOut ==
  /\ run.pc = "wait"
  /\ ~AllHealthy(run.keep)
  /\ Fault
  /\ Fails
  /\ UNCHANGED <<desired, box, routes, hash, vetted, operator>>

\* After the wait every desired service must be running its desired image.
CheckImages ==
  /\ run.pc = "check"
  /\ IF imagesMatch(run.keep, run.want)
       THEN /\ run' = [run EXCEPT !.pc = "switch"]
            /\ vetted' = vetted \cup {run.keep}
            /\ UNCHANGED result
       ELSE Fails /\ UNCHANGED vetted
  /\ UNCHANGED <<desired, box, routes, hash, operator, faults>>

\* switchProxy, one binding at a time: the file names the replicas that run
\* now, and the service's color alias when there is none.
SwitchBinding ==
  /\ run.pc = "switch"
  /\ run.next \in BindingIds
  /\ routes' = [routes EXCEPT ![run.next] =
                  [color |-> run.keep, live |-> Bindings[run.next] \in Up(run.keep)]]
  /\ run' = [run EXCEPT !.next = @ + 1]
  /\ UNCHANGED <<desired, box, hash, result, vetted, operator, faults>>

\* The other color is stopped if it was running when the run looked.
\* Mutant: the old color is stopped before every route has moved.
SwitchBegun == run.pc = "switch" /\ run.next >= 1

AllSwitched == run.pc = "switch" /\ run.next \notin BindingIds
Stopping == run.seen \ {run.keep}
AfterStop ==
  IF run.path = "inSync" THEN run' = Idle /\ result' = "inSync"
                         ELSE run' = [run EXCEPT !.pc = "record"] /\ UNCHANGED result
stopOtherColors ==
  /\ AllSwitched
  /\ box' = [c \in Colors |-> IF c \in Stopping THEN [s \in Services |-> Absent]
                                                ELSE box[c]]
  /\ vetted' = vetted \ Stopping
  /\ AfterStop
  /\ UNCHANGED <<desired, routes, hash, operator, faults>>

\* docker compose down failing with some services already gone.
StopFails ==
  /\ AllSwitched
  /\ Fault
  /\ \E c \in Stopping, gone \in SUBSET Services :
       box' = [box EXCEPT ![c] = [s \in Services |->
                                    IF s \in gone THEN Absent ELSE @[s]]]
  /\ Fails
  /\ UNCHANGED <<desired, routes, hash, vetted, operator>>

writeDeployHash ==
  /\ run.pc = "record"
  /\ hash' = run.want
  /\ run' = Idle
  /\ result' = "deployed"
  /\ UNCHANGED <<desired, box, routes, vetted, operator, faults>>

\* Any call can fail before it changes anything, and the process can be killed.
Abort ==
  /\ run # Idle
  /\ Fault
  /\ Fails
  /\ UNCHANGED <<desired, box, routes, hash, vetted, operator>>

-----------------------------------------------------------------------------
(* The operator and the host.                                              *)

Push(k) ==
  /\ operator < MaxOperator
  /\ operator' = operator + 1
  /\ k # desired
  /\ desired' = k
  /\ UNCHANGED <<box, routes, hash, run, result, vetted, faults>>

BecomeHealthy(c, s) ==
  /\ box[c][s].st = "unready"
  /\ box[c][s].cfg \notin Unfit
  /\ box' = [box EXCEPT ![c][s].st = "healthy"]
  /\ UNCHANGED <<desired, routes, hash, run, result, vetted, operator, faults>>

BecomeUnready(c, s) ==
  /\ box[c][s].st = "healthy"
  /\ Fault
  /\ box' = [box EXCEPT ![c][s].st = "unready"]
  /\ UNCHANGED <<desired, routes, hash, run, result, vetted, operator>>

Exit(c, s) ==
  /\ s \in Up(c)
  /\ Fault
  /\ box' = [box EXCEPT ![c][s].st = "exited"]
  /\ routes' = Disconnect(c, {s})
  /\ UNCHANGED <<desired, hash, run, result, vetted, operator>>

\* A restart policy or a reboot of the host brings the container back.
Restart(c, s) ==
  /\ box[c][s].st = "exited"
  /\ Fault
  /\ box' = [box EXCEPT ![c][s].st = "unready"]
  /\ UNCHANGED <<desired, routes, hash, run, result, vetted, operator>>

-----------------------------------------------------------------------------
Begin == BeginInSync \/ BeginDeploy
Step ==
  \/ Deploy \/ WaitHealthy \/ WaitFails \/ CheckImages
  \/ SwitchBinding \/ stopOtherColors \/ writeDeployHash
Host ==
  \E c \in Colors, s \in Services :
    BecomeHealthy(c, s) \/ BecomeUnready(c, s) \/ Exit(c, s) \/ Restart(c, s)

Next ==
  \/ Begin \/ BeginForced
  \/ Step \/ WaitTimesOut \/ DeployFails \/ StopFails \/ Abort
  \/ \E k \in Configs : Push(k)
  \/ Host

Spec == Init /\ [][Next]_vars

(***************************************************************************)
(* cron starts runs again and again and every call of a run returns; a fit *)
(* container left alone becomes healthy. Nothing makes an operator act or  *)
(* a fault happen.                                                         *)
(***************************************************************************)
Fairness ==
  /\ WF_vars(Begin)
  /\ WF_vars(Step)
  /\ \A c \in Colors, s \in Services : WF_vars(BecomeHealthy(c, s))
FairSpec == Spec /\ Fairness

-----------------------------------------------------------------------------
(* Properties.                                                             *)

TypeOK ==
  /\ desired \in Configs
  /\ box \in [Colors -> [Services -> Container]]
  /\ routes \in [BindingIds -> Route]
  /\ hash \in Configs \cup {None}
  /\ run \in Run
  /\ result \in {"none", "inSync", "deployed", "failed"}
  /\ vetted \subseteq Colors
  /\ operator \in 0..MaxOperator
  /\ faults \in 0..MaxFaults

Standing(c) == {s \in Services : box[c][s].st # "absent"}

(***************************************************************************)
(* Outside of a deploy, containers are removed only from a color no proxy  *)
(* file names any more: traffic is cut over before the old color stops,    *)
(* whatever was interrupted or failed in between.                          *)
(***************************************************************************)
RemovedColorUnrouted ==
  [][run.pc # "deploy" =>
       \A c \in Colors : (\E s \in Services : s \in Standing(c) /\ s \notin Standing(c)')
                           => \A b \in BindingIds : routes[b].color # c]_vars

(***************************************************************************)
(* A fingerprint is recorded only for a color that became healthy with the *)
(* desired images in this very run, that every route already points at,    *)
(* and once nothing the run saw running besides it is left.                *)
(***************************************************************************)
FingerprintEarned ==
  [][hash' # hash =>
       /\ hash' = run.want
       /\ run.keep \in vetted
       /\ \A s \in Services : box[run.keep][s].cfg = hash'
       /\ \A b \in BindingIds : routes[b].color = run.keep
       /\ \A c \in run.seen \ {run.keep} : Standing(c) = {}]_vars

(***************************************************************************)
(* What the tool works towards: one color runs the desired state, healthy, *)
(* every route reaches its present containers, nothing else runs, and the  *)
(* fingerprint says so.                                                    *)
(***************************************************************************)
Serves(c) ==
  /\ \A s \in Services : box[c][s] = [cfg |-> desired, st |-> "healthy"]
  /\ \A b \in BindingIds : routes[b] = [color |-> c, live |-> TRUE]
Converged ==
  /\ hash = desired
  /\ \E c \in Colors : Serves(c) /\ runningByColor = {c}

(***************************************************************************)
(* Self-healing: when the operator and the faults leave the node alone and *)
(* the desired state can become healthy, the node ends up converged.       *)
(***************************************************************************)
Converges == <>[](desired \notin Unfit) => <>[]Converged

(***************************************************************************)
(* A converged node is left as it is: a run that finds it converged, and   *)
(* is not forced, neither redeploys it nor moves a route. Such a run keeps *)
(* the color the node converged to.                                        *)
(***************************************************************************)
Settled ==
  /\ hash = desired
  /\ \E c \in Colors :
       /\ Serves(c) /\ runningByColor = {c}
       /\ run = Idle \/ (run.path = "inSync" /\ run.want = desired /\ run.keep = c)
StaysSettled ==
  [][Settled /\ operator' = operator /\ faults' = faults
       => Settled' /\ UNCHANGED <<routes, hash>>]_vars

(***************************************************************************)
(* The color being served is never the one a deploy recreates: "always     *)
(* deploys the new version into the slot the project is not currently      *)
(* running in" (runtime/docker.go).                                        *)
(***************************************************************************)
LiveColorNotRedeployed ==
  [][run.pc = "deploy" =>
       \A b \in BindingIds : routes[b].live /\ routes[b].color = run.keep
                               => UNCHANGED box[run.keep]]_vars

(***************************************************************************)
(* A deploy moves traffic only to a color that this run found healthy with *)
(* the desired images, and that carries the run's fingerprint throughout:  *)
(* "report failure (keep old version live)" (docs/architecture.md). What a *)
(* container does after that check, the run does not see.                  *)
(***************************************************************************)
TrafficMovesToVetted ==
  [][\A b \in BindingIds :
       run.path = "deploy" /\ routes'[b].color # routes[b].color =>
         /\ routes'[b].color = run.keep /\ run.keep \in vetted
         /\ \A s \in Services : box[run.keep][s].cfg = run.want]_vars
=============================================================================
