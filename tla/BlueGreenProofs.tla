-------------------------- MODULE BlueGreenProofs --------------------------
(***************************************************************************)
(* Proofs about BlueGreen for any number of services, fingerprints,        *)
(* bindings, operator actions and faults.                                  *)
(***************************************************************************)
EXTENDS BlueGreen, TLAPS

ActiveRun == [pc : Phases, path : Paths, want : Configs, seen : SUBSET Colors,
              keep : Colors, next : 1..(Len(Bindings) + 1)]

-----------------------------------------------------------------------------
(* Helpers.                                                                *)

LEMMA BindingsLen == Len(Bindings) \in Nat
BY BindingsAssumption

LEMMA ActiveRunType == ASSUME TypeOK, run.pc # "idle" PROVE run \in ActiveRun
BY DEF TypeOK, Run, Idle, ActiveRun

LEMMA IdleType == Idle \in Run
BY DEF Run

LEMMA OtherColorType == \A c : OtherColor(c) \in Colors
BY DEF OtherColor, Colors

LEMMA FirstColorType == \A S : FirstColor(S) # None => FirstColor(S) \in Colors
BY DEF FirstColor, Colors

\* The color a run redeploys to, or keeps, has each of its containers renewed
\* or removed; what results is again a table of containers.
LEMMA DisconnectType ==
  ASSUME TypeOK, NEW c \in Colors, NEW S
  PROVE  Disconnect(c, S) \in [BindingIds -> Route]
BY DEF TypeOK, Disconnect, Route

LEMMA DisconnectColor ==
  ASSUME TypeOK, NEW c \in Colors, NEW S
  PROVE  \A b \in BindingIds : Disconnect(c, S)[b].color = routes[b].color
BY DEF TypeOK, Disconnect, Route

LEMMA FaultType == ASSUME TypeOK, Fault PROVE faults' \in 0..MaxFaults
BY BoundsAssumption DEF TypeOK, Fault

LEMMA ContainerFacts ==
  /\ Absent \in Container
  /\ \A k \in Configs : [cfg |-> k, st |-> "unready"] \in Container
  /\ \A x \in Container : x.st # "absent" =>
       \A t \in {"unready", "healthy", "exited"} : [x EXCEPT !.st = t] \in Container
BY DEF Container, Absent

-----------------------------------------------------------------------------
(* Type correctness.                                                       *)

LEMMA InitType == Init => TypeOK
BY BoundsAssumption, IdleType, ContainerFacts DEF Init, TypeOK, Route

LEMMA NextType == TypeOK /\ [Next]_vars => TypeOK'
<1> SUFFICES ASSUME TypeOK, [Next]_vars PROVE TypeOK'
  OBVIOUS
<1> USE BindingsLen, IdleType
<1>1. CASE BeginInSync
  <2>1. run' \in Run
    BY <1>1, FirstColorType DEF BeginInSync, TypeOK, Run, Phases, Paths, InSync,
       colorServing, runningByColor
  <2> QED BY <1>1, <2>1 DEF BeginInSync, TypeOK, BindingIds
<1>2. CASE BeginDeploy \/ BeginForced
  <2>1. run' \in Run
    BY <1>2, OtherColorType DEF BeginDeploy, BeginForced, StartDeploy, TypeOK, Run, Phases,
       Paths, runningByColor
  <2>2. operator' \in 0..MaxOperator
    BY <1>2, BoundsAssumption DEF BeginDeploy, BeginForced, TypeOK
  <2> QED BY <1>2, <2>1, <2>2 DEF BeginDeploy, BeginForced, StartDeploy, TypeOK
<1>3. CASE Deploy
  <2>1. run \in ActiveRun
    BY <1>3, ActiveRunType DEF Deploy
  <2>2. run' \in Run
    BY <1>3, <2>1 DEF Deploy, ActiveRun, Run, Phases
  <2>3. box' \in [Colors -> [Services -> Container]]
    BY <1>3, <2>1, ContainerFacts DEF Deploy, TypeOK, ActiveRun
  <2>4. routes' \in [BindingIds -> Route]
    BY <1>3, <2>1, DisconnectType DEF Deploy, ActiveRun
  <2> QED BY <1>3, <2>2, <2>3, <2>4 DEF Deploy, TypeOK
<1>4. CASE DeployFails
  <2>1. run \in ActiveRun
    BY <1>4, ActiveRunType DEF DeployFails
  <2>2. PICK made \in SUBSET Services, lost \in SUBSET Services :
          /\ box' = [box EXCEPT ![run.keep] =
                       [s \in Services |->
                          IF s \in made THEN [cfg |-> run.want, st |-> "unready"]
                          ELSE IF s \in lost THEN Absent ELSE @[s]]]
          /\ routes' = Disconnect(run.keep, made \cup lost)
    BY <1>4 DEF DeployFails
  <2>3. box' \in [Colors -> [Services -> Container]]
    BY <2>1, <2>2, ContainerFacts DEF TypeOK, ActiveRun
  <2>4. routes' \in [BindingIds -> Route]
    BY <2>1, <2>2, DisconnectType DEF ActiveRun
  <2>5. faults' \in 0..MaxFaults
    BY <1>4, FaultType DEF DeployFails
  <2> QED BY <1>4, <2>3, <2>4, <2>5 DEF DeployFails, TypeOK, Fails
<1>5. CASE WaitHealthy
  <2>1. run' \in Run
    BY <1>5, ActiveRunType DEF WaitHealthy, ActiveRun, Run, Phases
  <2> QED BY <1>5, <2>1 DEF WaitHealthy, TypeOK
<1>6. CASE WaitFails
  BY <1>6 DEF WaitFails, Fails, TypeOK
<1>7. CASE WaitTimesOut
  BY <1>7, FaultType DEF WaitTimesOut, Fails, TypeOK
<1>8. CASE CheckImages
  <2>1. run \in ActiveRun
    BY <1>8, ActiveRunType DEF CheckImages
  <2>2. run' \in Run
    BY <1>8, <2>1 DEF CheckImages, Fails, ActiveRun, Run, Phases
  <2> QED BY <1>8, <2>1, <2>2 DEF CheckImages, Fails, TypeOK, ActiveRun
<1>9. CASE SwitchBinding
  <2>1. run \in ActiveRun
    BY <1>9, ActiveRunType DEF SwitchBinding
  <2>2. run' \in Run
    BY <1>9, <2>1 DEF SwitchBinding, ActiveRun, Run, BindingIds
  <2>3. routes' \in [BindingIds -> Route]
    BY <1>9, <2>1 DEF SwitchBinding, TypeOK, Route, ActiveRun
  <2> QED BY <1>9, <2>2, <2>3 DEF SwitchBinding, TypeOK
<1>10. CASE stopOtherColors
  <2>1. run \in ActiveRun
    BY <1>10, ActiveRunType DEF stopOtherColors, AllSwitched
  <2>2. run' \in Run /\ result' \in {"none", "inSync", "deployed", "failed"}
    BY <1>10, <2>1 DEF stopOtherColors, AfterStop, ActiveRun, Run, Phases, TypeOK
  <2>3. box' \in [Colors -> [Services -> Container]]
    BY <1>10, ContainerFacts DEF stopOtherColors, TypeOK
  <2> QED BY <1>10, <2>2, <2>3 DEF stopOtherColors, TypeOK
<1>11. CASE StopFails
  <2>1. box' \in [Colors -> [Services -> Container]]
    <3>1. PICK c \in Stopping, gone \in SUBSET Services :
            box' = [box EXCEPT ![c] = [s \in Services |->
                                         IF s \in gone THEN Absent ELSE @[s]]]
      BY <1>11 DEF StopFails
    <3>2. run \in ActiveRun
      BY <1>11, ActiveRunType DEF StopFails, AllSwitched
    <3>3. c \in Colors
      BY <3>1, <3>2 DEF Stopping, ActiveRun
    <3> QED BY <3>1, <3>3, ContainerFacts DEF TypeOK
  <2>2. faults' \in 0..MaxFaults
    BY <1>11, FaultType DEF StopFails
  <2> QED BY <1>11, <2>1, <2>2 DEF StopFails, Fails, TypeOK
<1>12. CASE writeDeployHash
  BY <1>12, ActiveRunType DEF writeDeployHash, TypeOK, ActiveRun
<1>13. CASE Abort
  BY <1>13, FaultType DEF Abort, Fails, TypeOK
<1>14. ASSUME NEW k \in Configs, Push(k) PROVE TypeOK'
  BY <1>14, BoundsAssumption DEF Push, TypeOK
<1>15. ASSUME NEW c \in Colors, NEW s \in Services,
              BecomeHealthy(c, s) \/ BecomeUnready(c, s) \/ Exit(c, s) \/ Restart(c, s)
       PROVE  TypeOK'
  <2>1. box' \in [Colors -> [Services -> Container]]
    <3>1. box[c][s] \in Container /\ box[c][s].st # "absent"
      BY <1>15 DEF TypeOK, BecomeHealthy, BecomeUnready, Exit, Restart, Up
    <3>2. PICK t \in {"unready", "healthy", "exited"} : box' = [box EXCEPT ![c][s].st = t]
      BY <1>15 DEF BecomeHealthy, BecomeUnready, Exit, Restart
    <3>3. [box[c][s] EXCEPT !.st = t] \in Container
      BY <3>1, ContainerFacts
    <3> QED BY <3>2, <3>3 DEF TypeOK
  <2>2. routes' \in [BindingIds -> Route]
    BY <1>15, DisconnectType DEF TypeOK, BecomeHealthy, BecomeUnready, Exit, Restart
  <2>3. faults' \in 0..MaxFaults
    BY <1>15, FaultType DEF TypeOK, BecomeHealthy, BecomeUnready, Exit, Restart
  <2> QED BY <1>15, <2>1, <2>2, <2>3
          DEF TypeOK, BecomeHealthy, BecomeUnready, Exit, Restart
<1>16. CASE UNCHANGED vars
  BY <1>16 DEF vars, TypeOK
<1> QED BY <1>1, <1>2, <1>3, <1>4, <1>5, <1>6, <1>7, <1>8, <1>9, <1>10, <1>11, <1>12,
           <1>13, <1>14, <1>15, <1>16 DEF Next, Begin, Step, Host

(***************************************************************************)
(* Every reachable state is well typed, whatever fails or is interrupted.  *)
(***************************************************************************)
THEOREM TypeCorrect == Spec => []TypeOK
BY InitType, NextType, PTL DEF Spec

-----------------------------------------------------------------------------
(***************************************************************************)
(* What a run has achieved by the time it reaches each phase. None of the  *)
(* two action properties is inductive by itself: they speak of the last    *)
(* steps of a run, whose premises the earlier phases established and the   *)
(* host's own steps must not have undone.                                  *)
(***************************************************************************)
PathInv ==
  /\ run.pc \in {"deploy", "wait", "check", "record"} => run.path = "deploy"
  /\ run.pc \in {"deploy", "wait", "check"} => run.next = 1

DeployedInv ==
  (run.pc \in {"wait", "check", "switch", "record"} /\ run.path = "deploy") =>
    \A s \in Services : box[run.keep][s].cfg = run.want

RoutedInv ==
  /\ run.pc = "switch" =>
       \A b \in BindingIds : b < run.next => routes[b].color = run.keep
  /\ run.pc = "record" => \A b \in BindingIds : routes[b].color = run.keep

VettedInv ==
  ((run.pc = "switch" /\ run.path = "deploy") \/ run.pc = "record") =>
    run.keep \in vetted

StoppedInv ==
  run.pc = "record" =>
    \A c \in run.seen \ {run.keep} : \A s \in Services : box[c][s] = Absent

RunInv ==
  /\ PathInv
  /\ DeployedInv
  /\ RoutedInv
  /\ VettedInv
  /\ StoppedInv

LEMMA InitRunInv == Init => RunInv
BY DEF Init, RunInv, PathInv, DeployedInv, RoutedInv, VettedInv, StoppedInv, Idle

LEMMA IdleRunInv == run' = Idle => RunInv'
BY DEF RunInv, PathInv, DeployedInv, RoutedInv, VettedInv, StoppedInv, Idle

\* A container that starts, fails or recovers keeps its fingerprint and its
\* presence, and no route changes its color.
LEMMA HostStep ==
  ASSUME TypeOK, NEW c \in Colors, NEW s \in Services,
         BecomeHealthy(c, s) \/ BecomeUnready(c, s) \/ Exit(c, s) \/ Restart(c, s)
  PROVE  /\ \A d \in Colors, t \in Services :
              /\ box'[d][t].cfg = box[d][t].cfg
              /\ box[d][t] = Absent <=> box'[d][t] = Absent
              /\ box[d][t].st = "absent" <=> box'[d][t].st = "absent"
         /\ \A b \in BindingIds : routes'[b].color = routes[b].color
         /\ run' = run /\ vetted' = vetted /\ hash' = hash
<1>1. box[c][s] \in Container /\ box[c][s].st \in {"unready", "healthy", "exited"}
  BY DEF TypeOK, BecomeHealthy, BecomeUnready, Exit, Restart, Up
<1>2. PICK t \in {"unready", "healthy", "exited"} : box' = [box EXCEPT ![c][s].st = t]
  BY DEF BecomeHealthy, BecomeUnready, Exit, Restart
<1>3. \A b \in BindingIds : routes'[b].color = routes[b].color
  BY DisconnectColor DEF BecomeHealthy, BecomeUnready, Exit, Restart
<1>4. /\ box'[c][s].cfg = box[c][s].cfg
      /\ box'[c][s].st = t
      /\ box[c][s] # Absent /\ box'[c][s] # Absent
  BY <1>1, <1>2 DEF TypeOK, Container, Absent
<1>5. \A d \in Colors, u \in Services : (d # c \/ u # s) => box'[d][u] = box[d][u]
  BY <1>2 DEF TypeOK
<1>6. run' = run /\ vetted' = vetted /\ hash' = hash
  BY DEF BecomeHealthy, BecomeUnready, Exit, Restart
<1> QED BY <1>1, <1>3, <1>4, <1>5, <1>6

LEMMA NextRunInv == TypeOK /\ RunInv /\ [Next]_vars => RunInv'
<1> SUFFICES ASSUME TypeOK, RunInv, [Next]_vars PROVE RunInv'
  OBVIOUS
<1> USE BindingsLen
    DEF RunInv, PathInv, DeployedInv, RoutedInv, VettedInv, StoppedInv
<1>1. CASE BeginInSync
  BY <1>1 DEF BeginInSync, BindingIds
<1>2. CASE BeginDeploy \/ BeginForced
  BY <1>2 DEF BeginDeploy, BeginForced, StartDeploy
<1>3. CASE Deploy
  <2>1. run \in ActiveRun
    BY <1>3, ActiveRunType DEF Deploy
  <2>2. /\ run'.pc = "wait" /\ run'.path = "deploy" /\ run'.next = 1
        /\ run'.keep = run.keep /\ run'.want = run.want
    BY <1>3, <2>1 DEF Deploy, ActiveRun
  <2>3. \A s \in Services : box'[run.keep][s].cfg = run.want
    BY <1>3, <2>1 DEF Deploy, ActiveRun, TypeOK
  <2> QED BY <2>2, <2>3
<1>4. CASE DeployFails \/ WaitFails \/ WaitTimesOut \/ StopFails \/ writeDeployHash \/ Abort
  BY <1>4, IdleRunInv DEF DeployFails, WaitFails, WaitTimesOut, StopFails, writeDeployHash,
     Abort, Fails
<1>5. CASE WaitHealthy
  <2>1. run \in ActiveRun
    BY <1>5, ActiveRunType DEF WaitHealthy
  <2> QED BY <1>5, <2>1 DEF WaitHealthy, ActiveRun
<1>6. CASE CheckImages
  <2>1. CASE run' = Idle
    BY <2>1, IdleRunInv
  <2>2. CASE run' # Idle
    <3>1. run \in ActiveRun
      BY <1>6, ActiveRunType DEF CheckImages
    <3>2. run' = [run EXCEPT !.pc = "switch"] /\ vetted' = vetted \cup {run.keep}
      BY <1>6, <2>2 DEF CheckImages, Fails
    <3>3. run.next = 1
      BY <1>6 DEF CheckImages
    <3> QED BY <1>6, <3>1, <3>2, <3>3 DEF CheckImages, ActiveRun, BindingIds
  <2> QED BY <2>1, <2>2
<1>7. CASE SwitchBinding
  <2>1. run \in ActiveRun
    BY <1>7, ActiveRunType DEF SwitchBinding
  <2>2. run'.next = run.next + 1 /\ run'.pc = "switch" /\ run'.keep = run.keep
        /\ run'.path = run.path /\ run'.want = run.want
    BY <1>7, <2>1 DEF SwitchBinding, ActiveRun
  <2>3. \A b \in BindingIds : b < run'.next => routes'[b].color = run.keep
    BY <1>7, <2>1, <2>2 DEF SwitchBinding, TypeOK, BindingIds, ActiveRun
  <2> QED BY <1>7, <2>1, <2>2, <2>3 DEF SwitchBinding
<1>8. CASE stopOtherColors
  <2>1. CASE run' = Idle
    BY <2>1, IdleRunInv
  <2>2. CASE run' # Idle
    <3>1. run \in ActiveRun
      BY <1>8, ActiveRunType DEF stopOtherColors, AllSwitched
    <3>2. run' = [run EXCEPT !.pc = "record"] /\ run.path = "deploy"
      BY <1>8, <2>2, <3>1 DEF stopOtherColors, AfterStop, ActiveRun, Paths
    <3>3. \A b \in BindingIds : routes[b].color = run.keep
      BY <1>8, <3>1 DEF stopOtherColors, AllSwitched, BindingIds, ActiveRun
    <3>4. \A d \in run.seen \ {run.keep} : \A s \in Services : box'[d][s] = Absent
      BY <1>8, <3>1 DEF stopOtherColors, Stopping, ActiveRun
    <3>5. \A s \in Services : box'[run.keep][s] = box[run.keep][s]
      BY <1>8, <3>1 DEF stopOtherColors, Stopping, ActiveRun
    <3> QED BY <1>8, <3>1, <3>2, <3>3, <3>4, <3>5
            DEF stopOtherColors, AllSwitched, Stopping, ActiveRun
  <2> QED BY <2>1, <2>2
<1>9. ASSUME NEW k \in Configs, Push(k) PROVE RunInv'
  BY <1>9 DEF Push
<1>10. ASSUME NEW c \in Colors, NEW s \in Services,
              BecomeHealthy(c, s) \/ BecomeUnready(c, s) \/ Exit(c, s) \/ Restart(c, s)
       PROVE  RunInv'
  <2>1. CASE run = Idle
    BY <2>1, <1>10, HostStep, IdleRunInv
  <2>2. CASE run # Idle
    <3>1. run \in ActiveRun
      BY <2>2 DEF TypeOK, Run, ActiveRun
    <3> QED BY <1>10, <3>1, HostStep DEF ActiveRun
  <2> QED BY <2>1, <2>2
<1>11. CASE UNCHANGED vars
  BY <1>11 DEF vars
<1> QED BY <1>1, <1>2, <1>3, <1>4, <1>5, <1>6, <1>7, <1>8, <1>9, <1>10, <1>11
        DEF Next, Begin, Step, Host

-----------------------------------------------------------------------------
(* The properties.                                                         *)

LEMMA Invariants == Spec => [](TypeOK /\ RunInv)
<1>1. Init => TypeOK /\ RunInv
  BY InitType, InitRunInv
<1>2. TypeOK /\ RunInv /\ [Next]_vars => (TypeOK /\ RunInv)'
  BY NextType, NextRunInv
<1> QED BY <1>1, <1>2, PTL DEF Spec

Removes(c) == \E s \in Services : s \in Standing(c) /\ s \notin Standing(c)'

LEMMA RemovalStep ==
  ASSUME TypeOK, RunInv, [Next]_vars, run.pc # "deploy", NEW c \in Colors, Removes(c)
  PROVE  \A b \in BindingIds : routes[b].color # c
<1> DEFINE Unrouted == \A b \in BindingIds : routes[b].color # c
<1>1. CASE stopOtherColors \/ StopFails
  <2>1. run \in ActiveRun /\ AllSwitched
    BY <1>1, ActiveRunType DEF stopOtherColors, StopFails, AllSwitched
  <2>2. c \in Stopping
    BY <1>1, <2>1 DEF Removes, Standing, stopOtherColors, StopFails, TypeOK, Stopping,
       ActiveRun
  <2>3. \A b \in BindingIds : routes[b].color = run.keep
    BY <2>1, BindingsLen DEF AllSwitched, RunInv, RoutedInv, BindingIds, ActiveRun
  <2> QED BY <2>2, <2>3 DEF Stopping
<1>2. ASSUME NEW d \in Colors, NEW s \in Services,
             BecomeHealthy(d, s) \/ BecomeUnready(d, s) \/ Exit(d, s) \/ Restart(d, s)
      PROVE  Unrouted
  BY <1>2, HostStep DEF Removes, Standing
<1>3. CASE UNCHANGED box
  BY <1>3 DEF Removes, Standing
<1>4. CASE Deploy \/ DeployFails
  BY <1>4 DEF Deploy, DeployFails
<1> QED BY <1>1, <1>2, <1>3, <1>4
        DEF Next, Begin, Step, Host, vars, BeginInSync, BeginDeploy, BeginForced, StartDeploy,
            WaitHealthy, WaitFails, WaitTimesOut, CheckImages, SwitchBinding,
            writeDeployHash, Abort, Push

(***************************************************************************)
(* Traffic is cut over before the old color stops: outside of a deploy no  *)
(* container disappears from a color some route still names.               *)
(***************************************************************************)
THEOREM CutOverBeforeStop == Spec => RemovedColorUnrouted
<1>1. TypeOK /\ RunInv /\ [Next]_vars =>
        [run.pc # "deploy" =>
           \A c \in Colors : (\E s \in Services : s \in Standing(c) /\ s \notin Standing(c)')
                              => \A b \in BindingIds : routes[b].color # c]_vars
  BY RemovalStep DEF Removes
<1> QED BY <1>1, Invariants, PTL DEF Spec, RemovedColorUnrouted

LEMMA RecordStep ==
  ASSUME TypeOK, RunInv, [Next]_vars, hash' # hash
  PROVE  /\ hash' = run.want
         /\ run.keep \in vetted
         /\ \A s \in Services : box[run.keep][s].cfg = hash'
         /\ \A b \in BindingIds : routes[b].color = run.keep
         /\ \A c \in run.seen \ {run.keep} : Standing(c) = {}
<1>1. CASE writeDeployHash
  <2>1. run.pc = "record" /\ hash' = run.want
    BY <1>1 DEF writeDeployHash
  <2>2. \A c \in run.seen \ {run.keep} : Standing(c) = {}
    BY <2>1 DEF RunInv, StoppedInv, Standing, Absent
  <2> QED BY <2>1, <2>2 DEF RunInv, PathInv, DeployedInv, RoutedInv, VettedInv
<1>2. CASE UNCHANGED hash
  BY <1>2
<1> QED BY <1>1, <1>2
        DEF Next, Begin, Step, Host, vars, BeginInSync, BeginDeploy, BeginForced, StartDeploy,
            Deploy, DeployFails, WaitHealthy, WaitFails, WaitTimesOut, CheckImages,
            SwitchBinding, stopOtherColors, StopFails, Abort, Push,
            BecomeHealthy, BecomeUnready, Exit, Restart

(***************************************************************************)
(* The recorded fingerprint changes only at the end of a run whose color   *)
(* was vetted, carries all routes, and is the only one left standing.      *)
(***************************************************************************)
THEOREM RecordedFingerprintEarned == Spec => FingerprintEarned
<1>1. TypeOK /\ RunInv /\ [Next]_vars =>
        [hash' # hash =>
           /\ hash' = run.want
           /\ run.keep \in vetted
           /\ \A s \in Services : box[run.keep][s].cfg = hash'
           /\ \A b \in BindingIds : routes[b].color = run.keep
           /\ \A c \in run.seen \ {run.keep} : Standing(c) = {}]_vars
  BY RecordStep
<1> QED BY <1>1, Invariants, PTL DEF Spec, FingerprintEarned

-----------------------------------------------------------------------------
(* A converged node is left alone.                                         *)

SettledIn(c) ==
  /\ hash = desired
  /\ Serves(c) /\ runningByColor = {c}
  /\ run = Idle \/ (run.path = "inSync" /\ run.want = desired /\ run.keep = c)

\* What a run finds on a settled node: everything of color c is up and matches,
\* nothing of the other color is up, so the project is in sync in c.
LEMMA SettledView ==
  ASSUME TypeOK, NEW c \in Colors, SettledIn(c)
  PROVE  /\ Up(c) = Services
         /\ \A d \in Colors : d # c => Up(d) = {}
         /\ colorServing(desired) = c
         /\ InSync(desired)
<1>1. Up(c) = Services
  BY DEF SettledIn, Serves, Up
<1>2. \A d \in Colors : d # c => Up(d) = {}
  BY DEF SettledIn, runningByColor
<1>3. imagesMatch(c, desired)
  BY <1>1, ServicesAssumption DEF imagesMatch, SettledIn, Serves
<1>4. \A d \in Colors : d # c => ~imagesMatch(d, desired)
  BY <1>2 DEF imagesMatch
<1>5. {d \in Colors : imagesMatch(d, desired)} = {c}
  BY <1>3, <1>4
<1>6. colorServing(desired) = c
  BY <1>5 DEF colorServing, FirstColor, Colors
<1>7. c # None
  BY NoneAssumption DEF Colors
<1> QED BY <1>1, <1>2, <1>6, <1>7 DEF InSync, SettledIn

\* A run on a settled node only repeats what is there already.
LEMMA RunOnSettled ==
  ASSUME TypeOK, RunInv, NEW c \in Colors, SettledIn(c), BeginInSync \/ BeginDeploy \/ Step
  PROVE  SettledIn(c)' /\ UNCHANGED <<routes, hash>>
<1>1. CASE BeginInSync
  <2>1. run'.path = "inSync" /\ run'.want = desired /\ run'.keep = c
    BY <1>1, SettledView DEF BeginInSync
  <2> QED BY <1>1, <2>1 DEF BeginInSync, SettledIn, Serves, runningByColor, Up
<1>2. CASE BeginDeploy
  BY <1>2, SettledView DEF BeginDeploy
<1>3. CASE Step
  <2>1. run.pc \in {"deploy", "wait", "check", "switch", "record"}
    BY <1>3 DEF Step, Deploy, WaitHealthy, WaitFails, CheckImages, SwitchBinding,
       stopOtherColors, AllSwitched, writeDeployHash
  <2>2. run # Idle /\ run \in ActiveRun
    BY <2>1, ActiveRunType DEF Idle
  <2>3. run.path = "inSync" /\ run.want = desired /\ run.keep = c
    BY <2>2 DEF SettledIn
  <2>4. run.pc = "switch"
    BY <2>1, <2>3 DEF RunInv, PathInv
  <2>5. CASE SwitchBinding
    <3>1. Bindings[run.next] \in Services
      BY <2>5, BindingsAssumption DEF SwitchBinding, BindingIds
    <3>2. routes[run.next] = [color |-> c, live |-> TRUE]
      BY <2>5 DEF SwitchBinding, SettledIn, Serves
    <3>3. routes' = routes
      BY <2>5, <2>3, <3>1, <3>2, SettledView DEF SwitchBinding, TypeOK
    <3>4. run'.path = "inSync" /\ run'.want = desired /\ run'.keep = c
      BY <2>5, <2>2, <2>3 DEF SwitchBinding, ActiveRun
    <3> QED BY <2>5, <3>3, <3>4 DEF SwitchBinding, SettledIn, Serves, runningByColor, Up
  <2>6. CASE stopOtherColors
    <3>1. run' = Idle
      BY <2>6, <2>3 DEF stopOtherColors, AfterStop
    <3>2. box'[c] = box[c]
      BY <2>6, <2>3 DEF stopOtherColors, Stopping
    <3>3. Up(c)' = Services
      BY <3>2, SettledView DEF Up
    <3>4. \A d \in Colors : d # c => Up(d)' = {}
      <4> SUFFICES ASSUME NEW d \in Colors, d # c, NEW s \in Services,
                          box'[d][s].st \in {"unready", "healthy"}
                   PROVE  FALSE
        BY DEF Up
      <4>1. CASE d \in Stopping
        BY <2>6, <4>1 DEF stopOtherColors, Absent
      <4>2. CASE d \notin Stopping
        BY <2>6, <4>2, SettledView DEF stopOtherColors, Up
      <4> QED BY <4>1, <4>2
    <3>5. runningByColor' = {c}
      BY <3>3, <3>4, ServicesAssumption DEF runningByColor
    <3> QED BY <2>6, <3>1, <3>2, <3>5 DEF stopOtherColors, SettledIn, Serves
  <2> QED BY <1>3, <2>4, <2>5, <2>6
          DEF Step, Deploy, WaitHealthy, WaitFails, CheckImages, writeDeployHash
<1> QED BY <1>1, <1>2, <1>3

LEMMA SettledStep ==
  ASSUME TypeOK, RunInv, [Next]_vars, Settled, operator' = operator, faults' = faults
  PROVE  Settled' /\ UNCHANGED <<routes, hash>>
<1>1. PICK c \in Colors : SettledIn(c)
  BY DEF Settled, SettledIn
<1>2. SettledIn(c)' /\ UNCHANGED <<routes, hash>>
  <2>1. CASE Begin \/ Step
    BY <1>1, <2>1, RunOnSettled DEF Begin
  <2>2. CASE BeginForced \/ \E k \in Configs : Push(k)
    <3>1. operator' = operator + 1 /\ operator \in Nat
      BY <2>2, BoundsAssumption DEF BeginForced, Push, TypeOK
    <3> QED BY <3>1
  <2>3. CASE WaitTimesOut \/ DeployFails \/ StopFails \/ Abort
    <3>1. faults' = faults + 1 /\ faults \in Nat
      BY <2>3, BoundsAssumption DEF WaitTimesOut, DeployFails, StopFails, Abort, Fault, TypeOK
    <3> QED BY <3>1
  <2>4. ASSUME NEW d \in Colors, NEW s \in Services,
               BecomeUnready(d, s) \/ Exit(d, s) \/ Restart(d, s)
        PROVE  FALSE
    <3>1. faults' = faults + 1 /\ faults \in Nat
      BY <2>4, BoundsAssumption DEF BecomeUnready, Exit, Restart, Fault, TypeOK
    <3> QED BY <3>1
  <2>5. ASSUME NEW d \in Colors, NEW s \in Services, BecomeHealthy(d, s) PROVE FALSE
    <3>1. d # c
      BY <1>1, <2>5 DEF BecomeHealthy, SettledIn, Serves
    <3>2. s \in Up(d)
      BY <2>5 DEF BecomeHealthy, Up
    <3> QED BY <1>1, <3>1, <3>2, SettledView
  <2>6. CASE UNCHANGED vars
    BY <1>1, <2>6 DEF vars, SettledIn, Serves, runningByColor, Up
  <2> QED BY <2>1, <2>2, <2>3, <2>4, <2>5, <2>6 DEF Next, Host
<1> QED BY <1>2 DEF Settled, SettledIn

(***************************************************************************)
(* A converged node is left as it is: no run that nobody forced redeploys  *)
(* it, stops its color or moves a route, until an operator or a fault      *)
(* changes something.                                                      *)
(***************************************************************************)
THEOREM ConvergedLeftAlone == Spec => StaysSettled
<1>1. TypeOK /\ RunInv /\ [Next]_vars =>
        [Settled /\ operator' = operator /\ faults' = faults
           => Settled' /\ UNCHANGED <<routes, hash>>]_vars
  BY SettledStep
<1> QED BY <1>1, Invariants, PTL DEF Spec, StaysSettled

-----------------------------------------------------------------------------
(* Where traffic goes.                                                     *)

LEMMA TrafficStep ==
  ASSUME TypeOK, RunInv, [Next]_vars, run.path = "deploy",
         NEW b \in BindingIds, routes'[b].color # routes[b].color
  PROVE  /\ routes'[b].color = run.keep /\ run.keep \in vetted
         /\ \A s \in Services : box[run.keep][s].cfg = run.want
<1>1. CASE SwitchBinding
  <2>1. run.pc = "switch" /\ routes'[b].color = run.keep
    BY <1>1 DEF SwitchBinding, TypeOK
  <2> QED BY <2>1 DEF RunInv, VettedInv, DeployedInv
<1>2. CASE Deploy \/ DeployFails
  <2>1. run.keep \in Colors
    BY <1>2, ActiveRunType DEF Deploy, DeployFails, ActiveRun
  <2>2. \E S : routes' = Disconnect(run.keep, S)
    BY <1>2 DEF Deploy, DeployFails
  <2> QED BY <2>1, <2>2, DisconnectColor
<1>3. ASSUME NEW c \in Colors, NEW s \in Services,
             BecomeHealthy(c, s) \/ BecomeUnready(c, s) \/ Exit(c, s) \/ Restart(c, s)
      PROVE  FALSE
  BY <1>3, HostStep
<1>4. CASE UNCHANGED routes
  BY <1>4
<1> QED BY <1>1, <1>2, <1>3, <1>4
        DEF Next, Begin, Step, Host, vars, BeginInSync, BeginDeploy, BeginForced, StartDeploy,
            WaitHealthy, WaitFails, WaitTimesOut, CheckImages, stopOtherColors, StopFails,
            writeDeployHash, Abort, Push

(***************************************************************************)
(* A deploy moves a route only to the color it deployed, and only after    *)
(* that color was healthy with the desired images in this run.             *)
(***************************************************************************)
THEOREM TrafficFollowsHealth == Spec => TrafficMovesToVetted
<1>1. TypeOK /\ RunInv /\ [Next]_vars =>
        [\A b \in BindingIds :
           run.path = "deploy" /\ routes'[b].color # routes[b].color =>
             /\ routes'[b].color = run.keep /\ run.keep \in vetted
             /\ \A s \in Services : box[run.keep][s].cfg = run.want]_vars
  BY TrafficStep
<1> QED BY <1>1, Invariants, PTL DEF Spec, TrafficMovesToVetted

-----------------------------------------------------------------------------
(***************************************************************************)
(* When a deploy may recreate the color that serves the traffic. A live    *)
(* route names a container that runs; so when a deploy finds one running   *)
(* color at most, the live routes are on that one, and the deploy takes    *)
(* the other.                                                              *)
(***************************************************************************)
OneColorRuns == \A c, d \in runningByColor : c = d
DeploysBesideOneColor == BeginDeploy \/ BeginForced => OneColorRuns

LiveRoutesRun ==
  \A b \in BindingIds : routes[b].live =>
    routes[b].color \in Colors /\ Bindings[b] \in Up(routes[b].color)
TargetNotLive ==
  run.pc = "deploy" => \A b \in BindingIds : routes[b].live => routes[b].color # run.keep

LEMMA InitLive == Init => LiveRoutesRun /\ TargetNotLive
BY DEF Init, LiveRoutesRun, TargetNotLive, Idle

LEMMA DisconnectLive ==
  ASSUME TypeOK, NEW c \in Colors, NEW S, NEW b \in BindingIds, Disconnect(c, S)[b].live
  PROVE  routes[b].live /\ ~(routes[b].color = c /\ Bindings[b] \in S)
         /\ Disconnect(c, S)[b].color = routes[b].color
BY DEF TypeOK, Disconnect, Route

LEMMA NextLive ==
  TypeOK /\ RunInv /\ LiveRoutesRun /\ [Next]_vars => LiveRoutesRun'
<1> SUFFICES ASSUME TypeOK, RunInv, LiveRoutesRun, [Next]_vars,
                    NEW b \in BindingIds, routes'[b].live
             PROVE  routes'[b].color \in Colors /\ Bindings[b] \in Up(routes[b].color)'
  BY DEF LiveRoutesRun, Up
<1> DEFINE Runs(c) == c \in Colors /\ box'[c][Bindings[b]].st \in {"unready", "healthy"}
<1>s. Bindings[b] \in Services
  BY BindingsAssumption DEF BindingIds
<1> SUFFICES Runs(routes'[b].color)
  BY <1>s DEF Up
<1>o. routes[b].live =>
        routes[b].color \in Colors /\ box[routes[b].color][Bindings[b]].st \in {"unready", "healthy"}
  BY DEF LiveRoutesRun, Up
<1>1. CASE Deploy
  <2>1. run.keep \in Colors
    BY <1>1, ActiveRunType DEF Deploy, ActiveRun
  <2>2. routes[b].live /\ routes[b].color # run.keep /\ routes'[b].color = routes[b].color
    BY <1>1, <1>s, <2>1, DisconnectLive DEF Deploy
  <2>3. box'[routes[b].color] = box[routes[b].color]
    BY <1>1, <2>2, <1>o DEF Deploy, TypeOK
  <2> QED BY <1>o, <2>2, <2>3
<1>2. CASE DeployFails
  <2>1. run.keep \in Colors
    BY <1>2, ActiveRunType DEF DeployFails, ActiveRun
  <2>2. PICK made \in SUBSET Services, lost \in SUBSET Services :
          /\ box' = [box EXCEPT ![run.keep] =
                       [s \in Services |->
                          IF s \in made THEN [cfg |-> run.want, st |-> "unready"]
                          ELSE IF s \in lost THEN Absent ELSE @[s]]]
          /\ routes' = Disconnect(run.keep, made \cup lost)
    BY <1>2 DEF DeployFails
  <2>3. routes[b].live /\ routes'[b].color = routes[b].color
        /\ ~(routes[b].color = run.keep /\ Bindings[b] \in made \cup lost)
    BY <2>1, <2>2, DisconnectLive
  <2>4. box'[routes[b].color][Bindings[b]] = box[routes[b].color][Bindings[b]]
    BY <1>s, <1>o, <2>2, <2>3 DEF TypeOK
  <2> QED BY <1>o, <2>3, <2>4
<1>3. CASE SwitchBinding
  <2>1. run.keep \in Colors /\ box' = box
    BY <1>3, ActiveRunType DEF SwitchBinding, ActiveRun
  <2>2. CASE b = run.next
    <3>1. routes'[b] = [color |-> run.keep, live |-> Bindings[b] \in Up(run.keep)]
      BY <1>3, <2>2 DEF SwitchBinding, TypeOK
    <3>2. ASSUME Bindings[b] \notin Up(run.keep) PROVE FALSE
      <4>1. (Bindings[b] \in Up(run.keep)) = FALSE
        BY <3>2
      <4>2. routes'[b] = [color |-> run.keep, live |-> FALSE]
        BY ONLY <3>1, <4>1, Zenon
      <4> QED BY <4>2
    <3> QED BY <2>1, <3>1, <3>2 DEF Up
  <2>3. CASE b # run.next
    BY <1>3, <1>o, <2>1, <2>3 DEF SwitchBinding, TypeOK
  <2> QED BY <2>2, <2>3
<1>4. CASE stopOtherColors \/ StopFails
  <2>1. run \in ActiveRun /\ AllSwitched /\ routes' = routes
    BY <1>4, ActiveRunType DEF stopOtherColors, StopFails, AllSwitched
  <2>2. routes[b].color = run.keep
    BY <2>1, BindingsLen DEF AllSwitched, RunInv, RoutedInv, BindingIds, ActiveRun
  <2>3. box'[run.keep] = box[run.keep]
    BY <1>4, <2>1 DEF stopOtherColors, StopFails, Stopping, TypeOK, ActiveRun
  <2> QED BY <1>o, <2>1, <2>2, <2>3
<1>5. ASSUME NEW c \in Colors, NEW s \in Services,
             BecomeHealthy(c, s) \/ BecomeUnready(c, s) \/ Restart(c, s)
      PROVE  Runs(routes'[b].color)
  <2>1. PICK t \in {"unready", "healthy"} : box' = [box EXCEPT ![c][s].st = t]
    BY <1>5 DEF BecomeHealthy, BecomeUnready, Restart
  <2>2. routes' = routes /\ box[c][s] \in Container /\ box[c][s].st # "absent"
    BY <1>5 DEF BecomeHealthy, BecomeUnready, Restart, TypeOK
  <2>3. [box[c][s] EXCEPT !.st = t].st = t
    BY <2>2 DEF Container, Absent
  <2>4. \A d \in Colors, u \in Services :
          box'[d][u].st = IF d = c /\ u = s THEN t ELSE box[d][u].st
    BY <2>1, <2>3 DEF TypeOK
  <2> QED BY <1>o, <1>s, <2>2, <2>4
<1>6. ASSUME NEW c \in Colors, NEW s \in Services, Exit(c, s)
      PROVE  Runs(routes'[b].color)
  <2>1. routes[b].live /\ ~(routes[b].color = c /\ Bindings[b] = s)
        /\ routes'[b].color = routes[b].color
    BY <1>6, DisconnectLive DEF Exit
  <2>2. box'[routes[b].color][Bindings[b]] = box[routes[b].color][Bindings[b]]
    BY <1>6, <1>s, <1>o, <2>1 DEF Exit, TypeOK
  <2> QED BY <1>o, <2>1, <2>2
<1>7. CASE UNCHANGED <<box, routes>>
  BY <1>7, <1>o
<1> QED BY <1>1, <1>2, <1>3, <1>4, <1>5, <1>6, <1>7
        DEF Next, Begin, Step, Host, vars, BeginInSync, BeginDeploy, BeginForced, StartDeploy,
            WaitHealthy, WaitFails, WaitTimesOut, CheckImages, writeDeployHash, Abort, Push

LEMMA NextTarget ==
  TypeOK /\ LiveRoutesRun /\ TargetNotLive /\ [Next]_vars /\ DeploysBesideOneColor
    => TargetNotLive'
<1> SUFFICES ASSUME TypeOK, LiveRoutesRun, TargetNotLive, [Next]_vars, DeploysBesideOneColor,
                    run'.pc = "deploy", NEW b \in BindingIds, routes'[b].live
             PROVE  routes'[b].color # run'.keep
  BY DEF TargetNotLive
<1>1. CASE BeginDeploy \/ BeginForced
  <2>1. routes' = routes /\ run'.keep = OtherColor(currentColor) /\ OneColorRuns
    BY <1>1 DEF BeginDeploy, BeginForced, StartDeploy, DeploysBesideOneColor
  <2>2. routes[b].color \in runningByColor
    BY <2>1 DEF LiveRoutesRun, runningByColor
  <2>3. currentColor = routes[b].color
    BY <2>1, <2>2 DEF OneColorRuns, currentColor, FirstColor, runningByColor, Colors
  <2>4. routes[b].color \in Colors
    BY <2>2 DEF runningByColor
  <2> QED BY <2>1, <2>3, <2>4 DEF OtherColor, Colors
<1>2. ASSUME NEW c \in Colors, NEW s \in Services,
             BecomeHealthy(c, s) \/ BecomeUnready(c, s) \/ Exit(c, s) \/ Restart(c, s)
      PROVE  routes'[b].color # run'.keep
  <2>1. run' = run /\ routes[b].live /\ routes'[b].color = routes[b].color
    BY <1>2, DisconnectLive DEF BecomeHealthy, BecomeUnready, Exit, Restart
  <2> QED BY <2>1 DEF TargetNotLive
<1>3. CASE UNCHANGED <<run, routes>>
  BY <1>3 DEF TargetNotLive
<1>4. CASE run'.pc = run.pc /\ run.pc = "deploy"
  BY <1>2, <1>3, <1>4, ActiveRunType
     DEF ActiveRun, Next, Begin, Step, Host, vars, BeginInSync, BeginDeploy, BeginForced,
         StartDeploy, Idle, Deploy, DeployFails, WaitHealthy, WaitFails, WaitTimesOut, CheckImages,
         SwitchBinding, stopOtherColors, StopFails, AllSwitched, writeDeployHash, Abort,
         Fails, Push
<1>5. CASE run.pc # "deploy"
  <2>1. ASSUME WaitHealthy \/ CheckImages \/ SwitchBinding \/ stopOtherColors
        PROVE  FALSE
    <3>1. run.pc # "idle"
      BY <2>1 DEF WaitHealthy, CheckImages, SwitchBinding, stopOtherColors, AllSwitched
    <3>2. run \in ActiveRun
      BY <3>1, ActiveRunType
    <3> QED BY <1>5, <2>1, <3>2
            DEF WaitHealthy, CheckImages, SwitchBinding, stopOtherColors, AllSwitched,
                AfterStop, Fails, Idle, ActiveRun
  <2> QED BY <1>1, <1>2, <1>3, <1>5, <2>1
          DEF Next, Begin, Step, Host, vars, BeginInSync, Deploy, DeployFails,
              WaitFails, WaitTimesOut, StopFails, writeDeployHash, Abort, Fails, Idle, Push
<1>6. run'.pc = run.pc \/ run.pc # "deploy"
  OBVIOUS
<1> QED BY <1>4, <1>5, <1>6

LEMMA DeployStep ==
  ASSUME TypeOK, TargetNotLive, [Next]_vars, run.pc = "deploy",
         NEW b \in BindingIds, routes[b].live, routes[b].color = run.keep
  PROVE  FALSE
BY DEF TargetNotLive

(***************************************************************************)
(* "always deploys the new version into the slot the project is not        *)
(* currently running in" (runtime/docker.go) is true of every deploy that  *)
(* starts while at most one color has running containers, whatever fails   *)
(* or is cut off. The code lets a failed deploy leave two.                 *)
(***************************************************************************)
THEOREM LiveColorSparedBesideOneColor ==
  Spec /\ [][DeploysBesideOneColor]_vars => LiveColorNotRedeployed
<1>1. Init => LiveRoutesRun /\ TargetNotLive
  BY InitLive
<1>2. TypeOK /\ RunInv /\ LiveRoutesRun /\ TargetNotLive
        /\ [Next]_vars /\ [DeploysBesideOneColor]_vars
        => (LiveRoutesRun /\ TargetNotLive)'
  <2>1. ASSUME UNCHANGED vars, LiveRoutesRun, TargetNotLive
        PROVE  (LiveRoutesRun /\ TargetNotLive)'
    BY <2>1 DEF vars, LiveRoutesRun, TargetNotLive, Up
  <2> QED BY <2>1, NextLive, NextTarget
<1>3. TypeOK /\ TargetNotLive /\ [Next]_vars =>
        [run.pc = "deploy" =>
           \A b \in BindingIds : routes[b].live /\ routes[b].color = run.keep
                                   => UNCHANGED box[run.keep]]_vars
  BY DeployStep
<1> QED BY <1>1, <1>2, <1>3, Invariants, PTL DEF Spec, LiveColorNotRedeployed
=============================================================================
