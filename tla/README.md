# kompensator in TLA+

kompensator is a GitOps agent for Docker Compose. Deployment repositories say
which images, variables, secrets and files an environment wants and on which
node each part runs; `kompensator reconcile`, started by cron on every node (or
by a controller over ssh), pulls the repository and makes the node agree.
This directory models the reconcile core, the pipeline around it and the
controller's commands that change the repositories and the nodes, checks the models
with TLC and proves the main safety properties with TLAPS. Paths are
relative to `src/`; the line-by-line correspondence is the `map` of
`PROJECT.json`.

## Inventory

| Component | State it keeps | Operations | Hard behaviour |
|---|---|---|---|
| Blue/Green project (`reconcileProject`, `blueGreenProject`, `runtime`, `proxy`) | containers of two colors, a proxy file per binding, a recorded fingerprint | decide in sync, deploy idle color, wait, check, switch, stop, record | any call fails or the process dies between any two; containers change during the five-minute wait; retries start from what failed deploys left |
| Run lock and pause (`lock`, `pause.go`, `pause`/`resume`) | flock, marker file with expiry | acquire, check pause, clear expired, set, probe, resume | several processes and an operator interleave on a file without atomic replace |
| Delivery (`filesecrets.go`, `managedfiles.go`, `mounts.go`, `recreateProject`) | host file, hashes in the status document, what the container has loaded | write, hook, record, recreate, signal | hashes are written one by one; cut-off runs; reverts; vanished files |
| Status and write-back (`finalizeNodeStatus`, `publishStatus`, `gitsync`) | local document, working tree of the status repository, status branch | finalise, compare, copy, push | failed pushes, commits that arrive meanwhile, recreated homes |
| verify (`verify.go`) | none of its own | pick nodes, fetch each document, compare, poll | reads documents of different moments, from a checkout that may be old |
| Placement, node run, prune (`runNode`, `reconcileRepo`, `pruneOrphans`, `repo.go`) | containers per unit | deploy what is placed, tear down what is not | three places decide what belongs to a node; failures must stay local |
| Controller (`runController`) | none | pull, pick targets, trigger one node after the other | pushes, busy nodes and cron ticks in between |
| Secrets and recipients (`admin.go`, `secrets.go`) | encrypted files, keys in the homes | set, rekey, decrypt in a run | recipients change by commands, and by others' pushes, that do not rekey |
| Node administration (`admin.go`, `cron.go`) | inventory, node homes, crontabs | provision, register, deregister, tear down | several systems changed in sequence, no transaction, next to running agents |
| Scaffolding (`scaffold.go`, `gitsync.CommitPush`) | the controller's checkout: commit, index, files | pull, mutate, validate, show or push, revert | other people push; pushes fail after the commit; killed commands leave files |
| Variables (`repo.go`, `buildEnv`, `Deploy`) | none | fold scopes, secrets, built-ins | precedence; maps visited in any order |
| Names (`runtime.Names`) | none | compose project names, teardown prefix | prefixes that match another node's projects |
| CLI, completion, config, check, version, YAML editing | none | parse, render, report | what the effects of YAML edits and loading are, `RepoEdit` has |

They interact as follows. cron and the controller start **runs**; a run takes the home's
lock and looks at the pause (`PauseGate`), goes through its environments and
the projects placed on the node (`Fleet`), for each project either
Blue/Green (`BlueGreen`) or recreate with its files and mounts (`Delivery`), and
records and publishes the outcome, which verify reads (`Pipeline`). What a project's
containers see as environment is a function of the repository (`Variables`). The
repository itself is changed by people and by the controller's commands (`RepoEdit`),
and the nodes by node add, node remove and the secrets commands (`NodeAdmin`). The models are
separate modules because they share little state: runs of one home are serial by
the lock, which `PauseGate` establishes (it implements `RunGate`) and the others assume; the models of projects tell `Fleet` only
that a deploy succeeds or fails, possibly having started something, and `Fleet`
tells `Pipeline` only how `reconcileRepo` ended.

What makes the components correct, in one line each:

- Blue/Green: traffic never points at containers that are removed, a fingerprint
  is recorded only when earned, the node heals and then rests.
- Lock and pause: one run at a time, a paused home is left alone, GitOps comes back.
- Delivery: what the document calls delivered has reached the running container.
- Write-back and verify: OK means deployed on every node asked.
- Placement: deploy, prune and the controller agree on what belongs where.
- Repository commands: what is published is whole and loads; a failure does not block the next command.
- Nodes: a registered node has its home and key, can read what it runs, and is gone once removed.
- Variables: the narrowest scope wins, images cannot be broken, one repository gives one environment.

## Modules

| Module | What it is |
|---|---|
| `BlueGreen` | one Blue/Green project on one node, with host faults and operator pushes |
| `PauseGate` | lock, marker, runs, status commands, operator, clock |
| `RunGate` | the abstract specification of lock and pause: runs work one at a time, a hold begins in an idle moment and admits only overriding runs. `PauseGate` implements it, and `Fleet`, `BlueGreen`, `Delivery` and `Pipeline`, which have one run per home, rest on it |
| `Delivery` | one file or secret with its hook, one mounted directory, the recreate project that consumes both |
| `Pipeline` | every node's run around `reconcileRepo`, its documents and branch, and verify |
| `StatusContract` | the abstract specification: a commit is confirmed only when every node asked has reconciled it. `Pipeline` implements it |
| `Fleet` | placement, node runs, prune and the controller |
| `RepoEdit` | the controller's checkout under `withRepo`, `Sync` and `CommitPush`, and the branch that others push to |
| `NodeAdmin` | inventory, placement, recipients, homes, crontabs and containers under the controller's commands and the agents |
| `Variables` | the scopes of `ResolveVariables`, `buildEnv` and the environment of `Deploy`, as functions; no state |
| `MC*` | values of the constants for TLC |
| `*Proofs` | theorems about the module they are named after |

Actions carry the names of the functions they translate (`stopOtherColors`,
`writeDeployHash`, `runReload`, `finalizeNodeStatus`, `triggerReconcile`, ...). A
function is one action when nothing can come between its effects and several when
something can: `blueGreenProject` is the sequence `Begin...`, `Deploy`,
`WaitHealthy`, `CheckImages`, one `SwitchBinding` per binding, `stopOtherColors`,
`writeDeployHash`; `SetPause` is `OpenMarker` and `WriteMarker`, as
`os.WriteFile` truncates and then writes; `isPaused` is `CheckPause` and
`ClearExpired`, as it reads the marker and removes it by name later.

### BlueGreen

`box[c][s]` is the container of service `s` in color `c` with the fingerprint it
was started from; `routes[b]` is the proxy file of binding `b`: the color it names
and whether the addresses in it are of containers that run; `hash` is
`projects.<key>.configHash` of the status document. A run reads the branch head and the
running colors once (`seen`) and decides on that for the rest of its life.
`vetted` is a ghost: colors found healthy with matching images since their last
deploy. `Image` maps fingerprints to image references, so that a change of a
variable or a mounted file alone (same images, other fingerprint) is an instance. Faults:
compose up or down failing halfway, deadlines missed, containers that turn
unhealthy, exit and restart, a run that fails or is killed before any call.

### PauseGate

`pc[r]` is a reconcile process, `lock` the flock, `marker` the file: absent, empty
(created or truncated) or a pause with its expiry, `op` the operator at the pause
command, and whether the file it has open still has a name. A run that does not get the
lock ends at once and is left out.

### Delivery

Contents are versions and a content hash is its version. `disk` is the host file,
`checkout` the mounted directory, `recorded` the three hashes in the status
document, `con` the container and the versions it has loaded (a container loads
everything when it starts, the file through a command hook, the mount on a signal). Secrets and
managed files have the same protocol and share the model.

### Pipeline and StatusContract

`doc`, `tree` and `remote` are a node's document at its three places: the
home, the working tree of the private status repository and the branch. `reconciled` is
a ghost. `reconcileRepo` ends "ok", "failed" (some project was counted) or "aborted"
(an error outside of a project). verify takes its nodes from `checkout` and its
commit from there or from the branch tip (`RunHome`).

### Fleet

A layout is the content of the branch: which environments it defines, which stacks an environment lists,
with stack and project pins, and whether a stack has a managed proxy. `Work` is
what `reconcileRepo` goes through, `desiredIdentities` what prune compares with,
`reconcileTargets` what the controller triggers: three functions of the code that
must agree. `run[n]` holds the node's lock and the checkout its environment was
pulled at. cron's run is `reconcile` without arguments: every environment the repo
defines, no prune (`BeginAll`); operators run one environment, with prune, whole or
narrowed (`BeginOne`). Abstractions: one followed repo; stacks and projects in
any order, the proxy last in its stack; a `stack.yml` that is the same in all layouts of the
instance; every project has a desired state; no shared networks, volumes or locations; the
controller triggers whole environments.

### RepoEdit

Six files (`stack.yml`, a compose file, two `env.yml`, a state file, a secrets file) with the few
contents the code tells apart. A command is what it requires and what it writes (`change`, with `Keep` for the
files it leaves alone); `withRepo` is its way through `sync`, `check`, `write`, `diff`/`reset`, `undo`, `add`,
`commit` and `push`, with the files written one at a time. `head`, `index` and `work` are git's three trees in the
checkout, because pull, add, status, commit and checkout differ in which of them they compare; `owed` is the union of the
commits that wait for a push, replayed over `remote` by `pull --rebase`. What git does was checked against
git itself: a pull is refused by any tracked or staged change and by an untracked file it would overwrite; `git add`
fails as a whole when one path matches nothing; an empty `git status` ends `CommitPush` before the push;
a conflict leaves the rebase unfinished and every later pull fails, until someone deletes the checkout (`clone`).
Two changes of one file conflict. A rebase that needs a git identity the host does not have ends
like a conflict and is not a case of its own.

### NodeAdmin

`inv`, `pins` and `cipher` are the branch: inventory, nodes of each environment's stack, and for whom its secrets file
is encrypted. `desk` is the same in the controller's checkout, with commits not pushed. `home[p]` is what `node.yml`
and `age.key` of a location say, `cron` the homes with a line in their host's crontab, `run[p]` the run in a home and the
environments it has yet to do. Commands go through their calls in the code's order; each may fail or be killed
(`Abort`), others change placements at any time (`Place`), and the agents run meanwhile. The names and paths are model values; what matters
of their text is `Extends` (a node name that is another one, a dash and more, so that
`TeardownPrefix` matches both) and `Continues` (a home's path that begins with another's, so that `grep -F` matches
both). A node follows one repo; several stacks and secret files of an environment behave like its one.
An edit that was not committed is left to `RepoEdit`.

### Variables

A map is a function, a variable's name the pair of what comes before `_IMAGE`/`_TAG` and that suffix. Where Go visits a
map in no particular order and it matters, the result is the set of possible maps (`buildEnv`).
`MCFleet` instantiates the module and evaluates, as assumptions, that `ResolveVariables` agrees with "the narrowest of the
seven scopes that sets it" for every choice of scopes, and that two services with one variable
name have two environments.

## Runs

All runs together take a few minutes with two workers, the longest, `MCNodeAdmin`, about a minute and a half.

| Run | Shows |
|---|---|
| `MCBlueGreen` | `RemovedColorUnrouted`, `FingerprintEarned`, `TrafficMovesToVetted` (a deploy moves traffic only to what it found healthy) and, under fairness, `Converges` (self-healing) and `StaysSettled` (a converged node is left alone) |
| `MCPauseGate` | `AtMostOneRun`, `HeldBack`, `KeepsGate` (implements `RunGate`), and `GitOpsResumes`: runs work again and again unless a pause is unlimited or its marker unreadable |
| `MCDelivery` | `DeliveredBeforeRecorded` (file and mounted directory), `SkippedFileIsDesired`, `Converges`, `StaysSettled` for both kinds of hook |
| `MCPipeline` | `KeepsContract` (implements `StatusContract`), `MirrorsLocal`, `SuccessIsSeen` |
| `MCFleet` | `DeploysOnlyDesired`, `PruneSpares`, `PlacedUnitsRun`, `ControllerReportsDone`; the assumptions about `Variables` |
| `MCRepoEdit` | `PushesWholeCommands`, `PublishesWhatLoads`, `EndsClean`, `SuccessIsCommitted` |
| `MCNodeAdmin` | `RegisteredIsProvisioned`, `EncryptedForRunners`, `RemovedIsGone` and, under fairness, `NodesServe` |

Five runs show where the code does not do what its own comments or documents say.
Each checks one property and TLC finds it violated:

| Run | The document | What the code does |
|---|---|---|
| `MCLiveColorNotRedeployed` | `runtime/docker.go:68`: a deploy goes to the slot not currently running | green serves, a deploy to blue fails and is left running; the next tick takes blue for the current color and recreates green |
| `MCPauseLost` | `pause.go:125`: an observed idle moment cannot be followed by a run that ignores the pause | a run that read the expired marker removes the fresh one by name; the probe then finds the home idle, and the next cron run works |
| `MCSuccessIsPushed` | `scaffold.go:608`: state set writes the image and pushes it, the call of a CI pipeline | the push fails, the commit stays; the repeated command rebases it, finds nothing changed and reports success without a push |
| `MCSiblingCron` | `cron.go:56`: drops the home's line and leaves the others untouched | the line is found by a substring, so `.../kompensator` takes along `.../kompensator2`, the second home that node add suggests |
| `MCHealthyOnAbort` | `reconcile.go:248`: a partial failure is recorded as unhealthy | an error outside of a project counts no failure, the document says healthy |

The proofs say how far each of these claims reaches: what must hold beyond the code for the claim to be true, for any
constants. Nothing else stands in its way.

| Claim | Holds when | Theorem |
|---|---|---|
| `LiveColorNotRedeployed` | every deploy starts with at most one color running | `LiveColorSparedBesideOneColor` |
| `IdleMeansHeldBack` | clearing an expired pause removes nothing but an expired marker | `IdleHoldsIfClearingLooksAgain` |
| `SuccessIsPushed` | the early return of `CommitPush` finds no commit that waits for a push | `SuccessPushedIfNothingOwed` |
| `OtherEntriesUntouched` | no home's path continues that of another on its host | `EntriesUntouchedInSeparateHomes` |
| `HealthyMeansReconciled` | `reconcileRepo` ends by success or a counted failure | `HealthyReconciled` |

Other disagreements are known and have no run. TLC shows each with the constants given, where there are some:

- `reconcile.go:1147` waits for the color to become healthy and then points the proxy at it, which
  `TrafficMovesToVetted` states for deploys. The in-sync path (`reconcile.go:1162`) does not wait: after a failed config-only
  deploy is reverted, it picks the unhealthy color by its images and stops the healthy one (`BlueGreen` with
  `Image <- SharedImages`, one service, no faults).
- `SkippedFileIsDesired` (`Delivery`; `Reverts = TRUE`, one fault). `managedfiles.go:32` writes only when the
  value differs from what is on disk; written, cut off and reverted, the old recorded hash matches and the other content stays.
  On a branch that only goes forward the comment is true, though nothing compares the disk (`SkippedIsDesired`).
- `FaithfulMirror` (`Pipeline`, `FairSpec`; one commit, one fault, `Outcomes = {"ok"}`). `reconcile.go:388` promises
  a faithful mirror of the local status; a failed push is not repeated until the status changes. That it is made up for
  then, and that a node in the always mode repeats it anyway, is `MirrorsLocal`.
- `EveryNodeReports` (`Pipeline`; two commits, one verify). `verify.go:9` polls until every node reports the
  commit; the nodes come from the checkout, the commit from the tip.
  True when each verify starts on a checkout that knows all the nodes of the tip (`EveryNodeCovered`).
- `repo.go:199` and `docs/repository-layout.md:171` count `NODE_NAME` among the built-ins that always win. `Deploy`
  (`docker.go:363`) puts it before the declared variables, and the last of equal names counts: proved as
  `DeclaredNodeNameWins`.
- Services whose names differ only in what `EnvVarName` folds share one variable, and the order of a Go map decides anew in each run
  whose image it has (`reconcile.go:1409`): the fingerprint changes and the project is redeployed again and again.

The passing runs are arranged around these: `MCBlueGreen` gives every fingerprint images of its
own: with shared images `Converges` fails, because the in-sync path leaves an
unhealthy color "in sync" for good (the other properties hold with shared images as well, as the proofs
show), `MCDelivery` has no reverts, `MCPipeline` has no aborted
reconcile. `StartedWithFile`, `Unblocked`, `late` and the controller's `clean` are the other
qualifications, each at its definition with the code behaviour behind it:

- `StartedWithFile`: a consumer that restarted while its file was gone has
  nothing to reread, and a cut-off run does not remember that it owes a hook.
- `Unblocked`: `Run` stops at the first environment that fails, so a broken
  unit starves the environments sorted after its own.
- Untracked files (`PublishesWhatLoads`): a killed `stack add` leaves a `stack.yml` that later commands
  load from the checkout although it is not in the branch.
- `Loads(head)` (`EndsClean`): in a repo that does not load, `project remove` of a project without its compose file fails in `git add`
  and rolls nothing back.
- `said # "killed"` (`EndsClean`): a command cut off while it writes, adds or commits (killed, or a call that fails for its
  own reasons) rolls nothing back; the tracked leftover stops every later pull of that checkout.
- `~moved` (`EncryptedForRunners`): a placement pushed after the command pulled is not its to see. A node add cut off between two
  environments leaves the later ones closed to the new node, and placing a stack on a node does not re-encrypt its secrets
  (`scaffold.go:251`): both last until a rekey, and what a rekey has done is right whatever came before it.
- `late` (`RemovedIsGone`): `NodeRemove` takes no lock. What a run in progress deploys before the command lists the projects is
  found and torn down; what it deploys after that stays.
- `clean`: an agent that finds its home locked or paused skips and exits with
  success; prune failures are logged only; a push can come in between.

### Bounds, and why they are enough

- `MCBlueGreen`: two services, each with a binding, so that a run can stop
  between two switches; three fingerprints, one of which never becomes healthy; three
  operator actions (push, push back, force) and two faults. Shortest violations of the
  mutants and of the two violated properties need at most three pushes and two faults.
- `MCPauseGate`: two runs and one reader contend for the lock; pauses of one and
  two ticks and without end; three pauses, so that one can be replaced while the
  first expires; two kills.
- `MCDelivery`: three versions of each part, one unfit config, three pushes or forced runs,
  two faults, both hooks: enough to cut off a run twice around one delivery.
- `MCPipeline`: two nodes, one in each publish mode, two commits of which the
  second adds a node, one fault, one verify command. Nodes do not interact except
  through verify, so a third adds interleavings but no behaviour.
- `MCFleet`: two nodes, two environments, two stacks with one project and a proxy
  each; two layouts that differ by a project pin, a stack pin and a dropped
  environment; a unit that never comes up; two operator actions and one fault.

- `MCRepoEdit`: two tags and one cipher; four starts (placed and deployed, complete but unplaced, an empty stack,
  nothing); others push a tag, remove or place the stack or delete its compose file; four commands and pushes and two faults:
  enough for a failed push, a push of others, a repeated command and one that carries the first along.
- `MCNodeAdmin`: two nodes of which one's name continues the other's, two homes on one host of which one's path continues the
  other's; two environments, so that a rekey can stop between them; stacks on one or both nodes, all or one
  with secrets; three commands or pushes of others and one fault: add, add and remove, or add, place and rekey. `MCSiblingCron` has one
  environment and no fault.

Deadlock is checked in every run but the four of `RepoEdit` and `NodeAdmin`: there nothing is left to do
once the commands, which are bounded, have been spent. No symmetry is used: colors, environments and nodes are ordered or
differ in the instances, and liveness is checked.

### Fairness

cron starts runs for ever, so beginning a run is weakly fair (in `PauseGate` as a
whole over the run processes: no particular process is owed the lock). Calls return or
fail, so the steps of a run in progress are weakly fair. A fit container left alone
becomes healthy; one that misses the deadline is a fault. A node's status command ends and a
pause command in progress goes on; time passes. In `NodeAdmin` the agent of each home is weakly fair, as its crontab line
starts it and a run in progress goes on; the controller's commands are owed nothing. `RepoEdit` states no fairness. Nothing is assumed of operators and faults:
pushes, forced runs, pauses, kills, exits and failures may happen, up to their bounds, and need not.
The liveness properties are of the form "once left alone", which the bounds only make finite.

## Proofs

`tlapm` checks every theorem for arbitrary constants, under the named assumptions of
the modules (bounds are natural numbers, sets do not overlap).

- **`BlueGreenProofs`**: `TypeCorrect`; `CutOverBeforeStop` (`RemovedColorUnrouted`) and
  `RecordedFingerprintEarned` (`FingerprintEarned`). The two action properties are about a run's last steps
  and need what earlier phases established: `RunInv` says, phase by phase, that the target was deployed
  with the wanted fingerprint (`DeployedInv`), that the bindings before `next` are
  switched (`RoutedInv`), that the target was vetted (`VettedInv`) and the rest is gone
  (`StoppedInv`). `PathInv` ties phases to the path. The host's steps preserve it as they
  change health, not fingerprints. `ConvergedLeftAlone` (`StaysSettled`): from the same invariant, a run on a
  settled node finds it in sync in the color it serves from (`SettledView`, whatever `Image` is), and its
  switches and its stop change nothing (`RunOnSettled`). `TrafficFollowsHealth` (`TrafficMovesToVetted`) comes from the same
  invariant. `LiveColorSparedBesideOneColor` adds that a live route names a running container (`LiveRoutesRun`), so that
  beside one running color the deploy takes the slot no live route names (`TargetNotLive`).
- **`PauseGateProofs`**: `TypeCorrect`, `MutualExclusion`, `PauseHoldsBack`. `AtMostOneRun` is inductive
  with the operator's probe holding the lock (`ProbeHolds`); `HeldBack` needs that no run is between
  reading an expired marker and removing it while the operator works under an active one
  (`ClearingInv`), which holds because the probe was alone and no new marker is written then. `ImplementsGate` (`KeepsGate`)
  maps every step to one of `RunGate` or to a stutter: the run past the lock is the active one, and what `HeldBack` says of a
  marker in force is the hold. `IdleHoldsIfClearingLooksAgain` proves the comment of `WaitForIdle` under the one condition the code
  misses (`ClearsOnlyExpired`), with the invariant that the operator's marker then stays until it has run out (`MarkerStays`).
- **`DeliveryProofs`**: `TypeCorrect`, and `FileDelivered` (`DeliveredBeforeRecorded`) under `Reverts = FALSE`.
  The invariant orders the versions along their way (`Order`): the document is never
  ahead of the host file, and the container never behind the document unless its
  fingerprint is cleared (`Owed`). `MountInv` has the same for the mounted directory. `SkippedIsDesired`
  (`SkippedFileIsDesired`) follows from the order as well: when document and run agree, the disk, which lies between
  them, does too. With reverts the order is lost. `ConvergedLeftAlone` (`StaysSettled`) needs
  the types only and holds with reverts too.
- **`PipelineProofs`**: `TypeCorrect`, and `ContractKept`: `Pipeline` implements `StatusContract`
  (initial states and every step are mapped), under `"aborted" \notin Outcomes`. The
  invariant says that a healthy document is true at each of its places and that verify has seen only true ones; `HealthyReconciled` reads off it what it says of the local document.
  `EveryNodeCovered` follows an answer from the question: the nodes asked cover the commit asked for (`Covers`). Together they give `OkMeansDeployed`: under both conditions, an
  OK for a commit means that every node it places something on has reconciled it (`Confirmed` keeps that while others run on).
- **`FleetProofs`**: `TypeCorrect`, `NeverDeploysOrphans` (`DeploysOnlyDesired`), `PruneIsSafe` (`PruneSpares`), for
  any layouts. `WorkIsDesired` is the lemma that the deploy loop and prune's desired set agree, including the
  proxy; `ListInv` says that the list a run works off was drawn from its own checkout. `SuccessIsEveryNodesSuccess`
  (`ControllerReportsDone`) adds `ReportInv`: as long as the controller can report success, every node is still to be triggered, is not
  concerned, works for it and is this far, or has answered, and then only runs from the head can follow on it. `ConvergedNodeStaysSo` (`StaysConverged`, stated in the
  proofs) is the safety half of `PlacedUnitsRun`: what has converged on the head stays so, whichever runs start, fail or
  are killed, until the head moves or containers are lost; TLC has the other half, that it converges.

- **`RepoEditProofs`**: `TypeCorrect`, `WholeCommandsPushed`, `LoadingPublished`, `CommandsEndClean`, `SuccessCommitted`. The invariant has
  the commit as the waiting changes replayed over the base, and the base as the branch unless
  others have moved it (`BranchInv`); phase by phase it says how index and files relate to the commit, on the command's own paths
  (`Written`, `IndexIsHead`, `IndexIsStaged`) and elsewhere (`OthersClean`, `AllClean`), and that what `validateRepo` passed still loads
  when it is pushed (`Validated`). A command that says ok ends in one of two steps, the early return or the push (`SaysOk`), with its whole change in
  the commit; `SuccessPushedIfNothingOwed` has that only the early return can leave it off the branch.
- **`NodeAdminProofs`**: `TypeCorrect`; `RegisteredHaveHomes`, whose invariant says the same of the checkout, whose
  commits may reach the branch much later, of the node being added (`NewHome`) and of the one being removed (`OldHome`), with what each position
  of a command implies (`Located`); `SecretsReachRunners`, with what the environments
  already done are encrypted for (`SecretsInv`) as long as nobody has pushed, wherever the command is cut off; `RemovedNodesAreGone`, with a list
  that has everything of the node but what came late (`Listed`); `TeardownStaysInside`, which says of every step whose containers a
  command takes, with the list never leaving the host of the home it came from (`LeftInside`);
  `EntriesUntouchedInSeparateHomes`, where only the command's own line can go (`LostEntry`).
- **`VariablesProofs`**: `NarrowestScopeWins`, `DesiredImagesArrive`, `OneEnvironment`, `DeclaredNodeNameWins`, for any maps.

Liveness (`Converges` of both modules, `GitOpsResumes`, `MirrorsLocal`, `SuccessIsSeen`,
`PlacedUnitsRun`, `NodesServe`) stays with TLC: the prover handles neither fairness nor `ENABLED`. It
does not do induction over data either, and no module uses `RECURSIVE` operators.

## Not modelled

Parsing, rendering and text: the command line, completion, the layout of edited YAML, schedules and quoting of crontab lines,
proxy compose files, label overrides, the health audit, version strings. age encryption itself: who holds a key matters,
the cipher does not. Git's own storage: a repository is its head commit, index and files; trimming the status branch and
`SyncInit` (the first branch of an empty remote) are left out. Several followed repositories and several environments in one status branch. Shared networks and
volumes (created when absent, never removed). Two controller commands at once on one checkout, which nothing in the code
serialises and git's own lock files arbitrate. Secret files with recipients of their own (`envSecretRecipients`), which
follow the protocol of the secrets file. Unit tests of the repository cover the pure text functions.

## Plan

Done, in this order: `BlueGreen`, `PauseGate`, `Delivery`, `Pipeline` with `StatusContract`, `Fleet`, `RepoEdit`, `NodeAdmin`,
`Variables`, and the proofs of each. Worth doing next:

1. An abstract specification of self-healing that `BlueGreen` and `Delivery` both implement, and `PauseGate` composed with `Fleet`:
   the lock as a parameter of the node's run.
2. The change of a project's strategy, whose old compose project neither the new strategy nor prune takes down
   (`identityKey` leaves the color out).
3. The prune of a node, `TeardownPrefix` and `identityKey` over names that continue each other, in one model.
4. `SyncInit` and the first commit of an empty remote; two controllers of one repo.
