------------------------------ MODULE Delivery ------------------------------
(***************************************************************************)
(* How values reach a running container on one node: a file secret or a    *)
(* managed file written to the host with a reload hook, a repo directory   *)
(* bind-mounted and reloaded by a signal, and the recreate-strategy        *)
(* project that consumes them. All three are driven by hashes kept in the  *)
(* environment's status document, written one by one as a run advances,    *)
(* so what a cut-off run leaves behind is what the next one starts from.   *)
(*                                                                         *)
(* Modelled code (internal/reconcile): materializeFileSecret and           *)
(* materializeManagedFile with their reload hooks (filesecrets.go,         *)
(* managedfiles.go), recreateProject without proxy bindings, the recorded  *)
(* hashes (reconcile.go) and reloadOnMountChange (mounts.go). Contents are *)
(* versions; a content hash is the version itself.                         *)
(***************************************************************************)
EXTENDS Naturals

CONSTANTS
  MaxVersion,   \* bound: versions of the compose config, the file, the mount
  Image,        \* Image[v]: the image references config version v asks for
  Unfit,        \* config versions that never pass their health check
  Reloads,      \* reload hooks the file may declare: "recreate", "command"
  Reverts,      \* may a push go back to an earlier version?
  MaxOperator,  \* bound: pushes and forced runs
  MaxFaults     \* bound: failures and interruptions

Versions == 0..MaxVersion
None == MaxVersion + 1  \* nothing recorded, nothing on disk

ASSUME VersionAssumption ==
  MaxVersion \in Nat /\ Unfit \subseteq Versions /\ Reverts \in BOOLEAN
ASSUME ReloadsAssumption == Reloads \subseteq {"recreate", "command"}
ASSUME BoundsAssumption == MaxOperator \in Nat /\ MaxFaults \in Nat

VARIABLES
  reload,    \* the reload hook the file declares
  desired,   \* versions at the head of the branch
  checkout,  \* mounted directory in the node's checkout of the repo
  disk,      \* version of the file on the host
  recorded,  \* the status document: hashes of config, file and mount
  con,       \* the consumer: state, and the versions it has loaded
  run,       \* the run in progress
  operator, faults

vars == <<reload, desired, checkout, disk, recorded, con, run, operator, faults>>

Parts == {"cfg", "file", "mount"}
Desired == [Parts -> Versions]
Recorded == [Parts -> Versions \cup {None}]
Container == [st : {"absent", "unready", "healthy", "exited"},
              cfg : Versions \cup {None}, file : Versions \cup {None},
              mount : Versions \cup {None}]
Phases == {"idle", "file", "hook", "recordFile", "project", "wait", "recordConfig",
           "mount", "recordMount"}
NoWant == [p \in Parts |-> 0]
Idle == [pc |-> "idle", want |-> NoWant, force |-> FALSE, deployed |-> FALSE]

Init ==
  /\ reload \in Reloads
  /\ desired = NoWant
  /\ checkout = 0
  /\ disk = None
  /\ recorded = [p \in Parts |-> None]
  /\ con = [st |-> "absent", cfg |-> None, file |-> None, mount |-> None]
  /\ run = Idle
  /\ operator = 0
  /\ faults = 0

Up == con.st \in {"unready", "healthy"}
Fault == faults < MaxFaults /\ faults' = faults + 1
Goto(p) == run' = [run EXCEPT !.pc = p]
Record(p, v) == recorded' = [recorded EXCEPT ![p] = v]
Operates == operator < MaxOperator /\ operator' = operator + 1

-----------------------------------------------------------------------------
(* The run.                                                                *)

\* The pull at the start of the run also replaces the mounted directory.
Start(f) ==
  /\ run = Idle
  /\ run' = [pc |-> "file", want |-> desired, force |-> f, deployed |-> FALSE]
  /\ checkout' = desired["mount"]
  /\ UNCHANGED <<reload, desired, disk, recorded, con, faults>>
Begin == Start(FALSE) /\ operator' = operator
BeginForced == Start(TRUE) /\ Operates

\* Mutant: a file that vanished from the host is not noticed.
UnchangedByHash == recorded["file"] = run.want["file"]

Unchanged == recorded["file"] = run.want["file"] /\ disk # None

\* Mutant: the content hash is not compared.
WriteAlways ==
  /\ run.pc = "file"
  /\ disk' = run.want["file"]
  /\ Goto("hook")
  /\ UNCHANGED <<reload, desired, checkout, recorded, con, operator, faults>>

SkipFile ==
  /\ run.pc = "file"
  /\ Unchanged /\ ~run.force
  /\ Goto("project")
  /\ UNCHANGED <<reload, desired, checkout, disk, recorded, con, operator, faults>>

\* Mutant: the file's hash is recorded as it is written, before its hook runs.
RecordOnWrite ==
  /\ run.pc = "file"
  /\ ~Unchanged \/ run.force
  /\ disk' = run.want["file"]
  /\ Record("file", run.want["file"])
  /\ Goto("hook")
  /\ UNCHANGED <<reload, desired, checkout, con, operator, faults>>

writeNodeFile ==
  /\ run.pc = "file"
  /\ ~Unchanged \/ run.force
  /\ disk' = run.want["file"]
  /\ Goto("hook")
  /\ UNCHANGED <<reload, desired, checkout, recorded, con, operator, faults>>

\* Mutant: the project's whole entry is dropped, not only its fingerprint.
DropEntry ==
  /\ run.pc = "hook"
  /\ recorded' = IF reload = "recreate" THEN [p \in Parts \ {"cfg"} |-> recorded[p]]
                 ELSE recorded
  /\ Goto("recordFile")
  /\ UNCHANGED <<reload, desired, checkout, disk, con, operator, faults>>

invalidateDeployHash == Record("cfg", None)

\* "recreate" clears the consumer's fingerprint, a command makes the running
\* container load the file; with no container running there is nothing to do.
runReload ==
  /\ run.pc = "hook"
  /\ \/ reload = "recreate" /\ invalidateDeployHash /\ UNCHANGED con
     \/ /\ reload = "command"
        /\ con' = IF Up THEN [con EXCEPT !.file = disk] ELSE con
        /\ UNCHANGED recorded
  /\ Goto("recordFile")
  /\ UNCHANGED <<reload, desired, checkout, disk, operator, faults>>

writeSecretHash ==
  /\ run.pc = "recordFile"
  /\ Record("file", run.want["file"])
  /\ Goto("project")
  /\ UNCHANGED <<reload, desired, checkout, disk, con, operator, faults>>

InSync ==
  /\ Up /\ Image[con.cfg] = Image[run.want["cfg"]]
  /\ recorded["cfg"] = run.want["cfg"]
  /\ ~run.force

SkipProject ==
  /\ run.pc = "project"
  /\ InSync
  /\ Goto("mount")
  /\ UNCHANGED <<reload, desired, checkout, disk, recorded, con, operator, faults>>

\* A container started now loads what is on disk now.
Started(v) == [st |-> "unready", cfg |-> v, file |-> disk, mount |-> checkout]
Deploy ==
  /\ run.pc = "project"
  /\ ~InSync
  /\ con' = Started(run.want["cfg"])
  /\ Goto("wait")
  /\ UNCHANGED <<reload, desired, checkout, disk, recorded, operator, faults>>

\* WaitHealthy returned and the running image is the desired one.
WaitHealthy ==
  /\ run.pc = "wait"
  /\ con.st = "healthy"
  /\ Goto("recordConfig")
  /\ UNCHANGED <<reload, desired, checkout, disk, recorded, con, operator, faults>>

\* The container is gone, or is unfit and never becomes healthy.
WaitFails ==
  /\ run.pc = "wait"
  /\ ~Up \/ (con.st = "unready" /\ con.cfg \in Unfit)
  /\ run' = Idle
  /\ UNCHANGED <<reload, desired, checkout, disk, recorded, con, operator, faults>>

writeDeployHash ==
  /\ run.pc = "recordConfig"
  /\ Record("cfg", run.want["cfg"])
  /\ run' = [run EXCEPT !.pc = "mount", !.deployed = TRUE]
  /\ UNCHANGED <<reload, desired, checkout, disk, con, operator, faults>>

\* reloadOnMountChange: a container deployed by this very run started on the
\* new content, otherwise it is signalled when the content changed.
MountUnchanged ==
  /\ run.pc = "mount"
  /\ ~run.deployed /\ recorded["mount"] = run.want["mount"]
  /\ run' = Idle
  /\ UNCHANGED <<reload, desired, checkout, disk, recorded, con, operator, faults>>

SignalMount ==
  /\ run.pc = "mount"
  /\ run.deployed \/ recorded["mount"] # run.want["mount"]
  /\ con' = IF Up /\ ~run.deployed THEN [con EXCEPT !.mount = checkout] ELSE con
  /\ Goto("recordMount")
  /\ UNCHANGED <<reload, desired, checkout, disk, recorded, operator, faults>>

writeMountHash ==
  /\ run.pc = "recordMount"
  /\ Record("mount", run.want["mount"])
  /\ run' = Idle
  /\ UNCHANGED <<reload, desired, checkout, disk, con, operator, faults>>

\* A call fails, a deadline passes or the process is killed; what the run has
\* done so far stays.
Abort ==
  /\ run # Idle
  /\ Fault
  /\ run' = Idle
  /\ UNCHANGED <<reload, desired, checkout, disk, recorded, con, operator>>

-----------------------------------------------------------------------------
(* Operator and host.                                                      *)

Push(p) ==
  /\ Operates
  /\ \E v \in Versions :
       /\ v = desired[p] + 1 \/ (Reverts /\ v < desired[p])
       /\ desired' = [desired EXCEPT ![p] = v]
  /\ UNCHANGED <<reload, checkout, disk, recorded, con, run, faults>>

BecomeHealthy ==
  /\ con.st = "unready" /\ con.cfg \notin Unfit
  /\ con' = [con EXCEPT !.st = "healthy"]
  /\ UNCHANGED <<reload, desired, checkout, disk, recorded, run, operator, faults>>

Exit ==
  /\ Up
  /\ Fault
  /\ con' = [con EXCEPT !.st = "exited"]
  /\ UNCHANGED <<reload, desired, checkout, disk, recorded, run, operator>>

Restart ==
  /\ con.st = "exited"
  /\ Fault
  /\ con' = Started(con.cfg)
  /\ UNCHANGED <<reload, desired, checkout, disk, recorded, run, operator>>

LoseFile ==
  /\ disk # None
  /\ Fault
  /\ disk' = None
  /\ UNCHANGED <<reload, desired, checkout, recorded, con, run, operator>>

-----------------------------------------------------------------------------
Step ==
  \/ SkipFile \/ writeNodeFile \/ runReload \/ writeSecretHash
  \/ SkipProject \/ Deploy \/ WaitHealthy \/ WaitFails \/ writeDeployHash
  \/ MountUnchanged \/ SignalMount \/ writeMountHash

Next ==
  \/ Begin \/ BeginForced \/ Step \/ Abort
  \/ \E p \in Parts : Push(p)
  \/ BecomeHealthy \/ Exit \/ Restart \/ LoseFile

Spec == Init /\ [][Next]_vars

(* cron repeats, calls return, and a fit container becomes healthy.        *)
FairSpec == Spec /\ WF_vars(Begin) /\ WF_vars(Step) /\ WF_vars(BecomeHealthy)

-----------------------------------------------------------------------------
(* Properties.                                                             *)

TypeOK ==
  /\ reload \in Reloads
  /\ desired \in Desired
  /\ checkout \in Versions
  /\ disk \in Versions \cup {None}
  /\ recorded \in Recorded
  /\ con \in Container
  /\ run \in [pc : Phases, want : Desired, force : BOOLEAN, deployed : BOOLEAN]
  /\ operator \in 0..MaxOperator
  /\ faults \in 0..MaxFaults

\* A consumer that (re)started while the file was gone from the host has none
\* to read; the code owes it a hook it does not remember (see the README).
StartedWithFile == Up => con.file # None

(***************************************************************************)
(* What is recorded was delivered. When the document says the file on disk *)
(* is done, the running consumer has loaded it, or its fingerprint is      *)
(* cleared so that the coming deploy restarts it; and the consumer has     *)
(* loaded the mounted directory as recorded, or a later state of it.       *)
(* However runs are cut off, a hook or a signal still owed is never        *)
(* forgotten.                                                              *)
(***************************************************************************)
FileLoaded ==
  recorded["file"] = disk /\ disk # None /\ Up /\ StartedWithFile =>
    con.file = disk \/ (reload = "recreate" /\ recorded["cfg"] = None)
MountLoaded ==
  recorded["mount"] # None /\ Up => con.mount \in recorded["mount"]..MaxVersion
DeliveredBeforeRecorded == FileLoaded /\ MountLoaded

(***************************************************************************)
(* The desired state is in effect: everything the container has loaded is  *)
(* what the branch asks for.                                               *)
(***************************************************************************)
Converged ==
  /\ con = [st |-> "healthy", cfg |-> desired["cfg"], file |-> desired["file"],
            mount |-> desired["mount"]]
  /\ recorded = desired /\ disk = desired["file"]

(***************************************************************************)
(* Left alone with a desired state that can become healthy, a consumer     *)
(* that did not start without its file ends up running and reading exactly *)
(* that state.                                                             *)
(***************************************************************************)
Converges ==
  <>[](desired["cfg"] \notin Unfit /\ StartedWithFile) => <>[]Converged

(***************************************************************************)
(* "an in-sync reconcile never rewrites the file nor re-runs the reload    *)
(* hook", and neither redeploys nor signals.                               *)
(***************************************************************************)
Settled ==
  /\ Converged
  /\ run.pc \in {"idle", "file", "project", "mount"}
  /\ run # Idle => run.want = desired /\ ~run.force /\ ~run.deployed
StaysSettled ==
  [][Settled /\ operator' = operator /\ faults' = faults => Settled']_vars

(***************************************************************************)
(* "only when the value differs from what is already on disk" is the file  *)
(* written (managedfiles.go): passing it over means the desired content is *)
(* there. With reverts on the branch it is not so (see the README).        *)
(***************************************************************************)
SkippedFileIsDesired ==
  [][SkipFile => disk = run.want["file"]]_vars
=============================================================================
