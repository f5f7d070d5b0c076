------------------------------ MODULE RepoEdit ------------------------------
(***************************************************************************)
(* How the controller changes the deployment repo: every scaffolding       *)
(* command pulls its checkout, edits files, loads the result the way the   *)
(* nodes would, and commits and pushes its own paths, or shows a diff and  *)
(* rolls back. Other people push to the same branch meanwhile, pushes get  *)
(* lost, and a command can be cut off between any two steps and leaves its *)
(* half-done work to the next one.                                         *)
(*                                                                         *)
(* Modelled code: internal/admin/scaffold.go and writeSecrets              *)
(* (internal/admin/admin.go), Sync and CommitPush                          *)
(* (internal/gitsync/gitsync.go), the sequence and scalar edits of         *)
(* internal/repo/edit.go and the loaders of internal/repo/repo.go. One     *)
(* stack with one project, an environment that may place it and another    *)
(* that does not: six files, each with the few contents the code           *)
(* distinguishes. Two changes of one file conflict.                        *)
(***************************************************************************)
EXTENDS Naturals

CONSTANTS
  Tags,        \* images a CI pipeline deploys
  Ciphers,     \* encrypted contents of the secrets file
  Starts,      \* what the branch can hold when the controller clones it
  OthersPush,  \* what others change on the branch
  MaxCommands, \* bound: commands, and pushes of others
  MaxFaults    \* bound: commands cut off and lost calls

Absent == "absent"
Keep == "keep"

\* stack.yml lists no project or the project; env.yml places the stack or not;
\* other is the env.yml of an environment that places nothing.
Files == {"stack", "compose", "env", "other", "state", "secret"}
Contents ==
  {Absent, "bare", "full", "present", "unplaced", "placed"} \cup Tags \cup Ciphers
Tree == [Files -> Contents]

\* What a command writes: Keep for a file it leaves alone.
Change == [Files -> Contents \cup {Keep}]
NoChange == [f \in Files |-> Keep]

\* Mutant: the files a command does not name are taken for its own.
EveryFile(ch) == Files

Paths(ch) == {f \in Files : ch[f] # Keep}

Apply(ch, t) == [f \in Files |-> IF ch[f] = Keep THEN t[f] ELSE ch[f]]

ASSUME ContentsAssumption == Keep \notin Contents /\ Absent \notin Tags \cup Ciphers
ASSUME TreesAssumption == Starts \subseteq Tree /\ OthersPush \subseteq Change
ASSUME EditBoundsAssumption == MaxCommands \in Nat /\ MaxFaults \in Nat

VARIABLES
  remote,  \* the branch at its origin
  moved,   \* the origin has commits the checkout has not seen
  base,    \* what the checkout's commits are based on
  owed,    \* what the commits that still wait for a push change
  head, index, work,  \* the checkout's commit, index and files
  stuck,   \* a rebase stopped halfway
  cmd,     \* the command in progress, or the last one
  commands, faults

checkout == <<base, owed, head, index, work, stuck>>
vars == <<remote, moved, checkout, cmd, commands, faults>>

-----------------------------------------------------------------------------
(* The commands.                                                           *)

\* validateRepo: what a reconcile would load.
Loads(t) ==
  /\ t["stack"] = "full" => t["compose"] = "present"
  /\ t["env"] = "placed" => t["stack"] # Absent

Command(op, ch) == [op |-> op, change |-> ch]

EnvAdd(e) == Command("EnvAdd", [NoChange EXCEPT ![e] = "unplaced"])
EnvRemove ==
  Command("EnvRemove", [NoChange EXCEPT !["env"] = Absent, !["state"] = Absent,
                                        !["secret"] = Absent])
EnvStackAdd == Command("EnvStackAdd", [NoChange EXCEPT !["env"] = "placed"])
EnvStackRemove == Command("EnvStackRemove", [NoChange EXCEPT !["env"] = "unplaced"])
StackAdd == Command("StackAdd", [NoChange EXCEPT !["stack"] = "bare"])
StackRemove ==
  Command("StackRemove", [NoChange EXCEPT !["stack"] = Absent, !["compose"] = Absent])
ProjectAdd ==
  Command("ProjectAdd", [NoChange EXCEPT !["stack"] = "full", !["compose"] = "present"])
ProjectRemove ==
  Command("ProjectRemove", [NoChange EXCEPT !["stack"] = "bare", !["compose"] = Absent])
StateSet(tag) == Command("StateSet", [NoChange EXCEPT !["state"] = tag])
writeSecrets(c) == Command("writeSecrets", [NoChange EXCEPT !["secret"] = c])

Commands ==
  {EnvAdd("env"), EnvAdd("other"), EnvRemove, EnvStackAdd, EnvStackRemove,
   StackAdd, StackRemove, ProjectAdd, ProjectRemove}
                              \cup {StateSet(tag) : tag \in Tags}
                              \cup {writeSecrets(c) : c \in Ciphers}

\* What mutate insists on before it writes anything.
Requires(op, ch, t) ==
  CASE op = "EnvAdd" -> \A f \in Paths(ch) : t[f] = Absent
    [] op = "EnvRemove" -> t["env"] = "unplaced"
    [] op = "EnvStackAdd" -> t["env"] = "unplaced" /\ t["stack"] # Absent
    [] op = "EnvStackRemove" -> t["env"] = "placed"
    [] op = "StackAdd" -> t["stack"] = Absent
    [] op = "StackRemove" -> t["stack"] # Absent /\ t["env"] # "placed"
    [] op = "ProjectAdd" -> t["stack"] = "bare" /\ t["compose"] = Absent
    [] op = "ProjectRemove" -> t["stack"] = "full"
    [] op = "StateSet" -> t["env"] = "placed" /\ t["stack"] = "full"
    [] op = "writeSecrets" -> t["env"] # Absent

\* project add writes the compose file first, project remove deletes it last;
\* a directory is deleted in any order.
Before ==
  {<<"ProjectAdd", "compose", "stack">>, <<"ProjectRemove", "stack", "compose">>}

\* env remove and stack remove name a directory, the others every file.
Pathspecs(op, ch) ==
  IF op \in {"EnvRemove", "StackRemove"} THEN {Paths(ch)} ELSE {{f} : f \in Paths(ch)}

-----------------------------------------------------------------------------
Idle == [pc |-> "idle", op |-> "none", change |-> NoChange, left |-> {},
         dry |-> FALSE, said |-> "ok"]
Working == {"sync", "check", "write", "diff", "reset", "undo", "add", "commit", "push"}
Names == {"none", "EnvAdd", "EnvRemove", "EnvStackAdd", "EnvStackRemove", "StackAdd",
          "StackRemove", "ProjectAdd", "ProjectRemove", "StateSet", "writeSecrets"}

Init ==
  /\ remote \in Starts /\ moved = FALSE
  /\ base = remote /\ head = remote /\ index = remote /\ work = remote
  /\ owed = NoChange /\ stuck = FALSE
  /\ cmd = Idle
  /\ commands = 0 /\ faults = 0

Fault == faults < MaxFaults /\ faults' = faults + 1
Operates == commands < MaxCommands /\ commands' = commands + 1
Goes(pc) == cmd' = [cmd EXCEPT !.pc = pc]
Ends(said) == cmd' = [cmd EXCEPT !.pc = "idle", !.said = said]

Begin(c, dry) ==
  /\ cmd.pc = "idle"
  /\ c.op = "writeSecrets" => ~dry
  /\ Operates
  /\ cmd' = [pc |-> "sync", op |-> c.op, change |-> c.change, left |-> Paths(c.change),
             dry |-> dry, said |-> "ok"]
  /\ UNCHANGED <<remote, moved, checkout, faults>>

-----------------------------------------------------------------------------
(* Sync: clone or 'git pull --rebase'.                                     *)

\* Files git has never seen do not stop a pull, unless it brings the same ones.
Untracked(f) == index[f] = Absent /\ work[f] # Absent
CleanFor(f) == index[f] = head[f] /\ (Untracked(f) \/ work[f] = index[f])
TrackedClean == ~stuck /\ \A f \in Files : CleanFor(f)
Overwrites == \E f \in Files : Untracked(f) /\ head[f] # remote[f]
Conflicts ==
  \E f \in Paths(owed) : remote[f] # base[f] /\ remote[f] # owed[f]

\* Commits that wait are replayed; one the origin has already is dropped.
pull ==
  /\ cmd.pc = "sync"
  /\ TrackedClean
  /\ ~Overwrites /\ ~Conflicts
  /\ base' = remote /\ moved' = FALSE
  /\ owed' = [f \in Files |-> IF owed[f] = remote[f] THEN Keep ELSE owed[f]]
  /\ head' = Apply(owed, remote)
  /\ index' = head'
  /\ work' = [f \in Files |-> IF Untracked(f) THEN work[f] ELSE head'[f]]
  /\ Goes("check")
  /\ UNCHANGED <<remote, stuck, commands, faults>>

PullFails ==
  /\ cmd.pc = "sync"
  /\ \/ (~TrackedClean \/ Overwrites) /\ UNCHANGED faults
     \/ Fault
  /\ Ends("error")
  /\ UNCHANGED <<remote, moved, checkout, commands>>

RebaseStops ==
  /\ cmd.pc = "sync"
  /\ TrackedClean /\ ~Overwrites /\ Conflicts
  /\ stuck' = TRUE
  /\ Ends("error")
  /\ UNCHANGED <<remote, moved, base, owed, head, index, work, commands, faults>>

\* The operator deletes the checkout, and the next command clones it again.
clone ==
  /\ cmd.pc = "idle"
  /\ base' = remote /\ head' = remote /\ index' = remote /\ work' = remote
  /\ owed' = NoChange /\ stuck' = FALSE /\ moved' = FALSE
  /\ UNCHANGED <<remote, cmd, commands, faults>>

-----------------------------------------------------------------------------
(* withRepo: mutate, validate, diff or publish.                            *)

MutateRefuses ==
  /\ cmd.pc = "check"
  /\ ~Requires(cmd.op, cmd.change, work)
  /\ Ends("error")
  /\ UNCHANGED <<remote, moved, checkout, commands, faults>>

MutateStarts ==
  /\ cmd.pc = "check"
  /\ Requires(cmd.op, cmd.change, work)
  /\ Goes("write")
  /\ UNCHANGED <<remote, moved, checkout, commands, faults>>

WriteFile(f) ==
  /\ cmd.pc = "write" /\ f \in cmd.left
  /\ \A g \in cmd.left : <<cmd.op, g, f>> \notin Before
  /\ work' = [work EXCEPT ![f] = cmd.change[f]]
  /\ cmd' = [cmd EXCEPT !.left = @ \ {f}]
  /\ UNCHANGED <<remote, moved, base, owed, head, index, stuck, commands, faults>>

\* Mutant: the stacks are loaded, the placements are not looked at.
StacksValid ==
  cmd.op = "writeSecrets" \/ (work["stack"] = "full" => work["compose"] = "present")

\* The secrets commands publish without validating.
Valid == cmd.op = "writeSecrets" \/ Loads(work)

validateRepo ==
  /\ cmd.pc = "write" /\ cmd.left = {}
  /\ cmd' = [cmd EXCEPT !.said = IF Valid THEN "ok" ELSE "error",
                        !.pc = IF ~Valid THEN "undo"
                               ELSE IF cmd.dry THEN "diff" ELSE "add"]
  /\ UNCHANGED <<remote, moved, checkout, commands, faults>>

\* 'git add' fails as a whole when one of its paths matches nothing.
Matched ==
  \A spec \in Pathspecs(cmd.op, cmd.change) :
    \E f \in spec : index[f] # Absent \/ work[f] # Absent

\* showDiff: 'git add -N' records new files and stages deletions.
showDiff ==
  /\ cmd.pc = "diff"
  /\ Matched
  /\ index' = [f \in Files |->
       IF f \in Paths(cmd.change) /\ Absent \in {index[f], work[f]} THEN work[f] ELSE index[f]]
  /\ Goes("reset")
  /\ UNCHANGED <<remote, moved, base, owed, head, work, stuck, commands, faults>>

\* Without a match there is no diff, and nothing is rolled back.
AddFails ==
  /\ cmd.pc \in {"diff", "add"}
  /\ ~Matched
  /\ Ends("error")
  /\ UNCHANGED <<remote, moved, checkout, commands, faults>>

ResetIndex ==
  /\ cmd.pc = "reset"
  /\ index' = [f \in Files |-> IF f \in Paths(cmd.change) THEN head[f] ELSE index[f]]
  /\ Goes("undo")
  /\ UNCHANGED <<remote, moved, base, owed, head, work, stuck, commands, faults>>

\* Mutant: the rollback is skipped for files git does not track yet.
RevertTracked ==
  [f \in Files |-> IF f \in Paths(cmd.change) /\ index[f] # Absent THEN index[f] ELSE work[f]]

\* Tracked files come back from the index, new ones are deleted.
Reverted == [f \in Files |-> IF f \in Paths(cmd.change) THEN index[f] ELSE work[f]]

revertPaths ==
  /\ cmd.pc = "undo"
  /\ work' = Reverted
  /\ Goes("idle")
  /\ UNCHANGED <<remote, moved, base, owed, head, index, stuck, commands, faults>>

-----------------------------------------------------------------------------
(* CommitPush: git add, status, commit, push.                              *)

\* Mutant: 'git add --all' instead of the command's own paths.
EverythingStaged == work

\* Mutant: 'git commit -a' in place of an add, which leaves out new files.
TrackedStaged ==
  [f \in Files |-> IF f \in Paths(cmd.change) /\ index[f] # Absent THEN work[f] ELSE index[f]]

Staged == [f \in Files |-> IF f \in Paths(cmd.change) THEN work[f] ELSE index[f]]

StagePaths ==
  /\ cmd.pc = "add"
  /\ Matched
  /\ index' = Staged
  /\ Goes("commit")
  /\ UNCHANGED <<remote, moved, base, owed, head, work, stuck, commands, faults>>

\* 'git status --porcelain' is empty: done, without a push.
NothingChanged ==
  /\ cmd.pc = "commit"
  /\ index = head /\ work = head
  /\ Ends("ok")
  /\ UNCHANGED <<remote, moved, checkout, commands, faults>>

\* Only leftovers git does not track: 'git commit' has nothing to commit.
CommitFails ==
  /\ cmd.pc = "commit"
  /\ index = head /\ work # head
  /\ Ends("error")
  /\ UNCHANGED <<remote, moved, checkout, commands, faults>>

Commit ==
  /\ cmd.pc = "commit"
  /\ index # head
  /\ head' = index
  /\ owed' = [f \in Files |->
       IF cmd.change[f] \in {Keep, head[f]} THEN owed[f] ELSE cmd.change[f]]
  /\ Goes("push")
  /\ UNCHANGED <<remote, moved, base, index, work, stuck, commands, faults>>

Arrives ==
  /\ ~moved
  /\ remote' = head /\ base' = head /\ owed' = NoChange
  /\ UNCHANGED <<moved, head, index, work, stuck, commands>>

Push == cmd.pc = "push" /\ Arrives /\ Ends("ok") /\ UNCHANGED faults

\* Rejected because others pushed first, or the call fails, before or after
\* the origin took the commit. The commit stays.
PushFails ==
  /\ cmd.pc = "push"
  /\ \/ moved /\ UNCHANGED <<remote, moved, checkout, commands, faults>>
     \/ Fault /\ UNCHANGED <<remote, moved, checkout, commands>>
     \/ Fault /\ Arrives
  /\ Ends("error")

-----------------------------------------------------------------------------
\* A command is killed, or a call fails for reasons of its own (a full disk, a
\* commit hook): withRepo returns from mutate, add and commit without a rollback.
\* In the middle of a rebase that leaves the rebase unfinished.
Kill ==
  /\ cmd.pc # "idle"
  /\ Fault
  /\ Ends("killed")
  /\ \E halfway \in BOOLEAN :
       /\ halfway => cmd.pc = "sync" /\ Paths(owed) # {} /\ moved
       /\ stuck' = (stuck \/ halfway)
  /\ UNCHANGED <<remote, moved, base, owed, head, index, work, commands>>

OthersPushed(ch) ==
  /\ Operates
  /\ Apply(ch, remote) # remote
  /\ remote' = Apply(ch, remote) /\ moved' = TRUE
  /\ UNCHANGED <<checkout, cmd, faults>>

Next ==
  \/ \E c \in Commands, dry \in BOOLEAN : Begin(c, dry)
  \/ pull \/ PullFails \/ RebaseStops \/ clone
  \/ MutateRefuses \/ MutateStarts \/ (\E f \in cmd.left : WriteFile(f))
  \/ validateRepo \/ showDiff \/ AddFails \/ ResetIndex \/ revertPaths
  \/ StagePaths \/ NothingChanged \/ CommitFails \/ Commit
  \/ Push \/ PushFails
  \/ Kill
  \/ \E ch \in OthersPush : OthersPushed(ch)

Spec == Init /\ [][Next]_vars

-----------------------------------------------------------------------------
(* Properties.                                                             *)

TypeOK ==
  /\ {remote, base, head, index, work} \subseteq Tree
  /\ owed \in Change
  /\ moved \in BOOLEAN /\ stuck \in BOOLEAN
  /\ cmd \in [pc : Working \cup {"idle"}, op : Names, change : Change,
              left : SUBSET Files, dry : BOOLEAN, said : {"ok", "error", "killed"}]
  /\ cmd.left \subseteq Paths(cmd.change)
  /\ commands \in 0..MaxCommands /\ faults \in 0..MaxFaults

Published == remote' # remote /\ cmd' # cmd

(***************************************************************************)
(* A push adds to the branch what its commands computed and nothing else:  *)
(* whole commands, never the remains of one that was killed, and never a   *)
(* loss of what others have pushed in between.                             *)
(***************************************************************************)
PushesWholeCommands == [][Published => remote' = Apply(owed, remote)]_vars

(***************************************************************************)
(* "Nothing is pushed unless the changed repo still loads" (withRepo): a   *)
(* command that validates publishes a branch that loads, also when it      *)
(* carries older commits that were rebased over the pushes of others,      *)
(* unless a killed command left files that git does not track.             *)
(***************************************************************************)
PublishesWhatLoads ==
  [][Published /\ cmd.op # "writeSecrets" /\ (\A f \in Files : ~Untracked(f))
       => Loads(remote')]_vars

(***************************************************************************)
(* A command that is not cut off in its writes, its add or its commit      *)
(* never stands in the way of the next one: refused, rolled back or kept   *)
(* from pushing, it leaves no change that stops a pull, and a dry run      *)
(* leaves none of its own, as long as the repo loads.                      *)
(***************************************************************************)
EndsClean ==
  [][cmd.pc \notin {"idle", "sync"} /\ cmd'.pc = "idle" /\ cmd'.said # "killed" /\ Loads(head)
       => /\ TrackedClean'
          /\ cmd.dry /\ cmd'.said = "ok"
               => \A f \in Paths(cmd.change) : work'[f] = head'[f]]_vars

(***************************************************************************)
(* "StateSet writes a service's desired image into environments/<env>/     *)
(* state/<stack>.yml and pushes it: this is the call a CI pipeline makes   *)
(* to deploy" (scaffold.go): when it reports success and nobody else has   *)
(* pushed meanwhile, the branch asks for that image.                       *)
(***************************************************************************)
SuccessIsPushed ==
  [][cmd.op = "StateSet" /\ ~cmd.dry /\ cmd.pc # "idle" /\ cmd'.pc = "idle"
       /\ cmd'.said = "ok" /\ ~moved'
       => remote'["state"] = cmd.change["state"]]_vars

(***************************************************************************)
(* A command that reports success has every file it computed in the        *)
(* checkout's commit, none left half-done, and each is on the branch as it *)
(* was pulled or waits in a commit the next push sends (CommitPush).       *)
(***************************************************************************)
SuccessIsCommitted ==
  [][~cmd.dry /\ cmd.pc # "idle" /\ cmd'.pc = "idle" /\ cmd'.said = "ok"
       => \A f \in Paths(cmd.change) :
            /\ head'[f] = cmd.change[f]
            /\ cmd.change[f] \in {owed'[f], base'[f]}]_vars
=============================================================================
