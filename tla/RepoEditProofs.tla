--------------------------- MODULE RepoEditProofs ---------------------------
(***************************************************************************)
(* Proofs about RepoEdit for any tags, any encrypted contents, any pushes  *)
(* of others and any bounds.                                               *)
(***************************************************************************)
EXTENDS RepoEdit, TLAPS

-----------------------------------------------------------------------------
(* The commands and the operators on trees.                                *)

LEMMA ApplyTypes ==
  ASSUME NEW t \in Tree, NEW ch \in Change PROVE Apply(ch, t) \in Tree
BY DEF Tree, Change, Apply

LEMMA CommandType ==
  ASSUME NEW c \in Commands
  PROVE  c.op \in Names \ {"none"} /\ c.change \in Change
<1>1. NoChange \in Change
  BY DEF NoChange, Change
<1> QED
  BY <1>1 DEF Commands, Command, Names, Change, Contents, Files, Paths, EnvAdd, EnvRemove,
     EnvStackAdd, EnvStackRemove, StackAdd, StackRemove, ProjectAdd, ProjectRemove,
     StateSet, writeSecrets

\* Only the commands that remove something make a file disappear.
LEMMA CommandRemoves ==
  ASSUME NEW c \in Commands
  PROVE  /\ c.op \notin {"EnvRemove", "StackRemove", "ProjectRemove"}
              => \A f \in Files : c.change[f] # Absent
         /\ c.op = "ProjectRemove"
              => /\ c.change["stack"] = "bare" /\ c.change["compose"] = Absent
                 /\ \A f \in Files \ {"stack", "compose"} : c.change[f] = Keep
BY ContentsAssumption DEF Commands, Command, Contents, Files, NoChange, Absent, Keep, EnvAdd,
   EnvRemove, EnvStackAdd, EnvStackRemove, StackAdd, StackRemove, ProjectAdd, ProjectRemove,
   StateSet, writeSecrets

-----------------------------------------------------------------------------
(* Types.                                                                  *)

CmdType ==
  {c \in [pc : Working \cup {"idle"}, op : Names, change : Change, left : SUBSET Files,
          dry : BOOLEAN, said : {"ok", "error", "killed"}] :
     c.left \subseteq Paths(c.change)}

LEMMA InitType == Init => TypeOK
<1> SUFFICES ASSUME Init PROVE TypeOK
  OBVIOUS
<1>1. NoChange \in Change
  BY DEF NoChange, Change
<1>2. Idle \in CmdType
  BY <1>1 DEF Idle, CmdType, Names, Paths
<1>3. remote \in Tree
  BY TreesAssumption DEF Init
<1>4. cmd \in CmdType
  BY <1>2 DEF Init
<1>5. {remote, base, head, index, work} \subseteq Tree
  BY <1>3 DEF Init
<1>6. commands \in 0..MaxCommands /\ faults \in 0..MaxFaults
  BY EditBoundsAssumption DEF Init
<1>7. owed \in Change /\ moved \in BOOLEAN /\ stuck \in BOOLEAN
  BY <1>1 DEF Init
<1> QED BY <1>4, <1>5, <1>6, <1>7 DEF TypeOK, CmdType

LEMMA NextType == TypeOK /\ [Next]_vars => TypeOK'
<1> SUFFICES ASSUME TypeOK, [Next]_vars PROVE TypeOK'
  OBVIOUS
<1> USE EditBoundsAssumption DEF TypeOK, checkout
<1>0. cmd \in CmdType /\ NoChange \in Change
  BY DEF CmdType, NoChange, Change
<1>a. ASSUME NEW pc \in Working \cup {"idle"}, Goes(pc) PROVE cmd' \in CmdType
  BY <1>0, <1>a DEF Goes, CmdType
<1>b. ASSUME NEW said \in {"ok", "error", "killed"}, Ends(said) PROVE cmd' \in CmdType
  BY <1>0, <1>b DEF Ends, CmdType
<1>1. ASSUME NEW c \in Commands, NEW dry \in BOOLEAN, Begin(c, dry) PROVE TypeOK'
  <2>1. cmd' \in CmdType
    BY <1>1, CommandType DEF Begin, CmdType, Working, Paths
  <2> QED BY <1>1, <2>1 DEF Begin, Operates, CmdType
<1>2. CASE pull
  <2>1. head' \in Tree
    BY <1>2, ApplyTypes DEF pull
  <2>2. work' \in Tree /\ owed' \in Change
    BY <1>2, <2>1 DEF pull, Tree, Change
  <2>3. cmd' \in CmdType
    BY <1>a, <1>2 DEF pull, Working
  <2> QED BY <1>2, <2>1, <2>2, <2>3 DEF pull, CmdType
<1>3. CASE PullFails \/ RebaseStops
  <2>1. cmd' \in CmdType
    BY <1>b, <1>3 DEF PullFails, RebaseStops
  <2>2. faults' \in 0..MaxFaults
    BY <1>3 DEF PullFails, RebaseStops, Fault
  <2>3. stuck' \in BOOLEAN
    BY <1>3 DEF PullFails, RebaseStops
  <2> QED BY <1>3, <2>1, <2>2, <2>3 DEF PullFails, RebaseStops, CmdType
<1>4. CASE clone
  <2>1. cmd' \in CmdType
    BY <1>0, <1>4 DEF clone
  <2>2. owed' \in Change /\ stuck' = FALSE /\ moved' = FALSE
    BY <1>0, <1>4 DEF clone
  <2>3. {remote', base', head', index', work'} \subseteq Tree
    BY <1>4 DEF clone
  <2>4. commands' = commands /\ faults' = faults
    BY <1>4 DEF clone
  <2>5. commands \in 0..MaxCommands /\ faults \in 0..MaxFaults
    OBVIOUS
  <2> QED BY <2>1, <2>2, <2>3, <2>4, <2>5 DEF CmdType
<1>5. CASE MutateRefuses \/ MutateStarts \/ AddFails
  <2>1. cmd' \in CmdType
    BY <1>a, <1>b, <1>5 DEF MutateRefuses, MutateStarts, AddFails, Working
  <2> QED BY <1>5, <2>1 DEF MutateRefuses, MutateStarts, AddFails, CmdType
<1>6. ASSUME NEW f \in cmd.left, WriteFile(f) PROVE TypeOK'
  <2>1. f \in Files /\ cmd.change[f] \in Contents
    BY <1>0 DEF CmdType, Paths, Change
  <2>2. work' \in Tree
    BY <1>6, <2>1 DEF WriteFile, Tree
  <2>3. cmd' \in CmdType
    BY <1>0, <1>6 DEF WriteFile, CmdType
  <2> QED BY <1>6, <2>2, <2>3 DEF WriteFile, CmdType
<1>7. CASE validateRepo
  <2>1. cmd' \in CmdType
    BY <1>0, <1>7 DEF validateRepo, CmdType, Working
  <2> QED BY <1>7, <2>1 DEF validateRepo, CmdType
<1>8. CASE showDiff \/ ResetIndex \/ StagePaths
  <2>1. index' \in Tree
    BY <1>8 DEF showDiff, ResetIndex, StagePaths, Staged, Tree
  <2>2. cmd' \in CmdType
    BY <1>a, <1>8 DEF showDiff, ResetIndex, StagePaths, Working
  <2> QED BY <1>8, <2>1, <2>2 DEF showDiff, ResetIndex, StagePaths, CmdType
<1>9. CASE revertPaths
  <2>1. work' \in Tree
    BY <1>9 DEF revertPaths, Reverted, Tree
  <2>2. cmd' \in CmdType
    BY <1>a, <1>9 DEF revertPaths
  <2> QED BY <1>9, <2>1, <2>2 DEF revertPaths, CmdType
<1>10. CASE NothingChanged \/ CommitFails
  <2>1. cmd' \in CmdType
    BY <1>b, <1>10 DEF NothingChanged, CommitFails
  <2> QED BY <1>10, <2>1 DEF NothingChanged, CommitFails, CmdType
<1>11. CASE Commit
  <2>1. owed' \in Change
    BY <1>11 DEF Commit, Change
  <2>2. cmd' \in CmdType
    BY <1>a, <1>11 DEF Commit, Working
  <2> QED BY <1>11, <2>1, <2>2 DEF Commit, CmdType
<1>12. CASE Push \/ PushFails
  <2>1. cmd' \in CmdType
    BY <1>b, <1>12 DEF Push, PushFails
  <2> QED BY <1>0, <1>12, <2>1 DEF Push, PushFails, Arrives, Fault, CmdType
<1>13. CASE Kill
  <2>1. cmd' \in CmdType
    BY <1>b, <1>13 DEF Kill
  <2> QED BY <1>13, <2>1 DEF Kill, Fault, CmdType
<1>14. ASSUME NEW ch \in OthersPush, OthersPushed(ch) PROVE TypeOK'
  BY <1>14, ApplyTypes, TreesAssumption DEF OthersPushed, Operates
<1>15. CASE UNCHANGED vars
  BY <1>15 DEF vars
<1> QED BY <1>1, <1>2, <1>3, <1>4, <1>5, <1>6, <1>7, <1>8, <1>9, <1>10, <1>11, <1>12,
           <1>13, <1>14, <1>15 DEF Next

(***************************************************************************)
(* Every variable keeps to its type, whatever fails or is killed.          *)
(***************************************************************************)
THEOREM TypeCorrect == Spec => []TypeOK
BY InitType, NextType, PTL DEF Spec

-----------------------------------------------------------------------------
(* The inductive invariant.                                                *)

\* What the waiting commits change is what separates the checkout's commit
\* from what it is based on.
BranchInv == head = Apply(owed, base) /\ (~moved => base = remote)

Known == cmd.pc # "idle" => \E c \in Commands : cmd.op = c.op /\ cmd.change = c.change

\* A command only ever disturbs its own paths.
OthersClean ==
  cmd.pc \notin {"idle", "sync"} =>
    ~stuck /\ \A f \in Files \ Paths(cmd.change) : CleanFor(f)
AllClean == cmd.pc \in {"check", "push"} => \A f \in Files : CleanFor(f)
IndexIsHead == cmd.pc \in {"check", "write", "diff", "undo", "add", "push"} => index = head
Written ==
  /\ cmd.pc \in {"sync", "check"} => cmd.left = Paths(cmd.change)
  /\ cmd.pc = "write" => \A f \in Paths(cmd.change) \ cmd.left : work[f] = cmd.change[f]
  /\ cmd.pc \in {"diff", "reset", "add", "commit"} =>
       \A f \in Paths(cmd.change) : work[f] = cmd.change[f]
  /\ cmd.pc = "push" => \A f \in Paths(cmd.change) : head[f] = cmd.change[f]
IndexIsStaged ==
  cmd.pc = "commit" =>
    index = [f \in Files |-> IF f \in Paths(cmd.change) THEN work[f] ELSE head[f]]
Validated ==
  cmd.pc \in {"add", "commit", "push"} /\ cmd.op # "writeSecrets" => Loads(work)
ProjectWasThere ==
  cmd.pc \in {"write", "diff", "add"} /\ cmd.op = "ProjectRemove" =>
    head["stack"] \in {Absent, "full"}
\* A dry run shows a diff and rolls back, any other command only after an error.
DryNeverCommits ==
  /\ cmd.dry => cmd.pc \notin {"add", "commit", "push"}
  /\ ~cmd.dry => cmd.pc \notin {"diff", "reset"} /\ (cmd.pc = "undo" => cmd.said = "error")

IInv ==
  BranchInv /\ Known /\ OthersClean /\ AllClean /\ IndexIsHead /\ Written
            /\ IndexIsStaged /\ Validated /\ ProjectWasThere /\ DryNeverCommits

LEMMA InitInv == Init /\ TypeOK => IInv
BY DEF Init, TypeOK, IInv, BranchInv, Known, OthersClean, AllClean, IndexIsHead, Written,
   IndexIsStaged, Validated, ProjectWasThere, DryNeverCommits, Idle, Apply, NoChange, Tree

\* The waiting commits' values survive a rebase, and what git never tracked
\* stays untracked.
LEMMA PullInv == TypeOK /\ TypeOK' /\ IInv /\ pull => IInv'
<1> SUFFICES ASSUME TypeOK, TypeOK', IInv, pull PROVE IInv'
  OBVIOUS
<1>1. BranchInv'
  <2>1. head' = Apply(owed', base')
    BY ContentsAssumption DEF pull, Apply, TypeOK, Tree, Change, Contents
  <2> QED BY <2>1 DEF BranchInv, pull
<1>2. ASSUME NEW f \in Files PROVE CleanFor(f)'
  <2>1. CASE Untracked(f)
    <3>1. head[f] = Absent /\ remote[f] = Absent
      BY <2>1 DEF pull, TrackedClean, CleanFor, Untracked, Overwrites
    <3>2. owed[f] \in {Keep, Absent}
      BY <3>1 DEF IInv, BranchInv, Apply, TypeOK
    <3>3. head'[f] = Absent /\ index'[f] = Absent /\ work'[f] = work[f]
      BY <2>1, <3>1, <3>2 DEF pull, Apply, TypeOK, Tree
    <3> QED BY <2>1, <3>3 DEF CleanFor, Untracked
  <2>2. CASE ~Untracked(f)
    BY <2>2 DEF pull, CleanFor, Untracked, TypeOK, Tree
  <2> QED BY <2>1, <2>2
<1>3. ~stuck' /\ cmd'.pc = "check" /\ index' = head'
  BY DEF pull, TrackedClean, Goes, TypeOK
<1>4. Known' /\ cmd'.left = Paths(cmd'.change)
  BY DEF IInv, Known, Written, pull, Goes, TypeOK
<1> QED BY <1>1, <1>2, <1>3, <1>4
     DEF IInv, OthersClean, AllClean, IndexIsHead, Written, IndexIsStaged, Validated,
         ProjectWasThere, DryNeverCommits

LEMMA NextInv == TypeOK /\ TypeOK' /\ IInv /\ [Next]_vars => IInv'
<1> SUFFICES ASSUME TypeOK, TypeOK', IInv, [Next]_vars PROVE IInv'
  OBVIOUS
<1> USE DEF checkout
\* The steps that end a command leave nothing to show but the branch.
<1>a. ASSUME cmd'.pc = "idle", BranchInv' PROVE IInv'
  BY <1>a DEF IInv, Known, OthersClean, AllClean, IndexIsHead, Written, IndexIsStaged,
     Validated, ProjectWasThere, DryNeverCommits
<1>b. ASSUME UNCHANGED <<remote, moved, base, owed, head>> PROVE BranchInv'
  BY <1>b DEF IInv, BranchInv, Apply
<1>1. ASSUME NEW c \in Commands, NEW dry \in BOOLEAN, Begin(c, dry) PROVE IInv'
  <2>1. BranchInv'
    BY <1>1, <1>b DEF Begin
  <2>2. cmd'.pc = "sync" /\ cmd'.op = c.op /\ cmd'.change = c.change
        /\ cmd'.left = Paths(c.change)
    BY <1>1 DEF Begin
  <2> QED BY <2>1, <2>2 DEF IInv, Known, OthersClean, AllClean, IndexIsHead, Written,
       IndexIsStaged, Validated, ProjectWasThere, DryNeverCommits
<1>2. CASE pull
  BY <1>2, PullInv
<1>3. CASE PullFails \/ RebaseStops \/ MutateRefuses \/ AddFails \/ NothingChanged
           \/ CommitFails \/ Kill
  <2>1. UNCHANGED <<remote, moved, base, owed, head>>
    BY <1>3 DEF PullFails, RebaseStops, MutateRefuses, AddFails, NothingChanged,
       CommitFails, Kill
  <2>2. cmd'.pc = "idle"
    BY <1>3 DEF PullFails, RebaseStops, MutateRefuses, AddFails, NothingChanged,
       CommitFails, Kill, Ends, TypeOK
  <2> QED BY <1>a, <1>b, <2>1, <2>2
<1>4. CASE clone
  <2>1. BranchInv'
    BY <1>4, ContentsAssumption DEF clone, BranchInv, Apply, NoChange, TypeOK, Tree
  <2> QED BY <1>4, <1>a, <2>1 DEF clone
<1>5. CASE MutateStarts
  <2>1. BranchInv'
    BY <1>5, <1>b DEF MutateStarts
  <2>2. cmd' = [cmd EXCEPT !.pc = "write"] /\ cmd.pc = "check"
        /\ UNCHANGED <<head, index, work, stuck>>
    BY <1>5 DEF MutateStarts, Goes
  <2>3. ProjectWasThere'
    <3>1. CleanFor("stack")
      BY <2>2 DEF IInv, AllClean, Files
    <3>2. cmd.op = "ProjectRemove" => work["stack"] = "full"
      BY <1>5 DEF MutateStarts, Requires
    <3> QED BY <2>2, <3>1, <3>2 DEF ProjectWasThere, CleanFor, Untracked, TypeOK
  <2>4. Written'
    BY <2>2 DEF Written, IInv, TypeOK
  <2>5. OthersClean' /\ AllClean' /\ IndexIsHead' /\ IndexIsStaged' /\ Validated' /\ Known'
        /\ DryNeverCommits'
    BY <2>2 DEF IInv, OthersClean, AllClean, IndexIsHead, IndexIsStaged, Validated, Known,
       DryNeverCommits, CleanFor, Untracked, TypeOK
  <2> QED BY <2>1, <2>3, <2>4, <2>5 DEF IInv
<1>6. ASSUME NEW f \in cmd.left, WriteFile(f) PROVE IInv'
  <2>1. BranchInv'
    BY <1>6, <1>b DEF WriteFile
  <2>2. /\ cmd.pc = "write" /\ f \in Paths(cmd.change) /\ f \in Files
        /\ cmd' = [cmd EXCEPT !.left = @ \ {f}]
        /\ work' = [work EXCEPT ![f] = cmd.change[f]]
        /\ UNCHANGED <<head, index, stuck>>
    BY <1>6 DEF WriteFile, TypeOK, Paths
  <2>3. ASSUME NEW g \in Files, g # f, CleanFor(g) PROVE CleanFor(g)'
    BY <2>2, <2>3 DEF CleanFor, Untracked, TypeOK, Tree
  <2>4. OthersClean'
    BY <2>2, <2>3 DEF IInv, OthersClean, TypeOK
  <2>5. Written'
    BY <2>2 DEF IInv, Written, TypeOK, Tree, Paths
  <2>6. AllClean' /\ IndexIsHead' /\ IndexIsStaged' /\ Validated' /\ Known' /\ ProjectWasThere'
        /\ DryNeverCommits'
    BY <2>2 DEF IInv, AllClean, IndexIsHead, IndexIsStaged, Validated, Known,
       ProjectWasThere, DryNeverCommits, TypeOK
  <2> QED BY <2>1, <2>4, <2>5, <2>6 DEF IInv
<1>7. CASE validateRepo
  <2>1. BranchInv'
    BY <1>7, <1>b DEF validateRepo
  <2>2. /\ cmd.pc = "write" /\ cmd.left = {}
        /\ cmd'.pc \in {"undo", "diff", "add"}
        /\ cmd'.op = cmd.op /\ cmd'.change = cmd.change
        /\ cmd'.pc = "add" /\ cmd.op # "writeSecrets" => Loads(work)
        /\ UNCHANGED <<head, index, work, stuck>>
    BY <1>7 DEF validateRepo, Valid, TypeOK
  <2>3. OthersClean' /\ IndexIsHead' /\ AllClean' /\ Known' /\ IndexIsStaged'
    BY <2>2 DEF IInv, OthersClean, IndexIsHead, AllClean, Known, IndexIsStaged, CleanFor,
       Untracked
  <2>4. Written' /\ ProjectWasThere'
    BY <2>2 DEF IInv, Written, ProjectWasThere, Paths
  <2>5. Validated' /\ DryNeverCommits'
    BY <1>7, <2>2 DEF Validated, Loads, validateRepo, Valid, DryNeverCommits
  <2> QED BY <2>1, <2>3, <2>4, <2>5 DEF IInv
<1>8. CASE showDiff \/ ResetIndex \/ StagePaths
  <2>1. BranchInv'
    BY <1>8, <1>b DEF showDiff, ResetIndex, StagePaths
  <2>2. /\ cmd'.op = cmd.op /\ cmd'.change = cmd.change
        /\ UNCHANGED <<head, work, stuck>>
        /\ \/ cmd.pc = "diff" /\ cmd'.pc = "reset"
           \/ cmd.pc = "reset" /\ cmd'.pc = "undo"
           \/ cmd.pc = "add" /\ cmd'.pc = "commit"
        /\ \A f \in Files \ Paths(cmd.change) : index'[f] = index[f]
    BY <1>8 DEF showDiff, ResetIndex, StagePaths, Staged, Goes, TypeOK
  <2>3. OthersClean'
    BY <2>2 DEF IInv, OthersClean, CleanFor, Untracked
  <2>4. Written' /\ ProjectWasThere' /\ AllClean' /\ Known'
    BY <2>2 DEF IInv, Written, ProjectWasThere, AllClean, Known, Paths
  <2>5. Validated' /\ DryNeverCommits'
    BY <1>8, <2>2 DEF IInv, Validated, Loads, DryNeverCommits, showDiff, ResetIndex,
       StagePaths, Goes, TypeOK
  <2>6. IndexIsHead'
    <3>1. CASE cmd.pc = "reset"
      <4>1. \A f \in Files : index'[f] = head[f]
        BY <1>8, <3>1 DEF showDiff, ResetIndex, StagePaths, IInv, OthersClean, CleanFor
      <4> QED BY <2>2, <4>1 DEF IndexIsHead, TypeOK, Tree
    <3> QED BY <2>2, <3>1 DEF IndexIsHead
  <2>7. IndexIsStaged'
    <3>1. CASE cmd.pc = "add"
      <4>1. index' = [f \in Files |-> IF f \in Paths(cmd.change) THEN work[f] ELSE index[f]]
            /\ index = head
        BY <1>8, <3>1 DEF showDiff, ResetIndex, StagePaths, Staged, IInv, IndexIsHead
      <4> QED BY <2>2, <4>1 DEF IndexIsStaged
    <3> QED BY <2>2, <3>1 DEF IndexIsStaged
  <2> QED BY <2>1, <2>3, <2>4, <2>5, <2>6, <2>7 DEF IInv
<1>9. CASE revertPaths
  BY <1>9, <1>a, <1>b DEF revertPaths, Goes, TypeOK
<1>10. CASE Commit
  <2>1. /\ cmd.pc = "commit" /\ cmd'.pc = "push"
        /\ cmd'.op = cmd.op /\ cmd'.change = cmd.change
        /\ head' = index /\ UNCHANGED <<index, work, stuck, base, remote, moved>>
    BY <1>10 DEF Commit, Goes, TypeOK
  <2>2. ASSUME NEW f \in Files
        PROVE  CleanFor(f)' /\ head'[f] = Apply(owed', base')[f]
    <3>1. CASE f \in Paths(cmd.change)
      <4>1. index[f] = work[f] /\ work[f] = cmd.change[f] /\ cmd.change[f] # Keep
        BY <2>1, <3>1 DEF IInv, IndexIsStaged, Written, Paths
      <4>2. head[f] = Apply(owed, base)[f]
        BY DEF IInv, BranchInv
      <4> QED BY <1>10, <2>1, <4>1, <4>2 DEF Commit, Apply, CleanFor, Untracked
    <3>2. CASE f \notin Paths(cmd.change)
      <4>1. CleanFor(f) /\ index[f] = head[f] /\ cmd.change[f] = Keep
        BY <2>1, <3>2 DEF IInv, OthersClean, IndexIsStaged, Paths
      <4>2. head[f] = Apply(owed, base)[f]
        BY DEF IInv, BranchInv
      <4> QED BY <1>10, <2>1, <4>1, <4>2 DEF Commit, Apply, CleanFor, Untracked
    <3> QED BY <3>1, <3>2
  <2>3. BranchInv'
    <3>1. head' \in Tree /\ Apply(owed', base') = [f \in Files |-> Apply(owed', base')[f]]
      BY DEF TypeOK, Apply
    <3> QED BY <2>1, <2>2, <3>1 DEF BranchInv, IInv, Tree
  <2>4. Validated' /\ DryNeverCommits'
    BY <1>10, <2>1 DEF IInv, Validated, Loads, DryNeverCommits, Commit, Goes, TypeOK
  <2>5. Written'
    BY <2>1 DEF IInv, Written, IndexIsStaged, Paths
  <2> QED BY <2>1, <2>2, <2>3, <2>4, <2>5 DEF IInv, Known, OthersClean, AllClean,
       IndexIsHead, IndexIsStaged, ProjectWasThere
<1>11. CASE Push \/ PushFails
  <2>1. cmd'.pc = "idle"
    BY <1>11 DEF Push, PushFails, Ends, TypeOK
  <2>2. CASE Arrives
    <3>1. Apply(owed', base') = head'
      BY <2>2 DEF Arrives, Apply, NoChange, TypeOK, Tree
    <3> QED BY <1>a, <2>1, <2>2, <3>1 DEF Arrives, BranchInv
  <2>3. CASE ~Arrives
    BY <1>11, <1>a, <1>b, <2>1, <2>3 DEF Push, PushFails
  <2> QED BY <2>2, <2>3
<1>12. ASSUME NEW ch \in OthersPush, OthersPushed(ch) PROVE IInv'
  <2>1. moved' = TRUE /\ UNCHANGED <<checkout, cmd>>
    BY <1>12 DEF OthersPushed
  <2>2. BranchInv'
    BY <2>1 DEF IInv, BranchInv, Apply
  <2> QED BY <2>1, <2>2 DEF IInv, Known, OthersClean, AllClean, IndexIsHead, Written,
       IndexIsStaged, Validated, ProjectWasThere, DryNeverCommits, CleanFor, Untracked, Loads
<1>13. CASE UNCHANGED vars
  BY <1>13 DEF vars, IInv, BranchInv, Apply, Known, OthersClean, AllClean, IndexIsHead,
     Written, IndexIsStaged, Validated, ProjectWasThere, DryNeverCommits, CleanFor, Untracked, Loads
<1> QED BY <1>1, <1>2, <1>3, <1>4, <1>5, <1>6, <1>7, <1>8, <1>9, <1>10, <1>11, <1>12,
           <1>13 DEF Next

-----------------------------------------------------------------------------
(* What the invariant gives.                                               *)

LEMMA Invariant == Spec => [](TypeOK /\ IInv)
<1>1. Init => TypeOK /\ IInv
  BY InitType, InitInv
<1>2. TypeOK /\ IInv /\ [Next]_vars => (TypeOK /\ IInv)'
  BY NextType, NextInv
<1> QED BY <1>1, <1>2, PTL DEF Spec

\* The branch changes in a push of the command in progress or of others.
LEMMA PublishedByPush ==
  ASSUME TypeOK, [Next]_vars, Published
  PROVE  cmd.pc = "push" /\ Arrives
<1> USE DEF checkout, Published
<1>1. ASSUME NEW c \in Commands, NEW dry \in BOOLEAN, Begin(c, dry) PROVE FALSE
  BY <1>1 DEF Begin
<1>2. CASE pull \/ PullFails \/ RebaseStops \/ clone
  BY <1>2 DEF pull, PullFails, RebaseStops, clone
<1>3. CASE MutateRefuses \/ MutateStarts \/ validateRepo
  BY <1>3 DEF MutateRefuses, MutateStarts, validateRepo
<1>4. ASSUME NEW f \in cmd.left, WriteFile(f) PROVE FALSE
  BY <1>4 DEF WriteFile
<1>5. CASE showDiff \/ AddFails \/ ResetIndex \/ revertPaths
  BY <1>5 DEF showDiff, AddFails, ResetIndex, revertPaths
<1>6. CASE StagePaths \/ NothingChanged \/ CommitFails \/ Commit \/ Kill
  BY <1>6 DEF StagePaths, NothingChanged, CommitFails, Commit, Kill
<1>7. CASE Push \/ PushFails
  BY <1>7 DEF Push, PushFails
<1>8. ASSUME NEW ch \in OthersPush, OthersPushed(ch) PROVE FALSE
  BY <1>8 DEF OthersPushed
<1> QED BY <1>1, <1>2, <1>3, <1>4, <1>5, <1>6, <1>7, <1>8 DEF Next, vars

(***************************************************************************)
(* Whatever was killed before and whoever pushed meanwhile, a push changes *)
(* on the branch exactly what its commands computed.                       *)
(***************************************************************************)
THEOREM WholeCommandsPushed == Spec => PushesWholeCommands
<1>1. TypeOK /\ IInv /\ [Next]_vars => (Published => remote' = Apply(owed, remote))
  BY PublishedByPush DEF Arrives, IInv, BranchInv
<1> QED BY <1>1, Invariant, PTL DEF Spec, PushesWholeCommands

(***************************************************************************)
(* A command that validates publishes what the nodes can load, unless a    *)
(* killed one left untracked files.                                        *)
(***************************************************************************)
THEOREM LoadingPublished == Spec => PublishesWhatLoads
<1>1. ASSUME TypeOK, IInv, [Next]_vars, Published, cmd.op # "writeSecrets",
             \A f \in Files : ~Untracked(f)
      PROVE  Loads(remote')
  <2>1. cmd.pc = "push" /\ remote' = head
    BY <1>1, PublishedByPush DEF Arrives
  <2>2. Loads(work)
    BY <1>1, <2>1 DEF IInv, Validated
  <2>3. \A f \in Files : work[f] = head[f]
    BY <1>1, <2>1 DEF IInv, AllClean, CleanFor
  <2> QED BY <2>1, <2>2, <2>3 DEF Loads, Files
<1>2. TypeOK /\ IInv /\ [Next]_vars =>
        (Published /\ cmd.op # "writeSecrets" /\ (\A f \in Files : ~Untracked(f))
           => Loads(remote'))
  BY <1>1
<1> QED BY <1>2, Invariant, PTL DEF Spec, PublishesWhatLoads

\* 'git add' only fails over files that are gone anyway.
LEMMA NoMatchIsClean ==
  ASSUME TypeOK, IInv, cmd.pc \in {"diff", "add"}, ~Matched, Loads(head)
  PROVE  TrackedClean
<1>1. PICK spec \in Pathspecs(cmd.op, cmd.change) :
        \A f \in spec : index[f] = Absent /\ work[f] = Absent
  BY DEF Matched
<1>2. PICK c \in Commands : cmd.op = c.op /\ cmd.change = c.change
  BY DEF IInv, Known
<1>3. index = head /\ ~stuck
  BY DEF IInv, IndexIsHead, OthersClean
<1>4. \A f \in Files \ Paths(cmd.change) : CleanFor(f)
  BY DEF IInv, OthersClean
<1>5. \A f \in Paths(cmd.change) : work[f] = cmd.change[f]
  BY DEF IInv, Written
<1>6. ASSUME NEW f \in Paths(cmd.change) PROVE CleanFor(f)
  <2>1. CASE cmd.op \in {"EnvRemove", "StackRemove"}
    BY <1>1, <1>3, <1>6, <2>1 DEF Pathspecs, CleanFor
  <2>2. CASE cmd.op = "ProjectRemove"
    <3>1. Paths(cmd.change) \subseteq {"stack", "compose"}
      BY <1>2, <2>2, CommandRemoves DEF Paths
    <3>2. spec = {"compose"}
      BY <1>1, <1>2, <1>5, <2>2, <3>1, CommandRemoves DEF Pathspecs, Paths, Files, Absent
    <3>3. head["compose"] = Absent /\ CleanFor("compose")
      BY <1>1, <1>3, <3>2 DEF CleanFor
    <3>4. head["stack"] # "full" /\ head["stack"] \in {Absent, "full"}
      BY <2>2, <3>3 DEF Loads, IInv, ProjectWasThere, Absent
    <3>5. work["stack"] = "bare"
      BY <1>2, <1>5, <2>2, CommandRemoves DEF Paths, Files, Keep
    <3> QED BY <1>3, <1>6, <3>1, <3>3, <3>4, <3>5 DEF CleanFor, Untracked, Absent
  <2>3. CASE cmd.op \notin {"EnvRemove", "StackRemove", "ProjectRemove"}
    BY <1>1, <1>2, <1>5, <2>3, CommandRemoves DEF Pathspecs, Paths
  <2> QED BY <2>1, <2>2, <2>3
<1> QED BY <1>3, <1>4, <1>6 DEF TrackedClean

(***************************************************************************)
(* However a command ends other than by being cut off, it leaves a         *)
(* checkout the next one can pull into, and a dry run nothing of its own.  *)
(***************************************************************************)
THEOREM CommandsEndClean == Spec => EndsClean
<1>1. ASSUME TypeOK, IInv, [Next]_vars, cmd.pc \notin {"idle", "sync"}, cmd'.pc = "idle",
             cmd'.said # "killed", Loads(head)
      PROVE  /\ TrackedClean'
             /\ cmd.dry /\ cmd'.said = "ok" =>
                  \A f \in Paths(cmd.change) : work'[f] = head'[f]
  <2> USE <1>1 DEF checkout
  <2>1. CASE MutateRefuses
    BY <2>1 DEF MutateRefuses, Ends, TypeOK, IInv, AllClean, OthersClean, TrackedClean,
       CleanFor, Untracked
  <2>2. CASE AddFails
    <3>1. TrackedClean
      BY <2>2, NoMatchIsClean DEF AddFails
    <3> QED BY <2>2, <3>1 DEF AddFails, Ends, TypeOK, TrackedClean, CleanFor, Untracked
  <2>3. CASE revertPaths
    <3>1. ~stuck /\ index = head /\ \A f \in Files \ Paths(cmd.change) : CleanFor(f)
      BY <2>3 DEF revertPaths, IInv, OthersClean, IndexIsHead
    <3>2. \A f \in Paths(cmd.change) : work'[f] = index[f]
      BY <2>3 DEF revertPaths, Reverted, Paths
    <3> QED BY <2>3, <3>1, <3>2 DEF revertPaths, Reverted, TrackedClean, CleanFor,
         Untracked, TypeOK, Tree
  <2>4. CASE NothingChanged
    BY <2>4 DEF NothingChanged, IInv, OthersClean, TrackedClean, CleanFor, Untracked, Paths
  <2>5. CASE CommitFails
    <3>1. \A f \in Paths(cmd.change) : index[f] = work[f]
      BY <2>5 DEF CommitFails, IInv, IndexIsStaged, Paths
    <3> QED BY <2>5, <3>1 DEF CommitFails, Ends, TypeOK, IInv, OthersClean, TrackedClean,
         CleanFor, Untracked, Paths
  <2>6. CASE Push \/ PushFails
    <3>1. /\ cmd.pc = "push" /\ index = head /\ ~stuck /\ ~cmd.dry
          /\ \A f \in Files : CleanFor(f)
      BY <2>6 DEF Push, PushFails, IInv, IndexIsHead, OthersClean, AllClean, DryNeverCommits
    <3>2. UNCHANGED <<head, index, work, stuck>>
      BY <2>6 DEF Push, PushFails, Arrives
    <3> QED BY <3>1, <3>2 DEF TrackedClean, CleanFor, Untracked, Paths
  <2>7. MutateRefuses \/ AddFails \/ revertPaths \/ NothingChanged \/ CommitFails
        \/ Push \/ PushFails
    <3>1. ~(\E c \in Commands, dry \in BOOLEAN : Begin(c, dry)) /\ ~pull /\ ~PullFails
          /\ ~RebaseStops /\ ~clone
      BY DEF Begin, pull, PullFails, RebaseStops, clone
    <3>2. ~MutateStarts /\ ~(\E f \in cmd.left : WriteFile(f)) /\ ~validateRepo
      BY DEF MutateStarts, WriteFile, validateRepo, Goes, TypeOK
    <3>3. ~showDiff /\ ~ResetIndex /\ ~StagePaths /\ ~Commit
      BY DEF showDiff, ResetIndex, StagePaths, Commit, Goes, TypeOK
    <3>4. ~Kill
      BY DEF Kill, Ends, TypeOK
    <3>5. ~(\E ch \in OthersPush : OthersPushed(ch)) /\ ~UNCHANGED vars
      BY DEF OthersPushed, vars
    <3> QED BY <3>1, <3>2, <3>3, <3>4, <3>5 DEF Next
  <2> QED BY <2>1, <2>2, <2>3, <2>4, <2>5, <2>6, <2>7
<1>2. TypeOK /\ IInv /\ [Next]_vars =>
        (cmd.pc \notin {"idle", "sync"} /\ cmd'.pc = "idle" /\ cmd'.said # "killed"
           /\ Loads(head)
           => /\ TrackedClean'
              /\ cmd.dry /\ cmd'.said = "ok" =>
                   \A f \in Paths(cmd.change) : work'[f] = head'[f])
  BY <1>1
<1> QED BY <1>2, Invariant, PTL DEF Spec, EndsClean

-----------------------------------------------------------------------------
(* What a command that says ok has done.                                   *)

LEMMA SaysOk ==
  ASSUME TypeOK, IInv, [Next]_vars, ~cmd.dry, cmd.pc # "idle", cmd'.pc = "idle",
         cmd'.said = "ok"
  PROVE  /\ NothingChanged \/ Push
         /\ \A f \in Paths(cmd.change) : head[f] = cmd.change[f]
<1> USE DEF checkout
<1>1. NothingChanged \/ Push
  <2>1. ~(\E c \in Commands, dry \in BOOLEAN : Begin(c, dry)) /\ ~pull /\ ~clone
    BY DEF Begin, pull, clone, Goes, TypeOK
  <2>2. ~PullFails /\ ~RebaseStops /\ ~MutateRefuses /\ ~AddFails /\ ~CommitFails
        /\ ~PushFails /\ ~Kill
    BY DEF PullFails, RebaseStops, MutateRefuses, AddFails, CommitFails, PushFails, Kill,
       Ends, TypeOK
  <2>3. ~MutateStarts /\ ~(\E f \in cmd.left : WriteFile(f)) /\ ~validateRepo
    BY DEF MutateStarts, WriteFile, validateRepo, Goes, TypeOK
  <2>4. ~showDiff /\ ~ResetIndex /\ ~StagePaths /\ ~Commit
    BY DEF showDiff, ResetIndex, StagePaths, Commit, Goes, TypeOK
  <2>5. ~revertPaths
    BY DEF revertPaths, Goes, TypeOK, IInv, DryNeverCommits
  <2>6. ~(\E ch \in OthersPush : OthersPushed(ch)) /\ ~UNCHANGED vars
    BY DEF OthersPushed, vars
  <2> QED BY <2>1, <2>2, <2>3, <2>4, <2>5, <2>6 DEF Next
<1>2. ASSUME NEW f \in Paths(cmd.change) PROVE head[f] = cmd.change[f]
  BY <1>1, <1>2 DEF NothingChanged, Push, IInv, Written
<1> QED BY <1>1, <1>2

(***************************************************************************)
(* "ok" is never said over a change that is only half in the commit: all   *)
(* of it is there, and on the branch or waiting for the next push.         *)
(***************************************************************************)
THEOREM SuccessCommitted == Spec => SuccessIsCommitted
<1>1. ASSUME TypeOK, IInv, IInv', [Next]_vars, ~cmd.dry, cmd.pc # "idle", cmd'.pc = "idle",
             cmd'.said = "ok", NEW f \in Paths(cmd.change)
      PROVE  head'[f] = cmd.change[f] /\ cmd.change[f] \in {owed'[f], base'[f]}
  <2>1. head[f] = cmd.change[f] /\ f \in Files
    BY <1>1, SaysOk DEF Paths
  <2>2. head' = head
    BY <1>1, SaysOk DEF NothingChanged, Push, Arrives, checkout
  <2> QED BY <1>1, <2>1, <2>2 DEF IInv, BranchInv, Apply
<1>2. TypeOK /\ IInv /\ IInv' /\ [Next]_vars =>
        (~cmd.dry /\ cmd.pc # "idle" /\ cmd'.pc = "idle" /\ cmd'.said = "ok"
           => \A f \in Paths(cmd.change) :
                /\ head'[f] = cmd.change[f]
                /\ cmd.change[f] \in {owed'[f], base'[f]})
  BY <1>1
<1> QED BY <1>2, Invariant, PTL DEF Spec, SuccessIsCommitted

\* The early return of CommitPush never leaves a commit behind.
NothingOwed == NothingChanged => owed = NoChange

(***************************************************************************)
(* Exactly the early return of CommitPush stands between "ok" and a        *)
(* deployed image: where it finds no commit that still waits for a push,   *)
(* every StateSet that reports success has its image on the branch.        *)
(***************************************************************************)
THEOREM SuccessPushedIfNothingOwed == Spec /\ [][NothingOwed]_vars => SuccessIsPushed
<1>1. ASSUME TypeOK, IInv, IInv', [Next]_vars, [NothingOwed]_vars, cmd.op = "StateSet",
             ~cmd.dry, cmd.pc # "idle", cmd'.pc = "idle", cmd'.said = "ok", ~moved'
      PROVE  remote'["state"] = cmd.change["state"]
  <2>1. NothingChanged \/ Push
    BY <1>1, SaysOk
  <2>2. "state" \in Paths(cmd.change)
    <3>1. PICK c \in Commands : cmd.op = c.op /\ cmd.change = c.change
      BY <1>1 DEF IInv, Known
    <3>2. PICK tag \in Tags : c = StateSet(tag)
      BY <1>1, <3>1 DEF Commands, Command, EnvAdd, EnvRemove, EnvStackAdd, EnvStackRemove,
         StackAdd, StackRemove, ProjectAdd, ProjectRemove, writeSecrets
    <3>3. cmd.change["state"] = tag
      BY <3>1, <3>2 DEF StateSet, Command, NoChange, Files
    <3>4. Keep \notin Tags
      BY ContentsAssumption DEF Contents
    <3> QED BY <3>3, <3>4 DEF Paths, Files
  <2>3. head["state"] = cmd.change["state"]
    BY <1>1, <2>2, SaysOk
  <2>4. CASE Push
    BY <2>3, <2>4 DEF Push, Arrives
  <2>5. CASE NothingChanged
    <3>1. owed = NoChange
      BY <1>1, <2>5 DEF NothingOwed, vars
    <3>2. base = remote /\ remote' = remote
      BY <1>1, <2>5 DEF NothingChanged, checkout, IInv, BranchInv
    <3>3. head["state"] = base["state"]
      BY <1>1, <3>1 DEF IInv, BranchInv, Apply, NoChange, Files
    <3> QED BY <2>3, <3>2, <3>3
  <2> QED BY <2>1, <2>4, <2>5
<1>2. TypeOK /\ IInv /\ IInv' /\ [Next]_vars /\ [NothingOwed]_vars =>
        (cmd.op = "StateSet" /\ ~cmd.dry /\ cmd.pc # "idle" /\ cmd'.pc = "idle"
           /\ cmd'.said = "ok" /\ ~moved'
           => remote'["state"] = cmd.change["state"])
  BY <1>1
<1> QED BY <1>2, Invariant, PTL DEF Spec, SuccessIsPushed
=============================================================================
