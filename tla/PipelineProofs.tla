--------------------------- MODULE PipelineProofs ---------------------------
(***************************************************************************)
(* Proofs about Pipeline for any set of nodes, any placement of the        *)
(* commits on them and any bounds.                                         *)
(***************************************************************************)
EXTENDS Pipeline, TLAPS

RunType == [pc : {"idle", "reconcile", "finalize", "publish", "push"},
            want : Commits, outcome : Outcomes]

LEMMA Facts == 1 \in Commits /\ Idle \in RunType /\ NoDoc \in Doc
BY CommitsAssumption, OutcomesAssumption DEF Commits, Idle, RunType, Doc

LEMMA DocFacts ==
  /\ \A c \in Commits, h \in BOOLEAN : [commit |-> c, healthy |-> h] \in Doc
  /\ \A d \in Doc : d.healthy \in BOOLEAN /\ (d.healthy => d.commit \in Commits)
<1>1. \A c \in Commits, h \in BOOLEAN : [commit |-> c, healthy |-> h] \in Doc
  BY DEF Doc
<1>2. ASSUME NEW d \in Doc
      PROVE  d.healthy \in BOOLEAN /\ (d.healthy => d.commit \in Commits)
  <2>1. CASE d = NoDoc
    BY <2>1 DEF NoDoc
  <2>2. CASE d \in [commit : Commits, healthy : BOOLEAN]
    BY <2>2
  <2> QED BY <2>1, <2>2 DEF Doc
<1> QED BY <1>1, <1>2

LEMMA GotoType ==
  ASSUME run \in [Nodes -> RunType], NEW n \in Nodes, NEW p \in {"idle", "publish", "push"},
         Goto(n, p)
  PROVE  run' \in [Nodes -> RunType] /\ \A m \in Nodes \ {n} : run'[m] = run[m]
         /\ run'[n].pc = p
<1>1. [Idle EXCEPT !.pc = p] \in RunType /\ [Idle EXCEPT !.pc = p].pc = p
  BY Facts DEF Idle, RunType
<1> QED BY <1>1 DEF Goto

LEMMA InitType == Init => TypeOK
BY Facts, PipelineBoundsAssumption DEF Init, TypeOK, RunType, NotAsked

LEMMA NextType == TypeOK /\ [Next]_vars => TypeOK'
<1> SUFFICES ASSUME TypeOK, [Next]_vars PROVE TypeOK'
  OBVIOUS
<1> USE Facts, PipelineBoundsAssumption DEF TypeOK, RunType
<1>1. ASSUME NEW n \in Nodes, Sync(n) PROVE TypeOK'
  BY <1>1, OutcomesAssumption DEF Sync, gitVars, verifyVars
<1>2. ASSUME NEW n \in Nodes, NEW o \in Outcomes, reconcileRepo(n, o) PROVE TypeOK'
  <2>1. run' \in [Nodes -> RunType]
    BY <1>2 DEF reconcileRepo
  <2>2. reconciled' \in [Nodes -> SUBSET Commits]
    BY <1>2 DEF reconcileRepo
  <2> QED BY <1>2, <2>1, <2>2 DEF reconcileRepo, gitVars, verifyVars
<1>3. ASSUME NEW n \in Nodes, finalizeNodeStatus(n) PROVE TypeOK'
  <2>1. doc' \in [Nodes -> Doc]
    BY <1>3, DocFacts DEF finalizeNodeStatus
  <2> QED BY <1>3, <2>1 DEF finalizeNodeStatus, Goto, Idle, gitVars, verifyVars
<1>4. ASSUME NEW n \in Nodes, SkipPublish(n) \/ replaceTree(n) \/ PublishStatusBranch(n)
      PROVE  TypeOK'
  <2>1. run' \in [Nodes -> RunType]
    BY <1>4, GotoType DEF SkipPublish, replaceTree, PublishStatusBranch
  <2>2. tree' \in [Nodes -> Doc] /\ remote' \in [Nodes -> Doc]
    BY <1>4 DEF SkipPublish, replaceTree, PublishStatusBranch
  <2>3. UNCHANGED <<gitVars, doc, reconciled, verifyVars, faults>>
    BY <1>4 DEF SkipPublish, replaceTree, PublishStatusBranch
  <2> QED BY <2>1, <2>2, <2>3 DEF gitVars, verifyVars
<1>5. ASSUME NEW n \in Nodes, Abort(n) \/ RecreateHome(n) PROVE TypeOK'
  <2>1. faults' \in 0..MaxFaults
    BY <1>5 DEF Abort, RecreateHome, Fault
  <2>2. run' \in [Nodes -> RunType]
    BY <1>5, GotoType DEF Abort, RecreateHome
  <2> QED BY <1>5, <2>1, <2>2 DEF Abort, RecreateHome, gitVars, verifyVars
<1>6. CASE PushCommit \/ Pull
  BY <1>6, CommitsAssumption DEF PushCommit, Pull, verifyVars, Commits
<1>7. ASSUME NEW c \in {head, checkout}, Ask(c) PROVE TypeOK'
  BY <1>7, CommitsAssumption DEF Ask, participatingNodes, gitVars, nodeVars
<1>8. ASSUME NEW n \in Nodes, fetchNodeStatus(n) PROVE TypeOK'
  BY <1>8, DocFacts DEF fetchNodeStatus, Matches, gitVars, nodeVars
<1>9. CASE Answered \/ PollAgain
  <2>1. asked' \in [on : BOOLEAN, commit : Commits, nodes : SUBSET Nodes,
                    left : SUBSET Nodes, ok : BOOLEAN]
    <3>1. CASE Answered
      BY <3>1, Facts DEF Answered, NotAsked
    <3>2. CASE PollAgain
      BY <3>2 DEF PollAgain
    <3> QED BY <1>9, <3>1, <3>2
  <2>2. \/ verdict' = verdict
        \/ verdict' = [commit |-> asked.commit, nodes |-> asked.nodes]
    BY <1>9 DEF Answered, PollAgain
  <2>3. verdict' = NoVerdict \/ verdict' \in [commit : Commits, nodes : SUBSET Nodes]
    BY <2>2
  <2> QED BY <1>9, <2>1, <2>3 DEF Answered, PollAgain, gitVars, nodeVars
<1>10. CASE UNCHANGED vars
  BY <1>10 DEF vars
<1> QED BY <1>1, <1>2, <1>3, <1>4, <1>5, <1>6, <1>7, <1>8, <1>9, <1>10 DEF Next, NodeStep

(***************************************************************************)
(* Documents, branches and verify commands stay well typed.                *)
(***************************************************************************)
THEOREM TypeCorrect == Spec => []TypeOK
BY InitType, NextType, PTL DEF Spec

-----------------------------------------------------------------------------
(***************************************************************************)
(* The inductive invariant, when no run is cut short by an error before    *)
(* its document is written: a healthy document is true wherever it is on   *)
(* its way to the branch, and so is what verify has seen so far.           *)
(***************************************************************************)
True(n, d) == d.healthy => d.commit \in reconciled[n]
Truthful ==
  \A n \in Nodes :
    /\ True(n, doc[n]) /\ True(n, tree[n]) /\ True(n, remote[n])
    /\ run[n].pc = "finalize" /\ run[n].outcome # "failed" =>
         run[n].want \in reconciled[n]
Seen == asked.on /\ asked.ok =>
          \A n \in asked.nodes \ asked.left : asked.commit \in reconciled[n]
IInv == Truthful /\ Seen

LEMMA InitInv == Init => IInv
BY DEF Init, IInv, Truthful, True, Seen, NoDoc, Idle, NotAsked

LEMMA ReconciledGrows ==
  ASSUME TypeOK, [Next]_vars
  PROVE  \A n \in Nodes : reconciled[n] \subseteq reconciled'[n]
<1>1. ASSUME NEW n \in Nodes, NEW o \in Outcomes, reconcileRepo(n, o)
      PROVE  \A m \in Nodes : reconciled[m] \subseteq reconciled'[m]
  BY <1>1 DEF TypeOK, reconcileRepo
<1>2. ASSUME ~\E n \in Nodes, o \in Outcomes : reconcileRepo(n, o)
      PROVE  reconciled' = reconciled
  BY <1>2 DEF Next, NodeStep, Sync, finalizeNodeStatus, SkipPublish, replaceTree,
             PublishStatusBranch, Abort, RecreateHome, PushCommit, Pull, Ask,
             fetchNodeStatus, Answered, PollAgain, nodeVars, vars
<1> QED BY <1>1, <1>2

LEMMA NextInv ==
  ASSUME "aborted" \notin Outcomes, TypeOK, IInv, [Next]_vars
  PROVE  IInv'
<1> USE DEF IInv, Truthful, True, Seen
<1>0. \A n \in Nodes : reconciled[n] \subseteq reconciled'[n]
  BY ReconciledGrows
<1>1. ASSUME NEW n \in Nodes, Sync(n) PROVE IInv'
  BY <1>1 DEF TypeOK, Sync, verifyVars
<1>2. ASSUME NEW n \in Nodes, NEW o \in Outcomes, reconcileRepo(n, o) PROVE IInv'
  <2>1. o = "ok" \/ o = "failed"
    BY OutcomesAssumption
  <2>2. UNCHANGED <<doc, tree, remote, asked>>
    BY <1>2 DEF reconcileRepo, verifyVars
  <2>3. ASSUME NEW m \in Nodes, run'[m].pc = "finalize", run'[m].outcome # "failed"
        PROVE  run'[m].want \in reconciled'[m]
    <3>1. CASE m = n
      BY <1>2, <2>1, <2>3, <3>1 DEF TypeOK, reconcileRepo
    <3>2. CASE m # n
      BY <1>0, <1>2, <2>3, <3>2 DEF TypeOK, reconcileRepo
    <3> QED BY <3>1, <3>2
  <2>4. Truthful'
    BY <1>0, <2>2, <2>3
  <2>5. Seen'
    BY <1>0, <2>2 DEF TypeOK
  <2> QED BY <2>4, <2>5
<1>3. ASSUME NEW n \in Nodes, finalizeNodeStatus(n) PROVE IInv'
  <2>1. Truthful'
    BY <1>3 DEF TypeOK, finalizeNodeStatus, Goto, Idle
  <2>2. Seen'
    BY <1>3 DEF finalizeNodeStatus, verifyVars
  <2> QED BY <2>1, <2>2
<1>4. ASSUME NEW n \in Nodes, SkipPublish(n) \/ replaceTree(n) \/ PublishStatusBranch(n)
      PROVE  IInv'
  <2>1. Truthful'
    BY <1>4 DEF TypeOK, SkipPublish, replaceTree, PublishStatusBranch, Goto, Idle
  <2>2. Seen'
    BY <1>4 DEF SkipPublish, replaceTree, PublishStatusBranch, verifyVars
  <2> QED BY <2>1, <2>2
<1>5. ASSUME NEW n \in Nodes, Abort(n) \/ RecreateHome(n) PROVE IInv'
  <2>1. Truthful'
    BY <1>5 DEF TypeOK, Abort, RecreateHome, NoDoc, Goto, Idle
  <2>2. Seen'
    BY <1>5 DEF Abort, RecreateHome, verifyVars
  <2> QED BY <2>1, <2>2
<1>6. CASE PushCommit \/ Pull
  BY <1>6 DEF PushCommit, Pull, verifyVars
<1>7. ASSUME NEW c \in {head, checkout}, Ask(c) PROVE IInv'
  BY <1>7 DEF Ask, nodeVars
<1>8. ASSUME NEW n \in Nodes, fetchNodeStatus(n) PROVE IInv'
  <2>1. Truthful'
    BY <1>8 DEF fetchNodeStatus, nodeVars
  <2>2. Seen'
    BY <1>8 DEF TypeOK, fetchNodeStatus, Matches, nodeVars
  <2> QED BY <2>1, <2>2
<1>9. CASE Answered \/ PollAgain
  <2>1. Truthful'
    BY <1>9 DEF Answered, PollAgain, nodeVars
  <2>2. CASE Answered
    BY <2>1, <2>2 DEF Answered, NotAsked
  <2>3. CASE PollAgain
    BY <2>1, <2>3 DEF TypeOK, PollAgain
  <2> QED BY <1>9, <2>2, <2>3
<1>10. CASE UNCHANGED vars
  BY <1>10 DEF vars
<1> QED BY <1>1, <1>2, <1>3, <1>4, <1>5, <1>6, <1>7, <1>8, <1>9, <1>10 DEF Next, NodeStep

-----------------------------------------------------------------------------
LEMMA InitRefines == Init => Contract!Init
BY DEF Init, Contract!Init

\* Every step is a step of the contract or leaves what it speaks of alone.
LEMMA NextRefines ==
  ASSUME TypeOK, IInv, [Next]_vars
  PROVE  [Contract!Next]_<<reconciled, verdict>>
<1>1. ASSUME NEW n \in Nodes, NEW o \in Outcomes, reconcileRepo(n, o)
      PROVE  [Contract!Next]_<<reconciled, verdict>>
  <2>1. run[n].want \in Commits
    BY DEF TypeOK
  <2>2. CASE o = "ok"
    <3>1. Contract!Reconcile(n, run[n].want)
      BY <1>1, <2>2 DEF reconcileRepo, verifyVars, Contract!Reconcile
    <3> QED BY <2>1, <3>1 DEF Contract!Next
  <2>3. CASE o # "ok"
    BY <1>1, <2>3 DEF reconcileRepo, verifyVars
  <2> QED BY <2>2, <2>3
<1>2. CASE Answered
  <2>1. CASE asked.ok
    <3>1. asked.commit \in Commits /\ asked.nodes \in SUBSET Nodes
      BY DEF TypeOK
    <3>2. Contract!Confirm(asked.commit, asked.nodes)
      BY <1>2, <2>1 DEF Answered, nodeVars, IInv, Seen, Contract!Confirm
    <3> QED BY <3>1, <3>2 DEF Contract!Next
  <2>2. CASE ~asked.ok
    BY <1>2, <2>2 DEF Answered, nodeVars
  <2> QED BY <2>1, <2>2
<1>3. ASSUME NEW n \in Nodes,
             \/ Sync(n) \/ finalizeNodeStatus(n) \/ SkipPublish(n) \/ replaceTree(n)
             \/ PublishStatusBranch(n) \/ Abort(n) \/ RecreateHome(n) \/ fetchNodeStatus(n)
      PROVE  UNCHANGED <<reconciled, verdict>>
  BY <1>3 DEF Sync, finalizeNodeStatus, SkipPublish, replaceTree, PublishStatusBranch,
              Abort, RecreateHome, fetchNodeStatus, nodeVars, verifyVars
<1>4. ASSUME NEW c \in {head, checkout}, Ask(c) PROVE UNCHANGED <<reconciled, verdict>>
  BY <1>4 DEF Ask, nodeVars
<1>5. CASE PushCommit \/ Pull \/ PollAgain \/ UNCHANGED vars
  BY <1>5 DEF PushCommit, Pull, PollAgain, nodeVars, verifyVars, vars
<1> QED BY <1>1, <1>2, <1>3, <1>4, <1>5 DEF Next, NodeStep

(***************************************************************************)
(* As long as reconcileRepo reports every problem as a failed project, the *)
(* write-back and verify implement their contract: no OK for a commit some *)
(* node asked did not reconcile completely.                                *)
(***************************************************************************)
THEOREM ContractKept ==
  ASSUME "aborted" \notin Outcomes PROVE Spec => KeepsContract
<1>1. Init => TypeOK /\ IInv
  BY InitType, InitInv
<1>2. TypeOK /\ IInv /\ [Next]_vars => (TypeOK /\ IInv)'
  BY NextType, NextInv
<1>3. TypeOK /\ IInv /\ [Next]_vars => [Contract!Next]_<<reconciled, verdict>>
  BY NextRefines
<1> QED BY <1>1, <1>2, <1>3, InitRefines, PTL DEF Spec, KeepsContract, Contract!Spec

(***************************************************************************)
(* Under the same condition a node's document never calls a commit healthy *)
(* that it did not reconcile to the end: a run cut short by an error is    *)
(* the only source of such a document.                                     *)
(***************************************************************************)
THEOREM HealthyReconciled ==
  ASSUME "aborted" \notin Outcomes PROVE Spec => []HealthyMeansReconciled
<1>1. Init => TypeOK /\ IInv
  BY InitType, InitInv
<1>2. TypeOK /\ IInv /\ [Next]_vars => (TypeOK /\ IInv)'
  BY NextType, NextInv
<1>3. IInv => HealthyMeansReconciled
  BY DEF IInv, Truthful, True, HealthyMeansReconciled
<1> QED BY <1>1, <1>2, <1>3, PTL DEF Spec

-----------------------------------------------------------------------------
(* Which nodes an answer covers.                                           *)

\* The checkout verify takes the nodes from knows every node of the tip.
ChecksOutEnough == ~asked.on /\ asked'.on => Hosts[head] \subseteq Hosts[checkout]

Covers == asked.on => Hosts[asked.commit] \subseteq asked.nodes

LEMMA NextCovers ==
  ASSUME Covers, EveryNodeReports, [Next]_vars, [ChecksOutEnough]_vars
  PROVE  Covers' /\ EveryNodeReports'
<1> USE DEF Covers, EveryNodeReports
<1>1. ASSUME NEW c \in {head, checkout}, Ask(c) PROVE Covers' /\ EveryNodeReports'
  <2>1. ~asked.on /\ asked'.on /\ asked'.commit = c /\ asked'.nodes = Hosts[checkout]
        /\ verdict' = verdict
    BY <1>1 DEF Ask, participatingNodes
  <2>2. Hosts[head] \subseteq Hosts[checkout]
    BY <2>1 DEF ChecksOutEnough, vars
  <2> QED BY <2>1, <2>2
<1>2. CASE Answered
  BY <1>2 DEF Answered, NotAsked
<1>3. ASSUME (\E n \in Nodes : fetchNodeStatus(n)) \/ PollAgain
      PROVE  Covers' /\ EveryNodeReports'
  <2>1. verdict' = verdict /\ \E l, o : asked' = [asked EXCEPT !.left = l, !.ok = o]
    BY <1>3 DEF fetchNodeStatus, PollAgain
  <2> QED BY <2>1
<1>4. ASSUME UNCHANGED verifyVars PROVE Covers' /\ EveryNodeReports'
  BY <1>4 DEF verifyVars
<1>5. ASSUME NEW n \in Nodes, Sync(n) \/ NodeStep(n) \/ Abort(n) \/ RecreateHome(n)
      PROVE  UNCHANGED verifyVars
  BY <1>5 DEF Sync, NodeStep, reconcileRepo, finalizeNodeStatus, SkipPublish, replaceTree,
              PublishStatusBranch, Abort, RecreateHome
<1>6. PushCommit \/ Pull \/ UNCHANGED vars => UNCHANGED verifyVars
  BY DEF PushCommit, Pull, vars, verifyVars
<1> QED BY <1>1, <1>2, <1>3, <1>4, <1>5, <1>6 DEF Next

(***************************************************************************)
(* An OK answer covers every node its commit runs on, if every verify was  *)
(* started on a checkout that knows all the nodes of the branch's tip: a   *)
(* checkout behind a commit that adds a node is the only way to leave one  *)
(* out.                                                                    *)
(***************************************************************************)
THEOREM EveryNodeCovered ==
  Spec /\ [][ChecksOutEnough]_vars => []EveryNodeReports
<1>1. Init => Covers /\ EveryNodeReports
  BY DEF Init, Covers, EveryNodeReports, NotAsked
<1>2. Covers /\ EveryNodeReports /\ [Next]_vars /\ [ChecksOutEnough]_vars
        => (Covers /\ EveryNodeReports)'
  BY NextCovers
<1> QED BY <1>1, <1>2, PTL DEF Spec

-----------------------------------------------------------------------------
(* What an answer is worth.                                                *)

\* The nodes of the last OK reconciled its commit, and a reconcile is not undone.
Confirmed ==
  verdict # NoVerdict => \A n \in verdict.nodes : verdict.commit \in reconciled[n]

LEMMA NextConfirmed ==
  ASSUME TypeOK, IInv, Confirmed, [Next]_vars
  PROVE  Confirmed'
<1> USE DEF Confirmed
<1>1. ASSUME verdict' = verdict PROVE Confirmed'
  BY <1>1, ReconciledGrows DEF TypeOK
<1>2. CASE Answered /\ asked.ok
  <2>1. verdict' = [commit |-> asked.commit, nodes |-> asked.nodes]
        /\ reconciled' = reconciled
    BY <1>2 DEF Answered, nodeVars
  <2>2. \A n \in asked.nodes : asked.commit \in reconciled[n]
    BY <1>2 DEF Answered, IInv, Seen
  <2> QED BY <2>1, <2>2
<1>3. CASE Answered /\ ~asked.ok
  BY <1>1, <1>3 DEF Answered
<1>4. ASSUME NEW n \in Nodes,
             Sync(n) \/ NodeStep(n) \/ Abort(n) \/ RecreateHome(n) \/ fetchNodeStatus(n)
      PROVE  verdict' = verdict
  BY <1>4 DEF Sync, NodeStep, reconcileRepo, finalizeNodeStatus, SkipPublish, replaceTree,
              PublishStatusBranch, Abort, RecreateHome, fetchNodeStatus, verifyVars
<1>5. ASSUME \/ PushCommit \/ Pull \/ PollAgain \/ UNCHANGED vars
             \/ \E c \in {head, checkout} : Ask(c)
      PROVE  verdict' = verdict
  BY <1>5 DEF PushCommit, Pull, PollAgain, Ask, verifyVars, vars
<1> QED BY <1>1, <1>2, <1>3, <1>4, <1>5 DEF Next

(***************************************************************************)
(* The deploy signal from end to end: where reconcileRepo reports every    *)
(* problem as a failed project and verify starts on a checkout that knows  *)
(* the tip's nodes, OK for a commit means that every node the commit       *)
(* places something on has reconciled it to the end, then and ever after.  *)
(***************************************************************************)
THEOREM OkMeansDeployed ==
  ASSUME "aborted" \notin Outcomes
  PROVE  Spec /\ [][ChecksOutEnough]_vars =>
           [](verdict # NoVerdict =>
                \A n \in Hosts[verdict.commit] : verdict.commit \in reconciled[n])
<1>1. Init => TypeOK /\ IInv /\ Confirmed
  BY InitType, InitInv DEF Init, Confirmed
<1>2. TypeOK /\ IInv /\ Confirmed /\ [Next]_vars => (TypeOK /\ IInv /\ Confirmed)'
  BY NextType, NextInv, NextConfirmed
<1>3. Confirmed /\ EveryNodeReports =>
        (verdict # NoVerdict =>
           \A n \in Hosts[verdict.commit] : verdict.commit \in reconciled[n])
  BY DEF Confirmed, EveryNodeReports
<1> QED BY <1>1, <1>2, <1>3, EveryNodeCovered, PTL DEF Spec
=============================================================================
