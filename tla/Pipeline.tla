------------------------------ MODULE Pipeline ------------------------------
(***************************************************************************)
(* The deploy signal of one environment: every node reconciles the branch  *)
(* head, writes the outcome into its local status document and mirrors the *)
(* document to its own status branch; verify reads those branches with git *)
(* alone and answers whether a commit is deployed.                         *)
(*                                                                         *)
(* Modelled code: runNode around reconcileRepo, finalizeNodeStatus and     *)
(* publishStatus (internal/reconcile/reconcile.go), PublishStatusBranch    *)
(* (internal/gitsync/gitsync.go) and all of internal/verify/verify.go.     *)
(* What happens inside reconcileRepo is its outcome here. Git contents are *)
(* commit numbers and documents; reconciledAt, which every document renews *)
(* and only the "always" mode looks at, is left out of them.               *)
(***************************************************************************)
EXTENDS Naturals, FiniteSets

CONSTANTS
  Nodes,
  MaxCommit,  \* bound: commits pushed to the deployed branch
  Hosts,      \* Hosts[c]: the nodes that run a stack of the environment at c
  Outcomes,   \* how reconcileRepo may end: "ok", "failed", "aborted"
  Mode,       \* Mode[n]: "always" with StatusWritebackAlways, else "changes"
  MaxFaults,  \* bound: failed calls, killed runs, recreated homes
  MaxAsked,   \* bound: verify commands
  NoVerdict

Commits == 1..MaxCommit

ASSUME CommitsAssumption == MaxCommit \in Nat \ {0} /\ Hosts \in [Commits -> SUBSET Nodes]
ASSUME OutcomesAssumption == "ok" \in Outcomes /\ Outcomes \subseteq {"ok", "failed", "aborted"}
ASSUME ModeAssumption == Mode \in [Nodes -> {"changes", "always"}]
ASSUME PipelineBoundsAssumption == MaxFaults \in Nat /\ MaxAsked \in Nat

VARIABLES
  head,        \* the commit at the tip of the deployed branch
  checkout,    \* the commit checked out where verify runs
  doc,         \* doc[n]: <home>/status/<env>.yml
  tree,        \* tree[n]: the document in the working tree of <home>/status-git
  remote,      \* remote[n]: the document on the node's status branch
  run,         \* run[n]: the node's run in progress
  reconciled,  \* ghost: commits whose reconcile on n ended without any error
  asked,       \* the verify command in progress
  verdict,     \* the last OK a verify command gave
  faults, asks

vars == <<head, checkout, doc, tree, remote, run, reconciled, asked, verdict,
          faults, asks>>
gitVars == <<head, checkout>>
verifyVars == <<asked, verdict, asks>>

NoDoc == [commit |-> 0, healthy |-> FALSE]
Doc == [commit : Commits, healthy : BOOLEAN] \cup {NoDoc}
Idle == [pc |-> "idle", want |-> 1, outcome |-> "ok"]
NotAsked == [on |-> FALSE, commit |-> 1, nodes |-> {}, left |-> {}, ok |-> TRUE]

Init ==
  /\ head = 1
  /\ checkout = 1
  /\ doc = [n \in Nodes |-> NoDoc]
  /\ tree = [n \in Nodes |-> NoDoc]
  /\ remote = [n \in Nodes |-> NoDoc]
  /\ run = [n \in Nodes |-> Idle]
  /\ reconciled = [n \in Nodes |-> {}]
  /\ asked = NotAsked
  /\ verdict = NoVerdict
  /\ faults = 0
  /\ asks = 0

Fault == faults < MaxFaults /\ faults' = faults + 1
\* From the document on, a run no longer uses what it deployed and how.
Goto(n, p) == run' = [run EXCEPT ![n] = [Idle EXCEPT !.pc = p]]

-----------------------------------------------------------------------------
(* A node's run.                                                           *)

\* Mutant: a pull that failed is not noticed and leaves the run without a commit.
UnnoticedPullFailure(n) ==
  /\ run[n].pc = "idle"
  /\ run' = [run EXCEPT ![n] = [pc |-> "reconcile", want |-> 0, outcome |-> "ok"]]
  /\ UNCHANGED <<gitVars, doc, tree, remote, reconciled, verifyVars, faults>>

\* gitsync.Sync: what the run deploys is the branch head of this moment.
Sync(n) ==
  /\ run[n].pc = "idle"
  /\ run' = [run EXCEPT ![n] = [pc |-> "reconcile", want |-> head, outcome |-> "ok"]]
  /\ UNCHANGED <<gitVars, doc, tree, remote, reconciled, verifyVars, faults>>

\* A node the commit places nothing on has nothing that could fail.
reconcileRepo(n, o) ==
  /\ run[n].pc = "reconcile"
  /\ n \notin Hosts[run[n].want] => o = "ok"
  /\ run' = [run EXCEPT ![n].pc = "finalize", ![n].outcome = o]
  /\ reconciled' = IF o = "ok" THEN [reconciled EXCEPT ![n] = @ \cup {run[n].want}]
                               ELSE reconciled
  /\ UNCHANGED <<gitVars, doc, tree, remote, verifyVars, faults>>

\* Mutant: the document names the branch head instead of the commit deployed.
FinalizeHead(n) ==
  /\ run[n].pc = "finalize"
  /\ doc' = [doc EXCEPT ![n] = [commit |-> head,
                                healthy |-> run[n].outcome # "failed"]]
  /\ Goto(n, "publish")
  /\ UNCHANGED <<gitVars, tree, remote, reconciled, verifyVars, faults>>

\* Healthy is res.Failed == 0: a run cut short by an error counts no failure.
finalizeNodeStatus(n) ==
  /\ run[n].pc = "finalize"
  /\ doc' = [doc EXCEPT ![n] = [commit |-> run[n].want,
                                healthy |-> run[n].outcome # "failed"]]
  /\ Goto(n, "publish")
  /\ UNCHANGED <<gitVars, tree, remote, reconciled, verifyVars, faults>>

\* Mutant: every node compares before it publishes.
ChangedOnly(n) == tree[n] # doc[n]

statusChangedSincePublish(n) == Mode[n] = "always" \/ tree[n] # doc[n]

SkipPublish(n) ==
  /\ run[n].pc = "publish"
  /\ ~statusChangedSincePublish(n)
  /\ Goto(n, "idle")
  /\ UNCHANGED <<gitVars, doc, tree, remote, reconciled, verifyVars, faults>>

replaceTree(n) ==
  /\ run[n].pc = "publish"
  /\ statusChangedSincePublish(n)
  /\ tree' = [tree EXCEPT ![n] = doc[n]]
  /\ Goto(n, "push")
  /\ UNCHANGED <<gitVars, doc, remote, reconciled, verifyVars, faults>>

\* The commit and the forced push.
PublishStatusBranch(n) ==
  /\ run[n].pc = "push"
  /\ remote' = [remote EXCEPT ![n] = tree[n]]
  /\ Goto(n, "idle")
  /\ UNCHANGED <<gitVars, doc, tree, reconciled, verifyVars, faults>>

\* A failed call or a kill: the rest of the run does not happen.
Abort(n) ==
  /\ run[n].pc # "idle"
  /\ Fault
  /\ Goto(n, "idle")
  /\ UNCHANGED <<gitVars, doc, tree, remote, reconciled, verifyVars>>

\* The node is set up again in a new home.
RecreateHome(n) ==
  /\ run[n].pc = "idle"
  /\ doc[n] # NoDoc
  /\ Fault
  /\ doc' = [doc EXCEPT ![n] = NoDoc]
  /\ tree' = [tree EXCEPT ![n] = NoDoc]
  /\ UNCHANGED <<gitVars, remote, run, reconciled, verifyVars>>

-----------------------------------------------------------------------------
(* The deployed branch and verify.                                         *)

PushCommit ==
  /\ head < MaxCommit
  /\ head' = head + 1
  /\ UNCHANGED <<checkout, doc, tree, remote, run, reconciled, verifyVars, faults>>

Pull ==
  /\ checkout # head
  /\ checkout' = head
  /\ UNCHANGED <<head, doc, tree, remote, run, reconciled, verifyVars, faults>>

nodeVars == <<doc, tree, remote, run, reconciled>>

\* Run asks about the checkout's HEAD, RunHome about the tip it just fetched;
\* both take the nodes to ask from the checkout.
participatingNodes == Hosts[checkout]
Ask(c) ==
  /\ ~asked.on
  /\ asks < MaxAsked
  /\ participatingNodes # {}
  /\ asks' = asks + 1
  /\ asked' = [on |-> TRUE, commit |-> c, nodes |-> participatingNodes,
               left |-> participatingNodes, ok |-> TRUE]
  /\ UNCHANGED <<gitVars, nodeVars, verdict, faults>>

\* Mutant: a node on the desired commit counts whether it is healthy or not.
CommitMatches(d) == d.commit = asked.commit

Matches(d) == d.commit = asked.commit /\ d.healthy

fetchNodeStatus(n) ==
  /\ asked.on
  /\ n \in asked.left
  /\ asked' = [asked EXCEPT !.left = @ \ {n}, !.ok = @ /\ Matches(remote[n])]
  /\ UNCHANGED <<gitVars, nodeVars, verdict, faults, asks>>

\* Every node was asked: that is the answer, unless --wait polls once more.
Answered ==
  /\ asked.on /\ asked.left = {}
  /\ verdict' = IF asked.ok THEN [commit |-> asked.commit, nodes |-> asked.nodes]
                            ELSE verdict
  /\ asked' = NotAsked
  /\ UNCHANGED <<gitVars, nodeVars, faults, asks>>

\* Mutant: the next poll does not forget that the last one failed.
PollOn ==
  /\ asked.on /\ asked.left = {} /\ ~asked.ok
  /\ asked' = [asked EXCEPT !.left = asked.nodes]
  /\ UNCHANGED <<gitVars, nodeVars, verdict, faults, asks>>

PollAgain ==
  /\ asked.on /\ asked.left = {} /\ ~asked.ok
  /\ asked' = [asked EXCEPT !.left = asked.nodes, !.ok = TRUE]
  /\ UNCHANGED <<gitVars, nodeVars, verdict, faults, asks>>

-----------------------------------------------------------------------------
NodeStep(n) ==
  \/ \E o \in Outcomes : reconcileRepo(n, o)
  \/ finalizeNodeStatus(n) \/ SkipPublish(n) \/ replaceTree(n) \/ PublishStatusBranch(n)

Next ==
  \/ \E n \in Nodes : Sync(n) \/ NodeStep(n) \/ Abort(n) \/ RecreateHome(n)
  \/ PushCommit \/ Pull
  \/ \E c \in {head, checkout} : Ask(c)
  \/ \E n \in Nodes : fetchNodeStatus(n)
  \/ Answered \/ PollAgain

Spec == Init /\ [][Next]_vars

(***************************************************************************)
(* cron runs every node again and again, a run's calls return, and a       *)
(* verify command goes on polling until it has its answer.                 *)
(***************************************************************************)
Fairness ==
  /\ \A n \in Nodes : WF_vars(Sync(n)) /\ WF_vars(NodeStep(n)) /\ WF_vars(fetchNodeStatus(n))
  /\ WF_vars(Answered \/ PollAgain)
FairSpec == Spec /\ Fairness

-----------------------------------------------------------------------------
(* Properties.                                                             *)

TypeOK ==
  /\ head \in Commits /\ checkout \in Commits
  /\ doc \in [Nodes -> Doc] /\ tree \in [Nodes -> Doc] /\ remote \in [Nodes -> Doc]
  /\ run \in [Nodes -> [pc : {"idle", "reconcile", "finalize", "publish", "push"},
                        want : Commits, outcome : Outcomes]]
  /\ reconciled \in [Nodes -> SUBSET Commits]
  /\ asked \in [on : BOOLEAN, commit : Commits, nodes : SUBSET Nodes,
                left : SUBSET Nodes, ok : BOOLEAN]
  /\ verdict = NoVerdict
     \/ verdict \in [commit : Commits, nodes : SUBSET Nodes]
  /\ faults \in 0..MaxFaults /\ asks \in 0..MaxAsked

(***************************************************************************)
(* The write-back and verify keep the contract: an OK answer means that    *)
(* every node asked reconciled exactly that commit without a failure, in   *)
(* whatever order nodes run, fail, publish and are read.                   *)
(***************************************************************************)
Contract ==
  INSTANCE StatusContract WITH Nodes <- Nodes, Commits <- Commits, NoVerdict <- NoVerdict,
                               reconciled <- reconciled, verdict <- verdict
KeepsContract == Contract!Spec

(***************************************************************************)
(* The status branch catches up with the local status again and again,     *)
(* lost publishes included: a node in the "always" mode repeats them, any  *)
(* other makes up for them with the next status that differs. It stays     *)
(* behind for good only after a failure and only for as long as the status *)
(* is the one that publishStatus has in the working tree already.          *)
(***************************************************************************)
MirrorsLocal ==
  \A n \in Nodes :
    \/ []<>(remote[n] = doc[n])
    \/ <>[](Mode[n] = "changes" /\ faults > 0 /\ tree[n] = doc[n])

(***************************************************************************)
(* A verify that polls does not overlook success: it cannot go on polling  *)
(* while every branch it asks for shows the commit as healthy.             *)
(***************************************************************************)
SuccessIsSeen ==
  ~<>[](asked.on /\ \A n \in asked.nodes : Matches(remote[n]))

(***************************************************************************)
(* "Publishing the whole set keeps the branch a faithful mirror of the     *)
(* node's local status" (gatherStatusFiles), in every mode.                *)
(***************************************************************************)
FaithfulMirror == \A n \in Nodes : []<>(remote[n] = doc[n])

(***************************************************************************)
(* "wait for a deployment to complete: it ... polls verify until every     *)
(* node reports that commit as healthy" (package verify): an OK answer     *)
(* covers every node the commit places the environment on.                 *)
(***************************************************************************)
EveryNodeReports ==
  verdict # NoVerdict => Hosts[verdict.commit] \subseteq verdict.nodes

(***************************************************************************)
(* "Finalise the environment's status document regardless of outcome, so a *)
(* partial failure is recorded as unhealthy" (runNode): a healthy document *)
(* names a commit the node reconciled to the end.                          *)
(***************************************************************************)
HealthyMeansReconciled ==
  \A n \in Nodes : doc[n].healthy => doc[n].commit \in reconciled[n]
=============================================================================
