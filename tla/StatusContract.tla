--------------------------- MODULE StatusContract ---------------------------
(***************************************************************************)
(* What status write-back and verify promise a delivery pipeline, without  *)
(* saying how: a commit is reported as deployed only when every node asked *)
(* about has reconciled it completely. Pipeline implements this.           *)
(***************************************************************************)
CONSTANTS Nodes, Commits, NoVerdict

VARIABLES
  reconciled,  \* reconciled[n]: commits node n has reconciled completely
  verdict      \* the last OK: the commit, and the nodes it speaks for

Init ==
  /\ reconciled = [n \in Nodes |-> {}]
  /\ verdict = NoVerdict

Reconcile(n, c) ==
  /\ reconciled' = [reconciled EXCEPT ![n] = @ \cup {c}]
  /\ UNCHANGED verdict

Confirm(c, S) ==
  /\ \A n \in S : c \in reconciled[n]
  /\ verdict' = [commit |-> c, nodes |-> S]
  /\ UNCHANGED reconciled

Next ==
  \/ \E n \in Nodes, c \in Commits : Reconcile(n, c)
  \/ \E c \in Commits, S \in SUBSET Nodes : Confirm(c, S)

Spec == Init /\ [][Next]_<<reconciled, verdict>>
=============================================================================
