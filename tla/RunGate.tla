------------------------------- MODULE RunGate -------------------------------
(***************************************************************************)
(* What the lock and the pause of a home promise to everything else, with  *)
(* the flock, the marker file and the clock left out: runs work one at a   *)
(* time, a hold begins only in an idle moment, and while it lasts only a   *)
(* run told to override it starts. Fleet, BlueGreen, Delivery and Pipeline *)
(* model one run of a home at a time and rest on this.                     *)
(*                                                                         *)
(* Modelled code: the promises in the comments of lock                     *)
(* (internal/reconcile/reconcile.go) and of isPaused and WaitForIdle       *)
(* (internal/reconcile/pause.go). PauseGate is the detail and implements   *)
(* it (KeepsGate there).                                                   *)
(***************************************************************************)
CONSTANT Runs

VARIABLES
  active,    \* the runs that reconcile
  ordinary,  \* those of them that were not told to override a hold
  held       \* the operator was told the home is idle and still relies on it

gate == <<active, ordinary, held>>

Init == active = {} /\ ordinary = {} /\ held = FALSE

Start(r, override) ==
  /\ active = {}
  /\ held => override
  /\ active' = {r}
  /\ ordinary' = IF override THEN {} ELSE {r}
  /\ UNCHANGED held

End(r) ==
  /\ active' = active \ {r}
  /\ ordinary' = ordinary \ {r}
  /\ UNCHANGED held

Hold == active = {} /\ held' = TRUE /\ UNCHANGED <<active, ordinary>>

Release == held' = FALSE /\ UNCHANGED <<active, ordinary>>

Next ==
  \/ \E r \in Runs : End(r) \/ \E override \in BOOLEAN : Start(r, override)
  \/ Hold
  \/ Release

Spec == Init /\ [][Next]_gate
=============================================================================
