--------------------------- MODULE DeliveryProofs ---------------------------
(***************************************************************************)
(* Proofs about Delivery for any number of versions, any image references  *)
(* and any bounds.                                                         *)
(***************************************************************************)
EXTENDS Delivery, TLAPS

LEMMA NoneFacts == /\ None \notin Versions /\ 0 \in Versions
                   /\ Versions \subseteq Nat /\ None \in Nat
BY VersionAssumption DEF None, Versions

LEMMA InitType == Init => TypeOK
BY NoneFacts, BoundsAssumption
   DEF Init, TypeOK, Desired, Recorded, Container, Parts, Phases, NoWant, Idle

LEMMA NextType == TypeOK /\ [Next]_vars => TypeOK'
<1> SUFFICES ASSUME TypeOK, [Next]_vars PROVE TypeOK'
  OBVIOUS
<1> USE NoneFacts, BoundsAssumption
<1>0. Idle \in [pc : Phases, want : Desired, force : BOOLEAN, deployed : BOOLEAN]
  BY DEF Idle, NoWant, Desired, Phases, Parts
<1>1. CASE Begin \/ BeginForced
  <2>1. PICK f \in BOOLEAN : Start(f)
    BY <1>1 DEF Begin, BeginForced
  <2>2. operator' = operator \/ Operates
    BY <1>1 DEF Begin, BeginForced
  <2>3. checkout' \in Versions
    BY <2>1 DEF TypeOK, Start, Desired, Parts
  <2> QED BY <2>1, <2>2, <2>3 DEF TypeOK, Start, Operates, Phases
<1>2. CASE SkipFile \/ writeNodeFile
  BY <1>2 DEF TypeOK, SkipFile, writeNodeFile, Goto, Desired, Parts, Phases
<1>3. CASE runReload
  <2>1. recorded' \in Recorded /\ con' \in Container
    BY <1>3 DEF TypeOK, runReload, invalidateDeployHash, Record, Recorded, Container, Parts
  <2> QED BY <1>3, <2>1 DEF TypeOK, runReload, Goto, Phases
<1>4. CASE writeSecretHash \/ writeDeployHash
  <2>1. recorded' \in Recorded
    BY <1>4 DEF TypeOK, writeSecretHash, writeDeployHash, Record, Recorded, Desired, Parts
  <2> QED BY <1>4, <2>1 DEF TypeOK, writeSecretHash, writeDeployHash, Goto, Phases
<1>5. CASE writeMountHash
  <2>1. recorded' \in Recorded
    BY <1>5 DEF TypeOK, writeMountHash, Record, Recorded, Desired, Parts
  <2> QED BY <1>0, <1>5, <2>1 DEF TypeOK, writeMountHash
<1>6. CASE SkipProject \/ WaitHealthy
  BY <1>6 DEF TypeOK, SkipProject, WaitHealthy, Goto, Phases
<1>7. CASE Deploy
  BY <1>7 DEF TypeOK, Deploy, Started, Container, Goto, Desired, Parts, Phases
<1>8. CASE WaitFails \/ MountUnchanged
  BY <1>0, <1>8 DEF TypeOK, WaitFails, MountUnchanged
<1>9. CASE SignalMount
  BY <1>9 DEF TypeOK, SignalMount, Container, Goto, Phases
<1>10. CASE Abort
  BY <1>0, <1>10 DEF TypeOK, Abort, Fault
<1>11. ASSUME NEW p \in Parts, Push(p) PROVE TypeOK'
  <2>1. desired' \in Desired
    BY <1>11 DEF TypeOK, Push, Desired
  <2> QED BY <1>11, <2>1 DEF TypeOK, Push, Operates
<1>12. CASE BecomeHealthy
  BY <1>12 DEF TypeOK, BecomeHealthy, Container
<1>13. CASE Exit \/ Restart
  BY <1>13 DEF TypeOK, Exit, Restart, Started, Container, Fault
<1>14. CASE LoseFile
  BY <1>14 DEF TypeOK, LoseFile, Fault
<1>15. CASE UNCHANGED vars
  BY <1>15 DEF vars, TypeOK
<1> QED BY <1>1, <1>2, <1>3, <1>4, <1>5, <1>6, <1>7, <1>8, <1>9, <1>10, <1>11,
           <1>12, <1>13, <1>14, <1>15 DEF Next, Step

(***************************************************************************)
(* The document, the host and the consumer stay well typed.                *)
(***************************************************************************)
THEOREM TypeCorrect == Spec => []TypeOK
BY InitType, NextType, PTL DEF Spec

-----------------------------------------------------------------------------
(***************************************************************************)
(* The inductive invariant, for a branch that only goes forward. Versions  *)
(* then only grow on their way from the branch to the run, the host, the   *)
(* container and the document (Order), a hook runs with the new file in    *)
(* place (Written), and the container is never behind the document unless  *)
(* its fingerprint is cleared (Owed).                                      *)
(***************************************************************************)
Upto(b) == /\ disk # None => disk <= b
           /\ con.file # None => con.file <= b
           /\ recorded["file"] # None => recorded["file"] <= b
Order ==
  /\ Upto(desired["file"])
  /\ run.pc # "idle" => Upto(run.want["file"]) /\ run.want["file"] <= desired["file"]
  /\ disk # None /\ con.file # None => con.file <= disk
  /\ disk # None /\ recorded["file"] # None => recorded["file"] <= disk
Written ==
  run.pc \in {"hook", "recordFile"} => disk = run.want["file"] \/ disk = None
Newer ==
  con.file # None /\ recorded["file"] # None => recorded["file"] <= con.file
Cleared == reload = "recreate" /\ recorded["cfg"] = None
Owed ==
  /\ Up => Newer \/ Cleared
  /\ run.pc = "recordFile" /\ Up /\ con.file # None =>
       con.file = run.want["file"] \/ Cleared
  /\ run.pc \in {"wait", "recordConfig"} /\ Up => Newer
IInv == Order /\ Written /\ Owed

LEMMA InitInv == Init => IInv
BY NoneFacts
   DEF Init, IInv, Order, Written, Newer, Cleared, Owed, Upto, Up, NoWant, Idle, Parts

LEMMA NextInv ==
  ASSUME Reverts = FALSE, TypeOK, IInv, [Next]_vars
  PROVE  IInv'
<1> USE DEF IInv, Order, Written, Newer, Cleared, Owed, Upto, Up
<1>t. /\ None \in Nat /\ disk \in Nat /\ con.file \in Nat /\ recorded["file"] \in Nat
      /\ desired["file"] \in Nat /\ desired["file"] # None
      /\ run.want["file"] \in Nat /\ run.want["file"] # None
      /\ "cfg" \in Parts /\ "file" \in Parts /\ "mount" \in Parts
  BY NoneFacts DEF TypeOK, Desired, Recorded, Container, Parts
<1>1. CASE Begin \/ BeginForced
  <2>1. PICK f \in BOOLEAN : Start(f)
    BY <1>1 DEF Begin, BeginForced
  <2>2. run'.pc = "file" /\ run'.want = desired
    BY <2>1 DEF Start
  <2>3. UNCHANGED <<reload, desired, disk, recorded, con>>
    BY <2>1 DEF Start
  <2> QED BY <2>2, <2>3, <1>t
<1>2. CASE SkipFile \/ writeNodeFile
  BY <1>2, <1>t DEF TypeOK, SkipFile, writeNodeFile, Goto
<1>3. CASE runReload
  BY <1>3, <1>t DEF TypeOK, runReload, invalidateDeployHash, Goto, Record, Recorded, Container
<1>4. CASE writeSecretHash
  BY <1>4, <1>t DEF TypeOK, writeSecretHash, Goto, Record, Recorded
<1>5. CASE SkipProject \/ WaitHealthy
  BY <1>5, <1>t DEF TypeOK, SkipProject, WaitHealthy, Goto
<1>6. CASE Deploy
  BY <1>6, <1>t DEF TypeOK, Deploy, Started, Goto
<1>7. CASE writeDeployHash
  BY <1>7, <1>t DEF TypeOK, writeDeployHash, Record, Recorded
<1>8. CASE writeMountHash
  BY <1>8, <1>t DEF TypeOK, writeMountHash, Record, Recorded, Idle
<1>9. CASE WaitFails \/ MountUnchanged \/ Abort
  BY <1>9, <1>t DEF TypeOK, WaitFails, MountUnchanged, Abort, Idle
<1>10. CASE SignalMount
  BY <1>10, <1>t DEF TypeOK, SignalMount, Goto, Container
<1>11. ASSUME NEW p \in Parts, Push(p) PROVE IInv'
  <2>0. Reverts => FALSE
    OBVIOUS
  <2>1. PICK v \in Versions : v = desired[p] + 1 /\ desired' = [desired EXCEPT ![p] = v]
    BY <1>11, <2>0, Zenon DEF Push
  <2>2. desired \in [Parts -> Versions]
    BY DEF TypeOK, Desired
  <2>3. desired'["file"] \in {desired["file"], desired["file"] + 1}
    BY <2>1, <2>2, <1>t
  <2>4. UNCHANGED <<reload, disk, recorded, con, run>>
    BY <1>11 DEF Push
  <2> QED BY <1>t, <2>3, <2>4
<1>12. CASE BecomeHealthy
  BY <1>12, <1>t DEF TypeOK, BecomeHealthy, Container
<1>13. CASE Exit \/ Restart
  BY <1>13, <1>t DEF TypeOK, Exit, Restart, Started, Container
<1>14. CASE LoseFile
  BY <1>14, <1>t DEF LoseFile
<1>15. CASE UNCHANGED vars
  BY <1>15 DEF vars
<1> QED BY <1>1, <1>2, <1>3, <1>4, <1>5, <1>6, <1>7, <1>8, <1>9, <1>10, <1>11,
           <1>12, <1>13, <1>14, <1>15 DEF Next, Step

(***************************************************************************)
(* The same for the mounted directory: the document is never ahead of the  *)
(* container, nor the container of the checkout, and from its deploy on to *)
(* the record a run's container has what the run pulled.                   *)
(***************************************************************************)
MountInv ==
  /\ checkout <= desired["mount"]
  /\ run.pc # "idle" => run.want["mount"] = checkout
  /\ recorded["mount"] # None => recorded["mount"] <= checkout
  /\ con.st # "absent" => con.mount # None /\ con.mount <= checkout
  /\ recorded["mount"] # None /\ Up => recorded["mount"] <= con.mount
  /\ run.pc \in {"wait", "recordConfig", "recordMount"} /\ Up => con.mount = checkout
  /\ run.pc = "mount" /\ run.deployed /\ Up => con.mount = checkout
  /\ run.pc \in {"file", "hook", "recordFile", "project"} => ~run.deployed

LEMMA InitMount == Init => MountInv
BY NoneFacts DEF Init, MountInv, Up, NoWant, Idle, Parts

LEMMA NextMount ==
  ASSUME Reverts = FALSE, TypeOK, MountInv, [Next]_vars
  PROVE  MountInv'
<1> USE DEF MountInv, Up
<1>t. /\ None \in Nat /\ con.mount \in Nat /\ recorded["mount"] \in Nat
      /\ checkout \in Nat /\ checkout # None /\ run.want["mount"] \in Nat
      /\ desired["mount"] \in Nat /\ desired["mount"] # None
      /\ "cfg" \in Parts /\ "file" \in Parts /\ "mount" \in Parts
  BY NoneFacts DEF TypeOK, Desired, Recorded, Container, Parts
<1>1. CASE Begin \/ BeginForced
  <2>1. PICK f \in BOOLEAN : Start(f)
    BY <1>1 DEF Begin, BeginForced
  <2>2. run'.pc = "file" /\ run'.want = desired /\ ~run'.deployed
    BY <2>1 DEF Start
  <2>3. UNCHANGED <<desired, recorded, con>> /\ checkout' = desired["mount"]
    BY <2>1 DEF Start
  <2> QED BY <2>2, <2>3, <1>t
<1>2. CASE SkipFile \/ writeNodeFile
  BY <1>2, <1>t DEF TypeOK, SkipFile, writeNodeFile, Goto
<1>3. CASE runReload
  BY <1>3, <1>t DEF TypeOK, runReload, invalidateDeployHash, Goto, Record, Recorded, Container
<1>4. CASE writeSecretHash
  BY <1>4, <1>t DEF TypeOK, writeSecretHash, Goto, Record, Recorded
<1>5. CASE SkipProject \/ WaitHealthy
  BY <1>5, <1>t DEF TypeOK, SkipProject, WaitHealthy, Goto
<1>6. CASE Deploy
  BY <1>6, <1>t DEF TypeOK, Deploy, Started, Goto
<1>7. CASE writeDeployHash
  BY <1>7, <1>t DEF TypeOK, writeDeployHash, Record, Recorded
<1>8. CASE writeMountHash
  BY <1>8, <1>t DEF TypeOK, writeMountHash, Record, Recorded, Idle
<1>9. CASE WaitFails \/ MountUnchanged \/ Abort
  BY <1>9, <1>t DEF TypeOK, WaitFails, MountUnchanged, Abort, Idle
<1>10. CASE SignalMount
  BY <1>10, <1>t DEF TypeOK, SignalMount, Goto, Container
<1>11. ASSUME NEW p \in Parts, Push(p) PROVE MountInv'
  <2>0. Reverts => FALSE
    OBVIOUS
  <2>1. PICK v \in Versions : v = desired[p] + 1 /\ desired' = [desired EXCEPT ![p] = v]
    BY <1>11, <2>0, Zenon DEF Push
  <2>2. desired \in [Parts -> Versions]
    BY DEF TypeOK, Desired
  <2>3. desired'["mount"] \in {desired["mount"], desired["mount"] + 1}
    BY <2>1, <2>2, <1>t
  <2>4. UNCHANGED <<checkout, recorded, con, run>>
    BY <1>11 DEF Push
  <2> QED BY <1>t, <2>3, <2>4
<1>12. CASE BecomeHealthy
  BY <1>12, <1>t DEF TypeOK, BecomeHealthy, Container
<1>13. CASE Exit \/ Restart
  BY <1>13, <1>t DEF TypeOK, Exit, Restart, Started, Container
<1>14. CASE LoseFile \/ UNCHANGED vars
  BY <1>14, <1>t DEF LoseFile, vars
<1> QED BY <1>1, <1>2, <1>3, <1>4, <1>5, <1>6, <1>7, <1>8, <1>9, <1>10, <1>11,
           <1>12, <1>13, <1>14 DEF Next, Step

LEMMA Invariants ==
  ASSUME Reverts = FALSE PROVE Spec => [](TypeOK /\ IInv /\ MountInv)
<1>1. Init => TypeOK /\ IInv /\ MountInv
  BY InitType, InitInv, InitMount
<1>2. TypeOK /\ IInv /\ MountInv /\ [Next]_vars => (TypeOK /\ IInv /\ MountInv)'
  BY NextType, NextInv, NextMount
<1> QED BY <1>1, <1>2, PTL DEF Spec

LEMMA InvDelivered == TypeOK /\ IInv /\ MountInv => DeliveredBeforeRecorded
<1> SUFFICES ASSUME TypeOK, IInv, MountInv PROVE FileLoaded /\ MountLoaded
  BY DEF DeliveredBeforeRecorded
<1>1. /\ disk \in Nat /\ con.file \in Nat /\ con.mount \in Versions \cup {None}
      /\ recorded["mount"] \in Nat
  BY NoneFacts DEF TypeOK, Container, Recorded, Parts
<1>2. FileLoaded
  BY <1>1 DEF FileLoaded, StartedWithFile, IInv, Order, Owed, Newer, Cleared
<1>3. MountLoaded
  BY <1>1, VersionAssumption DEF MountLoaded, MountInv, Up, Versions
<1> QED BY <1>2, <1>3

(***************************************************************************)
(* While the branch only goes forward, a file the document records is      *)
(* never one the running consumer still has to be given, nor a mounted     *)
(* directory one it has not loaded, wherever runs are cut off and whatever *)
(* happens to the container and the host's file.                           *)
(***************************************************************************)
THEOREM FileDelivered ==
  ASSUME Reverts = FALSE PROVE Spec => []DeliveredBeforeRecorded
BY Invariants, InvDelivered, PTL

LEMMA SkipStep ==
  ASSUME TypeOK, IInv, SkipFile PROVE disk = run.want["file"]
<1>1. recorded["file"] = run.want["file"] /\ disk # None /\ run.pc = "file"
  BY DEF SkipFile, Unchanged
<1>2. disk \in Nat /\ run.want["file"] \in Nat /\ run.want["file"] # None
  BY NoneFacts DEF TypeOK, Desired, Parts
<1> QED BY <1>1, <1>2 DEF IInv, Order, Upto

(***************************************************************************)
(* While the branch only goes forward, a file that is passed over is the   *)
(* one desired: the document is never ahead of the disk, nor the disk of   *)
(* the run, so when document and run agree, the disk lies between them.    *)
(***************************************************************************)
THEOREM SkippedIsDesired ==
  ASSUME Reverts = FALSE PROVE Spec => SkippedFileIsDesired
<1>1. TypeOK /\ IInv => [SkipFile => disk = run.want["file"]]_vars
  BY SkipStep
<1> QED BY <1>1, Invariants, PTL DEF SkippedFileIsDesired

-----------------------------------------------------------------------------
(* A converged node is left alone.                                         *)

LEMMA SettledStep ==
  ASSUME TypeOK, [Next]_vars, Settled, operator' = operator, faults' = faults
  PROVE  Settled'
<1>1. /\ desired["file"] \in Versions /\ desired["file"] # None
      /\ operator \in Nat /\ faults \in Nat
  BY NoneFacts, BoundsAssumption DEF TypeOK, Desired, Parts
<1>2. /\ Up /\ con.st = "healthy" /\ con.cfg = desired["cfg"]
      /\ recorded = desired /\ disk = desired["file"]
  BY DEF Settled, Converged, Up
<1>3. CASE Begin
  <2>1. run'.pc = "file" /\ run'.want = desired /\ ~run'.force /\ ~run'.deployed
    BY <1>3 DEF Begin, Start
  <2> QED BY <1>3, <2>1 DEF Begin, Start, Settled, Converged
<1>4. CASE Step
  <2>1. /\ run.pc \in {"file", "project", "mount"} /\ run # Idle
        /\ run.want = desired /\ ~run.force /\ ~run.deployed
    BY <1>4 DEF Settled, Step, SkipFile, writeNodeFile, runReload, writeSecretHash,
       SkipProject, Deploy, WaitHealthy, WaitFails, writeDeployHash, MountUnchanged,
       SignalMount, writeMountHash, Idle
  <2>2. Unchanged /\ InSync
    BY <1>1, <1>2, <2>1 DEF Unchanged, InSync
  <2>3. CASE SkipFile \/ SkipProject
    <3>1. /\ run'.pc \in {"project", "mount"}
          /\ run'.want = run.want /\ run'.force = run.force /\ run'.deployed = run.deployed
      BY <2>3 DEF SkipFile, SkipProject, Goto, TypeOK
    <3> QED BY <2>1, <2>3, <3>1 DEF SkipFile, SkipProject, Settled, Converged
  <2>4. CASE MountUnchanged
    BY <2>4 DEF MountUnchanged, Settled, Converged, Idle
  <2> QED BY <1>2, <1>4, <2>1, <2>2, <2>3, <2>4
          DEF Step, writeNodeFile, runReload, writeSecretHash, Deploy, WaitHealthy,
              WaitFails, writeDeployHash, SignalMount, writeMountHash
<1>5. CASE BeginForced \/ \E p \in Parts : Push(p)
  <2>1. Operates
    BY <1>5 DEF BeginForced, Push
  <2> QED BY <1>1, <2>1 DEF Operates
<1>6. CASE Abort \/ Exit \/ Restart \/ LoseFile
  BY <1>1, <1>6 DEF Abort, Exit, Restart, LoseFile, Fault
<1>7. CASE BecomeHealthy
  BY <1>2, <1>7 DEF BecomeHealthy
<1>8. CASE UNCHANGED vars
  BY <1>8 DEF vars, Settled, Converged
<1> QED BY <1>3, <1>4, <1>5, <1>6, <1>7, <1>8 DEF Next

(***************************************************************************)
(* A consumer that has everything is left alone: no unforced run writes    *)
(* its file, repeats its hook, redeploys or signals it, with or without    *)
(* reverts on the branch.                                                  *)
(***************************************************************************)
THEOREM ConvergedLeftAlone == Spec => StaysSettled
<1>1. TypeOK /\ [Next]_vars =>
        [Settled /\ operator' = operator /\ faults' = faults => Settled']_vars
  BY SettledStep
<1> QED BY <1>1, TypeCorrect, PTL DEF Spec, StaysSettled
=============================================================================
