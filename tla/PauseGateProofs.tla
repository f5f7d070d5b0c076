-------------------------- MODULE PauseGateProofs --------------------------
(***************************************************************************)
(* Proofs about PauseGate for any set of processes, any pause lengths and  *)
(* any bounds.                                                             *)
(***************************************************************************)
EXTENDS PauseGate, TLAPS

LEMMA MarkerFacts ==
  /\ NoMarker \in Marker /\ Empty \in Marker
  /\ \A u \in Times \cup {Forever} : Pause(u) \in Marker
  /\ \A m \in Marker : m.kind = "none" => m = NoMarker
  /\ \A m \in Marker : m.kind = "empty" => m = Empty
  /\ NoMarker.kind = "none" /\ Empty.kind = "empty" /\ \A u : Pause(u).kind = "pause"
<1>1. NoMarker \in Marker /\ Empty \in Marker
      /\ \A u \in Times \cup {Forever} : Pause(u) \in Marker
  BY DEF Marker
<1>2. NoMarker.kind = "none" /\ Empty.kind = "empty" /\ \A u : Pause(u).kind = "pause"
  BY DEF NoMarker, Empty, Pause
<1>3. \A m \in Marker :
        m = NoMarker \/ m = Empty \/ \E u \in Times \cup {Forever} : m = Pause(u)
  BY DEF Marker
<1> QED BY <1>1, <1>2, <1>3

LEMMA ExpiriesType == ASSUME TypeOK PROVE Expiries \subseteq Times \cup {Forever}
BY TimeAssumption DEF TypeOK, Expiries, Times

LEMMA InitType == Init => TypeOK
BY MarkerFacts, TimeAssumption, PauseBoundsAssumption
   DEF Init, TypeOK, Away, Times, OpPhases

LEMMA NextType == TypeOK /\ [Next]_vars => TypeOK'
<1> SUFFICES ASSUME TypeOK, [Next]_vars PROVE TypeOK'
  OBVIOUS
<1>1. ASSUME NEW r \in Runs,
             (\E i \in BOOLEAN : Acquire(r, i)) \/ RunStep(r) \/ Kill(r)
      PROVE  TypeOK'
  <2>1. lock' \in Procs \cup {Nobody}
    BY <1>1 DEF TypeOK, Acquire, RunStep, CheckPause, ClearExpired, Finish, Kill, Leave, Procs
  <2>2. marker' \in Marker
    BY <1>1, MarkerFacts
       DEF TypeOK, Acquire, RunStep, CheckPause, ClearExpired, Unlink, Finish, Kill
  <2>3. pc' \in [Runs -> {"idle", "locked", "expired", "working"}]
    BY <1>1 DEF TypeOK, Acquire, RunStep, CheckPause, ClearExpired, Finish, Kill, Leave
  <2>4. ignore' \in [Runs -> BOOLEAN] /\ now' = now
    BY <1>1 DEF TypeOK, Acquire, RunStep, CheckPause, ClearExpired, Finish, Kill
  <2>5. op' \in [at : OpPhases, until : Times \cup {Forever}, linked : BOOLEAN]
    BY <1>1 DEF TypeOK, Acquire, RunStep, CheckPause, ClearExpired, Unlink, Finish, Kill
  <2>6. spent' \in [pauses : 0..MaxPauses, kills : 0..MaxKills, reads : 0..MaxReads]
    BY <1>1, PauseBoundsAssumption
       DEF TypeOK, Acquire, RunStep, CheckPause, ClearExpired, Finish, Kill
  <2> QED BY <2>1, <2>2, <2>3, <2>4, <2>5, <2>6 DEF TypeOK
<1>2. ASSUME NEW s \in Readers, StatusBegin(s) \/ StatusEnd(s) PROVE TypeOK'
  BY <1>2, PauseBoundsAssumption DEF TypeOK, StatusBegin, StatusEnd, Procs
<1>3. ASSUME NEW u \in Expiries, OpenMarker(u) PROVE TypeOK'
  <2>1. marker' \in Marker
    BY <1>3, MarkerFacts DEF OpenMarker
  <2>2. op' \in [at : OpPhases, until : Times \cup {Forever}, linked : BOOLEAN]
    BY <1>3, ExpiriesType DEF OpenMarker, OpPhases
  <2> QED BY <1>3, <2>1, <2>2, PauseBoundsAssumption DEF TypeOK, OpenMarker
<1>4. CASE WriteMarker
  BY <1>4, MarkerFacts DEF TypeOK, WriteMarker, OpPhases
<1>5. CASE Probe \/ ProbeEnds
  BY <1>5 DEF TypeOK, Probe, ProbeEnds, OpPhases, Procs
<1>6. CASE GiveUp \/ Resume
  <2>1. Away \in [at : OpPhases, until : Times \cup {Forever}, linked : BOOLEAN]
    BY DEF Away, OpPhases
  <2> QED BY <1>6, <2>1, MarkerFacts DEF TypeOK, GiveUp, Resume
<1>7. CASE Forget
  BY <1>7, PauseBoundsAssumption DEF TypeOK, Forget, Away, OpPhases
<1>8. CASE Tick
  BY <1>8, TimeAssumption DEF TypeOK, Tick, Times
<1>9. CASE UNCHANGED vars
  BY <1>9 DEF vars, TypeOK
<1> QED BY <1>1, <1>2, <1>3, <1>4, <1>5, <1>6, <1>7, <1>8, <1>9 DEF Next, PauseStep

(***************************************************************************)
(* The home's lock, marker, clock and processes stay well typed.           *)
(***************************************************************************)
THEOREM TypeCorrect == Spec => []TypeOK
BY InitType, NextType, PTL DEF Spec

-----------------------------------------------------------------------------
(***************************************************************************)
(* The inductive invariant. A run past its start holds the lock, and so    *)
(* does the operator between the two halves of a probe; this is what makes *)
(* the moment of the probe idle, and it carries HeldBack.                  *)
(***************************************************************************)
ProbeHolds == op.at = "probing" => lock = Operator
LockInv == AtMostOneRun /\ ProbeHolds
\* A run that found an expired marker cannot meet an active one while the
\* operator works: no new marker is written then.
ClearingInv ==
  op.at = "operating" /\ Active(marker) =>
    \A r \in Runs : pc[r] # "expired" /\ (pc[r] = "working" => ignore[r])

LEMMA InitLock == Init => LockInv /\ ClearingInv
BY DEF Init, LockInv, AtMostOneRun, ProbeHolds, ClearingInv, Away

LEMMA NextLock == TypeOK /\ LockInv /\ [Next]_vars => LockInv'
<1> SUFFICES ASSUME TypeOK, LockInv, [Next]_vars PROVE LockInv'
  OBVIOUS
<1> USE ProcsAssumption DEF LockInv, AtMostOneRun, ProbeHolds
<1>1. ASSUME NEW r \in Runs, NEW i \in BOOLEAN, Acquire(r, i) PROVE LockInv'
  BY <1>1 DEF Acquire, TypeOK, Procs
<1>2. ASSUME NEW r \in Runs, RunStep(r) \/ Kill(r) PROVE LockInv'
  <2>1. lock = r /\ pc[r] # "idle" /\ op.at # "probing"
    BY <1>2 DEF RunStep, CheckPause, ClearExpired, Finish, Kill, Procs
  <2>2. op'.at = op.at
    BY <1>2 DEF RunStep, CheckPause, ClearExpired, Unlink, Finish, Kill, TypeOK
  <2>3. \A q \in Runs \ {r} : pc[q] = "idle" /\ pc'[q] = "idle"
    BY <1>2, <2>1
       DEF RunStep, CheckPause, ClearExpired, Finish, Kill, Leave, TypeOK
  <2>4. pc'[r] # "idle" => lock' = r
    BY <1>2, <2>1
       DEF RunStep, CheckPause, ClearExpired, Finish, Kill, Leave, TypeOK
  <2> QED BY <2>1, <2>2, <2>3, <2>4
<1>3. ASSUME NEW s \in Readers, StatusBegin(s) \/ StatusEnd(s) PROVE LockInv'
  BY <1>3 DEF StatusBegin, StatusEnd, Procs
<1>4. ASSUME NEW u \in Expiries, OpenMarker(u) PROVE LockInv'
  BY <1>4 DEF OpenMarker
<1>5. CASE WriteMarker
  BY <1>5 DEF WriteMarker, TypeOK
<1>6. CASE Probe \/ ProbeEnds
  BY <1>6 DEF Probe, ProbeEnds, TypeOK, Procs
<1>7. CASE GiveUp \/ Resume \/ Forget
  BY <1>7 DEF GiveUp, Resume, Forget, Away, Procs
<1>8. CASE Tick \/ UNCHANGED vars
  BY <1>8 DEF Tick, vars
<1> QED BY <1>1, <1>2, <1>3, <1>4, <1>5, <1>6, <1>7, <1>8 DEF Next, PauseStep

LEMMA NextClearing == TypeOK /\ LockInv /\ ClearingInv /\ [Next]_vars => ClearingInv'
<1> SUFFICES ASSUME TypeOK, LockInv, ClearingInv, [Next]_vars,
                    op'.at = "operating", Active(marker)',
                    NEW r \in Runs
             PROVE  pc'[r] # "expired" /\ (pc'[r] = "working" => ignore'[r])
  BY DEF ClearingInv
<1> USE DEF ClearingInv
<1>1. ASSUME NEW q \in Runs,
             (\E i \in BOOLEAN : Acquire(q, i)) \/ CheckPause(q) \/ Finish(q) \/ Kill(q)
      PROVE  pc'[r] # "expired" /\ (pc'[r] = "working" => ignore'[r])
  <2>1. marker' = marker /\ op' = op /\ now' = now
    BY <1>1 DEF Acquire, CheckPause, Finish, Kill
  <2>2. op.at = "operating" /\ Active(marker) /\ marker.kind = "pause" /\ ~IsExpired(marker)
    BY <2>1 DEF Active, IsExpired
  <2>3. CASE r # q
    BY <1>1, <2>2, <2>3 DEF Acquire, CheckPause, Finish, Kill, Leave, TypeOK
  <2>4. CASE r = q
    BY <1>1, <2>2, <2>4, MarkerFacts DEF Acquire, CheckPause, Finish, Kill, Leave, TypeOK
  <2> QED BY <2>3, <2>4
<1>2. ASSUME NEW q \in Runs, ClearExpired(q)
      PROVE  pc'[r] # "expired" /\ (pc'[r] = "working" => ignore'[r])
  BY <1>2, MarkerFacts DEF ClearExpired, Unlink, Active
<1>3. CASE ProbeEnds
  BY <1>3, ProcsAssumption DEF ProbeEnds, LockInv, AtMostOneRun, ProbeHolds, Procs
<1>4. CASE Tick \/ UNCHANGED vars
  BY <1>4, TimeAssumption DEF Tick, vars, Active, IsExpired, TypeOK, Times, Marker,
     NoMarker, Empty, Pause
<1>5. ASSUME NEW s \in Readers, StatusBegin(s) \/ StatusEnd(s)
      PROVE  pc'[r] # "expired" /\ (pc'[r] = "working" => ignore'[r])
  BY <1>5 DEF StatusBegin, StatusEnd, Active, IsExpired
<1>6. CASE (\E u \in Expiries : OpenMarker(u)) \/ WriteMarker \/ Probe \/ GiveUp \/ Resume \/ Forget
  BY <1>6 DEF OpenMarker, WriteMarker, Probe, GiveUp, Resume, Forget, Away, TypeOK
<1> QED BY <1>1, <1>2, <1>3, <1>4, <1>5, <1>6 DEF Next, RunStep, PauseStep

LEMMA Invariants == Spec => [](TypeOK /\ LockInv /\ ClearingInv)
<1>1. Init => TypeOK /\ LockInv /\ ClearingInv
  BY InitType, InitLock
<1>2. TypeOK /\ LockInv /\ ClearingInv /\ [Next]_vars => (TypeOK /\ LockInv /\ ClearingInv)'
  BY NextType, NextLock, NextClearing
<1> QED BY <1>1, <1>2, PTL DEF Spec

(***************************************************************************)
(* Never two runs at once, whoever starts, is killed or asks for status.   *)
(***************************************************************************)
THEOREM MutualExclusion == Spec => []AtMostOneRun
<1>1. LockInv => AtMostOneRun
  BY DEF LockInv
<1> QED BY <1>1, Invariants, PTL

(***************************************************************************)
(* While the operator works and the marker is in place and unexpired, only *)
(* runs told to ignore the pause do anything.                              *)
(***************************************************************************)
THEOREM PauseHoldsBack == Spec => []HeldBack
<1>1. ClearingInv => HeldBack
  BY DEF ClearingInv, HeldBack
<1> QED BY <1>1, Invariants, PTL

-----------------------------------------------------------------------------
(* The abstract specification RunGate.                                     *)

LEMMA GateInit == Init => Gate!Init
BY MarkerFacts DEF Init, Gate!Init, Working, Away

\* A run that goes to work is the first to work, and under a hold it was
\* told to override it; a run that leaves ends.
LEMMA GateRun ==
  ASSUME TypeOK, LockInv, ClearingInv, NEW r \in Runs,
         (\E i \in BOOLEAN : Acquire(r, i)) \/ RunStep(r) \/ Kill(r)
  PROVE  [Gate!Next]_Gate!gate
<1> DEFINE ordinary == {q \in Working : ~ignore[q]}
           held == op.at = "operating" /\ Active(marker)
<1> USE DEF Working
<1> PICK override \in BOOLEAN : override = ignore[r]
  BY DEF TypeOK
<1>1. \A q \in Runs \ {r} : pc[q] = "idle"
  BY ProcsAssumption
     DEF LockInv, AtMostOneRun, RunStep, CheckPause, ClearExpired, Finish, Kill, Acquire,
         TypeOK, Procs
<1>2. CASE \E i \in BOOLEAN : Acquire(r, i)
  <2>1. Working' = Working /\ ordinary' = ordinary
    BY <1>2 DEF Acquire, TypeOK
  <2>2. held' = held
    BY <1>2 DEF Acquire, Active, IsExpired
  <2> QED BY <2>1, <2>2 DEF Gate!gate
<1>3. CASE CheckPause(r)
  <2>1. held' = held /\ ignore' = ignore
    BY <1>3 DEF CheckPause, Active, IsExpired
  <2>2. Working = {} /\ \A q \in Runs \ {r} : pc'[q] = "idle"
    BY <1>1, <1>3 DEF CheckPause, Leave, TypeOK
  <2>3. CASE pc'[r] = "working"
    <3>1. held => ignore[r]
      BY <1>3, <2>3, MarkerFacts DEF CheckPause, Leave, Active, TypeOK
    <3>2. Working' = {r} /\ ordinary' = IF ignore[r] THEN {} ELSE {r}
      BY <2>1, <2>2, <2>3
    <3>3. Gate!Start(r, override)
      BY <2>1, <2>2, <3>1, <3>2 DEF Gate!Start
    <3> QED BY <3>3 DEF Gate!Next
  <2>4. CASE pc'[r] # "working"
    <3>1. Working' = Working /\ ordinary' = ordinary
      BY <2>1, <2>2, <2>4
    <3> QED BY <2>1, <3>1 DEF Gate!gate
  <2> QED BY <2>3, <2>4
<1>4. CASE ClearExpired(r)
  <2>1. ~held /\ ~held'
    BY <1>4, MarkerFacts DEF ClearExpired, Unlink, ClearingInv, Active
  <2>2. Working = {} /\ Working' = {r} /\ ignore' = ignore
    BY <1>1, <1>4 DEF ClearExpired, TypeOK
  <2>3. ordinary' = IF ignore[r] THEN {} ELSE {r}
    BY <2>2
  <2>4. Gate!Start(r, override)
    BY <2>1, <2>2, <2>3 DEF Gate!Start
  <2> QED BY <2>4 DEF Gate!Next
<1>5. CASE Finish(r) \/ Kill(r)
  <2>1. held' = held /\ ignore' = ignore
    BY <1>5 DEF Finish, Kill, Active, IsExpired
  <2>2. Working' = Working \ {r} /\ ordinary' = ordinary \ {r}
    BY <1>5, <2>1 DEF Finish, Kill, Leave, TypeOK
  <2>3. Gate!End(r)
    BY <2>1, <2>2 DEF Gate!End
  <2> QED BY <2>3 DEF Gate!Next
<1> QED BY <1>2, <1>3, <1>4, <1>5 DEF RunStep

\* Everybody else leaves the working runs alone. The hold begins where the
\* probe gives the lock back, when nobody works.
LEMMA GateOther ==
  ASSUME TypeOK, LockInv, [Next]_vars, pc' = pc, ignore' = ignore
  PROVE  [Gate!Next]_Gate!gate
<1> DEFINE ordinary == {q \in Working : ~ignore[q]}
           held == op.at = "operating" /\ Active(marker)
<1>1. Working' = Working /\ ordinary' = ordinary
  BY DEF Working
<1>2. CASE held' = held
  BY <1>1, <1>2 DEF Gate!gate
<1>3. CASE ~held'
  BY <1>1, <1>3 DEF Gate!Release, Gate!Next
<1>4. CASE ~held /\ held'
  <2>1. ProbeEnds
    <3>1. ~\E r \in Runs : (\E i \in BOOLEAN : Acquire(r, i)) \/ RunStep(r) \/ Kill(r)
      <4>1. ASSUME NEW r \in Runs,
                   Acquire(r, TRUE) \/ Acquire(r, FALSE) \/ CheckPause(r) \/ ClearExpired(r)
                     \/ Finish(r) \/ Kill(r)
            PROVE  pc'[r] # pc[r]
        BY <4>1 DEF Acquire, CheckPause, ClearExpired, Finish, Kill, Leave, TypeOK
      <4> QED BY <4>1 DEF RunStep
    <3>2. ASSUME Tick \/ (\E s \in Readers : StatusBegin(s) \/ StatusEnd(s)) \/ UNCHANGED vars
          PROVE  FALSE
      BY <1>4, <3>2, TimeAssumption
         DEF Tick, StatusBegin, StatusEnd, vars, Active, IsExpired, TypeOK, Times, Marker,
             NoMarker, Empty, Pause
    <3>3. ASSUME (\E u \in Expiries : OpenMarker(u)) \/ WriteMarker \/ Probe \/ GiveUp
                   \/ Resume \/ Forget
          PROVE  FALSE
      BY <1>4, <3>3 DEF OpenMarker, WriteMarker, Probe, GiveUp, Resume, Forget, Away, TypeOK
    <3> QED BY <3>1, <3>2, <3>3 DEF Next, PauseStep
  <2>2. Working = {}
    BY <2>1, ProcsAssumption
       DEF ProbeEnds, LockInv, AtMostOneRun, ProbeHolds, Working, Procs
  <2>3. Gate!Hold
    BY <1>1, <1>4, <2>2 DEF Gate!Hold
  <2> QED BY <2>3 DEF Gate!Next
<1> QED BY <1>2, <1>3, <1>4

LEMMA GateNext ==
  TypeOK /\ LockInv /\ ClearingInv /\ [Next]_vars => [Gate!Next]_Gate!gate
<1> SUFFICES ASSUME TypeOK, LockInv, ClearingInv, [Next]_vars PROVE [Gate!Next]_Gate!gate
  OBVIOUS
<1>1. CASE \E r \in Runs : (\E i \in BOOLEAN : Acquire(r, i)) \/ RunStep(r) \/ Kill(r)
  BY <1>1, GateRun
<1>2. CASE ~\E r \in Runs : (\E i \in BOOLEAN : Acquire(r, i)) \/ RunStep(r) \/ Kill(r)
  <2>1. pc' = pc /\ ignore' = ignore
    BY <1>2 DEF Next, PauseStep, StatusBegin, StatusEnd, OpenMarker, WriteMarker, Probe,
                ProbeEnds, GiveUp, Resume, Forget, Tick, vars
  <2> QED BY <2>1, GateOther
<1> QED BY <1>1, <1>2

(***************************************************************************)
(* The home's lock, marker and clock implement RunGate: whatever the       *)
(* processes, kills and pauses, the rest of the program sees runs one at a *)
(* time, and holds that begin in an idle moment and keep ordinary runs out.*)
(***************************************************************************)
THEOREM ImplementsGate == Spec => KeepsGate
<1>1. Init => Gate!Init
  BY GateInit
<1>2. TypeOK /\ LockInv /\ ClearingInv /\ [Next]_vars => [Gate!Next]_Gate!gate
  BY GateNext
<1> QED BY <1>1, <1>2, Invariants, PTL DEF Spec, KeepsGate, Gate!Spec

-----------------------------------------------------------------------------
(***************************************************************************)
(* What the comment of WaitForIdle needs of isPaused. The code removes the *)
(* name it found expired, whatever has that name by now; here it removes   *)
(* nothing but an expired marker, as a second look before os.Remove would  *)
(* give. Then the marker of a pause stays as the operator wrote it.        *)
(***************************************************************************)
ClearsOnlyExpired ==
  \A r \in Runs : ClearExpired(r) =>
    marker = NoMarker \/ (marker.kind = "pause" /\ IsExpired(marker))

RunOut == op.until # Forever /\ now > op.until
MarkerStays ==
  /\ op.at = "opened" => op.linked /\ marker = Empty
  /\ op.at \in {"set", "probing", "operating"} => marker = Pause(op.until) \/ RunOut

LEMMA NextMarker ==
  TypeOK /\ MarkerStays /\ [Next]_vars /\ ClearsOnlyExpired => MarkerStays'
<1> SUFFICES ASSUME TypeOK, MarkerStays, [Next]_vars, ClearsOnlyExpired PROVE MarkerStays'
  OBVIOUS
<1> USE DEF MarkerStays, RunOut
<1>1. ASSUME NEW r \in Runs,
             (\E i \in BOOLEAN : Acquire(r, i)) \/ CheckPause(r) \/ Finish(r) \/ Kill(r)
      PROVE  MarkerStays'
  BY <1>1 DEF Acquire, CheckPause, Finish, Kill
<1>2. ASSUME NEW r \in Runs, ClearExpired(r) PROVE MarkerStays'
  <2>1. op' = [op EXCEPT !.linked = FALSE] /\ now' = now
    BY <1>2 DEF ClearExpired, Unlink
  <2>2. op'.at = op.at /\ op'.until = op.until
    BY <2>1 DEF TypeOK
  <2>3. marker = NoMarker \/ (marker.kind = "pause" /\ IsExpired(marker))
    BY <1>2 DEF ClearsOnlyExpired
  <2>4. op.at # "opened"
    BY <2>3 DEF NoMarker, Empty
  <2>5. marker = Pause(op.until) => RunOut
    BY <2>3 DEF NoMarker, Pause, IsExpired
  <2> QED BY <2>1, <2>2, <2>4, <2>5
<1>3. ASSUME NEW s \in Readers, StatusBegin(s) \/ StatusEnd(s) PROVE MarkerStays'
  BY <1>3 DEF StatusBegin, StatusEnd
<1>4. ASSUME NEW u \in Expiries, OpenMarker(u) PROVE MarkerStays'
  BY <1>4 DEF OpenMarker
<1>5. CASE WriteMarker \/ Probe \/ ProbeEnds
  BY <1>5 DEF WriteMarker, Probe, ProbeEnds, TypeOK
<1>6. CASE GiveUp \/ Resume \/ Forget
  BY <1>6 DEF GiveUp, Resume, Forget, Away
<1>7. CASE Tick
  BY <1>7, TimeAssumption DEF Tick, TypeOK, Times
<1>8. CASE UNCHANGED vars
  BY <1>8 DEF vars
<1> QED BY <1>1, <1>2, <1>3, <1>4, <1>5, <1>6, <1>7, <1>8 DEF Next, RunStep, PauseStep

(***************************************************************************)
(* The condition under which "an idle moment observed here cannot be       *)
(* followed by a run that ignores the pause" (WaitForIdle) is true: a run  *)
(* that clears an expired pause must not remove another one. That this is  *)
(* the only hole is what the theorem says; the code leaves it open.        *)
(***************************************************************************)
THEOREM IdleHoldsIfClearingLooksAgain ==
  Spec /\ [][ClearsOnlyExpired]_vars => []IdleMeansHeldBack
<1>1. Init => MarkerStays
  BY DEF Init, MarkerStays, Away
<1>2. TypeOK /\ MarkerStays /\ [Next]_vars /\ [ClearsOnlyExpired]_vars => MarkerStays'
  BY NextMarker DEF vars, MarkerStays, RunOut
<1>3. TypeOK /\ ClearingInv /\ MarkerStays => IdleMeansHeldBack
  <2> SUFFICES ASSUME ClearingInv, MarkerStays, op.at = "operating", ~RunOut
               PROVE  \A r \in Runs : pc[r] = "working" => ignore[r]
    BY DEF IdleMeansHeldBack, RunOut
  <2>1. marker = Pause(op.until)
    BY DEF MarkerStays
  <2>2. Active(marker)
    BY <2>1 DEF Active, IsExpired, Pause, RunOut
  <2> QED BY <2>2 DEF ClearingInv
<1> QED BY <1>1, <1>2, <1>3, Invariants, PTL DEF Spec
=============================================================================
