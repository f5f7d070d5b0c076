------------------------------ MODULE PauseGate ------------------------------
(***************************************************************************)
(* Who may reconcile a home, and when: the home's flock, the pause marker  *)
(* file with its expiry, cron ticks and manual runs, status commands that  *)
(* take the same lock, and an operator who pauses the home, waits for it   *)
(* to be idle, works on it and resumes.                                    *)
(*                                                                         *)
(* Modelled code: Run up to the pause check, lock, Status's use of the     *)
(* lock (internal/reconcile/reconcile.go), all of pause.go, and cmdPause   *)
(* and cmdResume (cmd/kompensator/main.go). The file operations are those  *)
(* the code makes: os.WriteFile truncates first and writes afterwards, and *)
(* os.Remove unlinks whatever file has the name by then.                   *)
(***************************************************************************)
EXTENDS Naturals, FiniteSets

CONSTANTS
  Runs,       \* reconcile processes: cron ticks, manual and ssh-triggered runs
  Readers,    \* status commands
  Operator,   \* the operator's pause command, as a holder of the lock
  Nobody,     \* the lock is free
  Forever,    \* a pause without expiry
  Durations,  \* lengths of the bounded pauses the operator sets
  MaxTime,    \* bound: the clock stops here
  MaxPauses,  \* bound: pauses the operator sets
  MaxKills,   \* bound: processes killed
  MaxReads    \* bound: status commands

Procs == Runs \cup Readers \cup {Operator}

ASSUME ProcsAssumption ==
  /\ Runs \cap Readers = {} /\ Operator \notin Runs \cup Readers /\ Nobody \notin Procs
ASSUME TimeAssumption ==
  MaxTime \in Nat /\ Durations \subseteq Nat \ {0} /\ Forever \notin Nat
ASSUME PauseBoundsAssumption == MaxPauses \in Nat /\ MaxKills \in Nat /\ MaxReads \in Nat

VARIABLES
  lock,    \* holder of the exclusive flock on <home>/kompensator.lock
  marker,  \* the file <home>/paused
  now,     \* the clock
  pc,      \* pc[r]: where run r is
  ignore,  \* ignore[r]: run r was started with --ignore-pause
  op,      \* the operator: phase, expiry of the pause being set, open file
  spent    \* how much of each bound is used up

vars == <<lock, marker, now, pc, ignore, op, spent>>

Times == 0..MaxTime
NoMarker == [kind |-> "none", until |-> Forever]
\* Created or truncated, and not written yet: it does not parse.
Empty == [kind |-> "empty", until |-> Forever]
Pause(u) == [kind |-> "pause", until |-> u]
Marker == {NoMarker, Empty} \cup {Pause(u) : u \in Times \cup {Forever}}

IsExpired(m) == m.until # Forever /\ now > m.until

Away == [at |-> "away", until |-> Forever, linked |-> FALSE]
OpPhases == {"away", "opened", "set", "probing", "operating"}

Init ==
  /\ lock = Nobody
  /\ marker = NoMarker
  /\ now = 0
  /\ pc = [r \in Runs |-> "idle"]
  /\ ignore = [r \in Runs |-> FALSE]
  /\ op = Away
  /\ spent = [pauses |-> 0, kills |-> 0, reads |-> 0]

-----------------------------------------------------------------------------
(* A reconcile run.                                                        *)

\* Mutant: the lock is taken without looking whether it is free.
AcquireRegardless(r, i) ==
  /\ pc[r] = "idle"
  /\ lock' = r
  /\ pc' = [pc EXCEPT ![r] = "locked"]
  /\ ignore' = [ignore EXCEPT ![r] = i]
  /\ UNCHANGED <<marker, now, op, spent>>

\* The flock is non-blocking: a run that does not get it ends at once, which
\* changes nothing and is left out.
Acquire(r, i) ==
  /\ pc[r] = "idle"
  /\ lock = Nobody
  /\ lock' = r
  /\ pc' = [pc EXCEPT ![r] = "locked"]
  /\ ignore' = [ignore EXCEPT ![r] = i]
  /\ UNCHANGED <<marker, now, op, spent>>

Leave(r) == lock' = Nobody /\ pc' = [pc EXCEPT ![r] = "idle"]

\* Mutant: an expired marker holds the run back like any other.
CheckPauseOnly(r) ==
  /\ pc[r] = "locked"
  /\ \/ /\ marker = NoMarker \/ (marker.kind = "pause" /\ ignore[r])
        /\ pc' = [pc EXCEPT ![r] = "working"] /\ UNCHANGED lock
     \/ /\ marker = Empty \/ (marker.kind = "pause" /\ ~ignore[r])
        /\ Leave(r)
  /\ UNCHANGED <<marker, now, ignore, op, spent>>

\* isPaused's ReadPause and its decision. A marker that does not parse ends
\* the run even with --ignore-pause.
CheckPause(r) ==
  /\ pc[r] = "locked"
  /\ \/ /\ marker = NoMarker
        /\ pc' = [pc EXCEPT ![r] = "working"] /\ UNCHANGED lock
     \/ /\ marker = Empty
        /\ Leave(r)
     \/ /\ marker.kind = "pause" /\ IsExpired(marker)
        /\ pc' = [pc EXCEPT ![r] = "expired"] /\ UNCHANGED lock
     \/ /\ marker.kind = "pause" /\ ~IsExpired(marker) /\ ~ignore[r]
        /\ Leave(r)
     \/ /\ marker.kind = "pause" /\ ~IsExpired(marker) /\ ignore[r]
        /\ pc' = [pc EXCEPT ![r] = "working"] /\ UNCHANGED lock
  /\ UNCHANGED <<marker, now, ignore, op, spent>>

\* os.Remove takes whatever marker has the name now; a file the operator has
\* open loses its name.
Unlink == marker' = NoMarker /\ op' = [op EXCEPT !.linked = FALSE]

\* isPaused's ClearPause, after the marker read was found expired.
ClearExpired(r) ==
  /\ pc[r] = "expired"
  /\ Unlink
  /\ pc' = [pc EXCEPT ![r] = "working"]
  /\ UNCHANGED <<lock, now, ignore, spent>>

Finish(r) ==
  /\ pc[r] = "working"
  /\ Leave(r)
  /\ UNCHANGED <<marker, now, ignore, op, spent>>

\* The kernel releases the flock of a killed process.
Kill(r) ==
  /\ pc[r] # "idle"
  /\ spent.kills < MaxKills
  /\ spent' = [spent EXCEPT !.kills = @ + 1]
  /\ Leave(r)
  /\ UNCHANGED <<marker, now, ignore, op>>

-----------------------------------------------------------------------------
(* A status command holds the lock for as long as it reports. Without the  *)
(* lock it reports too, but does not pull.                                 *)

StatusBegin(s) ==
  /\ lock = Nobody
  /\ spent.reads < MaxReads
  /\ spent' = [spent EXCEPT !.reads = @ + 1]
  /\ lock' = s
  /\ UNCHANGED <<marker, now, pc, ignore, op>>

StatusEnd(s) ==
  /\ lock = s
  /\ lock' = Nobody
  /\ UNCHANGED <<marker, now, pc, ignore, op, spent>>

-----------------------------------------------------------------------------
(* The operator. SetPause truncates the marker, then writes it.            *)

Expiries == {now + d : d \in {e \in Durations : now + e < MaxTime}} \cup {Forever}

OpenMarker(u) ==
  /\ op.at \in {"away", "operating"}
  /\ spent.pauses < MaxPauses
  /\ spent' = [spent EXCEPT !.pauses = @ + 1]
  /\ marker' = Empty
  /\ op' = [at |-> "opened", until |-> u, linked |-> TRUE]
  /\ UNCHANGED <<lock, now, pc, ignore>>

\* Mutant: the marker is written over what an interrupted pause left there.
WriteOver ==
  /\ op.at = "opened"
  /\ marker' = IF op.linked THEN [kind |-> "torn", until |-> op.until] ELSE marker
  /\ op' = [op EXCEPT !.at = "set"]
  /\ UNCHANGED <<lock, now, pc, ignore, spent>>

WriteMarker ==
  /\ op.at = "opened"
  /\ marker' = IF op.linked THEN Pause(op.until) ELSE marker
  /\ op' = [op EXCEPT !.at = "set"]
  /\ UNCHANGED <<lock, now, pc, ignore, spent>>

\* Mutant: the pause command does not take the lock to see that it is free.
ProbeWithoutLock ==
  /\ op.at = "set"
  /\ op' = [op EXCEPT !.at = "operating"]
  /\ UNCHANGED <<lock, marker, now, pc, ignore, spent>>

\* Mutant: a run told to ignore the pause counts as idle.
ProbeBesideOverride ==
  /\ op.at = "set"
  /\ \/ lock = Nobody /\ lock' = Operator /\ op' = [op EXCEPT !.at = "probing"]
     \/ /\ \E r \in Runs : lock = r /\ pc[r] = "working" /\ ignore[r]
        /\ op' = [op EXCEPT !.at = "operating"] /\ UNCHANGED lock
  /\ UNCHANGED <<marker, now, pc, ignore, spent>>

\* WaitForIdle takes the lock and gives it back at once. A failed attempt is
\* repeated until --wait is over; then cmdPause fails and the pause stays set.
Probe ==
  /\ op.at = "set"
  /\ lock = Nobody
  /\ lock' = Operator
  /\ op' = [op EXCEPT !.at = "probing"]
  /\ UNCHANGED <<marker, now, pc, ignore, spent>>

ProbeEnds ==
  /\ op.at = "probing"
  /\ lock' = Nobody
  /\ op' = [op EXCEPT !.at = "operating"]
  /\ UNCHANGED <<marker, now, pc, ignore, spent>>

GiveUp ==
  /\ op.at = "set"
  /\ lock # Nobody
  /\ op' = Away
  /\ UNCHANGED <<lock, marker, now, pc, ignore, spent>>

\* kompensator resume: ClearPause.
Resume ==
  /\ op.at = "operating" \/ (op.at = "away" /\ marker # NoMarker)
  /\ marker' = NoMarker
  /\ op' = Away
  /\ UNCHANGED <<lock, now, pc, ignore, spent>>

\* The pause command is killed, or the operator forgets to resume. What is in
\* the marker file by then stays there.
Forget ==
  /\ op.at # "away"
  /\ spent.kills < MaxKills
  /\ spent' = [spent EXCEPT !.kills = @ + 1]
  /\ op' = Away
  /\ lock' = IF lock = Operator THEN Nobody ELSE lock
  /\ UNCHANGED <<marker, now, pc, ignore>>

Tick ==
  /\ now < MaxTime
  /\ now' = now + 1
  /\ UNCHANGED <<lock, marker, pc, ignore, op, spent>>

-----------------------------------------------------------------------------
RunStep(r) == CheckPause(r) \/ ClearExpired(r) \/ Finish(r)
PauseStep == WriteMarker \/ ProbeEnds \/ Probe

Next ==
  \/ \E r \in Runs : (\E i \in BOOLEAN : Acquire(r, i)) \/ RunStep(r) \/ Kill(r)
  \/ \E s \in Readers : StatusBegin(s) \/ StatusEnd(s)
  \/ \E u \in Expiries : OpenMarker(u)
  \/ PauseStep \/ GiveUp \/ Resume \/ Forget
  \/ Tick

Spec == Init /\ [][Next]_vars

(***************************************************************************)
(* cron starts runs without --ignore-pause again and again, a process that *)
(* runs goes on, and time passes. The operator need not do anything more.  *)
(***************************************************************************)
Fairness ==
  /\ WF_vars(\E r \in Runs : Acquire(r, FALSE))
  /\ \A r \in Runs : WF_vars(RunStep(r))
  /\ \A s \in Readers : WF_vars(StatusEnd(s))
  /\ WF_vars(PauseStep)
  /\ WF_vars(Tick)
FairSpec == Spec /\ Fairness

-----------------------------------------------------------------------------
(* Properties.                                                             *)

TypeOK ==
  /\ lock \in Procs \cup {Nobody}
  /\ marker \in Marker
  /\ now \in Times
  /\ pc \in [Runs -> {"idle", "locked", "expired", "working"}]
  /\ ignore \in [Runs -> BOOLEAN]
  /\ op \in [at : OpPhases, until : Times \cup {Forever}, linked : BOOLEAN]
  /\ spent \in [pauses : 0..MaxPauses, kills : 0..MaxKills, reads : 0..MaxReads]

(***************************************************************************)
(* "so a cron tick and a manual/SSH-triggered run never reconcile          *)
(* concurrently" (lock), nor while a status command refreshes the repos.   *)
(***************************************************************************)
AtMostOneRun ==
  \A r \in Runs : pc[r] # "idle" => lock = r /\ \A q \in Runs \ {r} : pc[q] = "idle"

(***************************************************************************)
(* Once the pause command has reported an idle home, the marker in place   *)
(* keeps every run without --ignore-pause out until it expires.            *)
(***************************************************************************)
Active(m) == m.kind = "pause" /\ ~IsExpired(m)
HeldBack ==
  op.at = "operating" /\ Active(marker) => \A r \in Runs : pc[r] = "working" => ignore[r]

(***************************************************************************)
(* A forgotten pause does not switch GitOps off: unless the home is paused *)
(* until resumed, or the marker was left unreadable, runs reconcile again  *)
(* and again.                                                              *)
(***************************************************************************)
GitOpsResumes ==
  <>[](marker = NoMarker \/ (marker.kind = "pause" /\ marker.until # Forever))
    => []<>(\E r \in Runs : pc[r] = "working")

(***************************************************************************)
(* "an idle moment observed here cannot be followed by a run that ignores  *)
(* the pause" (WaitForIdle), for as long as the pause was to last.         *)
(***************************************************************************)
IdleMeansHeldBack ==
  op.at = "operating" /\ ~(op.until # Forever /\ now > op.until)
    => \A r \in Runs : pc[r] = "working" => ignore[r]

(***************************************************************************)
(* The lock, the marker file and the probe together give what RunGate      *)
(* promises: one run at a time, a hold that begins in an idle moment       *)
(* ("an idle moment observed here", WaitForIdle) and admits no ordinary    *)
(* run for as long as the marker of the operator is in place and active.   *)
(***************************************************************************)
Working == {r \in Runs : pc[r] = "working"}
Gate == INSTANCE RunGate
          WITH active <- Working,
               ordinary <- {r \in Working : ~ignore[r]},
               held <- op.at = "operating" /\ Active(marker)
KeepsGate == Gate!Spec
=============================================================================
