------------------------------ MODULE MCEngine -------------------------------
(***************************************************************************)
(* TLC instances of the engine and of the recordings of a running device.  *)
(* They share nothing, so a run works with one of them at a time: MCNext   *)
(* moves the one `machine' names, the other stays where it starts.         *)
(*                                                                         *)
(* Engine has three devices, enough for a focused device that is removed   *)
(* to leave two that could get the focus.  `later' is a history variable:  *)
(* <<d, e>> is in it when d was focused, since it was added, and e was not *)
(* focused after that; <<d, NoDevice>> when d was focused at all.          *)
(***************************************************************************)
EXTENDS Engine, Recording

VARIABLES machine, later

Gone(r, e) == {p \in r : p[1] # e} \cup {<<p[1], e>> : p \in {q \in r : q[1] # e}}
Focused(r, d) ==
  {p \in r : p[2] # d} \cup {<<d, e>> : e \in (Devices \cup {NoDevice}) \ {d}}

Removed == Existing \ Existing'

Remember ==
  LET r == IF Removed = {} THEN later ELSE Gone(later, CHOOSE e \in Removed : TRUE) IN
  later' = IF focus' \in {focus, NoDevice} THEN r ELSE Focused(r, focus')

MCInit ==
  /\ machine \in {"engine", "recording"} /\ Init /\ later = {} /\ RecordingInit
  /\ machine = "engine" => limit = [r \in Recordings |-> NoLimit]
MCNext ==
  /\ UNCHANGED machine
  /\ \/ machine = "engine" /\ Next /\ Remember /\ UNCHANGED recordingVars
     \/ machine = "recording" /\ RecordingNext /\ UNCHANGED <<vars, later>>
MCSafetySpec == MCInit /\ [][MCNext]_<<machine, vars, later, recordingVars>>
\* RecordingFairness, where recordings are what a run works with.
MCSpec ==
  /\ MCSafetySpec
  /\ \A t \in RecordThreads : WF_recordingVars(machine = "recording" /\ StepOf(t))
  /\ WF_recordingVars(machine = "recording" /\ StepOfProcess)
  /\ SF_recordingVars(machine = "recording" /\ \E n \in BatchSizes \ {0} : TakeBatch(n))

RefocusMostRecent ==
  focus \in Removed /\ Existing' # {} =>
    focus' \in Existing' /\ \A d \in Existing' : <<d, focus'>> \notin later

\* "removing the focused device re-focuses the most recently focused survivor,
\* not an arbitrary one" (engine.py:448).
RefocusesMostRecent == [][RefocusMostRecent]_<<vars, later>>
===============================================================================
