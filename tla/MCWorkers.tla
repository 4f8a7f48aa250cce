------------------------------ MODULE MCWorkers ------------------------------
(***************************************************************************)
(* Workers for TLC.  What holds only for one caller whose joins never give *)
(* up is checked in the behaviours that happen to be `alone': they are     *)
(* chosen at the start, and are behaviours of Spec.                        *)
(***************************************************************************)
EXTENDS Workers

CONSTANTS
  Sole,       \* the one caller of those behaviours
  Common      \* the one id of the others, so that their calls meet
VARIABLE alone

AloneStep ==
  /\ \A c \in Callers \ {Sole} : pc'[c] = "idle" /\ ret'[c] = "none"
  /\ pc[Sole] = "join" /\ pc'[Sole] # "join" => phase[handle[Sole]] = "dead"

\* stop_all_workers stops the registered ids, which are Common alone then.
TogetherStep == \A i \in Ids \ {Common} : workers'[i] = None

MCInit == Init /\ alone \in BOOLEAN
MCNext == Next /\ UNCHANGED alone /\ (IF alone THEN AloneStep ELSE TogetherStep)
\* Calls that were begun go on, joins that must wait included; workers may hang.
MCSafetySpec == MCInit /\ [][MCNext]_<<vars, alone>>
MCSpec == MCSafetySpec /\ FairCallers

-----------------------------------------------------------------------------
\* Alone, every worker between setup and deregistration is the registered one.
AloneLiveIsRegistered == alone => LiveIsRegistered

\* Workers whose calls return: a requested stop ends the thread, torn down.
FairStopEventuallyExits == FairThreads => StopEventuallyExits

=============================================================================
