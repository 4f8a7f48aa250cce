------------------------------ MODULE ClockSync ------------------------------
(* The SNTP monitor (core/clock_sync.py): the polling thread, and the main    *)
(* thread that sets its server and shuts it down. The packet and the grading  *)
(* of the offset are left out: an answer is known by its server.              *)
EXTENDS Integers

CONSTANTS Hosts, Off, MaxSets   \* servers; the absence of one; bound: calls of set_server

ASSUME ClockAssumption == Off \notin Hosts /\ MaxSets \in Nat

VARIABLES
  server,                  \* _server
  last,                    \* _last: the server that was asked, and whether it answered
  wake, stopped,           \* _wake, _stop
  poller, host,            \* the place of _loop, and the server of its probe
  main, sets,              \* the place of the main thread; the calls made so far
  noticed                  \* history: the thread has read _server since it was set

pollerVars == <<poller, host>>
clockVars == <<server, last, wake, stopped, pollerVars, main, sets, noticed>>

Nothing == [server |-> Off, offset |-> FALSE]

ClockInit ==
  /\ server = Off /\ last = Nothing /\ wake = FALSE /\ stopped = FALSE
  /\ poller = "top" /\ host = Off /\ main = "idle" /\ sets = 0
  /\ noticed = TRUE

------------------------------------------------------------------------------
(* The main thread                                                           *)

\* set_server stores the server, clears the result when there is none, and wakes the thread.
SetServer(h) ==
  /\ main = "idle" /\ sets < MaxSets /\ sets' = sets + 1
  /\ server' = h /\ main' = IF h = Off THEN "clear" ELSE "wake"
  /\ noticed' = FALSE
  /\ UNCHANGED <<last, wake, stopped, pollerVars>>

ClearLast ==
  /\ main = "clear" /\ main' = "wake" /\ last' = Nothing
  /\ UNCHANGED <<server, wake, stopped, pollerVars, sets, noticed>>

SetWake ==
  /\ main \in {"wake", "stopping"} /\ wake' = TRUE
  /\ main' = IF main = "wake" THEN "idle" ELSE "join"
  /\ UNCHANGED <<server, last, stopped, pollerVars, sets, noticed>>

\* shutdown; it waits for the thread two seconds at most.
Shutdown ==
  /\ main = "idle" /\ main' = "stopping" /\ stopped' = TRUE
  /\ UNCHANGED <<server, last, wake, pollerVars, sets, noticed>>

------------------------------------------------------------------------------
(* The polling thread                                                        *)

Top ==
  /\ poller = "top"
  /\ host' = IF stopped THEN host ELSE server
  /\ poller' = CASE stopped -> "ended" [] ~stopped /\ server = Off -> "wait" [] OTHER -> "probe"
  /\ noticed' = (noticed \/ ~stopped)
  /\ UNCHANGED <<server, last, wake, stopped, main, sets>>

\* (mutant) The event is cleared once the probe is done: a call in between is forgotten.
ProbeClears(ok) ==
  /\ poller = "probe" /\ poller' = "wait" /\ wake' = FALSE
  /\ last' = [server |-> host, offset |-> ok]
  /\ UNCHANGED <<server, stopped, host, main, sets, noticed>>

\* query_sntp returns, and the result is stored.
Probe(ok) ==
  /\ poller = "probe" /\ poller' = "wait"
  /\ last' = [server |-> host, offset |-> ok]
  /\ UNCHANGED <<server, wake, stopped, host, main, sets, noticed>>

\* The wait ends when it is woken, or after the poll interval.
Wait ==
  /\ poller = "wait" /\ wake /\ poller' = "clear"
  /\ UNCHANGED <<server, last, wake, stopped, host, main, sets, noticed>>
Interval ==
  /\ poller = "wait" /\ ~wake /\ poller' = "clear"
  /\ UNCHANGED <<server, last, wake, stopped, host, main, sets, noticed>>

ClearWake ==
  /\ poller = "clear" /\ poller' = "top" /\ wake' = FALSE
  /\ UNCHANGED <<server, last, stopped, host, main, sets, noticed>>

ClockNext ==
  \/ \E h \in Hosts \cup {Off} : SetServer(h)
  \/ ClearLast \/ SetWake \/ Shutdown
  \/ Top \/ (\E ok \in BOOLEAN : Probe(ok)) \/ Wait \/ Interval \/ ClearWake

ClockSpec == ClockInit /\ [][ClockNext]_clockVars

------------------------------------------------------------------------------
(* Properties                                                                *)

ClockTypeOK ==
  /\ {server, host, last.server} \subseteq Hosts \cup {Off}
  /\ poller \in {"top", "probe", "wait", "clear", "ended"}
  /\ main \in {"idle", "clear", "wake", "stopping", "join"} /\ sets \in 0 .. MaxSets

\* "The immediate probe on set_server() covers the 'I just enabled this, give me an answer now'
\* case": the thread never sits out its poll interval over a server it has not read, nor over a
\* shutdown, unless the call that is to wake it is still on its way.
CallIsNoticed ==
  poller = "wait" /\ (~noticed \/ stopped) => wake \/ main \in {"clear", "wake", "stopping"}
==============================================================================
