------------------------------ MODULE MCDevices ------------------------------
(* TLC instances of the network receivers and of the clock monitor. They share *)
(* nothing, so a run works with one of them at a time: MCNext moves the one   *)
(* "machine" names. The KiwiSDR is there twice: with messages of the server   *)
(* and joins that are in time, and with a join that times out.                *)
EXTENDS KiwiSDR, SpyServer, ClockSync

VARIABLE machine

\* A native rate that is no power of two, and a server that refuses to send it undecimated.
MCInfos == {[max |-> 13, stages |-> 2, min |-> 1], [max |-> 8, stages |-> 2, min |-> 0]}
\* In control; locked inside a window; locked, with no window given.
MCSyncs == {[control |-> TRUE, window |-> 0, center |-> 1],
            [control |-> FALSE, window |-> 1, center |-> 1],
            [control |-> FALSE, window |-> 0, center |-> 2]}

MCInit == machine \in {"kiwi", "late", "spy", "clock"} /\ KiwiInit /\ SpyInit /\ ClockInit
MCNext ==
  /\ UNCHANGED machine
  /\ \/ /\ machine \in {"kiwi", "late"} /\ KiwiNext
        /\ IF machine = "kiwi" THEN late' = 0 /\ session' <= 1 ELSE messages' = 0
        /\ UNCHANGED <<spyVars, clockVars>>
     \/ machine = "spy" /\ SpyNext /\ UNCHANGED <<kiwiVars, clockVars>>
     \/ machine = "clock" /\ ClockNext /\ UNCHANGED <<kiwiVars, spyVars>>
MCFairSpec == MCInit /\ [][MCNext]_<<machine, kiwiVars, spyVars, clockVars>> /\ KiwiFairness

TypeOK == KiwiTypeOK /\ SpyTypeOK /\ ClockTypeOK
==============================================================================
