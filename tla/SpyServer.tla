------------------------------ MODULE SpyServer -------------------------------
(* A SpyServer receiver (devices/spyserver.py): the I/O thread opens it, sets *)
(* the sample rate and closes it, the producer of its jitter buffer enables   *)
(* the stream, collects samples and applies what the server reports meanwhile.*)
EXTENDS Integers, FiniteSets

CONSTANTS
  Infos,        \* DEVICE_INFO: [max, stages, min]: native rate, last and least decimation stage
  Syncs,        \* CLIENT_SYNC: [control, window, center]; window 0: none is given
  Rates,        \* rates that are asked for
  SpySessions,  \* bound: calls of open
  SpyMessages   \* bound: reports of the server and changes of the rate, in a session

ASSUME SpyAssumption ==
  /\ \A i \in Infos : {i.max, i.stages} \subseteq Nat \ {0} /\ i.min \in 0 .. i.stages
  /\ \A s \in Syncs : s.control \in BOOLEAN /\ {s.window, s.center} \subseteq Nat
  /\ Rates \subseteq Nat /\ SpySessions \in Nat /\ SpyMessages \in Nat

VARIABLES
  sio, spySession, reports,   \* the I/O thread; sessions begun; counter of the bound
  codec, spyLink,             \* _codec is set; its connection: none, up, shut
  streaming, iqBuf,           \* _streaming; _iq_buf, as the sessions its samples are of
  maxRate, minDecim, rates,   \* _max_sample_rate, _min_iq_decim, _supported_rates
  lastSync, canControl, window,  \* _last_client_sync, _can_control, _iq_window
  capabilities,               \* [range, rates, gain, controller]
  actual, chosen,             \* _actual_sample_rate; the rate set_sample_rate is about to set
  ring,                       \* the rate the jitter buffer is sized for; 0: never sized
  ppc, jitterStop,            \* the producer, and the flag that stops it
  enabled, decimation,        \* the server's side of the session: it streams; IQ_DECIMATION
  newInfo, newSync, newWindow \* history: the newest reports

lifecycle == <<sio, spySession, codec, spyLink, jitterStop>>
report == <<maxRate, minDecim, rates, lastSync, canControl, window, capabilities, newInfo, newSync,
            newWindow>>
rateVars == <<actual, chosen, ring, decimation>>
spyVars == <<lifecycle, reports, streaming, iqBuf, report, rateVars, ppc, enabled>>

NoSync == [control |-> TRUE, window |-> 0, center |-> 0, given |-> FALSE]
Unset == -1

Shr(x, n) == x \div (2 ^ n)
BitLength(x) == Cardinality({k \in 0 .. x : 2 ^ k <= x})
Distance(a, b) == IF a < b THEN b - a ELSE a - b

RatesOf(i) == {Shr(i.max, n) : n \in i.min .. i.stages}
FindNearest(S, r) == CHOOSE x \in S : \A y \in S : Distance(x, r) <= Distance(y, r)

\* _recompute_freq_range: 0 stands for the whole range of the hardware.
RangeOf(control, w) == IF control THEN 0 ELSE w
Capabilities(rs, sync, w, control) ==
  [range |-> RangeOf(control, w), rates |-> rs, gain |-> control,
   controller |-> IF ~control /\ sync.given THEN sync.center ELSE Unset]

SpyInit ==
  /\ sio = "closed" /\ spySession = 0 /\ reports = 0 /\ codec = FALSE /\ spyLink = "none"
  /\ streaming = FALSE /\ iqBuf = {} /\ maxRate = 0 /\ minDecim = 0 /\ rates = {}
  /\ lastSync = NoSync /\ canControl = TRUE /\ window = 0
  /\ capabilities = Capabilities({}, NoSync, 0, TRUE)
  /\ actual = 0 /\ chosen = 0 /\ ring = 0 /\ ppc = "dead" /\ jitterStop = FALSE
  /\ enabled = FALSE /\ decimation = Unset
  /\ newInfo = [max |-> 0, stages |-> 0, min |-> 1] /\ newSync = NoSync /\ newWindow = 0

------------------------------------------------------------------------------
(* Reports of the server                                                     *)

\* The first fields of _apply_device_info; the rates and the capabilities follow.
InfoFields(i) == maxRate' = i.max /\ minDecim' = i.min /\ newInfo' = i
InfoRates ==
  /\ rates' = RatesOf(newInfo)
  /\ capabilities' = Capabilities(RatesOf(newInfo), lastSync, window, canControl)

\* (mutant) Only a change of who has control is looked at.
ApplyControlOnly(s) ==
  /\ newSync' = s /\ newWindow' = (IF s.window # 0 THEN s.window ELSE newWindow)
  /\ IF lastSync.given /\ s.control = lastSync.control
     THEN UNCHANGED <<lastSync, canControl, window, capabilities>>
     ELSE /\ lastSync' = s /\ canControl' = s.control
          /\ window' = (IF s.window # 0 THEN s.window ELSE window)
          /\ capabilities' = Capabilities(rates, s, window', s.control)

\* _apply_client_sync; a report that repeats the last one is skipped.
ApplyClientSync(s) ==
  /\ newSync' = s /\ newWindow' = (IF s.window # 0 THEN s.window ELSE newWindow)
  /\ IF s = lastSync THEN UNCHANGED <<lastSync, canControl, window, capabilities>>
     ELSE /\ lastSync' = s /\ canControl' = s.control
          /\ window' = (IF s.window # 0 THEN s.window ELSE window)
          /\ capabilities' = Capabilities(rates, s, window', s.control)

Awaiting == {"both", "info", "sync"}   \* the kinds of reports the handshake waits for
Given(s) == [control |-> s.control, window |-> s.window, center |-> s.center, given |-> TRUE]

------------------------------------------------------------------------------
(* The I/O thread                                                            *)

\* open: connect and HELLO
Connect ==
  /\ sio = "closed" /\ spySession < SpySessions
  /\ sio' = "both" /\ spySession' = spySession + 1 /\ codec' = TRUE /\ spyLink' = "up"
  /\ reports' = 0 /\ enabled' = FALSE /\ decimation' = Unset
  /\ newSync' = NoSync
  /\ UNCHANGED <<jitterStop, streaming, iqBuf, maxRate, minDecim, rates, lastSync, canControl,
                 window, capabilities, newInfo, newWindow, actual, chosen, ring, ppc>>

\* The handshake takes the reports in any order, again and again, until it has one of each kind.
HandshakeInfo ==
  /\ sio \in Awaiting /\ spyLink = "up"
  /\ sio' = CASE sio = "both" -> "sync" [] sio = "info" -> "start" [] OTHER -> sio
  /\ \E i \in Infos :
       /\ InfoFields(i)
       /\ rates' = RatesOf(i)
       /\ capabilities' = Capabilities(RatesOf(i), lastSync, window, canControl)
  /\ UNCHANGED <<spySession, codec, spyLink, jitterStop, reports, streaming, iqBuf, lastSync,
                 canControl, window, newSync, newWindow, rateVars, ppc, enabled>>

\* A report that is too short counts, but changes nothing.
HandshakeSync ==
  /\ sio \in Awaiting /\ spyLink = "up"
  /\ sio' = CASE sio = "both" -> "info" [] sio = "sync" -> "start" [] OTHER -> sio
  /\ \/ \E s \in Syncs : ApplyClientSync(Given(s))
     \/ UNCHANGED <<lastSync, canControl, window, capabilities, newSync, newWindow>>
  /\ UNCHANGED <<spySession, codec, spyLink, jitterStop, reports, streaming, iqBuf, maxRate,
                 minDecim, rates, newInfo, rateVars, ppc, enabled>>

HandshakeFails ==
  /\ sio \in Awaiting
  /\ sio' = "closed" /\ codec' = FALSE /\ spyLink' = "none"
  /\ UNCHANGED <<spySession, jitterStop, reports, streaming, iqBuf, report, rateVars, ppc, enabled>>

\* jitter.start: the ring keeps its size.
StartJitter ==
  /\ sio = "start" /\ sio' = "choose" /\ jitterStop' = FALSE /\ ppc' = "idle"
  /\ UNCHANGED <<spySession, codec, spyLink, reports, streaming, iqBuf, report, rateVars, enabled>>

\* set_sample_rate, in two parts: the rate is chosen among those reported, ...
ChooseRate ==
  /\ \/ sio = "choose" /\ UNCHANGED reports
     \/ sio = "running" /\ reports < SpyMessages /\ reports' = reports + 1
  /\ \E r \in Rates : chosen' = FindNearest(rates, r)
  /\ sio' = "set"
  /\ UNCHANGED <<spySession, codec, spyLink, jitterStop, streaming, iqBuf, report, actual, ring,
                 decimation, ppc, enabled>>

Larger(a, b) == IF a > b THEN a ELSE b

\* ... and its decimation sent, if the connection still takes it.
SetDecimation ==
  /\ sio = "set"
  /\ IF spyLink = "up"
     THEN /\ decimation' = Larger(BitLength(maxRate) - BitLength(chosen), minDecim)
          /\ actual' = chosen /\ ring' = chosen /\ sio' = "running"
     ELSE sio' = "close" /\ UNCHANGED <<decimation, actual, ring>>
  /\ UNCHANGED <<spySession, codec, spyLink, jitterStop, reports, streaming, iqBuf, report, chosen,
                 ppc, enabled>>

\* close: the codec is taken away, the stream turned off, the connection shut down and the
\* producer told to stop.
CloseBegins ==
  /\ sio \in {"running", "close"} /\ sio' = "join"
  /\ codec' = FALSE /\ spyLink' = "shut" /\ jitterStop' = TRUE
  /\ UNCHANGED <<spySession, reports, streaming, iqBuf, report, rateVars, ppc, enabled>>

Forget ==
  /\ streaming' = FALSE /\ iqBuf' = {} /\ lastSync' = NoSync
  /\ UNCHANGED <<maxRate, minDecim, rates, canControl, window, capabilities, newInfo, newSync,
                 newWindow>>

\* (mutant) The fields are reset before the producer is joined.
CloseForgetsFirst ==
  /\ \/ sio = "join" /\ sio' = "joined" /\ Forget /\ UNCHANGED spyLink
     \/ /\ sio = "joined" /\ ppc = "dead" /\ sio' = "closed" /\ spyLink' = "none"
        /\ UNCHANGED <<streaming, iqBuf, report>>
  /\ UNCHANGED <<spySession, codec, jitterStop, reports, rateVars, ppc, enabled>>

\* jitter.stop joins the producer, then the connection is closed and the session forgotten.
CloseForgets ==
  /\ sio = "join" /\ ppc = "dead"
  /\ sio' = "closed" /\ spyLink' = "none" /\ Forget
  /\ UNCHANGED <<spySession, codec, jitterStop, reports, rateVars, ppc, enabled>>

\* interrupt by DeviceContext.stop, or the server ends the connection
SpyInterrupt ==
  /\ spyLink = "up" /\ codec /\ spyLink' = "shut"
  /\ UNCHANGED <<sio, spySession, codec, jitterStop, reports, streaming, iqBuf, report, rateVars,
                 ppc, enabled>>

------------------------------------------------------------------------------
(* The producer of the jitter buffer                                         *)

\* _loop of the jitter buffer: it waits while the ring has no size.
NextChunk ==
  /\ ppc = "idle"
  /\ \/ jitterStop /\ ppc' = "dead"
     \/ ~jitterStop /\ ring > 0 /\ ppc' = "check"
  /\ UNCHANGED <<lifecycle, reports, streaming, iqBuf, report, rateVars, enabled>>

\* _read_raw; without a codec it raises.
CheckStreaming ==
  /\ ppc = "check"
  /\ ppc' = IF ~codec THEN "dead" ELSE IF streaming THEN "recv" ELSE "enable"
  /\ UNCHANGED <<lifecycle, reports, streaming, iqBuf, report, rateVars, enabled>>

EnableStream ==
  /\ ppc = "enable"
  /\ IF codec /\ spyLink = "up" THEN ppc' = "mark" /\ enabled' = TRUE
                                ELSE ppc' = "dead" /\ UNCHANGED enabled
  /\ UNCHANGED <<lifecycle, reports, streaming, iqBuf, report, rateVars>>

MarkStreaming ==
  /\ ppc = "mark" /\ ppc' = "recv" /\ streaming' = TRUE
  /\ UNCHANGED <<lifecycle, reports, iqBuf, report, rateVars, enabled>>

\* recv_message fails when the connection is shut down or the codec taken away.
ReceiveEnds ==
  /\ ppc = "recv" /\ ~(codec /\ spyLink = "up") /\ ppc' = "dead"
  /\ UNCHANGED <<lifecycle, reports, streaming, iqBuf, report, rateVars, enabled>>

Receiving == ppc = "recv" /\ codec /\ spyLink = "up"

\* Samples, with which the chunk may be complete: what is left over stays in the buffer.
ReceiveSamples ==
  /\ Receiving /\ enabled
  /\ \/ iqBuf' = iqBuf \cup {spySession} /\ UNCHANGED ppc
     \/ iqBuf' \in {{}, {spySession}} /\ ppc' = "idle"
  /\ UNCHANGED <<lifecycle, reports, streaming, report, rateVars, enabled>>

ReceiveSync ==
  /\ Receiving /\ reports < SpyMessages /\ reports' = reports + 1
  /\ \E s \in Syncs : ApplyClientSync(Given(s))
  /\ UNCHANGED <<lifecycle, streaming, iqBuf, maxRate, minDecim, rates, newInfo, rateVars, ppc,
                 enabled>>

ReceiveInfo ==
  /\ Receiving /\ reports < SpyMessages /\ reports' = reports + 1
  /\ \E i \in Infos : InfoFields(i)
  /\ ppc' = "apply"
  /\ UNCHANGED <<lifecycle, streaming, iqBuf, rates, lastSync, canControl, window, capabilities,
                 newSync, newWindow, rateVars, enabled>>

ApplyInfo ==
  /\ ppc = "apply" /\ ppc' = "recv" /\ InfoRates
  /\ UNCHANGED <<lifecycle, reports, streaming, iqBuf, maxRate, minDecim, lastSync, canControl,
                 window, newInfo, newSync, newWindow, rateVars, enabled>>

------------------------------------------------------------------------------
SpyIO == \/ Connect \/ HandshakeInfo \/ HandshakeSync \/ HandshakeFails \/ StartJitter
         \/ ChooseRate \/ SetDecimation \/ CloseBegins \/ CloseForgets
SpyProducer == \/ NextChunk \/ CheckStreaming \/ EnableStream \/ MarkStreaming \/ ReceiveEnds
               \/ ReceiveSamples \/ ReceiveSync \/ ReceiveInfo \/ ApplyInfo
SpyNext == SpyIO \/ SpyProducer \/ SpyInterrupt
SpySpec == SpyInit /\ [][SpyNext]_spyVars

------------------------------------------------------------------------------
(* Properties                                                                *)

SpyTypeOK ==
  /\ sio \in Awaiting \cup
       {"closed", "start", "choose", "set", "running", "close", "join", "joined"}
  /\ ppc \in {"dead", "idle", "check", "enable", "mark", "recv", "apply"}
  /\ spySession \in 0 .. SpySessions /\ reports \in 0 .. SpyMessages
  /\ spyLink \in {"none", "up", "shut"} /\ iqBuf \subseteq 1 .. SpySessions
  /\ {maxRate, minDecim, actual, chosen, ring, window} \subseteq Nat /\ rates \subseteq Nat
  /\ decimation \in Nat \cup {Unset}
  /\ \A b \in {codec, streaming, canControl, jitterStop, enabled} : b \in BOOLEAN

\* _streaming is true only when the server of this session was told to stream, and the samples
\* that wait in _iq_buf are of this session: otherwise a restarted receiver would wait for a
\* stream nobody asked for, or begin with the end of the last one.
FreshSession ==
  sio # "closed" => (streaming => enabled) /\ iqBuf \subseteq {spySession}

\* What the rest of the program is told of the receiver is what its newest reports say, whichever
\* came last: each handler takes along what the other one stored, and a skipped report loses
\* nothing. The window is the newest one given, in this session or before.
CapabilitiesAreNewest ==
  newSync.given /\ ppc # "apply" =>
    capabilities = Capabilities(RatesOf(newInfo), newSync, newWindow, newSync.control)

==============================================================================
