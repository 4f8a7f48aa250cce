----------------------------- MODULE ConfigFlow ------------------------------
(***************************************************************************)
(* How a configuration reaches the hardware and the stages of one device   *)
(* (SDRDeviceContext.update_config, IOWorker, PipelineWorker).  An update  *)
(* swaps the configuration under its lock and then, outside the lock, puts *)
(* it on two bounded queues.  The I/O thread opens the device with a       *)
(* snapshot, takes another one when its loop begins, and from then on      *)
(* applies the differences between what it last applied and the newest     *)
(* configuration of its queue, at most once in 50 ms.                      *)
(*                                                                         *)
(* The frequency stands for every setting that is compared and set alone   *)
(* (sample rate, bias tee, buffer seconds); gain and automatic gain share  *)
(* a register and are kept apart.  Two history variables record where the  *)
(* code itself loses track: `astray', that the newest configuration did    *)
(* not get behind the others on the control queue, and `suspect', the      *)
(* settings the loop believes applied and never set.                       *)
(***************************************************************************)
EXTENDS Integers, Sequences

CONSTANTS
  Freqs, Gains,     \* values of center_frequency and rf_gain
  Updaters,         \* threads that call update_config
  CtlMax,           \* maxsize of control_queue
  StgMax,           \* maxsize of pipeline_control_queue
  MaxEdits,         \* bound: how many updates are made
  NoConfig          \* None

Configs == [freq : Freqs, auto : BOOLEAN, gain : Gains]

ASSUME FlowAssumption ==
  /\ Freqs # {} /\ Gains # {}
  /\ Updaters \subseteq {"ui", "pipeline", "io"}
  /\ CtlMax \in Nat \ {0} /\ StgMax \in Nat \ {0} /\ MaxEdits \in Nat
  /\ NoConfig \notin Configs

Idle == [at |-> "idle", new |-> NoConfig]

VARIABLES
  state,     \* context.state, STARTING counted as running
  config,    \* context._device_config
  update,    \* per updater, how far its update_config is and with what
  ctl,       \* control_queue
  stg,       \* pipeline_control_queue
  io,        \* where the I/O thread is
  local,     \* `config' of IOWorker.setup, then of IOWorker.run
  pending,   \* IOWorker._pending_config
  hw,        \* what the device is set to
  astray,    \* history: the newest configuration on the control queue, at the
             \* last put or when the loop began, was not the device's: it had been
             \* overtaken, dropped, or left by an earlier run
  suspect,   \* history: settings that changed between the two snapshots, or that
             \* an application which raised was to set, and that no application
             \* has set since
  pipe,      \* where the pipeline thread is
  stages,    \* the configuration its stages follow
  edits      \* updates made

queues == <<ctl, stg, astray>>
hardware == <<io, local, pending, hw, suspect>>
processing == <<pipe, stages>>
updating == <<config, update, edits>>
vars == <<state, updating, queues, hardware, processing>>

InFlight(u) == update[u].at # "idle"
Looping == io \in {"top", "drained", "reading"}

Init ==
  /\ state = "stopped" /\ config \in Configs
  /\ update = [u \in Updaters |-> Idle] /\ edits = 0
  /\ ctl = <<>> /\ stg = <<>>
  /\ io = "off" /\ local = config /\ pending = NoConfig /\ hw = config
  /\ astray = FALSE /\ suspect = {}
  /\ pipe = "off" /\ stages = config

(***************************************************************************)
(* The context: start, stop and update_config                              *)
(***************************************************************************)
\* start and stop are called by the thread that makes the "ui" updates.
ControlIsFree == \A u \in Updaters \cap {"ui"} : ~InFlight(u)

Start ==
  /\ ControlIsFree /\ state = "stopped"
  /\ state' = "running"
  /\ io' = "starting" /\ pending' = NoConfig     \* a new IOWorker
  /\ pipe' = "loop"
  /\ UNCHANGED <<updating, queues, local, hw, suspect, stages>>

StopRequest ==
  /\ ControlIsFree /\ state = "running"
  /\ state' = "stopping"
  /\ UNCHANGED <<updating, queues, hardware, processing>>

StopDone ==
  /\ state = "stopping" /\ io = "off" /\ pipe = "off"
  /\ state' = "stopped"
  /\ UNCHANGED <<updating, queues, hardware, processing>>

\* Where a thread calls update_config: the user interface whenever it is not
\* inside stop, a stage (automatic gain) in the pipeline loop, the I/O thread
\* (new capabilities) at the end of an iteration.
MayUpdate(u) ==
  /\ ~InFlight(u)
  /\ \/ u = "ui" /\ state # "stopping"
     \/ u = "pipeline" /\ pipe = "loop"
     \/ u = "io" /\ io = "top"

\* Automatic gain changes the gain, the other callers anything.
Edited(u) ==
  IF u = "pipeline" THEN {[config EXCEPT !.gain = g] : g \in Gains} ELSE Configs

Swap(u) ==
  /\ MayUpdate(u) /\ edits < MaxEdits
  /\ \E new \in Edited(u) :
       /\ config' = new
       /\ update' = [update EXCEPT ![u] = [at |-> "swapped", new |-> new]]
  /\ edits' = edits + 1
  /\ UNCHANGED <<state, queues, hardware, processing>>

\* put(block=False): a full queue keeps what it has.
Put(q, c, max) == IF Len(q) < max THEN Append(q, c) ELSE q

Astray(q) == q # <<>> /\ q[Len(q)] # config

NotifyHardware(u) ==
  /\ update[u].at = "swapped"
  /\ IF state = "stopped"
     THEN /\ update' = [update EXCEPT ![u] = Idle]
          /\ UNCHANGED <<ctl, astray>>
     ELSE /\ ctl' = Put(ctl, update[u].new, CtlMax) /\ astray' = Astray(ctl')
          /\ update' = [update EXCEPT ![u].at = "halfway"]
  /\ UNCHANGED <<state, config, edits, stg, hardware, processing>>

NotifyStages(u) ==
  /\ update[u].at = "halfway"
  /\ stg' = Put(stg, update[u].new, StgMax)
  /\ update' = [update EXCEPT ![u] = Idle]
  /\ UNCHANGED <<state, config, edits, ctl, astray, hardware, processing>>

(***************************************************************************)
(* The device and the I/O thread                                           *)
(***************************************************************************)
\* Setting a gain turns automatic gain off.
Manual(h, g) == [freq |-> h.freq, auto |-> FALSE, gain |-> g]
Automatic(h) == [freq |-> h.freq, auto |-> TRUE, gain |-> h.gain]

SetUp(h, c) ==
  LET tuned == [freq |-> c.freq, auto |-> h.auto, gain |-> h.gain]
  IN IF c.auto THEN Automatic(tuned) ELSE Manual(tuned, c.gain)

\* The setters of one application, in their order, each called only for a
\* difference between the new configuration and the one applied last; and
\* the settings they set.
Tuned(h, new, old) ==
  IF new.freq # old.freq THEN [freq |-> new.freq, auto |-> h.auto, gain |-> h.gain] ELSE h
\* A mutant: automatic gain is left only when the gain changes too.
ToggledOneWay(h, new, old) ==
  IF new.auto = old.auto \/ ~new.auto THEN h ELSE Automatic(h)

Toggled(h, new, old) ==
  IF new.auto = old.auto THEN h
  ELSE IF new.auto THEN Automatic(h) ELSE Manual(h, new.gain)
Gained(h, new, old) ==
  IF ~new.auto /\ new.gain # old.gain THEN Manual(h, new.gain) ELSE h

Touched(new, old) ==
  {f \in {"freq", "gain"} :
     IF f = "freq" THEN new.freq # old.freq
     ELSE new.auto # old.auto \/ (~new.auto /\ new.gain # old.gain)}

Applied(h, new, old) == Gained(Toggled(Tuned(h, new, old), new, old), new, old)
\* What an application leaves that a raising setter ends.
PartlyApplied(h, new, old) ==
  {h, Tuned(h, new, old), Toggled(Tuned(h, new, old), new, old)}

IoStep(from, to) == io = from /\ io' = to /\ UNCHANGED <<state, updating, stg, processing>>

Snapshot ==
  /\ IoStep("starting", "opening")
  /\ local' = config
  /\ UNCHANGED <<ctl, astray, pending, hw, suspect>>

Open ==
  /\ IoStep("opening", "opened")
  /\ hw' = SetUp(hw, local) /\ suspect' = {}
  /\ UNCHANGED <<ctl, astray, local, pending>>

\* Any setter of setup may raise: the thread ends, the device state stays.
OpenFails ==
  /\ IoStep("opening", "off")
  /\ UNCHANGED <<ctl, astray, local, pending, hw, suspect>>

RunBegins ==
  /\ IoStep("opened", "top")
  /\ local' = config
  /\ suspect' = Touched(config, local) /\ astray' = Astray(ctl)
  /\ UNCHANGED <<ctl, pending, hw>>

\* should_continue, then the newest configuration of the queue.
NotUpdating(u) == u \in Updaters => ~InFlight(u)

Drained(queue, kept) == IF queue = <<>> THEN kept ELSE queue[Len(queue)]

Drain ==
  /\ state = "running" /\ NotUpdating("io")
  /\ IoStep("top", "drained")
  /\ pending' = Drained(ctl, pending) /\ ctl' = <<>>
  /\ UNCHANGED <<astray, local, hw, suspect>>

RunEnds ==
  /\ state = "stopping" /\ NotUpdating("io")
  /\ IoStep("top", "off")
  /\ UNCHANGED <<ctl, astray, local, pending, hw, suspect>>

Apply ==
  /\ pending # NoConfig
  /\ IoStep("drained", "reading")
  /\ hw' = Applied(hw, pending, local)
  /\ local' = pending /\ pending' = NoConfig
  /\ suspect' = suspect \ Touched(pending, local)
  /\ UNCHANGED <<ctl, astray>>

\* A setter raises: what was set stays set, the configuration is given up.
ApplyFails ==
  /\ pending # NoConfig
  /\ IoStep("drained", "reading")
  /\ hw' \in PartlyApplied(hw, pending, local)
  /\ suspect' = suspect \cup Touched(pending, local)
  /\ pending' = NoConfig
  /\ UNCHANGED <<local, ctl, astray>>

\* A mutant: a configuration that comes too early is dropped.
DeferDrops ==
  /\ IoStep("drained", "reading")
  /\ pending' = NoConfig
  /\ UNCHANGED <<ctl, astray, local, hw, suspect>>

\* A mutant: it is taken for the applied one.
DeferAdopts ==
  /\ IoStep("drained", "reading")
  /\ local' = IF pending = NoConfig THEN local ELSE pending
  /\ UNCHANGED <<ctl, astray, pending, hw, suspect>>

\* Nothing to apply, or less than 50 ms since the last application.
Defer ==
  /\ IoStep("drained", "reading")
  /\ UNCHANGED <<ctl, astray, local, pending, hw, suspect>>

\* read_samples and the batch it fills, labelled with local.freq.
Read ==
  /\ IoStep("reading", "top")
  /\ UNCHANGED <<ctl, astray, local, pending, hw, suspect>>

(***************************************************************************)
(* The pipeline thread: one configuration an iteration                     *)
(***************************************************************************)

StagesFollow ==
  /\ pipe = "loop" /\ state = "running" /\ NotUpdating("pipeline")
  /\ stg # <<>>
  /\ stages' = Head(stg) /\ stg' = Tail(stg)
  /\ UNCHANGED <<state, updating, ctl, astray, hardware, pipe>>

PipelineEnds ==
  /\ pipe = "loop" /\ state = "stopping" /\ NotUpdating("pipeline")
  /\ pipe' = "off"
  /\ UNCHANGED <<state, updating, queues, hardware, stages>>

Notify(u) == NotifyHardware(u) \/ NotifyStages(u)
ControlNext == Start \/ StopRequest \/ StopDone
SetupNext == Snapshot \/ Open \/ OpenFails \/ RunBegins
LoopNext == Drain \/ RunEnds \/ Apply \/ ApplyFails \/ Defer \/ Read

Next ==
  \/ ControlNext
  \/ \E u \in Updaters : Swap(u) \/ Notify(u)
  \/ SetupNext \/ LoopNext
  \/ StagesFollow \/ PipelineEnds

Spec == Init /\ [][Next]_vars

\* The threads run; an iteration that finds 50 ms passed comes again and again.
Fairness ==
  /\ \A u \in Updaters : WF_vars(Notify(u))
  /\ WF_vars(SetupNext) /\ WF_vars(LoopNext) /\ SF_vars(Apply)

(***************************************************************************)
(* Properties                                                              *)
(***************************************************************************)
TypeOK ==
  /\ state \in {"stopped", "running", "stopping"}
  /\ config \in Configs /\ edits \in Nat
  /\ update \in [Updaters -> {Idle} \cup [at : {"swapped", "halfway"}, new : Configs]]
  /\ ctl \in Seq(Configs) /\ Len(ctl) <= CtlMax
  /\ stg \in Seq(Configs) /\ Len(stg) <= StgMax
  /\ io \in {"off", "starting", "opening", "opened", "top", "drained", "reading"}
  /\ local \in Configs /\ pending \in Configs \cup {NoConfig} /\ hw \in Configs
  /\ astray \in BOOLEAN /\ suspect \subseteq {"freq", "gain"}
  /\ pipe \in {"off", "loop"} /\ stages \in Configs

\* The device is set as a configuration asks.
TunedAs(h, c) == h.freq = c.freq
GainedAs(h, c) == h.auto = c.auto /\ (c.auto \/ h.gain = c.gain)
MatchesBut(h, c, fields) ==
  ("freq" \notin fields => TunedAs(h, c)) /\ ("gain" \notin fields => GainedAs(h, c))

\* The loop has nothing left to take, and no update is between its swap and
\* its put.
Settled ==
  /\ Looping /\ ctl = <<>> /\ pending = NoConfig
  /\ \A u \in Updaters : update[u].at # "swapped"

\* A settled device is set as the configuration says (update_config:
\* "triggers hardware reconfiguration"), whatever happened before: updates
\* that crossed, found the queue full, were made while the device was stopped
\* or being opened, or were deferred by the rate limit; setters that raised;
\* restarts. Excepted are the setting under suspicion, until an application
\* sets it, and every setting while the newest configuration is astray, until
\* the next update.
SettledHardware == Settled /\ ~astray => MatchesBut(hw, config, suspect)

\* A batch is labelled with the frequency the device was tuned to when it was
\* read (SamplesBatch.center_frequency), updates waiting, lost or crossing,
\* unless the frequency is under suspicion.
LabelIsTuned == io = "reading" /\ "freq" \notin suspect => local.freq = hw.freq

\* A device in its loop that is not set as its configuration says becomes so,
\* or a setting is under suspicion, or the configuration astray, or the loop
\* is left: the last of a burst of updates lands, rate limit or not.
HardwareFollows ==
  (Looping /\ ~MatchesBut(hw, config, {}))
    ~> (MatchesBut(hw, config, {}) \/ suspect # {} \/ astray \/ ~Looping)
=============================================================================
