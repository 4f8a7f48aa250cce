-------------------------------- MODULE Engine --------------------------------
(***************************************************************************)
(* SDREngine: the devices, which of them has the focus, their demodulators *)
(* and their audio outputs, on top of the worker registry.  Its public     *)
(* methods are called by one thread at a time and are one step each; the   *)
(* threads they start may crash, and may outlive the join of their stop.   *)
(*                                                                         *)
(* A slot is a worker id: "io" stands for io_<id> and pipeline_<id>, which *)
(* are started and stopped together, "audio" for audio_<id>.               *)
(***************************************************************************)
EXTENDS Integers, Sequences, FiniteSets

CONSTANTS
  Devices,
  SlowKinds, SlowDevices,   \* the workers that may outlive the join of stop_worker
  Used,                     \* bound: the devices that are started and demodulated
  MaxLate,                  \* bound: threads of a slot that outlived their join
  NoDevice                  \* None

ASSUME EngineAssumption ==
  /\ NoDevice \notin Devices
  /\ SlowKinds \subseteq {"io", "audio"} /\ SlowDevices \subseteq Devices
  /\ Used \subseteq Devices
  /\ MaxLate \in Nat

Slots == {"io", "audio"} \X Devices
Slow == SlowKinds \X SlowDevices
Modes ==
  {"raw",     \* no audio pipeline
   "voice",   \* a demodulator with HAS_AUDIO
   "data"}    \* a demodulator without

VARIABLES
  devices,      \* keys of self.devices, in the order of insertion
  focus,        \* self.focused_device
  focusHistory, \* self._focus_history
  state,        \* context.state of each device
  mode,         \* what its "audio" pipeline demodulates
  standard,     \* whether that pipeline has the stages set_audio_demod gives it
  audioWorkers, \* keys of self._audio_workers
  registered,   \* slots the worker registry holds
  live,         \* per slot, threads that have not been asked to stop
  late,         \* per slot, threads that were asked, gave up on, and still run
  robbed,       \* history: slots a late thread has deregistered
  down          \* shutdown is over

focusing == <<devices, focus, focusHistory>>
demodulating == <<mode, standard>>
threads == <<registered, live, late, robbed>>
vars == <<focusing, state, demodulating, audioWorkers, threads, down>>

Existing == {devices[i] : i \in DOMAIN devices}
Running(d) == state[d] = "running"

\* Both lists name a device at most once: it is taken out where it is.
Position(seq, d) == CHOOSE i \in DOMAIN seq : seq[i] = d
Without(seq, d) ==
  IF \E i \in DOMAIN seq : seq[i] = d
  THEN [i \in 1 .. Len(seq) - 1 |-> IF i < Position(seq, d) THEN seq[i] ELSE seq[i + 1]]
  ELSE seq

Init ==
  /\ devices = <<>> /\ focus = NoDevice /\ focusHistory = <<>>
  /\ state = [d \in Devices |-> "stopped"]
  /\ mode = [d \in Devices |-> "raw"] /\ standard = [d \in Devices |-> TRUE]
  /\ audioWorkers = {}
  /\ registered = {} /\ robbed = {}
  /\ live = [s \in Slots |-> 0] /\ late = [s \in Slots |-> 0]
  /\ down = FALSE

(***************************************************************************)
(* Workers                                                                 *)
(***************************************************************************)
\* Mutant of AudioSlots: the key is popped, the worker left to itself.
AudioSlotsForgotten(D) == {}

\* stop_audio_output stops what the registry still has under the id.
AudioSlots(D) == {<<"audio", d>> : d \in D \cap audioWorkers} \cap registered

\* SDRDeviceContext.stop asks through its own handles, registered or not.
DeviceSlots(D) == {<<"io", d>> : d \in {e \in D : Running(e)}}

Asked(s, stopped) == s \in stopped /\ live[s] > 0

\* The threads of `stopped' are asked to stop and joined, then those of
\* `launched' started.  Of the slow ones some outlive the join.
ChangeWorkers(stopped, launched) ==
  \E timedOut \in SUBSET {s \in stopped \cap Slow : late[s] < MaxLate} :
    /\ registered' = (registered \ stopped) \cup launched
    /\ live' = [s \in Slots |-> live[s] - (IF Asked(s, stopped) THEN 1 ELSE 0)
                                         + (IF s \in launched THEN 1 ELSE 0)]
    /\ late' = [s \in Slots |-> late[s] + (IF Asked(s, stopped) /\ s \in timedOut THEN 1 ELSE 0)]
    /\ UNCHANGED robbed

\* A thread that ends pops its worker id, whoever is registered under it.
Crash(s) ==
  /\ live[s] > 0
  /\ live' = [live EXCEPT ![s] = @ - 1]
  /\ registered' = registered \ {s}
  /\ UNCHANGED <<focusing, state, demodulating, audioWorkers, late, robbed, down>>

\* Bound: a slot is robbed once.
LateExit(s) ==
  /\ late[s] > 0 /\ s \notin robbed \cap registered
  /\ late' = [late EXCEPT ![s] = @ - 1]
  /\ registered' = registered \ {s}
  /\ robbed' = robbed \cup ({s} \cap registered)
  /\ UNCHANGED <<focusing, state, demodulating, audioWorkers, live, down>>

(***************************************************************************)
(* Devices and focus                                                       *)
(***************************************************************************)
Called == ~down
CalledFor(d) == Called /\ d \in Existing

\* Mutant of Recorded: an earlier focus of the device is kept.
RecordedTwice(history, d) == Append(history, d)

\* _record_focus
Recorded(history, d) == Append(Without(history, d), d)

\* A device that is not there is stopped and has no pipeline.
AddDevice(d) ==
  /\ Called /\ d \notin Existing
  /\ devices' = Append(devices, d)
  /\ IF focus = NoDevice
     THEN focus' = d /\ focusHistory' = Recorded(focusHistory, d)
     ELSE UNCHANGED <<focus, focusHistory>>
  /\ UNCHANGED <<state, demodulating, audioWorkers, threads, down>>

\* Mutant of Heir: an arbitrary survivor.
HeirFirst(history, survivors) == IF survivors # <<>> THEN survivors[1] ELSE NoDevice

\* The last focused survivor, else the device that was added first.
Heir(history, survivors) ==
  IF history # <<>> THEN history[Len(history)]
  ELSE IF survivors # <<>> THEN survivors[1] ELSE NoDevice

RemoveDevice(d) ==
  LET survivors == Without(devices, d)
      history == Without(focusHistory, d)
      heir == Heir(history, survivors) IN
  /\ CalledFor(d) /\ ~Running(d)
  /\ ChangeWorkers(AudioSlots({d}), {})
  /\ audioWorkers' = audioWorkers \ {d}
  /\ devices' = survivors
  /\ focus' = IF focus = d THEN heir ELSE focus
  /\ focusHistory' = IF focus = d /\ heir # NoDevice THEN Recorded(history, heir) ELSE history
  /\ mode' = [mode EXCEPT ![d] = "raw"] /\ standard' = [standard EXCEPT ![d] = TRUE]
  /\ UNCHANGED <<state, down>>

SetFocusedDevice(d) ==
  /\ CalledFor(d) /\ focus # d
  /\ focus' = d /\ focusHistory' = Recorded(focusHistory, d)
  /\ UNCHANGED <<devices, state, demodulating, audioWorkers, threads, down>>

(***************************************************************************)
(* Starting and stopping                                                   *)
(***************************************************************************)
\* start_audio_output starts nothing for a device that is stopped, or that has
\* an audio worker.
Launched(d, running, m) ==
  IF running /\ m = "voice" THEN {<<"audio", d>>} ELSE {}

StartDevice(d) ==
  /\ CalledFor(d) /\ d \in Used /\ ~Running(d)
  /\ state' = [state EXCEPT ![d] = "running"]
  /\ LET audio == IF d \in audioWorkers THEN {} ELSE Launched(d, TRUE, mode[d]) IN
       /\ ChangeWorkers({}, {<<"io", d>>} \cup audio)
       /\ audioWorkers' = audioWorkers \cup {s[2] : s \in audio}
  /\ UNCHANGED <<focusing, demodulating, down>>

StopDevice(d) ==
  /\ CalledFor(d)
  /\ ChangeWorkers(AudioSlots({d}) \cup DeviceSlots({d}), {})
  /\ state' = [state EXCEPT ![d] = "stopped"]
  /\ audioWorkers' = audioWorkers \ {d}
  /\ UNCHANGED <<focusing, demodulating, down>>

\* Mutant of Shutdown: only the contexts are stopped.
ShutdownContexts ==
  /\ Called
  /\ ChangeWorkers(DeviceSlots(Existing), {})
  /\ state' = [d \in Devices |-> IF d \in Existing THEN "stopped" ELSE state[d]]
  /\ audioWorkers' = {}
  /\ down' = TRUE
  /\ UNCHANGED <<focusing, demodulating>>

\* Every running device, what is left of the audio outputs, then every worker
\* that is still registered.
Shutdown ==
  /\ Called
  /\ ChangeWorkers(DeviceSlots(Existing) \cup AudioSlots(Devices) \cup registered, {})
  /\ state' = [d \in Devices |-> IF d \in Existing THEN "stopped" ELSE state[d]]
  /\ audioWorkers' = {}
  /\ down' = TRUE
  /\ UNCHANGED <<focusing, demodulating>>

(***************************************************************************)
(* Demodulators and audio outputs                                          *)
(***************************************************************************)
\* Mutant of CanSwapInPlace: the new mode may be without audio.
CanSwapInPlaceAny(d, m) == d \in audioWorkers /\ mode[d] # "raw" /\ standard[d]

CanSwapInPlace(d, m) ==
  d \in audioWorkers /\ mode[d] # "raw" /\ standard[d] /\ m = "voice"

SetAudioDemod(d, m) ==
  /\ CalledFor(d) /\ d \in Used
  /\ mode' = [mode EXCEPT ![d] = m]
  /\ standard' = [standard EXCEPT ![d] = TRUE]
  /\ IF CanSwapInPlace(d, m)
     THEN UNCHANGED <<audioWorkers, threads>>
     ELSE LET audio == Launched(d, Running(d), m) IN
          /\ ChangeWorkers(AudioSlots({d}), audio)
          /\ audioWorkers' = (audioWorkers \ {d}) \cup {s[2] : s \in audio}
  /\ UNCHANGED <<focusing, state, down>>

\* The commands that turn demodulation off: stop_audio_output, then
\* remove_pipeline.
DemodOff(d) ==
  /\ CalledFor(d)
  /\ ChangeWorkers(AudioSlots({d}), {})
  /\ audioWorkers' = audioWorkers \ {d}
  /\ mode' = [mode EXCEPT ![d] = "raw"] /\ standard' = [standard EXCEPT ![d] = TRUE]
  /\ UNCHANGED <<focusing, state, down>>

\* The pipeline command adds or removes a stage.
EditStages(d) ==
  /\ CalledFor(d) /\ mode[d] # "raw"
  /\ standard' = [standard EXCEPT ![d] = FALSE]
  /\ UNCHANGED <<focusing, state, mode, audioWorkers, threads, down>>

\* Each output is stopped and started again, if its device runs.
SetAudioOutputDevice ==
  LET again == {d \in audioWorkers : Running(d)} IN
  /\ Called
  /\ ChangeWorkers(AudioSlots(audioWorkers), {<<"audio", d>> : d \in again})
  /\ audioWorkers' = again
  /\ UNCHANGED <<focusing, state, demodulating, down>>

Next ==
  \/ \E d \in Devices :
       \/ AddDevice(d) \/ RemoveDevice(d) \/ SetFocusedDevice(d)
       \/ StartDevice(d) \/ StopDevice(d)
       \/ \E m \in Modes \ {"raw"} : SetAudioDemod(d, m)
       \/ DemodOff(d) \/ EditStages(d)
  \/ SetAudioOutputDevice \/ Shutdown
  \/ \E s \in Slots : Crash(s) \/ LateExit(s)

Spec == Init /\ [][Next]_vars

------------------------------------------------------------------------------
(***************************************************************************)
(* Properties                                                              *)
(***************************************************************************)
TypeOK ==
  /\ devices \in Seq(Devices) /\ focus \in Devices \cup {NoDevice}
  /\ focusHistory \in Seq(Devices)
  /\ state \in [Devices -> {"stopped", "running"}]
  /\ mode \in [Devices -> Modes] /\ standard \in [Devices -> BOOLEAN]
  /\ audioWorkers \subseteq Devices
  /\ {registered, robbed} \subseteq SUBSET Slots
  /\ live \in [Slots -> Nat] /\ late \in [Slots -> Nat]
  /\ down \in BOOLEAN

\* There is a focused device exactly when there is a device; the history names
\* each device at most once, none that is gone, and the focused one last.
\* (add_device, remove_device, set_focused_device, _record_focus.)
FocusIsConsistent ==
  /\ focus = NoDevice <=> devices = <<>>
  /\ focus # NoDevice => focus \in Existing /\ focusHistory # <<>> /\ focusHistory[Len(focusHistory)] = focus
  /\ \A i, j \in DOMAIN focusHistory : focusHistory[i] = focusHistory[j] => i = j
  /\ \A i \in DOMAIN focusHistory : focusHistory[i] \in Existing

\* The engine keeps an audio output for exactly the running devices whose
\* demodulator has audio, whatever the order in which devices are started,
\* demodulators set, stages edited and the output device changed: one output per
\* device, as engine.py:547-567 has it, where DESIGN.md promises OneAudioOutput.
AudioFollowsDemod ==
  \A d \in Existing : d \in audioWorkers <=> Running(d) /\ mode[d] = "voice"

\* "The engine also coordinates across device contexts, such as ensuring only one
\* audio worker is actively playing" (DESIGN.md:67, and :165 again). Violated:
\* start_audio_output looks at the outputs of its own device only.
OneAudioOutput ==
  \A d, e \in audioWorkers :
    live[<<"audio", d>>] > 0 /\ live[<<"audio", e>>] > 0 => d = e

\* start_worker raises for an id that is registered, which would leave a device
\* in STARTING: no start ever finds its id taken.
StartFindsSlotFree ==
  \A d \in Devices :
    /\ (d \in Existing /\ Running(d)) \/ <<"io", d>> \notin registered
    /\ d \in audioWorkers \/ <<"audio", d>> \notin registered

\* A worker id never has two threads that nobody has asked to stop, unless a
\* thread that was given up on has deregistered a successor.
OneThreadPerSlot == \A s \in Slots \ robbed : live[s] <= 1

\* "Stops all running devices and cleans up all worker threads"
\* (engine.py:774): after shutdown every thread that still runs has been asked
\* to stop, with the same exception.
ShutdownAsksEveryThread == down => \A s \in Slots \ robbed : live[s] = 0
===============================================================================
