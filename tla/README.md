# A verification project for tsdr

TLA+ modules, TLC configurations and TLAPS proofs about `tsdr`, a terminal software-defined-radio
receiver. Paths below are relative to the repository root; the Python package is `src/tsdr`.

## 1. The system

### Threads

* the Textual main thread: user interface, engine calls, layout changes.
  The console executes a command there too; only commands that answer `runs_in_background` (the
  SoapySDR and directory ones) get a thread of their own (`tui/console/command_input.py:98-113`), and
  those do not call the engine methods modelled here;
* per started device, worker threads run by `WorkerRunner` (`core/workers.py`): `io_<id>` reads
  samples and applies configuration, `pipeline_<id>` executes the processing stages, `audio_<id>`
  plays audio;
* inside devices: the jitter producer thread of the network devices, KiwiSDR waterfall and keep-alive
  threads.

`EventBus.publish` (`core/events/bus.py`) runs the handlers on the publisher's thread, so engine
handlers execute on I/O and pipeline threads too.

### Components

| component | state | operations | hard part | correct when |
|---|---|---|---|---|
| Worker framework `core/workers.py` | registry id -> handle, `_running`, `_stop_requested` | start, stop with timeout, stop all, wrapper | stop during setup, timed-out joins, late self-deregistration | live workers are registered, slots come free, a stop is never lost |
| Device context `core/sdr/device_context.py` | lifecycle state, config, pipelines, two control queues | start, stop, update_config, notify_global_config_change | config swapped under the lock, enqueued and materialised outside it; a full control queue drops the newest config | pipelines reflect the config; workers end on the newest config; one I/O thread per device |
| I/O worker `core/sdr/workers/io_worker.py` | local config, pending config, apply throttle | setup, drain, throttle, apply, read, enqueue samples | bursts of configs, device failure in the middle of an apply, full queues | the hardware converges to the last config; sample queue keeps the newest |
| Pipeline worker `core/sdr/workers/pipeline_worker.py` | config, pipelines snapshot | one control item, one batch per iteration | pipelines swapped under it | every stage sees the newest config |
| Audio worker `core/sdr/workers/audio_worker.py` | prebuffer, pending blocks, flush flag | prebuffer, push, flush, follow default speaker | flush racing push, device loss | old-mode audio is not played after a flush |
| Engine `core/sdr/engine.py` | contexts, focus and its history, audio workers | add/remove/start/stop device, focus, config, pipelines, demod | calls from several threads, stop order | focus names a device; running devices with audio, and only they, have an audio worker |
| Event bus `core/events/bus.py` | handlers | publish, subscribe, unsubscribe | handlers that fail or unsubscribe during a publish | every handler of the snapshot is called once |
| Stages `core/sdr/pipeline/stages` | per stage (record file, AGC cooldown, demodulator) | process, on_config_change, close | close from the UI thread while the pipeline thread processes | a recording is finalised once and nothing is written afterwards |
| Buffers `core/sdr/buffers.py` | ring of samples | append, get_window | wrap and partial fill | windows are what was appended |
| Tuning `core/sdr/tune_policy.py`, `spectrum_view.py` | none | derive centre, view ranges | boundaries | the channel stays inside the captured band |
| Jitter buffer `devices/_jitter_buffer.py` | ring, filling flag, producer thread, error | start, stop, read, reconfigure, producer loop | producer, reader, reconfigure and stop racing | FIFO without gaps except dropped-oldest; a reader never waits for ever |
| Network devices `devices/kiwisdr.py`, `spyserver.py`, `rtltcp.py` | sockets, handshake, capabilities, buffers of a session | open, read, interrupt, close, reports of the server | threads of a session against its close, whose joins time out, and the next open | a session starts fresh; what the program is told is what the server reported last; a lost connection is noticed |
| Other devices `devices/{soapy,rtlsdr,iq_file,mock}.py` | driver handle | open, read, close | driver I/O | - |
| Preferences, devices, band stack `core/{storage,preferences,devices,tuning}.py` | tables in memory and files | load, save, throttled writers, writeback | a kill inside a write, two threads in one file, the order of the exit | what changed is on its way to the file, and there after a clean exit |
| Clock monitor `core/clock_sync.py` | server, last result, two events | set server, probe, wait, shut down | a call between the test and the wait | a call is noticed at once |
| Decoders `radio/decoders/{rds,dmr,tetra}` | synchronisation, groups, calls, fragments | one block or burst | long input sequences with losses | nothing is put together from pieces of two transmissions; a call is heard; leftovers fade |
| Other demodulators and decoders, DSP, vocoders `radio/` | per decoder | symbol recovery, codes, filters | numerics | - |
| Layout and screen `tui/model/store.py`, `tui/view/*` | frozen UI model, target tree, live widgets by key | layout commands, commit, schedule, reconcile pass | commands between the awaits of a pass, panels that change docks | the settled screen is the tree of the model; state of kept widgets survives |
| Rest of the user interface `tui/` | event adapter, router, preferences sync, console | coalesced events, completion, history | coalescing timers, shutdown order | see preferences |

The lists of components, with what of each is modelled, and of the hazards (forty, each at its line,
with the properties that would catch it) are in `PROJECT.json`.

Interaction in one paragraph: a key or command on the main thread calls the engine; the engine starts
and stops workers through `WorkerRunner` and updates a device context, which swaps its frozen
configuration, rebuilds its stages and puts the configuration on two queues; the I/O worker applies
it to the hardware and reads batches (from a jitter buffer when the device is on the network), the
pipeline worker runs the stages on them; stages publish events, whose engine handlers may edit the
configuration again on the pipeline thread, and whose user-interface handlers (throttled by the event
adapter) commit to the UI store, each commit scheduling a pass of the reconciler.

## 2. Modules

| module | models | checked and proved in |
|---|---|---|
| `Workers` | `core/workers.py` | `MCWorkers`, `WorkersProofs` |
| `ByteRing` | `_ByteRing` of `devices/_jitter_buffer.py`, as pure operators | `JitterBufferProofs` |
| `JitterBuffer` | `JitterBuffer` of the same file; extends `ByteRing` | `MCJitterBuffer`, `JitterBufferProofs` |
| `LossyFifo` | abstract: a bounded FIFO that loses the oldest bytes; `JitterBuffer` implements it | - |
| `ConfigFlow` | `update_config`, control queues, `IOWorker.setup/run`, configuration step of the pipeline worker | `MCConfigFlow`, `DevicesProofs` |
| `Engine` | `core/sdr/engine.py`: devices, focus, demodulators, audio outputs, shutdown | `MCEngine`, `EngineProofs` |
| `Recording` | record stage, pipeline materialisation and the edits of two threads | `MCEngine`, `MCRecording`, `FilesProofs` |
| `Streaming` | sample queue, pipeline thread, audio queue, audio worker, and the engine's swaps under them | `MCStreaming`, `StreamingProofs` |
| `Interface` | `UIStore` layout operations, `derive_tree`, `Reconciler` | `MCInterface`, `InterfaceProofs` |
| `Persistence` | the files, the throttled writers, the event adapter before them, exit, kill and restart | `MCPersistence`, `FilesProofs` |
| `KiwiSDR`, `SpyServer` | sessions of the two network receivers | `MCDevices`, `DevicesProofs` |
| `ClockSync` | the SNTP monitor's thread | `MCDevices`, `DevicesProofs` |
| `RdsDecoder` | RDS from its blocks on | `MCDecoders`, `DecodersProofs` |
| `DmrDecoder` | DMR from its bursts on | `MCDecoders` |
| `TetraDecoder` | TETRA from its bursts on | `MCDecoders`, `DecodersProofs` |

Composition: `JitterBuffer` extends `ByteRing`; `Engine` works over the promise of `Workers` (slots
and late threads), `Recording` and `Streaming` put the pipeline thread beside the engine's edits,
`Persistence` composes adapter, writers and stores, `Interface` composes store, tree and reconciler.
Components that share no state are instances of one run (`MCEngine` with the recordings, `MCDevices`,
`MCDecoders`): a variable names the one that moves, and the others stand still. `MCStreaming` and
`MCDevices` hold two instances of one component in the same way, with different bounds.

An operator whose comment begins with "(mutant)" or "Mutant" is wrong on purpose: it is a plausible bug
of the definition that follows it, and putting it in the place of that definition makes TLC refute
the property `PROJECT.json` pairs it with. No specification uses them. Where a module's `TypeOK` is
not in a run it is a theorem, or documents the variables.

### Workers

A thread is created at most once, so two incarnations of one worker id are two threads. Its `phase` is
its place in `_worker_wrapper` (setup, body, loop, teardown, deregister, exiting, dead). Each critical
section under the runner's lock is one step; `stop_worker` is five (`StopLookup`, `StopRequest`,
`StopJoin`, `StopPop`, `StopReturn`), `stop_all_workers` is a loop of those over a snapshot of the ids.
`is_running`, `mark_running`, `request_stop`, `mark_stopped` are operators on the two flags. Setup may
raise, the body may return, raise or hang, and with `MayTimeout` a join may give up on a live thread.

### ByteRing, JitterBuffer, LossyFifo

`ByteRing` is arithmetic: `write` in its two pieces, with drop-oldest and oversized chunks, `pop`,
and the newest bytes that a resize keeps. `JitterBuffer` adds the condition variable: what is done
under `_cond` is one step, `wait` is a sleep ended by the next `notify_all`. One producer thread per
session calls the device's `recv` outside the lock (`calling`) and stores afterwards (`got`), so a
stop, restart or resize may come in between. The reader is one I/O thread; the control thread starts,
stops (join with time-out) and resizes. A byte carries the session that delivered it and one of two
values: enough to see reordering and bytes that outlive a session. `LossyFifo` is the promise; the
refinement mapping is `queue <- Contents(ring)`, `incoming <- chunk of the running session`,
`got <- result of read`. Left out: the wall-clock pacing of `read`, a delay before it takes the lock.

### ConfigFlow

One device. `Swap` is the part of `update_config` under the lock; `NotifyHardware` and `NotifyStages`
are the two `put_nowait`, which drop the configuration when the queue is full. The I/O thread takes
its first snapshot when setup begins, its second when the loop begins, then drains the queue and
applies the differences at most every 50 ms: the clock is a choice between `Apply` and `Defer`. Gain
and automatic gain share a register and are separate settings; the frequency stands for every setting
that is compared and set alone. `hw` is what the device was really set to, `local` what the loop
believes. Updates come from the user interface, from the pipeline thread (automatic gain) and from the
I/O thread (capabilities). A setter may raise at any time: the rest of that apply is skipped and the
loop keeps its old `config`, so that later differences are computed against what the device may no
longer be set to.

No order of updates is left out: they overlap, find a full queue, come while the device is
stopped or between the two snapshots, and the queue keeps what an earlier run left in it. In some of
these cases the code loses track of the configuration for good, so what delivery promises has to say
which. Two history variables do. `astray` looks at the control queue when something is put there and
when the loop begins: it is true while the newest configuration that waits is not the device's, because
it was overtaken by another update, did not fit, or was left by an earlier run. `suspect` are settings,
not circumstances: those that changed between the two snapshots, which the loop takes for applied, and
those that an apply which raised was to set. A setting is cleared when an apply sets it, all of them
when the device is opened. So `SettledHardware` still speaks of the other settings, of every later
update of a suspect one, and of overlaps, full queues and leftovers that happen to end well.

| what TLC shows without the history | code | what a reader of the code would expect |
|---|---|---|
| an update between the snapshots is never applied | `io_worker.py:61` and `:130` | `device_context.py:243`: the workers are told of every change |
| configurations queued before a stop are applied after the restart | `device_context.py:258` | the newest configuration holds |
| the newest configuration is dropped by a full queue | `device_context.py:259-262` | `test_io_worker_throttle.py:133` "Final scrolled value must always land." (with an unbounded queue) |
| the older of two updates that cross is queued last, and stays | `device_context.py:254-260` | `device_context.py:245` "Thread-safe" |

### Engine

The public methods are one step each: they are called on the main thread, and the two that a handler
calls on a worker's thread (`remove_pipeline`, and `update_device_config` from the gain loop) are in
`Recording` and `ConfigFlow`. The worker registry is abstracted to `registered` slots and counts of
threads per slot: `live` ones nobody has asked to stop, `late` ones that outlived their join. A late
thread that exits deregisters whatever its id names by then (`robbed`), after which the slot is
excluded from the two thread properties. `AudioFollowsDemod` is what the methods of the engine
establish for each device by itself: a running device whose demodulator has audio has an output, and
no other has one. `DESIGN.md:67` and `:165` say more, that the engine sees to it that only one audio
worker is playing across devices; no line of `engine.py` does, and `OneAudioOutput`, which states it,
is violated (finding 1). `mode` is what the audio pipeline demodulates, `standard`
whether the in-place swap of `set_audio_demod` applies.

### Recording

The device's `recording` entry (`cfg`), the `installed` stages, each stage's fields, and the files
under their partial and final names, as sample counts. The two threads edit the configuration in the
steps of the code: read the mapping, swap under the lock, materialise outside it, close what is no
longer wanted; `process` is check, open, write, finalise, announce, and the announcement's handler
removes the entry on the pipeline thread. `Overlap` allows an edit to begin inside another one; `torn`
is a history variable: recordings that the user interface closed while the pipeline thread was inside
their stage. Both hazards are real (`recording_overlap` shows the first; without the exception for
torn recordings `ClosedRecordingIsKept` is violated), and away from them everything below holds.
Different recordings have different paths: starting one on the path of an old one overwrites it.

### Streaming

A batch is its number, an audio frame its place in the stream. The three queues differ in what a full
one loses. The sample queue loses its oldest batch, in the steps of the code: a put that fails, a get
that may find the queue emptied meanwhile, a second put (`dropped` counts the loss). The audio queue
and the pipeline thread's control queue lose the newest entry, which does not get in (`Execute`, `Put`).
The pipeline thread takes one configuration and one batch per turn. The audio thread's turn is: flush
if asked, follow the default speaker, get, cut into blocks; `pre`, `pending`, `residual` and the player's
queue are frames, so that order can be stated over the whole path. The worker may crash, and then keeps
its place in `_audio_workers`. Joins are assumed not to time out here (that is `Engine`'s and `Workers`'
subject).

The engine swaps the demodulator in place (`Drain`, `RequestFlush`, `SwapMode`, `PutMode`) or replaces the
pipeline (`RemovePipeline` to `StartOutput`), with the pipeline thread running between any two steps:
the configuration is swapped in one step and queued in another, and a replacement queues two or three
(without the pipeline, with the bandwidth of the new demodulator, with the new pipeline). Swap and
materialisation of one edit are one step, their interleaving is `Recording`'s subject. Other updates
(`UpdateConfig`) and the gain control of the pipeline thread (`SetGain`, `PutGain`) fill the queue too;
the latter's configuration names the mode of an earlier moment and may be queued behind a newer one.
A configuration with another demodulator is applied in place, one without any is ignored by the
demodulator stage. That the new demodulator can be built is assumed (one that cannot leaves the old one
running). A configuration that is dropped leaves the old mode until the next one is queued, for
which nothing in the code provides: `OldModeEnds` therefore begins when one with the wanted mode has been
`accepted` and none with another mode behind it, and counts the batches that give audio in an old mode
from then on (`tail`) against the configurations that stood before it (`ahead`).

### Interface

`model` is the layout (panels and active panel per edge, strip, image mode, decoder of the focused
device); each command is one action that ends in `Commit`, which schedules the tree of the new model.
A widget is named by its path of keys and a tree is a function from paths to the ordered keys of the
children, so a panel on another edge is another widget under the same key, as in the code. The
reconciler's recursion is a stack of calls; every awaited mount and removal is a step, between which
commands and events may commit. `byKey` is `_by_key`. `Layout` is where the panels are docked when the
program starts, which a file may have changed; the run takes the panels of `DEFAULT_LAYOUT` that it has.
Mounting a second sibling with the same id raises in Textual: `crashed`.

### Persistence

Values are numbers that say which is newer. Entries are the tables of `config.toml`, a device of
`devices.toml` and a band register; a file is the values of its entries or `Torn`. Each thread has a
list of steps it has begun and not made: reading the file, changing the dictionary, opening the file
(which truncates it), dumping, closing; a handler of an event runs on the thread that publishes it,
so the gain loop's writeback meets the main thread's savers in the same files (`overlapped`). Timers
are the adapter's (50 ms) and the writers' (250 ms); `younger` records which of the two began last.
`on_unmount` is its calls in order, and the process may be killed between any two steps and started
again with what it reads.

### KiwiSDR, SpyServer, ClockSync

`KiwiSDR` has two sockets and, for each session, three threads with a program counter; the I/O
thread opens (two handshakes), starts the producer, drains frames and closes in the steps of `close`.
The joins of `close` may time out (`JitterJoin`, `CloseEnds`; `MaxLate` bounds how many threads they give
up on): the sockets are torn down and the buffers cleared all the same, and the thread goes on, with a
frame or row it holds, into the next session, whose `open` has cleared the stop flag it looks at. A
producer that outlived its join makes the next `jitter.start` raise, so that `open` ends in `close`.
The readers take the socket of their session as they start; the keep-alive thread looks both up in each
turn (`grip`), so a late one writes to the sockets of the next session and may acknowledge for it. A
late waterfall thread does append its row to the buffer of the next session; `outlived` records whose,
and `OwnSessionOnly` excepts rows of these sessions, not samples.
A dropped connection is `lost`, and `reset` once something was written to it, after which writes fail.
`SpyServer` is the handshake in any order, the choice of a rate and its decimation, which is
computed from fields that the producer may replace meanwhile, the stream's start by the producer, and
the close. The reports are applied as the two handlers do, from what the other one stored; `newInfo`,
`newSync`, `newWindow` are histories of what the server said last. `ClockSync` is the polling thread's
loop around two events and the calls of the main thread.

### RdsDecoder, DmrDecoder, TetraDecoder

One step is one block, or one burst. What is received well, badly or not at all is a free choice; the
fields of a transmission are reduced to what the decoder's decisions depend on, and what they belong
to (the group, the station, the message) is carried along as history, so that a mixture can be seen.
In `RdsDecoder` the expected block and the true position are different variables. In `DmrDecoder` the
bursts alternate between two slots and the announced slot may be misread; time is counted in bursts.
In `TetraDecoder` a burst carries one block (the halves of a burst with two are channels of their
own), a fragment chain and a cached message exclude each other and are one variable, and ages are
quantised to the steps in which they are compared.

## 3. Runs

All runs use two TLC workers and end within minutes. Bounds are CONSTANTS or constraints named in the
modules; no run replaces a definition.

| run | shows | instance, and why it is enough |
|---|---|---|
| `workers` | slots come free; alone, live workers are reachable; stops end, also for hanging workers | 2 ids, 2 threads, 2 callers, time-outs; 111,038 states. In one half of the behaviours (`alone`) one caller whose joins wait uses both ids, in the other two callers meet on one id. Two threads are two incarnations of one id or workers of two |
| `jitter_safety` | no lost wake-up, refinement of `LossyFifo`, a read returns once resizes cease | capacities 0, 1 and 3, chunks of up to 2 bytes of two values, 2 sessions: wrap, overflow, a chunk longer than the ring, an idle ring, a restart after a timed-out stop |
| `flow_delivery` | the device ends as configured; batches are labelled right; the last update lands | 2 frequencies, 2 gains, automatic gain, 3 updaters, 2 updates, queues of 1, setters that raise; 728 thousand states: every comparison comes out either way, two updates overlap in every order, and the second finds the queue full |
| `engine_recordings` | engine: focus, outputs, free slots, shutdown. Recordings: kept whole; entries and stages agree; limited ones end | engine: 3 devices (removing the focused one leaves a choice), 2 of them started, one slow audio thread, at most one late thread per slot. Recordings: 2, 3 edits, limits none/0/2 against batches of 0, 1 and 3: exact, overshooting and empty batches. Together 247,632 states |
| `engine_one_output` | violation, finding 1 | 2 devices, as in `engine_recordings` |
| `recording_overlap` | violation, finding 2 | edits overlap |
| `interface_screen` | the settled screen is the tree, and what the router finds is on it; the last change is drawn | panels `stats` (grows a second widget) and `demod` (may have none), 3 edges, a decoder, any restored layout, at most one command from the beginning of a pass to its end, at any of its awaits (`OnePerFrame`); 396,576 states |
| `persistence_saved` | what changed is scheduled to be saved; a clean exit saves it; a torn file has one of the known reasons; a change reaches the disk | 3 events (commands, gain changes, restarts) with a gain loop: a command and a gain change may meet in a file, and be followed by another command or by a new start |
| `streaming_path` | no sample unaccounted for, no frame reordered or repeated; flushes are complete; the old mode ends; operations return | sample queue of 1, audio and control queues of 2, 2 operations (gain steps and other updates counted), batches of 3 frames and blocks of 2, so that every second batch leaves a residual; three modes, one without audio and one that prebuffers more. `path`: 3 batches, no other configurations. `control`: 2 batches, gain control and updates. A replacement alone queues three configurations on a queue of two: the run meets dropped ones and overtaken ones. 545 thousand states |
| `devices` | buffers and streams belong to the session; capabilities are the newest reports; calls are noticed; a loss is noticed; warnings are acknowledged | KiwiSDR: one session with 2 messages, and 2 sessions with one thread that outlives its join. SpyServer: 2 sessions, 2 reports (one of each kind, or the same twice), two infos and three syncs, two rates. Clock: 2 hosts, 3 calls. 359 thousand states |
| `decoders` | groups, names and messages of one transmission; identity changes are confirmed; a call is heard; leftovers fade | RDS: 2 stations, a retune, a false block, 2 wrong blocks or 40 % of 3 end synchronisation. DMR: the counts of the code but a voice time-out of 4 bursts. TETRA: 2 slots, 1 channel, time-outs of one unit; 437,550 states |
| `rds_sync` | violation, finding 3 | as `decoders` |

`CHECK_DEADLOCK FALSE` is given where the system may stop: after shutdown, or when nothing is recorded
and the edits are used up (`MCEngine`), when the user has stopped and the screen is drawn
(`Interface`), after the last exit (`Persistence`), when the device's batches are played (`Streaming`),
and when the sessions are used up (`KiwiSDR`, `SpyServer`, `ClockSync`).

History variables, none of which restricts a behaviour except by choosing an instance: `alone` (which
half of the instance a behaviour of `workers` belongs to), `machine` and `decoder` (which part moves),
`later` (order of focusing, in `MCEngine`), `astray`, `suspect` (`ConfigFlow`), `torn` (`Recording`),
`robbed` (`Engine`), `overlapped`, `late`, `skipped`, `struck` (`Persistence`), `cut`, `accepted`,
`ahead`, `tail` (`Streaming`), `asked`, `owed`, `outlived` (`KiwiSDR`), `newInfo`, `newSync`,
`newWindow` and the enabled stream (`SpyServer`), `noticed` (`ClockSync`), and in the decoders what
received pieces belong to.

### Findings

1. `engine_one_output`: `start_audio_output` (`engine.py:547`) looks only whether the device itself has an
   output. Two devices that are started and demodulated both play, where `DESIGN.md:67` and `:165` say that
   only one audio worker can be. Either the document is ahead of the code or the coordination is missing.
2. `recording_overlap`: an edit by the pipeline thread inside one of the user interface leaves a closed
   stage in the pipelines, against the invariant the docstring states.
3. `rds_sync`: `EnterSync` computes the next block from the index of the offset, where C' has an index
   of its own, not from the block position of which the comment says "C and C' both at pos 2". A
   synchronisation that begins with a C' or a D block expects the wrong one, every block fails and
   after ten it is lost again; on a clean signal this can repeat for ever.

### Seen while modelling, without a run of their own

* A worker stopped with a time-out and started again is taken out of the registry when its old thread
  exits at last (`workers.py:198`; the docstring at `:147` calls that a no-op). `Engine` excuses it
  by `robbed`, `Workers` shows reachability for a lone caller whose joins wait.
* `_jitter_buffer.py:224` compares the read with the capacity before the wait only: after a resize
  below the read's size (`:255`) it waits for ever. The comment `:7` says "10% of watermark", the code
  uses 0.5 (`:24`, `:273`).
* `device_context.py:259-266`: a configuration that finds a control queue full is dropped without a
  word, and nothing queues it again: the device, or the demodulator, stays as it was until the next
  update. Two updates whose puts cross leave the older one in force. With the other cases of section 2
  (`io_worker.py:130`, leftovers of an earlier run) these are what `astray`, `suspect` and `accepted`
  excuse.
* `kiwisdr.py:544-553`: a waterfall thread that outlives its join appends its row after `close` has cleared
  the rows, and the next session shows it; a late keep-alive thread goes on in the next session beside the
  new one. A producer that outlives its join makes every later `open` fail until it has ended.
* `device_context.py:184`: the pipeline worker is launched only when the device has a pipeline at that
  moment; one added later is never executed until the device is restarted.
* `remove_device` and `shutdown` close no record stage (`engine.py:153`); `get_active_audio_sources`
  (`engine.py:590`) lists a worker that crashed; the volume is not saved while there is no device
  (`engine.py:394`).
* `reconciler.py:101`: with two commands in one frame, a panel moved to an edge that is visited
  earlier while another takes its place leaves its old widget on the screen (`:107`: "unmounted").
* `textual_adapter.py:171`: `on_unmount` stops the adapter, with an event pending, before the writer is
  flushed: the last change is lost (`engine_prefs_sync.py:40` promises the opposite). `ExitSaves`
  excuses it by `late`.
* `preferences.py:226`: a device whose type is unknown when the program starts is not restored, and the
  next save drops it from `devices.toml` (`skipped`). `restore_devices` catches
  `OSError, ConnectionError, ValueError` (`:233`), but `engine.add_device` wraps failures in
  `ConfigurationError` (`engine.py:117`).
* `tuning.py:228`: `_writeback_pending = False` may overwrite another thread's `True`.
* `spyserver.py:416`: a receiver that is opened again streams at the old ring size before the
  decimation is set; `:520`: the decimation is computed from rates that a report may replace meanwhile.
* `kiwisdr.py`: a failed handshake of a second session reports the fatal reason of the first.
* `rds.py:526`: `summary` and `pi_code` use blocks without looking at their validity. After a loss of
  synchronisation the count of groups starts again, so that one wrong A block clears a station.
* `dmr/decoder.py:48-51`: five bursts without a sync pattern are a superframe of one slot. The count is
  shared by both: with calls on both slots up to ten such bursts follow each other, and the lock,
  with both calls, is dropped in every superframe. `CallIsHeard` is about one call at a time.
* `tetra/decoder.py:338`: while two slots talk, the audio of the slot that is not selected is kept
  without bound and all of it is played at the switch; the comment speaks of ageing it out.
  `trackers.py:80`: `reset_tdma` is never called, so after a loss of the lock slots are counted from a
  stale anchor until the next good SB1.

## 4. Fairness

* `Workers`: callers go on with calls they have begun (`FairCallers`: they are straight-line code; a
  join ends when the thread is dead or by its time-out). `FairThreads` says that setup, loop body and
  teardown return; `FairStopEventuallyExits` assumes it. Nobody is obliged to call anything.
* `JitterBuffer`: the producer runs and its receive ends, with bytes or (once the socket is shut down)
  an error; the reader and the join run. `ReadReturns` assumes in its statement that resizes cease.
* `ConfigFlow`: begun updates end, the I/O thread runs; strong fairness of `Apply`, because the 50 ms
  pass again and again while the loop iterates, whereas a single iteration may come too early.
* `Recording` (its fairness is that of `MCSpec` while recordings are what moves): the threads run;
  strong fairness of a non-empty batch, as a running device delivers samples again and again, with empty
  batches (after resampling) in between.
* `Interface`: the event loop runs the callbacks it was given and resumes the pass that awaits; the
  user is not fair. `ChangesReachScreen` exempts a user who never pauses.
* `Persistence`: threads make the steps they have begun, timers fire, messages are handled, the
  interval of 50 ms ends. The register of a band is excluded from `ChangesReachDisk`: its last
  writeback may wait for the next change, by design of the throttle.
* `Streaming`: the audio thread and the engine's operations go on. Neither the device nor the
  pipeline thread is fair: a flush is served without them.
* `KiwiSDR`: the threads of each session, late ones too. What the server sends is open, and so is
  whether the I/O thread looks: `LossIsNoticed` asks for the error it would find.
* `DmrDecoder`: bursts go on. `TetraDecoder`: `demodulate` is called again and again and time passes
  between the calls (`EndOfBatch(1)`).

## 5. Proofs

All theorems hold for every value of the constants that satisfies the modules' named assumptions.

* `WorkersProofs`. `Inv` adds to the types that a handle in use belongs to a thread that was started
  (`HandlesInv`): without it a registry slot could name a thread that has not run. It gives
  `SlotsAreFreed` and `StoppedIsDead`; `StopIsHonoured` is an action property from the same invariant.
  `ReachInv` adds that fresh threads have no id and that a stop in progress targets the only live
  thread of its id (`StopTargetInv`); under `OneCaller` and joins that wait it gives
  `LiveWorkersReachable`, `OneWorkerPerId`, `TrueMeansExited`. The hypotheses are needed: with two
  callers or late threads TLC finds both facts violated. `AloneReachable` drops them and says the same
  of the behaviours in which one caller alone acts (the `alone` half of the run), by `ReachInv` there.
* `JitterBufferProofs`. For every capacity, ring and chunk, `write` keeps the ring well formed and its
  contents are the newest bytes of old contents and chunk; `pop` returns the oldest bytes and leaves
  the rest. The argument goes position by position, in the two pieces of a wrap. `BufferInv`: the ring
  has the capacity of the configuration, at most one session has a live producer, and bytes are held
  only by a producer that is about to store them. It gives the types and the absence of lost wake-ups.
  The refinement of `LossyFifo` goes step by step: a store is `WriteIsFifo`, a read `PopIsFifo`, a
  resize `ResizeKeepsNewest`, all else stutters.
* `EngineProofs`. `FocusInv` (the history is distinct, within the devices, and ends with the focus) is
  inductive alone; with the order of focusing (`later`, kept by `MCEngine`) it gives `FocusIsHandedOn`,
  for the history lists the devices in that order (`LaterInv`). `WorkInv` adds that devices that are
  gone are idle and that a registered slot has exactly one thread nobody asked to stop, an unregistered
  one none; both together give the outputs, the free slots, the single threads and the completeness of
  shutdown.
* `StreamingProofs`. `SamplesInv` counts: a batch that was evicted is counted when its successor is
  stored, and there is room for that one. `ModeInv`: when a configuration has been accepted, one with
  the wanted mode has a place in the control queue or is applied, all behind it are neutral or name the
  wanted mode too, and the batches of old modes that have given audio, the one in hand and the
  configurations before that place are together bounded (`Promised`). A put either changes nothing or
  keeps or begins such a promise (`PutKeeps`), also when it is the gain control's. `StoppedInv`: no
  audio thread runs while the pipeline is replaced. For the order, `LineInv` says that numbers increase
  from the audio queue back to the device, `HeldInv` that the frames in player, pending blocks and
  residual increase and come after the last frame played, and one batch `n` joins the two: all that the
  audio thread holds, has played or must flush is of the batches up to `n`, all that is on its way comes
  later (`Room`). Every step of the audio thread but two only loses frames at the old end or moves a
  block's boundary (`EndsIn`, `EndKeeps`); playing takes the oldest block, and a new batch is put after
  all that is held (`BatchFollows`), which moves `n` on.
* `DevicesProofs`, `ConfigFlow`. `Delivery`: when nothing is astray, the newest of what waits for the
  hardware (queue, then pending, then local) is the configuration, or an update is in flight; what the
  loop believes it applied is what the device is set to, but for the suspect settings. The theorems
  `HardwareSettles` and `BatchesAreLabelled` have no hypothesis: overlaps, full queues, leftovers and the
  opening window are all in the specification they speak of.
* `DevicesProofs`, devices and clock. `OwnInv` and `SessionInv`: what threads hold and send belongs to
  their session, samples to the one that runs, rows to it or to one whose thread outlived its join, for
  any number of late threads; `ReportInv`: what is stored of a server is what it said last, until the
  other handler has run; `NoticeInv`: a call that has not been noticed has its event set or is still to
  be made. `Plain` and `OwnInv` give the types of a KiwiSDR.
* `DecodersProofs`. RDS: a group is complete only from blocks since the synchronisation (`FreshInv`),
  an identity changes only when two groups agree. `TallyInv`: what stations other than the named one
  have among the votes, and what the group in hand may still add (`Owing`), is at most two for each
  change of the station or mistaken block, as a group that names the old station is owed to one of
  them (`NameIsOfTheStation`). With `Counting` and `Named` these give the types, among them that the
  counters of wrong blocks stay below what ends the synchronisation. TETRA (`PiecesInv`): while a
  message is heard slots are counted rightly, and what is pending under its channel is its own or gone.
* `InterfaceProofs`. Paths and trees first: what removing a subtree and mounting a child do to a tree
  (`PrunedTree`, `GrownTree`). Siblings of every tree are in one fixed order (`InOrder`), so that the
  children still wanted and those already there never have to be exchanged. `PassOK` holds at every
  await of a pass: the calls in flight follow one branch of both trees (`CallsOK`), the children up to
  the one that is visited are in their places and no unwanted ones are left (`Walked`), what lies under
  those before it is drawn (`Done`), and what hangs on a widget of the new tree is found by its key
  (`Known`). The last needs that a key that has another place in the new tree loses its old parent there
  (`Apart`); otherwise the mount would leave its old widget behind. `LayoutsApart`: the trees of two
  layouts are such when a panel that becomes the active one of another edge leaves none on its own
  (`Handed`), which every single command does (`ActivatedOK`, `MovedOK`), and two commands together need
  not. Hence the assumption `OnePerFrame` of `ScreenIsTheTree` and of the types; without it the
  observation in section 3 about `reconciler.py:101` is what happens. `IInv` adds that the tree that is
  drawn or waits is the model's, so that a pass that ends (`PassEnds`) leaves the tree of the model. TLC
  checked `IInv` on the instance of the run before it was proved.
* `FilesProofs`, `Recording`. Both theorems assume that edits do not overlap (`~Overlap`); finding 2 is
  what happens otherwise. `ConfigInv` gives `PipelinesReflect`: when no edit is in flight the live
  stages are those of the mapping, and inside an edit each of its steps (`EditOK`) says what is already
  swapped, what is still to be closed and by whom. `FilesInv` gives `ClosedIsKept`: at each place of
  `close` and `process` (`FileOK`) the samples of a stage are under its partial name, its final name,
  or between the two in the hands of the one thread that closes it.
* `FilesProofs`, `Persistence`. `ListsOK`: the list of a thread is linked (the steps of a save follow
  each other, and what a handler begins is put before what it interrupts) and holds only steps of that
  thread and phase. `CopiesOK`, `AloneInFile`, `TruncatedOK`: what is about to be dumped is a whole
  file; in a file that no two threads met in at most one thread is between opening and closing; while
  it is, the file is truncated. These give `TornHasAReason`. `LostInv` gives `UnsavedIsOnItsWay` and
  `ExitHasSaved`: whatever is in memory and not on disk has a promise (`ToCome`: a step of a list, a
  timer, a message, a pending event, a throttled register) that leads to a save and that `on_unmount`
  has not gone past; a step that uses up one promise makes the next or writes the value (`NothingLost`).
  `TornAssumption` says that the mark of a torn file is not what a save writes.

Only model-checked, and why: liveness under fairness, `ENABLED` and induction over data are out of the
prover's reach, which leaves `HardwareFollows`, `ReadReturns`, `FairStopEventuallyExits`,
`LimitedRecordingEnds`, `ChangesReachScreen`, `ChangesReachDisk`, `OutputIsServed`, `LossIsNoticed`,
`WarningIsAcked`, `CallIsHeard` and `LeftoversFade` to TLC. Every safety property of a passing run is a
theorem. `DmrDecoder` is model-checked only: all that is asked of it is liveness.

## 6. Not modelled

`PROJECT.json` lists every component with its reason. Numerics (DSP, vocoders, symbol recovery,
codes), drivers, web pages, rendering and text are outside what a model of states says anything useful
about, and they are most of the lines of the program: `radio/` alone is half of it. Inside the modelled
parts:

* wall-clock pacing of jitter-buffer reads, statistics, logging;
* `Engine`: global configuration, checks of frequencies and the derivation of the centre;
* `Interface`: properties of widgets, the console subtree, widgets that never come or go;
* `Persistence`: stores that save synchronously on a command (memories, bandplans, favourites);
  `set_timer` called off the main thread raises in Textual and is not followed further;
* `KiwiSDR`: a change of the sample rate in mid-stream; numbers of the handshake that do not parse;
  `ws.sock` becoming None between a test and its use; kick and time limit are one reason. `SpyServer`:
  a server that forces a sample format the client cannot decode. `rtltcp.py` is a jitter buffer with
  one socket and adds nothing to the two;
* `ClockSync`: the packet and the grading of the offset; a result of an earlier server is stored all
  the same, readers compare the server before they use it;
* decoders: bits, checkwords and texts. RDS: false matches of the checkword during the search, the
  list of recent groups. DMR: choice of the slot to play and the vocoder. TETRA: what a message says.
  Decoders not modelled have little state beyond a block (ADS-B, AIS, APRS), or the same shape as the
  reassembly of TETRA (DAB, FLEX).

Events are delivered inside the step that publishes them, as `EventBus.publish` does; a handler
unsubscribed while another thread publishes may be called once more (`bus.py:35`), which no handler
modelled here minds.

## 7. What could follow

Models of the reassembly in DAB and FLEX, which has the shape of TETRA's, of the event bus with handlers
that unsubscribe, and of the stores that are written on a command (memories, bandplans, favourites).
