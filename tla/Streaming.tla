------------------------------ MODULE Streaming ------------------------------
(* The samples of one running device on their way to the loudspeaker:        *)
(* the I/O thread (core/sdr/workers/io_worker.py) puts batches in the sample *)
(* queue, the pipeline thread (pipeline_worker.py, demodulator_stage.py,     *)
(* denoiser_stage.py) turns them into audio batches in the audio queue, the  *)
(* audio thread (audio_worker.py) cuts them into blocks for the player, and  *)
(* the engine (engine.py) changes the demodulator and the output under them. *)
(*                                                                           *)
(* A batch is known by its number, counted from 1 as the device delivers     *)
(* them, and an audio frame by its place in the whole stream: batch n holds  *)
(* the frames (n - 1) * BatchFrames + 1 to n * BatchFrames.                  *)
(*                                                                           *)
(* A configuration on its way to the pipeline thread is known by the mode it *)
(* names: Off for one without the audio pipeline, and for the global         *)
(* configuration, which the demodulator stage ignores just so.               *)
EXTENDS Integers, Sequences

CONSTANTS
  Modes, Off,   \* demodulators; the one that stands for no audio pipeline
  Wants,        \* per mode, the blocks its batches ask to prebuffer; 0: it has no audio
  SampleCap,    \* length of the sample queue
  AudioCap,     \* length of the audio queue
  ControlCap,   \* length of pipeline_control_queue
  BatchFrames,  \* frames of an audio batch
  BlockFrames,  \* BLOCK_SIZE
  DepthFactor,  \* _MAX_DEPTH_FACTOR
  MaxReads,     \* bound: batches the device delivers
  MaxOps        \* bound: operations of the engine, gain steps and changes of the default speaker

ASSUME StreamingAssumption ==
  /\ Wants \in [Modes -> Nat] /\ Off \in Modes /\ Wants[Off] = 0
  /\ {SampleCap, AudioCap, ControlCap, BatchFrames, BlockFrames, DepthFactor} \subseteq Nat \ {0}
  /\ MaxReads \in Nat /\ MaxOps \in Nat

VARIABLES
  ioPc, reads, hand,   \* I/O thread: its place, batches read so far, the batch it has in hand
  sampleQ, dropped,    \* the sample queue; batches counted as dropped
  pipePc, piped, using,\* pipeline thread: its place, the batch it works on and the mode it
                       \* works in
  mode, taken,         \* the mode of the demodulator stage; batches the pipeline took
  agc,                 \* the mode in the configuration its gain control has just made
  control,             \* pipeline_control_queue: modes to apply
  audioQ,              \* audio batches: their numbers and what they ask to prebuffer
  apc, go,             \* audio thread: its place, and should_continue
  pre, pending, prebuffered, residual, flush,  \* its fields; residual also holds the rest of
                                               \* the batch it is cutting up
  player, played,      \* the player's queue of blocks; the last frame played
  registered,          \* the device is in engine._audio_workers
  wanted,              \* the mode in the device's configuration
  epc, target, ops,    \* main thread: its place, the mode it sets; counter of the bound
  cut,                 \* history: the last frame the audio thread had when a flush was requested
  accepted,            \* history: since the mode was last changed a configuration with it was
                       \* queued, and none with another mode after it
  ahead, tail          \* history: configurations queued before it, and batches of other modes
                       \* that gave audio after it was queued

io == <<ioPc, reads, hand, dropped>>
pipe == <<pipePc, piped, using, mode, taken, agc>>
audio == <<pre, pending, prebuffered, residual>>
engine == <<registered, wanted, epc, target, ops>>
told == <<accepted, ahead, tail>>
vars == <<io, sampleQ, pipe, control, audioQ, apc, go, audio, flush, player, played, engine,
          cut, told>>

None == 0
HasAudio(m) == Wants[m] > 0
Frames(n) == [i \in 1 .. BatchFrames |-> (n - 1) * BatchFrames + i]
Newest(s, n) == IF Len(s) <= n THEN s ELSE SubSeq(s, Len(s) - n + 1, Len(s))

\* The blocks of a list of blocks, as frames.
Flat(blocks) == [i \in 1 .. Len(blocks) * BlockFrames |->
                   blocks[(i - 1) \div BlockFrames + 1][((i - 1) % BlockFrames) + 1]]

Init ==
  /\ ioPc = "read" /\ reads = 0 /\ hand = None /\ sampleQ = <<>> /\ dropped = 0
  /\ pipePc = "control" /\ piped = None /\ taken = 0 /\ control = <<>> /\ audioQ = <<>>
  /\ mode \in Modes /\ using = mode /\ wanted = mode /\ target = mode /\ agc = Off
  /\ registered = HasAudio(mode) /\ go = registered
  /\ apc = (IF registered THEN "setup" ELSE "dead")
  /\ pre = 1 /\ pending = <<>> /\ prebuffered = FALSE /\ residual = <<>> /\ flush = FALSE
  /\ player = <<>> /\ played = 0
  /\ epc = "idle" /\ ops = 0 /\ cut = 0
  /\ accepted = TRUE /\ ahead = 0 /\ tail = 0

------------------------------------------------------------------------------
(* The I/O thread                                                            *)

\* read_samples; a read that fails changes nothing.
Read ==
  /\ ioPc = "read" /\ reads < MaxReads
  /\ reads' = reads + 1 /\ hand' = reads + 1 /\ ioPc' = "put"
  /\ UNCHANGED <<sampleQ, dropped, pipe, control, audioQ, apc, go, audio, flush, player, played,
                 engine, cut, told>>

\* sample_queue.put(batch, timeout=0.1)
PutBatch ==
  /\ ioPc = "put" /\ Len(sampleQ) < SampleCap
  /\ sampleQ' = Append(sampleQ, hand) /\ hand' = None /\ ioPc' = "read"
  /\ UNCHANGED <<reads, dropped, pipe, control, audioQ, apc, go, audio, flush, player, played,
                 engine, cut, told>>

PutTimesOut ==
  /\ ioPc = "put" /\ Len(sampleQ) = SampleCap
  /\ ioPc' = "full"
  /\ UNCHANGED <<reads, hand, sampleQ, dropped, pipe, control, audioQ, apc, go, audio, flush,
                 player, played, engine, cut, told>>

\* (mutant) The count is inside the try.
EvictUncounted ==
  /\ ioPc = "full"
  /\ \/ sampleQ # <<>> /\ sampleQ' = Tail(sampleQ) /\ ioPc' = "replace" /\ UNCHANGED hand
     \/ sampleQ = <<>> /\ hand' = None /\ ioPc' = "read" /\ UNCHANGED sampleQ
  /\ UNCHANGED <<reads, dropped, pipe, control, audioQ, apc, go, audio, flush, player, played,
                 engine, cut, told>>

\* get(block=False): a pipeline that emptied the queue meanwhile costs the batch in hand.
Evict ==
  /\ ioPc = "full"
  /\ \/ /\ sampleQ # <<>>
        /\ sampleQ' = Tail(sampleQ) /\ ioPc' = "replace"
        /\ UNCHANGED <<hand, dropped>>
     \/ /\ sampleQ = <<>>
        /\ hand' = None /\ dropped' = dropped + 1 /\ ioPc' = "read"
        /\ UNCHANGED sampleQ
  /\ UNCHANGED <<reads, pipe, control, audioQ, apc, go, audio, flush, player, played, engine,
                 cut, told>>

\* put(block=False) after the eviction; the I/O thread is the only one that puts.
Replace ==
  /\ ioPc = "replace"
  /\ sampleQ' = Append(sampleQ, hand) /\ hand' = None
  /\ dropped' = dropped + 1 /\ ioPc' = "read"
  /\ UNCHANGED <<reads, pipe, control, audioQ, apc, go, audio, flush, player, played, engine,
                 cut, told>>

------------------------------------------------------------------------------
(* The pipeline thread                                                       *)

\* pipeline_control_queue.put(block=False): a configuration that finds it full is lost.
Put(m) ==
  \/ Len(control) = ControlCap /\ UNCHANGED <<control, told>>
  \/ /\ Len(control) < ControlCap /\ control' = Append(control, m)
     /\ accepted' = (m = wanted \/ (m = Off /\ accepted))
     /\ IF m = wanted /\ ~accepted THEN ahead' = Len(control) /\ tail' = 0
                                  ELSE UNCHANGED <<ahead, tail>>

\* on_config_change of the demodulator stage, if there is one, with a mode that can be built.
Applied(m) == IF mode = Off \/ m = Off THEN mode ELSE m

\* (mutant) Configurations are applied when there are no samples to process.
ApplyWhenIdle ==
  /\ pipePc = "control" /\ pipePc' = "take"
  /\ IF control = <<>> \/ sampleQ # <<>> THEN UNCHANGED <<control, mode>>
     ELSE control' = Tail(control) /\ mode' = Applied(Head(control))
  /\ UNCHANGED <<io, sampleQ, piped, using, taken, agc, audioQ, apc, go, audio, flush, player,
                 played, engine, cut, told>>

\* One configuration of the control queue per turn.
ApplyConfig ==
  /\ pipePc = "control" /\ pipePc' = "take"
  /\ IF control = <<>> THEN UNCHANGED <<control, mode>>
     ELSE control' = Tail(control) /\ mode' = Applied(Head(control))
  /\ UNCHANGED <<io, sampleQ, piped, using, taken, agc, audioQ, apc, go, audio, flush, player,
                 played, engine, cut, told>>

\* sample_queue.get(timeout=0.1), and the snapshot of the pipelines.
TakeBatch ==
  /\ pipePc = "take"
  /\ \/ /\ sampleQ # <<>>
        /\ sampleQ' = Tail(sampleQ) /\ pipePc' = "execute"
        /\ piped' = Head(sampleQ) /\ using' = mode /\ taken' = taken + 1
     \/ /\ sampleQ = <<>> /\ pipePc' = "control"
        /\ UNCHANGED <<sampleQ, piped, using, taken>>
  /\ UNCHANGED <<io, mode, agc, control, audioQ, apc, go, audio, flush, player, played, engine,
                 cut, told>>

\* The gain control of the first pipeline sets a gain: a configuration with the mode of that
\* moment, which is queued a step later and may be overtaken by another.
SetGain ==
  /\ pipePc = "execute" /\ ops < MaxOps /\ ops' = ops + 1
  /\ pipePc' = "agc" /\ agc' = wanted
  /\ UNCHANGED <<io, sampleQ, piped, using, mode, taken, control, audioQ, apc, go, audio, flush,
                 player, played, registered, wanted, epc, target, cut, told>>

PutGain ==
  /\ pipePc = "agc" /\ pipePc' = "execute" /\ Put(agc) /\ agc' = Off
  /\ UNCHANGED <<io, sampleQ, piped, using, mode, taken, audioQ, apc, go, audio, flush, player,
                 played, engine, cut>>

\* The demodulator stage, which may give no audio (squelch), and the denoiser stage, whose put
\* does not wait: a batch that finds the audio queue full is lost.
Execute ==
  /\ pipePc = "execute" /\ pipePc' = "control" /\ piped' = None
  /\ \/ /\ HasAudio(using) /\ Len(audioQ) < AudioCap
        /\ audioQ' = Append(audioQ, [seq |-> piped, want |-> Wants[using]])
        /\ tail' = IF accepted /\ using # wanted THEN tail + 1 ELSE tail
     \/ UNCHANGED <<audioQ, tail>>
  /\ UNCHANGED <<io, sampleQ, using, mode, taken, agc, control, apc, go, audio, flush, player,
                 played, engine, cut, accepted, ahead>>

------------------------------------------------------------------------------
(* The audio thread                                                          *)

\* setup; a player that cannot be opened ends the worker, and nobody tells the engine.
Setup ==
  /\ apc = "setup" /\ apc' \in {"loop", "dead"}
  /\ UNCHANGED <<io, sampleQ, pipe, control, audioQ, go, audio, flush, player, played, engine,
                 cut, told>>

\* should_continue is false: teardown closes the player, and what it held is gone.
Teardown ==
  /\ apc = "loop" /\ ~go
  /\ apc' = "dead" /\ player' = <<>>
  /\ UNCHANGED <<io, sampleQ, pipe, control, audioQ, go, audio, flush, played, engine,
                 cut, told>>

\* _flush_pending_audio: the player's queue first, then the fields, the flag last.
FlushPlayer ==
  /\ apc = "loop" /\ go /\ flush
  /\ player' = <<>> /\ apc' = "flushing"
  /\ UNCHANGED <<io, sampleQ, pipe, control, audioQ, go, audio, flush, played, engine,
                 cut, told>>

\* (mutant) The residual of the old audio is forgotten.
ClearBlocks == pending' = <<>> /\ prebuffered' = FALSE /\ UNCHANGED residual

ClearFields == pending' = <<>> /\ residual' = <<>> /\ prebuffered' = FALSE

FlushFields ==
  /\ apc = "flushing" /\ ClearFields /\ apc' = "flushed"
  /\ UNCHANGED <<io, sampleQ, pipe, control, audioQ, go, pre, flush, player, played, engine,
                 cut, told>>

FlushDone ==
  /\ apc = "flushed" /\ flush' = FALSE /\ apc' = "follow"
  /\ UNCHANGED <<io, sampleQ, pipe, control, audioQ, go, audio, player, played, engine,
                 cut, told>>

NothingToFlush ==
  /\ apc = "loop" /\ go /\ ~flush /\ apc' = "follow"
  /\ UNCHANGED <<io, sampleQ, pipe, control, audioQ, go, audio, flush, player, played, engine,
                 cut, told>>

\* _maybe_follow_default: another default speaker gets a new player, an empty one; the fields
\* stay. One that cannot be opened ends the worker.
Follow ==
  /\ apc = "follow" /\ ops < MaxOps /\ ops' = ops + 1
  /\ apc' \in {"get", "dead"} /\ player' = <<>>
  /\ UNCHANGED <<io, sampleQ, pipe, control, audioQ, go, audio, flush, played, registered,
                 wanted, epc, target, cut, told>>

SameSpeaker ==
  /\ apc = "follow" /\ apc' = "get"
  /\ UNCHANGED <<io, sampleQ, pipe, control, audioQ, go, audio, flush, player, played, engine,
                 cut, told>>

\* (mutant) The get has no timeout.
GetAudioWaits ==
  /\ apc = "get" /\ audioQ # <<>> /\ apc' = "cut" /\ audioQ' = Tail(audioQ)
  /\ pre' = IF Head(audioQ).want > pre THEN Head(audioQ).want ELSE pre
  /\ residual' = residual \o Frames(Head(audioQ).seq)
  /\ UNCHANGED <<io, sampleQ, pipe, control, go, pending, prebuffered, flush, player, played,
                 engine, cut, told>>

\* audio_queue.get(timeout=0.1). The residual goes before the frames of the batch.
GetAudio ==
  /\ apc = "get"
  /\ \/ /\ audioQ = <<>> /\ apc' = "loop" /\ UNCHANGED <<audioQ, pre, residual>>
     \/ /\ audioQ # <<>> /\ apc' = "cut" /\ audioQ' = Tail(audioQ)
        /\ pre' = IF Head(audioQ).want > pre THEN Head(audioQ).want ELSE pre
        /\ residual' = residual \o Frames(Head(audioQ).seq)
  /\ UNCHANGED <<io, sampleQ, pipe, control, go, pending, prebuffered, flush, player, played,
                 engine, cut, told>>

\* _raw_push: the player's oldest blocks make room.
RawPush(blocks) == player' = Newest(player \o blocks, pre * DepthFactor)

\* (mutant) The block that completes the prebuffer is pushed before those held back.
PushBlockFirst ==
  /\ apc = "cut" /\ Len(residual) >= BlockFrames
  /\ residual' = SubSeq(residual, BlockFrames + 1, Len(residual))
  /\ LET block == SubSeq(residual, 1, BlockFrames)
     IN IF prebuffered \/ Len(pending) + 1 >= pre
        THEN RawPush(<<block>> \o pending) /\ pending' = <<>> /\ prebuffered' = TRUE
        ELSE pending' = Append(pending, block) /\ UNCHANGED <<player, prebuffered>>
  /\ UNCHANGED <<io, sampleQ, pipe, control, audioQ, apc, go, pre, flush, played, engine,
                 cut, told>>

\* _push_block: blocks are held back until there are enough of them.
PushBlock ==
  /\ apc = "cut" /\ Len(residual) >= BlockFrames
  /\ residual' = SubSeq(residual, BlockFrames + 1, Len(residual))
  /\ LET block == SubSeq(residual, 1, BlockFrames)
         held == Append(pending, block)
     IN \/ /\ prebuffered /\ RawPush(<<block>>) /\ UNCHANGED <<pending, prebuffered>>
        \/ /\ ~prebuffered /\ Len(held) >= pre
           /\ RawPush(held) /\ pending' = <<>> /\ prebuffered' = TRUE
        \/ /\ ~prebuffered /\ Len(held) < pre
           /\ pending' = held /\ UNCHANGED <<player, prebuffered>>
  /\ UNCHANGED <<io, sampleQ, pipe, control, audioQ, apc, go, pre, flush, played, engine,
                 cut, told>>

\* Less than a block is left: it is the residual of the next batch.
BatchDone ==
  /\ apc = "cut" /\ Len(residual) < BlockFrames /\ apc' = "loop"
  /\ UNCHANGED <<io, sampleQ, pipe, control, audioQ, go, audio, flush, player, played, engine,
                 cut, told>>

\* The player's own thread plays its oldest block.
Play ==
  /\ player # <<>>
  /\ player' = Tail(player) /\ played' = Head(player)[BlockFrames]
  /\ UNCHANGED <<io, sampleQ, pipe, control, audioQ, apc, go, audio, flush, engine,
                 cut, told>>

------------------------------------------------------------------------------
(* The engine, on the main thread                                            *)

\* A new AudioOutputWorker on an empty queue.
NewWorker ==
  /\ audioQ' = <<>> /\ apc' = "setup" /\ go' = TRUE
  /\ pre' = 1 /\ ClearFields /\ flush' = FALSE /\ cut' = 0

KeepWorker == UNCHANGED <<audioQ, apc, go, audio, flush, cut>>

\* set_audio_output_device restarts the output of a registered device.
SetAudioOutputDevice ==
  /\ epc = "idle" /\ registered /\ ops < MaxOps
  /\ ops' = ops + 1 /\ epc' = "restart" /\ go' = FALSE
  /\ UNCHANGED <<io, sampleQ, pipe, control, audioQ, apc, audio, flush, player, played,
                 registered, wanted, target, cut, told>>

\* Other settings and the global configuration are queued for the pipeline thread too.
UpdateConfig ==
  /\ epc = "idle" /\ ops < MaxOps /\ ops' = ops + 1
  /\ Put(wanted) \/ Put(Off)
  /\ UNCHANGED <<io, sampleQ, pipe, audioQ, apc, go, audio, flush, player, played, registered,
                 wanted, epc, target, cut>>

\* set_audio_demod, and `demod off`. The new mode is swapped in when it has audio, there is a
\* pipeline and the output is registered, which a worker that died still is. Without a swap the
\* output is stopped first.
SetAudioDemod(m) ==
  /\ epc = "idle" /\ ops < MaxOps /\ m # wanted
  /\ ops' = ops + 1 /\ target' = m
  /\ IF registered /\ wanted # Off /\ HasAudio(m)
     THEN epc' = "drain" /\ UNCHANGED go
     ELSE epc' = "stop" /\ go' = FALSE
  /\ UNCHANGED <<io, sampleQ, pipe, control, audioQ, apc, audio, flush, player, played,
                 registered, wanted, cut, told>>

\* _drain_audio_queue
Drain ==
  /\ epc = "drain" /\ audioQ' = <<>> /\ epc' = "request"
  /\ UNCHANGED <<io, sampleQ, pipe, control, apc, go, audio, flush, player, played, registered,
                 wanted, target, ops, cut, told>>

\* Everything the audio thread holds, oldest frame first.
InWorker == Flat(player) \o Flat(pending) \o residual

RequestFlush ==
  /\ epc = "request" /\ flush' = TRUE /\ epc' = "swap"
  /\ cut' = IF InWorker = <<>> THEN cut ELSE InWorker[Len(InWorker)]
  /\ UNCHANGED <<io, sampleQ, pipe, control, audioQ, apc, go, audio, player, played, registered,
                 wanted, target, ops, told>>

\* update_config swaps the configuration and queues it a step later.
Want(m) == wanted' = m /\ accepted' = FALSE /\ UNCHANGED <<ahead, tail>>

SwapMode ==
  /\ epc = "swap" /\ epc' = "put" /\ Want(target)
  /\ UNCHANGED <<io, sampleQ, pipe, control, audioQ, apc, go, audio, flush, player, played,
                 registered, target, ops, cut>>

PutMode ==
  /\ epc = "put" /\ epc' = "idle" /\ Put(target)
  /\ UNCHANGED <<io, sampleQ, pipe, audioQ, apc, go, audio, flush, player, played, registered,
                 wanted, target, ops, cut>>

\* stop_worker returned, the worker's thread has ended; start_audio_output follows.
Restart ==
  /\ epc = "restart" /\ apc = "dead" /\ epc' = "idle" /\ NewWorker
  /\ UNCHANGED <<io, sampleQ, pipe, control, player, played, registered, wanted, target, ops,
                 told>>

\* stop_audio_output returned, and remove_pipeline, if there is one. A batch that is being
\* executed keeps its stages.
RemovePipeline ==
  /\ epc = "stop" /\ apc = "dead" /\ registered' = FALSE
  /\ \/ wanted = Off /\ epc' = "bandwidth" /\ UNCHANGED <<mode, wanted, told>>
     \/ wanted # Off /\ epc' = "removed" /\ mode' = Off /\ Want(Off)
  /\ UNCHANGED <<io, sampleQ, pipePc, piped, using, taken, agc, control, audioQ, apc, go, audio,
                 flush, player, played, target, ops, cut>>

PutRemoved ==
  /\ epc = "removed" /\ Put(Off) /\ epc' = (IF target = Off THEN "idle" ELSE "bandwidth")
  /\ UNCHANGED <<io, sampleQ, pipe, audioQ, apc, go, audio, flush, player, played, registered,
                 wanted, target, ops, cut>>

\* Some demodulators ask for a bandwidth of their own.
PutBandwidth ==
  /\ epc = "bandwidth" /\ epc' = "add"
  /\ Put(Off) \/ UNCHANGED <<control, told>>
  /\ UNCHANGED <<io, sampleQ, pipe, audioQ, apc, go, audio, flush, player, played, registered,
                 wanted, target, ops, cut>>

\* add_pipeline: the new stages have the new mode at once; its configuration follows.
AddPipeline ==
  /\ epc = "add" /\ epc' = "added" /\ mode' = target /\ Want(target)
  /\ UNCHANGED <<io, sampleQ, pipePc, piped, using, taken, agc, control, audioQ, apc, go, audio,
                 flush, player, played, registered, target, ops, cut>>

PutAdded ==
  /\ epc = "added" /\ epc' = "start" /\ Put(target)
  /\ UNCHANGED <<io, sampleQ, pipe, audioQ, apc, go, audio, flush, player, played, registered,
                 wanted, target, ops, cut>>

StartOutput ==
  /\ epc = "start" /\ epc' = "idle" /\ registered' = HasAudio(target)
  /\ IF HasAudio(target) THEN NewWorker ELSE KeepWorker
  /\ UNCHANGED <<io, sampleQ, pipe, control, player, played, wanted, target, ops, told>>

------------------------------------------------------------------------------
IoStep == Read \/ PutBatch \/ PutTimesOut \/ Evict \/ Replace
PipeStep == ApplyConfig \/ TakeBatch \/ SetGain \/ PutGain \/ Execute
AudioStep == Setup \/ Teardown \/ FlushPlayer \/ FlushFields \/ FlushDone \/ NothingToFlush
             \/ Follow \/ SameSpeaker \/ GetAudio \/ PushBlock \/ BatchDone
EngineStep == Drain \/ RequestFlush \/ SwapMode \/ PutMode \/ Restart \/ RemovePipeline
              \/ PutRemoved \/ PutBandwidth \/ AddPipeline \/ PutAdded \/ StartOutput
UserStep == SetAudioOutputDevice \/ UpdateConfig \/ \E m \in Modes : SetAudioDemod(m)

Next == IoStep \/ PipeStep \/ AudioStep \/ Play \/ EngineStep \/ UserStep

Spec == Init /\ [][Next]_vars

\* The audio thread and the main thread go on; the user, the device and the speakers need not.
FairSpec == Spec /\ WF_vars(AudioStep) /\ WF_vars(EngineStep)

------------------------------------------------------------------------------
(* Properties                                                                *)

Increasing(s) == \A i \in 1 .. Len(s) - 1 : s[i] < s[i + 1]

\* The fields have their types, and the queues their lengths.
TypeOK ==
  /\ ioPc \in {"read", "put", "full", "replace"}
  /\ hand \in 0 .. MaxReads /\ (hand = None <=> ioPc = "read")
  /\ {reads, dropped, taken} \subseteq 0 .. MaxReads
  /\ Len(sampleQ) <= SampleCap /\ Len(audioQ) <= AudioCap
  /\ Len(control) <= ControlCap
  /\ pipePc \in {"control", "take", "execute", "agc"}
  /\ piped # None <=> pipePc \in {"execute", "agc"}
  /\ {mode, using, wanted, target, agc} \subseteq Modes
  /\ apc \in {"dead", "setup", "loop", "flushing", "flushed", "follow", "get", "cut"}
  /\ {go, prebuffered, flush, registered, accepted} \subseteq BOOLEAN
  /\ epc \in {"idle", "restart", "drain", "request", "swap", "put", "stop", "removed",
             "bandwidth", "add", "added", "start"}
  /\ Len(residual) < BlockFrames + BatchFrames

\* Every batch the device delivered is in a queue, in a thread's hand, taken by the pipeline or
\* counted as dropped (io_worker.py:262-275), also when the pipeline empties the queue between
\* the I/O thread's timeout and its eviction.
SamplesAccounted ==
  reads = taken + dropped + Len(sampleQ)
          + (IF hand = None THEN 0 ELSE 1) + (IF ioPc = "replace" THEN 1 ELSE 0)

AudioFrames == [i \in 1 .. Len(audioQ) * BatchFrames |->
                  (audioQ[(i - 1) \div BatchFrames + 1].seq - 1) * BatchFrames
                    + ((i - 1) % BatchFrames) + 1]
Upstream == (IF piped = None THEN <<>> ELSE <<piped>>) \o sampleQ
              \o (IF hand = None THEN <<>> ELSE <<hand>>)

\* Whatever is dropped, evicted, drained, flushed, prebuffered, carried over as a residual or
\* lost with a player, the way from the device to the speaker is one FIFO: no frame overtakes
\* another and none is played twice (io_worker.py:262-266, audio_worker.py:172-225, 364-378).
PathInOrder ==
  /\ Increasing(<<played>> \o InWorker \o AudioFrames)
  /\ Increasing(Upstream)
  /\ \A i \in 1 .. Len(audioQ), j \in 1 .. Len(Upstream) : audioQ[i].seq < Upstream[j]
  /\ Upstream # <<>> /\ InWorker # <<>>
       => InWorker[Len(InWorker)] <= (Upstream[1] - 1) * BatchFrames

\* After a flush nothing remains of what the audio thread had when the flush was requested, even
\* if the request came while an earlier flush ran, whose last step clears the flag
\* (audio_worker.py:99, 377; engine.py:674).
FlushIsComplete ==
  ~flush /\ apc \notin {"dead", "flushing", "flushed"}
    => \A i \in 1 .. Len(InWorker) : InWorker[i] > cut

\* Once the pipeline thread's queue has accepted a configuration with the mode that is wanted, and
\* none with another after it, audio of other modes is made for at most one batch more than
\* configurations were queued before it, those that other updates and an earlier change left
\* there included (pipeline_worker.py:65, 72; engine.py:672-693). A configuration that finds the
\* queue full is dropped (device_context.py:263-266) and promises nothing.
OldModeEnds == accepted => tail <= ahead + 1

\* Every operation of the engine on the output returns, and every requested flush is served or
\* the worker ends: the audio thread looks at both flags once per turn.
OutputIsServed ==
  /\ epc # "idle" ~> epc = "idle"
  /\ flush ~> ~flush \/ apc = "dead"
==============================================================================
