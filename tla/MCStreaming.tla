----------------------------- MODULE MCStreaming ------------------------------
(* TLC instances of Streaming, which a run takes one at a time: MCNext        *)
(* follows the one "machine" names. "path" has more batches and a demodulator *)
(* without squelch; "control" has the configurations of the gain control and  *)
(* of other updates.                                                          *)
EXTENDS Streaming

VARIABLE machine

\* One demodulator that asks for nothing special, one that asks for more, none at all.
MCModes == {"fm", "dab", "off"}
MCWants == [fm |-> 1, dab |-> 2, off |-> 0]

MCInit ==
  machine \in {"path", "control"} /\ Init /\ mode \in {"fm", Off} /\ (machine = "path" => registered)
MCNext ==
  /\ UNCHANGED machine
  /\ Next
  /\ \/ /\ machine = "path" /\ target' # Off
        /\ ~SetGain /\ ~UpdateConfig /\ (Execute => audioQ' # audioQ \/ Len(audioQ) = AudioCap)
     \/ machine = "control" /\ reads' <= 2 /\ ~SetAudioOutputDevice /\ ~Follow
MCFairSpec ==
  MCInit /\ [][MCNext]_<<machine, vars>> /\ WF_vars(AudioStep) /\ WF_vars(EngineStep)
==============================================================================
