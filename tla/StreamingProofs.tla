--------------------------- MODULE StreamingProofs ---------------------------
(* Proofs about Streaming, for any length of the queues and any sizes of the *)
(* batches and blocks. Counts first: SamplesInv says where each batch is     *)
(* that the device delivered, ModeInv how many batches can still come out in *)
(* another mode than the accepted one, which is at some place p of the queue *)
(* or applied. Then the order: LineInv orders the batches by number from the *)
(* device to the audio queue, WorkerTypes and HeldInv order                  *)
(* the frames in the audio thread, and Room(n) joins the two: all that the   *)
(* audio thread holds, has played or must flush is of the batches up to n,   *)
(* and all that is still on its way to it comes after n.                     *)
EXTENDS Streaming, SequenceTheorems, TLAPS

LEMMA Lengths ==
  /\ SampleCap \in Nat /\ SampleCap > 0 /\ AudioCap \in Nat /\ AudioCap > 0
  /\ BatchFrames \in Nat /\ BatchFrames > 0 /\ BlockFrames \in Nat /\ BlockFrames > 0
  /\ ControlCap \in Nat /\ ControlCap > 0
BY StreamingAssumption

LEMMA OffIsMode == Off \in Modes /\ ~HasAudio(Off)
BY StreamingAssumption DEF HasAudio

LEMMA EmptyHasNoLength == ASSUME NEW S, NEW s \in Seq(S) PROVE s = <<>> <=> Len(s) = 0
OBVIOUS

------------------------------------------------------------------------------
(* Samples                                                                   *)

\* The I/O thread has a batch in hand unless it reads, and room for it after an eviction.
SamplesInv ==
  /\ ioPc \in {"read", "put", "full", "replace"}
  /\ reads \in Nat /\ dropped \in Nat /\ taken \in Nat /\ hand \in Nat
  /\ hand # None <=> ioPc # "read"
  /\ sampleQ \in Seq(Nat) /\ Len(sampleQ) <= SampleCap
  /\ ioPc = "replace" => Len(sampleQ) < SampleCap
  /\ SamplesAccounted

LEMMA SamplesInit == Init => SamplesInv
BY Lengths DEF Init, SamplesInv, SamplesAccounted, None

LEMMA SamplesStep == SamplesInv /\ [Next]_vars => SamplesInv'
<1> SUFFICES ASSUME SamplesInv, [Next]_vars
             PROVE  SamplesInv'
  OBVIOUS
<1> USE DEF SamplesInv, SamplesAccounted, None
<1>1. CASE Read
  BY <1>1 DEF Read, pipe
<1>2. CASE PutBatch
  <2>1. /\ ioPc = "put" /\ Len(sampleQ) < SampleCap /\ sampleQ' = Append(sampleQ, hand)
        /\ hand' = 0 /\ ioPc' = "read" /\ UNCHANGED <<reads, dropped, taken>>
    BY <1>2 DEF PutBatch, pipe
  <2>2. sampleQ' \in Seq(Nat) /\ Len(sampleQ') = Len(sampleQ) + 1
    BY <2>1
  <2> QED
    BY <2>1, <2>2, Lengths
<1>3. CASE PutTimesOut
  <2>1. ioPc = "put" /\ ioPc' = "full" /\ UNCHANGED <<reads, hand, sampleQ, dropped, taken>>
    BY <1>3 DEF PutTimesOut, pipe
  <2> QED
    BY <2>1, Lengths
<1>4. CASE Evict
  <2>1. ioPc = "full" /\ UNCHANGED <<reads, taken>>
    BY <1>4 DEF Evict, pipe
  <2>2. CASE sampleQ # <<>>
    <3>1. sampleQ' = Tail(sampleQ) /\ ioPc' = "replace" /\ UNCHANGED <<hand, dropped>>
      BY <1>4, <2>2 DEF Evict
    <3>2. sampleQ' \in Seq(Nat) /\ Len(sampleQ') = Len(sampleQ) - 1
      BY <2>2, <3>1
    <3> QED
      BY <2>1, <3>1, <3>2, Lengths
  <2>3. CASE sampleQ = <<>>
    <3>1. hand' = 0 /\ dropped' = dropped + 1 /\ ioPc' = "read" /\ sampleQ' = sampleQ
      BY <1>4, <2>3 DEF Evict
    <3> QED
      BY <2>1, <3>1, Lengths
  <2> QED
    BY <2>2, <2>3
<1>5. CASE Replace
  <2>1. /\ ioPc = "replace" /\ sampleQ' = Append(sampleQ, hand) /\ hand' = 0
        /\ dropped' = dropped + 1 /\ ioPc' = "read" /\ UNCHANGED <<reads, taken>>
    BY <1>5 DEF Replace, pipe
  <2>2. sampleQ' \in Seq(Nat) /\ Len(sampleQ') = Len(sampleQ) + 1
    BY <2>1
  <2> QED
    BY <2>1, <2>2, Lengths
<1>6. CASE TakeBatch
  <2>1. CASE sampleQ # <<>>
    <3>1. sampleQ' = Tail(sampleQ) /\ taken' = taken + 1 /\ UNCHANGED <<ioPc, reads, hand, dropped>>
      BY <1>6, <2>1 DEF TakeBatch, io
    <3>2. sampleQ' \in Seq(Nat) /\ Len(sampleQ') = Len(sampleQ) - 1
      BY <2>1, <3>1
    <3> QED
      BY <3>1, <3>2, Lengths
  <2>2. CASE sampleQ = <<>>
    <3>1. UNCHANGED <<sampleQ, taken, ioPc, reads, hand, dropped>>
      BY <1>6, <2>2 DEF TakeBatch, io
    <3> QED
      BY <3>1, Lengths
  <2> QED
    BY <2>1, <2>2
<1>7. CASE UNCHANGED <<io, sampleQ, taken>>
  BY <1>7 DEF io
<1>8. ASSUME ApplyConfig \/ SetGain \/ PutGain \/ Execute \/ AudioStep \/ Play \/ EngineStep
               \/ UserStep \/ UNCHANGED vars
      PROVE  UNCHANGED <<io, sampleQ, taken>>
  BY <1>8 DEF ApplyConfig, SetGain, PutGain, Execute, AudioStep, Setup, Teardown, FlushPlayer,
       FlushFields, FlushDone, NothingToFlush, Follow, SameSpeaker, GetAudio, PushBlock, BatchDone,
       Play, EngineStep, Drain, RequestFlush, SwapMode, PutMode, Restart, RemovePipeline, PutRemoved,
       PutBandwidth, AddPipeline, PutAdded, StartOutput, UserStep, SetAudioOutputDevice,
       UpdateConfig, SetAudioDemod, vars, pipe
<1> QED
  BY <1>1, <1>2, <1>3, <1>4, <1>5, <1>6, <1>7, <1>8 DEF Next, IoStep, PipeStep

\* Every batch of samples the device delivered is in a queue, in a thread's hand, processed or
\* counted as dropped (io_worker.py:262-275), for any lengths of the queues.
THEOREM NoSampleUnaccounted == Spec => []SamplesAccounted
<1>1. SamplesInv => SamplesAccounted
  BY DEF SamplesInv
<1> QED
  BY <1>1, SamplesInit, SamplesStep, PTL DEF Spec

------------------------------------------------------------------------------
(* Modes                                                                     *)

\* A batch in hand that can still give audio in another mode than the wanted one.
OldInHand ==
  IF pipePc \in {"execute", "agc"} /\ HasAudio(using) /\ using # wanted THEN 1 ELSE 0

\* How many batches can be taken before the p-th configuration in the queue is applied.
Left(p) == IF p = 0 \/ pipePc = "take" THEN p ELSE p - 1

\* The p-th configuration in the queue has the wanted mode, or, if p is 0, the demodulator has it;
\* none behind it has another, and the batches until then are few enough.
Arrives(p) == IF p = 0 THEN mode = wanted ELSE control[p] = wanted
Stays(p) == \A i \in p + 1 .. Len(control) : control[i] \in {wanted, Off}
Few(p) == tail + OldInHand + Left(p) <= ahead + 1
Coming(p) == p \in 0 .. Len(control) /\ Arrives(p) /\ Stays(p) /\ Few(p)

ModeTypes ==
  /\ mode \in Modes /\ using \in Modes /\ target \in Modes /\ wanted \in Modes /\ agc \in Modes
  /\ control \in Seq(Modes) /\ Len(control) <= ControlCap
  /\ pipePc \in {"control", "take", "execute", "agc"}
  /\ ahead \in Nat /\ tail \in Nat /\ accepted \in BOOLEAN

\* There is an audio pipeline when one is wanted; and where a mode is swapped in, one is.
PipelineInv ==
  /\ mode = Off <=> wanted = Off
  /\ epc \in {"drain", "request", "swap"} => wanted # Off /\ target # Off

\* The accepted configuration is in the queue or applied.
Promised == accepted => \E p : Coming(p)

ModeInv == ModeTypes /\ PipelineInv /\ Promised

LEMMA ModeInit == Init => ModeInv
<1> SUFFICES ASSUME Init PROVE ModeInv
  OBVIOUS
<1>1. ModeTypes /\ PipelineInv
  BY OffIsMode, Lengths DEF Init, ModeTypes, PipelineInv
<1>2. Coming(0)
  BY DEF Init, Coming, Arrives, Stays, Few, OldInHand, Left
<1> QED
  BY <1>1, <1>2 DEF ModeInv, Promised

LEMMA InHandOrNot == OldInHand \in 0 .. 1
BY DEF OldInHand

LEMMA LeftIsNat == \A p \in Nat : Left(p) \in Nat /\ Left(p) <= p
BY DEF Left

LEMMA ComingMeans ==
  ASSUME ModeTypes, NEW p, Coming(p)
  PROVE  /\ p \in Nat /\ p <= Len(control) /\ Len(control) \in Nat /\ Arrives(p) /\ Stays(p)
         /\ tail + OldInHand + Left(p) <= ahead + 1 /\ tail \in Nat /\ ahead \in Nat
BY DEF Coming, ModeTypes, Few

\* Nothing changes that the modes depend on.
LEMMA ModeKept ==
  ASSUME ModeInv, ModeTypes', PipelineInv', UNCHANGED <<mode, using, control, wanted, told>>,
         pipePc' = pipePc \/ {pipePc, pipePc'} \subseteq {"execute", "agc"}
  PROVE  ModeInv'
<1>1. OldInHand' = OldInHand /\ \A p : Left(p)' = Left(p)
  BY DEF OldInHand, Left, HasAudio
<1>2. \A p : Coming(p) => Coming(p)'
  BY <1>1 DEF Coming, Arrives, Stays, Few, told
<1> QED
  BY <1>2 DEF ModeInv, Promised, told

\* A put keeps the promise, makes it or breaks it with another mode.
LEMMA PutKeeps ==
  ASSUME ModeInv, NEW m \in Modes, Put(m), UNCHANGED <<mode, using, wanted>>,
         pipePc' = pipePc \/ {pipePc, pipePc'} \subseteq {"execute", "agc"}
  PROVE  /\ control' \in Seq(Modes) /\ Len(control') <= ControlCap
         /\ ahead' \in Nat /\ tail' \in Nat /\ accepted' \in BOOLEAN /\ Promised'
<1>0. /\ ModeTypes /\ control \in Seq(Modes) /\ Len(control) \in Nat /\ Len(control) <= ControlCap
      /\ ahead \in Nat /\ tail \in Nat /\ accepted \in BOOLEAN
  BY DEF ModeInv, ModeTypes
<1>1. OldInHand' = OldInHand /\ \A p : Left(p)' = Left(p)
  BY DEF OldInHand, Left, HasAudio
<1>2. CASE UNCHANGED <<control, told>>
  <2>1. \A p : Coming(p) => Coming(p)'
    BY <1>1, <1>2 DEF Coming, Arrives, Stays, Few, told
  <2> QED
    BY <1>0, <1>2, <2>1 DEF ModeInv, Promised, told
<1>3. CASE ~UNCHANGED <<control, told>>
  <2>1. /\ Len(control) < ControlCap /\ control' = Append(control, m)
        /\ accepted' = (m = wanted \/ (m = Off /\ accepted))
        /\ IF m = wanted /\ ~accepted THEN ahead' = Len(control) /\ tail' = 0
                                      ELSE UNCHANGED <<ahead, tail>>
    BY <1>3, Zenon DEF Put
  <2>2. /\ control' \in Seq(Modes) /\ Len(control') = Len(control) + 1
        /\ control'[Len(control) + 1] = m
        /\ \A i \in 1 .. Len(control) : control'[i] = control[i]
    BY <1>0, <2>1
  <2>3. Len(control') <= ControlCap /\ ahead' \in Nat /\ tail' \in Nat
    BY <1>0, <2>1, <2>2, Lengths
  <2>4. accepted' \in BOOLEAN
    BY <2>1, Zenon
  <2>5. Promised'
    <3> SUFFICES ASSUME accepted' PROVE \E p : Coming(p)'
      BY Zenon DEF Promised
    <3>1. CASE m = wanted /\ ~accepted
      <4>1. PICK n : n = Len(control) + 1
        OBVIOUS
      <4>2. n \in 0 .. Len(control') /\ Arrives(n)' /\ Stays(n)'
        BY <1>0, <2>2, <3>1, <4>1 DEF Arrives, Stays
      <4>3. ahead' = Len(control) /\ tail' = 0
        BY <2>1, <3>1
      <4>4. OldInHand + Left(n) <= n
        <5>1. n \in Nat /\ n # 0
          BY <1>0, <4>1
        <5>2. CASE pipePc = "take"
          BY <5>1, <5>2 DEF OldInHand, Left
        <5>3. CASE pipePc # "take"
          BY <5>1, <5>3, InHandOrNot DEF Left
        <5> QED
          BY <5>2, <5>3
      <4>5. Few(n)'
        <5>1. PICK o, l : o = OldInHand' /\ l = Left(n)'
          OBVIOUS
        <5>2. o \in Nat /\ l \in Nat /\ o + l <= n
          BY <1>0, <1>1, <4>1, <4>4, <5>1, InHandOrNot, LeftIsNat
        <5>3. 0 + o + l <= Len(control) + 1
          BY <1>0, <4>1, <5>2
        <5> QED
          BY <4>3, <5>1, <5>3 DEF Few
      <4> QED
        BY <4>2, <4>5 DEF Coming
    <3>2. CASE ~(m = wanted /\ ~accepted)
      <4>1. accepted /\ m \in {wanted, Off} /\ UNCHANGED <<ahead, tail>>
        BY <2>1, <3>2, Zenon
      <4>2. PICK p : Coming(p)
        BY <4>1, Zenon DEF ModeInv, Promised
      <4>3. p \in Nat /\ p <= Len(control) /\ Arrives(p) /\ Stays(p)
        BY <1>0, <4>2, ComingMeans
      <4>4. p \in 0 .. Len(control') /\ Arrives(p)' /\ Stays(p)'
        BY <1>0, <2>2, <4>1, <4>3 DEF Arrives, Stays
      <4>5. Few(p)'
        BY <1>1, <4>1, <4>2 DEF Few, Coming
      <4> QED
        BY <4>4, <4>5 DEF Coming
    <3> QED
      BY <3>1, <3>2
  <2> QED
    BY <2>2, <2>3, <2>4, <2>5
<1> QED
  BY <1>2, <1>3

LEMMA ModeApply == ModeInv /\ ApplyConfig => ModeInv'
<1> SUFFICES ASSUME ModeInv, ApplyConfig PROVE ModeInv'
  OBVIOUS
<1>0. ModeTypes /\ PipelineInv /\ control \in Seq(Modes) /\ Len(control) \in Nat
  BY DEF ModeInv, ModeTypes
<1>1. /\ pipePc = "control" /\ pipePc' = "take"
      /\ UNCHANGED <<using, target, wanted, agc, epc, ahead, tail, accepted>>
  BY DEF ApplyConfig, engine, told
<1>2. OldInHand' = 0 /\ OldInHand = 0 /\ \A p : Left(p)' = p
  BY <1>1 DEF OldInHand, Left
<1>3. CASE control = <<>>
  <2>1. UNCHANGED <<control, mode>>
    BY <1>3 DEF ApplyConfig
  <2>2. ModeTypes' /\ PipelineInv'
    BY <1>0, <1>1, <2>1 DEF ModeTypes, PipelineInv
  <2>3. ASSUME NEW p, Coming(p) PROVE Coming(p)'
    <3>1. p = 0 /\ Left(p) = 0
      BY <1>0, <1>3, <2>3, ComingMeans DEF Left
    <3> QED
      BY <1>1, <1>2, <2>1, <2>3, <3>1 DEF Coming, Arrives, Stays, Few
  <2> QED
    BY <1>1, <2>2, <2>3 DEF ModeInv, Promised
<1>4. CASE control # <<>>
  <2>1. control' = Tail(control) /\ mode' = Applied(Head(control))
    BY <1>4 DEF ApplyConfig
  <2>2. /\ Len(control) > 0 /\ Head(control) = control[1] /\ control[1] \in Modes
        /\ control' \in Seq(Modes) /\ Len(control') = Len(control) - 1
        /\ \A i \in 1 .. Len(control') : control'[i] = control[i + 1]
    BY <1>0, <1>4, <2>1
  <2>3. mode' = IF mode = Off \/ control[1] = Off THEN mode ELSE control[1]
    BY <2>1, <2>2 DEF Applied
  <2>4. ModeTypes'
    BY <1>0, <1>1, <2>2, <2>3, Lengths DEF ModeTypes
  <2>5. PipelineInv'
    BY <1>0, <1>1, <2>3 DEF PipelineInv
  <2>6. ASSUME NEW p, Coming(p) PROVE \E q : Coming(q)'
    <3>1. p \in Nat /\ p <= Len(control) /\ Arrives(p) /\ Stays(p)
      BY <1>0, <2>6, ComingMeans
    <3>2. PICK q : q = IF p = 0 THEN 0 ELSE p - 1
      OBVIOUS
    <3>3. q \in 0 .. Len(control')
      BY <1>0, <2>2, <3>1, <3>2
    <3>4. Arrives(q)'
      <4>1. CASE p = 0
        BY <1>0, <1>1, <2>2, <2>3, <3>1, <3>2, <4>1 DEF Arrives, Stays
      <4>2. CASE p = 1
        BY <1>0, <1>1, <2>3, <3>1, <3>2, <4>2 DEF Arrives, PipelineInv
      <4>3. CASE p > 1
        BY <1>0, <1>1, <2>2, <3>1, <3>2, <4>3 DEF Arrives
      <4> QED
        BY <3>1, <4>1, <4>2, <4>3
    <3>5. Stays(q)'
      BY <1>0, <1>1, <2>2, <3>1, <3>2 DEF Stays
    <3>6. Left(p) = q
      BY <1>1, <3>2 DEF Left
    <3>7. Few(q)'
      BY <1>1, <1>2, <2>6, <3>6 DEF Few, Coming
    <3> QED
      BY <3>3, <3>4, <3>5, <3>7 DEF Coming
  <2> QED
    BY <1>1, <2>4, <2>5, <2>6, Zenon DEF ModeInv, Promised
<1> QED
  BY <1>3, <1>4

LEMMA ModeTake == ModeInv /\ TakeBatch => ModeInv'
<1> SUFFICES ASSUME ModeInv, TakeBatch PROVE ModeInv'
  OBVIOUS
<1>0. ModeTypes /\ PipelineInv /\ control \in Seq(Modes) /\ Len(control) \in Nat
  BY DEF ModeInv, ModeTypes
<1>1. /\ pipePc = "take" /\ pipePc' \in {"control", "execute"} /\ using' \in {using, mode}
      /\ pipePc' = "execute" => using' = mode
      /\ UNCHANGED <<mode, control, target, wanted, agc, epc, ahead, tail, accepted>>
  BY DEF TakeBatch, engine, told
<1>2. ModeTypes' /\ PipelineInv'
  BY <1>0, <1>1 DEF ModeTypes, PipelineInv
<1>3. ASSUME NEW p, Coming(p) PROVE Coming(p)'
  <2>1. /\ p \in Nat /\ Arrives(p) /\ tail + OldInHand + Left(p) <= ahead + 1
        /\ tail \in Nat /\ ahead \in Nat
    BY <1>0, <1>3, ComingMeans
  <2>2. OldInHand = 0 /\ Left(p) = p
    BY <1>1 DEF OldInHand, Left
  <2>3. PICK o, l : o = OldInHand' /\ l = Left(p)'
    OBVIOUS
  <2>4. o \in Nat /\ l \in Nat /\ o + l <= p
    <3>1. CASE p = 0
      BY <1>1, <2>1, <2>3, <3>1 DEF OldInHand, Left, Arrives
    <3>2. CASE p # 0
      <4>1. l = p - 1 /\ o \in 0 .. 1
        BY <1>1, <2>3, <3>2 DEF OldInHand, Left
      <4> QED
        BY <2>1, <3>2, <4>1
    <3> QED
      BY <3>1, <3>2
  <2>5. tail + o + l <= ahead + 1
    BY <2>1, <2>2, <2>4
  <2>6. Few(p)'
    BY <1>1, <2>3, <2>5 DEF Few
  <2> QED
    BY <1>1, <1>3, <2>6 DEF Coming, Arrives, Stays
<1> QED
  BY <1>1, <1>2, <1>3, Zenon DEF ModeInv, Promised

LEMMA ModeExecute == ModeInv /\ Execute => ModeInv'
<1> SUFFICES ASSUME ModeInv, Execute PROVE ModeInv'
  OBVIOUS
<1>0. ModeTypes /\ PipelineInv /\ control \in Seq(Modes) /\ Len(control) \in Nat
  BY DEF ModeInv, ModeTypes
<1>1. /\ pipePc = "execute" /\ pipePc' = "control"
      /\ UNCHANGED <<mode, using, control, target, wanted, agc, epc, ahead, accepted>>
      /\ tail' = tail \/ (tail' = tail + 1 /\ HasAudio(using) /\ using # wanted)
  BY DEF Execute, engine
<1>2. ModeTypes' /\ PipelineInv'
  BY <1>0, <1>1 DEF ModeTypes, PipelineInv
<1>3. ASSUME NEW p, Coming(p) PROVE Coming(p)'
  <2>1. PICK o, l, t : o = OldInHand /\ l = Left(p) /\ t = tail'
    OBVIOUS
  <2>2. /\ p \in Nat /\ tail + o + l <= ahead + 1 /\ tail \in Nat /\ ahead \in Nat
        /\ o \in 0 .. 1 /\ l \in Nat
    BY <1>0, <1>3, <2>1, ComingMeans, InHandOrNot, LeftIsNat
  <2>3. t = tail \/ (t = tail + 1 /\ o = 1)
    BY <1>1, <2>1 DEF OldInHand
  <2>4. OldInHand' = 0 /\ Left(p)' = l
    BY <1>1, <2>1 DEF OldInHand, Left
  <2>5. t + 0 + l <= ahead + 1
    BY <2>2, <2>3
  <2>6. Few(p)'
    BY <1>1, <2>1, <2>4, <2>5 DEF Few
  <2> QED
    BY <1>1, <1>3, <2>6 DEF Coming, Arrives, Stays
<1> QED
  BY <1>1, <1>2, <1>3, Zenon DEF ModeInv, Promised

LEMMA ModeStep == ModeInv /\ [Next]_vars => ModeInv'
<1> SUFFICES ASSUME ModeInv, [Next]_vars PROVE ModeInv'
  OBVIOUS
<1>0. ModeTypes /\ PipelineInv
  BY DEF ModeInv
<1>1. CASE ApplyConfig
  BY <1>1, ModeApply
<1>2. CASE TakeBatch
  BY <1>2, ModeTake
<1>3. CASE Execute
  BY <1>3, ModeExecute
<1>4. CASE SetGain
  <2>1. /\ pipePc = "execute" /\ pipePc' = "agc" /\ agc' = wanted
        /\ UNCHANGED <<mode, using, control, target, wanted, epc, told>>
    BY <1>4 DEF SetGain
  <2>2. ModeTypes' /\ PipelineInv'
    BY <1>0, <2>1 DEF ModeTypes, PipelineInv, told
  <2> QED
    BY <2>1, <2>2, ModeKept
<1>5. ASSUME NEW m \in Modes, Put(m), UNCHANGED <<mode, using, wanted, target>>, agc' \in Modes,
             \/ pipePc' = pipePc
             \/ pipePc' \in {"execute", "agc"} /\ {pipePc, pipePc'} \subseteq {"execute", "agc"},
             epc' = epc \/ epc' \notin {"drain", "request", "swap"}
      PROVE  ModeInv'
  <2>1. /\ control' \in Seq(Modes) /\ Len(control') <= ControlCap
        /\ ahead' \in Nat /\ tail' \in Nat /\ accepted' \in BOOLEAN /\ Promised'
    BY <1>5, PutKeeps
  <2>2. ModeTypes' /\ PipelineInv'
    BY <1>0, <1>5, <2>1 DEF ModeTypes, PipelineInv
  <2> QED
    BY <2>1, <2>2 DEF ModeInv
<1>6. CASE PutGain
  <2>1. /\ agc \in Modes /\ Put(agc) /\ UNCHANGED <<mode, using, wanted, target, epc>>
        /\ agc' \in Modes /\ pipePc = "agc" /\ pipePc' = "execute"
    BY <1>0, <1>6, OffIsMode DEF PutGain, engine, ModeTypes
  <2> QED
    BY <2>1, <1>5
<1>7. CASE UpdateConfig \/ PutMode \/ PutRemoved \/ PutAdded
             \/ (PutBandwidth /\ ~UNCHANGED <<control, told>>)
  <2>1. PICK m \in Modes : Put(m)
    BY <1>0, <1>7, OffIsMode, Zenon
    DEF UpdateConfig, PutMode, PutRemoved, PutAdded, PutBandwidth, ModeTypes
  <2>2. /\ UNCHANGED <<mode, using, wanted, target, agc, pipePc>>
        /\ epc' = epc \/ epc' \notin {"drain", "request", "swap"}
    BY <1>7 DEF UpdateConfig, PutMode, PutRemoved, PutAdded, PutBandwidth, pipe
  <2> QED
    BY <1>0, <1>5, <2>1, <2>2 DEF ModeTypes
<1>8. CASE SwapMode \/ AddPipeline \/ (RemovePipeline /\ wanted # Off)
  <2>1. /\ accepted' = FALSE /\ mode' \in {mode, target, Off} /\ wanted' \in {target, Off}
        /\ UNCHANGED <<using, target, agc, pipePc, control, ahead, tail>>
        /\ epc' \in {"put", "added", "removed"}
    BY <1>8 DEF SwapMode, AddPipeline, RemovePipeline, Want, pipe
  <2>2. ModeTypes'
    BY <1>0, <2>1, OffIsMode DEF ModeTypes
  <2>3. PipelineInv'
    <3>1. CASE SwapMode
      BY <1>0, <3>1, <2>1 DEF SwapMode, Want, pipe, PipelineInv
    <3>2. CASE AddPipeline
      BY <3>2, <2>1 DEF AddPipeline, Want, PipelineInv
    <3>3. CASE RemovePipeline /\ wanted # Off
      BY <3>3, <2>1 DEF RemovePipeline, Want, PipelineInv
    <3> QED
      BY <1>8, <3>1, <3>2, <3>3
  <2> QED
    BY <2>1, <2>2, <2>3 DEF ModeInv, Promised
<1>9. CASE /\ UNCHANGED <<mode, using, control, pipePc, agc, wanted, told>> /\ target' \in Modes
           /\ \/ epc' \notin {"drain", "request", "swap"}
              \/ epc \in {"drain", "request"} /\ target' = target
              \/ epc' = epc /\ target' = target
              \/ wanted # Off /\ HasAudio(target')
  <2>1. ModeTypes'
    BY <1>0, <1>9 DEF ModeTypes, told
  <2>2. PipelineInv'
    BY <1>0, <1>9, OffIsMode DEF PipelineInv
  <2> QED
    BY <1>9, <2>1, <2>2, ModeKept
<1>10. ASSUME \/ IoStep \/ AudioStep \/ Play \/ Drain \/ RequestFlush \/ Restart \/ StartOutput
              \/ (RemovePipeline /\ wanted = Off) \/ (PutBandwidth /\ UNCHANGED <<control, told>>)
              \/ SetAudioOutputDevice \/ (\E m \in Modes : SetAudioDemod(m)) \/ UNCHANGED vars
       PROVE  /\ UNCHANGED <<mode, using, control, pipePc, agc, wanted, told>> /\ target' \in Modes
              /\ \/ epc' \notin {"drain", "request", "swap"}
                 \/ epc \in {"drain", "request"} /\ target' = target
                 \/ epc' = epc /\ target' = target
                 \/ wanted # Off /\ HasAudio(target')
  <2>1. CASE IoStep \/ AudioStep \/ Play \/ UNCHANGED vars
    BY <1>0, <2>1 DEF ModeTypes, IoStep, Read, PutBatch, PutTimesOut, Evict, Replace, AudioStep,
         Setup, Teardown, FlushPlayer, FlushFields, FlushDone, NothingToFlush, Follow, SameSpeaker,
         GetAudio, PushBlock, BatchDone, Play, vars, engine, pipe
  <2>2. CASE \/ Drain \/ RequestFlush \/ Restart \/ StartOutput \/ (RemovePipeline /\ wanted = Off)
             \/ (PutBandwidth /\ UNCHANGED <<control, told>>)
    BY <1>0, <2>2 DEF ModeTypes, Drain, RequestFlush, Restart, StartOutput, RemovePipeline,
         PutBandwidth, pipe
  <2>3. CASE SetAudioOutputDevice
    BY <1>0, <2>3 DEF ModeTypes, SetAudioOutputDevice, pipe
  <2>4. ASSUME NEW m \in Modes, SetAudioDemod(m)
        PROVE  /\ UNCHANGED <<mode, using, control, pipePc, agc, wanted, told>> /\ target' = m
               /\ \/ epc' \notin {"drain", "request", "swap"}
                  \/ wanted # Off /\ HasAudio(target')
    BY <2>4 DEF SetAudioDemod, pipe, HasAudio
  <2> QED
    BY <1>10, <2>1, <2>2, <2>3, <2>4
<1> QED
  BY <1>1, <1>2, <1>3, <1>4, <1>6, <1>7, <1>8, <1>9, <1>10
  DEF Next, PipeStep, EngineStep, UserStep

\* Once the pipeline thread's queue has accepted a configuration with the wanted mode, and none
\* with another after it, the pipeline gives at most one batch more of audio in other modes than
\* configurations were queued before it (pipeline_worker.py:65, 72; device_context.py:263-266),
\* for any demodulators, any lengths of the queues and any gain steps and other updates.
THEOREM OldModeIsBounded == Spec => []OldModeEnds
<1>1. ASSUME ModeInv PROVE OldModeEnds
  <2> SUFFICES ASSUME accepted PROVE tail <= ahead + 1
    BY DEF OldModeEnds
  <2>1. PICK p : Coming(p)
    BY <1>1 DEF ModeInv, Promised
  <2>2. PICK o, l : o = OldInHand /\ l = Left(p)
    OBVIOUS
  <2>3. /\ tail + o + l <= ahead + 1 /\ tail \in Nat /\ ahead \in Nat /\ o \in Nat /\ l \in Nat
    BY <1>1, <2>1, <2>2, ComingMeans, InHandOrNot, LeftIsNat DEF ModeInv
  <2> QED
    BY <2>3
<1> QED
  BY <1>1, ModeInit, ModeStep, PTL DEF Spec

------------------------------------------------------------------------------
(* Blocks, and the frames in them                                            *)

Block == [1 .. BlockFrames -> Nat]

LEMMA BlockIsSeq == \A b \in Block : b \in Seq(Nat) /\ Len(b) = BlockFrames
BY Lengths DEF Block

LEMMA Quotient ==
  ASSUME NEW i \in Nat, NEW b \in Nat, b > 0
  PROVE  i \div b \in Nat /\ i % b \in 0 .. b - 1 /\ i = (i \div b) * b + (i % b)
<1>1. i % b \in 0 .. b - 1 /\ i \div b \in Int
  OBVIOUS
<1>2. i = (i \div b) * b + (i % b)
  OBVIOUS
<1>3. i \div b >= 0
  OBVIOUS
<1> QED
  BY <1>1, <1>2, <1>3

LEMMA QuotientIs ==
  ASSUME NEW b \in Nat, NEW q \in Nat, NEW r \in Nat, r < b
  PROVE  (q * b + r) \div b = q /\ (q * b + r) % b = r
OBVIOUS

LEMMA Below ==
  ASSUME NEW b \in Nat, NEW n \in Nat, NEW m \in Nat, n <= m
  PROVE  n * b \in Nat /\ m * b \in Nat /\ n * b <= m * b
OBVIOUS

\* The i-th frame is the r-th of the q-th block.
LEMMA PlaceOfFrame ==
  ASSUME NEW b \in Nat, b > 0, NEW n \in Nat, NEW i \in 1 .. n * b
  PROVE  \E q \in 1 .. n, r \in 1 .. b : i = (q - 1) * b + r
<1>1. PICK q, r : q = (i - 1) \div b /\ r = (i - 1) % b
  OBVIOUS
<1>2. n * b \in Nat /\ i - 1 \in Nat
  OBVIOUS
<1>3. q \in Nat /\ r \in 0 .. b - 1 /\ i - 1 = q * b + r
  BY <1>1, <1>2, Quotient
<1>4. q < n
  <2>1. SUFFICES ASSUME n <= q PROVE FALSE
    BY <1>3
  <2>2. n * b <= q * b
    BY <1>3, <2>1, Below
  <2>3. q * b \in Nat
    BY <1>3
  <2> QED
    BY <1>2, <1>3, <2>2, <2>3
<1>5. i = ((q + 1) - 1) * b + (r + 1)
  BY <1>3
<1>6. q + 1 \in 1 .. n /\ r + 1 \in 1 .. b
  BY <1>3, <1>4
<1> QED
  BY <1>5, <1>6

LEMMA FrameOfPlace ==
  ASSUME NEW b \in Nat, b > 0, NEW n \in Nat, NEW q \in 1 .. n, NEW r \in 1 .. b
  PROVE  /\ (q - 1) * b + r \in 1 .. n * b
         /\ (((q - 1) * b + r) - 1) \div b + 1 = q /\ ((((q - 1) * b + r) - 1) % b) + 1 = r
<1>1. PICK k : k = (q - 1) * b
  OBVIOUS
<1>2. k \in Nat /\ k + b = q * b /\ q * b \in Nat /\ n * b \in Nat /\ q * b <= n * b
  BY <1>1, Below
<1>3. (k + (r - 1)) \div b = q - 1 /\ (k + (r - 1)) % b = r - 1
  <2>1. q - 1 \in Nat /\ r - 1 \in Nat /\ r - 1 < b
    OBVIOUS
  <2> QED
    BY <1>1, <2>1, QuotientIs
<1>4. (k + r) - 1 = k + (r - 1)
  BY <1>2
<1> QED
  BY <1>1, <1>2, <1>3, <1>4

LEMMA FlatFacts ==
  ASSUME NEW x \in Seq(Block)
  PROVE  /\ Flat(x) \in Seq(Nat) /\ Len(Flat(x)) = Len(x) * BlockFrames
         /\ \A q \in 1 .. Len(x), r \in 1 .. BlockFrames :
              /\ (q - 1) * BlockFrames + r \in 1 .. Len(x) * BlockFrames
              /\ Flat(x)[(q - 1) * BlockFrames + r] = x[q][r]
<1>1. PICK f : f = Flat(x)
  OBVIOUS
<1>2. Len(x) \in Nat /\ Len(x) * BlockFrames \in Nat
  BY Lengths
<1>3. ASSUME NEW i \in 1 .. Len(x) * BlockFrames
      PROVE  x[(i - 1) \div BlockFrames + 1][((i - 1) % BlockFrames) + 1] \in Nat
  <2>1. PICK q \in 1 .. Len(x), r \in 1 .. BlockFrames : i = (q - 1) * BlockFrames + r
    BY <1>2, <1>3, Lengths, PlaceOfFrame
  <2>2. (i - 1) \div BlockFrames + 1 = q /\ ((i - 1) % BlockFrames) + 1 = r
    BY <1>2, <2>1, Lengths, FrameOfPlace
  <2>3. x[q] \in Block
    BY <2>1
  <2> QED
    BY <2>1, <2>2, <2>3 DEF Block
<1>4. f \in [1 .. Len(x) * BlockFrames -> Nat]
  BY <1>1, <1>3 DEF Flat
<1>5. f \in Seq(Nat) /\ Len(f) = Len(x) * BlockFrames
  BY <1>2, <1>4
<1>6. ASSUME NEW q \in 1 .. Len(x), NEW r \in 1 .. BlockFrames
      PROVE  /\ (q - 1) * BlockFrames + r \in 1 .. Len(x) * BlockFrames
             /\ f[(q - 1) * BlockFrames + r] = x[q][r]
  <2>1. PICK i : i = (q - 1) * BlockFrames + r
    OBVIOUS
  <2>2. /\ i \in 1 .. Len(x) * BlockFrames
        /\ (i - 1) \div BlockFrames + 1 = q /\ ((i - 1) % BlockFrames) + 1 = r
    BY <1>2, <2>1, Lengths, FrameOfPlace
  <2>3. f[i] = x[(i - 1) \div BlockFrames + 1][((i - 1) % BlockFrames) + 1]
    BY <1>1, <2>2 DEF Flat
  <2> QED
    BY <2>1, <2>2, <2>3
<1> QED
  BY <1>1, <1>5, <1>6

\* The frames of two lists of blocks follow each other.
LEMMA FlatConcat ==
  ASSUME NEW x \in Seq(Block), NEW y \in Seq(Block)
  PROVE  Flat(x \o y) = Flat(x) \o Flat(y)
<1>1. PICK f, g, h, n, m : /\ f = Flat(x) /\ g = Flat(y) /\ h = Flat(x \o y)
                           /\ n = Len(x) * BlockFrames /\ m = Len(y) * BlockFrames
  OBVIOUS
<1>2. x \o y \in Seq(Block) /\ Len(x \o y) = Len(x) + Len(y) /\ Len(x) \in Nat /\ Len(y) \in Nat
  OBVIOUS
<1>3. n \in Nat /\ m \in Nat /\ (Len(x) + Len(y)) * BlockFrames = n + m
  BY <1>1, <1>2, Lengths
<1>4. /\ f \in Seq(Nat) /\ Len(f) = n /\ g \in Seq(Nat) /\ Len(g) = m
      /\ h \in Seq(Nat) /\ Len(h) = n + m
  BY <1>1, <1>2, <1>3, FlatFacts
<1>5. ASSUME NEW i \in 1 .. n + m
      PROVE  h[i] = (f \o g)[i]
  <2>0. PICK k : k = Len(x) + Len(y)
    OBVIOUS
  <2>1. PICK q \in 1 .. k, r \in 1 .. BlockFrames : i = (q - 1) * BlockFrames + r
    <3>1. k \in Nat /\ i \in 1 .. k * BlockFrames
      BY <1>2, <1>3, <2>0
    <3> QED
      BY <3>1, Lengths, PlaceOfFrame
  <2>2. h[i] = (x \o y)[q][r]
    <3>1. PICK z : z = x \o y
      OBVIOUS
    <3>2. z \in Seq(Block) /\ Len(z) = k /\ h = Flat(z)
      BY <1>1, <1>2, <2>0, <3>1
    <3>3. h[(q - 1) * BlockFrames + r] = z[q][r]
      BY <2>1, <3>2, FlatFacts
    <3> QED
      BY <2>1, <3>1, <3>3
  <2>3. CASE q <= Len(x)
    <3>1. q \in 1 .. Len(x) /\ (x \o y)[q] = x[q]
      BY <1>2, <2>1, <2>3
    <3>2. i \in 1 .. n /\ f[i] = x[q][r]
      BY <1>1, <2>1, <3>1, FlatFacts
    <3> QED
      BY <1>3, <1>4, <2>2, <3>1, <3>2, SMTT(40)
  <2>4. CASE q > Len(x)
    <3>1. PICK k2 : k2 = q - Len(x)
      OBVIOUS
    <3>2. k2 \in 1 .. Len(y) /\ (x \o y)[q] = y[k2]
      BY <1>2, <2>0, <2>1, <2>4, <3>1
    <3>3. PICK j : j = (k2 - 1) * BlockFrames + r
      OBVIOUS
    <3>4. i = n + j
      <4>1. q - 1 = Len(x) + (k2 - 1)
        BY <1>2, <2>0, <2>1, <3>1
      <4> QED
        BY <1>1, <1>2, <2>1, <3>2, <3>3, <4>1, Lengths
    <3>5. j \in 1 .. m /\ g[j] = y[k2][r]
      BY <1>1, <2>1, <3>2, <3>3, FlatFacts
    <3>6. (f \o g)[n + j] = g[j]
      <4>1. n + j \in 1 .. n + m /\ ~(n + j <= n) /\ (n + j) - n = j
        BY <1>3, <3>5
      <4> QED
        BY <1>4, <4>1, ConcatProperties, ZenonT(40)
    <3> QED
      BY <2>2, <3>2, <3>4, <3>5, <3>6
  <2>5. q <= Len(x) \/ q > Len(x)
    BY <1>2, <2>1
  <2> QED
    BY <2>3, <2>4, <2>5
<1>6. f \o g \in Seq(Nat) /\ Len(f \o g) = n + m
  BY <1>4, ConcatProperties
<1>7. h = f \o g
  BY <1>4, <1>5, <1>6, SeqEqual
<1> QED
  BY <1>1, <1>7

LEMMA FlatOne == ASSUME NEW b \in Block PROVE Flat(<<b>>) = b
<1>1. <<b>> \in Seq(Block) /\ Len(<<b>>) = 1 /\ <<b>>[1] = b
  OBVIOUS
<1>2. PICK f : f = Flat(<<b>>)
  OBVIOUS
<1>3. f \in Seq(Nat) /\ Len(f) = BlockFrames
  <2>1. f \in Seq(Nat) /\ Len(f) = 1 * BlockFrames
    BY <1>1, <1>2, FlatFacts
  <2> QED
    BY <2>1, Lengths
<1>4. ASSUME NEW r \in 1 .. BlockFrames PROVE f[r] = b[r]
  <2>1. PICK x : x = <<b>>
    OBVIOUS
  <2>3. x \in Seq(Block) /\ 1 \in 1 .. Len(x) /\ x[1] = b /\ f = Flat(x)
    BY <1>1, <1>2, <2>1
  <2>4. f[(1 - 1) * BlockFrames + r] = b[r]
    BY <2>3, FlatFacts
  <2>2. (1 - 1) * BlockFrames + r = r
    BY <1>4, Lengths
  <2> QED
    BY <2>2, <2>4
<1>5. b \in Seq(Nat) /\ Len(b) = BlockFrames
  BY BlockIsSeq
<1> QED
  BY <1>2, <1>3, <1>4, <1>5, SeqEqual

LEMMA FlatNone == Flat(<<>>) = <<>>
<1>1. <<>> \in Seq(Block) /\ Len(<<>>) = 0
  OBVIOUS
<1>2. Flat(<<>>) \in Seq(Nat) /\ Len(Flat(<<>>)) = 0 * BlockFrames
  BY <1>1, FlatFacts
<1> QED
  BY <1>2, Lengths, EmptyHasNoLength

------------------------------------------------------------------------------
(* The order of the batches                                                  *)

AudioBatch == [seq : Nat \ {0}, want : Nat]

\* Batch n is on its way before whatever is read, in the I/O thread's hand or in the sample queue;
\* and before what the pipeline works on; and before what is in the audio queue.
Behind(n) == /\ n <= reads /\ (hand # None => n < hand)
             /\ \A i \in 1 .. Len(sampleQ) : n < sampleQ[i]
Later(n) == Behind(n) /\ (piped # None => n < piped)
Clear(n) == Later(n) /\ \A i \in 1 .. Len(audioQ) : n < audioQ[i].seq

SampleLine ==
  /\ \A i \in 1 .. Len(sampleQ) :
       /\ 0 < sampleQ[i] /\ sampleQ[i] <= reads /\ (hand # None => sampleQ[i] < hand)
       /\ \A j \in 1 .. Len(sampleQ) : i < j => sampleQ[i] < sampleQ[j]
  /\ hand <= reads
PipedLine ==
  /\ piped \in Nat /\ pipePc \in {"control", "take", "execute", "agc"}
  /\ (piped # None <=> pipePc \in {"execute", "agc"}) /\ (piped # None => Behind(piped))
AudioLine ==
  /\ audioQ \in Seq(AudioBatch)
  /\ \A i \in 1 .. Len(audioQ) :
       /\ Later(audioQ[i].seq)
       /\ \A j \in 1 .. Len(audioQ) : i < j => audioQ[i].seq < audioQ[j].seq

LineInv == SamplesInv /\ SampleLine /\ PipedLine /\ AudioLine

LEMMA LineInit == Init => LineInv /\ Clear(0)
<1> SUFFICES ASSUME Init PROVE LineInv /\ Clear(0)
  OBVIOUS
<1>1. SamplesInv
  BY SamplesInit
<1> QED
  BY <1>1 DEF Init, LineInv, SampleLine, PipedLine, AudioLine, Clear, Later, Behind, None

LEMMA SampleNumbers ==
  ASSUME SamplesInv
  PROVE  /\ reads \in Nat /\ hand \in Nat /\ sampleQ \in Seq(Nat) /\ Len(sampleQ) \in Nat
         /\ hand # None <=> ioPc # "read"
         /\ \A i \in 1 .. Len(sampleQ) : sampleQ[i] \in Nat
BY DEF SamplesInv

LEMMA IoLine ==
  ASSUME SamplesInv, SampleLine, IoStep
  PROVE  /\ SampleLine'
         /\ \A n \in Nat : Behind(n) => Behind(n)'
         /\ UNCHANGED <<piped, pipePc, audioQ>>
<1> USE SampleNumbers DEF SampleLine, Behind
<1>0. reads \in Nat /\ hand \in Nat /\ sampleQ \in Seq(Nat) /\ Len(sampleQ) \in Nat
  OBVIOUS
<1>1. CASE Read
  <2>1. /\ hand = None /\ reads' = reads + 1 /\ hand' = reads + 1 /\ sampleQ' = sampleQ
        /\ UNCHANGED <<piped, pipePc, audioQ>>
    BY <1>1 DEF Read, pipe
  <2> QED
    BY <1>0, <2>1
<1>2. CASE PutBatch \/ Replace
  <2>1. /\ hand # None /\ reads' = reads /\ hand' = None /\ sampleQ' = Append(sampleQ, hand)
        /\ UNCHANGED <<piped, pipePc, audioQ>>
    BY <1>2 DEF PutBatch, Replace, pipe
  <2>2. /\ Len(sampleQ') = Len(sampleQ) + 1 /\ sampleQ'[Len(sampleQ) + 1] = hand
        /\ \A i \in 1 .. Len(sampleQ) : sampleQ'[i] = sampleQ[i]
    BY <1>0, <2>1
  <2>3. \A i \in 1 .. Len(sampleQ') : i \in 1 .. Len(sampleQ) \/ i = Len(sampleQ) + 1
    BY <1>0, <2>2
  <2>4. hand' <= reads' /\ 0 < hand
    BY <1>0, <2>1 DEF None
  <2>5. ASSUME NEW i \in 1 .. Len(sampleQ')
        PROVE  /\ 0 < sampleQ'[i] /\ sampleQ'[i] <= reads'
               /\ \A j \in 1 .. Len(sampleQ') : i < j => sampleQ'[i] < sampleQ'[j]
    BY <1>0, <2>1, <2>2, <2>3, <2>4, <2>5
  <2>6. ASSUME NEW n \in Nat, Behind(n)
        PROVE  Behind(n)'
    BY <1>0, <2>1, <2>2, <2>3, <2>6
  <2> QED
    BY <2>1, <2>4, <2>5, <2>6
<1>3. CASE PutTimesOut
  BY <1>3 DEF PutTimesOut, pipe
<1>4. CASE Evict
  <2>1. reads' = reads /\ UNCHANGED <<piped, pipePc, audioQ>>
    BY <1>4 DEF Evict, pipe
  <2>2. CASE sampleQ # <<>>
    <3>1. hand' = hand /\ sampleQ' = Tail(sampleQ)
      BY <1>4, <2>2 DEF Evict
    <3>2. /\ Len(sampleQ') = Len(sampleQ) - 1
          /\ \A i \in 1 .. Len(sampleQ') :
               i + 1 \in 1 .. Len(sampleQ) /\ sampleQ'[i] = sampleQ[i + 1]
      BY <1>0, <2>2, <3>1
    <3>3. ASSUME NEW i \in 1 .. Len(sampleQ'), NEW j \in 1 .. Len(sampleQ'), i < j
          PROVE  sampleQ'[i] < sampleQ'[j]
      <4>1. i + 1 < j + 1
        BY <3>3
      <4> QED
        BY <3>2, <4>1
    <3> QED
      BY <2>1, <3>1, <3>2, <3>3
  <2>3. CASE sampleQ = <<>>
    <3>1. hand' = None /\ sampleQ' = sampleQ /\ Len(sampleQ) = 0
      BY <1>4, <2>3 DEF Evict
    <3> QED
      BY <1>0, <2>1, <3>1 DEF None
  <2> QED
    BY <2>2, <2>3
<1> QED
  BY <1>1, <1>2, <1>3, <1>4 DEF IoStep

LEMMA TakeLine ==
  ASSUME SamplesInv, SampleLine, PipedLine, TakeBatch
  PROVE  /\ SampleLine' /\ PipedLine'
         /\ \A n \in Nat : Later(n) => Later(n)'
         /\ audioQ' = audioQ
<1> USE SampleNumbers DEF SampleLine, Behind, Later
<1>0. reads \in Nat /\ hand \in Nat /\ sampleQ \in Seq(Nat) /\ Len(sampleQ) \in Nat
  OBVIOUS
<1>1. UNCHANGED <<reads, hand, audioQ>> /\ pipePc = "take" /\ piped = None
  BY DEF TakeBatch, PipedLine, io
<1>2. CASE sampleQ # <<>>
  <2>1. sampleQ' = Tail(sampleQ) /\ piped' = Head(sampleQ) /\ pipePc' = "execute"
    BY <1>2 DEF TakeBatch
  <2>2. /\ Len(sampleQ') = Len(sampleQ) - 1 /\ 1 \in 1 .. Len(sampleQ) /\ piped' = sampleQ[1]
        /\ \A i \in 1 .. Len(sampleQ') :
             i + 1 \in 1 .. Len(sampleQ) /\ 1 < i + 1 /\ sampleQ'[i] = sampleQ[i + 1]
    BY <1>0, <1>2, <2>1
  <2>3. ASSUME NEW i \in 1 .. Len(sampleQ'), NEW j \in 1 .. Len(sampleQ'), i < j
        PROVE  sampleQ'[i] < sampleQ'[j]
    <3>1. i + 1 < j + 1
      BY <2>3
    <3> QED
      BY <2>2, <3>1
  <2>4. SampleLine'
    BY <1>1, <2>1, <2>2, <2>3
  <2>5. piped' \in Nat /\ piped' # None /\ Behind(piped)'
    BY <1>1, <2>1, <2>2 DEF None
  <2> QED
    BY <1>1, <2>1, <2>2, <2>4, <2>5 DEF PipedLine
<1>3. CASE sampleQ = <<>>
  <2>1. UNCHANGED <<sampleQ, piped>> /\ pipePc' = "control"
    BY <1>3 DEF TakeBatch
  <2> QED
    BY <1>1, <2>1 DEF PipedLine
<1> QED
  BY <1>2, <1>3

LEMMA AudioNumbers ==
  ASSUME AudioLine
  PROVE  /\ audioQ \in Seq(AudioBatch) /\ Len(audioQ) \in Nat
         /\ \A i \in 1 .. Len(audioQ) : audioQ[i] \in AudioBatch /\ audioQ[i].seq \in Nat \ {0}
<1>1. audioQ \in Seq(AudioBatch)
  BY DEF AudioLine
<1>2. \A b \in AudioBatch : b.seq \in Nat \ {0}
  BY DEF AudioBatch
<1> QED
  BY <1>1, <1>2

LEMMA ExecuteLine ==
  ASSUME LineInv, using \in Modes, Execute
  PROVE  /\ SampleLine' /\ PipedLine' /\ AudioLine'
         /\ \A n \in Nat : Clear(n) => Clear(n)'
<1>0. audioQ \in Seq(AudioBatch) /\ Len(audioQ) \in Nat
  BY AudioNumbers DEF LineInv
<1>1. /\ UNCHANGED <<reads, hand, sampleQ>> /\ pipePc' = "control" /\ piped' = None /\ piped \in Nat
      /\ pipePc = "execute"
  BY DEF Execute, LineInv, PipedLine, io
<1>2. SampleLine' /\ PipedLine'
  BY <1>1 DEF LineInv, SampleLine, PipedLine, None
<1>3. \A n \in Nat : Later(n) => Later(n)'
  BY <1>1 DEF Later, Behind
<1>4. CASE audioQ' = audioQ
  <2>1. \A i \in 1 .. Len(audioQ) : audioQ[i].seq \in Nat
    BY AudioNumbers DEF LineInv
  <2> QED
    BY <1>2, <1>3, <1>4, <2>1 DEF LineInv, AudioLine, Clear
<1>5. CASE piped # None /\ audioQ' # audioQ
  <2>0. PICK p : p = piped
    OBVIOUS
  <2>1. PICK b : b = [seq |-> piped, want |-> Wants[using]]
    OBVIOUS
  <2>2. b \in AudioBatch /\ b.seq = p /\ p \in Nat
    <3>1. Wants[using] \in Nat /\ piped \in Nat \ {0}
      BY <1>1, <1>5, StreamingAssumption DEF None
    <3> QED
      BY <2>0, <2>1, <3>1 DEF AudioBatch
  <2>3. audioQ' = Append(audioQ, b)
    BY <1>5, <2>1 DEF Execute
  <2>4. /\ audioQ' \in Seq(AudioBatch) /\ Len(audioQ') = Len(audioQ) + 1
        /\ audioQ'[Len(audioQ) + 1] = b /\ \A i \in 1 .. Len(audioQ) : audioQ'[i] = audioQ[i]
    BY <1>0, <2>2, <2>3
  <2>5. \A i \in 1 .. Len(audioQ') : i \in 1 .. Len(audioQ) \/ i = Len(audioQ) + 1
    BY <1>0, <2>4
  <2>6. Later(p)'
    BY <1>1, <1>5, <2>0 DEF LineInv, PipedLine, Later, Behind
  <2>7. ASSUME NEW i \in 1 .. Len(audioQ)
        PROVE  \A n : n = audioQ[i].seq => n \in Nat /\ Later(n)' /\ n < p
    <3>1. audioQ[i].seq \in Nat /\ Later(audioQ[i].seq)
      BY <2>7, AudioNumbers DEF LineInv, AudioLine
    <3>2. PICK n : n = audioQ[i].seq
      OBVIOUS
    <3>3. n \in Nat /\ Later(n)' /\ n < p
      BY <1>3, <1>5, <2>0, <3>1, <3>2 DEF Later
    <3> QED
      BY <3>2, <3>3
  <2>8. AudioLine'
    <3>1. ASSUME NEW i \in 1 .. Len(audioQ')
          PROVE  Later(audioQ[i].seq)'
      <4>1. PICK n : n = audioQ'[i].seq
        OBVIOUS
      <4>2. CASE i \in 1 .. Len(audioQ)
        BY <2>4, <2>7, <4>1, <4>2
      <4>3. CASE i = Len(audioQ) + 1
        BY <2>2, <2>4, <2>6, <4>1, <4>3
      <4> QED
        BY <2>5, <3>1, <4>2, <4>3
    <3>2. ASSUME NEW i \in 1 .. Len(audioQ'), NEW j \in 1 .. Len(audioQ'), i < j
          PROVE  audioQ'[i].seq < audioQ'[j].seq
      <4>1. i \in 1 .. Len(audioQ)
        BY <1>0, <2>5, <3>2
      <4>2. CASE j \in 1 .. Len(audioQ)
        BY <2>4, <3>2, <4>1, <4>2 DEF LineInv, AudioLine
      <4>3. CASE j = Len(audioQ) + 1
        BY <2>2, <2>4, <2>7, <4>1, <4>3
      <4> QED
        BY <2>5, <4>2, <4>3
    <3> QED
      BY <2>4, <3>1, <3>2 DEF AudioLine
  <2>9. ASSUME NEW n \in Nat, Clear(n)
        PROVE  Clear(n)'
    <3>1. Later(n)' /\ n < p
      BY <1>3, <1>5, <2>0, <2>9 DEF Clear, Later
    <3>2. ASSUME NEW i \in 1 .. Len(audioQ') PROVE n < audioQ'[i].seq
      BY <2>2, <2>4, <2>5, <2>9, <3>1, <3>2 DEF Clear
    <3> QED
      BY <3>1, <3>2 DEF Clear
  <2> QED
    BY <1>2, <2>8, <2>9
<1>6. piped # None
  BY <1>1 DEF LineInv, PipedLine
<1> QED
  BY <1>2, <1>4, <1>5, <1>6

\* What the audio thread and the engine do to the audio queue.
LEMMA DropLine ==
  ASSUME LineInv, UNCHANGED <<reads, hand, sampleQ, piped, pipePc>>,
         audioQ' \in {audioQ, <<>>} \/ (audioQ # <<>> /\ audioQ' = Tail(audioQ))
  PROVE  /\ SampleLine' /\ PipedLine' /\ AudioLine'
         /\ \A n \in Nat : Clear(n) => Clear(n)'
         /\ audioQ # <<>> /\ audioQ' = Tail(audioQ)
              => \A n : n = Head(audioQ).seq => n \in Nat \ {0} /\ Clear(n)'
<1>0. audioQ \in Seq(AudioBatch) /\ Len(audioQ) \in Nat
  BY AudioNumbers DEF LineInv
<1>1. SampleLine' /\ PipedLine' /\ \A n \in Nat : Later(n) => Later(n)'
  BY DEF LineInv, SampleLine, PipedLine, Later, Behind
<1>2. CASE audioQ' = audioQ /\ ~(audioQ # <<>> /\ audioQ' = Tail(audioQ))
  <2>1. \A i \in 1 .. Len(audioQ) : audioQ[i].seq \in Nat
    BY AudioNumbers DEF LineInv
  <2> QED
    BY <1>1, <1>2, <2>1 DEF LineInv, AudioLine, Clear
<1>3. CASE audioQ' = <<>> /\ ~(audioQ # <<>> /\ audioQ' = Tail(audioQ))
  BY <1>1, <1>3 DEF LineInv, AudioLine, Clear
<1>4. CASE audioQ # <<>> /\ audioQ' = Tail(audioQ)
  <2>1. /\ audioQ' \in Seq(AudioBatch) /\ Len(audioQ') = Len(audioQ) - 1
        /\ Head(audioQ) = audioQ[1] /\ 1 \in 1 .. Len(audioQ)
        /\ \A i \in 1 .. Len(audioQ') :
             i + 1 \in 1 .. Len(audioQ) /\ 1 < i + 1 /\ audioQ'[i] = audioQ[i + 1]
    BY <1>0, <1>4
  <2>2. ASSUME NEW i \in 1 .. Len(audioQ), NEW n, n = audioQ[i].seq
        PROVE  n \in Nat \ {0} /\ Later(n)'
    <3>1. Later(n) /\ n \in Nat \ {0}
      BY <2>2, AudioNumbers DEF LineInv, AudioLine
    <3> QED
      BY <1>1, <3>1
  <2>3. ASSUME NEW i \in 1 .. Len(audioQ'), NEW j \in 1 .. Len(audioQ'), i < j
        PROVE  audioQ'[i].seq < audioQ'[j].seq
    <3>1. i + 1 < j + 1
      BY <2>3
    <3> QED
      BY <2>1, <3>1 DEF LineInv, AudioLine
  <2>4. AudioLine'
    <3>1. ASSUME NEW i \in 1 .. Len(audioQ')
          PROVE  Later(audioQ[i].seq)'
      <4>1. PICK n : n = audioQ'[i].seq
        OBVIOUS
      <4>2. n = audioQ[i + 1].seq /\ i + 1 \in 1 .. Len(audioQ)
        BY <2>1, <3>1, <4>1
      <4> QED
        BY <2>2, <4>1, <4>2
    <3> QED
      BY <2>1, <2>3, <3>1 DEF AudioLine
  <2>5. ASSUME NEW n, n = Head(audioQ).seq
        PROVE  n \in Nat \ {0} /\ Clear(n)'
    <3>1. n \in Nat \ {0} /\ Later(n)'
      BY <2>1, <2>2, <2>5
    <3>2. \A i \in 1 .. Len(audioQ') : n < audioQ'[i].seq
      BY <2>1, <2>5 DEF LineInv, AudioLine
    <3> QED
      BY <3>1, <3>2 DEF Clear
  <2>6. ASSUME NEW n \in Nat, Clear(n)
        PROVE  Clear(n)'
    BY <1>1, <2>1, <2>6 DEF Clear
  <2> QED
    BY <1>1, <2>4, <2>5, <2>6
<1> QED
  BY <1>2, <1>3, <1>4

------------------------------------------------------------------------------
(* The order of the frames                                                   *)

\* Sequences one after the other.
LEMMA CatSeq == \A S : \A a, b \in Seq(S) : a \o b \in Seq(S)
BY ConcatProperties

LEMMA CatNone == \A S : \A a \in Seq(S) : a \o <<>> = a /\ <<>> \o a = a
BY ConcatEmptySeq

LEMMA CatThree == \A a, b, c \in Seq(Nat) : (a \o b) \o c = a \o (b \o c)
BY ConcatAssociative, SMTT(30)

Joins(v, a, b) ==
  /\ Len(v) = Len(a) + Len(b) /\ Len(a) \in Nat /\ Len(b) \in Nat
  /\ \A i \in 1 .. Len(a) : i \in 1 .. Len(v) /\ v[i] = a[i]
  /\ \A i \in 1 .. Len(b) : Len(a) + i \in 1 .. Len(v) /\ v[Len(a) + i] = b[i]

LEMMA CatAt ==
  ASSUME NEW S, NEW a \in Seq(S), NEW b \in Seq(S), NEW v, v = a \o b
  PROVE  v \in Seq(S) /\ Joins(v, a, b)
<1>1. /\ Len(v) = Len(a) + Len(b) /\ Len(a) \in Nat /\ Len(b) \in Nat
      /\ \A i \in 1 .. Len(a) + Len(b) : v[i] = IF i <= Len(a) THEN a[i] ELSE b[i - Len(a)]
  BY ConcatProperties
<1>2. PICK n, m : n = Len(a) /\ m = Len(b)
  OBVIOUS
<1>3. ASSUME NEW i \in 1 .. m
      PROVE  n + i \in 1 .. n + m /\ v[n + i] = b[i]
  <2>1. n + i \in 1 .. n + m /\ ~(n + i <= n) /\ (n + i) - n = i
    BY <1>1, <1>2
  <2> QED
    BY <1>1, <1>2, <2>1
<1>4. \A i \in 1 .. n : i \in 1 .. n + m /\ v[i] = a[i]
  BY <1>1, <1>2
<1>5. v \in Seq(S)
  BY CatSeq, Zenon
<1> QED
  BY <1>1, <1>2, <1>3, <1>4, <1>5 DEF Joins

\* A sequence in two pieces.
LEMMA Glued ==
  ASSUME NEW S, NEW z \in Seq(S), NEW k \in 0 .. Len(z), NEW b \in Seq(S), NEW r \in Seq(S),
         Len(b) = k, \A i \in 1 .. k : b[i] = z[i],
         Len(r) = Len(z) - k, \A i \in 1 .. Len(z) - k : r[i] = z[k + i]
  PROVE  z = b \o r
<1>1. PICK v, n : v = b \o r /\ n = Len(z)
  OBVIOUS
<1>2. n \in Nat /\ k \in 0 .. n
  BY <1>1
<1>3. /\ v \in Seq(S) /\ Len(v) = Len(b) + Len(r)
      /\ \A i \in 1 .. Len(b) : v[i] = b[i]
      /\ \A i \in 1 .. Len(r) : v[Len(b) + i] = r[i]
  <2>1. v \in Seq(S) /\ Joins(v, b, r)
    BY <1>1, CatAt, Zenon
  <2> QED
    BY <2>1 DEF Joins
<1>4. ASSUME NEW i \in 1 .. n PROVE v[i] = z[i]
  <2>1. CASE i <= k
    <3>1. i \in 1 .. k
      BY <1>2, <2>1
    <3> QED
      BY <1>3, <3>1
  <2>2. CASE i > k
    <3>1. PICK j : j = i - k
      OBVIOUS
    <3>2. j \in 1 .. n - k /\ k + j = i
      BY <1>2, <2>2, <3>1
    <3>3. v[k + j] = r[j]
      BY <1>1, <1>3, <3>2
    <3> QED
      BY <1>1, <3>2, <3>3
  <2> QED
    BY <1>2, <2>1, <2>2
<1>5. Len(v) = n
  BY <1>1, <1>2, <1>3
<1> QED
  BY <1>1, <1>3, <1>4, <1>5, SeqEqual

LEMMA Piece ==
  ASSUME NEW S, NEW z \in Seq(S), NEW k \in 0 .. Len(z)
  PROVE  /\ SubSeq(z, 1, k) \in Seq(S) /\ Len(SubSeq(z, 1, k)) = k
         /\ SubSeq(z, k + 1, Len(z)) \in Seq(S) /\ Len(SubSeq(z, k + 1, Len(z))) = Len(z) - k
         /\ z = SubSeq(z, 1, k) \o SubSeq(z, k + 1, Len(z))
<1>1. PICK b, r : b = SubSeq(z, 1, k) /\ r = SubSeq(z, k + 1, Len(z))
  OBVIOUS
<1>2. b \in Seq(S) /\ Len(b) = k /\ \A i \in 1 .. k : b[i] = z[i]
  BY <1>1
<1>3. r \in Seq(S) /\ Len(r) = Len(z) - k /\ \A i \in 1 .. Len(z) - k : r[i] = z[k + i]
  BY <1>1
<1>4. z = b \o r
  BY <1>2, <1>3, Glued
<1> QED
  BY <1>1, <1>2, <1>3, <1>4

LEMMA TwoPieces ==
  \A S : \A z \in Seq(S) : \A k \in 0 .. Len(z) :
    /\ SubSeq(z, 1, k) \in Seq(S) /\ Len(SubSeq(z, 1, k)) = k
    /\ SubSeq(z, k + 1, Len(z)) \in Seq(S) /\ Len(SubSeq(z, k + 1, Len(z))) = Len(z) - k
    /\ z = SubSeq(z, 1, k) \o SubSeq(z, k + 1, Len(z))
BY Piece, Zenon

Ordered(w) == \A i, j \in 1 .. Len(w) : i < j => w[i] < w[j]
After(p, w) == \A i \in 1 .. Len(w) : p < w[i]
AtMost(w, n) == \A i \in 1 .. Len(w) : w[i] <= n

\* s is what remains of w when it loses its oldest frames.
EndsIn(w, s) == \E d \in Seq(Nat) : w = d \o s

LEMMA EndKeeps ==
  ASSUME NEW w \in Seq(Nat), NEW s \in Seq(Nat), EndsIn(w, s)
  PROVE  /\ Ordered(w) => Ordered(s)
         /\ \A p : After(p, w) => After(p, s)
         /\ \A n : AtMost(w, n) => AtMost(s, n)
<1>1. PICK d \in Seq(Nat) : w = d \o s
  BY DEF EndsIn
<1>2. PICK k : k = Len(d)
  OBVIOUS
<1>4. /\ Len(w) = Len(d) + Len(s) /\ Len(d) \in Nat /\ Len(s) \in Nat
      /\ \A i \in 1 .. Len(s) : Len(d) + i \in 1 .. Len(w) /\ w[Len(d) + i] = s[i]
  <2>1. Joins(w, d, s)
    BY <1>1, CatAt, Zenon
  <2> QED
    BY <2>1 DEF Joins
<1>3. /\ k \in Nat /\ Len(s) \in Nat
      /\ \A i \in 1 .. Len(s) : k + i \in 1 .. Len(w) /\ s[i] = w[k + i]
  BY <1>2, <1>4
<1>5. ASSUME Ordered(w), NEW i \in 1 .. Len(s), NEW j \in 1 .. Len(s), i < j
      PROVE  s[i] < s[j]
  <2>1. k + i < k + j
    BY <1>3, <1>5
  <2> QED
    BY <1>3, <1>5, <2>1 DEF Ordered
<1> QED
  BY <1>3, <1>5 DEF Ordered, After, AtMost

LEMMA EndsInItself == ASSUME NEW w \in Seq(Nat) PROVE EndsIn(w, w)
<1>1. <<>> \in Seq(Nat) /\ <<>> \o w = w
  BY EmptySeq, CatNone
<1> QED
  BY <1>1 DEF EndsIn

\* The block that is played is older than all that remains.
LEMMA AfterBlock ==
  ASSUME NEW b \in Block, NEW s \in Seq(Nat), NEW w \in Seq(Nat), w = b \o s, Ordered(w)
  PROVE  Ordered(s) /\ After(b[BlockFrames], s) /\ b[BlockFrames] = w[BlockFrames]
         /\ BlockFrames \in 1 .. Len(w)
<1>1. b \in Seq(Nat) /\ Len(b) = BlockFrames
  BY BlockIsSeq
<1>2. /\ Len(w) = Len(b) + Len(s) /\ Len(b) \in Nat /\ Len(s) \in Nat
      /\ \A i \in 1 .. Len(b) : i \in 1 .. Len(w) /\ w[i] = b[i]
      /\ \A i \in 1 .. Len(s) : Len(b) + i \in 1 .. Len(w) /\ w[Len(b) + i] = s[i]
  <2>1. Joins(w, b, s)
    BY <1>1, CatAt, Zenon
  <2> QED
    BY <2>1 DEF Joins
<1>3. BlockFrames \in 1 .. Len(w) /\ b[BlockFrames] = w[BlockFrames]
  BY <1>1, <1>2, Lengths
<1>4. ASSUME NEW i \in 1 .. Len(s)
      PROVE  b[BlockFrames] < s[i]
  <2>1. /\ BlockFrames + i \in 1 .. Len(w) /\ w[BlockFrames + i] = s[i]
        /\ BlockFrames < BlockFrames + i
    BY <1>1, <1>2, Lengths
  <2>2. w[BlockFrames] < w[BlockFrames + i]
    BY <1>3, <2>1 DEF Ordered
  <2> QED
    BY <1>3, <2>1, <2>2
<1>5. EndsIn(w, s)
  BY <1>1 DEF EndsIn
<1> QED
  BY <1>3, <1>4, <1>5, EndKeeps DEF After

\* A batch that comes after all of w follows it in order.
LEMMA BatchFollows ==
  ASSUME NEW w \in Seq(Nat), NEW p \in Nat, NEW n \in Nat \ {0}, Ordered(w), After(p, w),
         AtMost(w, (n - 1) * BatchFrames), p <= (n - 1) * BatchFrames
  PROVE  /\ Frames(n) \in Seq(Nat) /\ w \o Frames(n) \in Seq(Nat)
         /\ Ordered(w \o Frames(n)) /\ AtMost(w \o Frames(n), n * BatchFrames)
         /\ \A c \in Nat : After(c, w) /\ c <= (n - 1) * BatchFrames => After(c, w \o Frames(n))
<1>1. PICK m, t, f, v : /\ m = (n - 1) * BatchFrames /\ t = n * BatchFrames
                        /\ f = Frames(n) /\ v = w \o f
  OBVIOUS
<1>2. m \in Nat /\ t = m + BatchFrames
  BY <1>1, Lengths
<1>3. f \in Seq(Nat) /\ Len(f) = BatchFrames /\ \A i \in 1 .. BatchFrames : f[i] = m + i
  <2>1. f = [i \in 1 .. BatchFrames |-> m + i]
    BY <1>1 DEF Frames
  <2>2. \A i \in 1 .. BatchFrames : m + i \in Nat
    BY <1>2, Lengths
  <2>3. f \in [1 .. BatchFrames -> Nat]
    BY <2>1, <2>2
  <2> QED
    BY <2>1, <2>3, Lengths
<1>4. PICK k : k = Len(w)
  OBVIOUS
<1>5. /\ v \in Seq(Nat) /\ Len(v) = Len(w) + Len(f) /\ Len(w) \in Nat
      /\ \A i \in 1 .. Len(w) : v[i] = w[i]
      /\ \A i \in 1 .. Len(f) : v[Len(w) + i] = f[i]
  <2>1. v \in Seq(Nat) /\ Joins(v, w, f)
    BY <1>1, <1>3, CatAt, Zenon
  <2> QED
    BY <2>1 DEF Joins
<1>6. k \in Nat /\ Len(v) = k + BatchFrames
  BY <1>3, <1>4, <1>5
<1>7. \A i \in 1 .. k : v[i] = w[i] /\ w[i] \in Nat /\ w[i] <= m
  BY <1>1, <1>4, <1>5 DEF AtMost
<1>8. ASSUME NEW i \in 1 .. Len(v), i \notin 1 .. k
      PROVE  v[i] = m + (i - k) /\ i > k /\ i - k \in 1 .. BatchFrames
  <2>1. PICK j : j = i - k
    OBVIOUS
  <2>2. j \in 1 .. BatchFrames /\ k + j = i
    BY <1>6, <1>8, <2>1, Lengths
  <2>3. v[k + j] = m + j
    BY <1>3, <1>4, <1>5, <2>2
  <2> QED
    BY <1>6, <2>1, <2>2, <2>3
<1>9. ASSUME NEW i \in 1 .. Len(v), i \notin 1 .. k
      PROVE  v[i] \in Nat /\ m < v[i] /\ v[i] <= t
  <2>1. PICK j : j = i - k
    OBVIOUS
  <2>2. j \in 1 .. BatchFrames /\ v[i] = m + j
    BY <1>8, <1>9, <2>1
  <2> QED
    BY <1>2, <2>2, Lengths
<1>10. ASSUME NEW i \in 1 .. Len(v), NEW j \in 1 .. Len(v), i < j
       PROVE  v[i] < v[j]
  <2>1. CASE j \in 1 .. k
    <3>1. i \in 1 .. k
      BY <1>6, <1>10, <2>1
    <3>2. w[i] < w[j]
      BY <1>4, <1>10, <2>1, <3>1 DEF Ordered
    <3> QED
      BY <1>7, <2>1, <3>1, <3>2
  <2>2. CASE j \notin 1 .. k
    <3>1. CASE i \in 1 .. k
      <4>1. v[i] \in Nat /\ v[i] <= m /\ v[j] \in Nat /\ m < v[j]
        BY <1>7, <1>9, <2>2, <3>1
      <4> QED
        BY <1>2, <4>1
    <3>2. CASE i \notin 1 .. k
      <4>1. PICK q, r : q = i - k /\ r = j - k
        OBVIOUS
      <4>2. v[i] = m + q /\ v[j] = m + r /\ q \in 1 .. BatchFrames /\ r \in 1 .. BatchFrames
        BY <1>8, <2>2, <3>2, <4>1
      <4>3. q < r
        BY <1>6, <1>10, <4>1
      <4> QED
        BY <1>2, <4>2, <4>3, Lengths
    <3> QED
      BY <3>1, <3>2
  <2> QED
    BY <2>1, <2>2
<1>11. ASSUME NEW c \in Nat, After(c, w), c <= m, NEW i \in 1 .. Len(v)
       PROVE  c < v[i]
  <2>1. CASE i \in 1 .. k
    BY <1>4, <1>7, <1>11, <2>1 DEF After
  <2>2. CASE i \notin 1 .. k
    <3>1. v[i] \in Nat /\ m < v[i]
      BY <1>9, <2>2
    <3> QED
      BY <1>2, <1>11, <3>1
  <2> QED
    BY <2>1, <2>2
<1>12. ASSUME NEW i \in 1 .. Len(v) PROVE v[i] <= t
  <2>1. CASE i \in 1 .. k
    <3>1. v[i] \in Nat /\ v[i] <= m
      BY <1>7, <2>1
    <3> QED
      BY <1>2, <3>1, Lengths
  <2>2. CASE i \notin 1 .. k
    BY <1>9, <2>2
  <2> QED
    BY <2>1, <2>2
<1> QED
  BY <1>1, <1>3, <1>5, <1>10, <1>11, <1>12 DEF Ordered, AtMost, After

------------------------------------------------------------------------------
(* What the audio thread holds                                               *)

WorkerTypes ==
  /\ player \in Seq(Block) /\ pending \in Seq(Block) /\ residual \in Seq(Nat)
  /\ pre \in Nat /\ played \in Nat /\ cut \in Nat
  /\ flush \in BOOLEAN /\ (prebuffered => pending = <<>>)
  /\ apc \in {"dead", "setup", "loop", "flushing", "flushed", "follow", "get", "cut"}
  /\ apc \in {"dead", "setup", "flushing", "flushed"} => player = <<>>
  /\ apc \in {"setup", "flushed"} => pending = <<>> /\ residual = <<>>

Holds(x, y, z) == Flat(x) \o Flat(y) \o z

LEMMA FlatSeq == \A x \in Seq(Block) : Flat(x) \in Seq(Nat)
BY FlatFacts

LEMMA FlatCat == \A x, y \in Seq(Block) : Flat(x \o y) = Flat(x) \o Flat(y)
BY FlatConcat

LEMMA FlatSingle == \A b \in Block : Flat(<<b>>) = b
BY FlatOne

LEMMA HoldsSeq ==
  \A x, y \in Seq(Block), z \in Seq(Nat) :
    /\ Holds(x, y, z) = Flat(x) \o (Flat(y) \o z)
    /\ Flat(y) \o z \in Seq(Nat) /\ Holds(x, y, z) \in Seq(Nat)
<1> TAKE x, y \in Seq(Block), z \in Seq(Nat)
<1>1. Flat(x) \in Seq(Nat) /\ Flat(y) \in Seq(Nat)
  BY FlatSeq, Zenon
<1>2. Flat(x) \o Flat(y) \in Seq(Nat)
  BY <1>1, CatSeq, Zenon
<1>3. (Flat(x) \o Flat(y)) \o z \in Seq(Nat)
  BY <1>2, CatSeq, Zenon
<1>4. Flat(y) \o z \in Seq(Nat)
  BY <1>1, CatSeq, Zenon
<1>5. (Flat(x) \o Flat(y)) \o z = Flat(x) \o (Flat(y) \o z)
  <2>1. SUFFICES ASSUME NEW f \in Seq(Nat), NEW g \in Seq(Nat)
                 PROVE  (f \o g) \o z = f \o (g \o z)
    BY <1>1, Zenon
  <2> QED
    BY CatThree, Zenon
<1> QED
  BY <1>3, <1>4, <1>5, Zenon DEF Holds

LEMMA FlatEmpty == <<>> \in Seq(Block) /\ <<>> \in Seq(Nat) /\ Flat(<<>>) = <<>>
BY FlatNone, EmptySeq

\* Without the blocks of the player the rest remains.
LEMMA PlayerLost ==
  \A x, y \in Seq(Block), z \in Seq(Nat) : EndsIn(Holds(x, y, z), Holds(<<>>, y, z))
<1> TAKE x, y \in Seq(Block), z \in Seq(Nat)
<1>1. PICK f, c : f = Flat(x) /\ c = Flat(y) \o z
  OBVIOUS
<1>2. f \in Seq(Nat) /\ c \in Seq(Nat) /\ Holds(x, y, z) = f \o c
  BY <1>1, HoldsSeq, FlatSeq, Zenon
<1>3. Holds(<<>>, y, z) = <<>> \o c
  <2>1. Holds(<<>>, y, z) = Flat(<<>>) \o (Flat(y) \o z)
    BY FlatEmpty, HoldsSeq, Zenon
  <2> QED
    BY <1>1, <2>1, FlatEmpty, Zenon
<1>4. <<>> \o c = c
  BY <1>2, CatNone, Zenon
<1> QED
  BY <1>2, <1>3, <1>4, Zenon DEF EndsIn

LEMMA NothingHeld == Holds(<<>>, <<>>, <<>>) = <<>>
<1>1. <<>> \o <<>> = <<>>
  BY FlatEmpty, CatNone, Zenon
<1>2. Holds(<<>>, <<>>, <<>>) = (Flat(<<>>) \o Flat(<<>>)) \o <<>>
  BY Zenon DEF Holds
<1> QED
  BY <1>1, <1>2, FlatEmpty, Zenon

\* The oldest block goes first.
LEMMA PlayerTail ==
  ASSUME NEW x \in Seq(Block), x # <<>>, NEW y \in Seq(Block), NEW z \in Seq(Nat)
  PROVE  /\ Head(x) \in Block /\ Tail(x) \in Seq(Block)
         /\ Holds(x, y, z) = Head(x) \o Holds(Tail(x), y, z)
<1>1. PICK h, t : h = Head(x) /\ t = Tail(x)
  OBVIOUS
<1>2. h \in Block /\ t \in Seq(Block) /\ x = <<h>> \o t /\ <<h>> \in Seq(Block)
  BY <1>1
<1>3. PICK f, c : f = Flat(t) /\ c = Flat(y) \o z
  OBVIOUS
<1>4. Flat(x) = h \o f
  <2>1. Flat(<<h>> \o t) = Flat(<<h>>) \o Flat(t)
    BY <1>2, FlatCat, Zenon
  <2>2. Flat(<<h>>) = h
    BY <1>2, FlatSingle, Zenon
  <2> QED
    BY <1>2, <1>3, <2>1, <2>2, Zenon
<1>5. f \in Seq(Nat) /\ c \in Seq(Nat)
  BY <1>2, <1>3, HoldsSeq, FlatSeq, Zenon
<1>6. Holds(t, y, z) = f \o c
  BY <1>2, <1>3, HoldsSeq, Zenon
<1>7. Holds(x, y, z) = (h \o f) \o c
  <2>1. Holds(x, y, z) = Flat(x) \o (Flat(y) \o z)
    BY HoldsSeq, Zenon
  <2> QED
    BY <1>3, <1>4, <2>1, Zenon
<1>8. h \in Seq(Nat)
  BY <1>2, BlockIsSeq, Zenon
<1>9. (h \o f) \o c = h \o (f \o c)
  BY <1>5, <1>8, CatThree, Zenon
<1> QED
  BY <1>1, <1>2, <1>6, <1>7, <1>9, Zenon

\* The blocks a full player keeps are its newest.
LEMMA NewestBlocks ==
  ASSUME NEW x \in Seq(Block), NEW n \in Nat
  PROVE  \E d, s \in Seq(Block) : s = Newest(x, n) /\ x = d \o s
<1>0. PICK l : l = Len(x)
  OBVIOUS
<1>1. l \in Nat
  BY <1>0
<1>2. CASE l <= n
  <2>1. Newest(x, n) = x
    BY <1>0, <1>2 DEF Newest
  <2>2. x = <<>> \o x /\ <<>> \in Seq(Block)
    BY EmptySeq, CatNone, Zenon
  <2> QED
    BY <2>1, <2>2, Zenon
<1>3. CASE l > n
  <2>1. PICK k : k = l - n
    OBVIOUS
  <2>2. k \in 0 .. l /\ k + 1 = (l - n) + 1
    BY <1>1, <1>3, <2>1
  <2>3. Newest(x, n) = SubSeq(x, k + 1, l)
    BY <1>0, <1>1, <1>3, <2>1, <2>2 DEF Newest
  <2>4. /\ SubSeq(x, k + 1, l) \in Seq(Block) /\ SubSeq(x, 1, k) \in Seq(Block)
        /\ x = SubSeq(x, 1, k) \o SubSeq(x, k + 1, l)
    BY <1>0, <2>2, TwoPieces, Zenon
  <2> QED
    BY <2>3, <2>4, Zenon
<1> QED
  BY <1>1, <1>2, <1>3

\* Blocks that were held back, or cut off, move on into the player.
LEMMA PushedBlocks ==
  ASSUME NEW x \in Seq(Block), NEW y \in Seq(Block), NEW z \in Seq(Nat), NEW n \in Nat
  PROVE  /\ Newest(x \o y, n) \in Seq(Block)
         /\ EndsIn(Holds(x, y, z), Holds(Newest(x \o y, n), <<>>, z))
<1>1. PICK u : u = x \o y
  OBVIOUS
<1>2. u \in Seq(Block)
  BY <1>1, CatSeq, Zenon
<1>3. PICK d \in Seq(Block), v \in Seq(Block) : v = Newest(u, n) /\ u = d \o v
  BY <1>2, NewestBlocks, Zenon
<1>4. PICK f, g : f = Flat(d) /\ g = Flat(v)
  OBVIOUS
<1>5. f \in Seq(Nat) /\ g \in Seq(Nat)
  BY <1>3, <1>4, FlatSeq, Zenon
<1>6. Flat(x) \o Flat(y) = f \o g
  <2>1. Flat(x \o y) = Flat(x) \o Flat(y)
    BY FlatCat, Zenon
  <2>2. Flat(d \o v) = Flat(d) \o Flat(v)
    BY <1>3, FlatCat, Zenon
  <2> QED
    BY <1>1, <1>3, <1>4, <2>1, <2>2, Zenon
<1>7. Holds(x, y, z) = (f \o g) \o z
  BY <1>6, Zenon DEF Holds
<1>8. (f \o g) \o z = f \o (g \o z)
  BY <1>5, CatThree, Zenon
<1>9. Holds(v, <<>>, z) = (g \o <<>>) \o z
  BY <1>4, FlatEmpty, Zenon DEF Holds
<1>10. g \o <<>> = g
  BY <1>5, CatNone, Zenon
<1>11. EndsIn(Holds(x, y, z), Holds(v, <<>>, z))
  BY <1>5, <1>7, <1>8, <1>9, <1>10, Zenon DEF EndsIn
<1> QED
  BY <1>1, <1>3, <1>11, Zenon

LEMMA OneMore ==
  \A y \in Seq(Block), b \in Block :
    Append(y, b) = y \o <<b>> /\ <<b>> \in Seq(Block) /\ Append(y, b) \in Seq(Block)
BY AppendIsConcat

LEMMA BlockFromSeq == \A b \in Seq(Nat) : Len(b) = BlockFrames => b \in Block
BY LenProperties DEF Block

\* Cutting a block off the residual changes nothing of what is held.
LEMMA CutBlock ==
  ASSUME NEW x \in Seq(Block), NEW y \in Seq(Block), NEW z \in Seq(Nat), Len(z) >= BlockFrames
  PROVE  /\ SubSeq(z, 1, BlockFrames) \in Block
         /\ SubSeq(z, BlockFrames + 1, Len(z)) \in Seq(Nat)
         /\ Append(y, SubSeq(z, 1, BlockFrames)) \in Seq(Block)
         /\ Holds(x, Append(y, SubSeq(z, 1, BlockFrames)), SubSeq(z, BlockFrames + 1, Len(z)))
              = Holds(x, y, z)
<1>0. PICK b, r : /\ b = SubSeq(z, 1, BlockFrames)
                  /\ r = SubSeq(z, BlockFrames + 1, Len(z))
  OBVIOUS
<1>1. b \in Seq(Nat) /\ Len(b) = BlockFrames /\ r \in Seq(Nat) /\ z = b \o r
  <2>1. BlockFrames \in 0 .. Len(z)
    BY Lengths
  <2> QED
    BY <1>0, <2>1, TwoPieces, ZenonT(40)
<1>2. b \in Block
  BY <1>1, BlockFromSeq, Zenon
<1>3. Append(y, b) = y \o <<b>> /\ <<b>> \in Seq(Block) /\ Append(y, b) \in Seq(Block)
  BY <1>2, OneMore, Zenon
<1>4. PICK f, g : f = Flat(x) /\ g = Flat(y)
  OBVIOUS
<1>5. f \in Seq(Nat) /\ g \in Seq(Nat)
  BY <1>4, FlatSeq, Zenon
<1>6. Flat(Append(y, b)) = g \o b
  <2>1. Flat(y \o <<b>>) = Flat(y) \o Flat(<<b>>)
    BY <1>3, FlatCat, Zenon
  <2>2. Flat(<<b>>) = b
    BY <1>2, FlatSingle, Zenon
  <2> QED
    BY <1>3, <1>4, <2>1, <2>2, Zenon
<1>7. Holds(x, Append(y, b), r) = f \o ((g \o b) \o r)
  <2>1. Holds(x, Append(y, b), r) = Flat(x) \o (Flat(Append(y, b)) \o r)
    BY <1>1, <1>3, HoldsSeq, Zenon
  <2> QED
    BY <1>4, <1>6, <2>1, Zenon
<1>8. (g \o b) \o r = g \o (b \o r)
  <2>1. b \in Seq(Nat) /\ r \in Seq(Nat) /\ g \in Seq(Nat)
    BY <1>1, <1>5
  <2>2. SUFFICES ASSUME NEW k \in Seq(Nat), NEW m \in Seq(Nat), NEW n \in Seq(Nat)
                 PROVE  (k \o m) \o n = k \o (m \o n)
    BY <2>1, Zenon
  <2> QED
    BY CatThree, Zenon
<1>9. Holds(x, y, z) = f \o (g \o z)
  BY <1>4, HoldsSeq, Zenon
<1> QED
  BY <1>0, <1>1, <1>2, <1>3, <1>7, <1>8, <1>9, Zenon

LEMMA HeldIs == InWorker = Holds(player, pending, residual)
BY DEF InWorker, Holds

LEMMA HeldWillBe == InWorker' = Holds(player', pending', residual')
BY DEF InWorker, Holds, Flat

LEMMA HeldSeq == WorkerTypes => InWorker \in Seq(Nat) /\ Len(InWorker) \in Nat
<1> SUFFICES ASSUME WorkerTypes PROVE InWorker \in Seq(Nat) /\ Len(InWorker) \in Nat
  OBVIOUS
<1>1. player \in Seq(Block) /\ pending \in Seq(Block) /\ residual \in Seq(Nat)
  BY DEF WorkerTypes
<1>2. Holds(player, pending, residual) \in Seq(Nat)
  BY <1>1, HoldsSeq, Zenon
<1>3. InWorker \in Seq(Nat)
  BY <1>2, HeldIs, Zenon
<1>4. \A w \in Seq(Nat) : Len(w) \in Nat
  OBVIOUS
<1> QED
  BY <1>3, <1>4, Zenon

LEMMA HeldSeqNext ==
  ASSUME WorkerTypes' PROVE InWorker' \in Seq(Nat)
<1>1. player' \in Seq(Block) /\ pending' \in Seq(Block) /\ residual' \in Seq(Nat)
  BY DEF WorkerTypes
<1>2. Holds(player', pending', residual') \in Seq(Nat)
  BY <1>1, HoldsSeq, Zenon
<1> QED
  BY <1>2, HeldWillBe, Zenon

LEMMA NothingLeft == \A w \in Seq(Nat) : EndsIn(w, <<>>)
<1> TAKE w \in Seq(Nat)
<1>1. w = w \o <<>>
  BY CatNone, Zenon
<1> QED
  BY <1>1, Zenon DEF EndsIn

------------------------------------------------------------------------------
(* What the steps do to it                                                   *)

\* Steps that lose frames, or none.
Loses ==
  /\ WorkerTypes' /\ EndsIn(InWorker, InWorker') /\ played' = played

LEMMA QuietHolds ==
  ASSUME WorkerTypes, UNCHANGED <<player, pending, residual>>
  PROVE  InWorker' = InWorker /\ EndsIn(InWorker, InWorker')
<1>1. InWorker' = InWorker
  BY HeldIs, HeldWillBe, Zenon
<1>2. InWorker \in Seq(Nat)
  BY HeldSeq
<1> QED
  BY <1>1, <1>2, EndsInItself, Zenon

LEMMA PlayerGone ==
  ASSUME WorkerTypes, player' = <<>>, UNCHANGED <<pending, residual>>
  PROVE  EndsIn(InWorker, InWorker')
<1>1. player \in Seq(Block) /\ pending \in Seq(Block) /\ residual \in Seq(Nat)
  BY DEF WorkerTypes
<1>2. EndsIn(Holds(player, pending, residual), Holds(<<>>, pending, residual))
  BY <1>1, PlayerLost, Zenon
<1> QED
  BY <1>2, HeldIs, HeldWillBe, Zenon

LEMMA AllGone ==
  ASSUME WorkerTypes, player' = <<>>, pending' = <<>>, residual' = <<>>
  PROVE  InWorker' = <<>> /\ EndsIn(InWorker, InWorker')
<1>1. InWorker' = <<>>
  BY NothingHeld, HeldWillBe, Zenon
<1>2. InWorker \in Seq(Nat)
  BY HeldSeq
<1> QED
  BY <1>1, <1>2, NothingLeft, Zenon

LEMMA WorkerLoses ==
  ASSUME WorkerTypes,
         \/ Setup \/ Teardown \/ FlushPlayer \/ FlushFields \/ FlushDone \/ NothingToFlush
         \/ Follow \/ SameSpeaker \/ BatchDone
  PROVE  Loses /\ cut' = cut
<1> USE DEF Loses
<1>1. CASE Setup \/ NothingToFlush \/ SameSpeaker \/ BatchDone
  <2>1. /\ UNCHANGED <<player, pending, residual, played, prebuffered, pre, cut, flush>>
        /\ apc \notin {"dead", "flushing", "flushed"}
        /\ apc' \in {"dead", "loop", "follow", "get"}
        /\ apc' = "dead" => apc = "setup"
    BY <1>1 DEF Setup, NothingToFlush, SameSpeaker, BatchDone, audio
  <2>2. WorkerTypes'
    BY <2>1 DEF WorkerTypes
  <2> QED
    BY <2>1, <2>2, QuietHolds
<1>2. CASE Teardown \/ FlushPlayer \/ Follow
  <2>1. /\ UNCHANGED <<pending, residual, played, prebuffered, pre, cut, flush>>
        /\ player' = <<>> /\ apc' \in {"dead", "flushing", "get"}
    BY <1>2 DEF Teardown, FlushPlayer, Follow, audio
  <2>2. WorkerTypes'
    BY <2>1, EmptySeq DEF WorkerTypes
  <2> QED
    BY <2>1, <2>2, PlayerGone
<1>3. CASE FlushFields
  <2>1. /\ UNCHANGED <<player, played, pre, cut, flush>>
        /\ pending' = <<>> /\ residual' = <<>> /\ prebuffered' = FALSE
        /\ apc = "flushing" /\ apc' = "flushed"
    BY <1>3 DEF FlushFields, ClearFields
  <2>2. WorkerTypes' /\ player' = <<>>
    BY <2>1, EmptySeq DEF WorkerTypes
  <2> QED
    BY <2>1, <2>2, AllGone
<1>4. CASE FlushDone
  <2>1. /\ UNCHANGED <<player, pending, residual, played, prebuffered, pre, cut>>
        /\ flush' = FALSE /\ apc' = "follow"
    BY <1>4 DEF FlushDone, audio
  <2>2. WorkerTypes'
    BY <2>1 DEF WorkerTypes
  <2> QED
    BY <2>1, <2>2, QuietHolds
<1> QED
  BY <1>1, <1>2, <1>3, <1>4

LEMMA PushLoses ==
  ASSUME WorkerTypes, PushBlock
  PROVE  Loses /\ cut' = cut
<1> DEFINE b == SubSeq(residual, 1, BlockFrames)
           r == SubSeq(residual, BlockFrames + 1, Len(residual))
           held == Append(pending, b)
<1>1. /\ player \in Seq(Block) /\ pending \in Seq(Block) /\ residual \in Seq(Nat)
      /\ Len(residual) >= BlockFrames
  BY DEF WorkerTypes, PushBlock
<1>2. /\ b \in Block /\ r \in Seq(Nat) /\ held \in Seq(Block)
      /\ Holds(player, held, r) = InWorker
  BY <1>1, CutBlock, HeldIs
<1>3. /\ residual' = r /\ UNCHANGED <<pre, played, cut, flush, apc>> /\ apc = "cut"
      /\ \/ /\ prebuffered /\ player' = Newest(player \o <<b>>, pre * DepthFactor)
            /\ UNCHANGED <<pending, prebuffered>>
         \/ /\ player' = Newest(player \o held, pre * DepthFactor)
            /\ pending' = <<>> /\ prebuffered' = TRUE
         \/ ~prebuffered /\ pending' = held /\ UNCHANGED <<player, prebuffered>>
  BY DEF PushBlock, RawPush
<1>4. pre * DepthFactor \in Nat /\ (prebuffered => pending = <<>>)
  BY StreamingAssumption DEF WorkerTypes
<1>5. /\ Newest(player \o held, pre * DepthFactor) \in Seq(Block)
      /\ EndsIn(InWorker, Holds(Newest(player \o held, pre * DepthFactor), <<>>, r))
  <2> HIDE DEF held, r
  <2>1. /\ Newest(player \o held, pre * DepthFactor) \in Seq(Block)
        /\ EndsIn(Holds(player, held, r),
                  Holds(Newest(player \o held, pre * DepthFactor), <<>>, r))
    BY <1>1, <1>2, <1>4, PushedBlocks, Zenon
  <2> QED
    BY <1>2, <2>1, Zenon
<1>6. CASE prebuffered /\ player' = Newest(player \o <<b>>, pre * DepthFactor)
             /\ UNCHANGED <<pending, prebuffered>>
  <2>1. pending = <<>> /\ held = <<b>>
    BY <1>4, <1>6
  <2>2. player' = Newest(player \o held, pre * DepthFactor) /\ pending' = <<>>
    BY <1>6, <2>1
  <2> HIDE DEF held, r
  <2>3. EndsIn(InWorker, InWorker')
    BY <1>3, <1>5, <2>2, HeldWillBe, Zenon
  <2>4. WorkerTypes'
    BY <1>2, <1>3, <1>5, <1>6, <2>1, <2>2, EmptySeq DEF WorkerTypes
  <2> QED
    BY <1>3, <2>3, <2>4 DEF Loses
<1>7. CASE player' = Newest(player \o held, pre * DepthFactor)
             /\ pending' = <<>> /\ prebuffered' = TRUE
  <2> HIDE DEF held, r
  <2>3. EndsIn(InWorker, InWorker')
    BY <1>3, <1>5, <1>7, HeldWillBe, Zenon
  <2>4. WorkerTypes'
    BY <1>2, <1>3, <1>5, <1>7, EmptySeq DEF WorkerTypes
  <2> QED
    BY <1>3, <2>3, <2>4 DEF Loses
<1>8. CASE ~prebuffered /\ pending' = held /\ UNCHANGED <<player, prebuffered>>
  <2> HIDE DEF held, r
  <2>1. InWorker' = InWorker
    BY <1>2, <1>3, <1>8, HeldWillBe, Zenon
  <2>2. EndsIn(InWorker, InWorker')
    BY <2>1, HeldSeq, EndsInItself, Zenon
  <2>4. WorkerTypes'
    BY <1>2, <1>3, <1>8 DEF WorkerTypes
  <2> QED
    BY <1>3, <2>2, <2>4 DEF Loses
<1> QED
  BY <1>3, <1>6, <1>7, <1>8

\* A new audio thread starts empty.
LEMMA NewLoses ==
  ASSUME WorkerTypes, NewWorker, apc = "dead", UNCHANGED <<player, played>>
  PROVE  Loses /\ InWorker' = <<>> /\ cut' = 0
<1>1. /\ pending' = <<>> /\ residual' = <<>> /\ prebuffered' = FALSE /\ cut' = 0
      /\ pre' = 1 /\ flush' = FALSE /\ apc' = "setup"
  BY DEF NewWorker, ClearFields
<1>2. player' = <<>>
  BY DEF WorkerTypes
<1>3. WorkerTypes'
  BY <1>1, <1>2, EmptySeq DEF WorkerTypes
<1> QED
  BY <1>1, <1>2, <1>3, AllGone DEF Loses

\* What the audio thread holds was read before whatever is still on its way to it.
Room(n) ==
  /\ Clear(n) /\ AtMost(InWorker, n * BatchFrames)
  /\ cut <= n * BatchFrames /\ played <= n * BatchFrames

Flushed == ~flush /\ apc \notin {"dead", "flushing", "flushed"} => After(cut, InWorker)

\* While the engine replaces the pipeline there is no audio thread.
StoppedInv == epc \in {"removed", "bandwidth", "add", "added", "start"} => apc = "dead"

LEMMA StoppedStep == StoppedInv /\ [Next]_vars => StoppedInv'
<1> SUFFICES ASSUME StoppedInv, [Next]_vars PROVE StoppedInv'
  OBVIOUS
<1> USE DEF StoppedInv
<1>1. CASE IoStep \/ PipeStep \/ Play \/ UNCHANGED vars
  <2>1. UNCHANGED <<epc, apc>>
    BY <1>1 DEF IoStep, Read, PutBatch, PutTimesOut, Evict, Replace, PipeStep, ApplyConfig, TakeBatch,
         SetGain, PutGain, Execute, Play, vars, engine
  <2> QED
    BY <2>1
<1>2. CASE AudioStep
  <2>1. epc' = epc /\ apc # "dead"
    BY <1>2 DEF AudioStep, Setup, Teardown, FlushPlayer, FlushFields, FlushDone, NothingToFlush,
         Follow, SameSpeaker, GetAudio, PushBlock, BatchDone, engine
  <2> QED
    BY <2>1
<1>3. CASE EngineStep
  BY <1>3 DEF EngineStep, Drain, RequestFlush, SwapMode, PutMode, Restart, RemovePipeline,
       PutRemoved, PutBandwidth, AddPipeline, PutAdded, StartOutput, NewWorker, KeepWorker
<1>4. CASE UserStep
  BY <1>4 DEF UserStep, SetAudioOutputDevice, UpdateConfig, SetAudioDemod
<1> QED
  BY <1>1, <1>2, <1>3, <1>4 DEF Next

HeldInv == /\ Ordered(InWorker) /\ After(played, InWorker) /\ Flushed
           /\ \E n \in Nat : Room(n)
PathInv == ModeInv /\ StoppedInv /\ LineInv /\ WorkerTypes /\ HeldInv

LastOf(w) == IF w = <<>> THEN 0 ELSE w[Len(w)]

LEMMA PathInit == Init => PathInv
<1> SUFFICES ASSUME Init PROVE PathInv
  OBVIOUS
<1>1. player = <<>> /\ pending = <<>> /\ residual = <<>> /\ cut = 0 /\ played = 0
  BY DEF Init
<1>2. WorkerTypes
  BY EmptySeq DEF Init, WorkerTypes
<1>3. InWorker = <<>>
  BY <1>1, HeldIs, NothingHeld, Zenon
<1>4. Clear(0) /\ ModeInv /\ LineInv
  BY LineInit, ModeInit
<1>5. \A w : w = <<>> => Ordered(w) /\ After(0, w) /\ AtMost(w, 0)
  BY DEF Ordered, After, AtMost
<1>6. 0 * BatchFrames = 0
  BY Lengths
<1>7. Room(0)
  BY <1>1, <1>3, <1>4, <1>5, <1>6 DEF Room
<1>8. HeldInv
  BY <1>1, <1>3, <1>5, <1>7 DEF HeldInv, Flushed
<1> QED
  BY <1>2, <1>4, <1>8 DEF PathInv, StoppedInv, Init

\* A step that only loses frames keeps what is held in order.
LEMMA LosingKeeps ==
  ASSUME WorkerTypes, HeldInv, Loses, \A n \in Nat : Clear(n) => Clear(n)',
         cut' \in {cut, 0} \/ (InWorker # <<>> /\ cut' = LastOf(InWorker)),
         Flushed'
  PROVE  HeldInv'
<1>1. PICK n \in Nat : Room(n)
  BY DEF HeldInv
<1>2. PICK w, s, t : w = InWorker /\ s = InWorker' /\ t = n * BatchFrames
  OBVIOUS
<1>3. w \in Seq(Nat) /\ s \in Seq(Nat) /\ EndsIn(w, s) /\ t \in Nat /\ Len(w) \in Nat
  BY <1>2, HeldSeq, HeldSeqNext, Lengths DEF Loses
<1>4. Ordered(w) /\ After(played, w) /\ AtMost(w, t) /\ cut <= t /\ played <= t /\ Clear(n)
  BY <1>1, <1>2 DEF HeldInv, Room
<1>5. Ordered(s) /\ After(played, s) /\ AtMost(s, t)
  BY <1>3, <1>4, EndKeeps
<1>6. cut' <= t
  <2>1. CASE cut' = cut \/ cut' = 0
    BY <1>3, <1>4, <2>1
  <2>2. CASE InWorker # <<>> /\ cut' = LastOf(InWorker)
    <3>1. cut' = w[Len(w)] /\ Len(w) \in 1 .. Len(w)
      BY <1>2, <1>3, <2>2, EmptyHasNoLength DEF LastOf
    <3> QED
      BY <1>4, <3>1 DEF AtMost
  <2> QED
    BY <2>1, <2>2
<1>7. played' = played
  BY DEF Loses
<1>8. Room(n)'
  BY <1>2, <1>4, <1>5, <1>6, <1>7 DEF Room
<1> QED
  BY <1>2, <1>5, <1>7, <1>8 DEF HeldInv

\* The player plays its oldest block.
LEMMA PlayKeeps ==
  ASSUME WorkerTypes, HeldInv, Play, \A n \in Nat : Clear(n) => Clear(n)'
  PROVE  WorkerTypes' /\ HeldInv'
<1>1. /\ player # <<>> /\ player' = Tail(player) /\ played' = Head(player)[BlockFrames]
      /\ UNCHANGED <<pending, residual, prebuffered, pre, cut, flush, apc>>
  BY DEF Play, audio
<1>2. player \in Seq(Block) /\ pending \in Seq(Block) /\ residual \in Seq(Nat)
  BY DEF WorkerTypes
<1>3. PICK b : b = Head(player)
  OBVIOUS
<1>4. PICK w, s : w = InWorker /\ s = InWorker'
  OBVIOUS
<1>5. b \in Block /\ player' \in Seq(Block) /\ w = b \o s
  <2>1. /\ Head(player) \in Block /\ Tail(player) \in Seq(Block)
        /\ Holds(player, pending, residual)
             = Head(player) \o Holds(Tail(player), pending, residual)
    BY <1>1, <1>2, PlayerTail
  <2> QED
    BY <1>1, <1>3, <1>4, <2>1, HeldIs, HeldWillBe, Zenon
<1>6. b[BlockFrames] \in Nat
  BY <1>5, Lengths DEF Block
<1>7. WorkerTypes'
  BY <1>1, <1>3, <1>5, <1>6 DEF WorkerTypes
<1>8. w \in Seq(Nat) /\ s \in Seq(Nat)
  BY <1>4, <1>7, HeldSeq, HeldSeqNext
<1>9. PICK n \in Nat : Room(n)
  BY DEF HeldInv
<1>10. PICK t : t = n * BatchFrames
  OBVIOUS
<1>11. Ordered(w) /\ AtMost(w, t) /\ cut <= t /\ Clear(n)
  BY <1>4, <1>9, <1>10 DEF HeldInv, Room
<1>12. /\ Ordered(s) /\ After(b[BlockFrames], s) /\ b[BlockFrames] = w[BlockFrames]
       /\ BlockFrames \in 1 .. Len(w)
  BY <1>5, <1>8, <1>11, AfterBlock
<1>13. EndsIn(w, s)
  <2>1. b \in Seq(Nat)
    BY <1>5, BlockIsSeq, Zenon
  <2> QED
    BY <1>5, <2>1, Zenon DEF EndsIn
<1>14. AtMost(s, t) /\ (After(cut, w) => After(cut, s))
  BY <1>8, <1>11, <1>13, EndKeeps
<1>15. b[BlockFrames] <= t
  BY <1>11, <1>12 DEF AtMost
<1>16. Flushed'
  BY <1>1, <1>4, <1>14 DEF Flushed, HeldInv
<1>17. Room(n)'
  BY <1>1, <1>3, <1>4, <1>10, <1>11, <1>14, <1>15 DEF Room
<1> QED
  BY <1>1, <1>3, <1>4, <1>7, <1>12, <1>16, <1>17 DEF HeldInv

\* The frames of a batch follow what is held.
LEMMA HoldsMore ==
  \A x, y \in Seq(Block), z, f \in Seq(Nat) : Holds(x, y, z \o f) = Holds(x, y, z) \o f
<1> TAKE x, y \in Seq(Block), z, f \in Seq(Nat)
<1>1. PICK a, b : a = Flat(x) /\ b = Flat(y)
  OBVIOUS
<1>2. a \in Seq(Nat) /\ b \in Seq(Nat)
  BY <1>1, FlatSeq, Zenon
<1>3. PICK c : c = a \o b
  OBVIOUS
<1>4. c \in Seq(Nat)
  BY <1>2, <1>3, CatSeq, Zenon
<1>5. Holds(x, y, z) = c \o z /\ Holds(x, y, z \o f) = c \o (z \o f)
  BY <1>1, <1>3, Zenon DEF Holds
<1>6. (c \o z) \o f = c \o (z \o f)
  BY <1>4, CatThree, Zenon
<1> QED
  BY <1>5, <1>6, Zenon

LEMMA GetKeeps ==
  ASSUME LineInv, WorkerTypes, HeldInv, apc = "get", apc' = "cut", audioQ # <<>>,
         audioQ' = Tail(audioQ), residual' = residual \o Frames(Head(audioQ).seq), pre' \in Nat,
         UNCHANGED <<reads, hand, sampleQ, piped, pipePc>>,
         UNCHANGED <<player, pending, prebuffered, played, cut, flush>>
  PROVE  WorkerTypes' /\ HeldInv'
<1>1. PICK m : m = Head(audioQ).seq
  OBVIOUS
<1>2. m \in Nat \ {0} /\ Clear(m)'
  BY <1>1, DropLine
<1>3. PICK n \in Nat : Room(n)
  BY DEF HeldInv
<1>4. n < m
  <2>1. Head(audioQ) = audioQ[1] /\ 1 \in 1 .. Len(audioQ)
    <3>1. audioQ \in Seq(AudioBatch)
      BY AudioNumbers DEF LineInv
    <3> QED
      BY <3>1
  <2> QED
    BY <1>1, <1>3, <2>1 DEF Room, Clear
<1>5. PICK t, u, w, s, f : /\ t = n * BatchFrames /\ u = (m - 1) * BatchFrames
                           /\ w = InWorker /\ s = InWorker' /\ f = Frames(m)
  OBVIOUS
<1>6. t \in Nat /\ u \in Nat /\ t <= u
  <2>1. m - 1 \in Nat /\ n <= m - 1
    BY <1>2, <1>4
  <2> QED
    BY <1>5, <2>1, Below, Lengths
<1>7. Ordered(w) /\ After(played, w) /\ AtMost(w, t) /\ cut <= t /\ played <= t
  BY <1>3, <1>5 DEF HeldInv, Room
<1>8. w \in Seq(Nat) /\ played \in Nat /\ cut \in Nat
  BY <1>5, HeldSeq DEF WorkerTypes
<1>9. AtMost(w, u) /\ cut <= u /\ played <= u
  <2>1. \A i \in 1 .. Len(w) : w[i] \in Nat
    BY <1>8
  <2> QED
    BY <1>6, <1>7, <1>8, <2>1 DEF AtMost
<1>10. /\ f \in Seq(Nat) /\ Ordered(w \o f) /\ AtMost(w \o f, m * BatchFrames)
       /\ \A c \in Nat : After(c, w) /\ c <= u => After(c, w \o f)
  BY <1>2, <1>5, <1>7, <1>8, <1>9, BatchFollows
<1>11. player \in Seq(Block) /\ pending \in Seq(Block) /\ residual \in Seq(Nat)
  BY DEF WorkerTypes
<1>12. residual' = residual \o f
  BY <1>1, <1>5
<1>13. s = w \o f
  <2>1. s = Holds(player, pending, residual \o f)
    BY <1>5, <1>12, HeldWillBe, Zenon
  <2> QED
    BY <1>5, <1>10, <1>11, <2>1, HoldsMore, HeldIs, Zenon
<1>14. residual' \in Seq(Nat)
  BY <1>10, <1>11, <1>12, CatSeq, Zenon
<1>15. WorkerTypes'
  BY <1>14 DEF WorkerTypes
<1>16. After(played, s)
  BY <1>7, <1>8, <1>9, <1>10, <1>13, Zenon
<1>17. After(cut, w) => After(cut, s)
  BY <1>8, <1>9, <1>10, <1>13, Zenon
<1>18. Flushed'
  BY <1>5, <1>17 DEF Flushed, HeldInv
<1>19. cut <= m * BatchFrames /\ played <= m * BatchFrames
  <2>1. u <= m * BatchFrames /\ m * BatchFrames \in Nat
    BY <1>2, <1>5, Below, Lengths
  <2> QED
    BY <1>6, <1>8, <1>9, <2>1
<1>20. Room(m)'
  BY <1>2, <1>5, <1>10, <1>13, <1>19 DEF Room
<1> QED
  BY <1>2, <1>5, <1>10, <1>13, <1>15, <1>16, <1>18, <1>20 DEF HeldInv

\* Steps that leave the audio thread and what it holds alone.
LEMMA AloneKeeps ==
  ASSUME WorkerTypes, HeldInv, \A n \in Nat : Clear(n) => Clear(n)',
         UNCHANGED <<player, pending, residual, prebuffered, pre, played, cut, flush, apc>>
  PROVE  WorkerTypes' /\ HeldInv'
<1>1. WorkerTypes'
  BY DEF WorkerTypes
<1>2. InWorker' = InWorker /\ EndsIn(InWorker, InWorker')
  BY QuietHolds
<1>3. Loses
  BY <1>1, <1>2 DEF Loses
<1>4. Flushed'
  BY <1>2 DEF HeldInv, Flushed
<1> QED
  BY <1>1, <1>3, <1>4, LosingKeeps

LEMMA ClearNext ==
  (\A n \in Nat : Later(n) => Later(n)') /\ audioQ' = audioQ
    => \A n \in Nat : Clear(n) => Clear(n)'
BY DEF Clear

LEMMA AudioLineNext ==
  LineInv /\ (\A n \in Nat : Later(n) => Later(n)') /\ audioQ' = audioQ => AudioLine'
<1> SUFFICES ASSUME LineInv, \A n \in Nat : Later(n) => Later(n)', audioQ' = audioQ
             PROVE  AudioLine'
  OBVIOUS
<1>1. \A i \in 1 .. Len(audioQ) : audioQ[i].seq \in Nat
  BY AudioNumbers DEF LineInv
<1> QED
  BY <1>1 DEF LineInv, AudioLine

LEMMA LineStepIo ==
  ASSUME LineInv, ModeInv, IoStep \/ PipeStep
  PROVE  SampleLine' /\ PipedLine' /\ AudioLine' /\ \A n \in Nat : Clear(n) => Clear(n)'
<1>0. SamplesInv /\ SampleLine /\ PipedLine /\ AudioLine
  BY DEF LineInv
<1>1. CASE IoStep
  <2>1. /\ SampleLine' /\ (\A n \in Nat : Behind(n) => Behind(n)')
        /\ UNCHANGED <<piped, pipePc, audioQ>>
    BY <1>0, <1>1, IoLine
  <2>2. \A n \in Nat : Later(n) => Later(n)'
    BY <2>1 DEF Later
  <2>3. PipedLine'
    BY <1>0, <2>1 DEF PipedLine
  <2> QED
    BY <2>1, <2>2, <2>3, ClearNext, AudioLineNext
<1>2. CASE ApplyConfig
  <2>1. /\ UNCHANGED <<reads, hand, sampleQ, piped, audioQ>> /\ pipePc = "control"
        /\ pipePc' = "take"
    BY <1>2 DEF ApplyConfig, io
  <2>2. \A n \in Nat : Later(n) => Later(n)'
    BY <2>1 DEF Later, Behind
  <2>3. SampleLine' /\ PipedLine'
    BY <1>0, <2>1 DEF SampleLine, PipedLine, Behind
  <2> QED
    BY <2>1, <2>2, <2>3, ClearNext, AudioLineNext
<1>3. CASE TakeBatch
  BY <1>0, <1>3, TakeLine, ClearNext, AudioLineNext
<1>4. CASE Execute
  BY <1>4, ExecuteLine DEF ModeInv, ModeTypes
<1>5. CASE SetGain \/ PutGain
  <2>1. /\ UNCHANGED <<reads, hand, sampleQ, piped, audioQ>>
        /\ {pipePc, pipePc'} \subseteq {"execute", "agc"}
    BY <1>5 DEF SetGain, PutGain, io
  <2>2. \A n \in Nat : Later(n) => Later(n)'
    BY <2>1 DEF Later, Behind
  <2>3. SampleLine' /\ PipedLine'
    BY <1>0, <2>1 DEF SampleLine, PipedLine, Behind
  <2> QED
    BY <2>1, <2>2, <2>3, ClearNext, AudioLineNext
<1> QED
  BY <1>1, <1>2, <1>3, <1>4, <1>5 DEF PipeStep

LEMMA HeldStep ==
  ASSUME ModeInv, StoppedInv, LineInv, WorkerTypes, HeldInv, [Next]_vars
  PROVE  SampleLine' /\ PipedLine' /\ AudioLine' /\ WorkerTypes' /\ HeldInv'
<1>1. CASE IoStep \/ PipeStep
  <2>1. UNCHANGED <<player, pending, residual, prebuffered, pre, played, cut, flush, apc>>
    BY <1>1 DEF IoStep, Read, PutBatch, PutTimesOut, Evict, Replace, PipeStep, ApplyConfig,
         TakeBatch, SetGain, PutGain, Execute, audio
  <2> QED
    BY <1>1, <2>1, LineStepIo, AloneKeeps
<1>2. ASSUME UNCHANGED <<reads, hand, sampleQ, piped, pipePc>>,
             audioQ' \in {audioQ, <<>>} \/ (audioQ # <<>> /\ audioQ' = Tail(audioQ)),
             (\A n \in Nat : Clear(n) => Clear(n)') => WorkerTypes' /\ HeldInv'
      PROVE  SampleLine' /\ PipedLine' /\ AudioLine' /\ WorkerTypes' /\ HeldInv'
  <2>1. SampleLine' /\ PipedLine' /\ AudioLine' /\ \A n \in Nat : Clear(n) => Clear(n)'
    BY <1>2, DropLine
  <2> QED
    BY <1>2, <2>1
<1>3. CASE \/ Setup \/ Teardown \/ FlushPlayer \/ FlushFields \/ FlushDone \/ NothingToFlush
           \/ Follow \/ SameSpeaker \/ BatchDone
  <2>1. UNCHANGED <<reads, hand, sampleQ, piped, pipePc>> /\ audioQ' = audioQ
    BY <1>3 DEF Setup, Teardown, FlushPlayer, FlushFields, FlushDone, NothingToFlush,
         Follow, SameSpeaker, BatchDone, io, pipe
  <2>2. Loses /\ cut' = cut
    BY <1>3, WorkerLoses
  <2>3. After(cut, InWorker) => After(cut, InWorker')
    BY <2>2, HeldSeq, HeldSeqNext, EndKeeps DEF Loses
  <2>4. Flushed'
    <3>1. CASE FlushDone
      <4>1. player = <<>> /\ pending = <<>> /\ residual = <<>>
        BY <3>1 DEF FlushDone, WorkerTypes
      <4>2. UNCHANGED <<player, pending, residual>>
        BY <3>1 DEF FlushDone, audio
      <4>3. InWorker' = <<>>
        BY <4>1, <4>2, AllGone
      <4>4. \A w : w = <<>> => After(cut', w)
        BY DEF After
      <4> QED
        BY <4>3, <4>4 DEF Flushed
    <3>2. CASE ~FlushDone
      <4>1. flush' = flush
        BY <1>3, <3>2 DEF Setup, Teardown, FlushPlayer, FlushFields, NothingToFlush,
             Follow, SameSpeaker, BatchDone
      <4>2. apc' \notin {"dead", "flushing", "flushed"}
              => apc \notin {"dead", "flushing", "flushed"}
        BY <1>3, <3>2 DEF Setup, Teardown, FlushPlayer, FlushFields, NothingToFlush,
             Follow, SameSpeaker, BatchDone
      <4> QED
        BY <2>2, <2>3, <4>1, <4>2 DEF HeldInv, Flushed
    <3> QED
      BY <3>1, <3>2
  <2>5. (\A n \in Nat : Clear(n) => Clear(n)') => HeldInv'
    BY <2>2, <2>4, LosingKeeps
  <2> QED
    BY <1>2, <2>1, <2>2, <2>5 DEF Loses
<1>4. CASE PushBlock
  <2>1. UNCHANGED <<reads, hand, sampleQ, piped, pipePc>> /\ audioQ' = audioQ
    BY <1>4 DEF PushBlock, io, pipe
  <2>2. Loses /\ cut' = cut
    BY <1>4, PushLoses
  <2>3. After(cut, InWorker) => After(cut, InWorker')
    BY <2>2, HeldSeq, HeldSeqNext, EndKeeps DEF Loses
  <2>4. Flushed'
    BY <1>4, <2>2, <2>3 DEF PushBlock, HeldInv, Flushed
  <2>5. (\A n \in Nat : Clear(n) => Clear(n)') => HeldInv'
    BY <2>2, <2>4, LosingKeeps
  <2> QED
    BY <1>2, <2>1, <2>2, <2>5 DEF Loses
<1>5. CASE GetAudio
  <2>1. /\ UNCHANGED <<reads, hand, sampleQ, piped, pipePc>>
        /\ UNCHANGED <<player, pending, prebuffered, played, cut, flush>> /\ apc = "get"
    BY <1>5 DEF GetAudio, io, pipe
  <2>2. CASE audioQ = <<>>
    <3>1. apc' = "loop" /\ UNCHANGED <<audioQ, pre, residual>>
      BY <1>5, <2>2 DEF GetAudio
    <3>2. WorkerTypes'
      BY <2>1, <3>1 DEF WorkerTypes
    <3>3. InWorker' = InWorker /\ EndsIn(InWorker, InWorker')
      BY <2>1, <3>1, QuietHolds
    <3>4. Loses
      BY <2>1, <3>2, <3>3 DEF Loses
    <3>5. Flushed'
      BY <2>1, <3>3 DEF HeldInv, Flushed
    <3>6. (\A n \in Nat : Clear(n) => Clear(n)') => HeldInv'
      BY <2>1, <3>4, <3>5, LosingKeeps
    <3> QED
      BY <1>2, <2>1, <3>1, <3>2, <3>6
  <2>3. CASE audioQ # <<>>
    <3>1. /\ apc' = "cut" /\ audioQ' = Tail(audioQ)
          /\ pre' = (IF Head(audioQ).want > pre THEN Head(audioQ).want ELSE pre)
          /\ residual' = residual \o Frames(Head(audioQ).seq)
      BY <1>5, <2>3 DEF GetAudio
    <3>2. pre' \in Nat
      <4>1. audioQ \in Seq(AudioBatch)
        BY AudioNumbers DEF LineInv
      <4>2. Head(audioQ) \in AudioBatch
        BY <2>3, <4>1
      <4>3. Head(audioQ).want \in Nat
        BY <4>2 DEF AudioBatch
      <4> QED
        BY <3>1, <4>3 DEF WorkerTypes
    <3>3. WorkerTypes' /\ HeldInv'
      BY <2>1, <2>3, <3>1, <3>2, GetKeeps
    <3> QED
      BY <1>2, <2>1, <2>3, <3>1, <3>3
  <2> QED
    BY <2>2, <2>3
<1>6. CASE Play
  <2>1. UNCHANGED <<reads, hand, sampleQ, piped, pipePc>> /\ audioQ' = audioQ
    BY <1>6 DEF Play, io, pipe
  <2> QED
    BY <1>2, <1>6, <2>1, PlayKeeps
<1>7. CASE Drain \/ SwapMode \/ PutMode \/ RemovePipeline \/ PutRemoved \/ PutBandwidth
             \/ AddPipeline \/ PutAdded \/ (StartOutput /\ ~HasAudio(target)) \/ UserStep
             \/ UNCHANGED vars
  <2>1. /\ UNCHANGED <<reads, hand, sampleQ, piped, pipePc>> /\ audioQ' \in {audioQ, <<>>}
        /\ UNCHANGED <<player, pending, residual, prebuffered, pre, played, cut, flush, apc>>
    BY <1>7 DEF Drain, SwapMode, PutMode, RemovePipeline, PutRemoved, PutBandwidth, AddPipeline,
         PutAdded, StartOutput, UserStep, SetAudioOutputDevice, UpdateConfig, SetAudioDemod,
         KeepWorker, vars, io, pipe, audio
  <2> QED
    BY <1>2, <2>1, AloneKeeps
<1>8. CASE RequestFlush
  <2>1. /\ UNCHANGED <<reads, hand, sampleQ, piped, pipePc>> /\ audioQ' = audioQ
        /\ UNCHANGED <<player, pending, residual, prebuffered, pre, played, apc>>
        /\ flush' = TRUE /\ cut' = IF InWorker = <<>> THEN cut ELSE InWorker[Len(InWorker)]
    BY <1>8 DEF RequestFlush, io, pipe, audio
  <2>2. cut' = cut \/ (InWorker # <<>> /\ cut' = LastOf(InWorker))
    BY <2>1 DEF LastOf
  <2>3. cut' \in Nat
    <3>1. \A w \in Seq(Nat) : w # <<>> => w[Len(w)] \in Nat
      OBVIOUS
    <3> QED
      BY <2>2, <3>1, HeldSeq DEF LastOf, WorkerTypes
  <2>4. WorkerTypes'
    BY <2>1, <2>3 DEF WorkerTypes
  <2>5. Loses
    BY <2>1, <2>4, QuietHolds DEF Loses
  <2>6. Flushed'
    BY <2>1 DEF Flushed
  <2>7. (\A n \in Nat : Clear(n) => Clear(n)') => HeldInv'
    BY <2>2, <2>5, <2>6, LosingKeeps
  <2> QED
    BY <1>2, <2>1, <2>4, <2>7
<1>9. CASE Restart \/ (StartOutput /\ HasAudio(target))
  <2>1. /\ UNCHANGED <<reads, hand, sampleQ, piped, pipePc>> /\ audioQ' = <<>>
        /\ UNCHANGED <<player, played>> /\ NewWorker /\ apc = "dead"
    BY <1>9 DEF Restart, StartOutput, NewWorker, StoppedInv, io, pipe
  <2>2. Loses /\ InWorker' = <<>> /\ cut' = 0
    BY <2>1, NewLoses
  <2>3. \A w : w = <<>> => After(cut', w)
    BY DEF After
  <2>4. Flushed'
    BY <2>2, <2>3 DEF Flushed
  <2>5. (\A n \in Nat : Clear(n) => Clear(n)') => HeldInv'
    BY <2>2, <2>4, LosingKeeps
  <2> QED
    BY <1>2, <2>1, <2>2, <2>5 DEF Loses
<1> QED
  BY <1>1, <1>3, <1>4, <1>5, <1>6, <1>7, <1>8, <1>9 DEF Next, AudioStep, EngineStep

LEMMA PathStep == PathInv /\ [Next]_vars => PathInv'
<1>1. ASSUME PathInv, [Next]_vars
      PROVE  /\ ModeInv' /\ StoppedInv' /\ SamplesInv' /\ WorkerTypes' /\ HeldInv'
             /\ SampleLine' /\ PipedLine' /\ AudioLine'
  BY <1>1, ModeStep, StoppedStep, SamplesStep, HeldStep DEF PathInv, LineInv
<1> QED
  BY <1>1 DEF PathInv, LineInv

\* When a requested flush is over, nothing is left of what the audio thread had when it was
\* requested (audio_worker.py:99, 377), however the requests fall on a flush that runs, and for
\* any number of batches and any sizes of batches and blocks.
THEOREM FlushLeavesNothing == Spec => []FlushIsComplete
<1>1. PathInv => FlushIsComplete
  <2> SUFFICES ASSUME PathInv, ~flush, apc \notin {"dead", "flushing", "flushed"},
                      NEW i \in 1 .. Len(InWorker)
               PROVE  InWorker[i] > cut
    BY DEF FlushIsComplete
  <2>1. After(cut, InWorker)
    BY DEF PathInv, HeldInv, Flushed
  <2>2. \A w : After(cut, w) => \A j \in 1 .. Len(w) : cut < w[j]
    BY DEF After
  <2>3. cut < InWorker[i]
    BY <2>1, <2>2, Zenon
  <2>4. PICK w : w = InWorker
    OBVIOUS
  <2>5. w[i] \in Nat /\ cut \in Nat
    BY <2>4, HeldSeq DEF PathInv, WorkerTypes
  <2> QED
    BY <2>3, <2>4, <2>5
<1> QED
  BY <1>1, PathInit, PathStep, PTL DEF Spec

------------------------------------------------------------------------------
(* From the device to the loudspeaker                                        *)

Before(a, b) == \A i \in 1 .. Len(a), j \in 1 .. Len(b) : a[i] < b[j]

\* What is in one sequence after another is in one of them.
LEMMA CatParts ==
  ASSUME NEW a \in Seq(Nat), NEW b \in Seq(Nat), NEW v, v = a \o b
  PROVE  /\ v \in Seq(Nat)
         /\ \A k \in 1 .. Len(v) : \/ k \in 1 .. Len(a) /\ v[k] = a[k]
                                   \/ /\ k - Len(a) \in 1 .. Len(b) /\ k > Len(a)
                                      /\ v[k] = b[k - Len(a)]
<1>1. v \in Seq(Nat) /\ Joins(v, a, b)
  BY CatAt, Zenon
<1>2. PICK n, m : n = Len(a) /\ m = Len(b)
  OBVIOUS
<1>3. n \in Nat /\ m \in Nat /\ Len(v) = n + m
  BY <1>1, <1>2 DEF Joins
<1>4. ASSUME NEW k \in 1 .. n + m, k \notin 1 .. n
      PROVE  k - n \in 1 .. m /\ k > n /\ v[k] = b[k - n]
  <2>1. PICK j : j = k - n
    OBVIOUS
  <2>2. j \in 1 .. m /\ n + j = k /\ k > n
    BY <1>3, <1>4, <2>1
  <2>3. v[n + j] = b[j]
    BY <1>1, <1>2, <2>2 DEF Joins
  <2> QED
    BY <2>1, <2>2, <2>3
<1> QED
  BY <1>1, <1>2, <1>3, <1>4 DEF Joins

LEMMA CatAfter ==
  \A a, b \in Seq(Nat) : \A x : After(x, a) /\ After(x, b) => After(x, a \o b)
<1> TAKE a, b \in Seq(Nat)
<1>1. PICK v : v = a \o b
  OBVIOUS
<1>2. \A x : After(x, a) /\ After(x, b) => After(x, v)
  BY <1>1, CatParts DEF After
<1> QED
  BY <1>1, <1>2, Zenon

LEMMA CatBefore ==
  \A a, b, c \in Seq(Nat) :
    Before(a, c) /\ Before(b, c) => Before(a \o b, c)
<1> TAKE a, b, c \in Seq(Nat)
<1>1. PICK v : v = a \o b
  OBVIOUS
<1>2. \A k \in 1 .. Len(v) : \/ k \in 1 .. Len(a) /\ v[k] = a[k]
                             \/ k - Len(a) \in 1 .. Len(b) /\ v[k] = b[k - Len(a)]
  BY <1>1, CatParts
<1>3. ASSUME Before(a, c), Before(b, c) PROVE Before(v, c)
  BY <1>2, <1>3 DEF Before
<1> QED
  BY <1>1, <1>3, Zenon

LEMMA CatOrdered ==
  \A a, b \in Seq(Nat) : Ordered(a) /\ Ordered(b) /\ Before(a, b) => Ordered(a \o b)
<1> SUFFICES ASSUME NEW a \in Seq(Nat), NEW b \in Seq(Nat), NEW v, v = a \o b,
                    Ordered(a), Ordered(b), Before(a, b)
             PROVE  Ordered(v)
  BY Zenon
<1>1. PICK n, m : n = Len(a) /\ m = Len(b)
  OBVIOUS
<1>2. n \in Nat /\ m \in Nat /\ v \in Seq(Nat) /\ Len(v) \in Nat
  BY <1>1, CatParts
<1>3. \A k \in 1 .. Len(v) : \/ k \in 1 .. n /\ v[k] = a[k]
                             \/ k - n \in 1 .. m /\ k > n /\ v[k] = b[k - n]
  BY <1>1, CatParts
<1>4. ASSUME NEW i \in 1 .. Len(v), NEW j \in 1 .. Len(v), i < j
      PROVE  v[i] < v[j]
  <2>1. CASE j \in 1 .. n /\ v[j] = a[j]
    <3>1. i \in 1 .. n /\ v[i] = a[i]
      BY <1>2, <1>3, <1>4, <2>1
    <3> QED
      BY <1>1, <1>4, <2>1, <3>1 DEF Ordered
  <2>2. CASE j - n \in 1 .. m /\ v[j] = b[j - n] /\ i \in 1 .. n /\ v[i] = a[i]
    BY <1>1, <2>2 DEF Before
  <2>3. CASE j - n \in 1 .. m /\ v[j] = b[j - n] /\ i - n \in 1 .. m /\ v[i] = b[i - n]
    <3>1. PICK q, r : q = i - n /\ r = j - n
      OBVIOUS
    <3>2. q < r /\ q \in 1 .. m /\ r \in 1 .. m /\ v[i] = b[q] /\ v[j] = b[r]
      BY <1>2, <1>4, <2>3, <3>1
    <3> QED
      BY <1>1, <3>2 DEF Ordered
  <2> QED
    BY <1>3, <1>4, <2>1, <2>2, <2>3
<1> QED
  BY <1>4 DEF Ordered

LEMMA OrderedIncreases == \A w \in Seq(Nat) : Ordered(w) => Increasing(w)
<1> SUFFICES ASSUME NEW w \in Seq(Nat), Ordered(w), NEW i \in 1 .. Len(w) - 1
             PROVE  w[i] < w[i + 1]
  BY DEF Increasing
<1>1. i \in 1 .. Len(w) /\ i + 1 \in 1 .. Len(w) /\ i < i + 1
  OBVIOUS
<1> QED
  BY <1>1 DEF Ordered

LEMMA Single ==
  ASSUME NEW x \in Nat
  PROVE  /\ <<x>> \in Seq(Nat) /\ Ordered(<<x>>) /\ \A y : y < x => After(y, <<x>>)
         /\ \A w : After(x, w) => Before(<<x>>, w)
         /\ \A w : (\A i \in 1 .. Len(w) : w[i] < x) => Before(w, <<x>>)
<1>1. PICK o : o = <<x>>
  OBVIOUS
<1>2. o \in Seq(Nat) /\ Len(o) = 1 /\ o[1] = x
  BY <1>1
<1>3. Ordered(o)
  BY <1>2 DEF Ordered
<1>4. \A y : y < x => After(y, o)
  BY <1>2 DEF After
<1>5. \A w : After(x, w) => Before(o, w)
  BY <1>2 DEF After, Before
<1>6. \A w : (\A i \in 1 .. Len(w) : w[i] < x) => Before(w, o)
  BY <1>2 DEF Before
<1> QED
  BY <1>1, <1>2, <1>3, <1>4, <1>5, <1>6, Zenon

LEMMA NoneOrdered ==
  ASSUME NEW e, e = <<>>
  PROVE  /\ e \in Seq(Nat) /\ Ordered(e) /\ \A y : After(y, e)
         /\ \A w : Before(e, w) /\ Before(w, e)
<1>1. e \in Seq(Nat) /\ Len(e) = 0
  OBVIOUS
<1> QED
  BY <1>1 DEF Ordered, After, Before

\* The batches that are not yet audio.
LEMMA UpstreamLine ==
  ASSUME LineInv
  PROVE  /\ Upstream \in Seq(Nat) /\ Ordered(Upstream)
         /\ \A n \in Nat : Later(n) => After(n, Upstream)
<1>1. PICK p, h : /\ p = IF piped = None THEN <<>> ELSE <<piped>>
                  /\ h = IF hand = None THEN <<>> ELSE <<hand>>
  OBVIOUS
<1>2. /\ reads \in Nat /\ hand \in Nat /\ sampleQ \in Seq(Nat) /\ piped \in Nat
      /\ Len(sampleQ) \in Nat
  BY SampleNumbers DEF LineInv, PipedLine
<1>3. p \in Seq(Nat) /\ Ordered(p) /\ h \in Seq(Nat) /\ Ordered(h)
  BY <1>1, <1>2, Single, NoneOrdered
<1>4. Ordered(sampleQ)
  BY DEF LineInv, SampleLine, Ordered
<1>5. Before(p, sampleQ) /\ Before(p, h)
  <2>1. CASE piped = None
    BY <1>1, <2>1, NoneOrdered
  <2>2. CASE piped # None
    <3>1. Behind(piped)
      BY <2>2 DEF LineInv, PipedLine
    <3>2. After(piped, sampleQ)
      BY <3>1 DEF Behind, After
    <3>3. After(piped, h)
      <4>1. CASE hand = None
        BY <1>1, <4>1, NoneOrdered
      <4>2. CASE hand # None
        BY <1>1, <1>2, <3>1, <4>2, Single DEF Behind
      <4> QED
        BY <4>1, <4>2
    <3> QED
      BY <1>1, <1>2, <2>2, <3>2, <3>3, Single
  <2> QED
    BY <2>1, <2>2
<1>6. Before(sampleQ, h)
  <2>1. CASE hand = None
    BY <1>1, <2>1, NoneOrdered
  <2>2. CASE hand # None
    <3>1. \A i \in 1 .. Len(sampleQ) : sampleQ[i] < hand
      BY <2>2 DEF LineInv, SampleLine
    <3> QED
      BY <1>1, <1>2, <2>2, <3>1, Single
  <2> QED
    BY <2>1, <2>2
<1>7. PICK ps : ps = p \o sampleQ
  OBVIOUS
<1>8. ps \in Seq(Nat) /\ Ordered(ps) /\ Before(ps, h)
  BY <1>2, <1>3, <1>4, <1>5, <1>6, <1>7, CatSeq, CatOrdered, CatBefore, Zenon
<1>9. Upstream = ps \o h
  BY <1>1, <1>7, Zenon DEF Upstream
<1>10. ASSUME NEW n \in Nat, Later(n)
       PROVE  After(n, p) /\ After(n, sampleQ) /\ After(n, h)
  <2>1. After(n, p)
    BY <1>1, <1>2, <1>10, Single, NoneOrdered DEF Later
  <2>2. After(n, sampleQ)
    BY <1>10 DEF Later, Behind, After
  <2>3. After(n, h)
    BY <1>1, <1>2, <1>10, Single, NoneOrdered DEF Later, Behind
  <2> QED
    BY <2>1, <2>2, <2>3
<1>11. ASSUME NEW n \in Nat, Later(n)
       PROVE  After(n, ps \o h)
  BY <1>2, <1>3, <1>7, <1>8, <1>10, <1>11, CatAfter, Zenon
<1>12. ps \o h \in Seq(Nat) /\ Ordered(ps \o h)
  BY <1>3, <1>8, CatSeq, CatOrdered, Zenon
<1> QED
  BY <1>9, <1>11, <1>12, Zenon

\* The frames of the batches in the audio queue.
LEMMA AudioFramesLine ==
  ASSUME LineInv
  PROVE  /\ AudioFrames \in Seq(Nat) /\ Ordered(AudioFrames)
         /\ \A n \in Nat : Clear(n) => After(n * BatchFrames, AudioFrames)
<1>1. PICK f, l : f = AudioFrames /\ l = Len(audioQ)
  OBVIOUS
<1>2. /\ l \in Nat /\ l * BatchFrames \in Nat
      /\ \A q \in 1 .. l : audioQ[q].seq \in Nat \ {0}
  BY <1>1, AudioNumbers, Lengths DEF LineInv
<1>3. ASSUME NEW i \in 1 .. l * BatchFrames
      PROVE  \E q \in 1 .. l, r \in 1 .. BatchFrames :
               /\ i = (q - 1) * BatchFrames + r
               /\ f[i] = (audioQ[q].seq - 1) * BatchFrames + r
  <2>1. PICK q \in 1 .. l, r \in 1 .. BatchFrames : i = (q - 1) * BatchFrames + r
    BY <1>2, <1>3, Lengths, PlaceOfFrame
  <2>2. (i - 1) \div BatchFrames + 1 = q /\ ((i - 1) % BatchFrames) + 1 = r
    BY <1>2, <2>1, Lengths, FrameOfPlace
  <2>3. PICK d, e : d = (i - 1) \div BatchFrames /\ e = (i - 1) % BatchFrames
    OBVIOUS
  <2>4. f[i] = (audioQ[d + 1].seq - 1) * BatchFrames + e + 1
    BY <1>1, <1>3, <2>3 DEF AudioFrames
  <2>5. PICK k : k = (audioQ[q].seq - 1) * BatchFrames
    OBVIOUS
  <2>6. k \in Int
    BY <1>2, <2>1, <2>5, Lengths
  <2>7. e \in Int /\ e + 1 = r
    BY <2>1, <2>2, <2>3, Lengths
  <2>8. f[i] = k + r
    BY <2>2, <2>3, <2>4, <2>5, <2>6, <2>7
  <2> QED
    BY <2>1, <2>5, <2>8
<1>4. ASSUME NEW q \in 1 .. l, NEW r \in 1 .. BatchFrames, NEW k,
             k = (audioQ[q].seq - 1) * BatchFrames
      PROVE  k \in Nat /\ k + r \in Nat
  BY <1>2, <1>4, Lengths
<1>5. \A i \in 1 .. l * BatchFrames : f[i] \in Nat
  BY <1>3, <1>4
<1>6. f \in Seq(Nat) /\ Len(f) = l * BatchFrames
  <2>1. f \in [1 .. l * BatchFrames -> Nat]
    BY <1>1, <1>5 DEF AudioFrames
  <2> QED
    BY <1>2, <2>1
<1>7. ASSUME NEW i \in 1 .. Len(f), NEW j \in 1 .. Len(f), i < j
      PROVE  f[i] < f[j]
  <2>1. PICK q \in 1 .. l, r \in 1 .. BatchFrames :
          i = (q - 1) * BatchFrames + r /\ f[i] = (audioQ[q].seq - 1) * BatchFrames + r
    BY <1>3, <1>6
  <2>2. PICK v \in 1 .. l, s \in 1 .. BatchFrames :
          j = (v - 1) * BatchFrames + s /\ f[j] = (audioQ[v].seq - 1) * BatchFrames + s
    BY <1>3, <1>6
  <2>3. CASE q = v
    <3>1. PICK k, m : k = (q - 1) * BatchFrames /\ m = (audioQ[q].seq - 1) * BatchFrames
      OBVIOUS
    <3>2. k \in Nat /\ m \in Nat
      BY <1>4, <2>1, <3>1, Lengths
    <3> QED
      BY <1>7, <2>1, <2>2, <2>3, <3>1, <3>2, SMTT(30)
  <2>4. CASE q < v
    <3>1. PICK x, y : x = audioQ[q].seq /\ y = audioQ[v].seq
      OBVIOUS
    <3>2. x \in Nat \ {0} /\ y \in Nat \ {0} /\ x < y
      BY <1>1, <1>2, <2>4, <3>1 DEF LineInv, AudioLine
    <3>3. PICK k, m : k = (x - 1) * BatchFrames /\ m = (y - 1) * BatchFrames
      OBVIOUS
    <3>4. k \in Nat /\ m \in Nat /\ k + BatchFrames <= m
      <4>1. x * BatchFrames <= (y - 1) * BatchFrames /\ x * BatchFrames = k + BatchFrames
        BY <3>2, <3>3, Below, Lengths
      <4> QED
        BY <3>2, <3>3, <4>1, Lengths
    <3>5. f[i] = k + r /\ f[j] = m + s
      BY <2>1, <2>2, <3>1, <3>3
    <3> QED
      BY <3>4, <3>5, Lengths
  <2>5. CASE q > v
    <3>1. PICK k, m : k = (q - 1) * BatchFrames /\ m = (v - 1) * BatchFrames
      OBVIOUS
    <3>2. k \in Nat /\ m \in Nat /\ m + BatchFrames <= k
      <4>1. v \in Nat /\ q - 1 \in Nat /\ v <= q - 1
        BY <2>5, <1>2
      <4>2. v * BatchFrames <= (q - 1) * BatchFrames /\ v * BatchFrames = m + BatchFrames
        BY <3>1, <4>1, Below, Lengths
      <4> QED
        BY <3>1, <4>1, <4>2, Lengths
    <3> QED
      BY <1>7, <2>1, <2>2, <3>1, <3>2, Lengths
  <2> QED
    BY <1>2, <2>3, <2>4, <2>5
<1>8. ASSUME NEW n \in Nat, Clear(n), NEW i \in 1 .. Len(f)
      PROVE  n * BatchFrames < f[i]
  <2>1. PICK q \in 1 .. l, r \in 1 .. BatchFrames :
          f[i] = (audioQ[q].seq - 1) * BatchFrames + r
    BY <1>3, <1>6
  <2>2. PICK x, k, m : /\ x = audioQ[q].seq /\ k = (x - 1) * BatchFrames
                       /\ m = n * BatchFrames
    OBVIOUS
  <2>3. x \in Nat \ {0} /\ n < x
    BY <1>1, <1>2, <1>8, <2>2 DEF Clear
  <2>4. k \in Nat /\ m \in Nat /\ m <= k
    <3>1. x - 1 \in Nat /\ n <= x - 1
      BY <2>3
    <3> QED
      BY <2>2, <3>1, Below, Lengths
  <2> QED
    BY <2>1, <2>2, <2>4
<1> QED
  BY <1>1, <1>6, <1>7, <1>8 DEF Ordered, After

\* The way from the device to the loudspeaker is one FIFO that loses frames but never lets one
\* overtake another nor plays one twice (io_worker.py:262-266, audio_worker.py:172-225), for any
\* number of batches and of changes of the mode.
THEOREM NoFrameOvertakes == Spec => []PathInOrder
<1>1. ASSUME PathInv PROVE PathInOrder
  <2>1. LineInv /\ WorkerTypes /\ HeldInv
    BY <1>1 DEF PathInv
  <2>2. PICK n \in Nat : Room(n)
    BY <2>1 DEF HeldInv
  <2>3. PICK w, a, u, t : w = InWorker /\ a = AudioFrames /\ u = Upstream /\ t = n * BatchFrames
    OBVIOUS
  <2>4. /\ w \in Seq(Nat) /\ Ordered(w) /\ After(played, w) /\ AtMost(w, t) /\ played <= t
        /\ played \in Nat /\ t \in Nat /\ Clear(n) /\ Len(w) \in Nat
    BY <2>1, <2>2, <2>3, HeldSeq, Lengths DEF HeldInv, Room, WorkerTypes
  <2>5. a \in Seq(Nat) /\ Ordered(a) /\ After(t, a)
    BY <2>1, <2>3, <2>4, AudioFramesLine
  <2>6. /\ u \in Seq(Nat) /\ Ordered(u) /\ \A m \in Nat : Later(m) => After(m, u)
    BY <2>1, <2>3, UpstreamLine
  <2>7. After(played, a) /\ Before(w, a)
    <3>1. \A i \in 1 .. Len(a) : a[i] \in Nat /\ t < a[i]
      BY <2>5 DEF After
    <3>2. \A i \in 1 .. Len(w) : w[i] \in Nat /\ w[i] <= t
      BY <2>4 DEF AtMost
    <3> QED
      BY <2>4, <3>1, <3>2, SMTT(30) DEF After, Before
  <2>8. PICK o, ow : o = <<played>> /\ ow = o \o w
    OBVIOUS
  <2>9. o \in Seq(Nat) /\ Ordered(o) /\ Before(o, w) /\ Before(o, a)
    BY <2>4, <2>7, <2>8, Single
  <2>10. ow \in Seq(Nat) /\ Ordered(ow) /\ Before(ow, a)
    BY <2>4, <2>5, <2>7, <2>8, <2>9, CatSeq, CatOrdered, CatBefore, Zenon
  <2>11. Increasing(ow \o a) /\ Increasing(u)
    BY <2>5, <2>6, <2>10, CatSeq, CatOrdered, OrderedIncreases, Zenon
  <2>12. Increasing(<<played>> \o InWorker \o AudioFrames)
    BY <2>3, <2>8, <2>11, Zenon
  <2>13. ASSUME NEW i \in 1 .. Len(audioQ), NEW j \in 1 .. Len(Upstream)
         PROVE  audioQ[i].seq < Upstream[j]
    <3>1. PICK x : x = audioQ[i].seq
      OBVIOUS
    <3>2. x \in Nat /\ Later(x)
      BY <2>1, <2>13, <3>1, AudioNumbers DEF LineInv, AudioLine
    <3>3. After(x, u)
      BY <2>6, <3>2, Zenon
    <3> QED
      BY <2>3, <2>13, <3>1, <3>3 DEF After
  <2>14. ASSUME Upstream # <<>>, InWorker # <<>>
         PROVE  InWorker[Len(InWorker)] <= (Upstream[1] - 1) * BatchFrames
    <3>1. Len(w) \in 1 .. Len(w) /\ 1 \in 1 .. Len(u)
      BY <2>3, <2>4, <2>6, <2>14, EmptyHasNoLength
    <3>2. PICK x, y : x = u[1] /\ y = w[Len(w)]
      OBVIOUS
    <3>3. n < x /\ x \in Nat /\ y \in Nat /\ y <= t
      BY <2>4, <2>6, <3>1, <3>2, SMTT(30) DEF After, AtMost, Clear
    <3>4. PICK k : k = (x - 1) * BatchFrames
      OBVIOUS
    <3>5. t <= k /\ k \in Nat
      BY <2>3, <3>3, <3>4, Below, Lengths
    <3>6. y <= k
      BY <2>4, <3>3, <3>5
    <3> QED
      BY <2>3, <3>2, <3>4, <3>6
  <2> QED
    BY <2>3, <2>11, <2>12, <2>13, <2>14 DEF PathInOrder
<1> QED
  BY <1>1, PathInit, PathStep, PTL DEF Spec

------------------------------------------------------------------------------
(* The type invariant                                                        *)

Places == {"idle", "restart", "drain", "request", "swap", "put", "stop", "removed", "bandwidth",
           "add", "added", "start"}
RestInv ==
  /\ reads <= MaxReads /\ Len(audioQ) <= AudioCap
  /\ go \in BOOLEAN /\ registered \in BOOLEAN /\ prebuffered \in BOOLEAN /\ epc \in Places
  /\ Len(residual) < BlockFrames + BatchFrames
  /\ apc # "cut" => Len(residual) < BlockFrames

LEMMA AudioOrNot == \A m : HasAudio(m) \in BOOLEAN
BY DEF HasAudio

LEMMA RestInit == Init => RestInv
<1>1. Len(<<>>) = 0 /\ BlockFrames + BatchFrames > 0
  BY Lengths
<1> SUFFICES ASSUME Init PROVE RestInv
  OBVIOUS
<1>2. registered \in BOOLEAN /\ go \in BOOLEAN
  BY AudioOrNot, Zenon DEF Init
<1>3. /\ reads = 0 /\ audioQ = <<>> /\ prebuffered = FALSE /\ epc = "idle"
      /\ residual = <<>>
  BY DEF Init
<1>4. /\ reads <= MaxReads /\ Len(audioQ) <= AudioCap
      /\ Len(residual) < BlockFrames + BatchFrames /\ Len(residual) < BlockFrames
  BY <1>1, <1>3, Lengths, StreamingAssumption
<1>5. prebuffered \in BOOLEAN /\ epc \in Places
  BY <1>3 DEF Places
<1> QED
  BY <1>2, <1>4, <1>5, Zenon DEF RestInv

LEMMA FramesLength == ASSUME NEW n \in Nat PROVE Frames(n) \in Seq(Nat) \/ n = 0
<1>1. CASE n # 0
  <2>1. \A i \in 1 .. BatchFrames : (n - 1) * BatchFrames + i \in Nat
    <3>1. (n - 1) * BatchFrames \in Nat
      BY <1>1, Lengths
    <3> QED
      BY <3>1, Lengths
  <2>2. Frames(n) \in [1 .. BatchFrames -> Nat]
    BY <2>1 DEF Frames
  <2> QED
    BY <2>2, Lengths
<1> QED
  BY <1>1

LEMMA RestStep == PathInv /\ RestInv /\ [Next]_vars => RestInv'
<1> SUFFICES ASSUME PathInv, RestInv, [Next]_vars
             PROVE  RestInv'
  OBVIOUS
<1>0. /\ reads \in Nat /\ residual \in Seq(Nat) /\ Len(residual) \in Nat
      /\ audioQ \in Seq(AudioBatch) /\ Len(audioQ) \in Nat
      /\ mode \in Modes /\ target \in Modes
  <2>1. residual \in Seq(Nat) /\ reads \in Nat /\ mode \in Modes /\ target \in Modes
    BY SampleNumbers DEF PathInv, LineInv, WorkerTypes, ModeInv, ModeTypes
  <2> QED
    BY <2>1, AudioNumbers DEF PathInv, LineInv
<1> USE DEF RestInv
<1>1. CASE IoStep
  <2>1. /\ UNCHANGED <<audioQ, go, registered, prebuffered, epc, residual, apc>>
        /\ reads' = reads \/ (reads < MaxReads /\ reads' = reads + 1)
    BY <1>1 DEF IoStep, Read, PutBatch, PutTimesOut, Evict, Replace, engine, audio
  <2> QED
    BY <1>0, <2>1, StreamingAssumption
<1>2. CASE ApplyConfig \/ TakeBatch \/ SetGain \/ PutGain
  <2>1. UNCHANGED <<reads, audioQ, go, registered, prebuffered, epc, residual, apc>>
    BY <1>2 DEF ApplyConfig, TakeBatch, SetGain, PutGain, engine, audio, io
  <2> QED
    BY <2>1
<1>3. CASE Execute
  <2>1. UNCHANGED <<reads, go, registered, prebuffered, epc, residual, apc>>
    BY <1>3 DEF Execute, engine, audio, io
  <2>2. Len(audioQ') <= AudioCap
    <3>1. CASE audioQ' = audioQ
      BY <3>1
    <3>2. CASE audioQ' # audioQ
      <4>1. PICK b : Len(audioQ) < AudioCap /\ audioQ' = Append(audioQ, b)
        BY <1>3, <3>2 DEF Execute
      <4>2. Len(audioQ') = Len(audioQ) + 1
        BY <1>0, <4>1
      <4> QED
        BY <1>0, <4>1, <4>2, Lengths
    <3> QED
      BY <3>1, <3>2
  <2> QED
    BY <2>1, <2>2
<1>4. CASE Setup \/ Teardown \/ FlushPlayer \/ FlushDone \/ NothingToFlush \/ Follow \/ SameSpeaker
  <2>1. /\ UNCHANGED <<reads, audioQ, go, registered, prebuffered, epc, residual>>
        /\ apc # "cut"
    BY <1>4 DEF Setup, Teardown, FlushPlayer, FlushDone, NothingToFlush, Follow, SameSpeaker,
         engine, audio, io
  <2> QED
    BY <2>1
<1>5. CASE FlushFields
  <2>1. /\ UNCHANGED <<reads, audioQ, go, registered, epc>>
        /\ prebuffered' = FALSE /\ residual' = <<>>
    BY <1>5 DEF FlushFields, ClearFields, engine, io
  <2>2. Len(residual') = 0
    BY <2>1
  <2>3. Len(residual') < BlockFrames + BatchFrames /\ Len(residual') < BlockFrames
    BY <2>2, Lengths
  <2>4. prebuffered' \in BOOLEAN
    BY <2>1
  <2> QED
    BY <2>1, <2>3, <2>4
<1>6. CASE GetAudio
  <2>1. UNCHANGED <<reads, go, registered, prebuffered, epc>> /\ apc = "get"
    BY <1>6 DEF GetAudio, engine, io
  <2>2. CASE audioQ = <<>>
    <3>1. UNCHANGED <<audioQ, residual>> /\ apc' = "loop"
      BY <1>6, <2>2 DEF GetAudio
    <3> QED
      BY <2>1, <3>1
  <2>3. CASE audioQ # <<>>
    <3>1. /\ audioQ' = Tail(audioQ) /\ apc' = "cut"
          /\ residual' = residual \o Frames(Head(audioQ).seq)
      BY <1>6, <2>3 DEF GetAudio
    <3>2. PICK f : f = Frames(Head(audioQ).seq)
      OBVIOUS
    <3>3. f = [i \in 1 .. BatchFrames |-> f[i]]
      BY <3>2 DEF Frames
    <3>4. f \in Seq(Nat) /\ Len(f) = BatchFrames
      <4>1. 1 \in 1 .. Len(audioQ) /\ Head(audioQ) = audioQ[1]
        BY <1>0, <2>3
      <4>2. PICK n : n = Head(audioQ).seq
        OBVIOUS
      <4>3. n \in Nat \ {0}
        BY <4>1, <4>2, AudioNumbers DEF PathInv, LineInv
      <4>4. f \in Seq(Nat)
        BY <3>2, <4>2, <4>3, FramesLength
      <4> QED
        BY <3>3, <4>4, Lengths
    <3>5. Len(residual') = Len(residual) + BatchFrames
      <4>1. Joins(residual', residual, f)
        BY <1>0, <3>1, <3>2, <3>4, CatAt, Zenon
      <4> QED
        BY <3>4, <4>1 DEF Joins
    <3>6. Len(audioQ') <= AudioCap
      BY <1>0, <2>3, <3>1, Lengths
    <3> QED
      BY <1>0, <2>1, <3>1, <3>5, <3>6, Lengths
  <2> QED
    BY <2>2, <2>3
<1>7. CASE PushBlock
  <2>1. /\ UNCHANGED <<reads, audioQ, go, registered, epc, apc>> /\ apc = "cut"
        /\ Len(residual) >= BlockFrames /\ prebuffered' \in BOOLEAN
        /\ residual' = SubSeq(residual, BlockFrames + 1, Len(residual))
    BY <1>7 DEF PushBlock, engine, io
  <2>2. Len(residual') = Len(residual) - BlockFrames
    <3>1. BlockFrames \in 0 .. Len(residual)
      BY <1>0, <2>1, Lengths
    <3> QED
      BY <1>0, <2>1, <3>1, TwoPieces
  <2> QED
    BY <1>0, <2>1, <2>2, Lengths
<1>8. CASE BatchDone \/ Play \/ RequestFlush
  <2>1. /\ UNCHANGED <<reads, audioQ, go, registered, prebuffered, residual>>
        /\ epc' \in {epc, "swap"} /\ "swap" \in Places
        /\ apc' # apc => Len(residual) < BlockFrames
    BY <1>8 DEF BatchDone, Play, RequestFlush, engine, audio, io, Places
  <2> QED
    BY <2>1
<1>9. CASE Drain \/ SwapMode \/ PutMode \/ RemovePipeline \/ PutRemoved \/ PutBandwidth
             \/ AddPipeline \/ PutAdded \/ (StartOutput /\ ~HasAudio(target)) \/ UserStep
             \/ UNCHANGED vars
  <2>1. /\ UNCHANGED <<reads, prebuffered, residual, apc>>
        /\ audioQ' \in {audioQ, <<>>}
        /\ epc' \in Places
        /\ (go' = go \/ go' = FALSE)
        /\ (registered' \in {registered, FALSE} \/ registered' = HasAudio(target))
    BY <1>9 DEF Drain, SwapMode, PutMode, RemovePipeline, PutRemoved, PutBandwidth, AddPipeline,
         PutAdded, StartOutput, UserStep, SetAudioOutputDevice, UpdateConfig, SetAudioDemod,
         KeepWorker, vars, engine, audio, io, Places
  <2>3. go' \in BOOLEAN /\ registered' \in BOOLEAN
    BY <2>1, AudioOrNot, Zenon DEF RestInv
  <2>2. Len(audioQ') <= AudioCap
    BY <2>1, Lengths
  <2> QED
    BY <1>0, <2>1, <2>2, <2>3
<1>10. CASE Restart \/ (StartOutput /\ HasAudio(target))
  <2>1. /\ reads' = reads /\ audioQ' = <<>> /\ residual' = <<>>
        /\ go' \in BOOLEAN /\ registered' \in BOOLEAN
        /\ prebuffered' \in BOOLEAN /\ epc' = "idle"
    BY <1>10 DEF Restart, StartOutput, NewWorker, ClearFields, HasAudio, io
  <2>2. Len(audioQ') = 0 /\ Len(residual') = 0
    BY <2>1
  <2> QED
    BY <1>0, <2>1, <2>2, Lengths DEF Places
<1> QED
  BY <1>1, <1>2, <1>3, <1>4, <1>5, <1>6, <1>7, <1>8, <1>9, <1>10
  DEF Next, PipeStep, AudioStep, EngineStep

\* The queues keep their lengths, the fields their types, and the residual of the audio thread
\* stays shorter than a block and a batch (audio_worker.py:155-168), for any lengths.
THEOREM TypeCorrect == Spec => []TypeOK
<1>1. ASSUME PathInv, RestInv PROVE TypeOK
  <2>1. SamplesInv /\ SampleLine /\ PipedLine /\ WorkerTypes /\ ModeTypes /\ RestInv
    BY <1>1 DEF PathInv, LineInv, ModeInv
  <2>2. /\ reads \in 0 .. MaxReads /\ dropped \in 0 .. MaxReads /\ taken \in 0 .. MaxReads
        /\ hand \in 0 .. MaxReads
    <3>1. /\ reads \in Nat /\ dropped \in Nat /\ taken \in Nat /\ hand \in Nat
          /\ Len(sampleQ) \in Nat /\ hand <= reads /\ reads <= MaxReads /\ MaxReads \in Nat
      BY <2>1, SampleNumbers, StreamingAssumption DEF SamplesInv, SampleLine, RestInv
    <3>2. SamplesAccounted
      BY <2>1 DEF SamplesInv
    <3>4. PICK x, y, k : /\ x = (IF hand = None THEN 0 ELSE 1) /\ k = Len(sampleQ)
                         /\ y = (IF ioPc = "replace" THEN 1 ELSE 0)
      OBVIOUS
    <3>3. x \in 0 .. 1 /\ y \in 0 .. 1 /\ k \in Nat /\ reads = taken + dropped + k + x + y
      BY <3>1, <3>2, <3>4 DEF SamplesAccounted
    <3> QED
      BY <3>1, <3>3
  <2>3. /\ ioPc \in {"read", "put", "full", "replace"} /\ (hand = None <=> ioPc = "read")
        /\ Len(sampleQ) <= SampleCap
    BY <2>1 DEF SamplesInv
  <2>4. /\ pipePc \in {"control", "take", "execute", "agc"}
        /\ (piped # None <=> pipePc \in {"execute", "agc"})
        /\ mode \in Modes /\ using \in Modes /\ target \in Modes /\ wanted \in Modes /\ agc \in Modes
        /\ Len(control) <= ControlCap /\ accepted \in BOOLEAN
    BY <2>1 DEF PipedLine, ModeTypes
  <2>5. /\ apc \in {"dead", "setup", "loop", "flushing", "flushed", "follow", "get", "cut"}
        /\ flush \in BOOLEAN
    BY <2>1 DEF WorkerTypes
  <2> QED
    BY <2>1, <2>2, <2>3, <2>4, <2>5 DEF TypeOK, RestInv, Places
<1> QED
  BY <1>1, PathInit, PathStep, RestInit, RestStep, PTL DEF Spec
==============================================================================
