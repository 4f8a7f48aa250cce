----------------------------- MODULE EngineProofs -----------------------------
(***************************************************************************)
(* Proofs about the engine, for any set of devices and any threads that    *)
(* outlive their stop.  FocusInv is about the two lists and the focus,     *)
(* WorkInv about audio outputs, worker ids and threads; the second needs   *)
(* from the first only which devices a call adds or removes.               *)
(***************************************************************************)
EXTENDS MCEngine, TLAPS

USE EngineAssumption

Elements(seq) == {seq[i] : i \in DOMAIN seq}
Distinct(seq) == \A i, j \in DOMAIN seq : seq[i] = seq[j] => i = j

\* Taking a device out of a list without duplicates leaves the others.
LEMMA WithoutLemma ==
  ASSUME NEW S, NEW seq \in Seq(S), Distinct(seq), NEW d
  PROVE  /\ Without(seq, d) \in Seq(S)
         /\ Distinct(Without(seq, d))
         /\ Elements(Without(seq, d)) = Elements(seq) \ {d}
<1>1. CASE ~\E i \in DOMAIN seq : seq[i] = d
  BY <1>1 DEF Without, Elements
<1>2. CASE \E i \in DOMAIN seq : seq[i] = d
  <2> DEFINE p == Position(seq, d)
             res == [i \in 1 .. Len(seq) - 1 |-> IF i < p THEN seq[i] ELSE seq[i + 1]]
  <2>1. p \in 1 .. Len(seq) /\ seq[p] = d
    BY <1>2 DEF Position
  <2>2. Without(seq, d) = res
    BY <1>2 DEF Without
  <2> HIDE DEF p
  <2>3. res \in Seq(S) /\ DOMAIN res = 1 .. Len(seq) - 1
    BY <2>1
  <2>4. Distinct(res)
    BY <2>1, <2>3 DEF Distinct
  <2>5. \A i \in DOMAIN res : res[i] \in Elements(seq) \ {d}
    BY <2>1, <2>3 DEF Distinct, Elements
  <2>6. ASSUME NEW e \in Elements(seq) \ {d} PROVE e \in Elements(res)
    <3>1. PICK i \in DOMAIN seq : seq[i] = e
      BY DEF Elements
    <3>2. CASE i < p
      <4>1. i \in DOMAIN res /\ res[i] = e
        BY <2>1, <2>3, <3>1, <3>2
      <4> QED BY <4>1 DEF Elements
    <3>3. CASE i > p
      <4>1. i - 1 \in DOMAIN res /\ res[i - 1] = e
        BY <2>1, <2>3, <3>1, <3>3
      <4> QED BY <4>1 DEF Elements
    <3> QED
      BY <2>1, <3>1, <3>2, <3>3
  <2>7. Elements(res) = Elements(seq) \ {d}
    BY <2>5, <2>6 DEF Elements
  <2> QED
    BY <2>2, <2>3, <2>4, <2>7
<1> QED
  BY <1>1, <1>2

\* The last entry stays the last when another one is taken out.
LEMMA LastStays ==
  ASSUME NEW S, NEW seq \in Seq(S), Distinct(seq), NEW d, seq # <<>>, seq[Len(seq)] # d
  PROVE  Without(seq, d) # <<>> /\ Without(seq, d)[Len(Without(seq, d))] = seq[Len(seq)]
<1>1. CASE ~\E i \in DOMAIN seq : seq[i] = d
  BY <1>1 DEF Without
<1>2. CASE \E i \in DOMAIN seq : seq[i] = d
  <2> DEFINE p == Position(seq, d)
             res == [i \in 1 .. Len(seq) - 1 |-> IF i < p THEN seq[i] ELSE seq[i + 1]]
  <2>1. p \in 1 .. Len(seq) /\ seq[p] = d
    BY <1>2 DEF Position
  <2>2. Without(seq, d) = res
    BY <1>2 DEF Without
  <2> HIDE DEF p
  <2>3. p < Len(seq) /\ Len(seq) - 1 \in 1 .. Len(seq) - 1
    BY <2>1
  <2>4. res \in Seq(S) /\ Len(res) = Len(seq) - 1 /\ res[Len(seq) - 1] = seq[Len(seq)]
    BY <2>1, <2>3
  <2> HIDE DEF res
  <2> QED
    BY <2>2, <2>3, <2>4
<1> QED
  BY <1>1, <1>2

\* Appending a new device to such a list puts it last.
LEMMA AppendLemma ==
  ASSUME NEW S, NEW seq \in Seq(S), Distinct(seq), NEW d \in S, d \notin Elements(seq)
  PROVE  /\ Append(seq, d) \in Seq(S)
         /\ Distinct(Append(seq, d))
         /\ Elements(Append(seq, d)) = Elements(seq) \cup {d}
         /\ Append(seq, d) # <<>> /\ Append(seq, d)[Len(Append(seq, d))] = d
<1> DEFINE res == Append(seq, d)
<1>1. res \in Seq(S) /\ DOMAIN res = 1 .. Len(seq) + 1 /\ Len(res) = Len(seq) + 1
  OBVIOUS
<1>2. \A i \in 1 .. Len(seq) : res[i] = seq[i]
  OBVIOUS
<1>3. res[Len(seq) + 1] = d
  OBVIOUS
<1>4. DOMAIN seq = 1 .. Len(seq)
  OBVIOUS
<1> HIDE DEF res
<1>5. Distinct(res)
  BY <1>1, <1>2, <1>3, <1>4 DEF Distinct, Elements
<1>6. Elements(res) = Elements(seq) \cup {d}
  BY <1>1, <1>2, <1>3, <1>4 DEF Elements
<1>7. res # <<>>
  BY <1>1
<1>8. res[Len(res)] = d
  BY <1>1, <1>3
<1> QED
  BY <1>1, <1>5, <1>6, <1>7, <1>8 DEF res

-------------------------------------------------------------------------------
\* Recording a focus keeps the history without duplicates and puts it last.
LEMMA RecordedLemma ==
  ASSUME NEW S, NEW seq \in Seq(S), Distinct(seq), NEW d \in S
  PROVE  /\ Recorded(seq, d) \in Seq(S)
         /\ Distinct(Recorded(seq, d))
         /\ Elements(Recorded(seq, d)) = Elements(seq) \cup {d}
         /\ Recorded(seq, d) # <<>> /\ Recorded(seq, d)[Len(Recorded(seq, d))] = d
<1>1. /\ Without(seq, d) \in Seq(S)
      /\ Distinct(Without(seq, d))
      /\ Elements(Without(seq, d)) = Elements(seq) \ {d}
  BY WithoutLemma
<1> DEFINE short == Without(seq, d)
<1> HIDE DEF short
<1>2. short \in Seq(S) /\ Distinct(short) /\ Elements(short) = Elements(seq) \ {d}
  BY <1>1 DEF short
<1>3. d \notin Elements(short)
  BY <1>2
<1>4. /\ Append(short, d) \in Seq(S)
      /\ Distinct(Append(short, d))
      /\ Elements(Append(short, d)) = Elements(short) \cup {d}
      /\ Append(short, d) # <<>> /\ Append(short, d)[Len(Append(short, d))] = d
  BY <1>2, <1>3, AppendLemma
<1>5. Elements(short) \cup {d} = Elements(seq) \cup {d}
  BY <1>2
<1> QED
  BY <1>4, <1>5 DEF Recorded, short

\* The devices and the history have no duplicates, the history names devices
\* only, and the focus is its last entry.
FocusInv ==
  /\ devices \in Seq(Devices) /\ Distinct(devices)
  /\ focusHistory \in Seq(Devices) /\ Distinct(focusHistory)
  /\ Elements(focusHistory) \subseteq Elements(devices)
  /\ focus \in Devices \cup {NoDevice}
  /\ focus = NoDevice => Elements(devices) = {}
  /\ focus # NoDevice =>
       /\ focus \in Elements(devices)
       /\ focusHistory # <<>> /\ focusHistory[Len(focusHistory)] = focus

\* The invariant gives what the runs check of the focus.
LEMMA FocusInvIsConsistent == FocusInv => FocusIsConsistent
<1> SUFFICES ASSUME FocusInv PROVE FocusIsConsistent
  OBVIOUS
<1>1. focus = NoDevice => devices = <<>>
  BY DEF FocusInv, Elements
<1>2. devices = <<>> => focus = NoDevice
  BY DEF FocusInv, Elements
<1>3. \A i \in DOMAIN focusHistory : focusHistory[i] \in Existing
  BY DEF FocusInv, Elements, Existing
<1> QED
  BY <1>1, <1>2, <1>3 DEF FocusInv, FocusIsConsistent, Distinct, Elements, Existing

\* A focused heir is the last of the history; another is the first device.
LEMMA HeirLemma ==
  ASSUME NEW h \in Seq(Devices), NEW s \in Seq(Devices), Elements(h) \subseteq Elements(s)
  PROVE  /\ Heir(h, s) = NoDevice => Elements(s) = {}
         /\ Heir(h, s) # NoDevice => Heir(h, s) \in Elements(s) /\ Heir(h, s) \in Devices
<1>1. CASE h # <<>>
  <2>1. Len(h) \in DOMAIN h
    BY <1>1
  <2>2. h[Len(h)] \in Elements(s) /\ h[Len(h)] \in Devices
    BY <2>1 DEF Elements
  <2>3. h[Len(h)] # NoDevice
    BY <2>2
  <2>4. Heir(h, s) = h[Len(h)]
    BY <1>1 DEF Heir
  <2> QED
    BY <2>2, <2>3, <2>4
<1>2. CASE h = <<>> /\ s # <<>>
  <2>1. 1 \in DOMAIN s
    BY <1>2
  <2> QED
    BY <1>2, <2>1 DEF Heir, Elements
<1>3. CASE h = <<>> /\ s = <<>>
  BY <1>3 DEF Heir, Elements
<1> QED
  BY <1>1, <1>2, <1>3

\* A device added takes the focus only when nothing has it.
LEMMA AddKeepsFocus == \A d \in Devices : FocusInv /\ AddDevice(d) => FocusInv'
<1> SUFFICES ASSUME NEW d \in Devices, FocusInv, AddDevice(d) PROVE FocusInv'
  OBVIOUS
<1>1. d \notin Elements(devices)
  BY DEF AddDevice, CalledFor, Existing, Elements
<1>2. /\ Append(devices, d) \in Seq(Devices) /\ Distinct(Append(devices, d))
      /\ Elements(Append(devices, d)) = Elements(devices) \cup {d}
  BY <1>1, AppendLemma DEF FocusInv
<1>3. /\ devices' \in Seq(Devices) /\ Distinct(devices')
      /\ Elements(devices') = Elements(devices) \cup {d}
  BY <1>2 DEF AddDevice
<1>4. CASE focus = NoDevice
  <2>1. focus' = d /\ focusHistory' = Recorded(focusHistory, d)
    BY <1>4 DEF AddDevice
  <2>2. /\ Recorded(focusHistory, d) \in Seq(Devices)
        /\ Distinct(Recorded(focusHistory, d))
        /\ Elements(Recorded(focusHistory, d)) = Elements(focusHistory) \cup {d}
        /\ Recorded(focusHistory, d) # <<>>
        /\ Recorded(focusHistory, d)[Len(Recorded(focusHistory, d))] = d
    BY RecordedLemma DEF FocusInv
  <2>3. d # NoDevice
    OBVIOUS
  <2> HIDE DEF Elements, Distinct
  <2> QED
    BY <1>3, <2>1, <2>2, <2>3 DEF FocusInv
<1>5. CASE focus # NoDevice
  <2>1. focus' = focus /\ focusHistory' = focusHistory
    BY <1>5 DEF AddDevice
  <2> QED
    BY <1>3, <1>5, <2>1 DEF FocusInv
<1> QED
  BY <1>4, <1>5

\* A device removed hands the focus on to one that is left.
LEMMA RemoveKeepsFocus == \A d \in Devices : FocusInv /\ RemoveDevice(d) => FocusInv'
<1> SUFFICES ASSUME NEW d \in Devices, FocusInv, RemoveDevice(d) PROVE FocusInv'
  OBVIOUS
<1> DEFINE survivors == Without(devices, d)
           history == Without(focusHistory, d)
           heir == Heir(history, survivors)
<1>1. /\ devices' = survivors
      /\ focus' = IF focus = d THEN heir ELSE focus
      /\ focusHistory' = IF focus = d /\ heir # NoDevice THEN Recorded(history, heir) ELSE history
  BY DEF RemoveDevice
<1>2. survivors \in Seq(Devices) /\ Distinct(survivors) /\ Elements(survivors) = Elements(devices) \ {d}
  BY WithoutLemma DEF FocusInv
<1>3. history \in Seq(Devices) /\ Distinct(history) /\ Elements(history) = Elements(focusHistory) \ {d}
  BY WithoutLemma DEF FocusInv
<1>4. Elements(history) \subseteq Elements(survivors)
  BY <1>2, <1>3 DEF FocusInv
<1> HIDE DEF survivors, history
<1>5. /\ heir = NoDevice => Elements(survivors) = {}
      /\ heir # NoDevice => heir \in Elements(survivors) /\ heir \in Devices
  BY <1>2, <1>3, <1>4, HeirLemma
<1> HIDE DEF heir
<1>6. CASE focus = d /\ heir # NoDevice
  <2> heir \in Devices /\ history \in Seq(Devices) /\ Distinct(history)
    BY <1>3, <1>5, <1>6
  <2>1. /\ Recorded(history, heir) \in Seq(Devices)
        /\ Distinct(Recorded(history, heir))
        /\ Elements(Recorded(history, heir)) = Elements(history) \cup {heir}
        /\ Recorded(history, heir) # <<>>
        /\ Recorded(history, heir)[Len(Recorded(history, heir))] = heir
    BY RecordedLemma
  <2>2. focus' = heir /\ focusHistory' = Recorded(history, heir)
    BY <1>1, <1>6
  <2> QED
    BY <1>1, <1>2, <1>4, <1>5, <1>6, <2>1, <2>2 DEF FocusInv
<1>7. CASE focus = d /\ heir = NoDevice
  BY <1>1, <1>2, <1>3, <1>4, <1>5, <1>7 DEF FocusInv
<1>8. CASE focus # d
  <2>1. focus' = focus /\ focusHistory' = history /\ devices' = survivors
    BY <1>1, <1>8
  <2>2. ASSUME focus # NoDevice
        PROVE  history # <<>> /\ history[Len(history)] = focus
    <3>1. focusHistory # <<>> /\ focusHistory[Len(focusHistory)] = focus
      BY <2>2 DEF FocusInv
    <3> QED
      BY <1>8, <3>1, LastStays DEF FocusInv, history
  <2> QED
    BY <1>2, <1>3, <1>4, <1>8, <2>1, <2>2 DEF FocusInv
<1> QED
  BY <1>6, <1>7, <1>8

\* Nothing else changes the list of devices, and the focus only to a device.
LEMMA FocusInductive == FocusInv /\ [Next]_vars => FocusInv'
<1> SUFFICES ASSUME FocusInv, [Next]_vars PROVE FocusInv'
  OBVIOUS
<1>1. ASSUME NEW d \in Devices, AddDevice(d) PROVE FocusInv'
  BY <1>1, AddKeepsFocus
<1>2. ASSUME NEW d \in Devices, RemoveDevice(d) PROVE FocusInv'
  BY <1>2, RemoveKeepsFocus
<1>3. ASSUME NEW d \in Devices, SetFocusedDevice(d) PROVE FocusInv'
  <2>1. /\ focus' = d /\ focusHistory' = Recorded(focusHistory, d)
        /\ devices' = devices /\ d \in Elements(devices)
    BY <1>3 DEF SetFocusedDevice, CalledFor, Existing, Elements
  <2>2. /\ Recorded(focusHistory, d) \in Seq(Devices)
        /\ Distinct(Recorded(focusHistory, d))
        /\ Elements(Recorded(focusHistory, d)) = Elements(focusHistory) \cup {d}
        /\ Recorded(focusHistory, d) # <<>>
        /\ Recorded(focusHistory, d)[Len(Recorded(focusHistory, d))] = d
    BY RecordedLemma DEF FocusInv
  <2> QED
    BY <2>1, <2>2 DEF FocusInv
<1>4. CASE UNCHANGED focusing
  BY <1>4 DEF focusing, FocusInv
<1> QED
  BY <1>1, <1>2, <1>3, <1>4 DEF Next, vars, StartDevice, StopDevice, SetAudioDemod,
     DemodOff, EditStages, SetAudioOutputDevice, Shutdown, Crash, LateExit

\* For any devices: one of them has the focus unless there is none, and the
\* history ends with it and names no device twice and none that is gone.
THEOREM FocusCorrect == Spec => []FocusIsConsistent
<1>1. Init => FocusInv
  BY DEF Init, FocusInv, Elements, Distinct
<1> QED
  BY <1>1, FocusInductive, FocusInvIsConsistent, PTL DEF Spec

-------------------------------------------------------------------------------
ThreadTypes ==
  /\ registered \subseteq Slots /\ robbed \subseteq Slots
  /\ live \in [Slots -> Nat] /\ late \in [Slots -> Nat]

OutputTypes ==
  /\ state \in [Devices -> {"stopped", "running"}]
  /\ mode \in [Devices -> Modes] /\ standard \in [Devices -> BOOLEAN]
  /\ audioWorkers \subseteq Devices /\ down \in BOOLEAN

\* A registered slot has one thread that nobody has asked to stop, another none.
ThreadsCounted == \A s \in Slots \ robbed : live[s] = IF s \in registered THEN 1 ELSE 0

AbsentIsIdle == \A d \in Devices \ Existing : ~Running(d) /\ d \notin audioWorkers

OutputInv == OutputTypes /\ AbsentIsIdle /\ AudioFollowsDemod /\ StartFindsSlotFree
ThreadInv == ThreadTypes /\ ThreadsCounted /\ (down => registered = {})
WorkInv == OutputInv /\ ThreadInv

\* Stopping some slots and starting free ones keeps the threads counted.
LEMMA ChangeKeepsThreads ==
  ASSUME ThreadTypes, ThreadsCounted,
         NEW stopped, NEW launched \in SUBSET Slots,
         launched \cap (registered \ stopped) = {},
         ChangeWorkers(stopped, launched)
  PROVE  ThreadTypes' /\ ThreadsCounted' /\ registered' = (registered \ stopped) \cup launched
<1>1. PICK timedOut :
        /\ registered' = (registered \ stopped) \cup launched
        /\ live' = [s \in Slots |-> live[s] - (IF Asked(s, stopped) THEN 1 ELSE 0)
                                             + (IF s \in launched THEN 1 ELSE 0)]
        /\ late' = [s \in Slots |-> late[s] + (IF Asked(s, stopped) /\ s \in timedOut THEN 1 ELSE 0)]
        /\ robbed' = robbed
  BY DEF ChangeWorkers
<1>2. \A s \in Slots : live'[s] \in Nat /\ late'[s] \in Nat
  BY <1>1 DEF ThreadTypes, Asked
<1>3. ThreadTypes'
  <2>1. live' \in [Slots -> Nat] /\ late' \in [Slots -> Nat]
    BY <1>1, <1>2
  <2> QED
    BY <1>1, <2>1 DEF ThreadTypes
<1>4. ASSUME NEW s \in Slots \ robbed
      PROVE  live'[s] = IF s \in registered' THEN 1 ELSE 0
  <2>1. live[s] = IF s \in registered THEN 1 ELSE 0
    BY DEF ThreadsCounted
  <2>2. live'[s] = live[s] - (IF Asked(s, stopped) THEN 1 ELSE 0) + (IF s \in launched THEN 1 ELSE 0)
    BY <1>1
  <2>3. s \in registered' <=> (s \in registered /\ s \notin stopped) \/ s \in launched
    BY <1>1
  <2> QED
    BY <2>1, <2>2, <2>3 DEF Asked
<1>5. ThreadsCounted'
  BY <1>1, <1>4 DEF ThreadsCounted
<1> QED
  BY <1>1, <1>3, <1>5

\* Which slots a stop names.
LEMMA SlotFacts ==
  ASSUME OutputTypes
  PROVE  /\ \A d \in Devices : <<"io", d>> \in Slots /\ <<"audio", d>> \in Slots
         /\ \A d, e \in Devices : <<"io", d>> # <<"audio", e>>
         /\ \A d, e \in Devices, k \in {"io", "audio"} : <<k, d>> = <<k, e>> => d = e
         /\ \A D \in SUBSET Devices, d \in Devices :
              /\ <<"audio", d>> \in AudioSlots(D) <=>
                   d \in D /\ d \in audioWorkers /\ <<"audio", d>> \in registered
              /\ <<"io", d>> \notin AudioSlots(D)
              /\ <<"io", d>> \in DeviceSlots(D) <=> d \in D /\ Running(d)
              /\ <<"audio", d>> \notin DeviceSlots(D)
<1> USE DEF OutputTypes, Slots, AudioSlots, DeviceSlots
<1>1. \A d \in Devices : <<"io", d>> \in Slots /\ <<"audio", d>> \in Slots
  OBVIOUS
<1>2. \A d, e \in Devices : <<"io", d>> # <<"audio", e>>
  OBVIOUS
<1>3. \A d, e \in Devices, k \in {"io", "audio"} : <<k, d>> = <<k, e>> => d = e
  OBVIOUS
<1>4. ASSUME NEW D \in SUBSET Devices, NEW d \in Devices
      PROVE  /\ <<"audio", d>> \in AudioSlots(D) <=>
                  d \in D /\ d \in audioWorkers /\ <<"audio", d>> \in registered
             /\ <<"io", d>> \notin AudioSlots(D)
             /\ <<"io", d>> \in DeviceSlots(D) <=> d \in D /\ Running(d)
             /\ <<"audio", d>> \notin DeviceSlots(D)
  OBVIOUS
<1> QED
  BY <1>1, <1>2, <1>3, <1>4

\* The list of devices names devices.
LEMMA ExistingIsDevice == FocusInv => Existing \subseteq Devices
  BY DEF FocusInv, Existing

\* Devices that come and go are stopped and have no output.
LEMMA AddKeepsWork == \A d \in Devices : FocusInv /\ WorkInv /\ AddDevice(d) => WorkInv'
<1> SUFFICES ASSUME NEW d \in Devices, FocusInv, WorkInv, AddDevice(d) PROVE WorkInv'
  OBVIOUS
<1>1. Elements(Append(devices, d)) = Elements(devices) \cup {d}
  BY AppendLemma, SMTT(30) DEF FocusInv, AddDevice, CalledFor, Existing, Elements
<1>2. Existing' = Existing \cup {d} /\ d \notin Existing
  BY <1>1 DEF AddDevice, Existing, Elements
<1>3. UNCHANGED <<state, demodulating, audioWorkers, threads, down>>
  BY DEF AddDevice
<1>4. ThreadInv'
  BY <1>3 DEF WorkInv, ThreadInv, ThreadTypes, ThreadsCounted, threads
<1>5. OutputTypes' /\ AbsentIsIdle'
  BY <1>2, <1>3 DEF WorkInv, OutputInv, OutputTypes, AbsentIsIdle, Running, demodulating
<1>6. AudioFollowsDemod'
  BY <1>2, <1>3 DEF WorkInv, OutputInv, AbsentIsIdle, AudioFollowsDemod, Running, demodulating
<1>7. StartFindsSlotFree'
  BY <1>2, <1>3 DEF WorkInv, OutputInv, StartFindsSlotFree, Running, threads
<1> QED
  BY <1>4, <1>5, <1>6, <1>7 DEF WorkInv, OutputInv

\* remove_device stops the device first, so a removed device has no output and no running worker.
LEMMA RemoveKeepsWork == \A d \in Devices : FocusInv /\ WorkInv /\ RemoveDevice(d) => WorkInv'
<1> SUFFICES ASSUME NEW d \in Devices, FocusInv, WorkInv, RemoveDevice(d) PROVE WorkInv'
  OBVIOUS
<1>1. Elements(Without(devices, d)) = Elements(devices) \ {d}
  BY WithoutLemma DEF FocusInv
<1>2. Existing' = Existing \ {d}
  BY <1>1 DEF RemoveDevice, Existing, Elements
<1>3. /\ ChangeWorkers(AudioSlots({d}), {}) /\ audioWorkers' = audioWorkers \ {d}
      /\ mode' = [mode EXCEPT ![d] = "raw"] /\ standard' = [standard EXCEPT ![d] = TRUE]
      /\ UNCHANGED <<state, down>> /\ ~Running(d) /\ ~down
  BY DEF RemoveDevice, CalledFor, Called
<1>4. ThreadTypes' /\ ThreadsCounted' /\ registered' = registered \ AudioSlots({d})
  BY <1>3, ChangeKeepsThreads DEF WorkInv, ThreadInv
<1>5. OutputTypes' /\ AbsentIsIdle'
  BY <1>2, <1>3 DEF WorkInv, OutputInv, OutputTypes, AbsentIsIdle, Running, Modes
<1>6. AudioFollowsDemod'
  BY <1>2, <1>3 DEF WorkInv, OutputInv, OutputTypes, AudioFollowsDemod, Running
<1>7. StartFindsSlotFree'
  <2>1. {d} \in SUBSET Devices /\ OutputTypes
    BY DEF WorkInv, OutputInv
  <2>2. \A e \in Devices :
          /\ <<"audio", e>> \in AudioSlots({d}) <=>
               e \in {d} /\ e \in audioWorkers /\ <<"audio", e>> \in registered
          /\ <<"io", e>> \notin AudioSlots({d})
    BY <2>1, SlotFacts
  <2> QED
    BY <1>2, <1>3, <1>4, <2>2 DEF WorkInv, OutputInv, StartFindsSlotFree, Running
<1> QED
  BY <1>3, <1>4, <1>5, <1>6, <1>7 DEF WorkInv, OutputInv, ThreadInv

\* The keys of the outputs that are started.
LEMMA SecondOf ==
  \A d : {t[2] : t \in {<<"audio", d>>}} = {d} /\ {t[2] : t \in {}} = {}
  OBVIOUS

\* A device starts with its output, if its demodulator has audio.
LEMMA StartKeepsWork == \A d \in Devices : WorkInv /\ StartDevice(d) => WorkInv'
<1> SUFFICES ASSUME NEW d \in Devices, WorkInv, StartDevice(d) PROVE WorkInv'
  OBVIOUS
<1> DEFINE audio == IF mode[d] = "voice" THEN {<<"audio", d>>} ELSE {}
           launched == {<<"io", d>>} \cup audio
<1>1. d \in Existing /\ ~Running(d) /\ ~down /\ d \notin audioWorkers
  BY DEF StartDevice, CalledFor, Called, WorkInv, OutputInv, AudioFollowsDemod
<1>2. /\ state' = [state EXCEPT ![d] = "running"]
      /\ ChangeWorkers({}, launched)
      /\ audioWorkers' = audioWorkers \cup {t[2] : t \in audio}
      /\ UNCHANGED <<focusing, demodulating, down>>
  BY <1>1 DEF StartDevice, Launched
<1>3. {t[2] : t \in audio} = IF mode[d] = "voice" THEN {d} ELSE {}
  BY SecondOf
<1>4. Existing' = Existing
  BY <1>2 DEF Existing, focusing
<1>5. <<"io", d>> \notin registered /\ <<"audio", d>> \notin registered
  BY <1>1 DEF WorkInv, OutputInv, StartFindsSlotFree
<1>6. launched \in SUBSET Slots /\ launched \cap (registered \ {}) = {}
  BY <1>5 DEF Slots
<1>7. ThreadTypes' /\ ThreadsCounted' /\ registered' = registered \cup launched
  <2> HIDE DEF launched
  <2>1. ThreadTypes' /\ ThreadsCounted' /\ registered' = (registered \ {}) \cup launched
    BY <1>2, <1>6, ChangeKeepsThreads DEF WorkInv, ThreadInv
  <2> QED
    BY <2>1
<1>8. OutputTypes' /\ AbsentIsIdle'
  BY <1>1, <1>2, <1>3, <1>4 DEF WorkInv, OutputInv, OutputTypes, AbsentIsIdle, Running, demodulating
<1>9. AudioFollowsDemod'
  BY <1>1, <1>2, <1>3, <1>4 DEF WorkInv, OutputInv, OutputTypes, AudioFollowsDemod, Running, demodulating
<1>10. StartFindsSlotFree'
  BY <1>1, <1>2, <1>3, <1>4, <1>7 DEF WorkInv, OutputInv, OutputTypes, StartFindsSlotFree, Running
<1> QED
  BY <1>1, <1>2, <1>7, <1>8, <1>9, <1>10 DEF WorkInv, OutputInv, ThreadInv

\* A device stops with its output.
LEMMA StopKeepsWork == \A d \in Devices : WorkInv /\ StopDevice(d) => WorkInv'
<1> SUFFICES ASSUME NEW d \in Devices, WorkInv, StopDevice(d) PROVE WorkInv'
  OBVIOUS
<1> DEFINE stopped == AudioSlots({d}) \cup DeviceSlots({d})
<1>1. /\ ChangeWorkers(stopped, {}) /\ ~down
      /\ state' = [state EXCEPT ![d] = "stopped"]
      /\ audioWorkers' = audioWorkers \ {d}
      /\ UNCHANGED <<focusing, demodulating, down>>
  BY DEF StopDevice, CalledFor, Called
<1>2. Existing' = Existing
  BY <1>1 DEF Existing, focusing
<1> {d} \in SUBSET Devices /\ OutputTypes
  BY DEF WorkInv, OutputInv
<1>3. \A e \in Devices :
        /\ <<"audio", e>> \in stopped <=> e = d /\ d \in audioWorkers /\ <<"audio", d>> \in registered
        /\ <<"io", e>> \in stopped <=> e = d /\ Running(d)
  <2>1. \A e \in Devices :
          /\ <<"audio", e>> \in AudioSlots({d}) <=>
               e \in {d} /\ e \in audioWorkers /\ <<"audio", e>> \in registered
          /\ <<"io", e>> \notin AudioSlots({d})
          /\ <<"io", e>> \in DeviceSlots({d}) <=> e \in {d} /\ Running(e)
          /\ <<"audio", e>> \notin DeviceSlots({d})
    BY SlotFacts
  <2> QED
    BY <2>1
<1> HIDE DEF stopped
<1>4. ThreadTypes' /\ ThreadsCounted' /\ registered' = registered \ stopped
  <2>1. {} \in SUBSET Slots /\ {} \cap (registered \ stopped) = {}
    OBVIOUS
  <2>2. ThreadTypes' /\ ThreadsCounted' /\ registered' = (registered \ stopped) \cup {}
    BY <1>1, <2>1, ChangeKeepsThreads DEF WorkInv, ThreadInv
  <2> QED
    BY <2>2
<1>5. OutputTypes' /\ AbsentIsIdle' /\ AudioFollowsDemod'
  BY <1>1, <1>2 DEF WorkInv, OutputInv, OutputTypes, AbsentIsIdle, AudioFollowsDemod, Running, demodulating
<1>6. StartFindsSlotFree'
  BY <1>1, <1>2, <1>3, <1>4 DEF WorkInv, OutputInv, OutputTypes, StartFindsSlotFree, Running
<1> QED
  BY <1>1, <1>4, <1>5, <1>6 DEF WorkInv, OutputInv, ThreadInv

\* A new demodulator is swapped in place, or the output is built anew.
LEMMA DemodKeepsWork ==
  \A d \in Devices, m \in Modes \ {"raw"} : FocusInv /\ WorkInv /\ SetAudioDemod(d, m) => WorkInv'
<1> SUFFICES ASSUME NEW d \in Devices, NEW m \in Modes \ {"raw"}, FocusInv, WorkInv, SetAudioDemod(d, m)
             PROVE  WorkInv'
  OBVIOUS
<1>1. /\ d \in Existing /\ ~down
      /\ mode' = [mode EXCEPT ![d] = m] /\ standard' = [standard EXCEPT ![d] = TRUE]
      /\ UNCHANGED <<focusing, state, down>>
  BY DEF SetAudioDemod, CalledFor, Called
<1>2. Existing' = Existing
  BY <1>1 DEF Existing, focusing
<1> {d} \in SUBSET Devices /\ OutputTypes
  BY DEF WorkInv, OutputInv
<1>3. CASE CanSwapInPlace(d, m)
  <2>1. d \in audioWorkers /\ m = "voice" /\ UNCHANGED <<audioWorkers, threads>>
    BY <1>3 DEF CanSwapInPlace, SetAudioDemod
  <2>2. ThreadInv'
    BY <1>1, <2>1 DEF WorkInv, ThreadInv, ThreadTypes, ThreadsCounted, threads
  <2>3. OutputTypes' /\ AbsentIsIdle' /\ AudioFollowsDemod'
    BY <1>1, <1>2, <2>1 DEF WorkInv, OutputInv, OutputTypes, AbsentIsIdle, AudioFollowsDemod, Running
  <2>4. StartFindsSlotFree'
    BY <1>1, <1>2, <2>1 DEF WorkInv, OutputInv, StartFindsSlotFree, Running, threads
  <2> QED
    BY <2>2, <2>3, <2>4 DEF WorkInv, OutputInv
<1>4. CASE ~CanSwapInPlace(d, m)
  <2> DEFINE audio == IF Running(d) /\ m = "voice" THEN {<<"audio", d>>} ELSE {}
             stopped == AudioSlots({d})
  <2>1. ChangeWorkers(stopped, audio) /\ audioWorkers' = (audioWorkers \ {d}) \cup {t[2] : t \in audio}
    BY <1>4 DEF SetAudioDemod, Launched
  <2>2. {t[2] : t \in audio} = IF Running(d) /\ m = "voice" THEN {d} ELSE {}
    BY SecondOf
  <2>3. \A e \in Devices :
          /\ <<"audio", e>> \in stopped <=>
               e \in {d} /\ e \in audioWorkers /\ <<"audio", e>> \in registered
          /\ <<"io", e>> \notin stopped
    BY SlotFacts
  <2>4. <<"audio", d>> \notin registered \ stopped
    BY <2>3 DEF WorkInv, OutputInv, StartFindsSlotFree
  <2>5. audio \in SUBSET Slots /\ audio \cap (registered \ stopped) = {}
    BY <2>4 DEF Slots
  <2>6. audio \subseteq {<<"audio", d>>}
    OBVIOUS
  <2>7. /\ Running(d) /\ m = "voice" => audio = {<<"audio", d>>}
        /\ ~(Running(d) /\ m = "voice") => audio = {}
    OBVIOUS
  <2> HIDE DEF stopped, audio
  <2>8. ThreadTypes' /\ ThreadsCounted' /\ registered' = (registered \ stopped) \cup audio
    BY <2>1, <2>5, ChangeKeepsThreads DEF WorkInv, ThreadInv
  <2> /\ audioWorkers' \subseteq Devices
      /\ \A e \in Devices : e \in audioWorkers' <=>
           IF e = d THEN Running(d) /\ m = "voice" ELSE e \in audioWorkers
    <3>1. audioWorkers' = (audioWorkers \ {d}) \cup (IF Running(d) /\ m = "voice" THEN {d} ELSE {})
      BY <2>1, <2>2, Zenon
    <3> QED
      BY <3>1 DEF OutputTypes
  <2>9. OutputTypes' /\ AbsentIsIdle'
    BY <1>1, <1>2 DEF WorkInv, OutputInv, OutputTypes, AbsentIsIdle, Running
  <2>10. AudioFollowsDemod'
    <3>1. \A e \in Existing : e \in Devices
      BY ExistingIsDevice
    <3> QED
      BY <1>1, <1>2, <3>1 DEF WorkInv, OutputInv, OutputTypes, AudioFollowsDemod, Running
  <2>11. StartFindsSlotFree'
    <3>1. ASSUME NEW e \in Devices
          PROVE  (e \in Existing' /\ Running(e)') \/ <<"io", e>> \notin registered'
      <4>1. <<"io", e>> # <<"audio", d>>
        BY SlotFacts
      <4>2. <<"io", e>> \in registered' => <<"io", e>> \in registered
        BY <2>6, <2>8, <4>1
      <4> QED
        BY <1>1, <1>2, <4>2 DEF WorkInv, OutputInv, StartFindsSlotFree, Running
    <3>2. ASSUME NEW e \in Devices
          PROVE  e \in audioWorkers' \/ <<"audio", e>> \notin registered'
      BY <1>1, <2>1, <2>2, <2>3, <2>7, <2>8, SlotFacts
         DEF WorkInv, OutputInv, StartFindsSlotFree
    <3> QED
      BY <3>1, <3>2 DEF StartFindsSlotFree
  <2> QED
    BY <1>1, <2>8, <2>9, <2>10, <2>11 DEF WorkInv, OutputInv, ThreadInv
<1> QED
  BY <1>3, <1>4

\* Demodulation is turned off with its output.
LEMMA OffKeepsWork == \A d \in Devices : WorkInv /\ DemodOff(d) => WorkInv'
<1> SUFFICES ASSUME NEW d \in Devices, WorkInv, DemodOff(d) PROVE WorkInv'
  OBVIOUS
<1> DEFINE stopped == AudioSlots({d})
<1>1. /\ ChangeWorkers(stopped, {}) /\ ~down
      /\ mode' = [mode EXCEPT ![d] = "raw"] /\ standard' = [standard EXCEPT ![d] = TRUE]
      /\ audioWorkers' = audioWorkers \ {d}
      /\ UNCHANGED <<focusing, state, down>>
  BY DEF DemodOff, CalledFor, Called
<1>2. Existing' = Existing
  BY <1>1 DEF Existing, focusing
<1> {d} \in SUBSET Devices /\ OutputTypes
  BY DEF WorkInv, OutputInv
<1>3. \A e \in Devices :
        /\ <<"audio", e>> \in stopped <=>
             e \in {d} /\ e \in audioWorkers /\ <<"audio", e>> \in registered
        /\ <<"io", e>> \notin stopped
  BY SlotFacts
<1> HIDE DEF stopped
<1>4. ThreadTypes' /\ ThreadsCounted' /\ registered' = registered \ stopped
  <2>1. {} \in SUBSET Slots /\ {} \cap (registered \ stopped) = {}
    OBVIOUS
  <2>2. ThreadTypes' /\ ThreadsCounted' /\ registered' = (registered \ stopped) \cup {}
    BY <1>1, <2>1, ChangeKeepsThreads DEF WorkInv, ThreadInv
  <2> QED
    BY <2>2
<1>5. OutputTypes' /\ AbsentIsIdle' /\ AudioFollowsDemod'
  BY <1>1, <1>2 DEF WorkInv, OutputInv, OutputTypes, AbsentIsIdle, AudioFollowsDemod, Running, Modes
<1>6. StartFindsSlotFree'
  BY <1>1, <1>2, <1>3, <1>4 DEF WorkInv, OutputInv, StartFindsSlotFree, Running
<1> QED
  BY <1>1, <1>4, <1>5, <1>6 DEF WorkInv, OutputInv, ThreadInv

\* Every output is restarted: all of them belong to devices that run.
LEMMA SpeakerKeepsWork == WorkInv /\ SetAudioOutputDevice => WorkInv'
<1> SUFFICES ASSUME WorkInv, SetAudioOutputDevice PROVE WorkInv'
  OBVIOUS
<1> DEFINE launched == {<<"audio", d>> : d \in audioWorkers}
           stopped == AudioSlots(audioWorkers)
<1>1. {d \in audioWorkers : Running(d)} = audioWorkers
  BY DEF WorkInv, OutputInv, OutputTypes, AbsentIsIdle, AudioFollowsDemod
<1>2. /\ ChangeWorkers(stopped, launched) /\ ~down
      /\ audioWorkers' = audioWorkers /\ UNCHANGED <<focusing, state, demodulating, down>>
  BY <1>1 DEF SetAudioOutputDevice, Called
<1>3. Existing' = Existing
  BY <1>2 DEF Existing, focusing
<1> audioWorkers \in SUBSET Devices /\ OutputTypes
  BY DEF WorkInv, OutputInv, OutputTypes
<1>4. \A e \in Devices :
        /\ <<"audio", e>> \in stopped <=> e \in audioWorkers /\ <<"audio", e>> \in registered
        /\ <<"io", e>> \notin stopped
  BY SlotFacts
<1>5. \A e \in Devices :
        /\ <<"audio", e>> \in launched <=> e \in audioWorkers
        /\ <<"io", e>> \notin launched
  OBVIOUS
<1> HIDE DEF stopped
<1>6. launched \in SUBSET Slots /\ launched \cap (registered \ stopped) = {}
  <2>1. ASSUME NEW l \in launched PROVE l \in Slots /\ l \notin registered \ stopped
    <3>1. PICK e \in audioWorkers : l = <<"audio", e>>
      OBVIOUS
    <3> QED
      BY <1>4, <3>1 DEF Slots
  <2> QED
    BY <2>1
<1> HIDE DEF launched
<1>7. ThreadTypes' /\ ThreadsCounted' /\ registered' = (registered \ stopped) \cup launched
  BY <1>2, <1>6, ChangeKeepsThreads DEF WorkInv, ThreadInv
<1>8. OutputTypes' /\ AbsentIsIdle' /\ AudioFollowsDemod'
  BY <1>2, <1>3 DEF WorkInv, OutputInv, OutputTypes, AbsentIsIdle, AudioFollowsDemod, Running, demodulating
<1>9. StartFindsSlotFree'
  BY <1>2, <1>3, <1>4, <1>5, <1>7 DEF WorkInv, OutputInv, StartFindsSlotFree, Running
<1> QED
  BY <1>2, <1>7, <1>8, <1>9 DEF WorkInv, OutputInv, ThreadInv

\* Shutdown stops every device and every worker.
LEMMA ShutdownKeepsWork == FocusInv /\ WorkInv /\ Shutdown => WorkInv'
<1> SUFFICES ASSUME FocusInv, WorkInv, Shutdown PROVE WorkInv'
  OBVIOUS
<1> DEFINE stopped == DeviceSlots(Existing) \cup AudioSlots(Devices) \cup registered
<1>1. /\ ChangeWorkers(stopped, {})
      /\ state' = [d \in Devices |-> IF d \in Existing THEN "stopped" ELSE state[d]]
      /\ audioWorkers' = {} /\ down' = TRUE
      /\ UNCHANGED <<focusing, demodulating>>
  BY DEF Shutdown
<1>2. Existing' = Existing
  BY <1>1 DEF Existing, focusing
<1>3. registered \subseteq stopped
  OBVIOUS
<1> HIDE DEF stopped
<1>4. ThreadTypes' /\ ThreadsCounted' /\ registered' = {}
  <2>1. {} \in SUBSET Slots /\ {} \cap (registered \ stopped) = {}
    OBVIOUS
  <2>2. ThreadTypes' /\ ThreadsCounted' /\ registered' = (registered \ stopped) \cup {}
    BY <1>1, <2>1, ChangeKeepsThreads DEF WorkInv, ThreadInv
  <2> QED
    BY <1>3, <2>2
<1>5. OutputTypes' /\ AbsentIsIdle' /\ AudioFollowsDemod'
  <2>1. \A d \in Devices : state'[d] = "stopped" \/ d \notin Existing
    BY <1>1
  <2>2. OutputTypes'
    BY <1>1 DEF WorkInv, OutputInv, OutputTypes, demodulating
  <2>3. AbsentIsIdle'
    BY <1>1, <1>2 DEF WorkInv, OutputInv, OutputTypes, AbsentIsIdle, Running
  <2>4. AudioFollowsDemod'
    BY <1>1, <1>2, ExistingIsDevice DEF AudioFollowsDemod, Running
  <2> QED
    BY <2>2, <2>3, <2>4
<1>6. StartFindsSlotFree'
  BY <1>4 DEF StartFindsSlotFree
<1> QED
  BY <1>4, <1>5, <1>6 DEF WorkInv, OutputInv, ThreadInv

\* A thread that ends leaves its slot free, of the successor too: such a slot
\* is robbed.
LEMMA EndKeepsWork == \A s \in Slots : WorkInv /\ (Crash(s) \/ LateExit(s)) => WorkInv'
<1> SUFFICES ASSUME NEW s \in Slots, WorkInv, Crash(s) \/ LateExit(s) PROVE WorkInv'
  OBVIOUS
<1>1. registered' = registered \ {s} /\ UNCHANGED <<focusing, state, demodulating, audioWorkers, down>>
  BY DEF Crash, LateExit
<1>2. OutputInv'
  BY <1>1 DEF WorkInv, OutputInv, OutputTypes, AbsentIsIdle, AudioFollowsDemod, StartFindsSlotFree,
              Running, Existing, focusing, demodulating
<1>3. ThreadTypes' /\ ThreadsCounted'
  <2>1. CASE Crash(s)
    BY <2>1 DEF Crash, WorkInv, ThreadInv, ThreadTypes, ThreadsCounted
  <2>2. CASE LateExit(s)
    BY <2>2 DEF LateExit, WorkInv, ThreadInv, ThreadTypes, ThreadsCounted
  <2> QED
    BY <2>1, <2>2
<1> QED
  BY <1>1, <1>2, <1>3 DEF WorkInv, ThreadInv

\* Every step of the engine and of a thread keeps both invariants.
LEMMA WorkInductive == FocusInv /\ WorkInv /\ [Next]_vars => WorkInv'
<1> SUFFICES ASSUME FocusInv, WorkInv, [Next]_vars PROVE WorkInv'
  OBVIOUS
<1>1. ASSUME NEW d \in Devices, SetFocusedDevice(d) \/ EditStages(d) \/ UNCHANGED vars PROVE WorkInv'
  <2>1. /\ devices' = devices /\ mode' = mode /\ standard' \in [Devices -> BOOLEAN]
        /\ UNCHANGED <<state, audioWorkers, threads, down>>
    BY <1>1 DEF SetFocusedDevice, EditStages, vars, focusing, demodulating, WorkInv, OutputInv, OutputTypes
  <2> QED
    BY <2>1 DEF WorkInv, OutputInv, OutputTypes, AbsentIsIdle, AudioFollowsDemod, StartFindsSlotFree,
       ThreadInv, ThreadTypes, ThreadsCounted, threads, Running, Existing
<1>2. CASE UNCHANGED vars
  BY <1>2 DEF vars, focusing, demodulating, threads, WorkInv, OutputInv, OutputTypes, AbsentIsIdle,
     AudioFollowsDemod, StartFindsSlotFree, ThreadInv, ThreadTypes, ThreadsCounted, Running, Existing
<1> QED
  BY <1>1, <1>2, AddKeepsWork, RemoveKeepsWork, StartKeepsWork, StopKeepsWork, DemodKeepsWork,
     OffKeepsWork, SpeakerKeepsWork, ShutdownKeepsWork, EndKeepsWork DEF Next

\* The initial state has no device, no output and no thread.
LEMMA InitWork == Init => FocusInv /\ WorkInv
<1> SUFFICES ASSUME Init PROVE FocusInv /\ WorkInv
  OBVIOUS
<1>1. FocusInv
  BY DEF Init, FocusInv, Elements, Distinct
<1>2. OutputInv
  <2>1. Existing = {}
    BY DEF Init, Existing
  <2>2. OutputTypes
    BY DEF Init, OutputTypes, Modes
  <2>3. AbsentIsIdle /\ AudioFollowsDemod /\ StartFindsSlotFree
    BY <2>1 DEF Init, AbsentIsIdle, AudioFollowsDemod, StartFindsSlotFree, Running
  <2> QED
    BY <2>2, <2>3 DEF OutputInv
<1>3. ThreadInv
  BY DEF Init, ThreadInv, ThreadTypes, ThreadsCounted
<1> QED
  BY <1>1, <1>2, <1>3 DEF WorkInv

\* Both invariants hold in every reachable state.
LEMMA EngineInvariant == Spec => [](FocusInv /\ WorkInv)
  BY InitWork, FocusInductive, WorkInductive, PTL DEF Spec

\* Every variable keeps its type.
THEOREM TypeCorrect == Spec => []TypeOK
<1>1. FocusInv /\ WorkInv => TypeOK
  BY DEF FocusInv, WorkInv, OutputInv, OutputTypes, ThreadInv, ThreadTypes, TypeOK
<1> QED
  BY <1>1, EngineInvariant, PTL

\* The outputs are those of the running devices whose demodulator has audio.
THEOREM AudioCorrect == Spec => []AudioFollowsDemod
<1>1. WorkInv => AudioFollowsDemod
  BY DEF WorkInv, OutputInv
<1> QED
  BY <1>1, EngineInvariant, PTL

\* No start of a worker finds its id taken, so none raises.
THEOREM StartNeverRaises == Spec => []StartFindsSlotFree
<1>1. WorkInv => StartFindsSlotFree
  BY DEF WorkInv, OutputInv
<1> QED
  BY <1>1, EngineInvariant, PTL

\* At most one thread of an id has not been asked to stop.
THEOREM OneThread == Spec => []OneThreadPerSlot
<1>1. WorkInv => OneThreadPerSlot
  BY DEF WorkInv, ThreadInv, ThreadsCounted, OneThreadPerSlot
<1> QED
  BY <1>1, EngineInvariant, PTL

\* After shutdown every thread has been asked to stop.
THEOREM ShutdownComplete == Spec => []ShutdownAsksEveryThread
<1>1. WorkInv => ShutdownAsksEveryThread
  BY DEF WorkInv, ThreadInv, ThreadsCounted, ShutdownAsksEveryThread
<1> QED
  BY <1>1, EngineInvariant, PTL

-------------------------------------------------------------------------------
(* The focus that is handed on, by the history of focusing of MCEngine.        *)

\* Only devices of the history were focused, and e was not focused after d only if it does not
\* stand behind d there.
LaterInv ==
  /\ \A p \in later : p = <<p[1], p[2]>> /\ p[1] \in Elements(focusHistory)
  /\ \A i, j \in DOMAIN focusHistory : <<focusHistory[i], focusHistory[j]>> \in later => j < i

\* In a list without duplicates, taking one out leaves the order of the others.
LEMMA OrderStays ==
  ASSUME NEW S, NEW seq \in Seq(S), NEW d,
         NEW i \in DOMAIN Without(seq, d), NEW j \in DOMAIN Without(seq, d), i <= j
  PROVE  \E k, l \in DOMAIN seq :
           k <= l /\ Without(seq, d)[i] = seq[k] /\ Without(seq, d)[j] = seq[l]
<1>1. CASE ~\E k \in DOMAIN seq : seq[k] = d
  BY <1>1 DEF Without
<1>2. CASE \E k \in DOMAIN seq : seq[k] = d
  <2> DEFINE p == Position(seq, d)
             res == [k \in 1 .. Len(seq) - 1 |-> IF k < p THEN seq[k] ELSE seq[k + 1]]
  <2>1. p \in 1 .. Len(seq)
    BY <1>2 DEF Position
  <2>2. Without(seq, d) = res
    BY <1>2 DEF Without
  <2> HIDE DEF p
  <2>3. i \in 1 .. Len(seq) - 1 /\ j \in 1 .. Len(seq) - 1
    BY <2>2
  <2>4. PICK k \in DOMAIN seq : k = IF i < p THEN i ELSE i + 1
    BY <2>3
  <2>5. PICK l \in DOMAIN seq : l = IF j < p THEN j ELSE j + 1
    BY <2>3
  <2>6. k <= l
    BY <2>1, <2>3, <2>4, <2>5
  <2>7. res[i] = seq[k] /\ res[j] = seq[l]
    BY <2>3, <2>4, <2>5
  <2> QED
    BY <2>2, <2>6, <2>7
<1> QED
  BY <1>1, <1>2

\* The pairs of the history that remains when a device is taken out.
LEMMA LaterWithout ==
  ASSUME FocusInv, LaterInv, NEW d,
         NEW h, h = Without(focusHistory, d),
         NEW i \in DOMAIN h, NEW j \in DOMAIN h, <<h[i], h[j]>> \in later
  PROVE  j < i
<1>1. h \in Seq(Devices)
  BY WithoutLemma DEF FocusInv
<1>2. SUFFICES ASSUME i <= j PROVE FALSE
  BY <1>1
<1>3. PICK k, l \in DOMAIN focusHistory :
        k <= l /\ h[i] = focusHistory[k] /\ h[j] = focusHistory[l]
  BY <1>2, OrderStays DEF FocusInv
<1>4. l < k
  BY <1>3 DEF LaterInv
<1> QED
  BY <1>3, <1>4 DEF FocusInv

\* A device that goes is out of the history, and nothing was focused after it any more.
LEMMA LaterGone ==
  ASSUME FocusInv, LaterInv, NEW d,
         NEW h, h = Without(focusHistory, d), NEW r, r = Gone(later, d)
  PROVE  /\ \A p \in r : p = <<p[1], p[2]>> /\ p[1] \in Elements(h)
         /\ \A i, j \in DOMAIN h : <<h[i], h[j]>> \in r => j < i
<1>1. Elements(h) = Elements(focusHistory) \ {d}
  BY WithoutLemma DEF FocusInv
<1>2. \A p \in r : p = <<p[1], p[2]>> /\ p[1] \in Elements(h)
  BY <1>1 DEF Gone, LaterInv
<1>3. ASSUME NEW i \in DOMAIN h, NEW j \in DOMAIN h, <<h[i], h[j]>> \in r PROVE j < i
  <2>1. h[j] # d
    BY <1>1 DEF Elements
  <2>2. <<h[i], h[j]>> \in later
    BY <1>3, <2>1 DEF Gone
  <2> QED
    BY <2>2, LaterWithout
<1> QED
  BY <1>2, <1>3

\* Recording a focus puts the device behind all others.
LEMMA LaterFocused ==
  ASSUME NEW h \in Seq(Devices), Distinct(h), NEW r, NEW d \in Devices,
         \A p \in r : p = <<p[1], p[2]>> /\ p[1] \in Elements(h),
         \A i, j \in DOMAIN h : <<h[i], h[j]>> \in r => j < i,
         NEW g, g = Recorded(h, d), NEW q, q = Focused(r, d)
  PROVE  /\ \A p \in q : p = <<p[1], p[2]>> /\ p[1] \in Elements(g)
         /\ \A i, j \in DOMAIN g : <<g[i], g[j]>> \in q => j < i
<1>1. PICK s : s = Without(h, d)
  OBVIOUS
<1>2. s \in Seq(Devices) /\ Distinct(s) /\ Elements(s) = Elements(h) \ {d}
  BY <1>1, WithoutLemma
<1>3. g = Append(s, d)
  BY <1>1 DEF Recorded
<1>4. Elements(g) = Elements(h) \cup {d}
  <2>1. Elements(Append(s, d)) = Elements(s) \cup {d}
    BY <1>2, AppendLemma
  <2> QED
    BY <1>2, <1>3, <2>1
<1>5. \A p \in q : p = <<p[1], p[2]>> /\ p[1] \in Elements(g)
  BY <1>4 DEF Focused
<1>6. /\ DOMAIN g = 1 .. Len(s) + 1 /\ DOMAIN s = 1 .. Len(s) /\ Len(s) \in Nat
      /\ \A i \in 1 .. Len(s) : g[i] = s[i]
      /\ g[Len(s) + 1] = d
  BY <1>2, <1>3
<1>7. ASSUME NEW i \in DOMAIN g, NEW j \in DOMAIN g, <<g[i], g[j]>> \in q, i <= j PROVE FALSE
  <2>1. CASE j = Len(s) + 1
    BY <1>6, <1>7, <2>1 DEF Focused
  <2>2. CASE j # Len(s) + 1
    <3>1. i \in DOMAIN s /\ j \in DOMAIN s /\ g[i] = s[i] /\ g[j] = s[j]
      BY <1>6, <1>7, <2>2
    <3>2. s[i] # d
      BY <1>2, <3>1 DEF Elements
    <3>3. <<s[i], s[j]>> \in r
      BY <1>7, <3>1, <3>2 DEF Focused
    <3>4. PICK k, l \in DOMAIN h : k <= l /\ s[i] = h[k] /\ s[j] = h[l]
      BY <1>1, <1>7, <3>1, OrderStays
    <3>5. l < k
      BY <3>3, <3>4
    <3> QED
      BY <3>4, <3>5
  <2> QED
    BY <2>1, <2>2
<1> QED
  BY <1>5, <1>6, <1>7

\* Calls that neither add nor remove a device nor change the focus.
LEMMA NothingFocused ==
  ASSUME FocusInv, LaterInv, Remember, UNCHANGED focusing
  PROVE  LaterInv' /\ RefocusMostRecent
<1>1. Removed = {} /\ later' = later
  BY DEF Remember, Removed, Existing, focusing
<1> QED
  BY <1>1 DEF LaterInv, RefocusMostRecent, focusing, Elements

\* Each step keeps the histories in agreement, and hands the focus on to the last survivor.
LEMMA LaterStep ==
  ASSUME FocusInv, LaterInv, Next, Remember
  PROVE  LaterInv' /\ RefocusMostRecent
<1> USE DEF FocusInv
<1>1. ASSUME NEW d \in Devices, AddDevice(d) PROVE LaterInv' /\ RefocusMostRecent
  <2>1. devices' = Append(devices, d) /\ devices \in Seq(Devices)
    BY <1>1 DEF AddDevice
  <2>2. Removed = {}
    BY <2>1 DEF Removed, Existing
  <2>3. CASE focus = NoDevice
    <3>1. focus' = d /\ focusHistory' = Recorded(focusHistory, d)
      BY <1>1, <2>3 DEF AddDevice
    <3>2. later' = Focused(later, d)
      BY <2>2, <2>3, <3>1 DEF Remember
    <3> QED
      BY <2>2, <2>3, <3>1, <3>2, LaterFocused DEF LaterInv, RefocusMostRecent
  <2>4. CASE focus # NoDevice
    <3>1. focus' = focus /\ focusHistory' = focusHistory
      BY <1>1, <2>4 DEF AddDevice
    <3>2. later' = later
      BY <2>2, <3>1 DEF Remember
    <3> QED
      BY <2>2, <3>1, <3>2 DEF LaterInv, RefocusMostRecent, Elements
  <2> QED
    BY <2>3, <2>4
<1>2. ASSUME NEW d \in Devices, SetFocusedDevice(d) PROVE LaterInv' /\ RefocusMostRecent
  <2>1. focus' = d /\ focusHistory' = Recorded(focusHistory, d) /\ focus # d /\ devices' = devices
    BY <1>2 DEF SetFocusedDevice
  <2>2. Removed = {}
    BY <2>1 DEF Removed, Existing
  <2>3. later' = Focused(later, d)
    BY <2>1, <2>2 DEF Remember
  <2> QED
    BY <2>1, <2>2, <2>3, LaterFocused DEF LaterInv, RefocusMostRecent
<1>3. ASSUME NEW d \in Devices, RemoveDevice(d) PROVE LaterInv' /\ RefocusMostRecent
  <2>1. PICK survivors, history :
          survivors = Without(devices, d) /\ history = Without(focusHistory, d)
    OBVIOUS
  <2>2. PICK heir : heir = Heir(history, survivors)
    OBVIOUS
  <2>3. /\ devices' = survivors /\ d \in Existing
        /\ focus' = IF focus = d THEN heir ELSE focus
        /\ focusHistory' = IF focus = d /\ heir # NoDevice THEN Recorded(history, heir)
                                                             ELSE history
    BY <1>3, <2>1, <2>2 DEF RemoveDevice, CalledFor
  <2>4. /\ survivors \in Seq(Devices) /\ Elements(survivors) = Elements(devices) \ {d}
        /\ history \in Seq(Devices) /\ Distinct(history)
        /\ Elements(history) = Elements(focusHistory) \ {d}
    BY <2>1, WithoutLemma
  <2>5. Removed = {d} /\ Existing' = Elements(survivors)
    <3>1. Existing = Elements(devices) /\ Existing' = Elements(devices')
      BY DEF Existing, Elements
    <3>2. Existing' = Existing \ {d} /\ d \in Existing
      BY <2>3, <2>4, <3>1, Zenon
    <3>3. Existing \ (Existing \ {d}) = {d}
      BY <3>2
    <3> QED
      BY <2>3, <3>1, <3>2, <3>3, Zenon DEF Removed
  <2>6. PICK r : r = Gone(later, d)
    OBVIOUS
  <2>7. later' = IF focus' \in {focus, NoDevice} THEN r ELSE Focused(r, focus')
    BY <2>5, <2>6 DEF Remember
  <2>8. /\ \A p \in r : p = <<p[1], p[2]>> /\ p[1] \in Elements(history)
        /\ \A i, j \in DOMAIN history : <<history[i], history[j]>> \in r => j < i
    BY <2>1, <2>6, LaterGone
  <2>9. /\ heir = NoDevice => Elements(survivors) = {}
        /\ heir # NoDevice => heir \in Elements(survivors) /\ heir \in Devices
    BY <2>2, <2>4, HeirLemma
  <2>10. LaterInv'
    <3>1. CASE focus = d /\ heir # NoDevice
      <4>1. focus' = heir /\ heir # d /\ focusHistory' = Recorded(history, heir)
        BY <2>3, <2>4, <2>9, <3>1
      <4>2. later' = Focused(r, heir)
        BY <2>7, <3>1, <4>1
      <4> QED
        BY <2>4, <2>8, <2>9, <3>1, <4>1, <4>2, LaterFocused DEF LaterInv
    <3>2. CASE ~(focus = d /\ heir # NoDevice)
      <4>1. focus' \in {focus, NoDevice} /\ focusHistory' = history /\ later' = r
        BY <2>3, <2>7, <3>2
      <4> QED
        BY <2>8, <4>1 DEF LaterInv
    <3> QED
      BY <3>1, <3>2
  <2>11. ASSUME focus = d, Existing' # {}
         PROVE  focus' \in Existing' /\ \A e \in Existing' : <<e, focus'>> \notin later
    <3>1. heir # NoDevice /\ focus' = heir /\ heir \in Existing' /\ heir # d
      BY <2>3, <2>4, <2>5, <2>9, <2>11
    <3>2. ASSUME NEW e \in Existing', <<e, heir>> \in later PROVE FALSE
      <4>1. e # d /\ <<e, heir>>[1] = e
        BY <2>4, <2>5
      <4>2. e \in Elements(history)
        BY <2>4, <3>2, <4>1 DEF LaterInv
      <4>3. PICK i \in DOMAIN history : history[i] = e
        BY <4>2 DEF Elements
      <4>4. history # <<>> /\ Len(history) \in DOMAIN history /\ history[Len(history)] = heir
        BY <2>2, <2>4, <4>3 DEF Heir
      <4>5. Len(history) < i
        BY <2>1, <3>2, <4>3, <4>4, LaterWithout
      <4> QED
        BY <2>4, <4>3, <4>5
    <3> QED
      BY <3>1, <3>2
  <2> QED
    BY <2>5, <2>10, <2>11 DEF RefocusMostRecent
<1>4. CASE UNCHANGED focusing
  BY <1>4, NothingFocused
<1> QED
  BY <1>1, <1>2, <1>3, <1>4 DEF Next, StartDevice, StopDevice, SetAudioDemod,
     DemodOff, EditStages, SetAudioOutputDevice, Shutdown, Crash, LateExit

\* For any devices in any order of calls: removing the focused device gives the focus to the
\* survivor that was focused last ("not an arbitrary one"), if one ever was.
THEOREM FocusIsHandedOn == MCSafetySpec => RefocusesMostRecent
<1>1. MCInit => FocusInv /\ LaterInv
  BY DEF MCInit, Init, FocusInv, LaterInv, Elements, Distinct
<1>2. FocusInv /\ LaterInv /\ [MCNext]_<<machine, vars, later, recordingVars>> =>
        FocusInv' /\ LaterInv' /\ [RefocusMostRecent]_<<vars, later>>
  <2> SUFFICES ASSUME FocusInv, LaterInv, [MCNext]_<<machine, vars, later, recordingVars>>
               PROVE  FocusInv' /\ LaterInv' /\ [RefocusMostRecent]_<<vars, later>>
    OBVIOUS
  <2>1. CASE Next /\ Remember
    BY <2>1, FocusInductive, LaterStep
  <2>2. CASE UNCHANGED <<vars, later>>
    BY <2>2, FocusInductive DEF LaterInv, Elements, vars, focusing
  <2>3. (Next /\ Remember) \/ UNCHANGED <<vars, later>>
    BY DEF MCNext
  <2> QED
    BY <2>1, <2>2, <2>3
<1> QED
  BY <1>1, <1>2, PTL DEF MCSafetySpec, RefocusesMostRecent
===============================================================================
